\* Two methods that share a stub, two threads: the JIT drifts twice, nothing is redefined.
SPECIFICATION FairSpec
CONSTANTS
    a = a
    b = b
    m1 = m1
    m2 = m2
    m3 = m3
    s1 = s1
    s2 = s2
    Method <- MCMethods2
    JavaMethod <- MCJava2
    Stub = {s1, s2}
    Handle = {h1}
    Caller = {d1, d2}
    NoHandle = NoHandle
    NoMethod = NoMethod
    NoJava = NoJava
    StubOf <- MCStubOf2
    NameOf <- MCNameOf2
    SignatureOf <- MCSignatureOf2
    InitialTable <- MCTable2
    AdapterKnown = {m1}
    Selected = {m1}
    LazyLink = FALSE
    InstallFaults = FALSE
    MaxDrift = 2
    MaxRedefine = 0
INVARIANTS ClaimFires InhibitorsOwned
PROPERTIES StopExactly DriftRepaired
