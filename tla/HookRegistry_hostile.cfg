\* Two methods, three addresses: a class is redefined or unloaded once, classes may be unlinked and the stub unpatchable.
SPECIFICATION FairSpec
CONSTANTS
    a = a
    b = b
    m1 = m1
    m2 = m2
    m3 = m3
    s1 = s1
    s2 = s2
    Method <- MCMethods3
    JavaMethod <- MCJava2
    Stub = {s1, s2}
    Handle = {}
    Caller = {d1}
    NoMethod = NoMethod
    NoHandle = NoHandle
    NoJava = NoJava
    StubOf <- MCStubOf2
    NameOf <- MCNameOf2
    SignatureOf <- MCSignatureOf2
    InitialTable <- MCTable2
    AdapterKnown = {m2, m3}
    Selected = {m3}
    LazyLink = TRUE
    InstallFaults = TRUE
    MaxDrift = 0
    MaxRedefine = 1
INVARIANTS NoHalfDeopt
PROPERTIES OnlyRemovalSilences FreedReanchored
