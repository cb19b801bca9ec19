\* Two copies of vmhook and a foreign hooker on a stub with two places to patch.
\* With both places lost to failed removals nobody can install any more.
SPECIFICATION FairSpec
CONSTANTS
    Dll = {d1, d2}
    Foreign = {f1}
    Tramp = {t1, t2, t3}
    NSites = 2
    Original = Original
    Stub = Stub
    NoTramp = NoTramp
    MaxStomp = 2
    MaxMishap = 1
INVARIANTS ReturnsToStub StubRestored
PROPERTIES Coexist DestroyKeepsOthers StompRepaired
CHECK_DEADLOCK FALSE
