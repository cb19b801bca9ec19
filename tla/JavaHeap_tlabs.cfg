CONSTANTS
    d = d
    n = n
    Thread = {d, n}
    Native = {n}
    ThreadList <- MCList
    SmrList <- MCSmr
    WalkLimit = 1
    SmrLimit = 2
    Request <- MCRequest
    JavaWords = {2}
    StringBytes = 24
    Compact = TRUE
    TlabWords = 5
    HeapWords = 11
SPECIFICATION Spec
INVARIANTS WritesOwn StringsWhole
PROPERTY ImplementsAllocator
CONSTRAINT Defined
CHECK_DEADLOCK FALSE
