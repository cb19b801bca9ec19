CONSTANTS
    t1 = t1
    t2 = t2
    p1 = p1
    Thread = {t1, t2}
    Proxy = {p1}
    Method <- MCMethod
    Walk <- MCWalk
    Lookup <- MCLookup
    Argument <- MCArgument
    NoMethod = "null"
    MaxCalls = 2
    MaxRefs = 7
    Made = {"Foo"}
SPECIFICATION Spec
INVARIANTS RefsOwned ThreadSettled RightMethod ResultRight
SYMMETRY Threads
CHECK_DEADLOCK FALSE
