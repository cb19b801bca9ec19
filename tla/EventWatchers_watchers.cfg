\* Two client threads register and stop watches while one of them also shuts down.
SPECIFICATION FairWatchSpec
CONSTANTS
    w1 = w1
    w2 = w2
    w3 = w3
    Client = {c1, c2}
    Closer = {c1}
    Java = {j1}
    NKinds = 2
    Watch <- MCWatch
    KindOf <- MCKindOf
    NoThread = NoThread
    MaxShutdowns = 2
INVARIANTS RearmedFires NoLeftovers
PROPERTIES CallsReturn
CHECK_DEADLOCK FALSE
