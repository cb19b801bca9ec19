SPECIFICATION FairWalkSpec
CONSTANTS
    Element <- MCElement
    Kind <- MCKind
    Buckets = 2
    MaxGuard = 3
    MaxVisited = 2
INVARIANT NothingLost
INVARIANT NoStrangers
PROPERTY WalkEnds
CHECK_DEADLOCK FALSE
VIEW MCView
