\* One thread registers while another shuts down.
SPECIFICATION FairWatchSpec
CONSTANTS
    w1 = w1
    w2 = w2
    w3 = w3
    Client = {c1, c2}
    Closer = {c2}
    Java = {j1}
    NKinds = 2
    Watch <- MCWatch
    KindOf <- MCKindOf
    NoThread = NoThread
    MaxShutdowns = 1
PROPERTY LatchesReset
CHECK_DEADLOCK FALSE
