\* Two threads that hook, stop and shut down, a Java thread, and watchdogs that may be late.
SPECIFICATION FairSpec
CONSTANTS
    Client = {c1, c2}
    Closer = {c1, c2}
    Java = {j1}
    Watchdog = {w1, w2}
    NoThread = NoThread
    MaxCalls = 4
INVARIANTS WatchdogHandover FlagKeepsOut Reversible
PROPERTIES ShutdownReturns
CHECK_DEADLOCK FALSE
