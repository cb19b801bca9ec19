SPECIFICATION Spec
CONSTANTS
    Method <- MCMethod
    WordValue <- MCWordValue
    LongValue <- MCLongValue
    Object = {4, 9}
    NarrowMax = 5
    Shift = {0, 1}
    IndexLimit = 2
    MaxLocals = 5
    Bases <- MCBases
    MaxGap = 2
    MaxDepth = {1, 3}
    MaxChanges = 2
INVARIANT ArgsDecoded
 
INVARIANT TraceSound
CHECK_DEADLOCK FALSE
