\* Watches come and go at any time, two of them on one field; a thread starts late, threads may be unreachable, memory may run out,
\* Windows may refuse the handler, and a mirror may move, between the reading of its address and the arming too.
SPECIFICATION Spec
CONSTANTS
    w1 = w1
    w2 = w2
    w3 = w3
    f1 = f1
    f2 = f2
    a1 = a1
    a2 = a2
    Field = {f1, f2}
    Watch = {w1, w2, w3}
    FieldOf <- MCFieldOf
    Thread = {t1, t2}
    Late = {t1, t2}
    Address = {a1, a2, a3}
    InitialHome <- MCHome
    NSlots = 2
    NoWatch = NoWatch
    NoAddress = NoAddress
    NoSlot = NoSlot
    MaxMoves = 1
SYMMETRY MCSymmetry
INVARIANTS SlotsBalanced NoStrayRegister EveryWriteReported EveryTrapHandled
PROPERTIES OwnFieldOnly
CHECK_DEADLOCK FALSE
