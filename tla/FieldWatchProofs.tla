-------------------------- MODULE FieldWatchProofs --------------------------
(***************************************************************************)
(* Proofs about FieldWatch, for all constants.  That slots, count and      *)
(* handler agree holds whatever threads do and whichever of them cannot be *)
(* reached; that every write is reported, as long as the process is calm.  *)
(***************************************************************************)
EXTENDS FieldWatch, FiniteSetTheorems, TLAPS

USE FieldWatchAssumption

LEMMA SlotFinite == IsFiniteSet(Slot)
  BY FS_Interval DEF Slot

-----------------------------------------------------------------------------
(* Type correctness.                                                       *)

ThreadState ==
    [pc : {"unborn", "run", "trap", "handler", "call", "crashed"},
     regs : Registers, record : Registers, dr6 : SUBSET Slot,
     field : Field, callback : Watch \cup {NoWatch}, owed : SUBSET Watch]

LEMMA IdleType == Idle \in ThreadState /\ Idle.pc = "run"
  <1>1. NoRegisters \in Registers
    BY DEF NoRegisters, Registers
  <1>2. (CHOOSE f \in Field : TRUE) \in Field
    OBVIOUS
  <1> QED
    BY <1>1, <1>2 DEF Idle, ThreadState

LEMMA TypeInit == Init => TypeOK
  <1> SUFFICES ASSUME Init PROVE TypeOK
    OBVIOUS
  <1>3. Idle \in ThreadState /\ Idle.pc = "run"
    BY IdleType
  <1>4. [Idle EXCEPT !.pc = "unborn"] \in ThreadState /\ [Idle EXCEPT !.pc = "unborn"].pc = "unborn"
    BY <1>3 DEF ThreadState
  <1>5. thread \in [Thread -> ThreadState]
    BY <1>3, <1>4 DEF Init
  <1>6. \A t \in Thread : thread[t].pc \in {"run", "unborn"}
    BY <1>3, <1>4 DEF Init
  <1> QED
    BY <1>5, <1>6 DEF Init, TypeOK, ThreadState, FreeSlot, Live

LEMMA SetRegisterType ==
  ASSUME TypeOK, NEW w \in Watch, NEW s \in Slot, NEW a \in Address \cup {NoAddress},
         SetRegister(w, s, a)
  PROVE  /\ thread' \in [Thread -> ThreadState] /\ calm' \in BOOLEAN
         /\ \A t \in Thread : thread'[t].pc = thread[t].pc /\ thread'[t].dr6 = thread[t].dr6
  <1>1. PICK ts \in SUBSET Thread :
           thread' = [t \in Thread |-> IF t \in ts THEN [thread[t] EXCEPT !.regs[s] = a]
                                                   ELSE thread[t]]
    BY DEF SetRegister
  <1>0. calm' \in BOOLEAN
    BY DEF SetRegister
  <1>2. ASSUME NEW t \in Thread
        PROVE  /\ thread'[t] \in ThreadState
               /\ thread'[t].pc = thread[t].pc /\ thread'[t].dr6 = thread[t].dr6
    <2>1. thread[t] \in ThreadState
      BY DEF TypeOK, ThreadState
    <2>2. [thread[t].regs EXCEPT ![s] = a] \in Registers
      BY <2>1 DEF ThreadState, Registers
    <2>3. [thread[t] EXCEPT !.regs[s] = a] = [thread[t] EXCEPT !.regs = [thread[t].regs EXCEPT ![s] = a]]
      BY <2>1 DEF ThreadState
    <2> QED
      BY <1>1, <2>1, <2>2, <2>3 DEF ThreadState
  <1> QED
    BY <1>0, <1>1, <1>2

\* The steps of one thread keep its record a thread state with a status bit
\* while it is in a trap.
LEMMA ThreadType ==
  ASSUME TypeOK, NEW t \in Thread,
         StartThread(t) \/ InHandler(t) \/ \E f \in Field : Write(t, f)
  PROVE  TypeOK'
  <1> USE DEF ThreadStep
  <1>0. thread \in [Thread -> ThreadState] /\ thread[t] \in ThreadState
    BY DEF TypeOK, ThreadState
  <1>1. /\ thread' \in [Thread -> ThreadState]
        /\ thread'[t].pc \in {"trap", "handler", "call"} => thread'[t].dr6 # {}
        /\ \A u \in Thread \ {t} : thread'[u] = thread[u]
    <2>1. CASE StartThread(t)
      BY <2>1, <1>0 DEF StartThread, ThreadState
    <2>2. CASE Dispatch(t)
      BY <2>2, <1>0 DEF Dispatch, ThreadState, TypeOK
    <2>3. CASE HandlerLock(t)
      <3>1. PICK s \in thread[t].dr6 :
               thread' = [thread EXCEPT ![t] = [@ EXCEPT !.pc = "call", !.callback = slots[s].owner]]
        BY <2>3 DEF HandlerLock
      <3>2. slots[s].owner \in Watch \cup {NoWatch}
        BY <1>0 DEF TypeOK, ThreadState
      <3> QED
        BY <2>3, <3>1, <3>2, <1>0 DEF HandlerLock, ThreadState, TypeOK
    <2>4. CASE Callback(t)
      BY <2>4, <1>0 DEF Callback, ThreadState, TypeOK
    <2>5. CASE Continue(t)
      <3>1. Idle \in ThreadState /\ Idle.pc = "run"
        BY IdleType
      <3> QED
        BY <2>5, <3>1, <1>0 DEF Continue, ThreadState, TypeOK
    <2>6. ASSUME NEW f \in Field, Write(t, f)
          PROVE  /\ thread' \in [Thread -> ThreadState]
                 /\ thread'[t].pc \in {"trap", "handler", "call"} => thread'[t].dr6 # {}
                 /\ \A u \in Thread \ {t} : thread'[u] = thread[u]
      <3> DEFINE hits == {s \in Slot : thread[t].regs[s] = home[f]}
                 due == {w \in Watch : calm /\ Live(w) /\ FieldOf[w] = f /\ t \in reach[w]}
      <3>1. due \in SUBSET Watch /\ hits \in SUBSET Slot /\ thread[t].pc = "run"
        BY <2>6 DEF Write
      <3> HIDE DEF hits, due
      <3>2. CASE hits = {} /\ thread' = [thread EXCEPT ![t].owed = due]
        BY <1>0, <3>1, <3>2 DEF ThreadState
      <3>3. CASE hits # {} /\ thread' = [thread EXCEPT ![t] =
                   [@ EXCEPT !.pc = "trap", !.record = thread[t].regs, !.dr6 = hits, !.field = f,
                             !.owed = due]]
        BY <1>0, <3>1, <3>3 DEF ThreadState
      <3> QED
        BY <2>6, <3>2, <3>3 DEF Write, hits, due
    <2> QED
      BY <2>1, <2>2, <2>3, <2>4, <2>5, <2>6 DEF InHandler
  <1>2. UNCHANGED <<slots, armed, veh, watch, found, slotOf, reach, home, calm, moves>>
    BY DEF StartThread, InHandler, Dispatch, HandlerLock, Callback, Continue, Write
  <1>3. \A u \in Thread : thread'[u].pc \in {"trap", "handler", "call"} => thread'[u].dr6 # {}
    BY <1>1 DEF TypeOK
  <1> QED
    BY <1>1, <1>2, <1>3 DEF TypeOK, ThreadState, Live

LEMMA TypeNext == TypeOK /\ [Next]_vars => TypeOK'
  <1> SUFFICES ASSUME TypeOK, [Next]_vars PROVE TypeOK'
    OBVIOUS
  <1>1. ASSUME NEW w \in Watch, WatchStaticField(w) PROVE TypeOK'
    <2>1. watch[w] = "found" /\ found[w] \in Address
      BY <1>1 DEF WatchStaticField, TypeOK
    <2>2. PICK s \in Slot :
            /\ ArmOne
            /\ slots' = [slots EXCEPT ![s] = [address |-> found[w], owner |-> w]]
            /\ SetRegister(w, s, found[w])
            /\ slotOf' = [slotOf EXCEPT ![w] = s]
      BY <1>1 DEF WatchStaticField, FindFreeSlot
    <2>3. /\ thread' \in [Thread -> ThreadState] /\ calm' \in BOOLEAN
          /\ \A t \in Thread : thread'[t].pc = thread[t].pc /\ thread'[t].dr6 = thread[t].dr6
      BY <2>1, <2>2, SetRegisterType
    <2>4. /\ slots' \in [Slot -> [address : Address \cup {NoAddress}, owner : Watch \cup {NoWatch}]]
          /\ armed' \in Nat /\ veh' \in {"none", "registered", "failed"}
          /\ slotOf' \in [Watch -> Slot \cup {NoSlot}]
      BY <2>1, <2>2 DEF TypeOK, ArmOne
    <2>5. /\ watch' \in [Watch -> {"new", "found", "running", "lost", "thrown", "refused", "stopped"}]
          /\ found' \in [Watch -> Address \cup {NoAddress}]
          /\ \A v \in Watch : watch'[v] = "found" => found'[v] # NoAddress
          /\ \A v \in Watch : Live(v)' => slotOf'[v] # NoSlot
          /\ reach' \in [Watch -> SUBSET Thread]
          /\ UNCHANGED <<home, moves>>
      <3>1. PICK r \in {"running", "lost"} : watch' = [watch EXCEPT ![w] = r]
        BY <1>1 DEF WatchStaticField
      <3>2. found' = [found EXCEPT ![w] = NoAddress]
        BY <1>1 DEF WatchStaticField
      <3>3. \A v \in Watch \ {w} : watch'[v] = watch[v] /\ found'[v] = found[v] /\ slotOf'[v] = slotOf[v]
        BY <2>2, <3>1, <3>2 DEF TypeOK
      <3>4. watch'[w] \in {"running", "lost"} /\ slotOf'[w] = s /\ s # NoSlot
        BY <2>2, <3>1 DEF TypeOK
      <3>5. /\ watch' \in [Watch -> {"new", "found", "running", "lost", "thrown", "refused", "stopped"}]
            /\ found' \in [Watch -> Address \cup {NoAddress}]
        BY <3>1, <3>2 DEF TypeOK
      <3>6. \A v \in Watch : watch'[v] = "found" => found'[v] # NoAddress
        BY <3>3, <3>4 DEF TypeOK
      <3>7. \A v \in Watch : Live(v)' => slotOf'[v] # NoSlot
        BY <3>3, <3>4 DEF TypeOK, Live
      <3>8. reach' \in [Watch -> SUBSET Thread] /\ UNCHANGED <<home, moves>>
        BY <1>1 DEF WatchStaticField, TypeOK
      <3> QED
        BY <3>5, <3>6, <3>7, <3>8
    <2> QED
      BY <2>3, <2>4, <2>5 DEF TypeOK, ThreadState
  <1>2. ASSUME NEW w \in Watch, WatchRefused(w) PROVE TypeOK'
    BY <1>2 DEF WatchRefused, TypeOK, Live
  <1>3. ASSUME NEW w \in Watch, Stop(w) PROVE TypeOK'
    <2>1. slotOf[w] \in Slot
      BY <1>3 DEF Stop, TypeOK, Live
    <2>2. /\ thread' \in [Thread -> ThreadState] /\ calm' \in BOOLEAN
          /\ \A t \in Thread : thread'[t].pc = thread[t].pc /\ thread'[t].dr6 = thread[t].dr6
      BY <1>3, <2>1, SetRegisterType DEF Stop
    <2>3. /\ slots' \in [Slot -> [address : Address \cup {NoAddress}, owner : Watch \cup {NoWatch}]]
          /\ armed' \in Nat /\ veh' \in {"none", "registered", "failed"}
      BY <1>3, <2>1 DEF Stop, TypeOK, UnarmOne, FreeSlot
    <2> QED
      BY <1>3, <2>2, <2>3 DEF Stop, TypeOK, ThreadState, Live
  <1>4. ASSUME NEW f \in Field, NEW a \in Address, MoveMirror(f, a) PROVE TypeOK'
    BY <1>4 DEF MoveMirror, TypeOK, Live
  <1>5. CASE UNCHANGED vars
    BY <1>5 DEF vars, TypeOK, Live
  <1>6. ASSUME NEW w \in Watch, FindField(w) PROVE TypeOK'
    <2>1. home[FieldOf[w]] \in Address
      BY DEF TypeOK
    <2>0. \E x \in {"found", "refused"} : watch' = [watch EXCEPT ![w] = x]
      BY <1>6 DEF FindField
    <2>5. watch' \in [Watch -> {"new", "found", "running", "lost", "thrown", "refused", "stopped"}]
      BY <2>0 DEF TypeOK
    <2>2. found' \in [Watch -> Address \cup {NoAddress}]
      BY <1>6, <2>1 DEF FindField, TypeOK
    <2>3. \A v \in Watch : watch'[v] = "found" => found'[v] # NoAddress
      BY <1>6, <2>1 DEF FindField, TypeOK
    <2>4. \A v \in Watch : Live(v)' => slotOf'[v] # NoSlot
      BY <1>6 DEF FindField, TypeOK, Live
    <2> QED
      BY <1>6, <2>2, <2>3, <2>4, <2>5 DEF FindField, TypeOK
  <1>7. ASSUME NEW w \in Watch, ArmThrows(w) PROVE TypeOK'
    <2>1. armed' \in Nat /\ veh' \in {"none", "registered", "failed"}
      BY <1>7 DEF ArmThrows, ArmOne, TypeOK
    <2> QED
      BY <1>7, <2>1 DEF ArmThrows, TypeOK, Live
  <1> QED
    BY <1>1, <1>2, <1>3, <1>4, <1>5, <1>6, <1>7, ThreadType DEF Next

\* For all constants: arming, stopping, trapping and continuing keep every slot,
\* handle, register and context record of its type, and a thread that reaches the
\* handler has a status bit to look up.
THEOREM TypeCorrect == Spec => []TypeOK
  BY TypeInit, TypeNext, PTL DEF Spec

-----------------------------------------------------------------------------
(* Slots, count and handler.                                               *)

SlotInv == TypeOK /\ SlotsOwned /\ HandlerBalanced /\ IsFiniteSet(Thrown)

Used == {s \in Slot : InUse(s)}

LEMMA Counts ==
  ASSUME SlotInv
  PROVE  /\ IsFiniteSet(Used) /\ Cardinality(Used) \in Nat /\ Cardinality(Thrown) \in Nat
         /\ armed = Cardinality(Used) + Cardinality(Thrown)
         /\ Used # {} => armed # 0
  <1>1. IsFiniteSet(Used)
    BY SlotFinite, FS_Subset DEF Used
  <1>2. Cardinality(Used) \in Nat /\ Cardinality(Thrown) \in Nat
    BY <1>1, FS_CardinalityType DEF SlotInv
  <1>3. armed = Cardinality(Used) + Cardinality(Thrown)
    BY DEF SlotInv, HandlerBalanced, Used
  <1>4. Used # {} => Cardinality(Used) # 0
    BY <1>1, FS_EmptySet
  <1> QED
    BY <1>1, <1>2, <1>3, <1>4

LEMMA SlotInit == Init => SlotInv
  <1> SUFFICES ASSUME Init PROVE SlotsOwned /\ HandlerBalanced /\ IsFiniteSet(Thrown)
    BY TypeInit DEF SlotInv
  <1>1. \A s \in Slot : ~InUse(s)
    BY DEF Init, InUse, FreeSlot
  <1>2. {s \in Slot : InUse(s)} = {} /\ Thrown = {}
    BY <1>1 DEF Init, Thrown
  <1> QED
    <2>1. SlotsOwned
      BY <1>1 DEF Init, SlotsOwned, Live
    <2>2. Cardinality({}) = 0 /\ IsFiniteSet({})
      BY FS_EmptySet
    <2>3. armed = 0 /\ veh = "none"
      BY DEF Init
    <2> QED
      BY <1>2, <2>1, <2>2, <2>3 DEF HandlerBalanced

LEMMA ArmSlot ==
  ASSUME SlotInv, TypeOK', NEW w \in Watch, WatchStaticField(w)
  PROVE  SlotsOwned' /\ HandlerBalanced' /\ IsFiniteSet(Thrown)'
  <1>1. PICK s \in Slot :
          /\ ~InUse(s)
          /\ ArmOne
          /\ slots' = [slots EXCEPT ![s] = [address |-> found[w], owner |-> w]]
          /\ slotOf' = [slotOf EXCEPT ![w] = s]
    BY DEF WatchStaticField, FindFreeSlot
  <1>2. PICK h \in {"running", "lost"} : watch[w] = "found" /\ watch' = [watch EXCEPT ![w] = h]
    BY DEF WatchStaticField
  <1>0. /\ slots'[s].owner = w /\ slotOf'[w] = s /\ Live(w)' /\ ~Live(w)
        /\ \A r \in Slot \ {s} : slots'[r] = slots[r]
        /\ \A v \in Watch \ {w} : slotOf'[v] = slotOf[v] /\ (Live(v)' <=> Live(v))
    BY <1>1, <1>2 DEF SlotInv, TypeOK, Live
  <1>3. SlotsOwned'
    <2>1. \A r \in Slot : InUse(r) => slots[r].owner \in Watch /\ slots[r].owner # w
      BY <1>0 DEF SlotInv, SlotsOwned, TypeOK, InUse
    <2>2. \A v \in Watch : Live(v) => slotOf[v] \in Slot /\ slotOf[v] # s
      BY <1>1 DEF SlotInv, SlotsOwned, TypeOK, InUse
    <2>3. ASSUME NEW v \in Watch, Live(v)' PROVE slots'[slotOf'[v]].owner = v
      <3>1. CASE v = w
        BY <3>1, <1>0
      <3>2. CASE v # w
        <4>1. Live(v) /\ slotOf'[v] = slotOf[v] /\ slots[slotOf[v]].owner = v
          BY <3>2, <2>3, <1>0 DEF SlotInv, SlotsOwned
        <4> QED
          BY <4>1, <2>2, <1>0
      <3> QED
        BY <3>1, <3>2
    <2>4. ASSUME NEW r \in Slot, InUse(r)'
          PROVE  Live(slots[r].owner)' /\ slotOf'[slots'[r].owner] = r
      <3>1. CASE r = s
        BY <3>1, <1>0
      <3>2. CASE r # s
        <4>1. InUse(r) /\ slots'[r] = slots[r]
          BY <3>2, <2>4, <1>0 DEF InUse
        <4>2. Live(slots[r].owner) /\ slotOf[slots[r].owner] = r
          BY <4>1 DEF SlotInv, SlotsOwned
        <4> QED
          BY <4>1, <4>2, <2>1, <1>0
      <3> QED
        BY <3>1, <3>2
    <2> QED
      BY <2>3, <2>4 DEF SlotsOwned
  <1>4. HandlerBalanced' /\ IsFiniteSet(Thrown)'
    <2>1. IsFiniteSet(Used) /\ s \notin Used
      BY <1>1, Counts DEF Used
    <2>2. Used' = Used \cup {s}
      BY <1>0 DEF Used, InUse
    <2>3. Cardinality(Used \cup {s}) = Cardinality(Used) + 1
      BY <2>1, FS_AddElement
    <2>4. Thrown' = Thrown
      BY <1>2 DEF Thrown, SlotInv, TypeOK
    <2>5. armed' = Cardinality(Used') + Cardinality(Thrown')
      BY <1>1, <2>2, <2>3, <2>4, Counts DEF ArmOne
    <2>6. armed' # 0 /\ veh' # "none"
      BY <1>1 DEF ArmOne, SlotInv, HandlerBalanced, TypeOK
    <2>7. IsFiniteSet(Thrown)'
      BY <2>4 DEF SlotInv
    <2> QED
      BY <2>5, <2>6, <2>7 DEF HandlerBalanced, Used
  <1> QED
    BY <1>3, <1>4

\* The count of a call that threw is taken for good.
LEMMA ThrowSlot ==
  ASSUME SlotInv, NEW w \in Watch, ArmThrows(w)
  PROVE  SlotsOwned' /\ HandlerBalanced' /\ IsFiniteSet(Thrown)'
  <1>1. /\ ArmOne /\ UNCHANGED <<slots, slotOf>>
        /\ watch[w] = "found" /\ watch' = [watch EXCEPT ![w] = "thrown"]
    BY DEF ArmThrows
  <1>2. \A v \in Watch : Live(v)' <=> Live(v)
    BY <1>1 DEF SlotInv, TypeOK, Live
  <1>3. \A s \in Slot : InUse(s)' <=> InUse(s)
    BY <1>1 DEF InUse
  <1>4. SlotsOwned'
    <2>1. ASSUME NEW v \in Watch, Live(v)' PROVE slots'[slotOf'[v]].owner = v
      BY <2>1, <1>1, <1>2 DEF SlotInv, SlotsOwned
    <2>2. ASSUME NEW s \in Slot, InUse(s)' PROVE Live(slots[s].owner)' /\ slotOf'[slots'[s].owner] = s
      <3>1. InUse(s) /\ slots[s].owner \in Watch
        BY <2>2, <1>3 DEF InUse, SlotInv, TypeOK
      <3>2. Live(slots[s].owner) /\ slotOf[slots[s].owner] = s
        BY <3>1 DEF SlotInv, SlotsOwned
      <3> QED
        BY <3>1, <3>2, <1>1, <1>2
    <2> QED
      BY <2>1, <2>2 DEF SlotsOwned
  <1>5. Used' = Used
    BY <1>3 DEF Used
  <1>6. Thrown' = Thrown \cup {w} /\ w \notin Thrown
    BY <1>1 DEF Thrown, SlotInv, TypeOK
  <1>7. IsFiniteSet(Thrown') /\ Cardinality(Thrown') = Cardinality(Thrown) + 1
    BY <1>6, FS_AddElement DEF SlotInv
  <1>8. armed' = Cardinality(Used') + Cardinality(Thrown')
    BY <1>1, <1>5, <1>7, Counts DEF ArmOne
  <1>9. armed' # 0 /\ veh' # "none"
    BY <1>1 DEF ArmOne, SlotInv, HandlerBalanced, TypeOK
  <1> QED
    BY <1>4, <1>7, <1>8, <1>9 DEF HandlerBalanced, Used

LEMMA StopSlot ==
  ASSUME SlotInv, TypeOK', NEW w \in Watch, Stop(w)
  PROVE  SlotsOwned' /\ HandlerBalanced' /\ IsFiniteSet(Thrown)'
  <1> DEFINE s == slotOf[w]
  <1>1. /\ watch[w] = "running" /\ watch' = [watch EXCEPT ![w] = "stopped"]
        /\ s \in Slot /\ slots[s].owner = w
        /\ slots' = [slots EXCEPT ![s] = FreeSlot]
        /\ UNCHANGED slotOf
        /\ UnarmOne
    BY DEF Stop, SlotInv, SlotsOwned, TypeOK, Live
  <1>2. \A r \in Slot : InUse(r)' <=> InUse(r) /\ r # s
    BY <1>1 DEF SlotInv, TypeOK, InUse, FreeSlot
  <1>0. ~Live(w)' /\ \A v \in Watch \ {w} : Live(v)' <=> Live(v)
    BY <1>1 DEF SlotInv, TypeOK, Live
  <1>3. SlotsOwned'
    <2>1. ASSUME NEW v \in Watch, Live(v)'
          PROVE  slots'[slotOf'[v]].owner = v
      <3>1. v # w /\ Live(v)
        BY <1>0, <2>1
      <3>2. slots[slotOf[v]].owner = v /\ slotOf[v] \in Slot
        BY <3>1 DEF SlotInv, SlotsOwned, TypeOK
      <3> QED
        BY <1>1, <3>1, <3>2 DEF SlotInv, TypeOK
    <2>2. ASSUME NEW r \in Slot, InUse(r)'
          PROVE  Live(slots[r].owner)' /\ slotOf'[slots'[r].owner] = r
      <3>1. InUse(r) /\ r # s
        BY <1>2, <2>2
      <3>2. Live(slots[r].owner) /\ slotOf[slots[r].owner] = r
        BY <3>1 DEF SlotInv, SlotsOwned
      <3>3. slots'[r] = slots[r] /\ slots[r].owner \in Watch /\ slots[r].owner # w
        BY <1>1, <3>1, <3>2 DEF SlotInv, TypeOK, InUse
      <3> QED
        BY <1>0, <1>1, <3>2, <3>3
    <2> QED
      BY <2>1, <2>2 DEF SlotsOwned
  <1>4. HandlerBalanced' /\ IsFiniteSet(Thrown)'
    <2>1. IsFiniteSet(Used) /\ s \in Used
      BY <1>1, Counts DEF InUse, Used
    <2>2. Used' = Used \ {s}
      BY <1>2 DEF Used
    <2>3. Cardinality(Used \ {s}) = Cardinality(Used) - 1
      BY <2>1, FS_RemoveElement
    <2>4. Thrown' = Thrown
      BY <1>1 DEF Thrown, SlotInv, TypeOK
    <2>5. armed # 0 /\ armed \in Nat /\ veh # "none"
      BY <2>1, Counts DEF SlotInv, HandlerBalanced, TypeOK
    <2>6. armed' = armed - 1 /\ veh' = IF armed = 1 THEN "none" ELSE veh
      BY <1>1, <2>5 DEF UnarmOne
    <2>7. armed' = Cardinality(Used') + Cardinality(Thrown')
      BY <2>2, <2>3, <2>4, <2>6, Counts
    <2>8. veh' = "none" <=> armed' = 0
      BY <2>5, <2>6
    <2>9. IsFiniteSet(Thrown)'
      BY <2>4 DEF SlotInv
    <2> QED
      BY <2>7, <2>8, <2>9 DEF HandlerBalanced, Used
  <1> QED
    BY <1>3, <1>4

\* A call that finds its field, or is refused, takes nothing.
LEMMA SlotKept ==
  ASSUME SlotInv, UNCHANGED <<slots, armed, veh, slotOf>>,
         \A v \in Watch : (Live(v)' <=> Live(v)) /\ (watch'[v] = "thrown" <=> watch[v] = "thrown")
  PROVE  SlotsOwned' /\ HandlerBalanced' /\ IsFiniteSet(Thrown)'
  <1>1. Thrown' = Thrown
    BY DEF Thrown
  <1>2. SlotsOwned'
    <2>1. \A v \in Watch : Live(v)' => slots'[slotOf'[v]].owner = v
      BY DEF SlotInv, SlotsOwned
    <2>2. ASSUME NEW s \in Slot, InUse(s)' PROVE Live(slots[s].owner)' /\ slotOf'[slots'[s].owner] = s
      <3>1. InUse(s) /\ slots[s].owner \in Watch
        BY <2>2 DEF InUse, SlotInv, TypeOK
      <3>2. Live(slots[s].owner) /\ slotOf[slots[s].owner] = s
        BY <3>1 DEF SlotInv, SlotsOwned
      <3> QED
        BY <3>1, <3>2
    <2> QED
      BY <2>1, <2>2 DEF SlotsOwned
  <1>3. HandlerBalanced' /\ IsFiniteSet(Thrown)'
    BY <1>1 DEF SlotInv, HandlerBalanced, InUse
  <1> QED
    BY <1>2, <1>3

LEMMA SlotNext == SlotInv /\ [Next]_vars => SlotInv'
  <1> SUFFICES ASSUME SlotInv, [Next]_vars PROVE SlotsOwned' /\ HandlerBalanced' /\ IsFiniteSet(Thrown)'
    BY TypeNext DEF SlotInv
  <1>0. TypeOK'
    BY TypeNext DEF SlotInv
  <1> DEFINE Goal == SlotsOwned' /\ HandlerBalanced' /\ IsFiniteSet(Thrown)'
  <1>1. CASE UNCHANGED <<slots, armed, veh, slotOf, watch>>
    <2>1. \A v \in Watch : (Live(v)' <=> Live(v)) /\ (watch'[v] = "thrown" <=> watch[v] = "thrown")
      BY <1>1 DEF Live
    <2> QED
      BY <1>1, <2>1, SlotKept
  <1>2. ASSUME NEW w \in Watch, WatchStaticField(w) PROVE Goal
    BY <1>0, <1>2, ArmSlot
  <1>3. ASSUME NEW w \in Watch, FindField(w) \/ WatchRefused(w) PROVE Goal
    <2>1. /\ UNCHANGED <<slots, armed, veh, slotOf>> /\ watch[w] \in {"new", "found"}
          /\ \E x \in {"found", "refused"} : watch' = [watch EXCEPT ![w] = x]
      BY <1>3 DEF FindField, WatchRefused
    <2>2. \A v \in Watch : (Live(v)' <=> Live(v)) /\ (watch'[v] = "thrown" <=> watch[v] = "thrown")
      BY <2>1 DEF SlotInv, TypeOK, Live
    <2> QED
      BY <2>1, <2>2, SlotKept
  <1>4. ASSUME NEW w \in Watch, Stop(w) PROVE Goal
    BY <1>0, <1>4, StopSlot
  <1>5. ASSUME NEW t \in Thread, StartThread(t) \/ InHandler(t) \/ \E f \in Field : Write(t, f)
        PROVE  UNCHANGED <<slots, armed, veh, slotOf, watch>>
    BY <1>5 DEF StartThread, InHandler, Dispatch, HandlerLock, Callback, Continue, Write, ThreadStep
  <1>6. ASSUME NEW f \in Field, NEW a \in Address, MoveMirror(f, a)
        PROVE  UNCHANGED <<slots, armed, veh, slotOf, watch>>
    BY <1>6 DEF MoveMirror
  <1>7. CASE UNCHANGED vars
    BY <1>1, <1>7 DEF vars
  <1>8. ASSUME NEW w \in Watch, ArmThrows(w) PROVE Goal
    BY <1>8, ThrowSlot
  <1> QED
    BY <1>1, <1>2, <1>3, <1>4, <1>5, <1>6, <1>7, <1>8 DEF Next

\* Slots, count and handler balance at every moment, with exceptions and refusals:
\* watch_static_field() and stop() hand no slot out twice, and the handler is taken away
\* with the last count only.
THEOREM Balanced == Spec => []SlotsBalanced
  BY SlotInit, SlotNext, PTL DEF Spec, SlotInv, SlotsBalanced

-----------------------------------------------------------------------------
(* A calm process.                                                         *)

\* Fields do not overlap, and no two armed watches are on one field.
Apart ==
    /\ \A f, g \in Field : home[f] = home[g] => f = g
    /\ \A v, w \in Watch :
          Live(v) /\ Live(w) /\ FieldOf[v] = FieldOf[w] => v = w

SlotAddress ==
    \A s \in Slot : InUse(s) => slots[s].address = home[FieldOf[slots[s].owner]]

\* An armed watch is so on every thread that was alive when it was armed.
Covered ==
    \A w \in Watch : Live(w) =>
        \A t \in reach[w] : thread[t].regs[slotOf[w]] = home[FieldOf[w]]

\* A trap has one status bit, of a slot that watches the field written, and owes
\* the write to the watch of that slot at most.
TrapExact(t) ==
    \E s \in Slot :
        /\ thread[t].dr6 = {s} /\ InUse(s) /\ slots[s].address = home[thread[t].field]
        /\ thread[t].owed \subseteq {slots[s].owner}
        /\ thread[t].callback \in {NoWatch, slots[s].owner}
        /\ thread[t].pc = "call" /\ thread[t].callback = NoWatch => thread[t].owed = {}

ThreadCalm(t) ==
    /\ InTrap(t) => thread[t].record = thread[t].regs /\ TrapExact(t)
    /\ ~InTrap(t) => thread[t].owed = {} /\ thread[t].callback = NoWatch
    /\ thread[t].pc = "unborn" => \A s \in Slot : thread[t].regs[s] = NoAddress
    /\ thread[t].pc # "crashed"

CalmInv ==
    /\ SlotInv /\ calm
    /\ Apart
    /\ SlotAddress
    /\ NoStrayRegister
    /\ Covered
    /\ Used # {} => veh = "registered"
    /\ \A t \in Thread : ThreadCalm(t)

LEMMA CalmInit == Init => CalmInv
  <1> SUFFICES ASSUME Init PROVE CalmInv
    OBVIOUS
  <1>1. SlotInv
    BY SlotInit
  <1>2. \A s \in Slot : ~InUse(s)
    BY DEF Init, InUse, FreeSlot
  <1>3. ASSUME NEW t \in Thread
        PROVE  /\ thread[t].pc \in {"run", "unborn"}
               /\ thread[t].owed = {} /\ thread[t].callback = NoWatch
               /\ \A s \in Slot : thread[t].regs[s] = NoAddress
    BY DEF Init, Idle, NoRegisters
  <1>4. SlotAddress /\ NoStrayRegister /\ Covered /\ Apart /\ calm
    BY <1>2, <1>3 DEF Init, SlotAddress, NoStrayRegister, Covered, Apart, Live
  <1>6. Used = {}
    BY <1>2 DEF Used
  <1>5. \A t \in Thread : ThreadCalm(t)
    BY <1>3 DEF ThreadCalm, InTrap
  <1> QED
    BY <1>1, <1>4, <1>5, <1>6 DEF CalmInv

LEMMA SetRegisterAll ==
  ASSUME TypeOK, calm', NEW w \in Watch, NEW s \in Slot, NEW a \in Address \cup {NoAddress},
         SetRegister(w, s, a), NEW t \in Thread
  PROVE  /\ thread'[t].pc = thread[t].pc /\ thread'[t].owed = thread[t].owed
         /\ thread'[t].callback = thread[t].callback
         /\ \A r \in Slot : thread'[t].regs[r] = IF Alive(t) /\ r = s THEN a ELSE thread[t].regs[r]
  <1>1. PICK ts \in SUBSET Thread :
           /\ calm' = (calm /\ Undisturbed(w, ts))
           /\ thread' = [u \in Thread |-> IF u \in ts THEN [thread[u] EXCEPT !.regs[s] = a]
                                                      ELSE thread[u]]
    BY DEF SetRegister
  <1>2. t \in ts <=> Alive(t)
    BY <1>1 DEF Undisturbed
  <1>3. thread[t] \in ThreadState
    BY DEF TypeOK, ThreadState
  <1>4. [thread[t] EXCEPT !.regs[s] = a] = [thread[t] EXCEPT !.regs = [thread[t].regs EXCEPT ![s] = a]]
    BY <1>3 DEF ThreadState
  <1> QED
    BY <1>1, <1>2, <1>3, <1>4 DEF ThreadState, Registers

\* Arming and stopping a watch while no thread is in a trap.
LEMMA CalmArm ==
  ASSUME calm', CalmInv, SlotInv', NEW w \in Watch, WatchStaticField(w)
  PROVE  CalmInv'
  <1> DEFINE a == home[FieldOf[w]]
  <1>1. PICK s \in Slot :
          /\ ~InUse(s)
          /\ slots' = [slots EXCEPT ![s] = [address |-> found[w], owner |-> w]]
          /\ SetRegister(w, s, found[w])
          /\ slotOf' = [slotOf EXCEPT ![w] = s]
    BY DEF WatchStaticField, FindFreeSlot
  <1>12. found[w] = a /\ veh' = "registered"
    BY <1>1 DEF WatchStaticField, SetRegister, Undisturbed
  <1>2. /\ TypeOK /\ TypeOK' /\ SlotsOwned
        /\ reach' = [reach EXCEPT ![w] = {t \in Thread : Alive(t)}]
        /\ UNCHANGED home /\ Quiet
        /\ \A v \in Watch \ {w} : Live(v) => FieldOf[v] # FieldOf[w]
    BY <1>1 DEF WatchStaticField, CalmInv, SlotInv, SetRegister, Undisturbed
  <1>10. PICK h \in {"running", "lost"} : watch[w] = "found" /\ watch' = [watch EXCEPT ![w] = h]
    BY DEF WatchStaticField
  <1>11. Live(w)' /\ ~Live(w) /\ \A v \in Watch \ {w} : Live(v)' <=> Live(v)
    BY <1>2, <1>10 DEF TypeOK, Live
  <1>3. a \in Address /\ a # NoAddress
    BY <1>2 DEF TypeOK
  <1>4. ASSUME NEW t \in Thread
        PROVE  /\ thread'[t].pc = thread[t].pc /\ thread'[t].owed = thread[t].owed
               /\ thread'[t].callback = thread[t].callback
               /\ \A r \in Slot : thread'[t].regs[r] = IF Alive(t) /\ r = s THEN a ELSE thread[t].regs[r]
    BY <1>1, <1>2, <1>3, <1>12, SetRegisterAll
  <1>5. SlotAddress'
    BY <1>1, <1>2, <1>12 DEF CalmInv, SlotAddress, InUse, TypeOK
  <1>6. NoStrayRegister'
    <2> SUFFICES ASSUME NEW t \in Thread, NEW r \in Slot, thread'[t].regs[r] # NoAddress
                 PROVE  InUse(r)' /\ thread'[t].regs[r] = slots'[r].address
      BY DEF NoStrayRegister
    <2>1. CASE r = s /\ Alive(t)
      BY <2>1, <1>1, <1>2, <1>4, <1>12 DEF InUse, TypeOK
    <2>2. CASE ~(r = s /\ Alive(t))
      <3>1. InUse(r) /\ thread[t].regs[r] = slots[r].address /\ thread'[t].regs[r] = thread[t].regs[r]
        BY <2>2, <1>4 DEF CalmInv, NoStrayRegister
      <3> QED
        BY <3>1, <1>1, <1>2 DEF InUse, TypeOK
    <2> QED
      BY <2>1, <2>2
  <1>7. Covered'
    <2> SUFFICES ASSUME NEW v \in Watch, Live(v)', NEW t \in reach'[v]
                 PROVE  thread'[t].regs[slotOf'[v]] = home'[FieldOf[v]]
      BY DEF Covered
    <2>1. t \in Thread
      BY <1>2 DEF TypeOK
    <2>2. CASE v = w
      BY <2>1, <2>2, <1>1, <1>2, <1>4 DEF TypeOK
    <2>3. CASE v # w
      <3>1. Live(v) /\ t \in reach[v] /\ slotOf'[v] = slotOf[v]
        BY <2>3, <1>1, <1>2, <1>11 DEF TypeOK
      <3>2. slotOf[v] \in Slot /\ slotOf[v] # s
        BY <3>1, <1>1, <1>2 DEF TypeOK, SlotsOwned, InUse
      <3> QED
        BY <2>1, <3>1, <3>2, <1>2, <1>4 DEF CalmInv, Covered
    <2> QED
      BY <2>2, <2>3
  <1>8. ASSUME NEW t \in Thread PROVE ThreadCalm(t)'
    BY <1>2, <1>4 DEF CalmInv, ThreadCalm, InTrap, Quiet, Alive
  <1>9. Apart'
    BY <1>2, <1>11 DEF CalmInv, Apart, TypeOK
  <1> QED
    BY <1>5, <1>6, <1>7, <1>8, <1>9, <1>12 DEF CalmInv

LEMMA CalmStop ==
  ASSUME calm', CalmInv, SlotInv', NEW w \in Watch, Stop(w)
  PROVE  CalmInv'
  <1> DEFINE s == slotOf[w]
  <1>1. /\ TypeOK /\ TypeOK' /\ SlotsOwned
        /\ watch[w] = "running" /\ watch' = [watch EXCEPT ![w] = "stopped"]
        /\ s \in Slot /\ slots[s].owner = w
        /\ slots' = [slots EXCEPT ![s] = FreeSlot]
        /\ SetRegister(w, s, NoAddress)
        /\ reach' = [reach EXCEPT ![w] = {}]
        /\ UNCHANGED <<slotOf, home>> /\ Quiet
    <2>1. Quiet
      BY DEF Stop, SetRegister, Undisturbed
    <2> QED
      BY <2>1 DEF Stop, CalmInv, SlotInv, SlotsOwned, TypeOK, Live
  <1>9. ~Live(w)' /\ \A v \in Watch \ {w} : Live(v)' <=> Live(v)
    BY <1>1 DEF TypeOK, Live
  <1>10. Used' # {} => veh' = "registered"
    <2>1. HandlerBalanced' /\ (Used' # {} => armed' # 0)
      <3>1. (SlotInv => (Used # {} => armed # 0))'
        BY Counts, PTL
      <3> QED
        BY <3>1 DEF SlotInv
    <2>2. Used # {}
      BY <1>1 DEF Used, InUse, TypeOK
    <2>3. veh = "registered" /\ (veh' = "none" \/ veh' = veh)
      BY <2>2 DEF CalmInv, Stop, UnarmOne
    <2> QED
      BY <2>1, <2>3 DEF HandlerBalanced
  <1>2. ASSUME NEW t \in Thread
        PROVE  /\ thread'[t].pc = thread[t].pc /\ thread'[t].owed = thread[t].owed
               /\ thread'[t].callback = thread[t].callback
               /\ \A r \in Slot : thread'[t].regs[r] =
                     IF Alive(t) /\ r = s THEN NoAddress ELSE thread[t].regs[r]
    BY <1>1, SetRegisterAll
  <1>3. \A r \in Slot : r # s => slots'[r] = slots[r]
    BY <1>1 DEF TypeOK
  <1>4. SlotAddress'
    BY <1>1, <1>3 DEF CalmInv, SlotAddress, InUse, FreeSlot, TypeOK
  <1>5. NoStrayRegister'
    <2> SUFFICES ASSUME NEW t \in Thread, NEW r \in Slot, thread'[t].regs[r] # NoAddress
                 PROVE  InUse(r)' /\ thread'[t].regs[r] = slots'[r].address
      BY DEF NoStrayRegister
    <2>1. thread'[t].regs[r] = thread[t].regs[r] /\ r # s
      BY <1>2 DEF CalmInv, ThreadCalm, Alive
    <2> QED
      BY <2>1, <1>3 DEF CalmInv, NoStrayRegister, InUse
  <1>6. Covered'
    <2> SUFFICES ASSUME NEW v \in Watch, Live(v)', NEW t \in reach'[v]
                 PROVE  thread'[t].regs[slotOf'[v]] = home'[FieldOf[v]]
      BY DEF Covered
    <2>1. t \in Thread /\ v # w /\ Live(v) /\ t \in reach[v]
      BY <1>1, <1>9 DEF TypeOK
    <2>2. slotOf[v] \in Slot /\ slotOf[v] # s
      BY <2>1, <1>1 DEF TypeOK, SlotsOwned
    <2> QED
      BY <2>1, <2>2, <1>1, <1>2 DEF CalmInv, Covered
  <1>7. ASSUME NEW t \in Thread PROVE ThreadCalm(t)'
    BY <1>1, <1>2 DEF CalmInv, ThreadCalm, InTrap, Quiet, Alive
  <1>8. Apart'
    BY <1>1, <1>9 DEF CalmInv, Apart, TypeOK
  <1> QED
    BY <1>4, <1>5, <1>6, <1>7, <1>8, <1>10 DEF CalmInv

\* A step of one thread that keeps its registers and leaves it calm keeps CalmInv.
LEMMA CalmThread ==
  ASSUME CalmInv, SlotInv', NEW t \in Thread, ThreadStep,
         \A u \in Thread \ {t} : thread'[u] = thread[u],
         thread'[t].regs = thread[t].regs,
         ThreadCalm(t)'
  PROVE  CalmInv'
  <1>1. UNCHANGED <<slots, armed, veh, watch, found, slotOf, reach, home, calm, moves>>
    BY DEF ThreadStep
  <1>2. \A u \in Thread : thread'[u].regs = thread[u].regs
    OBVIOUS
  <1>3. SlotAddress'
    BY <1>1 DEF CalmInv, SlotAddress, InUse
  <1>4. NoStrayRegister'
    BY <1>1, <1>2 DEF CalmInv, NoStrayRegister, InUse
  <1>5. Covered'
    <2>1. \A v \in Watch : reach[v] \subseteq Thread
      BY DEF CalmInv, SlotInv, TypeOK
    <2> QED
      BY <1>1, <1>2, <2>1 DEF CalmInv, Covered, Live
  <1>6. ASSUME NEW u \in Thread \ {t} PROVE ThreadCalm(u)'
    BY <1>1 DEF CalmInv, ThreadCalm, TrapExact, InTrap, InUse
  <1>7. Apart' /\ calm'
    BY <1>1 DEF CalmInv, Apart, Live
  <1>8. Used' # {} => veh' = "registered"
    BY <1>1 DEF CalmInv, Used, InUse
  <1> QED
    BY <1>3, <1>4, <1>5, <1>6, <1>7, <1>8 DEF CalmInv

LEMMA CalmWrite ==
  ASSUME CalmInv, SlotInv', NEW t \in Thread, NEW f \in Field, Write(t, f)
  PROVE  CalmInv'
  <1> DEFINE hits == {s \in Slot : thread[t].regs[s] = home[f]}
             owed == {w \in Watch : calm /\ Live(w) /\ FieldOf[w] = f /\ t \in reach[w]}
  <1>0. /\ TypeOK /\ SlotsOwned /\ SlotAddress /\ NoStrayRegister /\ Covered /\ ThreadCalm(t)
        /\ Apart /\ calm /\ ThreadStep
        /\ thread[t] \in ThreadState
    BY DEF CalmInv, SlotInv, TypeOK, ThreadState, Write
  <1>1. thread[t].pc = "run" /\ \A u \in Thread \ {t} : thread'[u] = thread[u]
    BY <1>0 DEF Write, TypeOK
  <1>2. /\ thread'[t].regs = thread[t].regs /\ thread'[t].owed = owed
        /\ thread'[t].callback = NoWatch
        /\ hits = {} => thread'[t].pc = "run"
        /\ hits # {} => /\ thread'[t].pc = "trap" /\ thread'[t].record = thread[t].regs
                        /\ thread'[t].dr6 = hits /\ thread'[t].field = f
    <2>1. thread[t].callback = NoWatch
      BY <1>0, <1>1 DEF ThreadCalm, InTrap
    <2>2. CASE hits = {}
      <3>1. thread' = [thread EXCEPT ![t].owed = owed]
        BY <2>2 DEF Write
      <3> QED
        BY <1>0, <1>1, <2>1, <2>2, <3>1 DEF TypeOK, ThreadState
    <2>3. CASE hits # {}
      <3>1. thread' = [thread EXCEPT ![t] = [@ EXCEPT !.pc = "trap", !.record = thread[t].regs,
                                                      !.dr6 = hits, !.field = f, !.owed = owed]]
        BY <2>3 DEF Write
      <3> QED
        BY <1>0, <2>1, <2>3, <3>1 DEF TypeOK, ThreadState
    <2> QED
      BY <2>2, <2>3
  <1>3. ASSUME NEW s \in hits
        PROVE  /\ InUse(s) /\ slots[s].address = home[f]
               /\ slots[s].owner \in Watch /\ FieldOf[slots[s].owner] = f
               /\ slotOf[slots[s].owner] = s
    <2>1. home[f] # NoAddress
      BY <1>0 DEF TypeOK
    <2>2. InUse(s) /\ slots[s].address = home[f]
      BY <1>0, <2>1 DEF NoStrayRegister
    <2>3. slots[s].owner \in Watch /\ slotOf[slots[s].owner] = s
      BY <1>0, <2>2 DEF InUse, TypeOK, SlotsOwned
    <2>4. home[FieldOf[slots[s].owner]] = home[f]
      BY <1>0, <2>2 DEF SlotAddress
    <2> QED
      BY <1>0, <2>2, <2>3, <2>4 DEF Apart
  <1>4. ASSUME NEW w \in owed PROVE slotOf[w] \in hits /\ slots[slotOf[w]].owner = w
    BY <1>0 DEF Covered, SlotsOwned, TypeOK
  <1>5. \A r, s \in hits : r = s
    <2> SUFFICES ASSUME NEW r \in hits, NEW s \in hits PROVE r = s
      OBVIOUS
    <2>1. Live(slots[r].owner) /\ Live(slots[s].owner)
      BY <1>0, <1>3 DEF SlotsOwned
    <2>2. slots[r].owner = slots[s].owner
      BY <1>0, <1>3, <2>1 DEF Apart
    <2> QED
      BY <1>3, <2>2
  <1>6. ThreadCalm(t)'
    <2>1. CASE hits = {}
      <3>1. owed = {}
        BY <1>4, <2>1
      <3> QED
        BY <1>2, <2>1, <3>1 DEF ThreadCalm, InTrap
    <2>2. CASE hits # {}
      <3>1. PICK s \in hits : hits = {s}
        BY <2>2, <1>5
      <3>2. owed \subseteq {slots[s].owner}
        BY <1>4, <3>1
      <3>3. UNCHANGED <<slots, home>>
        BY <1>0 DEF ThreadStep
      <3>4. TrapExact(t)'
        BY <1>2, <1>3, <2>2, <3>1, <3>2, <3>3 DEF TrapExact, InUse
      <3> QED
        BY <1>2, <2>2, <3>4 DEF ThreadCalm, InTrap
    <2> QED
      BY <2>1, <2>2
  <1> QED
    BY <1>0, <1>1, <1>2, <1>6, CalmThread

LEMMA CalmHandler ==
  ASSUME CalmInv, SlotInv', NEW t \in Thread, InHandler(t)
  PROVE  CalmInv'
  <1>0. /\ TypeOK /\ HandlerBalanced /\ ThreadCalm(t)
        /\ thread[t] \in ThreadState
    BY DEF CalmInv, SlotInv, TypeOK, ThreadState
  <1>1. ThreadStep /\ UNCHANGED <<slots, home>>
    BY DEF InHandler, Dispatch, HandlerLock, Callback, Continue, ThreadStep
  <1>2. InTrap(t) /\ thread[t].record = thread[t].regs /\ TrapExact(t)
    BY <1>0 DEF InHandler, Dispatch, HandlerLock, Callback, Continue, ThreadCalm, InTrap
  <1>3. PICK s \in Slot :
          /\ thread[t].dr6 = {s} /\ InUse(s) /\ slots[s].address = home[thread[t].field]
          /\ thread[t].owed \subseteq {slots[s].owner}
          /\ thread[t].callback \in {NoWatch, slots[s].owner}
          /\ thread[t].pc = "call" /\ thread[t].callback = NoWatch => thread[t].owed = {}
    BY <1>2 DEF TrapExact
  <1>4. /\ \A u \in Thread \ {t} : thread'[u] = thread[u]
        /\ thread'[t].regs = thread[t].regs
        /\ ThreadCalm(t)'
    <2>1. CASE Dispatch(t)
      <3>1. veh = "registered"
        BY <1>3 DEF CalmInv, Used
      <3>2. thread' = [thread EXCEPT ![t].pc = "handler"]
        BY <2>1, <3>1 DEF Dispatch
      <3> QED
        BY <1>0, <1>1, <1>2, <1>3, <3>2 DEF TypeOK, ThreadState, ThreadCalm, TrapExact, InTrap, InUse
    <2>2. CASE HandlerLock(t)
      <3>1. thread' = [thread EXCEPT ![t] = [@ EXCEPT !.pc = "call", !.callback = slots[s].owner]]
        BY <2>2, <1>3 DEF HandlerLock
      <3>2. /\ thread'[t].pc = "call" /\ thread'[t].callback = slots[s].owner
            /\ thread'[t].dr6 = {s} /\ thread'[t].field = thread[t].field
            /\ thread'[t].owed = thread[t].owed /\ thread'[t].record = thread[t].record
            /\ thread'[t].regs = thread[t].regs
            /\ \A u \in Thread \ {t} : thread'[u] = thread[u]
        BY <1>0, <1>3, <3>1 DEF TypeOK, ThreadState
      <3>3. TrapExact(t)'
        BY <1>1, <1>3, <3>2 DEF TrapExact, InUse
      <3> QED
        BY <1>2, <3>2, <3>3 DEF ThreadCalm, InTrap
    <2>3. CASE Callback(t)
      <3>1. /\ thread'[t].pc = "call" /\ thread'[t].callback = NoWatch
            /\ thread'[t].dr6 = {s} /\ thread'[t].field = thread[t].field
            /\ thread'[t].owed = thread[t].owed \ {thread[t].callback}
            /\ thread'[t].record = thread[t].record
            /\ thread'[t].regs = thread[t].regs
            /\ \A u \in Thread \ {t} : thread'[u] = thread[u]
        BY <2>3, <1>0, <1>3 DEF Callback, TypeOK, ThreadState
      <3>2. thread'[t].owed = {}
        BY <2>3, <1>3, <3>1 DEF Callback
      <3>3. TrapExact(t)'
        BY <1>1, <1>3, <3>1, <3>2 DEF TrapExact, InUse
      <3> QED
        BY <1>2, <3>1, <3>3 DEF ThreadCalm, InTrap
    <2>4. CASE Continue(t)
      <3>1. /\ thread'[t].pc = "run" /\ thread'[t].callback = NoWatch
            /\ thread'[t].owed = {}
            /\ thread'[t].regs = thread[t].record
            /\ \A u \in Thread \ {t} : thread'[u] = thread[u]
        BY <2>4, <1>0, <1>3 DEF Continue, TypeOK, ThreadState, Idle
      <3> QED
        BY <1>2, <3>1 DEF ThreadCalm, InTrap
    <2> QED
      BY <2>1, <2>2, <2>3, <2>4 DEF InHandler
  <1> QED
    BY <1>1, <1>4, CalmThread

\* The collector moves a field that no running watch is on.
LEMMA CalmMove ==
  ASSUME calm', CalmInv, SlotInv', NEW f \in Field, NEW a \in Address, MoveMirror(f, a)
  PROVE  CalmInv'
  <1>0. /\ TypeOK /\ SlotsOwned /\ SlotAddress /\ Apart
        /\ UNCHANGED <<slots, watch, slotOf, thread, reach>>
        /\ \A g \in Field \ {f} : home'[g] = home[g]
        /\ \A w \in Watch : Live(w) => FieldOf[w] # f
    BY DEF CalmInv, SlotInv, MoveMirror, TypeOK
  <1>1. Apart'
    BY <1>0 DEF Apart, MoveMirror, TypeOK, Live
  <1>2. ASSUME NEW s \in Slot, InUse(s)
        PROVE  FieldOf[slots[s].owner] \in Field \ {f}
    BY <1>0, <1>2 DEF SlotsOwned, InUse, TypeOK
  <1>3. SlotAddress'
    BY <1>0, <1>2 DEF SlotAddress, InUse
  <1>4. NoStrayRegister'
    BY <1>0 DEF CalmInv, NoStrayRegister, InUse
  <1>5. Covered'
    BY <1>0 DEF CalmInv, Covered, Live
  <1>7. Used' # {} => veh' = "registered"
    BY DEF CalmInv, MoveMirror, Used, InUse
  <1>6. ASSUME NEW t \in Thread PROVE ThreadCalm(t)'
    <2>1. ASSUME TrapExact(t) PROVE TrapExact(t)'
      <3>1. PICK s \in Slot :
              /\ thread[t].dr6 = {s} /\ InUse(s) /\ slots[s].address = home[thread[t].field]
              /\ thread[t].owed \subseteq {slots[s].owner}
              /\ thread[t].callback \in {NoWatch, slots[s].owner}
              /\ thread[t].pc = "call" /\ thread[t].callback = NoWatch => thread[t].owed = {}
        BY <2>1 DEF TrapExact
      <3>2. thread[t].field = FieldOf[slots[s].owner]
        BY <1>0, <1>2, <3>1 DEF SlotAddress, Apart, TypeOK
      <3> QED
        BY <1>0, <1>2, <3>1, <3>2 DEF TrapExact, InUse
    <2> QED
      BY <1>0, <2>1 DEF CalmInv, ThreadCalm, InTrap
  <1> QED
    BY <1>1, <1>3, <1>4, <1>5, <1>6, <1>7 DEF CalmInv

\* A call that arms nothing.
LEMMA CalmKept ==
  ASSUME CalmInv, SlotInv', UNCHANGED <<slots, slotOf, thread, reach, home, calm>>,
         \A v \in Watch : Live(v)' <=> Live(v), Used # {} => UNCHANGED veh
  PROVE  CalmInv'
  <1>1. SlotAddress' /\ NoStrayRegister' /\ Used' = Used
    BY DEF CalmInv, SlotAddress, NoStrayRegister, InUse, Used
  <1>2. Covered'
    BY DEF CalmInv, Covered
  <1>3. ASSUME NEW t \in Thread PROVE ThreadCalm(t)'
    BY DEF CalmInv, ThreadCalm, TrapExact, InTrap, InUse
  <1>4. Apart'
    BY DEF CalmInv, Apart
  <1> QED
    BY <1>1, <1>2, <1>3, <1>4 DEF CalmInv

LEMMA CalmNext == CalmInv /\ [Next]_vars /\ calm' => CalmInv'
  <1> SUFFICES ASSUME CalmInv, [Next]_vars, calm' PROVE CalmInv'
    OBVIOUS
  <1>0. SlotInv'
    BY SlotNext DEF CalmInv
  <1>1. ASSUME NEW w \in Watch, WatchStaticField(w) PROVE CalmInv'
    BY <1>0, <1>1, CalmArm
  <1>2. ASSUME NEW w \in Watch, Stop(w) PROVE CalmInv'
    BY <1>0, <1>2, CalmStop
  <1>3. ASSUME NEW w \in Watch, FindField(w) \/ WatchRefused(w) PROVE CalmInv'
    <2>1. /\ UNCHANGED <<slots, slotOf, thread, reach, home, calm, veh>> /\ watch[w] \in {"new", "found"}
          /\ \E x \in {"found", "refused"} : watch' = [watch EXCEPT ![w] = x]
      BY <1>3 DEF FindField, WatchRefused
    <2>2. \A v \in Watch : Live(v)' <=> Live(v)
      BY <2>1 DEF CalmInv, SlotInv, TypeOK, Live
    <2> QED
      BY <1>0, <2>1, <2>2, CalmKept
  <1>9. ASSUME NEW w \in Watch, ArmThrows(w) PROVE CalmInv'
    <2>1. /\ UNCHANGED <<slots, slotOf, thread, reach, home, calm>>
          /\ watch[w] = "found" /\ watch' = [watch EXCEPT ![w] = "thrown"]
      BY <1>9 DEF ArmThrows
    <2>2. \A v \in Watch : Live(v)' <=> Live(v)
      BY <2>1 DEF CalmInv, SlotInv, TypeOK, Live
    <2>3. Used # {} => UNCHANGED veh
      BY <1>9, Counts DEF CalmInv, ArmThrows, ArmOne
    <2> QED
      BY <1>0, <2>1, <2>2, <2>3, CalmKept
  <1>4. ASSUME NEW t \in Thread, StartThread(t) PROVE CalmInv'
    <2>1. /\ ThreadStep /\ ThreadCalm(t)
          /\ thread'[t].pc = "run" /\ thread'[t].regs = thread[t].regs
          /\ thread'[t].owed = thread[t].owed /\ thread'[t].callback = thread[t].callback
          /\ \A u \in Thread \ {t} : thread'[u] = thread[u]
      BY <1>4 DEF StartThread, CalmInv, SlotInv, TypeOK, ThreadState
    <2>2. ThreadCalm(t)'
      BY <1>4, <2>1 DEF StartThread, ThreadCalm, InTrap
    <2> QED
      BY <1>0, <2>1, <2>2, CalmThread
  <1>5. ASSUME NEW t \in Thread, InHandler(t) PROVE CalmInv'
    BY <1>0, <1>5, CalmHandler
  <1>6. ASSUME NEW t \in Thread, NEW f \in Field, Write(t, f) PROVE CalmInv'
    BY <1>0, <1>6, CalmWrite
  <1>7. ASSUME NEW f \in Field, NEW a \in Address, MoveMirror(f, a) PROVE CalmInv'
    BY <1>0, <1>7, CalmMove
  <1>8. CASE UNCHANGED vars
    <2>1. UNCHANGED <<slots, slotOf, thread, reach, home, calm, veh>> /\ \A v \in Watch : Live(v)' <=> Live(v)
      BY <1>8 DEF vars, Live
    <2> QED
      BY <1>0, <2>1, CalmKept
  <1> QED
    BY <1>1, <1>2, <1>3, <1>4, <1>5, <1>6, <1>7, <1>8, <1>9 DEF Next

\* A process that is not calm never is again.
LEMMA CalmBefore == [Next]_vars /\ calm' => calm
  <1> SUFFICES ASSUME [Next]_vars, calm' PROVE calm
    OBVIOUS
  <1>1. ASSUME NEW w \in Watch, WatchStaticField(w) \/ Stop(w) PROVE calm
    BY <1>1 DEF WatchStaticField, Stop, SetRegister
  <1>2. ASSUME NEW w \in Watch, FindField(w) \/ ArmThrows(w) \/ WatchRefused(w) PROVE calm
    BY <1>2 DEF FindField, ArmThrows, WatchRefused
  <1>3. ASSUME NEW t \in Thread, StartThread(t) \/ InHandler(t) \/ \E f \in Field : Write(t, f)
        PROVE  calm
    BY <1>3 DEF StartThread, InHandler, Dispatch, HandlerLock, Callback, Continue, Write, ThreadStep
  <1>4. ASSUME NEW f \in Field, NEW a \in Address, MoveMirror(f, a) PROVE calm
    BY <1>4 DEF MoveMirror
  <1>5. CASE UNCHANGED vars
    BY <1>5 DEF vars
  <1> QED
    BY <1>1, <1>2, <1>3, <1>4, <1>5 DEF Next

LEMMA WhileCalm == Spec => [](calm => CalmInv)
  <1>1. Init => (calm => CalmInv)
    BY CalmInit
  <1>2. (calm => CalmInv) /\ [Next]_vars => (calm => CalmInv)'
    BY CalmNext, CalmBefore
  <1> QED
    BY <1>1, <1>2, PTL DEF Spec

\* As long as the process is calm no debug register outlives its watch: stop()
\* disarms every thread.
THEOREM NoStray == Spec => []NoStrayRegister
  <1>1. (calm => CalmInv) => NoStrayRegister
    BY DEF CalmInv, NoStrayRegister
  <1> QED
    BY <1>1, WhileCalm, PTL

\* As long as the process is calm every write of a watched field, on any thread
\* that was alive when the watch was armed, is reported before the thread goes on.
THEOREM Reported == Spec => []EveryWriteReported
  <1>1. (calm => CalmInv) => EveryWriteReported
    BY DEF CalmInv, ThreadCalm, InTrap, EveryWriteReported
  <1> QED
    BY <1>1, WhileCalm, PTL

\* As long as the process is calm every trap finds the handler registered.
THEOREM Handled == Spec => []EveryTrapHandled
  <1>1. (calm => CalmInv) => EveryTrapHandled
    BY DEF CalmInv, ThreadCalm, EveryTrapHandled
  <1> QED
    BY <1>1, WhileCalm, PTL

\* As long as the process is calm a write calls the callback of a watch on that
\* field only.
THEOREM OwnField == Spec => OwnFieldOnly
  <1>1. ASSUME CalmInv, NEW t \in Thread, Callback(t)
        PROVE  FieldOf[thread[t].callback] = thread[t].field
    <2>1. TrapExact(t) /\ thread[t].callback # NoWatch /\ thread[t] \in ThreadState
      BY <1>1 DEF CalmInv, ThreadCalm, InTrap, Callback, SlotInv, TypeOK, ThreadState
    <2>2. PICK s \in Slot : /\ InUse(s) /\ slots[s].address = home[thread[t].field]
                            /\ thread[t].callback = slots[s].owner
      BY <2>1 DEF TrapExact
    <2>3. home[FieldOf[slots[s].owner]] = home[thread[t].field]
      BY <1>1, <2>2 DEF CalmInv, SlotAddress
    <2>4. FieldOf[slots[s].owner] \in Field /\ thread[t].field \in Field
      BY <1>1, <2>1, <2>2 DEF ThreadState
    <2> QED
      BY <1>1, <2>2, <2>3, <2>4 DEF CalmInv, Apart
  <1>2. (calm => CalmInv) /\ [Next]_vars =>
          [calm => \A t \in Thread :
             Callback(t) => FieldOf[thread[t].callback] = thread[t].field]_vars
    BY <1>1
  <1> QED
    BY <1>2, WhileCalm, PTL DEF Spec, OwnFieldOnly
=============================================================================
