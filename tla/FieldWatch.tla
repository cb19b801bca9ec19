----------------------------- MODULE FieldWatch -----------------------------
(***************************************************************************)
(* watch_static_field(): hardware data breakpoints on static fields.       *)
(*                                                                         *)
(* The process has NSlots slots (dr_slots, four in the code), and every    *)
(* thread its own debug registers, one per slot.  The address of the field *)
(* is taken first, without a lock.  Arming and stopping a watch hold       *)
(* dr_mutex from the choice of the slot to the last register and are one   *)
(* action each: a thread that traps in between waits for the mutex in      *)
(* dr_exception_handler, as one that trapped just before.                  *)
(*                                                                         *)
(* External: the CPU, which raises the trap, and Windows, which saves the  *)
(* debug registers of the trapping thread in the context record, looks for *)
(* a vectored handler, and loads the record again when the handler answers *)
(* EXCEPTION_CONTINUE_EXECUTION (the handler clears Dr6 in the record and  *)
(* relies on that); and the garbage collector, which may move the mirror   *)
(* that holds a static field.                                              *)
(***************************************************************************)
EXTENDS Integers, FiniteSets

CONSTANTS
    Field,          \* static fields
    Watch,          \* calls of watch_static_field()
    FieldOf,        \* the field each call names
    Thread,         \* threads of the process
    Late,           \* those created while the program runs
    Address,        \* addresses a static field can have
    InitialHome,    \* the address of each field at the start
    NSlots,         \* length of dr_slots
    NoWatch,        \* an empty callback
    NoAddress,      \* null
    NoSlot,         \* find_free_slot() answers -1
    MaxMoves        \* bound: moves of a mirror

Slot == 0..(NSlots - 1)

ASSUME FieldWatchAssumption ==
    /\ Field # {}
    /\ FieldOf \in [Watch -> Field]
    /\ Late \subseteq Thread
    /\ InitialHome \in [Field -> Address]
    /\ \A f, g \in Field : InitialHome[f] = InitialHome[g] => f = g
    /\ NSlots \in Nat \ {0}
    /\ NoWatch \notin Watch
    /\ NoAddress \notin Address
    /\ NoSlot \notin Slot
    /\ MaxMoves \in Nat

VARIABLES
    slots,   \* dr_slots: address, and the watch whose callback it is (NoWatch: not in_use)
    armed,   \* dr_armed_count
    veh,     \* dr_veh_handle: "none", "registered", or null because it was refused
    watch,   \* the state of each call, then of its watch_handle
    found,   \* the address the call has read and not yet armed
    slotOf,  \* the slot its on_stop captured
    thread,  \* each thread: where it is, its registers and its context record
    reach,   \* the threads that were alive when a running watch was armed (history)
    home,    \* where each field is
    calm,    \* nothing has got in the way of the watches so far (history)
    moves    \* moves of a mirror so far

vars == <<slots, armed, veh, watch, found, slotOf, thread, reach, home, calm, moves>>

FreeSlot == [address |-> NoAddress, owner |-> NoWatch]
NoRegisters == [s \in Slot |-> NoAddress]

\* regs are DR0..DR3, record the same registers in the context record of a trap,
\* dr6 its Dr6, field the field written, callback what the handler copied, and
\* owed the watches that the write must be reported to (history).
Idle == [pc |-> "run", regs |-> NoRegisters, record |-> NoRegisters, dr6 |-> {},
         field |-> CHOOSE f \in Field : TRUE, callback |-> NoWatch, owed |-> {}]

Registers == [Slot -> Address \cup {NoAddress}]

\* A watch is armed: the caller holds its handle, or lost it to an exception.
Live(w) == watch[w] \in {"running", "lost"}

\* Type invariant: a thread in the handler has a status bit for the slot it
\* looks up, and on_stop has a slot for every watch that is running.
TypeOK ==
    /\ slots \in [Slot -> [address : Address \cup {NoAddress}, owner : Watch \cup {NoWatch}]]
    /\ armed \in Nat
    /\ veh \in {"none", "registered", "failed"}
    /\ watch \in [Watch -> {"new", "found", "running", "lost", "thrown", "refused", "stopped"}]
    /\ found \in [Watch -> Address \cup {NoAddress}]
    /\ \A w \in Watch : watch[w] = "found" => found[w] # NoAddress
    /\ slotOf \in [Watch -> Slot \cup {NoSlot}]
    /\ thread \in [Thread -> [pc : {"unborn", "run", "trap", "handler", "call", "crashed"},
                              regs : Registers, record : Registers, dr6 : SUBSET Slot,
                              field : Field, callback : Watch \cup {NoWatch}, owed : SUBSET Watch]]
    /\ \A t \in Thread : thread[t].pc \in {"trap", "handler", "call"} => thread[t].dr6 # {}
    /\ \A w \in Watch : Live(w) => slotOf[w] # NoSlot
    /\ reach \in [Watch -> SUBSET Thread]
    /\ home \in [Field -> Address]
    /\ calm \in BOOLEAN
    /\ moves \in Nat

Init ==
    /\ slots = [s \in Slot |-> FreeSlot]
    /\ armed = 0
    /\ veh = "none"
    /\ watch = [w \in Watch |-> "new"]
    /\ found = [w \in Watch |-> NoAddress]
    /\ slotOf = [w \in Watch |-> NoSlot]
    /\ thread = [t \in Thread |-> IF t \in Late THEN [Idle EXCEPT !.pc = "unborn"] ELSE Idle]
    /\ reach = [w \in Watch |-> {}]
    /\ home = InitialHome
    /\ calm = TRUE
    /\ moves = 0

InUse(s) == slots[s].owner # NoWatch
Alive(t) == thread[t].pc # "unborn"
InTrap(t) == thread[t].pc \in {"trap", "handler", "call"}
Quiet == \A t \in Thread : ~InTrap(t)

-----------------------------------------------------------------------------
(* watch_static_field() and watch_handle::stop().                          *)

\* find_free_slot(): the lowest slot that is not in use, if there is one.
FindFreeSlot == {s \in Slot : ~InUse(s) /\ \A r \in Slot : r < s => InUse(r)}

\* A call by which watch w is armed or stopped is in nobody's way when no thread
\* is in a trap, every thread was reached and no other watch is on its field; and
\* arming serves its purpose when the field is still where it was found and the
\* handler is registered.
Undisturbed(w, ts) ==
    /\ Quiet
    /\ ts = {t \in Thread : Alive(t)}
    /\ \A v \in Watch \ {w} : Live(v) => FieldOf[v] # FieldOf[w]
    /\ watch[w] = "found" => found[w] = home[FieldOf[w]] /\ veh' = "registered"

SetRegister_NewThreadsOnly(w, s, a) ==
    \E ts \in SUBSET {t \in Thread : Alive(t)} :
        /\ thread' = [t \in Thread |-> IF t \in ts /\ thread[t].regs = NoRegisters
                                       THEN [thread[t] EXCEPT !.regs[s] = a] ELSE thread[t]]
        /\ calm' = (calm /\ Undisturbed(w, ts))

\* refresh_thread_drs(slot, address), and clear_thread_drs(slot) with a null
\* address: the register of one slot, on every thread that for_each_thread() can
\* open and whose context it can read.
SetRegister(w, s, a) ==
    \E ts \in SUBSET {t \in Thread : Alive(t)} :
        /\ thread' = [t \in Thread |-> IF t \in ts THEN [thread[t] EXCEPT !.regs[s] = a]
                                                   ELSE thread[t]]
        /\ calm' = (calm /\ Undisturbed(w, ts))

\* dr_arm_one(): the handler is registered with the first watch; whether Windows
\* did so is not looked at.
ArmOne ==
    /\ IF armed = 0 THEN veh' \in {"registered", "failed"} ELSE UNCHANGED veh
    /\ armed' = armed + 1

UnarmOne_AlwaysRemove ==
    /\ armed' = IF armed = 0 THEN 0 ELSE armed - 1
    /\ veh' = "none"

\* dr_unarm_one(): and removed with the last one.
UnarmOne ==
    /\ armed' = IF armed = 0 THEN 0 ELSE armed - 1
    /\ veh' = IF armed = 1 THEN "none" ELSE veh

\* watch_static_field() asks get_field() for the address, before it takes dr_mutex;
\* a field it does not find, or a null address, gives the caller an empty handle.
FindField(w) ==
    /\ watch[w] = "new"
    /\ \/ /\ watch' = [watch EXCEPT ![w] = "found"]
          /\ found' = [found EXCEPT ![w] = home[FieldOf[w]]]
       \/ /\ watch' = [watch EXCEPT ![w] = "refused"]
          /\ UNCHANGED found
    /\ UNCHANGED <<slots, armed, veh, slotOf, thread, reach, home, calm, moves>>

\* The rest, under dr_mutex.  The caller gets a handle, or an exception when there is
\* no memory for the control block: then nobody can stop the watch.
WatchStaticField(w) ==
    /\ watch[w] = "found"
    /\ \E s \in FindFreeSlot :
          /\ ArmOne
          /\ slots' = [slots EXCEPT ![s] = [address |-> found[w], owner |-> w]]
          /\ SetRegister(w, s, found[w])
          /\ slotOf' = [slotOf EXCEPT ![w] = s]
    /\ \E r \in {"running", "lost"} : watch' = [watch EXCEPT ![w] = r]
    /\ found' = [found EXCEPT ![w] = NoAddress]
    /\ reach' = [reach EXCEPT ![w] = {t \in Thread : Alive(t)}]
    /\ UNCHANGED <<home, moves>>

\* The callback cannot be stored in the slot: the exception leaves the count taken.
ArmThrows(w) ==
    /\ watch[w] = "found"
    /\ FindFreeSlot # {}
    /\ ArmOne
    /\ watch' = [watch EXCEPT ![w] = "thrown"]
    /\ found' = [found EXCEPT ![w] = NoAddress]
    /\ UNCHANGED <<slots, slotOf, thread, reach, home, calm, moves>>

\* All slots are in use: the caller gets an empty handle.
WatchRefused(w) ==
    /\ watch[w] = "found"
    /\ FindFreeSlot = {}
    /\ watch' = [watch EXCEPT ![w] = "refused"]
    /\ found' = [found EXCEPT ![w] = NoAddress]
    /\ UNCHANGED <<slots, armed, veh, slotOf, thread, reach, home, calm, moves>>

Stop_KeepRegisters(w) ==
    /\ watch[w] = "running"
    /\ slots' = [slots EXCEPT ![slotOf[w]] = FreeSlot]
    /\ UnarmOne
    /\ watch' = [watch EXCEPT ![w] = "stopped"]
    /\ reach' = [reach EXCEPT ![w] = {}]
    /\ UNCHANGED <<found, slotOf, thread, home, calm, moves>>

Stop_KeepSlot(w) ==
    /\ watch[w] = "running"
    /\ SetRegister(w, slotOf[w], NoAddress)
    /\ UnarmOne
    /\ watch' = [watch EXCEPT ![w] = "stopped"]
    /\ reach' = [reach EXCEPT ![w] = {}]
    /\ UNCHANGED <<slots, found, slotOf, home, moves>>

\* stop() with the on_stop of this watch: the registers first, then the slot,
\* then the count.
Stop(w) ==
    /\ watch[w] = "running"
    /\ SetRegister(w, slotOf[w], NoAddress)
    /\ slots' = [slots EXCEPT ![slotOf[w]] = FreeSlot]
    /\ UnarmOne
    /\ watch' = [watch EXCEPT ![w] = "stopped"]
    /\ reach' = [reach EXCEPT ![w] = {}]
    /\ UNCHANGED <<found, slotOf, home, moves>>

-----------------------------------------------------------------------------
(* Threads of the process, Windows and the JVM.                            *)

ThreadStep == UNCHANGED <<slots, armed, veh, watch, found, slotOf, reach, home, calm, moves>>

StartThread(t) ==
    /\ thread[t].pc = "unborn"
    /\ thread' = [thread EXCEPT ![t].pc = "run"]
    /\ ThreadStep

\* A putstatic: the CPU traps when a register of the thread holds the address.
Write(t, f) ==
    LET hits == {s \in Slot : thread[t].regs[s] = home[f]}
        due == {w \in Watch : calm /\ Live(w) /\ FieldOf[w] = f /\ t \in reach[w]} IN
    /\ thread[t].pc = "run"
    /\ \/ hits = {} /\ thread' = [thread EXCEPT ![t].owed = due]
       \/ hits # {} /\ thread' = [thread EXCEPT ![t] = [@ EXCEPT
                         !.pc = "trap", !.record = thread[t].regs, !.dr6 = hits, !.field = f,
                         !.owed = due]]
    /\ ThreadStep

\* Windows looks for a vectored handler; without one the process ends.
Dispatch(t) ==
    /\ thread[t].pc = "trap"
    /\ thread' = [thread EXCEPT ![t].pc = IF veh = "registered" THEN "handler" ELSE "crashed"]
    /\ ThreadStep

HandlerLock_AnyHit(t) ==
    /\ thread[t].pc = "handler"
    /\ \E s \in Slot : thread' = [thread EXCEPT ![t] = [@ EXCEPT !.pc = "call",
                                                                 !.callback = slots[s].owner]]
    /\ ThreadStep

\* dr_exception_handler: the lowest status bit names the slot; its callback is
\* copied under dr_mutex when the slot is in use.
HandlerLock(t) ==
    /\ thread[t].pc = "handler"
    /\ \E s \in thread[t].dr6 :
          /\ \A r \in thread[t].dr6 : s <= r
          /\ thread' = [thread EXCEPT ![t] = [@ EXCEPT !.pc = "call", !.callback = slots[s].owner]]
    /\ ThreadStep

\* The copy is called after the mutex was released.
Callback(t) ==
    /\ thread[t].pc = "call"
    /\ thread[t].callback # NoWatch
    /\ thread' = [thread EXCEPT ![t] = [@ EXCEPT !.callback = NoWatch,
                                                 !.owed = thread[t].owed \ {thread[t].callback}]]
    /\ ThreadStep

\* EXCEPTION_CONTINUE_EXECUTION: the thread goes on with the registers of the record.
Continue(t) ==
    /\ thread[t].pc = "call"
    /\ thread[t].callback = NoWatch
    /\ thread' = [thread EXCEPT ![t] = [Idle EXCEPT !.regs = thread[t].record,
                                                    !.owed = thread[t].owed]]
    /\ ThreadStep

MoveMirror(f, a) ==
    /\ moves < MaxMoves /\ moves' = moves + 1
    /\ \A g \in Field : home[g] # a
    /\ home' = [home EXCEPT ![f] = a]
    /\ calm' = (calm /\ \A w \in Watch : Live(w) => FieldOf[w] # f)
    /\ UNCHANGED <<slots, armed, veh, watch, found, slotOf, thread, reach>>

-----------------------------------------------------------------------------

InHandler(t) == Dispatch(t) \/ HandlerLock(t) \/ Callback(t) \/ Continue(t)

Next ==
    /\ \A t \in Thread : thread[t].pc # "crashed"
    /\ \/ \E w \in Watch : \/ FindField(w) \/ WatchStaticField(w) \/ ArmThrows(w)
                          \/ WatchRefused(w) \/ Stop(w)
       \/ \E t \in Thread : StartThread(t) \/ InHandler(t) \/ \E f \in Field : Write(t, f)
       \/ \E f \in Field, a \in Address : MoveMirror(f, a)

Spec == Init /\ [][Next]_vars

-----------------------------------------------------------------------------
(* Properties.  Those about writes hold as long as the process is calm:    *)
(* watches were armed and stopped between traps, reached every thread, did *)
(* not share a field and had a handler; and no field was moved between the *)
(* moment its address was read and the end of its watch.                   *)

SlotsOwned ==
    /\ \A w \in Watch : Live(w) => slots[slotOf[w]].owner = w
    /\ \A s \in Slot : InUse(s) => Live(slots[s].owner) /\ slotOf[slots[s].owner] = s

Thrown == {w \in Watch : watch[w] = "thrown"}

HandlerBalanced ==
    /\ armed = Cardinality({s \in Slot : InUse(s)}) + Cardinality(Thrown)
    /\ veh = "none" <=> armed = 0

\* Slots are neither shared nor lost, and the handler follows them, whatever faults happen: an
\* armed watch has a slot in use with its own callback, a slot in use belongs to an armed watch,
\* and AddVectoredExceptionHandler has been called, and not undone, exactly while there
\* is one or an exception has kept the count.
SlotsBalanced == SlotsOwned /\ HandlerBalanced

\* As long as calm holds, no thread is left with a register armed for a watch
\* that was stopped: a debug register holds an address only while its slot is in use for it.
NoStrayRegister ==
    calm => \A t \in Thread, s \in Slot :
        thread[t].regs[s] # NoAddress => InUse(s) /\ thread[t].regs[s] = slots[s].address

\* As long as calm holds, every write of a watched field on a thread that was
\* alive when the watch was armed has called the callback by the time the thread goes on, unless the
\* watch has been stopped since.
EveryWriteReported ==
    calm => \A t \in Thread : thread[t].pc = "run" =>
        \A w \in thread[t].owed : watch[w] = "stopped"

\* As long as calm holds, a write calls the callback of a watch on that field
\* and no other.
OwnFieldOnly ==
    [][calm => \A t \in Thread :
          Callback(t) => FieldOf[thread[t].callback] = thread[t].field]_vars

\* As long as calm holds, a trap finds the handler registered: none is raised that would end the process.
EveryTrapHandled ==
    calm => \A t \in Thread : thread[t].pc # "crashed"
=============================================================================
