--------------------------- MODULE DispatchFrame ----------------------------
(***************************************************************************)
(* What a detour sees of one interpreted call and does to it: the typed    *)
(* arguments (java_slot_offsets, extract_frame_arg), frame::get_arguments, *)
(* return_value::set, cancel, set_arg, caller and stack_trace.             *)
(*                                                                         *)
(* The interpreter is external: it lays the arguments out in the locals,   *)
(* saves rbp at the frame base, and runs the body on the locals it finds.  *)
(* A type is "I" for a word, "J" for long and double, "L" for a reference; *)
(* "[" starts an array type and its element type follows.  Numbers have    *)
(* the widths of the model, and an argument is set with a C++ type of the  *)
(* width its parameter has, or of a narrower one for a word.               *)
(***************************************************************************)
EXTENDS Integers, Sequences, FiniteSets, SequencesExt

CONSTANTS
    Method,       \* methods: [static : BOOLEAN, params : a sequence of descriptors]
    WordValue,    \* values of "I" arguments
    LongValue,    \* values of "J" arguments
    Object,       \* addresses of objects, and so the values of "L" arguments
    NarrowMax,    \* largest 32-bit value: an address up to it looks compressed
    Shift,        \* shifts of compressed oops that are tried
    IndexLimit,   \* the index of the locals is recovered below this, 0x1000 in the code
    MaxLocals,    \* largest slot index accepted, 0xFFFF in the code
    Bases,        \* frame bases from the hooked frame outwards
    MaxGap,       \* largest distance of two frame bases, 1 << 20 in the code
    MaxDepth,     \* depth limits given to stack_trace()
    MaxChanges    \* bound on the calls the detour makes

Null == 0
Junk == 1         \* what the unused half of a two-slot value holds
Body == 100       \* what the original body returns

\* Widths of the model: a slot has 8 bits, and so has a long; an int has 3, a byte 2.
CellBits == 8
IntBits == 3
ByteBits == 2
Signed(word, bits) == IF word % 2 ^ bits >= 2 ^ (bits - 1) THEN (word % 2 ^ bits) - 2 ^ bits ELSE word % 2 ^ bits

\* What a C++ type can hold.
Width(type) == IF type \in {"int8", "uint8"} THEN ByteBits ELSE IF type = "int" THEN IntBits ELSE CellBits
Holds(type) ==
    IF type = "uint8" THEN 0..(2 ^ Width(type) - 1)
    ELSE -(2 ^ (Width(type) - 1))..(2 ^ (Width(type) - 1) - 1)

ASSUME DispatchFrameAssumption ==
    /\ WordValue \subseteq Holds("int") /\ LongValue \subseteq Holds("long")
    /\ Object \subseteq Nat \ {Null}
    /\ NarrowMax \in Nat /\ Shift \subseteq Nat /\ IndexLimit \in Nat \ {0} /\ MaxLocals \in Nat
    /\ Bases \in Seq(Nat \ {Null}) /\ Bases # <<>>
    /\ \A i, j \in DOMAIN Bases : i < j => Bases[i] < Bases[j]
    /\ MaxGap \in Nat /\ MaxDepth \subseteq Nat \ {0} /\ MaxChanges \in Nat

VARIABLES
    method,      \* the method called
    passed,      \* the arguments, "this" first (history)
    locals,      \* the interpreter's slots: locals[i] is locals[-i] in the code
    localsWord,  \* the frame's word for the locals: a pointer, or an index since JDK 21
    shift,       \* shift of compressed oops
    pc,          \* "call", "detour", "back" or "thrown" (in the trampoline), "returned"
    seen,        \* what the detour got as typed arguments
    references,  \* what get_arguments() without types got, and the arguments due then
    wanted,      \* the arguments the detour wants the body to see (history)
    narrow,      \* those it last gave as a negative value of a narrow type (history)
    slot,        \* the return slot: cancel and retval
    answer,      \* what the detour wants to return (history)
    bodySees,    \* the arguments the body ran with
    returned,    \* what the caller got
    trace,       \* the last stack_trace() and caller(), and what they were asked about
    changes,     \* calls made by the detour so far
    mishap       \* misuse: "strayed" beyond the locals, "pointer" as a value (history)

call == <<method, passed, localsWord, shift>>
vars == <<call, locals, pc, seen, references, wanted, narrow, slot, answer, bodySees, returned,
          trace, changes, mishap>>

-----------------------------------------------------------------------------
(* The interpreter's side of a call.                                       *)

\* The types of the locals: "this", then the parameters; an array is a reference.
Kind(descriptor) == IF Head(descriptor) = "[" THEN "L" ELSE Head(descriptor)
Types(m) == (IF m.static THEN <<>> ELSE <<"L">>) \o [i \in DOMAIN m.params |-> Kind(m.params[i])]

\* The slots before argument i of those types: one for each argument, and one more for
\* every long and double.
SlotOf(types, i) == (i - 1) + Cardinality({j \in 1..(i - 1) : types[j] = "J"})
Slots(types) == SlotOf(types, Len(types) + 1)

\* Descriptors are well formed, and the arguments fit into the locals a method may have.
ASSUME MethodAssumption ==
    \A m \in Method :
        /\ m.static \in BOOLEAN /\ m.params \in Seq(Seq({"I", "J", "L", "["}))
        /\ \A i \in DOMAIN m.params :
              m.params[i] # <<>> /\ \A k \in DOMAIN m.params[i] :
                  m.params[i][k] = "[" <=> k < Len(m.params[i])
        /\ Slots(Types(m)) <= MaxLocals

\* The slot that holds the value: the second one of a long or double.
ValueSlot(types, i) == SlotOf(types, i) + (IF types[i] = "J" THEN 1 ELSE 0)

\* A number in a slot, and what a reader of a type makes of the slot: the low 32 bits for a
\* word.  An address is its own word.
Cell(type, value) == IF type = "L" THEN value ELSE value % 2 ^ CellBits
ReadAs(type, word) ==
    IF type = "L" THEN word ELSE Signed(word, IF type = "J" THEN CellBits ELSE IntBits)

LayOut(types, values) ==
    [s \in 0..(Slots(types) - 1) |->
        IF \E i \in DOMAIN types : ValueSlot(types, i) = s
        THEN LET i == CHOOSE i \in DOMAIN types : ValueSlot(types, i) = s IN Cell(types[i], values[i])
        ELSE Junk]

Value == WordValue \cup LongValue \cup Object \cup {Null}
Values(type) ==
    IF type = "L" THEN Object \cup {Null} ELSE IF type = "J" THEN LongValue ELSE WordValue
Arguments(types) ==
    {v \in [DOMAIN types -> Value] : \A i \in DOMAIN types : v[i] \in Values(types[i])}

\* The body finds what the slots hold now.
BodyReads == [i \in DOMAIN passed |-> ReadAs(Types(method)[i], locals[ValueSlot(Types(method), i)])]

Init ==
    /\ method \in Method
    /\ passed \in Arguments(Types(method))
    /\ locals = LayOut(Types(method), passed)
    /\ localsWord \in {[pointer |-> TRUE, index |-> 0], [pointer |-> FALSE, index |-> IndexLimit - 1],
                       [pointer |-> FALSE, index |-> IndexLimit]}
    /\ shift \in Shift
    /\ pc = "call"
    /\ seen = <<>> /\ references = [got |-> <<>>, due |-> passed]
    /\ wanted = passed /\ narrow = {}
    /\ slot = [cancel |-> FALSE, retval |-> 0] /\ answer = Body
    /\ bodySees = <<>> /\ returned = Null
    /\ trace = [asked |-> 0, kinds |-> <<>>, frames |-> <<>>, caller |-> Null]
    /\ changes = 0 /\ mishap = {}

-----------------------------------------------------------------------------
(* Reading the arguments.                                                  *)

\* get_locals(): a valid pointer, or an index that is small enough.
LocalsFound == localsWord.pointer \/ localsWord.index < IndexLimit

\* A word that fits in 32 bits is taken for a compressed oop.
DecodeOop(word) == IF word = Null \/ word > NarrowMax THEN word ELSE word * 2 ^ shift

\* Mutant: the tuple index is taken for the slot.
JavaSlotOffset_TupleIndex(types, i) == i - 1

\* is_java_double_slot_v and java_slot_offsets: the running sum of the widths.
JavaSlotOffset(types, i) ==
    LET offset[k \in 1..i] ==
            IF k = 1 THEN 0 ELSE offset[k - 1] + (IF types[k - 1] = "J" THEN 2 ELSE 1)
    IN offset[i]

InRange(index) == index >= 0 /\ index <= MaxLocals

\* extract_frame_arg() and frame::get_argument(): the default value if the index or the
\* locals are out of reach; 8-byte primitives come from the second slot.
ExtractFrameArg(type, index) ==
    IF ~InRange(index) \/ ~LocalsFound THEN Null
    ELSE IF type = "L" THEN DecodeOop(locals[index])
    ELSE ReadAs(type, locals[IF type = "J" THEN index + 1 ELSE index])

\* The wrapper of hook() extracts every argument before it calls the detour.
EnterDetour ==
    LET types == Types(method) IN
    /\ pc = "call"
    /\ pc' = "detour"
    /\ seen' = [i \in DOMAIN types |-> ExtractFrameArg(types[i], JavaSlotOffset(types, i))]
    /\ UNCHANGED <<call, locals, references, wanted, narrow, slot, answer, bodySees, returned,
                   trace, changes, mishap>>

\* One character of the descriptor in get_arguments(): a "[" takes the next one with it.
ParseStep(state, ch) ==
    IF state.skip THEN [state EXCEPT !.skip = FALSE]
    ELSE [skip |-> ch = "[",
          slot |-> state.slot + (IF ch = "J" THEN 2 ELSE 1),
          slots |-> IF ch = "L" THEN Append(state.slots, state.slot) ELSE state.slots]

\* The slots it reads references from.  It counts from slot 0, for instance methods too.
ReferenceSlots(params) ==
    LET text == FlattenSeq(params)
        state[k \in 0..Len(text)] ==
            IF k = 0 THEN [skip |-> FALSE, slot |-> 0, slots |-> <<>>] ELSE ParseStep(state[k - 1], text[k])
    IN state[Len(text)].slots

LocalAt(index) == IF index \in DOMAIN locals THEN locals[index] ELSE Junk

\* The detour calls something that leaves the arguments and the answer alone.
Calls == /\ pc = "detour" /\ changes < MaxChanges
         /\ changes' = changes + 1
         /\ UNCHANGED <<call, pc, seen, bodySees, returned>>

GetArguments ==
    LET slots == ReferenceSlots(method.params) IN
    /\ Calls
    /\ references' = [got |-> IF LocalsFound THEN [i \in DOMAIN slots |-> DecodeOop(LocalAt(slots[i]))]
                              ELSE <<>>,
                      due |-> wanted]
    /\ UNCHANGED <<locals, wanted, narrow, slot, answer, trace, mishap>>

-----------------------------------------------------------------------------
(* Changing the call.                                                      *)

\* Mutant: every value goes to the first slot.
WrittenSlot_First(how, index) == index

\* The slot that set_arg() writes: the second one for any 8-byte value that is trivially
\* copyable, which a raw oop is as well.
WrittenSlot(how, index) == IF how \in {"long", "pointer"} THEN index + 1 ELSE index

\* The type of the parameter that a value of a C++ type is for.
Parameter(how) ==
    IF how \in {"int8", "uint8", "int"} THEN "I" ELSE IF how = "long" THEN "J" ELSE "L"

\* The word that set_arg() writes: the bytes of the value, and zeros for those of the slot
\* that its type does not have, whether it is signed or not.
Copied(how, value) == IF Parameter(how) = "L" THEN value ELSE value % 2 ^ Width(how)

\* set_arg(index, value), where index is the slot of argument i.  An object, a string made
\* through JNI or in the heap ("object"; making it may fail), and a primitive reach the slot.
SetArg(i, how, value) ==
    LET index == SlotOf(Types(method), i)
        target == WrittenSlot(how, index) IN
    /\ Calls
    /\ Types(method)[i] = Parameter(how) /\ value \in Values(Parameter(how))
    /\ Parameter(how) # "L" => value \in Holds(how)
    /\ \/ /\ InRange(index) /\ LocalsFound
          /\ locals' = IF target \in DOMAIN locals THEN [locals EXCEPT ![target] = Copied(how, value)]
                       ELSE locals
          /\ wanted' = [wanted EXCEPT ![i] = value]
          /\ narrow' = (narrow \ {i}) \cup (IF how = "int8" /\ value < 0 THEN {i} ELSE {})
          /\ mishap' = mishap \cup (IF how = "pointer" THEN {"pointer"} ELSE {})
       \/ /\ ~(InRange(index) /\ LocalsFound) \/ how = "object"
          /\ UNCHANGED <<locals, wanted, narrow, mishap>>
    /\ UNCHANGED <<references, slot, answer, trace>>

\* set_arg() with an index that belongs to no argument: only MaxLocals bounds it, so the
\* write may land behind the locals of this method.
SetArgBeyond(index) ==
    /\ Calls /\ index \notin DOMAIN locals
    /\ mishap' = IF InRange(index) /\ LocalsFound THEN mishap \cup {"strayed"} ELSE mishap
    /\ UNCHANGED <<locals, references, wanted, narrow, slot, answer, trace>>

\* return_value::set(): signed integers are extended to the whole slot, other values copied
\* into its low bytes.
Extended(type, value) == value % 2 ^ (IF type = "uint8" THEN ByteBits ELSE CellBits)

SetReturn(type, value) ==
    /\ Calls
    /\ slot' = [cancel |-> TRUE, retval |-> Extended(type, value)]
    /\ answer' = value
    /\ UNCHANGED <<locals, references, wanted, narrow, trace, mishap>>

\* cancel() leaves the value as it is: 0 unless one was set.
Cancel ==
    /\ Calls
    /\ slot' = [slot EXCEPT !.cancel = TRUE]
    /\ answer' = IF answer = Body THEN 0 ELSE answer
    /\ UNCHANGED <<locals, references, wanted, narrow, trace, mishap>>

Leaves(how) ==
    /\ pc = "detour"
    /\ pc' = how
    /\ UNCHANGED <<call, locals, seen, references, wanted, narrow, slot, answer, bodySees, returned,
                   trace, changes, mishap>>

LeaveDetour == Leaves("back")

\* seh_invoke_detour() catches what the detour throws, common_detour() logs that the body
\* will run and returns; the slot stays as the detour left it.
DetourThrows == Leaves("thrown")

\* The trampoline resumes the stub, and the body runs, or returns retval to the caller,
\* whose ireturn takes the low 32 bits.  It looks at the slot alone.
Resume ==
    /\ pc \in {"back", "thrown"} /\ ~slot.cancel
    /\ pc' = "returned"
    /\ bodySees' = BodyReads /\ returned' = Body
    /\ UNCHANGED <<call, locals, seen, references, wanted, narrow, slot, answer, trace, changes, mishap>>

ReturnCancelled ==
    /\ pc \in {"back", "thrown"} /\ slot.cancel
    /\ pc' = "returned"
    /\ returned' = Signed(slot.retval, IntBits)
    /\ UNCHANGED <<call, locals, seen, references, wanted, narrow, slot, answer, bodySees, trace, changes,
                   mishap>>

-----------------------------------------------------------------------------
(* The callers.  The frames outside the call do not change while it runs,  *)
(* so they are chosen when the detour looks at them.                       *)

\* An interpreted frame saves the base of its caller if that is interpreted too.  Compiled
\* code leaves anything in rbp: nothing, the base of some frame, or one that has returned.
Dead == Bases[1] - 1
Words == {Null, Dead} \cup {Bases[i] : i \in DOMAIN Bases}
Chains(kinds) ==
    {w \in [1..(Len(Bases) - 1) -> Words] :
        \A i \in DOMAIN w : IF ~kinds[i] THEN w[i] = Null
                            ELSE kinds[i + 1] => w[i] = Bases[i + 1]}

\* The Method* below a base: of an interpreted frame, or left behind by a dead one.
Live(kinds) == {Bases[i] : i \in {j \in DOMAIN Bases : kinds[j]}}
MethodAt(kinds, base) == base \in Live(kinds) \cup {Dead}

SavedAt(saved, base) ==
    IF \E i \in DOMAIN saved : Bases[i] = base
    THEN saved[CHOOSE i \in DOMAIN saved : Bases[i] = base] ELSE Null

\* caller(): the saved rbp, if it has a Method* below it.
CallerOf(kinds, saved) ==
    IF MethodAt(kinds, saved[1]) THEN saved[1] ELSE Null

\* Mutant: the chain may go down.
NextFrame_AnyWay(kinds, saved, base) ==
    LET up == SavedAt(saved, base) IN IF MethodAt(kinds, up) THEN up ELSE Null

\* stack_trace() also requires that the chain goes up, and not too far.
NextFrame(kinds, saved, base) ==
    LET up == SavedAt(saved, base) IN
    IF up > base /\ up - base <= MaxGap /\ MethodAt(kinds, up) THEN up ELSE Null

\* The walk ends at the first frame that is not accepted.
StackTrace(kinds, saved, max) ==
    LET path[d \in 0..max] ==
            IF d = 0 THEN Bases[1]
            ELSE IF path[d - 1] = Null THEN Null ELSE NextFrame(kinds, saved, path[d - 1])
    IN [d \in 1..Cardinality({d \in 1..max : path[d] # Null}) |-> path[d]]

Trace(max) ==
    /\ Calls
    /\ \E kinds \in [DOMAIN Bases -> BOOLEAN] : \E saved \in Chains(kinds) :
          /\ kinds[1]
          /\ trace' = [asked |-> max, kinds |-> kinds, frames |-> StackTrace(kinds, saved, max),
                       caller |-> CallerOf(kinds, saved)]
    /\ UNCHANGED <<locals, references, wanted, narrow, slot, answer, mishap>>

Next ==
    \/ EnterDetour \/ GetArguments \/ Cancel \/ LeaveDetour \/ DetourThrows
    \/ Resume \/ ReturnCancelled
    \/ \E i \in DOMAIN passed, how \in {"int8", "uint8", "int", "long", "object", "pointer"}, v \in Value :
          SetArg(i, how, v)
    \/ \E index \in {-1, Slots(Types(method)), MaxLocals + 1} : SetArgBeyond(index)
    \/ \E type \in {"int8", "uint8", "int"} : \E v \in Holds(type) : SetReturn(type, v)
    \/ \E max \in MaxDepth : Trace(max)

Spec == Init /\ [][Next]_vars

-----------------------------------------------------------------------------
(* Properties.                                                             *)

\* No object among the arguments lies so low that its address looks like a compressed oop.
Unambiguous(values) ==
    shift = 0 \/ \A i \in DOMAIN values : Types(method)[i] = "L" => values[i] \notin 1..NarrowMax

Nested(descriptor) == Len(descriptor) > 1 /\ descriptor[2] = "["
Objects == {i \in DOMAIN method.params : method.params[i] = <<"L">>}

\* The detour gets the arguments that were passed, whatever longs and doubles precede one,
\* or the defaults for all if the locals cannot be found; get_arguments() without types
\* gives the objects passed to a static method that has no array of arrays.
ArgsDecoded ==
    /\ pc # "call" /\ Unambiguous(passed) =>
          seen = IF LocalsFound THEN passed ELSE [i \in DOMAIN passed |-> Null]
    /\ /\ references.got # <<>> /\ method.static /\ "pointer" \notin mishap
       /\ Unambiguous(references.due)
       /\ \A i \in DOMAIN method.params : ~Nested(method.params[i])
       => \A i \in Objects :
             references.got[Cardinality({j \in Objects : j <= i})] = references.due[i]

\* What becomes of the arguments the detour asked for: a negative value of a narrow type,
\* int8_t{-1} say, arrives without its sign, as 255.
Delivered == [i \in DOMAIN wanted |-> IF i \in narrow THEN wanted[i] + 2 ^ ByteBits ELSE wanted[i]]

\* What the detour asked for happens, whether it returned or threw afterwards.  The body runs
\* with exactly the arguments that set_arg() was given and the others as they were passed,
\* unless a raw oop was given as the value; a negative value of a type narrower than the
\* parameter, and nothing else, loses its sign.  The caller gets what the detour set last,
\* with its sign, 0 if it only cancelled, and the body's own value otherwise.
CallAnswered ==
    /\ bodySees # <<>> /\ "pointer" \notin mishap => bodySees = Delivered
    /\ pc = "returned" => returned = answer

\* A stack trace holds distinct interpreted callers, from the nearest outwards, and misses
\* none before the first compiled one; where the nearest caller is interpreted, caller()
\* is the first entry.
TraceSound ==
    LET frames == trace.frames
        near == {i \in 2..Len(trace.kinds) :
                    /\ i <= trace.asked + 1
                    /\ \A j \in 2..i : trace.kinds[j] /\ Bases[j] - Bases[j - 1] <= MaxGap} IN
    /\ \A i \in DOMAIN frames :
          /\ frames[i] \in Live(trace.kinds)
          /\ (IF i = 1 THEN Bases[1] ELSE frames[i - 1]) < frames[i]
    /\ Len(frames) <= trace.asked
    /\ \A i \in near : Len(frames) >= i - 1 /\ frames[i - 1] = Bases[i]
    /\ 2 \in near => trace.caller = frames[1]
=============================================================================
