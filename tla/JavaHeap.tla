------------------------------ MODULE JavaHeap ------------------------------
(***************************************************************************)
(* Allocation in the Java heap behind the JVM's back: make_java_object(),  *)
(* make_java_array() and make_java_string() take memory from the thread-   *)
(* local allocation buffer (TLAB) of the calling thread and, when that is  *)
(* full, from the buffers of other threads.  allocate_tlab() reads _top    *)
(* and _end and writes _top with plain accesses; the owner of the buffer   *)
(* (Java's own `new', external) does the same.                             *)
(*                                                                         *)
(* A thread in a detour is in the state _thread_in_Java and is not stopped *)
(* for a collection inside the library, except where make_java_array()     *)
(* calls JNI (JDK 8); a native thread that was attached is in the state    *)
(* _thread_in_native and is not waited for.  A collection (external) moves *)
(* every object and takes every TLAB away.                                 *)
(*                                                                         *)
(* Addresses count words of 8 bytes and start at 1; 0 is null.             *)
(***************************************************************************)
EXTENDS Integers, Sequences, FiniteSets

CONSTANTS
    Thread,         \* the Java threads that exist
    Native,         \* those of them that are attached native threads
    ThreadList,     \* Threads::_thread_list, empty where it is not exported
    SmrList,        \* ThreadsSMRSupport::_java_thread_list, likewise
    WalkLimit,      \* threads visited in the first list (256)
    SmrLimit,       \* length beyond which the second list is not used (4096)
    Request,        \* what the library is asked to allocate
    JavaWords,      \* sizes of the objects that Java allocates
    StringBytes,    \* instance size of java.lang.String
    Compact,        \* String has a coder field (JDK 9 and later)
    TlabWords,      \* size of a TLAB
    HeapWords       \* bound: words of the heap

RequestType == [kind : {"object", "array", "string"}, count : Int, unit : {1, 2, 4, 8}]

ASSUME JavaHeapAssumption ==
    /\ Native \subseteq Thread
    /\ ThreadList \in Seq(Thread) /\ SmrList \in Seq(Thread)
    /\ WalkLimit \in Nat /\ SmrLimit \in Nat
    /\ Request \subseteq RequestType
    /\ JavaWords \subseteq Nat \ {0}
    /\ StringBytes \in Nat \ {0}
    /\ Compact \in BOOLEAN
    /\ TlabWords \in Nat \ {0} /\ HeapWords \in Nat

VARIABLES
    tlab,         \* _top and _end of each thread's buffer
    eden,         \* the first word that no buffer has covered since the last collection
    blocks,       \* the objects allocated since the last collection
    call,         \* the allocation each thread is in
    mishap        \* what went wrong so far, as the text above calls it (history)

vars == <<tlab, eden, blocks, call, mishap>>

NoTlab == [top |-> 0, end |-> 0]

Nothing == [kind |-> "object", count |-> 0, unit |-> 1]

Idle == [pc |-> "idle", req |-> Nothing, java |-> FALSE, i |-> 1, top |-> 0, end |-> 0,
         need |-> 0, at |-> 0, string |-> 0]

Block == [at : Nat, words : Nat, by : Thread, kind : {"raw", "object", "array", "string"},
          length : Int, value : Nat, coder : {0, 1}, chars : Int]

\* Type invariant.
TypeOK ==
    /\ tlab \in [Thread -> [top : Nat, end : Nat]]
    /\ eden \in Nat
    /\ blocks \in SUBSET Block
    /\ call \in [Thread -> [pc : {"idle", "top", "end", "bump", "stamp", "link"},
                            req : RequestType, java : BOOLEAN, i : Nat, top : Nat,
                            end : Nat, need : Nat, at : Nat, string : Nat]]
    /\ mishap \in SUBSET {"raced", "stopped"}

Init ==
    /\ tlab = [t \in Thread |-> NoTlab]
    /\ eden = 1
    /\ blocks = {}
    /\ call = [t \in Thread |-> Idle]
    /\ mishap = {}

-----------------------------------------------------------------------------
(* Sizes.                                                                  *)

\* (size + 7) & ~7, in words.
Words(bytes) == (bytes + 7) \div 8

\* make_java_array(): 16 bytes of header, then the elements.
ArrayBytes(length, unit) == 16 + length * unit

\* make_java_string(): one byte for each character only if the String has a coder
\* and every character is LATIN1.
StringUnit(req) == IF Compact /\ req.unit = 1 THEN 1 ELSE 2

BackingLength_Chars(req) == req.count

\* The length that the backing array is made with: a byte[] if the String has a
\* coder, a char[] otherwise.
BackingLength(req) == IF Compact THEN req.count * StringUnit(req) ELSE req.count

\* The object, or for a string first the String and then its array.
Need(req, string) ==
    IF req.kind = "object" THEN Words(req.count)
    ELSE IF req.kind = "array" THEN Words(ArrayBytes(req.count, req.unit))
    ELSE IF string = 0 THEN Words(StringBytes)
    ELSE Words(ArrayBytes(req.count, StringUnit(req)))

\* A size of zero and a negative length are refused.
Accepted(req) == IF req.kind = "object" THEN req.count > 0 ELSE req.count >= 0

-----------------------------------------------------------------------------
(* The threads whose buffers are tried, in their order.                    *)

FirstOf(s, n) == SubSeq(s, 1, IF Len(s) < n THEN Len(s) ELSE n)

\* find_allocation_thread() answers the calling thread, which is attached by then.
Candidates(t, java) ==
    IF java THEN <<t>>
    ELSE <<t>> \o FirstOf(ThreadList, WalkLimit)
               \o (IF Len(SmrList) <= SmrLimit THEN SmrList ELSE <<>>)

Candidate(t) == Candidates(t, call[t].java)[call[t].i]

Room(t) == tlab[t].end - tlab[t].top

-----------------------------------------------------------------------------
(* Allocation.                                                             *)

\* make_java_object() is entered.
Begin(t, req, java, string) ==
    [Idle EXCEPT !.pc = "top", !.req = req, !.java = java, !.need = Need(req, string),
                 !.string = string]

MakeJava(t, req) ==
    /\ call[t].pc = "idle"
    /\ Accepted(req)
    /\ call' = [call EXCEPT ![t] = Begin(t, req, FALSE, 0)]
    /\ UNCHANGED <<tlab, eden, blocks, mishap>>

\* A Java thread evaluates `new' (external).
New(t, words) ==
    /\ t \notin Native
    /\ call[t].pc = "idle"
    /\ call' = [call EXCEPT ![t] =
                  Begin(t, [kind |-> "object", count |-> 8 * words, unit |-> 1], TRUE, 0)]
    /\ UNCHANGED <<tlab, eden, blocks, mishap>>

\* allocate_tlab(): _top is read.
ReadTop(t) ==
    /\ call[t].pc = "top"
    /\ call' = [call EXCEPT ![t] = [call[t] EXCEPT !.pc = "end", !.top = tlab[Candidate(t)].top]]
    /\ UNCHANGED <<tlab, eden, blocks, mishap>>

Fits(top, end, need) == top # 0 /\ end # 0 /\ top <= end /\ end - top >= need

\* _end is read: the object fits.
ReadEndFits(t) ==
    LET end == tlab[Candidate(t)].end IN
    /\ call[t].pc = "end"
    /\ Fits(call[t].top, end, call[t].need)
    /\ call' = [call EXCEPT ![t] = [call[t] EXCEPT !.pc = "bump", !.end = end]]
    /\ UNCHANGED <<tlab, eden, blocks, mishap>>

\* It does not: the next thread is tried.
ReadEndNext(t) ==
    /\ call[t].pc = "end"
    /\ ~ Fits(call[t].top, tlab[Candidate(t)].end, call[t].need)
    /\ call[t].i < Len(Candidates(t, call[t].java))
    /\ call' = [call EXCEPT ![t] = [call[t] EXCEPT !.pc = "top", !.top = 0, !.i = call[t].i + 1]]
    /\ UNCHANGED <<tlab, eden, blocks, mishap>>

\* No thread is left: null is returned, for a string without its array too.
ReadEndFails(t) ==
    /\ call[t].pc = "end"
    /\ ~ Fits(call[t].top, tlab[Candidate(t)].end, call[t].need)
    /\ call[t].i = Len(Candidates(t, call[t].java))
    /\ call' = [call EXCEPT ![t] = Idle]
    /\ UNCHANGED <<tlab, eden, blocks, mishap>>

Fresh(t) == [at |-> call[t].top, words |-> call[t].need, by |-> t, kind |-> "raw",
             length |-> 0, value |-> 0, coder |-> 0, chars |-> 0]

NewTop_Unmoved(t) == call[t].top

\* _top is written.  The buffer may be another one than the one that was read.
NewTop(t) == call[t].top + call[t].need

Returned_NewTop(t) == NewTop(t)

\* What allocate_tlab() answers.
Returned(t) == call[t].top

Bump(t) ==
    LET c == Candidate(t) IN
    /\ call[t].pc = "bump"
    /\ tlab' = [tlab EXCEPT ![c] = [top |-> NewTop(t), end |-> tlab[c].end]]
    /\ blocks' = blocks \cup {Fresh(t)}
    /\ call' = [call EXCEPT ![t] = [call[t] EXCEPT !.pc = "stamp", !.at = Returned(t)]]
    /\ mishap' = IF tlab[c] = [top |-> call[t].top, end |-> call[t].end]
                 THEN mishap ELSE mishap \cup {"raced"}
    /\ UNCHANGED <<eden>>

\* memset, mark word and klass; for an array its length, for characters their copy.
\* The write goes to the address, whatever is there.
IsArray(t) == call[t].req.kind = "array" \/ call[t].string # 0

ArrayLength(req) == IF req.kind = "array" THEN req.count ELSE BackingLength(req)

Stamped(t, b) ==
    IF IsArray(t) THEN [b EXCEPT !.kind = "array", !.length = ArrayLength(call[t].req)]
    ELSE IF call[t].req.kind = "string"
         THEN [b EXCEPT !.kind = "string", !.chars = call[t].req.count]
         ELSE [b EXCEPT !.kind = "object"]

Write(at, f) == {IF b.at = at THEN f[b] ELSE b : b \in blocks}

\* What follows: the array of a string, the String's fields, or nothing.
AfterStamp(t) ==
    IF call[t].req.kind # "string" THEN Idle
    ELSE IF call[t].string = 0 THEN Begin(t, call[t].req, FALSE, call[t].at)
    ELSE [call[t] EXCEPT !.pc = "link"]

Stamp(t) ==
    /\ call[t].pc = "stamp"
    /\ blocks' = Write(call[t].at, [b \in blocks |-> Stamped(t, b)])
    /\ call' = [call EXCEPT ![t] = AfterStamp(t)]
    /\ UNCHANGED <<tlab, eden, mishap>>

\* set_field(): value and coder; offset, count and hash where the String has them.
Linked(t, b) ==
    [b EXCEPT !.value = call[t].at,
              !.coder = IF Compact /\ StringUnit(call[t].req) = 2 THEN 1 ELSE 0]

Link(t) ==
    /\ call[t].pc = "link"
    /\ blocks' = Write(call[t].string, [b \in blocks |-> Linked(t, b)])
    /\ call' = [call EXCEPT ![t] = Idle]
    /\ UNCHANGED <<tlab, eden, mishap>>

\* read_java_string(): an array that is empty or longer than ReadLimit gives nothing,
\* a char[] and a LATIN1 byte[] a character for each element, a UTF16 byte[] one for
\* every two.
ReadLimit == 4096

ReadJavaString(s, a) ==
    IF a.length \notin 1..ReadLimit THEN 0
    ELSE IF Compact /\ s.coder = 1 THEN a.length \div 2 ELSE a.length

-----------------------------------------------------------------------------
(* The JVM (external).                                                     *)

\* A thread that has no room for a `new' retires its buffer and gets a fresh one.
Refill(t) ==
    /\ call[t].pc = "idle"
    /\ \E w \in JavaWords : Room(t) < w
    /\ eden + TlabWords <= HeapWords
    /\ tlab' = [tlab EXCEPT ![t] = [top |-> eden, end |-> eden + TlabWords]]
    /\ eden' = eden + TlabWords
    /\ UNCHANGED <<blocks, call, mishap>>

\* A String without a coder needs a char[], whose class JDK 8 finds through JNI only:
\* the thread can be stopped there, with the address of the String in its hand.
AtLookup(t) == ~ Compact /\ call[t].string # 0 /\ call[t].pc = "top" /\ call[t].i = 1

\* Java threads have reached a safepoint; native threads are where they are.
Collect ==
    /\ \A t \in Thread \ Native : call[t].pc = "idle" \/ AtLookup(t)
    /\ tlab' = [t \in Thread |-> NoTlab]
    /\ eden' = 1
    /\ blocks' = {}
    /\ mishap' = IF \A t \in Thread : call[t].pc = "idle"
                 THEN mishap ELSE mishap \cup {"stopped"}
    /\ UNCHANGED call

Next ==
    \/ \E t \in Thread :
          \/ \E req \in Request : MakeJava(t, req)
          \/ \E w \in JavaWords : New(t, w)
          \/ ReadTop(t) \/ ReadEndFits(t) \/ ReadEndNext(t) \/ ReadEndFails(t)
          \/ Bump(t) \/ Stamp(t) \/ Link(t) \/ Refill(t)
    \/ Collect

Spec == Init /\ [][Next]_vars

-----------------------------------------------------------------------------
(* Properties.  All of them say nothing once _top was written over another *)
(* write of it, or a collection overtook a thread in an allocation.        *)

Place(b) == [at |-> b.at, words |-> b.words]

Allocator == INSTANCE ObjectAllocator WITH
    objects <- IF mishap = {} THEN {Place(b) : b \in blocks} ELSE {},
    promise <- (mishap = {})

\* The objects that the library and Java allocate share no word, although each
\* takes from the other's buffers: ObjectAllocator is implemented.
ImplementsAllocator == Allocator!Spec

\* Until a thread has finished its object, the addresses through which it writes
\* are those of the blocks it allocated itself.
Mine(t, at, words) == \E b \in blocks : b.at = at /\ b.words >= words /\ b.by = t

WritesOwn ==
    mishap = {} => \A t \in Thread :
        /\ call[t].pc \in {"stamp", "link"} => Mine(t, call[t].at, call[t].need)
        /\ call[t].string # 0 => Mine(t, call[t].string, Words(StringBytes))

\* A String that has its value has an array of its own for it, large enough for its
\* characters, and read_java_string() reads as many characters out of it as
\* make_java_string() put there, unless the array is longer than it reads.
StringsWhole ==
    mishap = {} => \A s \in blocks : s.kind = "string" /\ s.value # 0 =>
        \E a \in blocks :
            /\ a.at = s.value /\ a.kind = "array" /\ a.by = s.by
            /\ ReadJavaString(s, a) = s.chars \/ a.length > ReadLimit
            /\ a.words * 8 >= 16 + s.chars * (IF Compact /\ s.coder = 0 THEN 1 ELSE 2)
            /\ \A r \in blocks : r.kind = "string" /\ r.value = s.value => r = s

\* A thread takes from the buffer of another one only what does not fit in its own.
OwnFirst ==
    mishap = {} => \A t \in Thread :
        call[t].pc = "bump" /\ Candidate(t) # t => Room(t) < call[t].need
=============================================================================
