-------------------------- MODULE ObjectAllocator --------------------------
(***************************************************************************)
(* What the callers of make_java_object() and of Java's own `new' rely on: *)
(* an object is put where no object is, and it stays there until the       *)
(* collector has moved everything.  The promise is void once memory is     *)
(* shared by two threads without a synchronisation; nothing is said of     *)
(* what happens then.                                                      *)
(***************************************************************************)
EXTENDS Integers

CONSTANT
    HeapWords    \* words of the heap from which objects are allocated

VARIABLES
    objects,     \* the places in use: the first word and the number of words
    promise      \* FALSE: void

Place == [at : 0..HeapWords, words : 1..HeapWords]

\* Two places that share no word.
Apart(p, q) == p.at + p.words <= q.at \/ q.at + q.words <= p.at

Init == objects = {} /\ promise = TRUE

Allocate ==
    \E p \in Place :
        /\ promise
        /\ p.at + p.words <= HeapWords
        /\ \A q \in objects : Apart(p, q)
        /\ objects' = objects \cup {p}
        /\ UNCHANGED promise

Collect == promise /\ objects' = {} /\ UNCHANGED promise

Void == promise /\ objects' = {} /\ promise' = FALSE

Next == Allocate \/ Collect \/ Void

Spec == Init /\ [][Next]_<<objects, promise>>
=============================================================================
