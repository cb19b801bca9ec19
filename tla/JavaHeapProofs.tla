--------------------------- MODULE JavaHeapProofs ---------------------------
(***************************************************************************)
(* Proofs about what native code does to Java's data.  JavaHeap: it        *)
(* implements ObjectAllocator, a thread writes only into its own blocks,   *)
(* it borrows only what it cannot get from its own buffer, and every       *)
(* String has its characters, for any threads, lists, buffers, heap and    *)
(* requests.  CollectionWalk: a walk delivers nothing that was not in the  *)
(* container, nothing twice unless a tree was rotated or the elements of   *)
(* an ArrayList were shifted, and everything while elements are only       *)
(* appended to a list or put into a map that neither resizes nor rotates,  *)
(* for any elements, layouts, tables and bounds.                           *)
(***************************************************************************)
EXTENDS JavaHeap, CollectionWalk, FiniteSetTheorems, SequenceTheorems, WellFoundedInduction, TLAPS

-----------------------------------------------------------------------------
(* Sizes and candidates.                                                   *)

\* A positive number of bytes takes a positive number of words.
LEMMA WordsPositive == \A bytes \in Nat \ {0} : Words(bytes) \in Nat \ {0}
BY DEF Words

\* Every request that is accepted needs at least one word.
LEMMA NeedPositive ==
    ASSUME NEW req \in RequestType, NEW string \in Nat, Accepted(req)
    PROVE  Need(req, string) \in Nat \ {0}
<1>1. req.count \in Int /\ req.unit \in {1, 2, 4, 8} /\ req.kind \in {"object", "array", "string"}
  BY DEF RequestType
<1>2. req.kind # "object" => ArrayBytes(req.count, req.unit) \in Nat \ {0}
                             /\ ArrayBytes(req.count, StringUnit(req)) \in Nat \ {0}
  <2>1. \A u \in {1, 2, 4, 8} : req.kind # "object" => ArrayBytes(req.count, u) \in Nat \ {0}
    BY <1>1 DEF Accepted, ArrayBytes
  <2>2. StringUnit(req) \in {1, 2, 4, 8}  BY DEF StringUnit
  <2>3. QED  BY <1>1, <2>1, <2>2
<1>3. StringBytes \in Nat \ {0}  BY JavaHeapAssumption
<1>4. req.kind = "object" => req.count \in Nat \ {0}  BY <1>1 DEF Accepted
<1>5. QED  BY <1>1, <1>2, <1>3, <1>4, WordsPositive DEF Need

\* The candidates are threads, and there is at least one.
LEMMA CandidatesType ==
    ASSUME NEW t \in Thread, NEW java \in BOOLEAN
    PROVE  /\ Candidates(t, java) \in Seq(Thread)
           /\ Len(Candidates(t, java)) \in Nat \ {0}
           /\ Candidates(t, java)[1] = t
<1> DEFINE A == FirstOf(ThreadList, WalkLimit)
           B == IF Len(SmrList) <= SmrLimit THEN SmrList ELSE <<>>
<1>1. A \in Seq(Thread)
  BY JavaHeapAssumption DEF FirstOf
<1>2. B \in Seq(Thread)
  BY JavaHeapAssumption
<1> HIDE DEF A, B
<1>3. /\ <<t>> \o A \o B \in Seq(Thread)
      /\ Len(<<t>> \o A \o B) \in Nat \ {0}
      /\ (<<t>> \o A \o B)[1] = t
  BY <1>1, <1>2
<1>4. CASE java  BY <1>4 DEF Candidates
<1>5. CASE ~java  BY <1>5, <1>3 DEF Candidates, A, B
<1>6. QED  BY <1>4, <1>5

-----------------------------------------------------------------------------
(* The inductive invariant.                                                *)

Calls ==
    \A t \in Thread :
        /\ call[t].i \in 1..Len(Candidates(t, call[t].java))
        /\ call[t].pc = "idle" => call[t] = Idle
        /\ call[t].pc # "idle" => call[t].need \in Nat \ {0} /\ Accepted(call[t].req)
                                  /\ call[t].need = Need(call[t].req, call[t].string)
        /\ call[t].pc = "bump" => Fits(call[t].top, call[t].end, call[t].need)

\* No block lies in the free part of a buffer, no two free parts meet, and all of
\* it is below eden.
Free ==
    /\ eden > 0
    /\ \A b \in blocks : b.at + b.words <= eden /\ b.words > 0
    /\ \A t \in Thread : tlab[t].top <= tlab[t].end /\ tlab[t].end <= eden
                         /\ tlab[t].end <= HeapWords /\ (tlab[t].top = 0 => tlab[t] = NoTlab)
    /\ \A t \in Thread : \A b \in blocks :
          b.at + b.words <= tlab[t].top \/ tlab[t].end <= b.at
    /\ \A t, u \in Thread : t # u => tlab[t].end <= tlab[u].top \/ tlab[u].end <= tlab[t].top

\* A thread has seen its own buffer too full before it goes on to others.
Own ==
    \A t \in Thread :
        /\ call[t].pc = "end" /\ call[t].i = 1 =>
             tlab[t] = NoTlab \/ (call[t].top # 0 /\ call[t].top <= tlab[t].top)
        /\ call[t].pc \in {"top", "end", "bump"} /\ call[t].i # 1 => Room(t) < call[t].need

HeapInv == Calls /\ (mishap = {} => Free /\ Own /\ WritesOwn)

LEMMA CandidateType ==
    ASSUME TypeOK, Calls, NEW t \in Thread
    PROVE  Candidate(t) \in Thread /\ (call[t].i = 1 => Candidate(t) = t)
<1>1. call[t].java \in BOOLEAN /\ call[t].i \in 1..Len(Candidates(t, call[t].java))
  BY DEF TypeOK, Calls
<1>2. QED  BY <1>1, CandidatesType DEF Candidate

-----------------------------------------------------------------------------
(* Type correctness.                                                       *)

CallType == [pc : {"idle", "top", "end", "bump", "stamp", "link"}, req : RequestType,
             java : BOOLEAN, i : Nat, top : Nat, end : Nat, need : Nat, at : Nat, string : Nat]

LEMMA IdleType == Idle \in CallType
BY DEF Idle, CallType, Nothing, RequestType

LEMMA BeginType ==
    ASSUME NEW t \in Thread, NEW req \in RequestType, NEW java \in BOOLEAN,
           NEW string \in Nat, Accepted(req)
    PROVE  Begin(t, req, java, string) \in CallType /\ Idle \in CallType
<1>1. Idle \in CallType  BY IdleType
<1>2. Need(req, string) \in Nat  BY NeedPositive
<1>3. QED  BY <1>1, <1>2 DEF Begin, Idle, CallType, Nothing

\* An arithmetic fact about the length that is stored in an array.
LEMMA LengthType == ASSUME NEW req \in RequestType PROVE ArrayLength(req) \in Int
<1>1. req.count \in Int  BY DEF RequestType
<1>2. StringUnit(req) = 1 \/ StringUnit(req) = 2  BY DEF StringUnit
<1>3. req.count * 1 \in Int /\ req.count * 2 \in Int  BY <1>1
<1>4. req.count * StringUnit(req) \in Int  BY <1>2, <1>3
<1>5. QED  BY <1>1, <1>4 DEF ArrayLength, BackingLength

\* A write changes the content of blocks and leaves them where they are.
LEMMA StampedBlock ==
    ASSUME TypeOK, NEW t \in Thread, NEW b \in Block
    PROVE  /\ Stamped(t, b) \in Block
           /\ Stamped(t, b).at = b.at /\ Stamped(t, b).words = b.words /\ Stamped(t, b).by = b.by
<1>1. call[t].req \in RequestType /\ call[t].req.count \in Int  BY DEF TypeOK, RequestType
<1>2. ArrayLength(call[t].req) \in Int  BY <1>1, LengthType
<1>3. QED  BY <1>1, <1>2 DEF Stamped, Block

LEMMA LinkedBlock ==
    ASSUME TypeOK, NEW t \in Thread, NEW b \in Block
    PROVE  /\ Linked(t, b) \in Block
           /\ Linked(t, b).at = b.at /\ Linked(t, b).words = b.words /\ Linked(t, b).by = b.by
<1>1. call[t].at \in Nat  BY DEF TypeOK
<1>2. QED  BY <1>1 DEF Linked, Block

LEMMA TypeInit == Init => TypeOK
BY DEF Init, TypeOK, NoTlab, Idle, Nothing, RequestType

LEMMA TypeStep == ASSUME TypeOK, Calls, [Next]_vars PROVE TypeOK'
<1> USE DEF CallType
<1>1. ASSUME NEW t \in Thread, NEW req \in Request, MakeJava(t, req) PROVE TypeOK'
  <2>1. req \in RequestType /\ Accepted(req)  BY <1>1, JavaHeapAssumption DEF MakeJava
  <2>2. Begin(t, req, FALSE, 0) \in CallType  BY <2>1, BeginType
  <2>3. QED  BY <1>1, <2>2 DEF TypeOK, MakeJava
<1>2. ASSUME NEW t \in Thread, NEW w \in JavaWords, New(t, w) PROVE TypeOK'
  <2> DEFINE r == [kind |-> "object", count |-> 8 * w, unit |-> 1]
  <2>1. r \in RequestType /\ Accepted(r)  BY JavaHeapAssumption DEF RequestType, Accepted
  <2>2. Begin(t, r, TRUE, 0) \in CallType  BY <2>1, BeginType
  <2>3. QED  BY <1>2, <2>2 DEF TypeOK, New
<1>3. ASSUME NEW t \in Thread, ReadTop(t) PROVE TypeOK'
  <2>1. call[t] \in CallType /\ tlab[Candidate(t)].top \in Nat /\ tlab[Candidate(t)].end \in Nat
    BY CandidateType DEF TypeOK
  <2>2. [call[t] EXCEPT !.pc = "end", !.top = tlab[Candidate(t)].top] \in CallType
    BY <2>1
  <2>3. QED  BY <1>3, <2>2 DEF TypeOK, ReadTop
<1>4. ASSUME NEW t \in Thread, ReadEndFits(t) PROVE TypeOK'
  <2>1. call[t] \in CallType /\ tlab[Candidate(t)].top \in Nat /\ tlab[Candidate(t)].end \in Nat
    BY CandidateType DEF TypeOK
  <2>2. [call[t] EXCEPT !.pc = "bump", !.end = tlab[Candidate(t)].end] \in CallType
    BY <2>1
  <2>3. QED  BY <1>4, <2>2 DEF TypeOK, ReadEndFits
<1>5. ASSUME NEW t \in Thread, ReadEndNext(t) PROVE TypeOK'
  <2>1. call[t] \in CallType /\ tlab[Candidate(t)].top \in Nat /\ tlab[Candidate(t)].end \in Nat
    BY CandidateType DEF TypeOK
  <2>2. [call[t] EXCEPT !.pc = "top", !.top = 0, !.i = call[t].i + 1] \in CallType
    <3>1. call[t].i + 1 \in Nat  BY <2>1
    <3> DEFINE j == call[t].i + 1
    <3> HIDE DEF j
    <3>2. [call[t] EXCEPT !.pc = "top", !.top = 0, !.i = j] \in CallType  BY <2>1, <3>1 DEF j
    <3>3. QED  BY <3>2 DEF j
  <2>3. QED  BY <1>5, <2>2 DEF TypeOK, ReadEndNext
<1>6. ASSUME NEW t \in Thread, ReadEndFails(t) PROVE TypeOK'
  <2>1. Idle \in CallType  BY IdleType
  <2>2. QED  BY <1>6, <2>1 DEF TypeOK, ReadEndFails
<1>7. ASSUME NEW t \in Thread, Bump(t) PROVE TypeOK'
  <2>1. Candidate(t) \in Thread  BY CandidateType
  <2>2. NewTop(t) \in Nat /\ Returned(t) \in Nat  BY DEF TypeOK, NewTop, Returned
  <2>3. Fresh(t) \in Block  BY DEF TypeOK, Fresh, Block
  <2>4. tlab' \in [Thread -> [top : Nat, end : Nat]]  BY <1>7, <2>1, <2>2 DEF TypeOK, Bump
  <2>a. call[t] \in CallType  BY DEF TypeOK
  <2>b. [call[t] EXCEPT !.pc = "stamp", !.at = Returned(t)] \in CallType  BY <2>2, <2>a
  <2>5. call' \in [Thread -> CallType]  BY <1>7, <2>b DEF TypeOK, Bump
  <2>6. QED  BY <1>7, <2>3, <2>4, <2>5 DEF TypeOK, Bump
<1>8. ASSUME NEW t \in Thread, Stamp(t) PROVE TypeOK'
  <2>1. blocks' \in SUBSET Block
    BY <1>8, StampedBlock DEF TypeOK, Stamp, Write
  <2>2. Accepted(call[t].req)  BY <1>8 DEF Calls, Stamp
  <2>3. call[t].req \in RequestType /\ call[t].at \in Nat  BY DEF TypeOK
  <2>a. Idle \in CallType /\ Begin(t, call[t].req, FALSE, call[t].at) \in CallType
    BY <2>2, <2>3, BeginType, IdleType
  <2>b. call[t] \in CallType  BY DEF TypeOK
  <2>c. [call[t] EXCEPT !.pc = "link"] \in CallType  BY <2>b
  <2>4. AfterStamp(t) \in CallType
    <3> HIDE DEF CallType
    <3>1. QED  BY <2>a, <2>c DEF AfterStamp
  <2>d. call' = [call EXCEPT ![t] = AfterStamp(t)] /\ call \in [Thread -> CallType]
    BY <1>8 DEF Stamp, TypeOK
  <2>e. call' \in [Thread -> CallType]
    <3> HIDE DEF CallType
    <3>1. QED  BY <2>4, <2>d
  <2>5. QED  BY <1>8, <2>1, <2>e DEF TypeOK, Stamp
<1>9. ASSUME NEW t \in Thread, Link(t) PROVE TypeOK'
  <2>1. blocks' \in SUBSET Block
    BY <1>9, LinkedBlock DEF TypeOK, Link, Write
  <2>2. call' = [call EXCEPT ![t] = Idle] /\ call \in [Thread -> CallType]
    BY <1>9 DEF Link, TypeOK
  <2>3. call' \in [Thread -> CallType]
    <3> HIDE DEF CallType
    <3>1. QED  BY <2>2, IdleType
  <2>4. QED  BY <1>9, <2>1, <2>3 DEF TypeOK, Link
<1>10. ASSUME NEW t \in Thread, Refill(t) PROVE TypeOK'
  <2>1. TlabWords \in Nat /\ eden \in Nat /\ eden + TlabWords \in Nat
    BY JavaHeapAssumption DEF TypeOK
  <2> DEFINE e == eden + TlabWords
  <2>2. tlab' = [tlab EXCEPT ![t] = [top |-> eden, end |-> e]] /\ eden' = e /\ UNCHANGED <<blocks, call, mishap>>
    BY <1>10 DEF Refill
  <2>3. e \in Nat  BY <2>1
  <2> HIDE DEF e
  <2>4. tlab' \in [Thread -> [top : Nat, end : Nat]]  BY <2>1, <2>2, <2>3 DEF TypeOK
  <2>5. QED  BY <2>2, <2>3, <2>4 DEF TypeOK
<1>11. CASE Collect
  BY <1>11 DEF TypeOK, Collect, NoTlab
<1>12. CASE UNCHANGED vars
  BY <1>12 DEF TypeOK, vars
<1>13. QED
  BY <1>1, <1>2, <1>3, <1>4, <1>5, <1>6, <1>7, <1>8, <1>9, <1>10, <1>11, <1>12 DEF Next

-----------------------------------------------------------------------------
(* The calls.                                                              *)

\* Calls for one thread and any record of its call.
CallOK(t, c) ==
    /\ c.i \in 1..Len(Candidates(t, c.java))
    /\ c.pc = "idle" => c = Idle
    /\ c.pc # "idle" => c.need \in Nat \ {0} /\ Accepted(c.req) /\ c.need = Need(c.req, c.string)
    /\ c.pc = "bump" => Fits(c.top, c.end, c.need)

LEMMA IdleOK == ASSUME NEW t \in Thread PROVE CallOK(t, Idle)
<1>1. Idle.i = 1 /\ Idle.pc = "idle"  BY DEF Idle
<1>a. Idle.java \in BOOLEAN  BY DEF Idle
<1>2. Len(Candidates(t, Idle.java)) \in Nat \ {0}  BY <1>a, CandidatesType
<1>3. QED  BY <1>1, <1>2 DEF CallOK

LEMMA BeginOK ==
    ASSUME NEW t \in Thread, NEW req \in RequestType, NEW java \in BOOLEAN,
           NEW string \in Nat, Accepted(req)
    PROVE  CallOK(t, Begin(t, req, java, string))
<1> DEFINE c == Begin(t, req, java, string)
<1>1. c.i = 1 /\ c.pc = "top" /\ c.java = java /\ c.req = req /\ c.need = Need(req, string)
      /\ c.string = string
  BY DEF Begin, Idle
<1>2. Len(Candidates(t, java)) \in Nat \ {0}  BY CandidatesType
<1>3. Need(req, string) \in Nat \ {0}  BY NeedPositive
<1> HIDE DEF c
<1>4. CallOK(t, c)  BY <1>1, <1>2, <1>3 DEF CallOK
<1>5. QED  BY <1>4 DEF c

LEMMA CallsStep == ASSUME TypeOK, Calls, [Next]_vars PROVE Calls'
<1>0. /\ Calls <=> \A t \in Thread : CallOK(t, call[t])
      /\ Calls' <=> \A t \in Thread : CallOK(t, call'[t])
  BY DEF Calls, CallOK
<1>a. ASSUME NEW t \in Thread, NEW c, CallOK(t, c), call' = [call EXCEPT ![t] = c] PROVE Calls'
  BY <1>0, <1>a DEF TypeOK
<1>b. \A t \in Thread : CallOK(t, call[t]) /\ call[t] \in CallType  BY <1>0 DEF TypeOK, CallType
<1>1. ASSUME NEW t \in Thread, NEW req \in Request, MakeJava(t, req) PROVE Calls'
  <2>1. req \in RequestType /\ Accepted(req)  BY <1>1, JavaHeapAssumption DEF MakeJava
  <2>2. CallOK(t, Begin(t, req, FALSE, 0))  BY <2>1, BeginOK
  <2>3. QED  BY <1>1, <1>a, <2>2 DEF MakeJava
<1>2. ASSUME NEW t \in Thread, NEW w \in JavaWords, New(t, w) PROVE Calls'
  <2> DEFINE r == [kind |-> "object", count |-> 8 * w, unit |-> 1]
  <2>1. r \in RequestType /\ Accepted(r)  BY JavaHeapAssumption DEF RequestType, Accepted
  <2>2. CallOK(t, Begin(t, r, TRUE, 0))  BY <2>1, BeginOK
  <2>3. QED  BY <1>2, <1>a, <2>2 DEF New
<1>3. ASSUME NEW t \in Thread, ReadTop(t) PROVE Calls'
  <2> DEFINE c == [call[t] EXCEPT !.pc = "end", !.top = tlab[Candidate(t)].top]
  <2>1. CallOK(t, c)  BY <1>3, <1>b DEF CallOK, CallType, ReadTop
  <2>2. QED  BY <1>3, <1>a, <2>1 DEF ReadTop
<1>4. ASSUME NEW t \in Thread, ReadEndFits(t) PROVE Calls'
  <2> DEFINE c == [call[t] EXCEPT !.pc = "bump", !.end = tlab[Candidate(t)].end]
  <2>1. CallOK(t, c)  BY <1>4, <1>b DEF CallOK, CallType, ReadEndFits
  <2>2. QED  BY <1>4, <1>a, <2>1 DEF ReadEndFits
<1>5. ASSUME NEW t \in Thread, ReadEndNext(t) PROVE Calls'
  <2> DEFINE c == [call[t] EXCEPT !.pc = "top", !.top = 0, !.i = call[t].i + 1]
  <2>0. Len(Candidates(t, call[t].java)) \in Nat  BY <1>b, CandidatesType DEF CallType
  <2>1. CallOK(t, c)  BY <1>5, <1>b, <2>0 DEF CallOK, CallType, ReadEndNext
  <2>2. QED  BY <1>5, <1>a, <2>1 DEF ReadEndNext
<1>6. ASSUME NEW t \in Thread, ReadEndFails(t) PROVE Calls'
  BY <1>6, <1>a, IdleOK DEF ReadEndFails
<1>7. ASSUME NEW t \in Thread, Bump(t) PROVE Calls'
  <2> DEFINE c == [call[t] EXCEPT !.pc = "stamp", !.at = Returned(t)]
  <2>1. CallOK(t, c)  BY <1>7, <1>b DEF CallOK, CallType, Bump
  <2>2. QED  BY <1>7, <1>a, <2>1 DEF Bump
<1>8. ASSUME NEW t \in Thread, Stamp(t) PROVE Calls'
  <2>1. Accepted(call[t].req) /\ call[t].req \in RequestType /\ call[t].at \in Nat
    BY <1>8, <1>b DEF CallOK, CallType, Stamp
  <2>2. CallOK(t, Begin(t, call[t].req, FALSE, call[t].at))  BY <2>1, BeginOK
  <2>3. CallOK(t, [call[t] EXCEPT !.pc = "link"])  BY <1>8, <1>b DEF CallOK, CallType, Stamp
  <2>4. CallOK(t, AfterStamp(t))  BY <2>2, <2>3, IdleOK DEF AfterStamp
  <2>5. QED  BY <1>8, <1>a, <2>4 DEF Stamp
<1>9. ASSUME NEW t \in Thread, Link(t) PROVE Calls'
  BY <1>9, <1>a, IdleOK DEF Link
<1>10. ASSUME NEW t \in Thread, Refill(t) PROVE Calls'
  BY <1>10, <1>0 DEF Refill
<1>11. CASE Collect  BY <1>11, <1>0 DEF Collect
<1>12. CASE UNCHANGED vars  BY <1>12, <1>0 DEF vars
<1>13. QED
  BY <1>1, <1>2, <1>3, <1>4, <1>5, <1>6, <1>7, <1>8, <1>9, <1>10, <1>11, <1>12 DEF Next

-----------------------------------------------------------------------------
(* The steps that take memory.                                             *)

\* A bump that hit the buffer it had read takes the first free words of it.
LEMMA BumpFacts ==
    ASSUME TypeOK, Calls, NEW t \in Thread, Bump(t), mishap' = {}
    PROVE  LET c == Candidate(t) IN
           /\ mishap = {} /\ c \in Thread
           /\ tlab[c].top = call[t].top /\ tlab[c].end = call[t].end
           /\ call[t].need \in Nat \ {0} /\ call[t].top \in Nat \ {0} /\ call[t].end \in Nat
           /\ call[t].top + call[t].need <= tlab[c].end
           /\ tlab' = [tlab EXCEPT ![c] = [top |-> call[t].top + call[t].need, end |-> tlab[c].end]]
           /\ blocks' = blocks \cup {Fresh(t)}
           /\ Fresh(t).at = call[t].top /\ Fresh(t).words = call[t].need /\ Fresh(t).by = t
<1> DEFINE c == Candidate(t)
<1>1. c \in Thread  BY CandidateType
<1>2. tlab[c] = [top |-> call[t].top, end |-> call[t].end] /\ mishap = {}
  <2>1. "raced" \notin mishap'  BY Zenon
  <2>2. QED  BY <2>1 DEF Bump
<1>3. Fits(call[t].top, call[t].end, call[t].need) /\ call[t].need \in Nat \ {0}
  BY DEF Bump, Calls
<1>4. call[t].top \in Nat /\ call[t].end \in Nat  BY DEF TypeOK
<1>5. /\ tlab' = [tlab EXCEPT ![c] = [top |-> call[t].top + call[t].need, end |-> tlab[c].end]]
      /\ blocks' = blocks \cup {Fresh(t)}
  BY DEF Bump, NewTop
<1>6. Fresh(t).at = call[t].top /\ Fresh(t).words = call[t].need /\ Fresh(t).by = t
  BY DEF Fresh
<1>7. QED  BY <1>1, <1>2, <1>3, <1>4, <1>5, <1>6 DEF Fits

\* Stamp and Link keep the place and the owner of every block.
LEMMA WriteKeeps ==
    ASSUME TypeOK, NEW t \in Thread, Stamp(t) \/ Link(t)
    PROVE  /\ \A b \in blocks' : \E a \in blocks : a.at = b.at /\ a.words = b.words /\ a.by = b.by
           /\ \A a \in blocks : \E b \in blocks' : a.at = b.at /\ a.words = b.words /\ a.by = b.by
<1>0. blocks \subseteq Block  BY DEF TypeOK
<1>1. CASE Stamp(t)
  <2>1. blocks' = {IF b.at = call[t].at THEN Stamped(t, b) ELSE b : b \in blocks}
    BY <1>1 DEF Stamp, Write
  <2>2. \A b \in blocks : Stamped(t, b).at = b.at /\ Stamped(t, b).words = b.words
                          /\ Stamped(t, b).by = b.by
    BY <1>0, StampedBlock
  <2>3. QED  BY <2>1, <2>2
<1>2. CASE Link(t)
  <2>1. blocks' = {IF b.at = call[t].string THEN Linked(t, b) ELSE b : b \in blocks}
    BY <1>2 DEF Link, Write
  <2>2. \A b \in blocks : Linked(t, b).at = b.at /\ Linked(t, b).words = b.words
                          /\ Linked(t, b).by = b.by
    BY <1>0, LinkedBlock
  <2>3. QED  BY <2>1, <2>2
<1>3. QED  BY <1>1, <1>2

-----------------------------------------------------------------------------
(* The free parts.                                                         *)

LEMMA FreeBump ==
    ASSUME TypeOK, Calls, Free, NEW t \in Thread, Bump(t), mishap' = {} PROVE Free'
<1> DEFINE c == Candidate(t)
           top == call[t].top
           need == call[t].need
           f == Fresh(t)
<1>1. /\ c \in Thread /\ tlab[c].top = top /\ need \in Nat \ {0} /\ top \in Nat \ {0}
      /\ top + need <= tlab[c].end
      /\ tlab' = [tlab EXCEPT ![c] = [top |-> top + need, end |-> tlab[c].end]]
      /\ blocks' = blocks \cup {f}
      /\ f.at = top /\ f.words = need
  BY BumpFacts
<1>2. eden' = eden  BY DEF Bump
<1>3. /\ tlab \in [Thread -> [top : Nat, end : Nat]] /\ eden \in Nat
      /\ \A b \in blocks : b.at \in Nat /\ b.words \in Nat
  BY DEF TypeOK, Block
<1> HIDE DEF c, top, need, f
<1>4. \A u \in Thread : tlab'[u].end = tlab[u].end /\ tlab[u].top <= tlab'[u].top
                        /\ (u # c => tlab'[u] = tlab[u])
                        /\ (u = c => tlab'[u].top = top + need)
  BY <1>1, <1>3
<1>5. \A b \in blocks' : b.at + b.words <= eden' /\ b.words > 0
  BY <1>1, <1>2, <1>3 DEF Free
<1>6. \A u \in Thread : tlab'[u].top <= tlab'[u].end /\ tlab'[u].end <= eden'
                        /\ tlab'[u].end <= HeapWords /\ (tlab'[u].top = 0 => tlab'[u] = NoTlab)
  BY <1>1, <1>2, <1>3, <1>4 DEF Free
<1>7. \A u \in Thread : \A b \in blocks' :
          b.at + b.words <= tlab'[u].top \/ tlab'[u].end <= b.at
  <2>1. SUFFICES ASSUME NEW u \in Thread, NEW b \in blocks'
                 PROVE  b.at + b.words <= tlab'[u].top \/ tlab'[u].end <= b.at
    OBVIOUS
  <2>2. tlab[u].top \in Nat /\ tlab[u].end \in Nat /\ tlab'[u].top \in Nat  BY <1>1, <1>3, <1>4
  <2>3. CASE b \in blocks
    <3>1. b.at + b.words <= tlab[u].top \/ tlab[u].end <= b.at  BY <2>3 DEF Free
    <3>2. QED  BY <3>1, <2>2, <2>3, <1>3, <1>4
  <2>4. CASE b = f /\ u = c  BY <2>4, <1>1, <1>4
  <2>5. CASE b = f /\ u # c
    <3>1. tlab[u].end <= tlab[c].top \/ tlab[c].end <= tlab[u].top  BY <2>5, <1>1 DEF Free
    <3>2. tlab[c].end \in Nat  BY <1>1, <1>3
    <3>3. QED  BY <3>1, <3>2, <2>2, <2>5, <1>1, <1>4
  <2>6. QED  BY <2>3, <2>4, <2>5, <1>1
<1>8. \A u, v \in Thread : u # v => tlab'[u].end <= tlab'[v].top \/ tlab'[v].end <= tlab'[u].top
  <2>1. SUFFICES ASSUME NEW u \in Thread, NEW v \in Thread, u # v
                 PROVE  tlab'[u].end <= tlab'[v].top \/ tlab'[v].end <= tlab'[u].top
    OBVIOUS
  <2>2. tlab[u].end <= tlab[v].top \/ tlab[v].end <= tlab[u].top  BY <2>1 DEF Free
  <2>3. /\ tlab[u].top \in Nat /\ tlab[u].end \in Nat /\ tlab'[u].top \in Nat
        /\ tlab[v].top \in Nat /\ tlab[v].end \in Nat /\ tlab'[v].top \in Nat
    BY <1>1, <1>3, <1>4
  <2>4. QED  BY <2>2, <2>3, <1>4
<1>9. QED  BY <1>2, <1>5, <1>6, <1>7, <1>8 DEF Free

LEMMA FreeRefill ==
    ASSUME TypeOK, Free, NEW t \in Thread, Refill(t) PROVE Free'
<1>1. /\ tlab' = [tlab EXCEPT ![t] = [top |-> eden, end |-> eden + TlabWords]]
      /\ eden' = eden + TlabWords /\ eden + TlabWords <= HeapWords /\ blocks' = blocks
  BY DEF Refill
<1>2. /\ tlab \in [Thread -> [top : Nat, end : Nat]] /\ eden \in Nat /\ TlabWords \in Nat \ {0}
      /\ HeapWords \in Nat /\ \A b \in blocks : b.at \in Nat /\ b.words \in Nat
  BY JavaHeapAssumption DEF TypeOK, Block
<1>3. \A u \in Thread : /\ u # t => tlab'[u] = tlab[u]
                        /\ u = t => tlab'[u] = [top |-> eden, end |-> eden + TlabWords]
  BY <1>1, <1>2
<1>4. \A b \in blocks' : b.at + b.words <= eden' /\ b.words > 0
  BY <1>1, <1>2 DEF Free
<1>a. eden > 0 /\ eden' > 0  BY <1>1, <1>2 DEF Free
<1>5. \A u \in Thread : tlab'[u].top <= tlab'[u].end /\ tlab'[u].end <= eden'
                        /\ tlab'[u].end <= HeapWords /\ (tlab'[u].top = 0 => tlab'[u] = NoTlab)
  BY <1>1, <1>2, <1>3, <1>a DEF Free
<1>6. \A u \in Thread : \A b \in blocks' :
          b.at + b.words <= tlab'[u].top \/ tlab'[u].end <= b.at
  BY <1>1, <1>2, <1>3 DEF Free
<1>7. \A u, v \in Thread : u # v => tlab'[u].end <= tlab'[v].top \/ tlab'[v].end <= tlab'[u].top
  <2>1. SUFFICES ASSUME NEW u \in Thread, NEW v \in Thread, u # v
                 PROVE  tlab'[u].end <= tlab'[v].top \/ tlab'[v].end <= tlab'[u].top
    OBVIOUS
  <2>2. tlab[u].end <= eden /\ tlab[v].end <= eden  BY DEF Free
  <2>3. tlab[u].end <= tlab[v].top \/ tlab[v].end <= tlab[u].top  BY <2>1 DEF Free
  <2>4. QED  BY <1>2, <1>3, <2>1, <2>2, <2>3
<1>8. QED  BY <1>a, <1>4, <1>5, <1>6, <1>7 DEF Free

LEMMA FreeWrite ==
    ASSUME TypeOK, Free, NEW t \in Thread, Stamp(t) \/ Link(t) PROVE Free'
<1>1. tlab' = tlab /\ eden' = eden  BY DEF Stamp, Link
<1>2. \A b \in blocks' : \E a \in blocks : a.at = b.at /\ a.words = b.words
  BY WriteKeeps
<1>3. QED  BY <1>1, <1>2 DEF Free

LEMMA FreeStep ==
    ASSUME TypeOK, Calls, Free, [Next]_vars, mishap' = {} PROVE Free'
<1>1. ASSUME NEW t \in Thread,
             \/ \E req \in Request : MakeJava(t, req)
             \/ \E w \in JavaWords : New(t, w)
             \/ ReadTop(t) \/ ReadEndFits(t) \/ ReadEndNext(t) \/ ReadEndFails(t)
      PROVE  Free'
  <2>1. tlab' = tlab /\ eden' = eden /\ blocks' = blocks
    BY <1>1 DEF MakeJava, New, ReadTop, ReadEndFits, ReadEndNext, ReadEndFails
  <2>2. QED  BY <2>1 DEF Free
<1>2. CASE Collect
  <2>1. tlab' = [t \in Thread |-> NoTlab] /\ eden' = 1 /\ blocks' = {}  BY <1>2 DEF Collect
  <2>2. QED  BY <2>1, JavaHeapAssumption DEF Free, NoTlab
<1>3. CASE UNCHANGED vars  BY <1>3 DEF vars, Free
<1>4. QED  BY <1>1, <1>2, <1>3, FreeBump, FreeWrite, FreeRefill DEF Next

-----------------------------------------------------------------------------
(* The buffer of the thread itself.                                        *)

\* Own for one thread, its call and its buffer.
OwnOK(t, c, b) ==
    /\ c.pc = "end" /\ c.i = 1 => b = NoTlab \/ (c.top # 0 /\ c.top <= b.top)
    /\ c.pc \in {"top", "end", "bump"} /\ c.i # 1 => b.end - b.top < c.need

LEMMA OwnRestated ==
    /\ Own <=> \A t \in Thread : OwnOK(t, call[t], tlab[t])
    /\ Own' <=> \A t \in Thread : OwnOK(t, call'[t], tlab'[t])
BY DEF Own, OwnOK, Room

LEMMA OwnCall ==
    ASSUME TypeOK, Own, NEW t \in Thread, NEW c, OwnOK(t, c, tlab[t]), tlab' = tlab,
           call' = [call EXCEPT ![t] = c]
    PROVE  Own'
BY OwnRestated DEF TypeOK

LEMMA OwnAtStart ==
    ASSUME NEW t \in Thread, NEW b, NEW req, NEW java, NEW string
    PROVE  OwnOK(t, Idle, b) /\ OwnOK(t, Begin(t, req, java, string), b)
<1>1. Idle.pc = "idle"  BY DEF Idle
<1>2. Begin(t, req, java, string).pc = "top" /\ Begin(t, req, java, string).i = 1
  BY DEF Begin, Idle
<1>3. QED  BY <1>1, <1>2 DEF OwnOK

LEMMA OwnBump ==
    ASSUME TypeOK, Calls, Free, Own, NEW t \in Thread, Bump(t), mishap' = {} PROVE Own'
<1> DEFINE c == Candidate(t)
           top == call[t].top
           need == call[t].need
<1>1. /\ c \in Thread /\ tlab[c].top = top /\ need \in Nat \ {0} /\ top \in Nat \ {0}
      /\ tlab' = [tlab EXCEPT ![c] = [top |-> top + need, end |-> tlab[c].end]]
  BY BumpFacts
<1>2. call' = [call EXCEPT ![t] = [call[t] EXCEPT !.pc = "stamp", !.at = Returned(t)]]
  BY DEF Bump
<1> HIDE DEF c, top, need
<1>3. SUFFICES ASSUME NEW u \in Thread PROVE OwnOK(u, call'[u], tlab'[u])
  BY OwnRestated
<1>4. OwnOK(u, call[u], tlab[u])  BY OwnRestated
<1>5. CASE u = t
  <2>1. call'[u].pc = "stamp"  BY <1>2, <1>5 DEF TypeOK
  <2>2. QED  BY <2>1 DEF OwnOK
<1>6. CASE u # t /\ u # c
  <2>1. call'[u] = call[u] /\ tlab'[u] = tlab[u]  BY <1>1, <1>2, <1>6 DEF TypeOK
  <2>2. QED  BY <2>1, <1>4
<1>7. CASE u # t /\ u = c
  <2>1. call'[u] = call[u] /\ tlab'[u].top = top + need /\ tlab'[u].end = tlab[u].end
        /\ tlab[u].top = top
    BY <1>1, <1>2, <1>7 DEF TypeOK
  <2>2. tlab[u].end \in Nat /\ call[u].top \in Nat /\ call[u].need \in Nat  BY DEF TypeOK
  <2>3. tlab[u] # NoTlab  BY <1>1, <2>1 DEF NoTlab
  <2>4. QED  BY <1>1, <1>4, <2>1, <2>2, <2>3 DEF OwnOK
<1>8. QED  BY <1>5, <1>6, <1>7

LEMMA OwnStep ==
    ASSUME TypeOK, Calls, Free, Own, [Next]_vars, mishap' = {} PROVE Own'
<1>b. \A t \in Thread : OwnOK(t, call[t], tlab[t]) /\ call[t] \in CallType
                        /\ tlab[t].top \in Nat /\ tlab[t].end \in Nat
  BY OwnRestated DEF TypeOK, CallType
<1>1. ASSUME NEW t \in Thread, \/ \E req \in Request : MakeJava(t, req)
                               \/ \E w \in JavaWords : New(t, w)
      PROVE  Own'
  BY <1>1, OwnCall, OwnAtStart DEF MakeJava, New
<1>3. ASSUME NEW t \in Thread, ReadTop(t) PROVE Own'
  <2> DEFINE c == [call[t] EXCEPT !.pc = "end", !.top = tlab[Candidate(t)].top]
  <2>1. c.pc = "end" /\ c.i = call[t].i /\ c.top = tlab[Candidate(t)].top /\ c.need = call[t].need
    BY <1>b DEF CallType
  <2>2. call[t].i = 1 => Candidate(t) = t  BY CandidateType
  <2>3. tlab[t].top = 0 => tlab[t] = NoTlab  BY DEF Free
  <2>4. OwnOK(t, c, tlab[t])
    <3> HIDE DEF c
    <3>1. QED  BY <1>3, <1>b, <2>1, <2>2, <2>3 DEF OwnOK, ReadTop
  <2>5. QED  BY <1>3, <2>4, OwnCall DEF ReadTop
<1>4. ASSUME NEW t \in Thread, ReadEndFits(t) PROVE Own'
  <2> DEFINE c == [call[t] EXCEPT !.pc = "bump", !.end = tlab[Candidate(t)].end]
  <2>1. OwnOK(t, c, tlab[t])  BY <1>4, <1>b DEF OwnOK, CallType, ReadEndFits
  <2>2. QED  BY <1>4, <2>1, OwnCall DEF ReadEndFits
<1>5. ASSUME NEW t \in Thread, ReadEndNext(t) PROVE Own'
  <2> DEFINE c == [call[t] EXCEPT !.pc = "top", !.top = 0, !.i = call[t].i + 1]
  <2>1. c.pc = "top" /\ c.need = call[t].need  BY <1>b DEF CallType
  <2>2. tlab[t].end - tlab[t].top < call[t].need
    <3>1. CASE call[t].i # 1  BY <1>5, <1>b, <3>1 DEF OwnOK, ReadEndNext
    <3>2. CASE call[t].i = 1
      <4>1. ~ Fits(call[t].top, tlab[t].end, call[t].need) /\ call[t].pc = "end"
        BY <1>5, <3>2, CandidateType DEF ReadEndNext
      <4>2. tlab[t] = NoTlab \/ (call[t].top # 0 /\ call[t].top <= tlab[t].top)
        BY <1>b, <3>2, <4>1 DEF OwnOK
      <4>3. call[t].need \in Nat \ {0}  BY <4>1 DEF Calls
      <4>4. call[t].top \in Nat /\ tlab[t].top <= tlab[t].end  BY <1>b DEF CallType, Free
      <4>5. CASE tlab[t] = NoTlab  BY <4>3, <4>5 DEF NoTlab
      <4>6. CASE call[t].top # 0 /\ call[t].top <= tlab[t].top
        <5>1. tlab[t].top \in Nat /\ tlab[t].end \in Nat  BY <1>b
        <5>2. call[t].top <= tlab[t].end /\ tlab[t].end # 0  BY <4>4, <4>6, <5>1
        <5>3. ~ (tlab[t].end - call[t].top >= call[t].need)  BY <4>1, <4>6, <5>2 DEF Fits
        <5>4. QED  BY <4>3, <4>4, <4>6, <5>1, <5>3
      <4>7. QED  BY <4>2, <4>5, <4>6
    <3>3. QED  BY <3>1, <3>2
  <2>3. OwnOK(t, c, tlab[t])
    <3> HIDE DEF c
    <3>1. QED  BY <2>1, <2>2 DEF OwnOK
  <2>4. QED  BY <1>5, <2>3, OwnCall DEF ReadEndNext
<1>6. ASSUME NEW t \in Thread, ReadEndFails(t) \/ Link(t) PROVE Own'
  BY <1>6, OwnCall, OwnAtStart DEF ReadEndFails, Link
<1>8. ASSUME NEW t \in Thread, Stamp(t) PROVE Own'
  <2>1. OwnOK(t, [call[t] EXCEPT !.pc = "link"], tlab[t])  BY <1>b DEF OwnOK, CallType
  <2>2. OwnOK(t, AfterStamp(t), tlab[t])  BY <2>1, OwnAtStart DEF AfterStamp
  <2>3. QED  BY <1>8, <2>2, OwnCall DEF Stamp
<1>10. ASSUME NEW t \in Thread, Refill(t) PROVE Own'
  <2>1. SUFFICES ASSUME NEW u \in Thread PROVE OwnOK(u, call'[u], tlab'[u])
    BY OwnRestated
  <2>2. call' = call /\ (u # t => tlab'[u] = tlab[u]) /\ call[t].pc = "idle"
    BY <1>10 DEF Refill, TypeOK
  <2>3. QED  BY <1>b, <2>2 DEF OwnOK
<1>11. CASE Collect
  <2>1. \A t \in Thread : call[t].pc = "idle"
    <3>1. "stopped" \notin mishap'  BY Zenon
    <3>2. QED  BY <1>11, <3>1 DEF Collect
  <2>2. \A t \in Thread : call'[t].pc = "idle"  BY <1>11, <2>1 DEF Collect
  <2>3. QED  BY <2>2, OwnRestated DEF OwnOK
<1>12. CASE UNCHANGED vars  BY <1>12, OwnRestated DEF vars
<1>13. QED
  BY <1>1, <1>3, <1>4, <1>5, <1>6, <1>8, <1>10, <1>11, <1>12, OwnBump DEF Next

-----------------------------------------------------------------------------
(* The blocks that a thread writes into.                                   *)

\* WritesOwn for one thread, its call and the blocks.
OwnedIn(blks, t, at, words) == \E b \in blks : b.at = at /\ b.words >= words /\ b.by = t

WritesOK(t, c, blks) ==
    /\ c.pc \in {"stamp", "link"} => OwnedIn(blks, t, c.at, c.need)
    /\ c.string # 0 => OwnedIn(blks, t, c.string, Words(StringBytes))

LEMMA WritesRestated ==
    /\ WritesOwn <=> (mishap = {} => \A t \in Thread : WritesOK(t, call[t], blocks))
    /\ WritesOwn' <=> (mishap' = {} => \A t \in Thread : WritesOK(t, call'[t], blocks'))
BY DEF WritesOwn, WritesOK, OwnedIn, Mine

\* More blocks, or the same blocks with another content, are as good.
LEMMA WritesKept ==
    ASSUME NEW t \in Thread, NEW c, NEW old, NEW new, WritesOK(t, c, old),
           \A a \in old : \E b \in new : a.at = b.at /\ a.words = b.words /\ a.by = b.by
    PROVE  WritesOK(t, c, new)
<1>1. \A at, words : OwnedIn(old, t, at, words) => OwnedIn(new, t, at, words)
  BY DEF OwnedIn
<1>2. QED  BY <1>1 DEF WritesOK

LEMMA WritesAtStart ==
    ASSUME NEW t \in Thread, NEW blks, NEW req, NEW java
    PROVE  WritesOK(t, Idle, blks) /\ WritesOK(t, Begin(t, req, java, 0), blks)
<1>1. Idle.pc = "idle" /\ Idle.string = 0  BY DEF Idle
<1>2. Begin(t, req, java, 0).pc = "top" /\ Begin(t, req, java, 0).string = 0
  BY DEF Begin, Idle
<1>3. QED  BY <1>1, <1>2 DEF WritesOK

LEMMA WritesStep ==
    ASSUME TypeOK, Calls, WritesOwn, mishap = {}, [Next]_vars, mishap' = {} PROVE WritesOwn'
<1>a. \A t \in Thread : WritesOK(t, call[t], blocks) /\ call[t] \in CallType
  BY WritesRestated DEF TypeOK, CallType
<1>b. ASSUME NEW t \in Thread, NEW c, call' = [call EXCEPT ![t] = c], WritesOK(t, c, blocks'),
             \A a \in blocks : \E b \in blocks' : a.at = b.at /\ a.words = b.words /\ a.by = b.by
      PROVE  WritesOwn'
  <2>1. \A u \in Thread : WritesOK(u, call[u], blocks')  BY <1>a, <1>b, WritesKept
  <2>2. \A u \in Thread : call'[u] = IF u = t THEN c ELSE call[u]  BY <1>b DEF TypeOK
  <2>3. QED  BY <1>b, <2>1, <2>2, WritesRestated
<1>1. ASSUME NEW t \in Thread, \/ \E req \in Request : MakeJava(t, req)
                               \/ \E w \in JavaWords : New(t, w)
                               \/ ReadEndFails(t)
      PROVE  WritesOwn'
  <2>1. blocks' = blocks  BY <1>1 DEF MakeJava, New, ReadEndFails
  <2>2. QED  BY <1>1, <1>b, <2>1, WritesAtStart DEF MakeJava, New, ReadEndFails
<1>3. ASSUME NEW t \in Thread, ReadTop(t) PROVE WritesOwn'
  <2> DEFINE c == [call[t] EXCEPT !.pc = "end", !.top = tlab[Candidate(t)].top]
  <2>1. WritesOK(t, c, blocks)  BY <1>a DEF WritesOK, CallType
  <2>2. QED  BY <1>3, <1>b, <2>1 DEF ReadTop
<1>4. ASSUME NEW t \in Thread, ReadEndFits(t) PROVE WritesOwn'
  <2> DEFINE c == [call[t] EXCEPT !.pc = "bump", !.end = tlab[Candidate(t)].end]
  <2>1. WritesOK(t, c, blocks)  BY <1>a DEF WritesOK, CallType
  <2>2. QED  BY <1>4, <1>b, <2>1 DEF ReadEndFits
<1>5. ASSUME NEW t \in Thread, ReadEndNext(t) PROVE WritesOwn'
  <2> DEFINE c == [call[t] EXCEPT !.pc = "top", !.top = 0, !.i = call[t].i + 1]
  <2>1. WritesOK(t, c, blocks)  BY <1>a DEF WritesOK, CallType
  <2>2. QED  BY <1>5, <1>b, <2>1 DEF ReadEndNext
<1>7. ASSUME NEW t \in Thread, Bump(t) PROVE WritesOwn'
  <2> DEFINE c == [call[t] EXCEPT !.pc = "stamp", !.at = Returned(t)]
  <2>1. /\ blocks' = blocks \cup {Fresh(t)} /\ call[t].need \in Nat
        /\ Fresh(t).at = call[t].top /\ Fresh(t).words = call[t].need /\ Fresh(t).by = t
    BY <1>7, BumpFacts
  <2>2. c.pc = "stamp" /\ c.at = call[t].top /\ c.need = call[t].need /\ c.string = call[t].string
    BY <1>a DEF CallType, Returned
  <2>3. WritesOK(t, c, blocks')
    <3>1. WritesOK(t, call[t], blocks')  BY <1>a, <2>1, WritesKept
    <3>2. OwnedIn(blocks', t, call[t].top, call[t].need)  BY <2>1 DEF OwnedIn
    <3> HIDE DEF c
    <3>3. QED  BY <3>1, <3>2, <2>2 DEF WritesOK
  <2>4. QED  BY <1>7, <1>b, <2>1, <2>3 DEF Bump
<1>8. ASSUME NEW t \in Thread, Stamp(t) PROVE WritesOwn'
  <2>1. \A a \in blocks : \E b \in blocks' : a.at = b.at /\ a.words = b.words /\ a.by = b.by
    BY <1>8, WriteKeeps
  <2>2. WritesOK(t, call[t], blocks')  BY <1>a, <2>1, WritesKept
  <2>3. CASE call[t].req.kind # "string"
    <3>1. AfterStamp(t) = Idle  BY <2>3 DEF AfterStamp
    <3>2. QED  BY <1>8, <1>b, <2>1, <3>1, WritesAtStart DEF Stamp
  <2>4. CASE call[t].req.kind = "string" /\ call[t].string = 0
    <3> DEFINE c == Begin(t, call[t].req, FALSE, call[t].at)
    <3>1. AfterStamp(t) = c  BY <2>4 DEF AfterStamp
    <3>2. c.pc = "top" /\ c.string = call[t].at  BY DEF Begin, Idle
    <3>3. call[t].need = Words(StringBytes)  BY <1>8, <2>4 DEF Stamp, Calls, Need
    <3>4. OwnedIn(blocks', t, call[t].at, Words(StringBytes))  BY <1>8, <2>2, <3>3 DEF WritesOK, Stamp
    <3> HIDE DEF c
    <3>5. WritesOK(t, c, blocks')  BY <3>2, <3>4 DEF WritesOK
    <3>6. QED  BY <1>8, <1>b, <2>1, <3>1, <3>5 DEF Stamp
  <2>5. CASE call[t].req.kind = "string" /\ call[t].string # 0
    <3> DEFINE c == [call[t] EXCEPT !.pc = "link"]
    <3>1. AfterStamp(t) = c  BY <2>5 DEF AfterStamp
    <3>2. c.pc = "link" /\ c.at = call[t].at /\ c.need = call[t].need /\ c.string = call[t].string
      BY <1>a DEF CallType
    <3> HIDE DEF c
    <3>3. WritesOK(t, c, blocks')  BY <1>8, <2>2, <3>2 DEF WritesOK, Stamp
    <3>4. QED  BY <1>8, <1>b, <2>1, <3>1, <3>3 DEF Stamp
  <2>6. QED  BY <2>3, <2>4, <2>5
<1>9. ASSUME NEW t \in Thread, Link(t) PROVE WritesOwn'
  <2>1. \A a \in blocks : \E b \in blocks' : a.at = b.at /\ a.words = b.words /\ a.by = b.by
    BY <1>9, WriteKeeps
  <2>2. QED  BY <1>9, <1>b, <2>1, WritesAtStart DEF Link
<1>10. ASSUME NEW t \in Thread, Refill(t) PROVE WritesOwn'
  BY <1>10, <1>a, WritesRestated DEF Refill
<1>11. CASE Collect
  <2>1. \A t \in Thread : call[t].pc = "idle"
    <3>1. "stopped" \notin mishap'  BY Zenon
    <3>2. QED  BY <1>11, <3>1 DEF Collect
  <2>2. \A t \in Thread : call'[t] = Idle  BY <1>11, <2>1 DEF Collect, Calls
  <2>3. \A t \in Thread : WritesOK(t, call'[t], blocks')  BY <2>2, WritesAtStart
  <2>4. QED  BY <2>3, WritesRestated
<1>12. CASE UNCHANGED vars  BY <1>12, <1>a, WritesRestated DEF vars
<1>13. QED
  BY <1>1, <1>3, <1>4, <1>5, <1>7, <1>8, <1>9, <1>10, <1>11, <1>12 DEF Next

-----------------------------------------------------------------------------
(* The theorems.                                                           *)

LEMMA MishapKept == ASSUME TypeOK, [Next]_vars, mishap' = {} PROVE mishap = {}
<1>1. ASSUME NEW t \in Thread, Bump(t) PROVE mishap = {}
  BY <1>1 DEF Bump
<1>2. CASE Collect  BY <1>2 DEF Collect
<1>3. QED
  BY <1>1, <1>2 DEF Next, vars, MakeJava, New, ReadTop, ReadEndFits, ReadEndNext, ReadEndFails,
                    Stamp, Link, Refill

LEMMA InvInit == Init => TypeOK /\ HeapInv
<1> SUFFICES ASSUME Init PROVE TypeOK /\ HeapInv  OBVIOUS
<1>2. TypeOK  BY TypeInit
<1>3. \A t \in Thread : call[t] = Idle /\ tlab[t] = NoTlab  BY DEF Init
<1>4. Calls  BY <1>3, IdleOK DEF Calls, CallOK
<1>5. Free  BY <1>3, JavaHeapAssumption DEF Free, Init, NoTlab
<1>6. Own  BY <1>3, OwnAtStart, OwnRestated
<1>7. WritesOwn  BY <1>3, WritesAtStart, WritesRestated
<1>8. QED  BY <1>2, <1>4, <1>5, <1>6, <1>7 DEF HeapInv

LEMMA InvStep == TypeOK /\ HeapInv /\ [Next]_vars => (TypeOK /\ HeapInv)'
<1> SUFFICES ASSUME TypeOK, HeapInv, [Next]_vars PROVE (TypeOK /\ HeapInv)'  OBVIOUS
<1>2. Calls /\ (mishap = {} => Free /\ Own /\ WritesOwn)  BY DEF HeapInv
<1>3. TypeOK' /\ Calls'  BY <1>2, TypeStep, CallsStep
<1>4. mishap' = {} => Free' /\ Own' /\ WritesOwn'
  BY <1>2, MishapKept, FreeStep, OwnStep, WritesStep
<1>5. QED  BY <1>3, <1>4 DEF HeapInv

\* Type correctness, and the invariant that the other theorems rest on.
THEOREM TypeCorrect == Spec => [](TypeOK /\ HeapInv)
<1>1. QED  BY InvInit, InvStep, PTL DEF Spec

\* Until an object is finished, a thread writes into the blocks that it allocated
\* itself: make_java_object(), make_java_array() and make_java_string().
THEOREM WritesOwnAlways == Spec => []WritesOwn
<1>1. HeapInv => WritesOwn  BY DEF HeapInv, WritesOwn
<1>2. QED  BY <1>1, TypeCorrect, PTL

\* The buffer of another thread is used only after the thread's own was too full.
THEOREM OwnBufferFirst == Spec => []OwnFirst
<1>1. TypeOK /\ HeapInv => OwnFirst
  BY CandidateType DEF HeapInv, OwnFirst, Own
<1>2. QED  BY <1>1, TypeCorrect, PTL

\* A step of the library, of Java or of the collector is a step of the allocator.
LEMMA RefinementStep ==
    TypeOK /\ HeapInv /\ [Next]_vars =>
        [Allocator!Next]_<<IF mishap = {} THEN {Place(b) : b \in blocks} ELSE {}, mishap = {}>>
<1> DEFINE objects == IF mishap = {} THEN {Place(b) : b \in blocks} ELSE {}
           promise == mishap = {}
<1> SUFFICES ASSUME TypeOK, HeapInv, [Next]_vars
               PROVE  Allocator!Next \/ (objects' = objects /\ promise' = promise)
  BY Zenon
<1>2. CASE mishap # {}
  <2>1. mishap' # {}  BY <1>2, MishapKept
  <2>2. QED  BY <1>2, <2>1
<1>3. CASE mishap = {} /\ mishap' # {}
  <2>1. Allocator!Void  BY <1>3 DEF Allocator!Void
  <2>2. QED  BY <2>1 DEF Allocator!Next
<1>4. CASE mishap = {} /\ mishap' = {}
  <2>0. Calls /\ Free /\ promise /\ promise'  BY <1>4 DEF HeapInv
  <2>1. ASSUME NEW t \in Thread, Bump(t) PROVE Allocator!Allocate
    <3> DEFINE c == Candidate(t)
               p == Place(Fresh(t))
    <3>1. /\ c \in Thread /\ tlab[c].top = call[t].top /\ call[t].need \in Nat \ {0}
          /\ call[t].top \in Nat \ {0} /\ call[t].top + call[t].need <= tlab[c].end
          /\ blocks' = blocks \cup {Fresh(t)}
          /\ Fresh(t).at = call[t].top /\ Fresh(t).words = call[t].need
      BY <1>4, <2>0, <2>1, BumpFacts
    <3>2. p.at = call[t].top /\ p.words = call[t].need  BY <3>1 DEF Place
    <3>3. tlab[c].end <= HeapWords /\ HeapWords \in Nat /\ tlab[c].end \in Nat
      BY <2>0, <3>1, JavaHeapAssumption DEF Free, TypeOK
    <3>4. p \in Allocator!Place /\ p.at + p.words <= HeapWords
      <4>1. call[t].top \in 0..HeapWords /\ call[t].need \in 1..HeapWords  BY <3>1, <3>3
      <4>2. QED  BY <3>1, <3>2, <3>3, <4>1 DEF Allocator!Place, Place
    <3>5. \A q \in objects : Allocator!Apart(p, q)
      <4> SUFFICES ASSUME NEW b \in blocks PROVE Allocator!Apart(p, Place(b))
        BY <1>4
      <4>2. b.at + b.words <= tlab[c].top \/ tlab[c].end <= b.at  BY <2>0, <3>1 DEF Free
      <4>3. Place(b).at = b.at /\ Place(b).words = b.words  BY DEF Place
      <4>4. b.at \in Nat /\ b.words \in Nat  BY DEF TypeOK, Block
      <4> HIDE DEF p, c
      <4>5. QED  BY <3>1, <3>2, <3>3, <4>2, <4>3, <4>4 DEF Allocator!Apart
    <3>6. objects' = objects \cup {p}
      BY <1>4, <3>1
    <3>7. QED  BY <2>0, <3>4, <3>5, <3>6 DEF Allocator!Allocate
  <2>2. ASSUME NEW t \in Thread, Stamp(t) \/ Link(t) PROVE objects' = objects
    <3>1. /\ \A b \in blocks' : \E a \in blocks : Place(a) = Place(b)
          /\ \A a \in blocks : \E b \in blocks' : Place(a) = Place(b)
      BY <2>2, WriteKeeps DEF Place
    <3>2. {Place(b) : b \in blocks'} = {Place(b) : b \in blocks}  BY <3>1
    <3>3. QED  BY <1>4, <3>2
  <2>3. CASE Collect
    <3>1. blocks' = {}  BY <2>3 DEF Collect
    <3>2. objects' = {}  BY <1>4, <3>1
    <3>3. QED  BY <2>0, <3>2 DEF Allocator!Collect, Allocator!Next
  <2>4. ASSUME NEW t \in Thread,
               \/ \E req \in Request : MakeJava(t, req)
               \/ \E w \in JavaWords : New(t, w)
               \/ ReadTop(t) \/ ReadEndFits(t) \/ ReadEndNext(t) \/ ReadEndFails(t) \/ Refill(t)
        PROVE  objects' = objects
    <3>1. blocks' = blocks
      BY <2>4 DEF MakeJava, New, ReadTop, ReadEndFits, ReadEndNext, ReadEndFails, Refill
    <3>2. QED  BY <1>4, <3>1
  <2>5. CASE UNCHANGED vars
    <3>1. blocks' = blocks  BY <2>5 DEF vars
    <3>2. QED  BY <1>4, <3>1, <2>0
  <2>6. QED
    <3>1. CASE \E t \in Thread : Bump(t)  BY <3>1, <2>1 DEF Allocator!Next
    <3>2. CASE \E t \in Thread : Stamp(t) \/ Link(t)  BY <3>2, <2>2, <2>0
    <3>3. CASE \E t \in Thread :
               \/ \E req \in Request : MakeJava(t, req)
               \/ \E w \in JavaWords : New(t, w)
               \/ ReadTop(t) \/ ReadEndFits(t) \/ ReadEndNext(t) \/ ReadEndFails(t) \/ Refill(t)
      BY <3>3, <2>4, <2>0
    <3>4. QED  BY <2>3, <2>5, <3>1, <3>2, <3>3 DEF Next
<1>5. QED  BY <1>2, <1>3, <1>4

\* JavaHeap implements ObjectAllocator: as long as no two unsynchronised writes of a
\* _top have met and no collection overtook a thread in an allocation, what
\* make_java_object() and `new' hand out are disjoint pieces of the heap.
THEOREM Refinement == Spec => ImplementsAllocator
<1>1. Init => Allocator!Init  BY DEF Init, Allocator!Init
<1>2. QED  BY <1>1, RefinementStep, TypeCorrect, PTL
           DEF Spec, ImplementsAllocator, Allocator!Spec

-----------------------------------------------------------------------------
(* Strings.  Blocks are told apart by where they are, so that a write      *)
(* replaces one block; an array that a String was given is nobody else's;  *)
(* and what make_java_string() has done so far is kept until it links the  *)
(* String to its array, whatever other threads allocate in between.        *)

\* Array a holds the characters of String s.
Carries(a, s) ==
    /\ a.at = s.value /\ a.kind = "array" /\ a.by = s.by
    /\ ReadJavaString(s, a) = s.chars \/ a.length > ReadLimit
    /\ a.words * 8 >= 16 + s.chars * (IF Compact /\ s.coder = 0 THEN 1 ELSE 2)

Separate(B) ==
    /\ \A a \in B : a.at # 0
    /\ \A a, b \in B : a.at = b.at => a = b

Values(B) ==
    /\ \A s \in B : s.value # 0 => s.kind = "string" /\ \E a \in B : Carries(a, s)
    /\ \A r, s \in B : r.value # 0 /\ r.value = s.value => r = s

RawIn(B, t, c) == \E b \in B :
    b.at = c.at /\ b.kind = "raw" /\ b.value = 0 /\ b.by = t /\ b.words = c.need

ArrayIn(B, t, c) == \E b \in B :
    b.at = c.at /\ b.kind = "array" /\ b.value = 0 /\ b.by = t /\ b.words = c.need
        /\ b.length = BackingLength(c.req)

StringIn(B, t, c) == \E b \in B :
    b.at = c.string /\ b.kind = "string" /\ b.value = 0 /\ b.by = t /\ b.chars = c.req.count

\* What thread t has made so far in call c.
MakingOK(t, c, B) ==
    /\ c.pc = "stamp" => RawIn(B, t, c)
    /\ c.pc = "link" => c.string # 0 /\ ArrayIn(B, t, c) /\ \A s \in B : s.value # c.at
    /\ c.string # 0 => c.req.kind = "string" /\ StringIn(B, t, c)

StringInv ==
    mishap = {} => Separate(blocks) /\ Values(blocks) /\ \A t \in Thread : MakingOK(t, call[t], blocks)

\* What is written into a String and its array is what read_java_string() needs: the
\* array has room for the characters, and its length and the coder give their number.
LEMMA BackingCarries ==
    ASSUME NEW req \in RequestType, req.kind = "string", Accepted(req), NEW string \in Nat \ {0},
           NEW a \in Block, a.length = BackingLength(req), a.words = Need(req, string),
           NEW s \in Block, s.chars = req.count,
           s.coder = IF Compact /\ StringUnit(req) = 2 THEN 1 ELSE 0
    PROVE  /\ ReadJavaString(s, a) = s.chars \/ a.length > ReadLimit
           /\ a.words * 8 >= 16 + s.chars * (IF Compact /\ s.coder = 0 THEN 1 ELSE 2)
<1> DEFINE n == req.count
<1>1. n \in Nat  BY DEF RequestType, Accepted
<1>2. a.words = Words(ArrayBytes(n, StringUnit(req)))  BY DEF Need
<1>a. ASSUME NEW bytes \in Nat PROVE Words(bytes) * 8 >= bytes  BY DEF Words
<1>b. ReadLimit \in Nat  BY DEF ReadLimit
<1>3. CASE Compact /\ req.unit = 1
  <2>1. StringUnit(req) = 1  BY <1>3 DEF StringUnit
  <2>2. a.length = n /\ s.coder = 0 /\ a.words = Words(16 + n)
    BY <1>1, <1>2, <1>3, <2>1 DEF BackingLength, ArrayBytes
  <2>3. a.words * 8 >= 16 + n  BY <1>1, <1>a, <2>2
  <2>4. ReadJavaString(s, a) = n \/ a.length > ReadLimit
    <3>1. CASE a.length \in 1..ReadLimit
      <4>1. ReadJavaString(s, a) = a.length  BY <1>3, <2>2, <3>1 DEF ReadJavaString
      <4>2. QED  BY <1>1, <2>2, <4>1
    <3>2. CASE a.length \notin 1..ReadLimit
      <4>1. ReadJavaString(s, a) = 0  BY <3>2 DEF ReadJavaString
      <4>2. n = 0 \/ a.length > ReadLimit  BY <1>1, <1>b, <2>2, <3>2
      <4>3. QED  BY <4>1, <4>2
    <3>3. QED  BY <3>1, <3>2
  <2>5. QED  BY <1>1, <1>3, <2>2, <2>3, <2>4
<1>4. CASE Compact /\ req.unit # 1
  <2>1. StringUnit(req) = 2  BY <1>4 DEF StringUnit
  <2>2. a.length = n * 2 /\ s.coder = 1 /\ a.words = Words(16 + n * 2)
    BY <1>1, <1>2, <1>4, <2>1 DEF BackingLength, ArrayBytes
  <2>3. a.words * 8 >= 16 + n * 2  BY <1>1, <1>a, <2>2
  <2>4. ReadJavaString(s, a) = n \/ a.length > ReadLimit
    <3>1. CASE a.length \in 1..ReadLimit
      <4>1. ReadJavaString(s, a) = a.length \div 2  BY <1>4, <2>2, <3>1 DEF ReadJavaString
      <4>2. QED  BY <1>1, <2>2, <4>1
    <3>2. CASE a.length \notin 1..ReadLimit
      <4>1. ReadJavaString(s, a) = 0  BY <3>2 DEF ReadJavaString
      <4>2. n = 0 \/ a.length > ReadLimit  BY <1>1, <1>b, <2>2, <3>2
      <4>3. QED  BY <4>1, <4>2
    <3>3. QED  BY <3>1, <3>2
  <2>5. QED  BY <1>1, <1>4, <2>2, <2>3, <2>4
<1>5. CASE ~Compact
  <2>1. StringUnit(req) = 2  BY <1>5 DEF StringUnit
  <2>2. a.length = n /\ s.coder = 0 /\ a.words = Words(16 + n * 2)
    BY <1>1, <1>2, <1>5, <2>1 DEF BackingLength, ArrayBytes
  <2>3. a.words * 8 >= 16 + n * 2  BY <1>1, <1>a, <2>2
  <2>4. ReadJavaString(s, a) = n \/ a.length > ReadLimit
    <3>1. CASE a.length \in 1..ReadLimit
      <4>1. ReadJavaString(s, a) = a.length  BY <1>5, <2>2, <3>1 DEF ReadJavaString
      <4>2. QED  BY <1>1, <2>2, <4>1
    <3>2. CASE a.length \notin 1..ReadLimit
      <4>1. ReadJavaString(s, a) = 0  BY <3>2 DEF ReadJavaString
      <4>2. n = 0 \/ a.length > ReadLimit  BY <1>1, <1>b, <2>2, <3>2
      <4>3. QED  BY <4>1, <4>2
    <3>3. QED  BY <3>1, <3>2
  <2>5. QED  BY <1>1, <1>5, <2>2, <2>3, <2>4
<1>6. QED  BY <1>3, <1>4, <1>5

\* A write through an address replaces the block that is there.
LEMMA WriteOne ==
    ASSUME Separate(blocks), NEW old \in blocks, NEW f
    PROVE  Write(old.at, f) = (blocks \ {old}) \cup {f[old]}
<1>1. \A b \in blocks : b.at = old.at <=> b = old  BY DEF Separate
<1>2. Write(old.at, f) = {IF b = old THEN f[b] ELSE b : b \in blocks}
  <2>1. \A b \in blocks : (IF b.at = old.at THEN f[b] ELSE b) = (IF b = old THEN f[b] ELSE b)
    BY <1>1
  <2>2. QED  BY <2>1 DEF Write
<1>3. QED  BY <1>2

\* A block of one thread is replaced by another one in its place: the other threads
\* find what they have made.
LEMMA OthersKeep ==
    ASSUME NEW t \in Thread, NEW u \in Thread, u # t, NEW c, NEW B, NEW old \in B, NEW new,
           Separate(B), MakingOK(u, c, B), old.by = t, new.value # 0 => new.value # c.at \/ c.pc # "link"
    PROVE  MakingOK(u, c, (B \ {old}) \cup {new})
<1> DEFINE C == (B \ {old}) \cup {new}
<1>1. \A b \in B : b.by = u => b \in C  OBVIOUS
<1>2. c.pc = "link" => c.at # 0  BY DEF MakingOK, ArrayIn, Separate
<1>3. c.pc = "link" => \A s \in C : s.value # c.at  BY <1>2 DEF MakingOK
<1> HIDE DEF C
<1>4. (RawIn(B, u, c) => RawIn(C, u, c)) /\ (ArrayIn(B, u, c) => ArrayIn(C, u, c))
      /\ (StringIn(B, u, c) => StringIn(C, u, c))
  BY <1>1 DEF RawIn, ArrayIn, StringIn
<1>5. MakingOK(u, c, C)  BY <1>3, <1>4 DEF MakingOK
<1>6. QED  BY <1>5 DEF C

LEMMA MakingAtStart ==
    ASSUME NEW t, NEW B, NEW req, NEW java
    PROVE  MakingOK(t, Idle, B) /\ MakingOK(t, Begin(t, req, java, 0), B)
<1>1. Idle.pc = "idle" /\ Idle.string = 0  BY DEF Idle
<1>2. Begin(t, req, java, 0).pc = "top" /\ Begin(t, req, java, 0).string = 0
  BY DEF Begin, Idle
<1>3. QED  BY <1>1, <1>2 DEF MakingOK

\* The call of one thread moves on and it still finds what it has made, as do the others.
LEMMA MakingStep ==
    ASSUME TypeOK, mishap = {}, NEW t \in Thread, NEW c, call' = [call EXCEPT ![t] = c],
           Separate(blocks'), Values(blocks'), MakingOK(t, c, blocks'),
           \A u \in Thread : u # t => MakingOK(u, call[u], blocks')
    PROVE  StringInv'
<1>1. \A u \in Thread : call'[u] = IF u = t THEN c ELSE call[u]  BY DEF TypeOK
<1>2. \A u \in Thread : MakingOK(u, call'[u], blocks')  BY <1>1
<1>3. QED  BY <1>2 DEF StringInv

LEMMA BumpStrings ==
    ASSUME TypeOK, HeapInv, StringInv, mishap = {}, mishap' = {}, NEW t \in Thread, Bump(t)
    PROVE  StringInv'
<1> DEFINE new == Fresh(t)
           c == [call[t] EXCEPT !.pc = "stamp", !.at = Returned(t)]
<1>0. Calls /\ Free /\ Separate(blocks) /\ Values(blocks)
      /\ \A u \in Thread : MakingOK(u, call[u], blocks)
  BY DEF HeapInv, StringInv
<1>1. /\ blocks' = blocks \cup {new} /\ Candidate(t) \in Thread
      /\ call[t].top \in Nat \ {0} /\ call[t].need \in Nat \ {0} /\ tlab[Candidate(t)].top = call[t].top
      /\ call[t].top + call[t].need <= tlab[Candidate(t)].end
  BY <1>0, BumpFacts
<1>2. /\ new.at = call[t].top /\ new.words = call[t].need /\ new.by = t
      /\ new.kind = "raw" /\ new.value = 0
  BY DEF Fresh
<1>3. \A b \in blocks : b.at # new.at
  <2> TAKE b \in blocks
  <2>1. b.at + b.words <= tlab[Candidate(t)].top \/ tlab[Candidate(t)].end <= b.at
    BY <1>0, <1>1 DEF Free
  <2>2. b.at \in Nat /\ b.words \in Nat \ {0} /\ tlab[Candidate(t)].end \in Nat
    BY <1>0, <1>1 DEF Free, TypeOK, Block
  <2>3. QED  BY <1>1, <1>2, <2>1, <2>2
<1> HIDE DEF new
<1>4. Separate(blocks')  BY <1>0, <1>1, <1>2, <1>3 DEF Separate
<1>5. Values(blocks')  BY <1>0, <1>1, <1>2 DEF Values
<1>6. ASSUME NEW u \in Thread PROVE call[u].pc # "stamp" => MakingOK(u, call[u], blocks')
  <2>1. call[u].pc = "link" => call[u].at # 0  BY <1>0 DEF MakingOK, ArrayIn, Separate
  <2>2. MakingOK(u, call[u], blocks)  BY <1>0
  <2>3. (ArrayIn(blocks, u, call[u]) => ArrayIn(blocks', u, call[u]))
        /\ (StringIn(blocks, u, call[u]) => StringIn(blocks', u, call[u]))
    BY <1>1 DEF ArrayIn, StringIn
  <2>4. QED  BY <1>1, <1>2, <2>1, <2>2, <2>3 DEF MakingOK
<1>7. ASSUME NEW u \in Thread, u # t PROVE MakingOK(u, call[u], blocks')
  <2>1. RawIn(blocks, u, call[u]) => RawIn(blocks', u, call[u])  BY <1>1 DEF RawIn
  <2>2. MakingOK(u, call[u], blocks)  BY <1>0
  <2>3. CASE call[u].pc # "stamp"  BY <1>6, <2>3
  <2>4. CASE call[u].pc = "stamp"
    <3>1. StringIn(blocks, u, call[u]) => StringIn(blocks', u, call[u])  BY <1>1 DEF StringIn
    <3>2. QED  BY <2>1, <2>2, <2>4, <3>1 DEF MakingOK
  <2>5. QED  BY <2>3, <2>4
<1>8. MakingOK(t, c, blocks')
  <2>1. call[t].pc = "bump" /\ call[t] \in CallType  BY DEF Bump, TypeOK, CallType
  <2>2. /\ c.pc = "stamp" /\ c.at = call[t].top /\ c.need = call[t].need
        /\ c.string = call[t].string /\ c.req = call[t].req
    BY <2>1 DEF CallType, Returned
  <2> HIDE DEF c
  <2>3. RawIn(blocks', t, c)  BY <1>1, <1>2, <2>2 DEF RawIn
  <2>4. StringIn(blocks, t, call[t]) => StringIn(blocks', t, c)  BY <1>1, <2>2 DEF StringIn
  <2>5. MakingOK(t, call[t], blocks)  BY <1>0
  <2>6. QED  BY <2>2, <2>3, <2>4, <2>5 DEF MakingOK
<1>9. QED
  <2>1. call' = [call EXCEPT ![t] = c]  BY DEF Bump
  <2> HIDE DEF c
  <2>2. QED  BY <2>1, <1>4, <1>5, <1>7, <1>8, MakingStep

LEMMA StampStrings ==
    ASSUME TypeOK, StringInv, mishap = {}, NEW t \in Thread, Stamp(t)
    PROVE  StringInv'
<1>0. Separate(blocks) /\ Values(blocks) /\ \A u \in Thread : MakingOK(u, call[u], blocks)
  BY DEF StringInv
<1>1. PICK old \in blocks : /\ old.at = call[t].at /\ old.kind = "raw" /\ old.value = 0
                            /\ old.by = t /\ old.words = call[t].need
  <2>1. MakingOK(t, call[t], blocks) /\ call[t].pc = "stamp"  BY <1>0 DEF Stamp
  <2>2. QED  BY <2>1 DEF MakingOK, RawIn
<1> DEFINE new == Stamped(t, old)
<1>2. old \in Block /\ call[t] \in CallType  BY DEF TypeOK, CallType
<1>3. new.at = old.at /\ new.words = old.words /\ new.by = old.by  BY <1>2, StampedBlock
<1>4. /\ new.value = 0
      /\ IsArray(t) => new.kind = "array" /\ new.length = ArrayLength(call[t].req)
      /\ ~IsArray(t) /\ call[t].req.kind = "string" => new.kind = "string" /\ new.chars = call[t].req.count
  BY <1>1, <1>2 DEF Stamped, Block
<1>5. blocks' = (blocks \ {old}) \cup {new}
  <2> DEFINE f == [b \in blocks |-> Stamped(t, b)]
  <2>1. blocks' = Write(old.at, f) /\ f[old] = new  BY <1>1 DEF Stamp
  <2> HIDE DEF f
  <2>2. QED  BY <1>0, <2>1, WriteOne
<1> HIDE DEF new
<1>6. Separate(blocks')  BY <1>0, <1>3, <1>5 DEF Separate
<1>7. Values(blocks')
  <2>1. \A s \in blocks' : s.value # 0 => s \in blocks  BY <1>4, <1>5
  <2>2. \A a \in blocks : a.kind = "array" => a \in blocks'  BY <1>1, <1>5
  <2>3. QED  BY <1>0, <2>1, <2>2 DEF Values, Carries
<1>8. ASSUME NEW u \in Thread, u # t PROVE MakingOK(u, call[u], blocks')
  <2>1. MakingOK(u, call[u], blocks)  BY <1>0
  <2>2. QED  BY <1>0, <1>1, <1>4, <1>5, <1>8, <2>1, OthersKeep
<1>9. MakingOK(t, AfterStamp(t), blocks')
  <2>1. CASE call[t].req.kind # "string"
    <3>1. AfterStamp(t) = Idle  BY <2>1 DEF AfterStamp
    <3>2. QED  BY <3>1, MakingAtStart
  <2>2. CASE call[t].req.kind = "string" /\ call[t].string = 0
    <3> DEFINE c == Begin(t, call[t].req, FALSE, call[t].at)
    <3>1. AfterStamp(t) = c  BY <2>2 DEF AfterStamp
    <3>2. c.pc = "top" /\ c.string = call[t].at /\ c.req = call[t].req  BY DEF Begin, Idle
    <3>3. new.kind = "string" /\ new.chars = call[t].req.count  BY <1>4, <2>2 DEF IsArray
    <3> HIDE DEF c
    <3>4. StringIn(blocks', t, c)  BY <1>1, <1>3, <1>4, <1>5, <3>2, <3>3 DEF StringIn
    <3>5. MakingOK(t, c, blocks')  BY <2>2, <3>2, <3>4 DEF MakingOK
    <3>6. QED  BY <3>1, <3>5
  <2>3. CASE call[t].req.kind = "string" /\ call[t].string # 0
    <3> DEFINE c == [call[t] EXCEPT !.pc = "link"]
    <3>1. AfterStamp(t) = c  BY <2>3 DEF AfterStamp
    <3>2. /\ c.pc = "link" /\ c.string = call[t].string /\ c.req = call[t].req
          /\ c.at = call[t].at /\ c.need = call[t].need
      BY <1>2 DEF CallType
    <3>3. new.kind = "array" /\ new.length = BackingLength(call[t].req)
      BY <1>4, <2>3 DEF IsArray, ArrayLength
    <3> HIDE DEF c
    <3>4. ArrayIn(blocks', t, c)  BY <1>1, <1>3, <1>4, <1>5, <3>2, <3>3 DEF ArrayIn
    <3>5. StringIn(blocks', t, c)
      <4>1. StringIn(blocks, t, call[t])  BY <1>0, <2>3 DEF MakingOK
      <4>2. QED  BY <1>1, <1>5, <3>2, <4>1 DEF StringIn
    <3>6. \A s \in blocks' : s.value # c.at
      <4>1. SUFFICES ASSUME NEW s \in blocks', s.value = old.at PROVE FALSE
        BY <1>1, <3>2
      <4>2. s \in blocks /\ s.value # 0  BY <1>0, <1>4, <1>5, <4>1 DEF Separate
      <4>3. PICK a \in blocks : Carries(a, s)  BY <1>0, <4>2 DEF Values
      <4>4. a = old  BY <1>0, <4>1, <4>3 DEF Carries, Separate
      <4>5. QED  BY <1>1, <4>3, <4>4 DEF Carries
    <3>7. MakingOK(t, c, blocks')  BY <2>3, <3>2, <3>4, <3>5, <3>6 DEF MakingOK
    <3>8. QED  BY <3>1, <3>7
  <2>4. QED  BY <2>1, <2>2, <2>3
<1>10. QED
  <2>1. call' = [call EXCEPT ![t] = AfterStamp(t)]  BY DEF Stamp
  <2>2. QED  BY <2>1, <1>6, <1>7, <1>8, <1>9, MakingStep

LEMMA LinkStrings ==
    ASSUME TypeOK, Calls, StringInv, mishap = {}, NEW t \in Thread, Link(t)
    PROVE  StringInv'
<1>0. Separate(blocks) /\ Values(blocks) /\ \A u \in Thread : MakingOK(u, call[u], blocks)
  BY DEF StringInv
<1>a. /\ call[t].pc = "link" /\ call[t].string # 0 /\ call[t].req.kind = "string"
      /\ ArrayIn(blocks, t, call[t]) /\ StringIn(blocks, t, call[t])
      /\ \A s \in blocks : s.value # call[t].at
  BY <1>0 DEF Link, MakingOK
<1>b. /\ call[t].req \in RequestType /\ Accepted(call[t].req) /\ call[t].string \in Nat
      /\ call[t].need = Need(call[t].req, call[t].string)
  BY <1>a DEF TypeOK, Calls
<1>1. PICK arr \in blocks :
         /\ arr.at = call[t].at /\ arr.kind = "array" /\ arr.value = 0 /\ arr.by = t
         /\ arr.words = call[t].need /\ arr.length = BackingLength(call[t].req)
  BY <1>a DEF ArrayIn
<1>2. PICK old \in blocks :
         /\ old.at = call[t].string /\ old.kind = "string" /\ old.value = 0 /\ old.by = t
         /\ old.chars = call[t].req.count
  BY <1>a DEF StringIn
<1> DEFINE new == Linked(t, old)
<1>3. old \in Block /\ arr \in Block /\ new \in Block  BY LinkedBlock DEF TypeOK
<1>4. /\ new.at = old.at /\ new.by = t /\ new.kind = "string" /\ new.chars = old.chars
      /\ new.value = call[t].at
      /\ new.coder = IF Compact /\ StringUnit(call[t].req) = 2 THEN 1 ELSE 0
  BY <1>2, <1>3 DEF Linked, Block
<1>5. blocks' = (blocks \ {old}) \cup {new}
  <2> DEFINE f == [b \in blocks |-> Linked(t, b)]
  <2>1. blocks' = Write(old.at, f) /\ f[old] = new  BY <1>2 DEF Link
  <2> HIDE DEF f
  <2>2. QED  BY <1>0, <2>1, WriteOne
<1> HIDE DEF new
<1>6. Separate(blocks')  BY <1>0, <1>4, <1>5 DEF Separate
<1>7. Values(blocks')
  <2>1. Carries(arr, new)
    <3>1. /\ ReadJavaString(new, arr) = new.chars \/ arr.length > ReadLimit
          /\ arr.words * 8 >= 16 + new.chars * (IF Compact /\ new.coder = 0 THEN 1 ELSE 2)
      BY <1>1, <1>2, <1>3, <1>4, <1>a, <1>b, BackingCarries
    <3>2. QED  BY <1>1, <1>4, <3>1 DEF Carries
  <2>2. \A a \in blocks : a.kind = "array" => a \in blocks'  BY <1>2, <1>5
  <2>3. \A s \in blocks' : s.value # 0 => s.kind = "string" /\ \E a \in blocks' : Carries(a, s)
    BY <1>0, <1>1, <1>4, <1>5, <2>1, <2>2 DEF Values, Carries
  <2>4. \A s \in blocks' : s.value = new.value => s = new  BY <1>4, <1>5, <1>a
  <2>5. \A r, s \in blocks' : r.value # 0 /\ r.value = s.value => r = s
    BY <1>0, <1>5, <2>4 DEF Values
  <2>6. QED  BY <2>3, <2>5 DEF Values
<1>8. ASSUME NEW u \in Thread, u # t PROVE MakingOK(u, call[u], blocks')
  <2>1. MakingOK(u, call[u], blocks)  BY <1>0
  <2>2. call[u].pc = "link" => new.value # call[u].at
    <3>1. SUFFICES ASSUME call[u].pc = "link", call[u].at = call[t].at PROVE FALSE
      BY <1>4
    <3>2. PICK b \in blocks : b.at = call[u].at /\ b.by = u  BY <2>1, <3>1 DEF MakingOK, ArrayIn
    <3>3. b = arr  BY <1>0, <1>1, <3>1, <3>2 DEF Separate
    <3>4. QED  BY <1>1, <1>8, <3>2, <3>3
  <2>3. QED  BY <1>0, <1>2, <1>5, <1>8, <2>1, <2>2, OthersKeep
<1>9. QED
  <2>1. call' = [call EXCEPT ![t] = Idle]  BY DEF Link
  <2>2. MakingOK(t, Idle, blocks')  BY MakingAtStart
  <2>3. QED  BY <2>1, <2>2, <1>6, <1>7, <1>8, MakingStep

LEMMA StringStep ==
    ASSUME TypeOK, HeapInv, StringInv, mishap = {}, [Next]_vars, mishap' = {} PROVE StringInv'
<1>0. Calls /\ Separate(blocks) /\ Values(blocks)
      /\ \A u \in Thread : MakingOK(u, call[u], blocks) /\ call[u] \in CallType
  BY DEF HeapInv, StringInv, TypeOK, CallType
<1>a. ASSUME NEW t \in Thread, NEW c, call' = [call EXCEPT ![t] = c], blocks' = blocks,
             MakingOK(t, c, blocks)
      PROVE  StringInv'
  BY <1>0, <1>a, MakingStep
<1>b. ASSUME NEW t \in Thread, NEW c, c.string = call[t].string, c.req = call[t].req,
             c.pc \in {"top", "end", "bump"}
      PROVE  MakingOK(t, c, blocks)
  <2>1. StringIn(blocks, t, call[t]) => StringIn(blocks, t, c)  BY <1>b DEF StringIn
  <2>2. MakingOK(t, call[t], blocks)  BY <1>0
  <2>3. QED  BY <1>b, <2>1, <2>2 DEF MakingOK
<1>1. ASSUME NEW t \in Thread, \/ \E req \in Request : MakeJava(t, req)
                               \/ \E w \in JavaWords : New(t, w)
                               \/ ReadEndFails(t)
      PROVE  StringInv'
  <2>1. blocks' = blocks  BY <1>1 DEF MakeJava, New, ReadEndFails
  <2>2. QED  BY <1>1, <1>a, <2>1, MakingAtStart DEF MakeJava, New, ReadEndFails
<1>3. ASSUME NEW t \in Thread, ReadTop(t) PROVE StringInv'
  <2> DEFINE c == [call[t] EXCEPT !.pc = "end", !.top = tlab[Candidate(t)].top]
  <2>1. c.string = call[t].string /\ c.req = call[t].req /\ c.pc = "end"  BY <1>0 DEF CallType
  <2>2. MakingOK(t, c, blocks)  BY <1>b, <2>1
  <2>3. QED  BY <1>3, <1>a, <2>2 DEF ReadTop
<1>4. ASSUME NEW t \in Thread, ReadEndFits(t) PROVE StringInv'
  <2> DEFINE c == [call[t] EXCEPT !.pc = "bump", !.end = tlab[Candidate(t)].end]
  <2>1. c.string = call[t].string /\ c.req = call[t].req /\ c.pc = "bump"  BY <1>0 DEF CallType
  <2>2. MakingOK(t, c, blocks)  BY <1>b, <2>1
  <2>3. QED  BY <1>4, <1>a, <2>2 DEF ReadEndFits
<1>5. ASSUME NEW t \in Thread, ReadEndNext(t) PROVE StringInv'
  <2> DEFINE c == [call[t] EXCEPT !.pc = "top", !.top = 0, !.i = call[t].i + 1]
  <2>1. c.string = call[t].string /\ c.req = call[t].req /\ c.pc = "top"  BY <1>0 DEF CallType
  <2>2. MakingOK(t, c, blocks)  BY <1>b, <2>1
  <2>3. QED  BY <1>5, <1>a, <2>2 DEF ReadEndNext
<1>10. ASSUME NEW t \in Thread, Refill(t) PROVE StringInv'
  BY <1>10 DEF Refill, StringInv
<1>11. CASE Collect
  <2>1. \A t \in Thread : call[t].pc = "idle"
    <3>1. "stopped" \notin mishap'  BY Zenon
    <3>2. QED  BY <1>11, <3>1 DEF Collect
  <2>2. \A t \in Thread : call'[t] = Idle  BY <1>0, <1>11, <2>1 DEF Collect, Calls
  <2>3. \A t \in Thread : MakingOK(t, call'[t], blocks')  BY <2>2, MakingAtStart
  <2>4. blocks' = {}  BY <1>11 DEF Collect
  <2>5. Separate(blocks') /\ Values(blocks')  BY <2>4 DEF Separate, Values
  <2>6. QED  BY <2>3, <2>5 DEF StringInv
<1>12. CASE UNCHANGED vars  BY <1>12 DEF vars, StringInv
<1>13. QED
  BY <1>0, <1>1, <1>3, <1>4, <1>5, <1>10, <1>11, <1>12, BumpStrings, StampStrings, LinkStrings DEF Next

\* make_java_string() gives every String an array of its own, whatever is allocated between
\* the String and its array and by whom, and read_java_string() finds in it as many
\* characters as were put there if the array has at most ReadLimit elements (2048
\* characters in UTF16); as long as no two writes of a _top have met and no collection
\* overtook a thread in an allocation.  On JDK 8 a collection overtakes a Java thread too,
\* in the look-up of char[] between the String and its array.
THEOREM StringsAlwaysWhole == Spec => []StringsWhole
<1>1. Init => StringInv
  <2> SUFFICES ASSUME Init PROVE StringInv  OBVIOUS
  <2>1. \A t \in Thread : MakingOK(t, call[t], blocks)  BY MakingAtStart DEF Init
  <2>2. Separate(blocks) /\ Values(blocks)  BY DEF Init, Separate, Values
  <2>3. QED  BY <2>1, <2>2 DEF StringInv
<1>2. TypeOK /\ HeapInv /\ StringInv /\ [Next]_vars => StringInv'
  <2> SUFFICES ASSUME TypeOK, HeapInv, StringInv, [Next]_vars, mishap' = {} PROVE StringInv'
    BY DEF StringInv
  <2>1. QED  BY MishapKept, StringStep
<1>3. StringInv => StringsWhole
  BY DEF StringInv, StringsWhole, Values, Carries
<1>4. QED  BY <1>1, <1>2, <1>3, TypeCorrect, PTL DEF Spec

-----------------------------------------------------------------------------
(* Sequences without repetitions.                                          *)

\* A non-empty set of natural numbers has a least element.
LEMMA LeastNat ==
    ASSUME NEW S, S \subseteq Nat, S # {}
    PROVE  \E x \in S : \A y \in S : ~(y < x)
<1>1. PICK x \in S : \A y \in S : ~(<<y, x>> \in OpToRel(<, Nat))
  BY NatLessThanWellFounded, WFMin
<1> QED BY <1>1 DEF OpToRel

\* A bounded one has a greatest.
LEMMA GreatestNat ==
    ASSUME NEW n \in Nat, NEW S, S \subseteq 1..n, S # {}
    PROVE  \E x \in S : \A y \in S : x >= y
<1> DEFINE T == {n - x : x \in S}
<1>1. T \subseteq Nat /\ T # {}
  <2>1. PICK x \in S : TRUE
    OBVIOUS
  <2>2. n - x \in T
    BY <2>1
  <2> QED BY <2>2
<1>2. PICK t \in T : \A u \in T : ~(u < t)
  <2> HIDE DEF T
  <2> QED BY <1>1, LeastNat
<1>3. PICK x \in S : t = n - x
  OBVIOUS
<1>4. ASSUME NEW y \in S PROVE x >= y
  <2>1. n - y \in T
    OBVIOUS
  <2>2. ~(n - y < n - x)
    BY <1>2, <1>3, <2>1
  <2> QED BY <2>2
<1> QED BY <1>4

Distinct(s) == \A i, j \in DOMAIN s : s[i] = s[j] => i = j

LEMMA PositionFacts ==
    ASSUME NEW s, NEW e \in Members(s)
    PROVE  Position(s, e) \in DOMAIN s /\ s[Position(s, e)] = e
BY DEF Members, Position

LEMMA PositionOf ==
    ASSUME NEW s, Distinct(s), NEW i \in DOMAIN s
    PROVE  Position(s, s[i]) = i
BY DEF Position, Distinct

LEMMA FirstInFacts ==
    ASSUME NEW s \in Seq(Element), NEW S, NEW i \in Nat
    PROVE  \/ FirstIn(s, S, i) = Null /\ \A j \in DOMAIN s : j > i => s[j] \notin S
           \/ \E k \in DOMAIN s :
                 /\ k > i /\ s[k] \in S /\ FirstIn(s, S, i) = s[k]
                 /\ \A j \in DOMAIN s : i < j /\ j < k => s[j] \notin S
<1> DEFINE P == {j \in DOMAIN s : j > i /\ s[j] \in S}
<1>1. CASE P = {}
  BY <1>1 DEF FirstIn
<1>2. CASE P # {}
  <2>1. P \subseteq Nat
    OBVIOUS
  <2>2. \E x \in P : \A y \in P : x <= y
    <3>1. PICK x \in P : \A y \in P : ~(y < x)
      <4> HIDE DEF P
      <4> QED BY <1>2, <2>1, LeastNat
    <3> QED BY <2>1, <3>1
  <2>3. PICK k : k = Min(P)
    OBVIOUS
  <2>4. k \in P /\ \A y \in P : k <= y
    BY <2>2, <2>3 DEF Min
  <2>5. FirstIn(s, S, i) = s[k]
    BY <1>2, <2>3 DEF FirstIn
  <2>6. \A j \in DOMAIN s : i < j /\ j < k => s[j] \notin S
    BY <2>4
  <2> QED BY <2>4, <2>5, <2>6
<1> QED BY <1>1, <1>2

LEMMA LastInFacts ==
    ASSUME NEW s \in Seq(Element), NEW S, S \cap Members(s) # {}
    PROVE  \E k \in DOMAIN s :
              s[k] \in S /\ LastIn(s, S) = s[k] /\ \A j \in DOMAIN s : k < j => s[j] \notin S
<1> DEFINE P == {j \in DOMAIN s : s[j] \in S}
<1>1. P # {} /\ P \subseteq 1..Len(s) /\ Len(s) \in Nat
  BY DEF Members
<1>2. \E x \in P : \A y \in P : x >= y
  <2> HIDE DEF P
  <2> QED BY <1>1, GreatestNat
<1>3. PICK k : k = Max(P)
  OBVIOUS
<1>4. k \in P /\ \A y \in P : k >= y
  BY <1>2, <1>3 DEF Max
<1>5. LastIn(s, S) = s[k]
  BY <1>3 DEF LastIn
<1> QED BY <1>4, <1>5

\* Removing an element keeps the order of the others.
LEMMA WithoutFacts ==
    ASSUME NEW s \in Seq(Element), NEW e \in Members(s)
    PROVE  /\ Without(s, e) \in Seq(Element) /\ Len(Without(s, e)) = Len(s) - 1
           /\ \A i \in 1..(Len(s) - 1) :
                 Without(s, e)[i] = IF i < Position(s, e) THEN s[i] ELSE s[i + 1]
<1>1. PICK k \in DOMAIN s : k = Position(s, e)
  BY PositionFacts
<1> DEFINE a == SubSeq(s, 1, k - 1)
           b == SubSeq(s, k + 1, Len(s))
<1>2. /\ a \in Seq(Element) /\ Len(a) = k - 1 /\ \A i \in 1..(k - 1) : a[i] = s[i]
      /\ b \in Seq(Element) /\ Len(b) = Len(s) - k /\ \A i \in 1..(Len(s) - k) : b[i] = s[k + i]
  OBVIOUS
<1>3. Without(s, e) = a \o b
  BY <1>1 DEF Without, RemoveAt
<1> HIDE DEF a, b
<1>4. a \o b \in Seq(Element) /\ Len(a \o b) = Len(s) - 1
  BY <1>2
<1>5. ASSUME NEW i \in 1..(Len(s) - 1) PROVE (a \o b)[i] = IF i < k THEN s[i] ELSE s[i + 1]
  <2>1. CASE i < k
    <3>1. (a \o b)[i] = a[i]
      BY <1>2, <2>1
    <3> QED BY <1>2, <2>1, <3>1
  <2>2. CASE ~(i < k)
    <3>1. k \in 1..Len(s) /\ Len(s) \in Nat
      OBVIOUS
    <3>2. i > Len(a) /\ i <= Len(a) + Len(b)
      BY <1>2, <2>2, <3>1
    <3>3. (a \o b)[i] = b[i - Len(a)]
      <4>1. a \in Seq(Element) /\ b \in Seq(Element) /\ i \in 1..(Len(a) + Len(b)) /\ ~(i <= Len(a))
        BY <1>2, <3>1, <3>2
      <4> QED BY <4>1, ConcatProperties
    <3>4. PICK j : j = i - (k - 1)
      OBVIOUS
    <3>5. j \in 1..(Len(s) - k) /\ k + j = i + 1
      BY <2>2, <3>1, <3>4
    <3> QED BY <1>2, <2>2, <3>3, <3>4, <3>5
  <2> QED BY <2>1, <2>2
<1> QED BY <1>1, <1>3, <1>4, <1>5

LEMMA AppendFacts ==
    ASSUME NEW T, NEW s \in Seq(T), NEW e \in T
    PROVE  /\ Append(s, e) \in Seq(T) /\ Len(Append(s, e)) = Len(s) + 1
           /\ \A i \in 1..Len(s) : Append(s, e)[i] = s[i]
           /\ Append(s, e)[Len(s) + 1] = e
           /\ Members(Append(s, e)) = Members(s) \cup {e}
<1>1. /\ Append(s, e) \in Seq(T) /\ Len(Append(s, e)) = Len(s) + 1
      /\ \A i \in 1..Len(s) : Append(s, e)[i] = s[i]
      /\ Append(s, e)[Len(s) + 1] = e
  OBVIOUS
<1>2. DOMAIN Append(s, e) = 1..(Len(s) + 1) /\ DOMAIN s = 1..Len(s) /\ Len(s) \in Nat
  BY <1>1
<1> DEFINE t == Append(s, e)
<1> HIDE DEF t
<1>3. Members(t) = Members(s) \cup {e}
  <2>1. ASSUME NEW x \in Members(t) PROVE x \in Members(s) \cup {e}
    <3>1. PICK i \in 1..(Len(s) + 1) : x = t[i]
      BY <1>2 DEF t, Members
    <3>2. i \in 1..Len(s) \/ i = Len(s) + 1
      BY <1>2, <3>1
    <3> QED BY <1>1, <1>2, <3>1, <3>2 DEF t, Members
  <2>2. ASSUME NEW x \in Members(s) PROVE x \in Members(t)
    <3>1. PICK i \in 1..Len(s) : x = s[i]
      BY <1>2 DEF Members
    <3>2. i \in 1..(Len(s) + 1) /\ t[i] = x
      BY <1>1, <1>2, <3>1 DEF t
    <3> QED BY <1>2, <3>2 DEF t, Members
  <2>3. e \in Members(t)
    <3>1. Len(s) + 1 \in 1..(Len(s) + 1)
      BY <1>2
    <3> QED BY <1>1, <1>2, <3>1 DEF t, Members
  <2> QED BY <2>1, <2>2, <2>3
<1> QED BY <1>1, <1>3 DEF t

LEMMA BucketFacts ==
    ASSUME NEW e \in Element
    PROVE  /\ BucketOf(e, 1) \in 1..Buckets /\ BucketOf(e, 2) \in 1..(2 * Buckets)
           /\ \A f \in Element : BucketOf(e, 2) = BucketOf(f, 2) => BucketOf(e, 1) = BucketOf(f, 1)
<1> USE CollectionWalkAssumption
<1>1. ASSUME NEW x \in Element
      PROVE  x % Buckets \in 0..(Buckets - 1) /\ (x \div Buckets) % 2 \in {0, 1}
  <2>1. x \in Nat /\ Buckets \in Nat /\ Buckets > 0
    OBVIOUS
  <2>2. x % Buckets \in 0..(Buckets - 1)
    BY <2>1
  <2>3. x \div Buckets \in Int
    BY <2>1
  <2> QED BY <2>2, <2>3
<1>2. ASSUME NEW x \in Element
      PROVE  \E r \in 0..(Buckets - 1) :
                BucketOf(x, 1) = 1 + r /\ (BucketOf(x, 2) = 1 + r \/ BucketOf(x, 2) = 1 + r + Buckets)
  <2>1. PICK r \in 0..(Buckets - 1), h \in {0, 1} : r = x % Buckets /\ h = (x \div Buckets) % 2
    BY <1>1
  <2>2. BucketOf(x, 1) = 1 + r + 0 /\ BucketOf(x, 2) = 1 + r + Buckets * h
    BY <2>1 DEF BucketOf
  <2>3. CASE h = 0
    BY <2>2, <2>3
  <2>4. CASE h = 1
    BY <2>2, <2>4
  <2> QED BY <2>3, <2>4
<1>3. BucketOf(e, 1) \in 1..Buckets /\ BucketOf(e, 2) \in 1..(2 * Buckets)
  <2>1. PICK r \in 0..(Buckets - 1) :
           BucketOf(e, 1) = 1 + r /\ (BucketOf(e, 2) = 1 + r \/ BucketOf(e, 2) = 1 + r + Buckets)
    BY <1>2
  <2> QED BY <2>1
<1>4. ASSUME NEW f \in Element, BucketOf(e, 2) = BucketOf(f, 2) PROVE BucketOf(e, 1) = BucketOf(f, 1)
  <2>1. PICK r \in 0..(Buckets - 1) :
           BucketOf(e, 1) = 1 + r /\ (BucketOf(e, 2) = 1 + r \/ BucketOf(e, 2) = 1 + r + Buckets)
    BY <1>2
  <2>2. PICK q \in 0..(Buckets - 1) :
           BucketOf(f, 1) = 1 + q /\ (BucketOf(f, 2) = 1 + q \/ BucketOf(f, 2) = 1 + q + Buckets)
    BY <1>2
  <2> QED BY <1>4, <2>1, <2>2
<1> QED BY <1>3, <1>4

-----------------------------------------------------------------------------
(* Types.                                                                  *)

\* What a field can hold: an element that has been in the container, or null.
Known == Members(ever) \cup {Null}

\* Where a walk can be in a container of each kind.
Stages(k) ==
    {"begin", "done"} \cup
    (IF k = "array" THEN {"fields", "element"} ELSE IF k = "linked" THEN {"fields", "item", "next"}
     ELSE IF k = "hash" THEN {"bucket", "node"} ELSE IF k = "tree" THEN {"spine"} ELSE {"element"})

ContainerType ==
    /\ kind \in {"array", "linked", "hash", "tree", "generic", "raw"}
    /\ ever \in Seq(Element) /\ Distinct(ever)
    /\ content \in Seq(Element) /\ Distinct(content) /\ Members(content) \subseteq Members(ever)
    /\ size = Len(content)
    /\ table \in {1, 2}
    /\ arrays \in [1..2 -> Seq(Known)]
    /\ next \in [Element -> Known] /\ left \in [Element -> Known]
    /\ item \in [Element -> Element \cup {Null}] /\ \A e \in Element : item[e] \in {e, Null}
    /\ kind \in {"linked", "tree"} => Len(arrays[1]) = 1
    /\ kind = "hash" => Len(arrays[1]) = Buckets /\ (table = 2 => Len(arrays[2]) = 2 * Buckets)
    /\ kind = "raw" => Len(arrays[1]) = size
    /\ changes \subseteq {"added", "inserted", "shifted", "removed", "resized", "rotated"}

\* What an add(int, E) or a remove() that is under way still has to do.
ShiftType ==
    /\ kind = "array" => size <= Len(arrays[table]) /\ Len(arrays[table]) > 0
    /\ shift # NoShift =>
          /\ kind = "array" /\ "shifted" \in changes
          /\ shift \in [elem : Known, gap : Nat, to : Nat, list : Seq(Element)]
          /\ shift.gap \in 1..Len(arrays[table]) /\ shift.to \in 1..Len(arrays[table])
          /\ Distinct(shift.list) /\ Members(shift.list) \subseteq Members(ever)
          /\ Len(shift.list) <= Len(arrays[table])

\* The changes of one step that add at the end of "ever" or leave it; the steps of those that
\* move the elements of an array or of a list behind its methods; and an insertion into a chain.
Plain ==
    \/ \E e \in Element \ Members(ever) :
          (ArrayAdd(e) \/ ArrayStore(e) \/ LinkLast(e) \/ HashPut(e) \/ TreePut(e)) /\ ever' = Append(ever, e)
    \/ \E e \in Element :
          (ListRemove(e) \/ Unlink(e) \/ HashRemove(e) \/ RotateLeft(e) \/ RotateRight(e)) /\ UNCHANGED ever
    \/ HashResize /\ UNCHANGED ever

Shifts ==
    \/ \E e \in Element \ Members(ever) : (ArrayInsert(e) \/ ListInsert(e)) /\ ever' = Append(ever, e)
    \/ \E e \in Element : ArrayRemove(e) /\ UNCHANGED ever
    \/ (ShiftOne \/ ShiftEnd) /\ UNCHANGED ever

Links == \E e \in Element \ Members(ever) : \E i \in DOMAIN content : LinkBefore(e, i)

LEMMA MutateCases == Mutate => Plain \/ Shifts \/ Links
BY DEF Mutate, Plain, Shifts, Links

WalkType ==
    /\ walk \in [pc : Stages(kind), n : Nat, arr : {1, 2}, index : Nat, node : Known,
                 stack : Seq(Members(ever)), count : Nat]
    /\ walk.pc \in {"item", "next"} => walk.node # Null
    /\ result \in Seq(Known)
    /\ initial \subseteq Members(ever)

LEMMA ElementFacts == Null \notin Element /\ Null \in Nat /\ Element \subseteq Nat
BY CollectionWalkAssumption DEF Null

LEMMA FirstInKnown ==
    ASSUME NEW s \in Seq(Element), NEW S, NEW i \in Nat
    PROVE  FirstIn(s, S, i) \in Members(s) \cup {Null}
BY FirstInFacts DEF Members

LEMMA MembersIn ==
    ASSUME NEW T, NEW s \in Seq(T)
    PROVE  Members(s) \subseteq T
BY DEF Members

LEMMA PairType ==
    ASSUME NEW T, NEW a \in Seq(T), NEW b \in Seq(T)
    PROVE  <<a, b>> \in [1..2 -> Seq(T)] /\ <<a, b>>[1] = a /\ <<a, b>>[2] = b
<1>1. \A i \in 1..2 : i = 1 \/ i = 2
  OBVIOUS
<1> QED BY <1>1

LEMMA PaddedFacts ==
    ASSUME NEW T, NEW s \in Seq(T), NEW n \in Nat
    PROVE  /\ Padded(s, n) \in Seq(T \cup {Null}) /\ Len(Padded(s, n)) = n
           /\ \A i \in 1..n : Padded(s, n)[i] = IF i <= Len(s) THEN s[i] ELSE Null
<1>1. \A i \in 1..n : i <= Len(s) => s[i] \in T
  OBVIOUS
<1>2. Padded(s, n) \in [1..n -> T \cup {Null}]
  BY <1>1 DEF Padded
<1> QED BY <1>2 DEF Padded

LEMMA HeadsFacts ==
    ASSUME NEW s \in Seq(Element), NEW t \in {1, 2}
    PROVE  /\ Heads(s, t) \in Seq(Members(s) \cup {Null}) /\ Len(Heads(s, t)) = t * Buckets
           /\ \A b \in 1..(t * Buckets) : Heads(s, t)[b] = FirstIn(s, InBucket(b, t), 0)
<1>1. t * Buckets \in Nat
  BY CollectionWalkAssumption
<1>2. Heads(s, t) \in [1..(t * Buckets) -> Members(s) \cup {Null}]
  BY FirstInKnown DEF Heads
<1> QED BY <1>1, <1>2 DEF Heads

LEMMA PlaceFacts ==
    ASSUME NEW s \in Seq(Element), NEW e \in Members(s)
    PROVE  Position(s, e) \in Nat
BY PositionFacts

LEMMA LinksKnown ==
    ASSUME NEW s \in Seq(Element)
    PROVE  /\ Chain(s) \in [Element -> Members(s) \cup {Null}]
           /\ \A t : HashLinks(s, t) \in [Element -> Members(s) \cup {Null}]
           /\ Smaller(s) \in [Element -> Members(s) \cup {Null}]
           /\ Larger(s) \in [Element -> Members(s) \cup {Null}]
BY FirstInKnown, PlaceFacts DEF Chain, HashLinks, Smaller, Larger

LEMMA InitFilled ==
    ASSUME InitWalk
    PROVE  \E k \in Kind, s \in Seq(Element) :
              Distinct(s) /\ (k \in {"array", "generic"} => Len(s) <= Buckets) /\ Filled(k, s)
<1>1. PICK k \in Kind, S \in SUBSET Element :
         \E s \in SetToSeqs(S) : (k \in {"array", "generic"} => Len(s) <= Buckets) /\ Filled(k, s)
  BY DEF InitWalk
<1>2. PICK s \in SetToSeqs(S) : (k \in {"array", "generic"} => Len(s) <= Buckets) /\ Filled(k, s)
  BY <1>1
<1>3. Cardinality(S) \in Nat
  BY CollectionWalkAssumption, FS_Subset, FS_CardinalityType
<1>4. s \in [1..Cardinality(S) -> S] /\ \A i, j \in 1..Cardinality(S) : i # j => s[i] # s[j]
  BY DEF SetToSeqs
<1>5. s \in Seq(Element) /\ Distinct(s)
  BY <1>3, <1>4 DEF Distinct
<1> QED BY <1>2, <1>5

LEMMA InitType ==
    ASSUME NEW k \in Kind, NEW s \in Seq(Element), Distinct(s), Filled(k, s)
    PROVE  ContainerType /\ WalkType
<1> USE ElementFacts, CollectionWalkAssumption
<1>1. /\ kind = k
      /\ arrays = <<ArrayOf(k, s), <<>>>>
      /\ table = 1
      /\ size = Len(s)
      /\ next = (IF k = "linked" THEN Chain(s) ELSE IF k = "hash" THEN HashLinks(s, 1)
                 ELSE IF k = "tree" THEN Larger(s) ELSE NoLinks)
      /\ left = (IF k = "tree" THEN Smaller(s) ELSE NoLinks)
      /\ item = [e \in Element |-> e]
      /\ content = s
      /\ walk = NoWalk
      /\ result = <<>>
      /\ initial = Members(s)
      /\ ever = s
      /\ changes = {}
  BY DEF Filled
<1>2. s \in Seq(Element) /\ Distinct(s)
  OBVIOUS
<1>3. Known = Members(s) \cup {Null} /\ Members(s) \subseteq Element
  BY <1>1, <1>2, MembersIn DEF Known
<1>4. ArrayOf(k, s) \in Seq(Known)
  <2>1. s \in Seq(Members(s))
    BY <1>2 DEF Members
  <2>2. Padded(s, Buckets) \in Seq(Known) /\ s \in Seq(Known)
    BY <1>3, <2>1, PaddedFacts
  <2>3. Heads(s, 1) \in Seq(Known)
    BY <1>2, <1>3, HeadsFacts
  <2>4. <<FirstIn(s, Element, 0)>> \in Seq(Known)
    BY <1>2, <1>3, FirstInKnown
  <2> QED BY <2>2, <2>3, <2>4 DEF ArrayOf
<1>5. arrays \in [1..2 -> Seq(Known)] /\ arrays[1] = ArrayOf(k, s)
  <2>1. PICK a \in Seq(Known) : a = ArrayOf(k, s)
    BY <1>4
  <2>2. PICK b \in Seq(Known) : b = << >>
    <3>1. << >> \in Seq(Known)
      OBVIOUS
    <3> QED BY <3>1, Zenon
  <2>3. <<a, b>> \in [1..2 -> Seq(Known)] /\ <<a, b>>[1] = a
    BY PairType
  <2> QED BY <1>1, <2>1, <2>2, <2>3
<1>6. next \in [Element -> Known] /\ left \in [Element -> Known]
  BY <1>1, <1>2, <1>3, LinksKnown DEF NoLinks
<1>7. kind \in {"linked", "tree"} => Len(arrays[1]) = 1
  BY <1>1, <1>5 DEF ArrayOf
<1>8. kind = "hash" => Len(arrays[1]) = Buckets
  <2>1. Len(Heads(s, 1)) = 1 * Buckets
    BY <1>2, HeadsFacts
  <2> QED BY <1>1, <1>5, <2>1 DEF ArrayOf
<1>9. kind \in {"array", "linked", "hash", "tree", "generic", "raw"} /\ (kind = "raw" => Len(arrays[1]) = size)
  BY <1>1, <1>5 DEF ArrayOf
<1>10. ContainerType
  BY <1>1, <1>2, <1>3, <1>5, <1>6, <1>7, <1>8, <1>9 DEF ContainerType
<1>11. WalkType
  BY <1>1, <1>3 DEF WalkType, NoWalk, Known, Stages
<1> QED BY <1>10, <1>11

LEMMA DistinctAppend ==
    ASSUME NEW s \in Seq(Element), Distinct(s), NEW e \in Element, e \notin Members(s)
    PROVE  Distinct(Append(s, e))
<1> DEFINE t == Append(s, e)
<1>1. /\ Len(s) \in Nat /\ DOMAIN s = 1..Len(s) /\ DOMAIN t = 1..(Len(s) + 1)
      /\ \A i \in 1..Len(s) : t[i] = s[i]
      /\ t[Len(s) + 1] = e
  BY AppendFacts
<1> HIDE DEF t
<1>2. \A i \in 1..Len(s) : t[i] # e
  BY <1>1 DEF Members
<1>3. \A i \in DOMAIN t : i \in 1..Len(s) \/ i = Len(s) + 1
  BY <1>1
<1>4. ASSUME NEW i \in DOMAIN t, NEW j \in DOMAIN t, t[i] = t[j] PROVE i = j
  BY <1>1, <1>2, <1>3, <1>4 DEF Distinct
<1> QED BY <1>4 DEF Distinct, t

LEMMA DistinctWithout ==
    ASSUME NEW s \in Seq(Element), Distinct(s), NEW e \in Members(s)
    PROVE  Distinct(Without(s, e)) /\ Members(Without(s, e)) = Members(s) \ {e}
<1> DEFINE t == Without(s, e)
<1>1. PICK k \in 1..Len(s) : k = Position(s, e) /\ s[k] = e
  BY PositionFacts
<1>2. /\ Len(s) \in Nat /\ DOMAIN s = 1..Len(s) /\ DOMAIN t = 1..(Len(s) - 1)
      /\ \A i \in 1..(Len(s) - 1) : t[i] = IF i < k THEN s[i] ELSE s[i + 1]
  BY <1>1, WithoutFacts
<1> HIDE DEF t
<1>3. ASSUME NEW i \in DOMAIN t, NEW j \in DOMAIN t, t[i] = t[j] PROVE i = j
  <2>1. PICK x \in DOMAIN s : t[i] = s[x] /\ x = IF i < k THEN i ELSE i + 1
    BY <1>1, <1>2
  <2>2. PICK y \in DOMAIN s : t[j] = s[y] /\ y = IF j < k THEN j ELSE j + 1
    BY <1>1, <1>2
  <2>3. x = y
    BY <1>3, <2>1, <2>2 DEF Distinct
  <2> QED BY <1>1, <1>2, <2>1, <2>2, <2>3
<1>4. ASSUME NEW x \in Members(t) PROVE x \in Members(s) \ {e}
  <2>1. PICK i \in 1..(Len(s) - 1) : x = t[i]
    BY <1>2 DEF Members
  <2>2. PICK j \in 1..Len(s) : x = s[j] /\ j # k
    BY <1>1, <1>2, <2>1
  <2> QED BY <1>1, <1>2, <2>2 DEF Members, Distinct
<1>5. ASSUME NEW x \in Members(s) \ {e} PROVE x \in Members(t)
  <2>1. PICK i \in 1..Len(s) : x = s[i]
    BY <1>2 DEF Members
  <2>2. i # k
    BY <1>1, <2>1
  <2>3. CASE i < k
    <3>1. i \in 1..(Len(s) - 1) /\ t[i] = x
      BY <1>1, <1>2, <2>1, <2>3
    <3> QED BY <1>2, <3>1 DEF Members
  <2>4. CASE i > k
    <3>1. PICK j : j = i - 1
      OBVIOUS
    <3>2. j \in 1..(Len(s) - 1) /\ ~(j < k) /\ j + 1 = i
      BY <1>1, <2>4, <3>1
    <3>3. t[j] = x
      BY <1>2, <2>1, <3>2
    <3> QED BY <1>2, <3>2, <3>3 DEF Members
  <2> QED BY <1>1, <2>2, <2>3, <2>4
<1> QED BY <1>3, <1>4, <1>5 DEF Distinct, t

\* What InsertAt() returns.
Inserted(s, i, e, t) ==
    \A j \in 1..(Len(s) + 1) : t[j] = IF j < i THEN s[j] ELSE IF j = i THEN e ELSE s[j - 1]

LEMMA InsertFacts ==
    ASSUME NEW s \in Seq(Element), NEW i \in DOMAIN s, NEW e \in Element
    PROVE  /\ InsertAt(s, i, e) \in Seq(Element) /\ Len(InsertAt(s, i, e)) = Len(s) + 1
           /\ Inserted(s, i, e, InsertAt(s, i, e))
           /\ Members(InsertAt(s, i, e)) = Members(s) \cup {e}
<1>0. PICK t : t = InsertAt(s, i, e)
  OBVIOUS
<1> DEFINE a == SubSeq(s, 1, i - 1)
           b == SubSeq(s, i, Len(s))
           h == a \o <<e>>
<1>1. i \in 1..Len(s) /\ Len(s) \in Nat /\ DOMAIN s = 1..Len(s)
  OBVIOUS
<1>2. /\ a \in Seq(Element) /\ Len(a) = i - 1 /\ \A j \in 1..(i - 1) : a[j] = s[j]
      /\ b \in Seq(Element) /\ Len(b) = Len(s) - i + 1 /\ \A j \in 1..(Len(s) - i + 1) : b[j] = s[i + j - 1]
  OBVIOUS
<1>3. t = h \o b
  BY <1>0 DEF InsertAt
<1> HIDE DEF a, b
<1>4. h \in Seq(Element) /\ Len(h) = i /\ h[i] = e /\ \A j \in 1..(i - 1) : h[j] = s[j]
  BY <1>1, <1>2
<1> HIDE DEF h
<1>5. /\ h \o b \in Seq(Element) /\ Len(h \o b) = Len(h) + Len(b)
      /\ \A j \in 1..(Len(h) + Len(b)) : (h \o b)[j] = IF j <= Len(h) THEN h[j] ELSE b[j - Len(h)]
  BY <1>2, <1>4, ConcatProperties
<1>6. t \in Seq(Element) /\ Len(t) = Len(s) + 1
  <2>1. Len(h) + Len(b) = Len(s) + 1
    BY <1>1, <1>2, <1>4
  <2> QED BY <1>3, <1>5, <2>1
<1>7. ASSUME NEW j \in 1..(Len(s) + 1)
      PROVE  t[j] = IF j < i THEN s[j] ELSE IF j = i THEN e ELSE s[j - 1]
  <2>1. t[j] = IF j <= i THEN h[j] ELSE b[j - i]
    <3>1. j \in 1..(Len(h) + Len(b)) /\ Len(h) = i
      BY <1>1, <1>2, <1>4
    <3> QED BY <1>3, <1>5, <3>1
  <2>2. CASE j < i
    <3>1. j \in 1..(i - 1)
      BY <1>1, <2>2
    <3> QED BY <1>1, <1>4, <2>1, <2>2, <3>1
  <2>3. CASE j = i
    BY <1>1, <1>4, <2>1, <2>3
  <2>4. CASE j > i
    <3>1. PICK k : k = j - i
      OBVIOUS
    <3>2. k \in 1..(Len(s) - i + 1) /\ i + k - 1 = j - 1
      BY <1>1, <2>4, <3>1
    <3>3. b[k] = s[j - 1]
      BY <1>2, <3>2
    <3> QED BY <1>1, <2>1, <2>4, <3>1, <3>3
  <2> QED BY <1>1, <2>2, <2>3, <2>4
<1>8. ASSUME NEW x \in Members(t) PROVE x \in Members(s) \cup {e}
  <2>1. PICK j \in 1..(Len(s) + 1) : x = t[j]
    BY <1>6 DEF Members
  <2>2. CASE j < i
    <3>1. j \in 1..Len(s) /\ x = s[j]
      BY <1>1, <1>7, <2>1, <2>2
    <3> QED BY <1>1, <3>1 DEF Members
  <2>3. CASE j = i
    BY <1>1, <1>7, <2>1, <2>3
  <2>4. CASE j > i
    <3>1. j - 1 \in 1..Len(s) /\ x = s[j - 1]
      BY <1>1, <1>7, <2>1, <2>4
    <3> QED BY <1>1, <3>1 DEF Members
  <2> QED BY <1>1, <2>2, <2>3, <2>4
<1>9. ASSUME NEW x \in Members(s) PROVE x \in Members(t)
  <2>1. PICK j \in 1..Len(s) : x = s[j]
    BY <1>1 DEF Members
  <2>2. PICK k : k = IF j < i THEN j ELSE j + 1
    OBVIOUS
  <2>3. k \in 1..(Len(s) + 1) /\ t[k] = x
    BY <1>1, <1>7, <2>1, <2>2
  <2>4. DOMAIN t = 1..(Len(s) + 1)
    BY <1>6
  <2> QED BY <2>3, <2>4 DEF Members
<1>10. e \in Members(t)
  <2>1. i \in 1..(Len(s) + 1) /\ t[i] = e
    BY <1>1, <1>7
  <2>2. DOMAIN t = 1..(Len(s) + 1)
    BY <1>6
  <2> QED BY <2>1, <2>2 DEF Members
<1>11. Members(t) = Members(s) \cup {e}
  BY <1>8, <1>9, <1>10
<1>12. Inserted(s, i, e, t)
  BY <1>7 DEF Inserted
<1> QED BY <1>0, <1>6, <1>11, <1>12

LEMMA DistinctInsert ==
    ASSUME NEW s \in Seq(Element), Distinct(s), NEW i \in DOMAIN s, NEW e \in Element, e \notin Members(s),
           NEW t, t = InsertAt(s, i, e)
    PROVE  Distinct(t)
<1>0. /\ InsertAt(s, i, e) \in Seq(Element) /\ Len(InsertAt(s, i, e)) = Len(s) + 1
      /\ Inserted(s, i, e, InsertAt(s, i, e))
  BY InsertFacts
<1>1. /\ Len(t) = Len(s) + 1 /\ t \in Seq(Element)
      /\ \A j \in 1..(Len(s) + 1) : t[j] = IF j < i THEN s[j] ELSE IF j = i THEN e ELSE s[j - 1]
  BY <1>0 DEF Inserted
<1>2. DOMAIN t = 1..(Len(s) + 1) /\ DOMAIN s = 1..Len(s) /\ Len(s) \in Nat /\ i \in 1..Len(s)
  BY <1>1
<1>3. ASSUME NEW j \in DOMAIN t, j # i
      PROVE  \E k \in DOMAIN s : t[j] = s[k] /\ k = IF j < i THEN j ELSE j - 1
  <2>1. PICK k : k = IF j < i THEN j ELSE j - 1
    OBVIOUS
  <2>2. k \in 1..Len(s) /\ t[j] = s[k]
    BY <1>1, <1>2, <1>3, <2>1
  <2> QED BY <1>2, <2>1, <2>2
<1>4. t[i] = e /\ \A j \in DOMAIN t : j # i => t[j] # e
  <2>1. i \in 1..(Len(s) + 1)
    BY <1>2
  <2>2. ASSUME NEW j \in DOMAIN t, j # i PROVE t[j] # e
    BY <1>3, <2>2 DEF Members
  <2> QED BY <1>1, <1>2, <2>1, <2>2
<1>5. ASSUME NEW j \in DOMAIN t, NEW k \in DOMAIN t, t[j] = t[k] PROVE j = k
  <2>1. CASE j = i
    BY <1>4, <1>5, <2>1
  <2>2. CASE k = i
    BY <1>4, <1>5, <2>2
  <2>3. CASE j # i /\ k # i
    <3>1. PICK x \in DOMAIN s : t[j] = s[x] /\ x = IF j < i THEN j ELSE j - 1
      BY <1>3, <2>3
    <3>2. PICK y \in DOMAIN s : t[k] = s[y] /\ y = IF k < i THEN k ELSE k - 1
      BY <1>3, <2>3
    <3>3. x = y
      BY <1>5, <3>1, <3>2 DEF Distinct
    <3> QED BY <1>2, <2>3, <3>1, <3>2, <3>3
  <2> QED BY <2>1, <2>2, <2>3
<1> QED BY <1>5 DEF Distinct

LEMMA SeqMono ==
    ASSUME NEW S, NEW T, S \subseteq T, NEW s \in Seq(S)
    PROVE  s \in Seq(T)
OBVIOUS

LEMMA SetPlace ==
    ASSUME NEW T, NEW A \in [1..2 -> Seq(T)], NEW t \in 1..2, NEW i \in 1..Len(A[t]), NEW e \in T
    PROVE  /\ [A EXCEPT ![t][i] = e] \in [1..2 -> Seq(T)]
           /\ \A u \in 1..2 \ {t} : [A EXCEPT ![t][i] = e][u] = A[u]
           /\ Len([A EXCEPT ![t][i] = e][t]) = Len(A[t])
           /\ [A EXCEPT ![t][i] = e][t][i] = e
           /\ \A j \in 1..Len(A[t]) \ {i} : [A EXCEPT ![t][i] = e][t][j] = A[t][j]
<1>1. PICK a \in Seq(T) : a = A[t]
  OBVIOUS
<1>2. PICK b : b = [a EXCEPT ![i] = e]
  OBVIOUS
<1>3. b \in Seq(T) /\ Len(b) = Len(a) /\ b[i] = e /\ \A j \in 1..Len(a) \ {i} : b[j] = a[j]
  BY <1>1, <1>2
<1>4. [A EXCEPT ![t][i] = e] = [A EXCEPT ![t] = b]
  BY <1>1, <1>2
<1> QED BY <1>1, <1>3, <1>4

LEMMA SetArray ==
    ASSUME NEW T, NEW A \in [1..2 -> Seq(T)], NEW t \in 1..2, NEW a \in Seq(T)
    PROVE  /\ [A EXCEPT ![t] = a] \in [1..2 -> Seq(T)]
           /\ [A EXCEPT ![t] = a][t] = a
           /\ \A u \in 1..2 \ {t} : [A EXCEPT ![t] = a][u] = A[u]
OBVIOUS

Replaced(s, i, e, c) == c = [s EXCEPT ![i] = e]

LEMMA ReplaceFacts ==
    ASSUME NEW s \in Seq(Element), Distinct(s), NEW e \in Element, e \notin Members(s), NEW i \in DOMAIN s,
           NEW c, Replaced(s, i, e, c)
    PROVE  /\ c \in Seq(Element) /\ Len(c) = Len(s) /\ Distinct(c) /\ Members(c) \subseteq Members(s) \cup {e}
           /\ c[i] = e /\ \A j \in DOMAIN s \ {i} : c[j] = s[j]
<1>1. /\ c \in Seq(Element) /\ Len(c) = Len(s) /\ DOMAIN c = DOMAIN s
      /\ c[i] = e /\ \A j \in DOMAIN s \ {i} : c[j] = s[j]
  BY DEF Replaced
<1>2. Members(c) \subseteq Members(s) \cup {e}
  BY <1>1 DEF Members
<1>3. \A j \in DOMAIN s : s[j] # e
  BY DEF Members
<1>4. Distinct(c)
  BY <1>1, <1>3 DEF Distinct
<1> QED BY <1>1, <1>2, <1>4

LEMMA SetLink ==
    ASSUME NEW T, NEW f \in [Element -> T], NEW e \in T
    PROVE  \A p : [f EXCEPT ![p] = e] \in [Element -> T]
OBVIOUS

LEMMA SeqOfMembers ==
    ASSUME NEW S, NEW T, NEW s \in Seq(S), Members(s) \subseteq T
    PROVE  s \in Seq(T)
BY DEF Members

LEMMA WalkTypeKept ==
    ASSUME WalkType, Members(ever) \subseteq Members(ever)', kind' = kind, walk' = walk,
           result' = result, initial' = initial
    PROVE  WalkType'
<1>1. Known \subseteq Known'
  BY DEF Known
<1>2. /\ Seq(Known) \subseteq Seq(Known') /\ Seq(Members(ever)) \subseteq Seq(Members(ever)')
  BY <1>1, SeqMono
<1> QED BY <1>1, <1>2 DEF WalkType

\* What a new element leaves as it was.
LEMMA EverGrows ==
    ASSUME ContainerType, NEW e \in Element \ Members(ever), ever' = Append(ever, e)
    PROVE  /\ ever' \in Seq(Element) /\ Distinct(ever')
           /\ Members(ever)' = Members(ever) \cup {e}
           /\ Known' = Known \cup {e}
           /\ e \notin Members(content)
<1>1. ever \in Seq(Element) /\ Distinct(ever)
  BY DEF ContainerType
<1>2. Members(Append(ever, e)) = Members(ever) \cup {e} /\ Append(ever, e) \in Seq(Element)
  BY <1>1, AppendFacts
<1>3. Distinct(Append(ever, e))
  BY <1>1, DistinctAppend
<1>4. e \notin Members(content)
  BY DEF ContainerType
<1> QED BY <1>2, <1>3, <1>4 DEF Known

\* Java's steps keep the type of the container.
LEMMA AddType ==
    ASSUME ContainerType, NEW e \in Element \ Members(ever), ever' = Append(ever, e),
           ArrayAdd(e) \/ ArrayStore(e) \/ LinkLast(e) \/ HashPut(e) \/ TreePut(e)
    PROVE  ContainerType'
<1> USE ElementFacts, CollectionWalkAssumption
<1>1. /\ ever' \in Seq(Element) /\ Distinct(ever)' /\ Members(ever)' = Members(ever) \cup {e}
      /\ Known' = Known \cup {e} /\ e \notin Members(content)
  BY EverGrows DEF Distinct
<1>2. PICK K : K = Known'
  OBVIOUS
<1>3. e \in K /\ Known \subseteq K /\ Seq(Known) \subseteq Seq(K)
  BY <1>1, <1>2, SeqMono
<1>4. /\ arrays \in [1..2 -> Seq(K)] /\ next \in [Element -> K] /\ left \in [Element -> K]
      /\ table \in 1..2
  <2>1. arrays \in [1..2 -> Seq(Known)] /\ table \in {1, 2}
    BY DEF ContainerType
  <2>2. next \in [Element -> Known] /\ left \in [Element -> Known]
    BY DEF ContainerType
  <2>3. arrays \in [1..2 -> Seq(K)]
    BY <1>3, <2>1
  <2>4. next \in [Element -> K] /\ left \in [Element -> K]
    BY <1>3, <2>2
  <2> QED BY <2>1, <2>3, <2>4
<1>5. /\ Append(content, e) \in Seq(Element) /\ Distinct(Append(content, e))
      /\ Members(Append(content, e)) = Members(content) \cup {e}
      /\ Len(Append(content, e)) = Len(content) + 1
  BY <1>1, AppendFacts, DistinctAppend DEF ContainerType
<1>6. ASSUME content' = Append(content, e), size' = size + 1
      PROVE  /\ content' \in Seq(Element) /\ Distinct(content)'
             /\ Members(content)' \subseteq Members(ever)' /\ size' = Len(content)'
  <2>1. Members(content)' = Members(content) \cup {e} /\ Distinct(content)' /\ Len(content)' = Len(content) + 1
    BY <1>5, <1>6, Zenon
  <2>2. Members(content) \subseteq Members(ever) /\ size = Len(content)
    BY DEF ContainerType
  <2> QED BY <1>1, <1>5, <1>6, <2>1, <2>2
<1>7. CASE ArrayAdd(e)
  <2>1. /\ kind \in {"array", "generic"} /\ kind' = kind /\ size' = size + 1 /\ content' = Append(content, e)
        /\ changes' = changes \cup {"added"} /\ next' = next /\ left' = left /\ item' = item
    BY <1>7 DEF ArrayAdd, Java, Underway, Changed
  <2>2. table' \in {1, 2} /\ arrays' \in [1..2 -> Seq(K)]
    <3>1. CASE size < Len(arrays[table]) /\ arrays' = [arrays EXCEPT ![table][size + 1] = e] /\ table' = table
      <4>1. size + 1 \in 1..Len(arrays[table])
        BY <1>4, <3>1 DEF ContainerType
      <4> QED BY <1>3, <1>4, <3>1, <4>1, SetPlace
    <3>2. CASE /\ table' = 2
               /\ arrays' = [arrays EXCEPT ![2] = Padded(Append(content, e), 2 * Len(arrays[table]))]
      <4>1. Append(content, e) \in Seq(Members(ever) \cup {e})
        <5>1. Members(Append(content, e)) \subseteq Members(ever) \cup {e}
          BY <1>5 DEF ContainerType
        <5> QED BY <1>5, <5>1, SeqOfMembers
      <4>2. 2 * Len(arrays[table]) \in Nat
        BY <1>4
      <4>3. Padded(Append(content, e), 2 * Len(arrays[table])) \in Seq(K)
        BY <1>1, <1>2, <4>1, <4>2, PaddedFacts DEF Known
      <4> QED BY <1>4, <3>2, <4>3, SetArray
    <3> QED BY <1>7, <3>1, <3>2 DEF ArrayAdd, ContainerType
  <2> QED BY <1>1, <1>2, <1>4, <1>6, <2>1, <2>2 DEF ContainerType
<1>8. CASE ArrayStore(e)
  <2>1. /\ kind = "raw" /\ kind' = kind /\ table' = table /\ size' = size
        /\ changes' = changes \cup {"removed"} /\ next' = next /\ left' = left /\ item' = item
    BY <1>8 DEF ArrayStore, Java, Underway, Changed
  <2>2. PICK i \in DOMAIN content :
           arrays' = [arrays EXCEPT ![1][i] = e] /\ content' = [content EXCEPT ![i] = e]
    BY <1>8 DEF ArrayStore
  <2>3. content \in Seq(Element) /\ Distinct(content) /\ size = Len(content) /\ Len(arrays[1]) = size
    BY <2>1 DEF ContainerType
  <2>4. arrays' \in [1..2 -> Seq(K)] /\ Len(arrays'[1]) = Len(arrays[1])
    <3>1. i \in 1..Len(arrays[1]) /\ 1 \in 1..2
      BY <2>3
    <3> QED BY <1>3, <1>4, <2>2, <3>1, SetPlace
  <2>5. PICK c : c = [content EXCEPT ![i] = e]
    OBVIOUS
  <2>6. c \in Seq(Element) /\ Len(c) = Len(content) /\ Distinct(c) /\ Members(c) \subseteq Members(content) \cup {e}
    <3>1. PICK s \in Seq(Element) : s = content
      BY <2>3
    <3>2. e \in Element /\ e \notin Members(s) /\ i \in DOMAIN s /\ Distinct(s) /\ Replaced(s, i, e, c)
      BY <1>1, <2>3, <2>5, <3>1 DEF Replaced
    <3>3. c \in Seq(Element) /\ Len(c) = Len(s) /\ Distinct(c) /\ Members(c) \subseteq Members(s) \cup {e}
      BY <3>2, ReplaceFacts
    <3> QED BY <3>1, <3>3
  <2>7. content' \in Seq(Element) /\ Distinct(content)' /\ Members(content)' = Members(c) /\ Len(content)' = Len(content)
    BY <2>2, <2>5, <2>6, Zenon
  <2>8. Members(content)' \subseteq Members(ever)'
    BY <1>1, <2>6, <2>7 DEF ContainerType
  <2> QED BY <1>1, <1>2, <1>4, <2>1, <2>3, <2>4, <2>7, <2>8 DEF ContainerType
<1>9. CASE LinkLast(e)
  <2>1. /\ kind = "linked" /\ kind' = kind /\ size' = size + 1 /\ content' = Append(content, e)
        /\ changes' = changes \cup {"added"} /\ left' = left /\ item' = item /\ table' = table
    BY <1>9 DEF LinkLast, Java, Underway, Changed
  <2>2. arrays' \in [1..2 -> Seq(K)] /\ Len(arrays'[1]) = 1 /\ next' \in [Element -> K]
    <3>1. CASE arrays' = [arrays EXCEPT ![1] = <<e>>] /\ next' = next
      BY <1>3, <1>4, <3>1, SetArray
    <3>2. CASE content # <<>> /\ next' = [next EXCEPT ![Last(content)] = e] /\ arrays' = arrays
      BY <1>3, <1>4, <2>1, <3>2 DEF ContainerType
    <3> QED BY <1>9, <3>1, <3>2 DEF LinkLast
  <2> QED BY <1>1, <1>2, <1>4, <1>6, <2>1, <2>2 DEF ContainerType
<1>10. CASE HashPut(e)
  <2>1. /\ kind = "hash" /\ kind' = kind /\ size' = size + 1 /\ content' = Append(content, e)
        /\ changes' = changes \cup {"added"} /\ left' = left /\ item' = item /\ table' = table
    BY <1>10 DEF HashPut, Java, Underway, Changed
  <2>2. /\ arrays' \in [1..2 -> Seq(K)] /\ next' \in [Element -> K]
        /\ Len(arrays'[1]) = Buckets /\ (table = 2 => Len(arrays'[2]) = 2 * Buckets)
    <3>1. CASE arrays' = [arrays EXCEPT ![table][BucketOf(e, table)] = e] /\ next' = next
      <4>1. BucketOf(e, table) \in 1..Len(arrays[table])
        BY <2>1, BucketFacts DEF ContainerType
      <4>2. /\ arrays' \in [1..2 -> Seq(K)] /\ Len(arrays'[table]) = Len(arrays[table])
            /\ \A u \in 1..2 \ {table} : arrays'[u] = arrays[u]
        BY <1>3, <1>4, <3>1, <4>1, SetPlace
      <4>3. Len(arrays'[1]) = Len(arrays[1]) /\ Len(arrays'[2]) = Len(arrays[2])
        <5>1. CASE table = 1
          BY <4>2, <5>1
        <5>2. CASE table = 2
          BY <4>2, <5>2
        <5> QED BY <5>1, <5>2 DEF ContainerType
      <4> QED BY <1>4, <2>1, <3>1, <4>2, <4>3 DEF ContainerType
    <3>2. CASE arrays' = arrays /\ \E x : next' = [next EXCEPT ![x] = e]
      BY <1>3, <1>4, <2>1, <3>2, SetLink DEF ContainerType
    <3> QED BY <1>10, <3>1, <3>2 DEF HashPut
  <2> QED BY <1>1, <1>2, <1>4, <1>6, <2>1, <2>2 DEF ContainerType
<1>11. CASE TreePut(e)
  <2>1. /\ kind = "tree" /\ kind' = kind /\ size' = size + 1 /\ content' = Append(content, e)
        /\ changes' = changes \cup {"added"} /\ item' = item /\ table' = table
    BY <1>11 DEF TreePut, Java, Underway, Changed
  <2>2. /\ arrays' \in [1..2 -> Seq(K)] /\ Len(arrays'[1]) = 1
        /\ next' \in [Element -> K] /\ left' \in [Element -> K]
    <3>1. CASE arrays' = [arrays EXCEPT ![1] = <<e>>] /\ next' = next /\ left' = left
      BY <1>3, <1>4, <3>1, SetArray
    <3>2. CASE arrays' = arrays /\ \E p : next' = [next EXCEPT ![p] = e] /\ left' = left
      BY <1>3, <1>4, <2>1, <3>2, SetLink DEF ContainerType
    <3>3. CASE arrays' = arrays /\ \E p : left' = [left EXCEPT ![p] = e] /\ next' = next
      BY <1>3, <1>4, <2>1, <3>3, SetLink DEF ContainerType
    <3> QED BY <1>11, <3>1, <3>2, <3>3 DEF TreePut
  <2> QED BY <1>1, <1>2, <1>4, <1>6, <2>1, <2>2 DEF ContainerType
<1> QED BY <1>7, <1>8, <1>9, <1>10, <1>11

\* A node that has not been in the container has no links.
Loose == \A x \in Element \ Members(ever) : next[x] = Null /\ left[x] = Null

LEMMA ChangeType ==
    ASSUME ContainerType, Loose, ever' = ever,
           \/ \E e \in Element : ListRemove(e) \/ Unlink(e) \/ HashRemove(e) \/ RotateLeft(e) \/ RotateRight(e)
           \/ HashResize
    PROVE  ContainerType'
<1> USE ElementFacts, CollectionWalkAssumption
<1>1. /\ ever' \in Seq(Element) /\ Distinct(ever)' /\ Members(ever)' = Members(ever) /\ Known' = Known
  BY DEF ContainerType, Known, Distinct, Members
<1>2. /\ arrays \in [1..2 -> Seq(Known)] /\ next \in [Element -> Known] /\ left \in [Element -> Known]
      /\ table \in 1..2
  BY DEF ContainerType
<1>3. ASSUME NEW e \in Members(content)
      PROVE  /\ Without(content, e) \in Seq(Element) /\ Distinct(Without(content, e))
             /\ Members(Without(content, e)) \subseteq Members(ever)
             /\ Len(Without(content, e)) = Len(content) - 1
  <2>1. content \in Seq(Element) /\ Distinct(content) /\ Members(content) \subseteq Members(ever)
    BY DEF ContainerType
  <2> QED BY <2>1, WithoutFacts, DistinctWithout
<1>4. ASSUME NEW e \in Members(content), content' = Without(content, e), size' = size - 1
      PROVE  /\ content' \in Seq(Element) /\ Distinct(content)'
             /\ Members(content)' \subseteq Members(ever)' /\ size' = Len(content)'
  <2>1. /\ content' \in Seq(Element) /\ Distinct(content)' /\ Members(content)' \subseteq Members(ever)
        /\ Len(content)' = Len(content) - 1
    BY <1>3, <1>4, Zenon
  <2> QED BY <1>1, <1>4, <2>1 DEF ContainerType
<1>5. ASSUME NEW e \in Members(content), NEW S
      PROVE  FirstIn(Without(content, e), S, 0) \in Known
  <2>1. PICK r \in Seq(Element) : r = Without(content, e) /\ Members(r) \subseteq Members(ever)
    BY <1>3
  <2>2. FirstIn(r, S, 0) \in Members(r) \cup {Null}
    BY FirstInKnown
  <2> QED BY <2>1, <2>2 DEF Known
<1>6. ASSUME NEW e \in Element, ListRemove(e) PROVE ContainerType'
  <2>1. /\ kind \in {"array", "generic"} /\ kind' = kind /\ e \in Members(content)
        /\ size' = size - 1 /\ content' = Without(content, e) /\ table' = table
        /\ changes' = changes \cup {"removed"} /\ next' = next /\ left' = left /\ item' = item
        /\ arrays' = [arrays EXCEPT ![table] = Padded(Without(content, e), Len(arrays[table]))]
    BY <1>6 DEF ListRemove, Java, Underway, Changed
  <2>2. Padded(Without(content, e), Len(arrays[table])) \in Seq(Known)
    <3>1. PICK r \in Seq(Element) : r = Without(content, e) /\ Members(r) \subseteq Members(ever)
      BY <1>3, <2>1
    <3>2. r \in Seq(Members(ever))
      BY <3>1, SeqOfMembers
    <3>3. Len(arrays[table]) \in Nat
      BY <1>2
    <3> QED BY <3>1, <3>2, <3>3, PaddedFacts DEF Known
  <2>3. arrays' \in [1..2 -> Seq(Known)]
    BY <1>2, <2>1, <2>2, SetArray
  <2> QED BY <1>1, <1>4, <2>1, <2>3 DEF ContainerType
<1>7. ASSUME NEW e \in Element, Unlink(e) PROVE ContainerType'
  <2>1. /\ kind = "linked" /\ kind' = kind /\ e \in Members(content)
        /\ size' = size - 1 /\ content' = Without(content, e) /\ table' = table
        /\ changes' = changes \cup {"removed"} /\ left' = left /\ item' = [item EXCEPT ![e] = Null]
        /\ arrays' = [arrays EXCEPT ![1] = <<FirstIn(Without(content, e), Element, 0)>>]
        /\ next' = [[f \in Element |-> IF next[f] = e THEN next[e] ELSE next[f]] EXCEPT ![e] = Null]
    BY <1>7 DEF Unlink, Java, Underway, Changed
  <2>2. PICK x \in Known : x = FirstIn(Without(content, e), Element, 0)
    BY <1>5, <2>1
  <2>3. arrays' \in [1..2 -> Seq(Known)] /\ Len(arrays'[1]) = 1
    <3>1. PICK a : a = <<x>>
      OBVIOUS
    <3>2. a \in Seq(Known) /\ Len(a) = 1
      BY <3>1
    <3> QED BY <1>2, <2>1, <2>2, <3>1, <3>2, SetArray
  <2>4. next' \in [Element -> Known]
    <3>1. [f \in Element |-> IF next[f] = e THEN next[e] ELSE next[f]] \in [Element -> Known] /\ Null \in Known
      BY <1>2 DEF Known
    <3> QED BY <2>1, <3>1, SetLink
  <2>5. item' \in [Element -> Element \cup {Null}] /\ \A f \in Element : item'[f] \in {f, Null}
    BY <2>1 DEF ContainerType
  <2> QED BY <1>1, <1>4, <2>1, <2>3, <2>4, <2>5 DEF ContainerType
<1>8. ASSUME NEW e \in Element, HashRemove(e) PROVE ContainerType'
  <2>1. /\ kind = "hash" /\ kind' = kind /\ e \in Members(content)
        /\ size' = size - 1 /\ content' = Without(content, e) /\ table' = table
        /\ changes' = changes \cup {"removed"} /\ left' = left /\ item' = item
        /\ arrays' = [arrays EXCEPT ![table][BucketOf(e, table)] =
                                       FirstIn(Without(content, e), InBucket(BucketOf(e, table), table), 0)]
        /\ next' = [f \in Element |-> IF next[f] = e /\ f \in Members(content) THEN next[e] ELSE next[f]]
    BY <1>8 DEF HashRemove, Java, Underway, Changed
  <2>2. PICK x \in Known : x = FirstIn(Without(content, e), InBucket(BucketOf(e, table), table), 0)
    BY <1>5, <2>1
  <2>3. BucketOf(e, table) \in 1..Len(arrays[table])
    BY <2>1, BucketFacts DEF ContainerType
  <2>4. /\ arrays' \in [1..2 -> Seq(Known)] /\ Len(arrays'[table]) = Len(arrays[table])
        /\ \A u \in 1..2 \ {table} : arrays'[u] = arrays[u]
    BY <1>2, <2>1, <2>2, <2>3, SetPlace
  <2>5. Len(arrays'[1]) = Len(arrays[1]) /\ Len(arrays'[2]) = Len(arrays[2])
    <3>1. CASE table = 1
      BY <2>4, <3>1
    <3>2. CASE table = 2
      BY <2>4, <3>2
    <3> QED BY <3>1, <3>2 DEF ContainerType
  <2>6. next' \in [Element -> Known]
    BY <1>2, <2>1
  <2> QED BY <1>1, <1>4, <2>1, <2>4, <2>5, <2>6 DEF ContainerType
<1>9. ASSUME NEW p \in Element, RotateLeft(p) \/ RotateRight(p) PROVE ContainerType'
  <2>1. /\ kind = "tree" /\ kind' = kind /\ table' = table /\ size' = size /\ item' = item /\ content' = content
        /\ changes' = changes \cup {"rotated"}
    BY <1>9 DEF RotateLeft, RotateRight, Lifted, Java, Underway, Changed
  <2>2. PICK c \in Members(ever) : arrays' = IF arrays[1] = <<p>> THEN [arrays EXCEPT ![1] = <<c>>] ELSE arrays
    BY <1>2, <1>9 DEF RotateLeft, RotateRight, Lifted, Known
  <2>3. arrays' \in [1..2 -> Seq(Known)] /\ Len(arrays'[1]) = 1
    <3>1. CASE arrays' = arrays
      BY <1>2, <2>1, <3>1 DEF ContainerType
    <3>2. CASE arrays' = [arrays EXCEPT ![1] = <<c>>]
      <4>1. PICK a : a = <<c>>
        OBVIOUS
      <4>2. a \in Seq(Known) /\ Len(a) = 1
        BY <4>1 DEF Known
      <4> QED BY <1>2, <3>2, <4>1, <4>2, SetArray
    <3> QED BY <2>2, <3>1, <3>2
  <2>4. ASSUME NEW f \in [Element -> Known], NEW g \in [Element -> Known], NEW d \in Element,
               d \in Members(ever), p \in Members(ever)
        PROVE  /\ Rotated(p, d, f, g).down \in [Element -> Known]
               /\ Rotated(p, d, f, g).other \in [Element -> Known]
    BY <2>4 DEF Rotated, Known
  <2>5. next' \in [Element -> Known] /\ left' \in [Element -> Known]
    <3>1. CASE RotateLeft(p)
      <4>1. next[p] # Null /\ next' = Rotated(p, next[p], next, left).down /\ left' = Rotated(p, next[p], next, left).other
        BY <3>1 DEF RotateLeft
      <4>2. p \in Members(ever) /\ next[p] \in Members(ever) /\ next[p] \in Element
        BY <1>2, <4>1, MembersIn DEF Loose, Known, ContainerType
      <4>3. PICK d \in Element : d = next[p] /\ d \in Members(ever)
        BY <4>2
      <4> QED BY <1>2, <2>4, <4>1, <4>2, <4>3
    <3>2. CASE RotateRight(p)
      <4>1. left[p] # Null /\ left' = Rotated(p, left[p], left, next).down /\ next' = Rotated(p, left[p], left, next).other
        BY <3>2 DEF RotateRight
      <4>2. p \in Members(ever) /\ left[p] \in Members(ever) /\ left[p] \in Element
        BY <1>2, <4>1, MembersIn DEF Loose, Known, ContainerType
      <4>3. PICK d \in Element : d = left[p] /\ d \in Members(ever)
        BY <4>2
      <4> QED BY <1>2, <2>4, <4>1, <4>2, <4>3
    <3> QED BY <1>9, <3>1, <3>2
  <2>6. Distinct(content)' /\ Members(content)' \subseteq Members(ever)' /\ content' \in Seq(Element)
    BY <1>1, <2>1 DEF ContainerType
  <2> QED BY <1>1, <2>1, <2>3, <2>5, <2>6 DEF ContainerType
<1>10. CASE HashResize
  <2>1. /\ kind = "hash" /\ kind' = kind /\ table = 1 /\ table' = 2 /\ size' = size /\ content' = content
        /\ changes' = changes \cup {"resized"} /\ left' = left /\ item' = item
        /\ arrays' = <<[b \in DOMAIN arrays[1] |-> Null], Heads(content, 2)>>
        /\ next' = [e \in Element |-> IF e \in Members(content) THEN HashLinks(content, 2)[e] ELSE next[e]]
    BY <1>10 DEF HashResize, Java, Underway, Changed
  <2>2. content \in Seq(Element) /\ Members(content) \cup {Null} \subseteq Known
    BY DEF ContainerType, Known
  <2>3. PICK a \in Seq(Known) : a = [b \in DOMAIN arrays[1] |-> Null] /\ Len(a) = Buckets
    <3>1. DOMAIN arrays[1] = 1..Buckets /\ Buckets \in Nat /\ Null \in Known
      BY <1>2, <2>1 DEF ContainerType, Known
    <3>2. PICK a : a = [b \in 1..Buckets |-> Null]
      OBVIOUS
    <3>3. a \in [1..Buckets -> Known]
      BY <3>1, <3>2
    <3>4. a \in Seq(Known) /\ Len(a) = Buckets
      BY <3>1, <3>3
    <3> QED BY <3>1, <3>2, <3>4, Zenon
  <2>4. PICK h \in Seq(Known) : h = Heads(content, 2) /\ Len(h) = 2 * Buckets
    <3>1. 2 \in {1, 2}
      OBVIOUS
    <3>2. Heads(content, 2) \in Seq(Members(content) \cup {Null}) /\ Len(Heads(content, 2)) = 2 * Buckets
      BY <2>2, <3>1, HeadsFacts
    <3>3. Heads(content, 2) \in Seq(Known)
      BY <2>2, <3>2, SeqMono
    <3> QED BY <3>2, <3>3, Zenon
  <2>5. arrays' \in [1..2 -> Seq(Known)] /\ Len(arrays'[1]) = Buckets /\ Len(arrays'[2]) = 2 * Buckets
    BY <2>1, <2>3, <2>4, PairType
  <2>6. next' \in [Element -> Known]
    <3>1. HashLinks(content, 2) \in [Element -> Members(content) \cup {Null}]
      BY <2>2, LinksKnown
    <3>2. HashLinks(content, 2) \in [Element -> Known]
      BY <2>2, <3>1
    <3> QED BY <1>2, <2>1, <3>2
  <2>7. Distinct(content)' /\ Members(content)' \subseteq Members(ever)' /\ content' \in Seq(Element)
    BY <1>1, <2>1 DEF ContainerType
  <2> QED BY <1>1, <2>1, <2>5, <2>6, <2>7 DEF ContainerType
<1> QED BY <1>6, <1>7, <1>8, <1>9, <1>10

LEMMA ContentKnown ==
    ASSUME ContainerType
    PROVE  /\ content \in Seq(Element) /\ Members(content) \subseteq Members(ever)
           /\ \A S : S \cap Members(content) # {} => LastIn(content, S) \in Members(content)
           /\ content # <<>> => Last(content) \in Members(content)
<1>1. content \in Seq(Element) /\ Members(content) \subseteq Members(ever)
  BY DEF ContainerType
<1>2. ASSUME NEW S, S \cap Members(content) # {} PROVE LastIn(content, S) \in Members(content)
  BY <1>1, <1>2, LastInFacts DEF Members
<1>3. ASSUME content # <<>> PROVE Last(content) \in Members(content)
  <2>1. Len(content) \in 1..Len(content) /\ DOMAIN content = 1..Len(content)
    BY <1>1, <1>3
  <2> QED BY <2>1 DEF Last, Members
<1> QED BY <1>1, <1>2, <1>3

LEMMA LooseStep ==
    ASSUME ContainerType, Loose, Plain
    PROVE  Loose'
<1> USE ElementFacts
<1>1. /\ Members(content) \subseteq Members(ever)
      /\ \A S : S \cap Members(content) # {} => LastIn(content, S) \in Members(content)
      /\ content # <<>> => Last(content) \in Members(content)
  BY ContentKnown
<1>2. ASSUME NEW e \in Element \ Members(ever), ever' = Append(ever, e),
             ArrayAdd(e) \/ ArrayStore(e) \/ LinkLast(e) \/ HashPut(e) \/ TreePut(e)
      PROVE  Loose'
  <2>1. Members(ever)' = Members(ever) \cup {e}
    BY <1>2, EverGrows
  <2>2. CASE next' = next /\ left' = left
    BY <2>1, <2>2 DEF Loose
  <2>3. CASE \E p \in Members(content) : next' = [next EXCEPT ![p] = e] /\ left' = left
    BY <1>1, <2>1, <2>3 DEF Loose
  <2>4. CASE \E p \in Members(content) : left' = [left EXCEPT ![p] = e] /\ next' = next
    BY <1>1, <2>1, <2>4 DEF Loose
  <2>5. CASE ArrayAdd(e) \/ ArrayStore(e)
    BY <2>2, <2>5 DEF ArrayAdd, ArrayStore
  <2>6. CASE LinkLast(e)
    BY <1>1, <2>2, <2>3, <2>6 DEF LinkLast
  <2>7. CASE HashPut(e)
    BY <1>1, <2>2, <2>3, <2>7 DEF HashPut
  <2>8. CASE TreePut(e)
    BY <2>2, <2>3, <2>4, <2>8 DEF TreePut
  <2> QED BY <1>2, <2>5, <2>6, <2>7, <2>8
<1>3. ASSUME NEW e \in Element, ever' = ever, ListRemove(e) PROVE Loose'
  BY <1>3 DEF ListRemove, Loose
<1>4. ASSUME NEW e \in Element, ever' = ever, Unlink(e) PROVE Loose'
  <2>1. /\ e \in Members(ever) /\ left' = left
        /\ next' = [[f \in Element |-> IF next[f] = e THEN next[e] ELSE next[f]] EXCEPT ![e] = Null]
    BY <1>1, <1>4 DEF Unlink
  <2>2. \A x \in Element \ Members(ever) : next'[x] = Null
    BY <2>1 DEF Loose
  <2> QED BY <1>4, <2>1, <2>2 DEF Loose
<1>5. ASSUME NEW e \in Element, ever' = ever, HashRemove(e) PROVE Loose'
  <2>1. /\ left' = left
        /\ next' = [f \in Element |-> IF next[f] = e /\ f \in Members(content) THEN next[e] ELSE next[f]]
    BY <1>5 DEF HashRemove
  <2> QED BY <1>1, <1>5, <2>1 DEF Loose
<1>6. ASSUME NEW p \in Element, ever' = ever, RotateLeft(p) \/ RotateRight(p) PROVE Loose'
  <2>1. ASSUME NEW f \in [Element -> Known], NEW g \in [Element -> Known], f[p] # Null, p \in Members(ever),
               f[p] \in Members(ever), NEW x \in Element \ Members(ever), f[x] = Null, g[x] = Null
        PROVE  Rotated(p, f[p], f, g).down[x] = Null /\ Rotated(p, f[p], f, g).other[x] = Null
    <3>1. x # p /\ x # f[p] /\ Null # p
      BY <2>1
    <3> QED BY <2>1, <3>1 DEF Rotated
  <2>2. next \in [Element -> Known] /\ left \in [Element -> Known]
    BY DEF ContainerType
  <2>3. CASE RotateLeft(p)
    <3>1. next[p] # Null /\ next' = Rotated(p, next[p], next, left).down /\ left' = Rotated(p, next[p], next, left).other
      BY <2>3 DEF RotateLeft
    <3>2. p \in Members(ever) /\ next[p] \in Members(ever)
      BY <2>2, <3>1 DEF Loose, Known
    <3> QED BY <1>6, <2>1, <2>2, <3>1, <3>2 DEF Loose
  <2>4. CASE RotateRight(p)
    <3>1. left[p] # Null /\ left' = Rotated(p, left[p], left, next).down /\ next' = Rotated(p, left[p], left, next).other
      BY <2>4 DEF RotateRight
    <3>2. p \in Members(ever) /\ left[p] \in Members(ever)
      BY <2>2, <3>1 DEF Loose, Known
    <3> QED BY <1>6, <2>1, <2>2, <3>1, <3>2 DEF Loose
  <2> QED BY <1>6, <2>3, <2>4
<1>7. CASE HashResize /\ ever' = ever
  <2>1. /\ left' = left
        /\ next' = [e \in Element |-> IF e \in Members(content) THEN HashLinks(content, 2)[e] ELSE next[e]]
    BY <1>7 DEF HashResize
  <2> QED BY <1>1, <1>7, <2>1 DEF Loose
<1> QED BY <1>2, <1>3, <1>4, <1>5, <1>6, <1>7 DEF Plain

LEMMA PlainType ==
    ASSUME ContainerType, WalkType, Loose, Plain
    PROVE  ContainerType' /\ WalkType' /\ Loose'
<1>1. ContainerType'
  <2>1. CASE \E e \in Element \ Members(ever) :
                (ArrayAdd(e) \/ ArrayStore(e) \/ LinkLast(e) \/ HashPut(e) \/ TreePut(e)) /\ ever' = Append(ever, e)
    BY <2>1, AddType
  <2>2. CASE /\ ever' = ever
             /\ \/ \E e \in Element : ListRemove(e) \/ Unlink(e) \/ HashRemove(e) \/ RotateLeft(e) \/ RotateRight(e)
                \/ HashResize
    BY <2>2, ChangeType
  <2> QED BY <2>1, <2>2 DEF Plain
<1>2. Java
  BY DEF Plain, ArrayAdd, ArrayStore, LinkLast, HashPut, TreePut, ListRemove, Unlink, HashRemove,
         RotateLeft, RotateRight, HashResize
<1>3. Members(ever) \subseteq Members(ever)'
  <2>1. CASE \E e \in Element \ Members(ever) : ever' = Append(ever, e)
    BY <2>1, EverGrows
  <2>2. CASE ever' = ever
    BY <2>2
  <2> QED BY <2>1, <2>2 DEF Plain
<1>4. WalkType'
  BY <1>2, <1>3, WalkTypeKept DEF Java, Underway
<1> QED BY <1>1, <1>4, LooseStep

-----------------------------------------------------------------------------
(* Insertions, and the steps of an array's operations.                     *)

\* A change of one step neither begins nor ends a shift.
LEMMA PlainKeeps ==
    ASSUME Plain
    PROVE  shift = NoShift /\ shift' = shift /\ kind' = kind /\ \E what : changes' = changes \cup {what}
BY DEF Plain, ArrayAdd, ArrayStore, LinkLast, HashPut, TreePut, ListRemove, Unlink, HashRemove,
       RotateLeft, RotateRight, HashResize, Java, Underway, Changed, Lifted

LEMMA ShiftInit ==
    ASSUME NEW k \in Kind, NEW s \in Seq(Element), Filled(k, s), k \in {"array", "generic"} => Len(s) <= Buckets
    PROVE  ShiftType
<1>1. kind = k /\ shift = NoShift /\ table = 1 /\ size = Len(s) /\ arrays = <<ArrayOf(k, s), <<>>>>
  BY DEF Filled
<1>2. ASSUME k = "array" PROVE size <= Len(arrays[table]) /\ Len(arrays[table]) > 0
  <2>1. arrays[table] = Padded(s, Buckets) /\ Buckets \in Nat \ {0}
    BY <1>1, <1>2, CollectionWalkAssumption DEF ArrayOf
  <2>2. Len(Padded(s, Buckets)) = Buckets
    BY <2>1, PaddedFacts
  <2> QED BY <1>1, <1>2, <2>1, <2>2
<1> QED BY <1>1, <1>2 DEF ShiftType

\* A container and a shift that nothing touches.
LEMMA ShiftKept ==
    ASSUME ShiftType, shift' = shift, kind' = kind, changes' = changes, ever' = ever, size' = size,
           table' = table, arrays' = arrays
    PROVE  ShiftType'
<1>1. Known' = Known /\ Members(ever)' = Members(ever)
  BY DEF Known, Members
<1> QED BY <1>1 DEF ShiftType, Distinct, Members

LEMMA PlainShift ==
    ASSUME ContainerType, ShiftType, Plain
    PROVE  ShiftType'
<1>1. shift' = NoShift /\ kind' = kind
  BY PlainKeeps
<1>2. ASSUME kind = "array" PROVE (size <= Len(arrays[table]) /\ Len(arrays[table]) > 0)'
  <2>1. PICK e \in Element \ Members(ever) : ArrayAdd(e)
    BY <1>2 DEF Plain, ArrayStore, LinkLast, HashPut, TreePut, ListRemove, Unlink, HashRemove,
       RotateLeft, RotateRight, HashResize
  <2>2. /\ arrays \in [1..2 -> Seq(Known)] /\ table \in 1..2 /\ size = Len(content) /\ content \in Seq(Element)
    BY DEF ContainerType
  <2>3. PICK n \in Nat : n = Len(arrays[table])
    BY <2>2
  <2>4. size \in Nat /\ size' = size + 1 /\ size <= n /\ n > 0
    BY <1>2, <2>1, <2>2, <2>3 DEF ArrayAdd, ShiftType
  <2>5. CASE size < n /\ arrays' = [arrays EXCEPT ![table][size + 1] = e] /\ table' = table
    <3>1. size + 1 \in 1..Len(arrays[table]) /\ arrays \in [1..2 -> Seq(Known \cup {e})]
      BY <2>2, <2>3, <2>4, <2>5, SeqMono
    <3>2. Len(arrays'[table]) = Len(arrays[table])
      BY <2>2, <2>5, <3>1, SetPlace
    <3> QED BY <2>3, <2>4, <2>5, <3>2
  <2>6. CASE /\ size = n /\ table' = 2
             /\ arrays' = [arrays EXCEPT ![2] = Padded(Append(content, e), 2 * n)]
    <3>1. PICK p : p = Padded(Append(content, e), 2 * n)
      OBVIOUS
    <3>2. Append(content, e) \in Seq(Element) /\ 2 * n \in Nat
      BY <2>2
    <3>3. Len(p) = 2 * n
      BY <3>1, <3>2, PaddedFacts
    <3>4. arrays'[table'] = p
      BY <2>2, <2>6, <3>1
    <3> QED BY <2>4, <2>6, <3>3, <3>4
  <2> QED BY <2>1, <2>3, <2>5, <2>6 DEF ArrayAdd
<1> QED BY <1>1, <1>2 DEF ShiftType

\* add(int, E) begins; behind methods it is done at once.
LEMMA InsertType ==
    ASSUME ContainerType, ShiftType, NEW e \in Element \ Members(ever), ever' = Append(ever, e),
           ArrayInsert(e) \/ ListInsert(e)
    PROVE  ContainerType' /\ ShiftType'
<1> USE ElementFacts
<1>1. /\ ever' \in Seq(Element) /\ Distinct(ever)' /\ Members(ever)' = Members(ever) \cup {e}
      /\ Known' = Known \cup {e} /\ e \notin Members(content)
  BY EverGrows DEF Distinct
<1>2. PICK K : K = Known'
  OBVIOUS
<1>3. e \in K /\ Known \subseteq K /\ Seq(Known) \subseteq Seq(K)
  BY <1>1, <1>2, SeqMono
<1>4. /\ arrays \in [1..2 -> Seq(K)] /\ next \in [Element -> K] /\ left \in [Element -> K] /\ table \in 1..2
      /\ content \in Seq(Element) /\ Distinct(content) /\ size = Len(content)
      /\ Members(content) \subseteq Members(ever) /\ Len(arrays[table]) \in Nat
  <2>1. /\ arrays \in [1..2 -> Seq(Known)] /\ table \in {1, 2}
        /\ next \in [Element -> Known] /\ left \in [Element -> Known]
        /\ content \in Seq(Element) /\ Distinct(content) /\ size = Len(content)
        /\ Members(content) \subseteq Members(ever)
    BY DEF ContainerType
  <2>2. arrays \in [1..2 -> Seq(K)]
    BY <1>3, <2>1
  <2>3. next \in [Element -> K] /\ left \in [Element -> K]
    BY <1>3, <2>1
  <2> QED BY <2>1, <2>2, <2>3
<1>5. ASSUME NEW c, NEW i \in DOMAIN content, c = InsertAt(content, i, e)
      PROVE  /\ c \in Seq(Element) /\ Len(c) = Len(content) + 1 /\ Distinct(c)
             /\ Members(c) = Members(content) \cup {e}
  <2>1. c \in Seq(Element) /\ Len(c) = Len(content) + 1 /\ Members(c) = Members(content) \cup {e}
    BY <1>4, <1>5, InsertFacts
  <2>2. Distinct(c)
    BY <1>1, <1>4, <1>5, DistinctInsert
  <2> QED BY <2>1, <2>2
<1>6. ASSUME NEW s \in Seq(Element), Members(s) \subseteq Members(ever) \cup {e}, NEW n \in Nat
      PROVE  Padded(s, n) \in Seq(K) /\ Len(Padded(s, n)) = n
  <2>1. s \in Seq(Members(ever) \cup {e})
    BY <1>6, SeqOfMembers
  <2> QED BY <1>1, <1>2, <1>6, <2>1, PaddedFacts DEF Known
<1>7. CASE ListInsert(e)
  <2>1. /\ kind = "generic" /\ kind' = kind /\ table' = table /\ size' = size + 1
        /\ changes' = changes \cup {"shifted"} /\ next' = next /\ left' = left /\ item' = item
        /\ shift = NoShift /\ shift' = shift
    BY <1>7 DEF ListInsert, Java, Underway, Changed
  <2>2. PICK i \in DOMAIN content :
           /\ content' = InsertAt(content, i, e)
           /\ arrays' = [arrays EXCEPT ![table] = Padded(InsertAt(content, i, e), Len(arrays[table]))]
    BY <1>7 DEF ListInsert
  <2>3. PICK c : c = InsertAt(content, i, e)
    OBVIOUS
  <2>4. c \in Seq(Element) /\ Len(c) = Len(content) + 1 /\ Distinct(c) /\ Members(c) = Members(content) \cup {e}
    BY <1>5, <2>3
  <2>5. PICK p \in Seq(K) : p = Padded(c, Len(arrays[table]))
    <3>1. Members(c) \subseteq Members(ever) \cup {e}
      BY <1>4, <2>4
    <3> QED BY <1>4, <1>6, <2>4, <3>1
  <2>6. arrays' \in [1..2 -> Seq(K)]
    <3>1. arrays' = [arrays EXCEPT ![table] = p]
      BY <2>2, <2>3, <2>5
    <3> QED BY <1>4, <3>1, SetArray
  <2>7. content' = c
    BY <2>2, <2>3
  <2>8. /\ content' \in Seq(Element) /\ Distinct(content)' /\ Members(content)' \subseteq Members(ever)'
        /\ size' = Len(content)'
    <3>1. Members(content)' = Members(content) \cup {e} /\ Distinct(content)' /\ Len(content)' = Len(content) + 1
      BY <2>4, <2>7, Zenon
    <3> QED BY <1>1, <1>4, <2>1, <2>4, <2>7, <3>1
  <2>9. ContainerType'
    BY <1>1, <1>2, <1>4, <2>1, <2>6, <2>8 DEF ContainerType
  <2>10. ShiftType'
    BY <2>1 DEF ShiftType
  <2> QED BY <2>9, <2>10
<1>8. CASE ArrayInsert(e)
  <2>1. /\ kind = "array" /\ kind' = kind /\ size' = size /\ content' = content
        /\ changes' = changes \cup {"shifted"} /\ next' = next /\ left' = left /\ item' = item
    BY <1>8 DEF ArrayInsert, Underway, Changed
  <2>2. PICK i \in DOMAIN content :
           shift' = [elem |-> e, gap |-> size + 1, to |-> i, list |-> InsertAt(content, i, e)]
    BY <1>8 DEF ArrayInsert
  <2>3. PICK c : c = InsertAt(content, i, e)
    OBVIOUS
  <2>4. c \in Seq(Element) /\ Len(c) = Len(content) + 1 /\ Distinct(c) /\ Members(c) = Members(content) \cup {e}
    BY <1>5, <2>3
  <2>5. PICK n \in Nat : n = Len(arrays[table])
    BY <1>4
  <2>6. size <= n /\ n > 0 /\ size \in Nat
    BY <1>4, <2>1, <2>5 DEF ShiftType
  <2>7. /\ arrays' \in [1..2 -> Seq(K)] /\ table' \in {1, 2} /\ Len(arrays'[table']) \in Nat
        /\ size + 1 <= Len(arrays'[table'])
    <3>1. CASE size < n /\ arrays' = arrays /\ table' = table
      <4>1. Len(arrays'[table']) = n
        BY <2>5, <3>1
      <4> QED BY <1>4, <2>5, <2>6, <3>1, <4>1
    <3>2. CASE size = n /\ table' = 2 /\ arrays' = [arrays EXCEPT ![2] = Padded(content, 2 * n)]
      <4>1. PICK p \in Seq(K) : p = Padded(content, 2 * n) /\ Len(p) = 2 * n
        <5>1. 2 * n \in Nat /\ Members(content) \subseteq Members(ever) \cup {e}
          BY <1>4
        <5> QED BY <1>4, <1>6, <5>1
      <4>2. arrays' \in [1..2 -> Seq(K)] /\ arrays'[2] = p
        BY <1>4, <3>2, <4>1, SetArray
      <4> QED BY <2>6, <3>2, <4>1, <4>2
    <3> QED BY <1>8, <2>5, <3>1, <3>2 DEF ArrayInsert
  <2>8. Distinct(content)' /\ Members(content)' \subseteq Members(ever)' /\ size' = Len(content)' /\ content' \in Seq(Element)
    <3>1. Members(content)' = Members(content) /\ Distinct(content)' = Distinct(content) /\ Len(content)' = Len(content)
      BY <2>1, Zenon
    <3> QED BY <1>1, <1>4, <2>1, <3>1
  <2>9. ContainerType'
    BY <1>1, <1>2, <1>4, <2>1, <2>7, <2>8 DEF ContainerType
  <2>10. PICK m \in Nat : m = Len(arrays'[table'])
    BY <2>7
  <2>11. PICK h : h = shift'
    OBVIOUS
  <2>12. h = [elem |-> e, gap |-> size + 1, to |-> i, list |-> c]
    BY <2>2, <2>3, <2>11
  <2>13. size + 1 \in 1..m /\ i \in 1..m /\ i \in Nat /\ size + 1 \in Nat
    BY <1>4, <2>6, <2>7, <2>10
  <2>14. /\ h \in [elem : K, gap : Nat, to : Nat, list : Seq(Element)]
         /\ h.gap = size + 1 /\ h.to = i /\ h.list = c
    BY <1>3, <2>4, <2>12, <2>13
  <2>15. /\ h.gap \in 1..m /\ h.to \in 1..m /\ Distinct(h.list) /\ Members(h.list) \subseteq Members(ever) \cup {e}
         /\ Len(h.list) <= m
    <3>1. Distinct(h.list) /\ Members(h.list) = Members(content) \cup {e} /\ Len(h.list) = size + 1
      BY <1>4, <2>4, <2>14, Zenon
    <3> QED BY <1>4, <2>7, <2>10, <2>13, <2>14, <3>1
  <2>16. /\ shift' \in [elem : Known', gap : Nat, to : Nat, list : Seq(Element)]
         /\ shift'.gap \in 1..m /\ shift'.to \in 1..m /\ Distinct(shift.list)'
         /\ Members(shift.list)' \subseteq Members(ever)' /\ Len(shift.list)' <= m
    <3>1. Distinct(shift.list)' = Distinct(h.list) /\ Members(shift.list)' = Members(h.list)
          /\ Len(shift.list)' = Len(h.list)
      BY <2>11, Zenon
    <3> QED BY <1>1, <1>2, <2>11, <2>14, <2>15, <3>1
  <2>17. (size <= Len(arrays[table]) /\ Len(arrays[table]) > 0)'
    BY <2>1, <2>6, <2>7, <2>10
  <2> QED BY <2>1, <2>9, <2>10, <2>16, <2>17 DEF ShiftType
<1> QED BY <1>7, <1>8

\* remove() begins, an element moves, or the last store is done.
LEMMA ShiftingType ==
    ASSUME ContainerType, ShiftType, ever' = ever, (\E e \in Element : ArrayRemove(e)) \/ ShiftOne \/ ShiftEnd
    PROVE  ContainerType' /\ ShiftType' /\ kind' = kind /\ "shifted" \in changes'
<1> USE ElementFacts
<1>1. /\ ever' \in Seq(Element) /\ Distinct(ever)' /\ Members(ever)' = Members(ever) /\ Known' = Known
  BY DEF ContainerType, Known, Distinct, Members
<1>2. /\ arrays \in [1..2 -> Seq(Known)] /\ next \in [Element -> Known] /\ left \in [Element -> Known]
      /\ table \in 1..2 /\ content \in Seq(Element) /\ Distinct(content) /\ size = Len(content)
      /\ Members(content) \subseteq Members(ever)
  BY DEF ContainerType
<1>3. PICK n \in Nat : n = Len(arrays[table])
  BY <1>2
<1>4. ASSUME NEW e \in Element, ArrayRemove(e)
      PROVE  ContainerType' /\ ShiftType' /\ kind' = kind /\ "shifted" \in changes'
  <2>1. /\ kind = "array" /\ kind' = kind /\ arrays' = arrays /\ table' = table /\ size' = size
        /\ content' = content /\ changes' = changes \cup {"shifted"}
        /\ next' = next /\ left' = left /\ item' = item /\ e \in Members(content)
        /\ shift' = [elem |-> Null, gap |-> Position(content, e), to |-> size, list |-> Without(content, e)]
    BY <1>4 DEF ArrayRemove, Underway, Changed
  <2>2. Distinct(content)' /\ Members(content)' \subseteq Members(ever)' /\ size' = Len(content)' /\ content' \in Seq(Element)
    <3>1. Members(content)' = Members(content) /\ Distinct(content)' = Distinct(content) /\ Len(content)' = Len(content)
      BY <2>1, Zenon
    <3> QED BY <1>1, <1>2, <2>1, <3>1
  <2>3. ContainerType'
    BY <1>1, <2>1, <2>2 DEF ContainerType
  <2>4. PICK c : c = Without(content, e)
    OBVIOUS
  <2>5. c \in Seq(Element) /\ Len(c) = Len(content) - 1 /\ Distinct(c) /\ Members(c) \subseteq Members(ever)
    BY <1>2, <2>1, <2>4, WithoutFacts, DistinctWithout
  <2>6. PICK k \in DOMAIN content : k = Position(content, e)
    BY <1>2, <2>1, PositionFacts
  <2>7. PICK h : h = shift' /\ h = [elem |-> Null, gap |-> k, to |-> size, list |-> c]
    BY <2>1, <2>4, <2>6
  <2>8. k \in 1..n /\ size \in 1..n /\ k \in Nat /\ size \in Nat /\ size <= n /\ n > 0
    BY <1>2, <1>3, <2>1 DEF ShiftType
  <2>9. /\ h \in [elem : Known, gap : Nat, to : Nat, list : Seq(Element)]
        /\ h.gap \in 1..n /\ h.to \in 1..n /\ h.list = c
    BY <2>5, <2>7, <2>8 DEF Known
  <2>10. Distinct(h.list) /\ Members(h.list) \subseteq Members(ever) /\ Len(h.list) <= n
    <3>1. Distinct(h.list) /\ Members(h.list) = Members(c) /\ Len(h.list) = Len(content) - 1
      BY <2>5, <2>9, Zenon
    <3> QED BY <1>2, <2>5, <2>8, <3>1
  <2>11. Distinct(shift.list)' /\ Members(shift.list)' \subseteq Members(ever)' /\ Len(shift.list)' <= n
    <3>1. Distinct(shift.list)' = Distinct(h.list) /\ Members(shift.list)' = Members(h.list)
          /\ Len(shift.list)' = Len(h.list)
      BY <2>7, Zenon
    <3> QED BY <1>1, <2>10, <3>1
  <2>12. n = Len(arrays'[table'])
    BY <1>3, <2>1
  <2> QED BY <1>1, <2>1, <2>3, <2>7, <2>8, <2>9, <2>11, <2>12 DEF ShiftType
<1>5. ASSUME shift # NoShift
      PROVE  /\ kind = "array" /\ "shifted" \in changes
             /\ shift \in [elem : Known, gap : Nat, to : Nat, list : Seq(Element)]
             /\ shift.gap \in 1..n /\ shift.to \in 1..n /\ Distinct(shift.list)
             /\ Members(shift.list) \subseteq Members(ever) /\ Len(shift.list) <= n /\ n > 0 /\ size <= n
  BY <1>3, <1>5 DEF ShiftType
<1>6. ASSUME NEW i \in 1..n, NEW x \in Known, arrays' = [arrays EXCEPT ![table][i] = x], table' = table
      PROVE  arrays' \in [1..2 -> Seq(Known)] /\ Len(arrays'[table']) = n
  BY <1>2, <1>3, <1>6, SetPlace
<1>7. ASSUME ShiftOne PROVE ContainerType' /\ ShiftType' /\ kind' = kind /\ "shifted" \in changes'
  <2>1. shift # NoShift
    BY <1>7 DEF ShiftOne, NoShift
  <2>2. PICK i \in 1..n : i = IF shift.gap > shift.to THEN shift.gap - 1 ELSE shift.gap + 1
    <3>1. PICK g \in 1..n, t \in 1..n : g = shift.gap /\ t = shift.to
      BY <1>5, <2>1
    <3>2. g # t
      BY <1>7, <3>1 DEF ShiftOne
    <3> QED BY <3>1, <3>2
  <2>3. PICK x \in Known : x = arrays[table][i]
    BY <1>2, <1>3
  <2>4. /\ kind' = kind /\ table' = table /\ size' = size /\ content' = content /\ changes' = changes
        /\ next' = next /\ left' = left /\ item' = item
        /\ arrays' = [arrays EXCEPT ![table][shift.gap] = x] /\ shift' = [shift EXCEPT !.gap = i]
    BY <1>7, <2>2, <2>3 DEF ShiftOne, Underway
  <2>5. arrays' \in [1..2 -> Seq(Known)] /\ Len(arrays'[table']) = n
    <3>1. PICK g \in 1..n : g = shift.gap
      BY <1>5, <2>1
    <3> QED BY <1>6, <2>4, <3>1
  <2>6. Distinct(content)' /\ Members(content)' \subseteq Members(ever)' /\ size' = Len(content)' /\ content' \in Seq(Element)
    <3>1. Members(content)' = Members(content) /\ Distinct(content)' = Distinct(content) /\ Len(content)' = Len(content)
      BY <2>4, Zenon
    <3> QED BY <1>1, <1>2, <2>4, <3>1
  <2>7. ContainerType'
    BY <1>1, <1>5, <2>1, <2>4, <2>5, <2>6 DEF ContainerType
  <2>8. PICK h : h = shift' /\ h = [shift EXCEPT !.gap = i]
    BY <2>4
  <2>9. /\ h \in [elem : Known, gap : Nat, to : Nat, list : Seq(Element)]
        /\ h.gap \in 1..n /\ h.to \in 1..n /\ h.list = shift.list
    BY <1>5, <2>1, <2>8
  <2>10. Distinct(shift.list)' /\ Members(shift.list)' \subseteq Members(ever)' /\ Len(shift.list)' <= n
    <3>1. Distinct(shift.list)' = Distinct(shift.list) /\ Members(shift.list)' = Members(shift.list)
          /\ Len(shift.list)' = Len(shift.list)
      BY <2>8, <2>9, Zenon
    <3> QED BY <1>1, <1>5, <2>1, <3>1
  <2> QED BY <1>1, <1>5, <2>1, <2>4, <2>5, <2>7, <2>8, <2>9, <2>10 DEF ShiftType
<1>8. ASSUME ShiftEnd PROVE ContainerType' /\ ShiftType' /\ kind' = kind /\ "shifted" \in changes'
  <2>1. /\ shift # NoShift /\ shift' = NoShift
        /\ kind' = kind /\ table' = table /\ size' = Len(shift.list) /\ content' = shift.list /\ changes' = changes
        /\ next' = next /\ left' = left /\ item' = item
        /\ arrays' = [arrays EXCEPT ![table][shift.gap] = shift.elem]
    BY <1>8 DEF ShiftEnd, Underway
  <2>2. arrays' \in [1..2 -> Seq(Known)] /\ Len(arrays'[table']) = n
    <3>1. PICK g \in 1..n, x \in Known : g = shift.gap /\ x = shift.elem
      BY <1>5, <2>1
    <3> QED BY <1>6, <2>1, <3>1
  <2>3. Distinct(content)' /\ Members(content)' \subseteq Members(ever)' /\ size' = Len(content)' /\ content' \in Seq(Element)
    <3>1. Members(content)' = Members(shift.list) /\ Distinct(content)' = Distinct(shift.list)
          /\ Len(content)' = Len(shift.list)
      BY <2>1, Zenon
    <3> QED BY <1>1, <1>5, <2>1, <3>1
  <2>4. ContainerType'
    BY <1>1, <1>5, <2>1, <2>2, <2>3 DEF ContainerType
  <2> QED BY <1>5, <2>1, <2>2, <2>4 DEF ShiftType
<1> QED BY <1>4, <1>7, <1>8

\* Nothing but the array, its size and the list changes.
LEMMA ShiftsType ==
    ASSUME ContainerType, ShiftType, WalkType, Loose, Shifts
    PROVE  /\ ContainerType' /\ ShiftType' /\ WalkType' /\ Loose'
           /\ kind' = kind /\ kind \in {"array", "generic"} /\ "shifted" \in changes'
           /\ walk' = walk /\ walk.pc # "begin"
<1>1. /\ walk' = walk /\ result' = result /\ initial' = initial /\ kind' = kind /\ next' = next /\ left' = left
      /\ walk.pc # "begin"
  BY DEF Shifts, ArrayInsert, ListInsert, ArrayRemove, ShiftOne, ShiftEnd, Java, Underway, Running
<1>2. CASE \E e \in Element \ Members(ever) : (ArrayInsert(e) \/ ListInsert(e)) /\ ever' = Append(ever, e)
  <2>1. PICK e \in Element \ Members(ever) : (ArrayInsert(e) \/ ListInsert(e)) /\ ever' = Append(ever, e)
    BY <1>2
  <2>2. kind \in {"array", "generic"} /\ "shifted" \in changes'
    BY <2>1 DEF ArrayInsert, ListInsert, Changed
  <2>3. Members(ever)' = Members(ever) \cup {e}
    BY <2>1, EverGrows
  <2>4. Loose' /\ Members(ever) \subseteq Members(ever)'
    BY <1>1, <2>3 DEF Loose
  <2>5. ContainerType' /\ ShiftType'
    BY <2>1, InsertType
  <2>6. WalkType'
    BY <1>1, <2>4, WalkTypeKept
  <2> QED BY <1>1, <2>2, <2>4, <2>5, <2>6
<1>3. CASE ever' = ever /\ ((\E e \in Element : ArrayRemove(e)) \/ ShiftOne \/ ShiftEnd)
  <2>1. Members(ever)' = Members(ever)
    BY <1>3 DEF Members
  <2>2. ContainerType' /\ ShiftType' /\ "shifted" \in changes'
    BY <1>3, ShiftingType
  <2>3. Loose' /\ Members(ever) \subseteq Members(ever)'
    BY <1>1, <2>1 DEF Loose
  <2>4. WalkType'
    BY <1>1, <2>3, WalkTypeKept
  <2>5. kind \in {"array", "generic"}
    <3>1. ShiftOne \/ ShiftEnd => shift # NoShift
      BY DEF ShiftOne, ShiftEnd, NoShift
    <3> QED BY <1>3, <3>1 DEF ArrayRemove, ShiftType
  <2> QED BY <1>1, <2>2, <2>3, <2>4, <2>5
<1> QED BY <1>2, <1>3 DEF Shifts

\* LinkedList.linkBefore().
LEMMA LinksType ==
    ASSUME ContainerType, ShiftType, WalkType, Loose, Links
    PROVE  /\ ContainerType' /\ ShiftType' /\ WalkType' /\ Loose'
           /\ kind' = kind /\ kind = "linked" /\ "inserted" \in changes' /\ changes \subseteq changes'
           /\ walk' = walk /\ walk.pc # "begin"
<1> USE ElementFacts
<1>1. PICK e \in Element \ Members(ever), i \in DOMAIN content : LinkBefore(e, i)
  BY DEF Links
<1>2. /\ kind = "linked" /\ kind' = kind /\ table' = table /\ size' = size + 1 /\ left' = left /\ item' = item
      /\ changes' = changes \cup {"inserted"} /\ content' = InsertAt(content, i, e)
      /\ shift = NoShift /\ shift' = shift
      /\ walk' = walk /\ result' = result /\ initial' = initial /\ walk.pc # "begin"
      /\ ever' = InsertAt(ever, Position(ever, content[i]), e)
  BY <1>1 DEF LinkBefore, Java, Underway, Running, Changed
<1>3. /\ ever \in Seq(Element) /\ Distinct(ever) /\ content \in Seq(Element) /\ Distinct(content)
      /\ size = Len(content) /\ Members(content) \subseteq Members(ever) /\ e \notin Members(content)
      /\ arrays \in [1..2 -> Seq(Known)] /\ next \in [Element -> Known] /\ left \in [Element -> Known]
  BY DEF ContainerType
<1>4. PICK p \in DOMAIN ever : p = Position(ever, content[i])
  <2>1. content[i] \in Members(ever)
    BY <1>3 DEF Members
  <2> QED BY <1>3, <2>1, PositionFacts
<1>5. PICK E : E = ever' /\ E = InsertAt(ever, p, e)
  BY <1>2, <1>4
<1>6. E \in Seq(Element) /\ Members(E) = Members(ever) \cup {e} /\ Distinct(E)
  BY <1>3, <1>5, InsertFacts, DistinctInsert
<1>7. PICK c : c = content' /\ c = InsertAt(content, i, e)
  BY <1>2
<1>8. /\ c \in Seq(Element) /\ Len(c) = Len(content) + 1 /\ Members(c) = Members(content) \cup {e} /\ Distinct(c)
  <2>1. c \in Seq(Element) /\ Len(c) = Len(content) + 1 /\ Members(c) = Members(content) \cup {e}
    <3>1. content \in Seq(Element) /\ i \in DOMAIN content /\ e \in Element
      BY <1>3
    <3>2. /\ InsertAt(content, i, e) \in Seq(Element) /\ Len(InsertAt(content, i, e)) = Len(content) + 1
          /\ Members(InsertAt(content, i, e)) = Members(content) \cup {e}
      BY <3>1, InsertFacts, Zenon
    <3> QED BY <1>7, <3>2, Zenon
  <2>2. Distinct(c)
    BY <1>3, <1>7, DistinctInsert
  <2> QED BY <2>1, <2>2
<1>9. /\ ever' \in Seq(Element) /\ Distinct(ever)' /\ Members(ever)' = Members(ever) \cup {e}
      /\ Known' = Known \cup {e}
  <2>1. Distinct(ever)' /\ Members(ever)' = Members(E)
    BY <1>5, <1>6, Zenon
  <2> QED BY <1>5, <1>6, <2>1 DEF Known
<1>10. /\ content' \in Seq(Element) /\ Distinct(content)' /\ Members(content)' \subseteq Members(ever)'
       /\ size' = Len(content)'
  <2>1. Distinct(content)' /\ Members(content)' = Members(c) /\ Len(content)' = Len(c)
    BY <1>7, <1>8, Zenon
  <2> QED BY <1>2, <1>3, <1>7, <1>8, <1>9, <2>1
<1>11. PICK K : K = Known'
  OBVIOUS
<1>12. /\ e \in K /\ Known \subseteq K /\ content[i] \in K /\ content[i] \in Members(ever)
       /\ arrays \in [1..2 -> Seq(K)] /\ next \in [Element -> K] /\ left \in [Element -> K]
  <2>1. content[i] \in Members(ever)
    BY <1>3 DEF Members
  <2>2. e \in K /\ Known \subseteq K /\ Seq(Known) \subseteq Seq(K)
    BY <1>9, <1>11, SeqMono
  <2>3. arrays \in [1..2 -> Seq(K)]
    BY <1>3, <2>2
  <2>4. next \in [Element -> K] /\ left \in [Element -> K]
    BY <1>3, <2>2
  <2> QED BY <2>1, <2>2, <2>3, <2>4 DEF Known
<1>13. arrays' \in [1..2 -> Seq(K)] /\ Len(arrays'[1]) = 1
  <2>1. CASE arrays' = arrays
    BY <1>2, <1>12, <2>1 DEF ContainerType
  <2>2. CASE arrays' = [arrays EXCEPT ![1] = <<e>>]
    <3>1. PICK a : a = <<e>>
      OBVIOUS
    <3>2. a \in Seq(K) /\ Len(a) = 1
      BY <1>12, <3>1
    <3> QED BY <1>12, <2>2, <3>1, <3>2, SetArray
  <2> QED BY <1>1, <2>1, <2>2 DEF LinkBefore
<1>14. next' \in [Element -> K] /\ \A x \in Element \ (Members(ever) \cup {e}) : next'[x] = next[x]
  <2>1. CASE next' = [next EXCEPT ![e] = content[i]]
    BY <1>12, <2>1
  <2>2. CASE i # 1 /\ next' = [next EXCEPT ![content[i - 1]] = e, ![e] = content[i]]
    <3>1. i - 1 \in DOMAIN content
      BY <1>3, <2>2
    <3>2. content[i - 1] \in Members(ever)
      BY <1>3, <3>1 DEF Members
    <3>3. PICK y \in Members(ever) : y = content[i - 1]
      BY <3>2
    <3>4. PICK f : f = [next EXCEPT ![y] = e]
      OBVIOUS
    <3>5. f \in [Element -> K] /\ \A x \in Element \ {y} : f[x] = next[x]
      BY <1>12, <3>4
    <3>6. next' = [f EXCEPT ![e] = content[i]]
      BY <2>2, <3>3, <3>4
    <3> QED BY <1>12, <3>3, <3>5, <3>6
  <2> QED BY <1>1, <2>1, <2>2 DEF LinkBefore
<1>15. ContainerType'
  BY <1>2, <1>9, <1>10, <1>11, <1>12, <1>13, <1>14 DEF ContainerType
<1>16. Loose' /\ ShiftType' /\ Members(ever) \subseteq Members(ever)'
  BY <1>2, <1>9, <1>14 DEF Loose, ShiftType
<1>17. WalkType'
  BY <1>2, <1>16, WalkTypeKept
<1> QED BY <1>2, <1>15, <1>16, <1>17

LEMMA StepKeeps ==
    ASSUME ContainerType, Loose, Step
    PROVE  /\ ContainerType' /\ Loose' /\ Known' = Known /\ Members(ever)' = Members(ever)
           /\ kind' = kind /\ initial' = initial
<1>1. /\ kind' = kind /\ arrays' = arrays /\ table' = table /\ size' = size /\ next' = next /\ left' = left
      /\ item' = item /\ content' = content /\ initial' = initial /\ ever' = ever /\ changes' = changes
  BY DEF Step, container
<1>2. Known' = Known /\ Members(ever)' = Members(ever) /\ Members(content)' = Members(content)
      /\ Distinct(ever)' = Distinct(ever) /\ Distinct(content)' = Distinct(content) /\ Len(content)' = Len(content)
  BY <1>1 DEF Known
<1> QED BY <1>1, <1>2 DEF ContainerType, Loose

LEMMA FrontFacts ==
    ASSUME NEW T, NEW s \in Seq(T), s # <<>>
    PROVE  /\ Front(s) \in Seq(T) /\ Len(Front(s)) = Len(s) - 1 /\ \A i \in 1..(Len(s) - 1) : Front(s)[i] = s[i]
           /\ Last(s) \in T /\ Last(s) = s[Len(s)] /\ Len(s) \in Nat \ {0}
<1>1. PICK n \in Nat \ {0} : n = Len(s)
  OBVIOUS
<1>2. PICK f : f = SubSeq(s, 1, n - 1)
  OBVIOUS
<1>3. 1 \in 1..(n + 1) /\ n - 1 \in 0..n /\ n \in DOMAIN s /\ s[n] \in T
  BY <1>1
<1>4. f \in Seq(T) /\ Len(f) = n - 1 /\ \A i \in 1..(n - 1) : f[i] = s[i]
  BY <1>1, <1>2, <1>3
<1>5. Front(s) = f /\ Last(s) = s[n]
  BY <1>1, <1>2 DEF Front, Last
<1> QED BY <1>1, <1>3, <1>4, <1>5

LEMMA PushType ==
    ASSUME NEW T, NEW r \in Seq(T), NEW x \in T
    PROVE  Append(r, x) \in Seq(T)
OBVIOUS

LEMMA ElementKnown ==
    ASSUME NEW T, NEW a \in Seq(T), NEW i \in Nat
    PROVE  GetArrayElement(a, i) \in T \cup {Null}
BY DEF GetArrayElement

LEMMA WalkStepType ==
    ASSUME ContainerType, WalkType, Loose, Walk
    PROVE  ContainerType' /\ WalkType' /\ Loose'
<1> USE ElementFacts
<1>1. Step
  BY DEF Walk, BeginWalk, ReadFields, ReadElement, ReadItem, ReadNext, ReadBucket, ReadNode, Spine, Visit
<1>2. /\ ContainerType' /\ Loose' /\ Known' = Known /\ Members(ever)' = Members(ever)
      /\ kind' = kind /\ initial' = initial
  BY <1>1, StepKeeps
<1> DEFINE W == [pc : Stages(kind), n : Nat, arr : {1, 2}, index : Nat, node : Known,
                 stack : Seq(Members(ever)), count : Nat]
<1>3. SUFFICES walk' \in W /\ (walk'.pc \in {"item", "next"} => walk'.node # Null) /\ result' \in Seq(Known)
  <2>1. initial' \subseteq Members(ever)' /\ Stages(kind') = Stages(kind)
    BY <1>2 DEF WalkType
  <2> QED BY <1>2, <2>1 DEF WalkType
<1>4. walk \in W /\ result \in Seq(Known) /\ (walk.pc \in {"item", "next"} => walk.node # Null)
  BY DEF WalkType
<1>5. /\ arrays \in [1..2 -> Seq(Known)] /\ arrays[1] \in Seq(Known) /\ table \in {1, 2}
      /\ arrays[table] \in Seq(Known) /\ arrays[walk.arr] \in Seq(Known)
      /\ next \in [Element -> Known] /\ left \in [Element -> Known]
  <2>1. /\ arrays \in [1..2 -> Seq(Known)] /\ table \in {1, 2}
        /\ next \in [Element -> Known] /\ left \in [Element -> Known]
    BY DEF ContainerType
  <2>2. walk.arr \in {1, 2}
    BY <1>4
  <2>3. \A i \in {1, 2} : arrays[i] \in Seq(Known)
    BY <2>1
  <2> QED BY <2>1, <2>2, <2>3
<1>6. Known \subseteq Members(ever) \cup {Null} /\ Members(ever) \subseteq Element /\ Members(ever) \subseteq Known
  BY MembersIn DEF ContainerType, Known
<1>7. kind \in {"array", "linked", "hash", "tree", "generic", "raw"} /\ "done" \in Stages(kind)
  BY DEF ContainerType, Stages
<1>8. CASE BeginWalk
  <2>1. result' = result
    BY <1>8 DEF BeginWalk
  <2>2. CASE kind = "hash"
    <3>1. walk' = [walk EXCEPT !.arr = table, !.n = Len(arrays[table]), !.pc = "bucket"]
      BY <1>8, <2>2 DEF BeginWalk
    <3>2. "bucket" \in Stages(kind) /\ Len(arrays[table]) \in Nat
      BY <1>5, <2>2 DEF Stages
    <3>3. walk' \in W /\ walk'.pc = "bucket"
      BY <1>4, <1>5, <3>1, <3>2
    <3> QED BY <1>4, <2>1, <3>3
  <2>3. CASE kind = "tree"
    <3>1. arrays[1][1] \in Known
      BY <1>5, <2>3 DEF ContainerType
    <3>2. PICK x \in Known, l \in Stages(kind) : x = arrays[1][1] /\ l = GoOn(arrays[1][1] # Null, "spine") /\ l \in {"spine", "done"}
      BY <2>3, <3>1 DEF GoOn, Stages
    <3>3. walk' = [walk EXCEPT !.node = x, !.pc = l]
      BY <1>8, <2>3, <3>2 DEF BeginWalk
    <3>4. walk' \in W /\ walk'.pc = l
      BY <1>4, <3>3
    <3> QED BY <1>4, <2>1, <3>2, <3>4
  <2>4. CASE kind \notin {"hash", "tree"}
    <3>1. size \in Nat
      BY DEF ContainerType
    <3>2. PICK l \in Stages(kind) :
             /\ l = GoOn(size > 0, IF kind \in {"array", "linked"} THEN "fields" ELSE "element")
             /\ l \in {"fields", "element", "done"}
      BY <1>7, <2>4 DEF GoOn, Stages
    <3>3. walk' = [walk EXCEPT !.n = size, !.pc = l]
      BY <1>8, <2>4, <3>2 DEF BeginWalk
    <3>4. walk' \in W /\ walk'.pc = l
      BY <1>4, <3>1, <3>3
    <3> QED BY <1>4, <2>1, <3>2, <3>4
  <2> QED BY <2>2, <2>3, <2>4
<1>9. CASE ReadFields
  <2>1. result' = result /\ walk.pc = "fields" /\ kind \in {"array", "linked"}
    BY <1>4, <1>7, <1>9 DEF ReadFields, Stages
  <2>2. CASE kind = "array"
    <3>1. walk' = [walk EXCEPT !.arr = table, !.pc = "element"] /\ "element" \in Stages(kind)
      BY <1>9, <2>2 DEF ReadFields, Stages
    <3>2. walk' \in W /\ walk'.pc = "element"
      BY <1>4, <1>5, <3>1
    <3> QED BY <1>4, <2>1, <3>2
  <2>3. CASE kind = "linked"
    <3>1. arrays[1][1] \in Known
      BY <1>5, <2>3 DEF ContainerType
    <3>2. PICK x \in Known, l \in Stages(kind) : x = arrays[1][1] /\ l = GoOn(arrays[1][1] # Null, "item") /\ (l = "item" => x # Null) /\ l \in {"item", "done"}
      BY <2>3, <3>1 DEF GoOn, Stages
    <3>3. walk' = [walk EXCEPT !.node = x, !.pc = l]
      BY <1>9, <2>3, <3>2 DEF ReadFields
    <3>4. walk' \in W /\ walk'.pc = l /\ walk'.node = x
      BY <1>4, <3>3
    <3> QED BY <1>4, <2>1, <3>2, <3>4
  <2> QED BY <2>1, <2>2, <2>3
<1>10. CASE ReadElement
  <2>1. walk.pc = "element"
    BY <1>10 DEF ReadElement
  <2>2. PICK x : /\ x = IF kind = "generic" THEN GetArrayElement(content, walk.index)
                        ELSE GetArrayElement(arrays[walk.arr], walk.index)
                 /\ result' = Append(result, x)
    BY <1>10 DEF ReadElement, Push
  <2>3. GetArrayElement(content, walk.index) \in Known
    <3>1. content \in Seq(Members(ever))
      BY SeqOfMembers DEF ContainerType
    <3> QED BY <1>4, <3>1, ElementKnown DEF Known
  <2>4. GetArrayElement(arrays[walk.arr], walk.index) \in Known
    BY <1>4, <1>5, ElementKnown DEF Known
  <2>5. result' \in Seq(Known)
    BY <1>4, <2>2, <2>3, <2>4, PushType
  <2>6. PICK l \in Stages(kind) : l = GoOn(walk.index + 1 < walk.n, "element") /\ l \in {"element", "done"}
    BY <1>4, <1>7, <2>1 DEF GoOn
  <2>7. PICK i \in Nat : i = walk.index + 1
    BY <1>4
  <2>8. walk' = [walk EXCEPT !.index = i, !.pc = l]
    BY <1>10, <2>6, <2>7 DEF ReadElement
  <2>9. walk' \in W /\ walk'.pc = l
    BY <1>4, <2>8
  <2> QED BY <2>5, <2>6, <2>9
<1>11. CASE ReadItem
  <2>1. /\ walk.pc = "item" /\ result' = Append(result, item[walk.node]) /\ walk' = [walk EXCEPT !.pc = "next"]
    BY <1>11 DEF ReadItem, Push
  <2>2. walk.node \in Members(ever) /\ walk.node # Null /\ "next" \in Stages(kind)
    BY <1>4, <1>6, <1>7, <2>1 DEF Stages, Known
  <2>3. item[walk.node] \in Known
    BY <1>6, <2>2 DEF ContainerType, Known
  <2>4. walk' \in W /\ walk'.node = walk.node
    BY <1>4, <2>1, <2>2
  <2> QED BY <1>4, <2>1, <2>2, <2>3, <2>4, PushType
<1>12. CASE ReadNext
  <2>1. walk.pc = "next" /\ result' = result
    BY <1>12 DEF ReadNext
  <2>2. walk.node \in Element /\ "item" \in Stages(kind)
    BY <1>4, <1>6, <1>7, <2>1 DEF Stages, Known
  <2>3. PICK x \in Known, l \in Stages(kind) :
           x = next[walk.node] /\ l = GoOn(x # Null /\ walk.index + 1 < walk.n, "item") /\ (l = "item" => x # Null) /\ l \in {"item", "done"}
    BY <1>5, <1>7, <2>2 DEF GoOn
  <2>4. PICK i \in Nat : i = walk.index + 1
    BY <1>4
  <2>5. walk' = [walk EXCEPT !.node = x, !.index = i, !.pc = l]
    BY <1>12, <2>3, <2>4 DEF ReadNext
  <2>6. walk' \in W /\ walk'.pc = l /\ walk'.node = x
    BY <1>4, <2>5
  <2> QED BY <1>4, <2>1, <2>3, <2>6
<1>13. CASE ReadBucket
  <2>1. walk.pc = "bucket" /\ result' = result /\ "node" \in Stages(kind)
    BY <1>4, <1>7, <1>13 DEF ReadBucket, Stages
  <2>2. CASE walk.index < walk.n
    <3>1. PICK x \in Known : x = GetArrayElement(arrays[walk.arr], walk.index)
      BY <1>4, <1>5, ElementKnown DEF Known
    <3>2. PICK i \in Nat : i = walk.index + 1
      BY <1>4
    <3>3. walk' = [walk EXCEPT !.node = x, !.index = i, !.count = 0, !.pc = "node"]
      BY <1>13, <2>2, <3>1, <3>2 DEF ReadBucket
    <3>4. walk' \in W /\ walk'.pc = "node"
      BY <1>4, <2>1, <3>3
    <3> QED BY <1>4, <2>1, <3>4
  <2>3. CASE ~(walk.index < walk.n)
    <3>1. walk' = [walk EXCEPT !.pc = "done"]
      BY <1>13, <2>3 DEF ReadBucket
    <3>2. walk' \in W /\ walk'.pc = "done"
      BY <1>4, <1>7, <3>1
    <3> QED BY <1>4, <2>1, <3>2
  <2> QED BY <2>2, <2>3
<1>14. CASE ReadNode
  <2>1. walk.pc = "node" /\ "bucket" \in Stages(kind)
    BY <1>4, <1>7, <1>14 DEF ReadNode, Stages
  <2>2. CASE walk.node # Null /\ walk.count < MaxGuard
    <3>1. PICK x \in Known : x = next[walk.node]
      BY <1>4, <1>5, <1>6, <2>2 DEF Known
    <3>2. PICK i \in Nat : i = walk.count + 1
      BY <1>4
    <3>3. result' = Append(result, walk.node) /\ walk' = [walk EXCEPT !.node = x, !.count = i]
      BY <1>14, <2>2, <3>1, <3>2 DEF ReadNode, Push
    <3>4. walk' \in W /\ walk'.pc = "node"
      BY <1>4, <2>1, <3>3
    <3>5. walk.node \in Known
      BY <1>4
    <3> QED BY <1>4, <3>3, <3>4, <3>5, PushType
  <2>3. CASE ~(walk.node # Null /\ walk.count < MaxGuard)
    <3>1. result' = result /\ walk' = [walk EXCEPT !.pc = "bucket"]
      BY <1>14, <2>3 DEF ReadNode
    <3>2. walk' \in W /\ walk'.pc = "bucket"
      BY <1>4, <2>1, <3>1
    <3> QED BY <1>4, <3>1, <3>2
  <2> QED BY <2>2, <2>3
<1>15. CASE Spine
  <2>1. /\ walk.pc = "spine" /\ walk.node # Null /\ result' = result
        /\ walk' = [walk EXCEPT !.stack = Append(walk.stack, walk.node), !.node = left[walk.node]]
    BY <1>15 DEF Spine
  <2>2. walk.node \in Members(ever)
    BY <1>4, <2>1 DEF Known
  <2>3. PICK x \in Known : x = left[walk.node]
    BY <1>5, <1>6, <2>2
  <2>4. PICK s \in Seq(Members(ever)) : s = Append(walk.stack, walk.node)
    BY <1>4, <2>2, PushType
  <2>5. walk' = [walk EXCEPT !.stack = s, !.node = x]
    BY <2>1, <2>3, <2>4
  <2>6. walk' \in W /\ walk'.pc = "spine"
    BY <1>4, <2>1, <2>5
  <2> QED BY <1>4, <2>1, <2>6
<1>16. CASE Visit
  <2>1. walk.pc = "spine"
    BY <1>16 DEF Visit
  <2>2. CASE walk.stack = <<>>
    <3>1. result' = result /\ walk' = [walk EXCEPT !.pc = "done"]
      BY <1>16, <2>2 DEF Visit
    <3>2. walk' \in W /\ walk'.pc = "done"
      BY <1>4, <1>7, <3>1
    <3> QED BY <1>4, <3>1, <3>2
  <2>3. CASE walk.stack # <<>>
    <3>1. PICK s \in Seq(Members(ever)), x \in Members(ever) : s = Front(walk.stack) /\ x = Last(walk.stack)
      BY <1>4, <2>3, FrontFacts
    <3>2. PICK y \in Known : y = next[x]
      BY <1>5, <1>6, <3>1
    <3>3. PICK l \in Stages(kind) : l = GoOn(walk.count + 1 <= MaxVisited, "spine") /\ l \in {"spine", "done"}
      BY <1>4, <1>7, <2>1 DEF GoOn
    <3>4. PICK i \in Nat : i = walk.count + 1
      BY <1>4
    <3>5. result' = Append(result, x) /\ walk' = [walk EXCEPT !.stack = s, !.node = y, !.count = i, !.pc = l]
      BY <1>16, <2>3, <3>1, <3>2, <3>3, <3>4 DEF Visit, Push
    <3>6. walk' \in W /\ walk'.pc = l
      BY <1>4, <3>5
    <3>7. x \in Known
      BY <1>6, <3>1
    <3> QED BY <1>4, <3>3, <3>5, <3>6, <3>7, PushType
  <2> QED BY <2>2, <2>3
<1> QED BY <1>8, <1>9, <1>10, <1>11, <1>12, <1>13, <1>14, <1>15, <1>16 DEF Walk


-----------------------------------------------------------------------------
(* Nothing twice.  Elements are told apart by when they came.              *)

Older(s, x, y) == \E i, j \in DOMAIN s : i < j /\ s[i] = x /\ s[j] = y

\* "Came before" is a strict order on the members of a sequence without repetitions.
LEMMA OlderOrder ==
    ASSUME NEW s \in Seq(Element), Distinct(s)
    PROVE  /\ \A x, y : Older(s, x, y) => x \in Members(s) /\ y \in Members(s) /\ x # y /\ ~Older(s, y, x)
           /\ \A x, y, z : Older(s, x, y) /\ Older(s, y, z) => Older(s, x, z)
<1>1. ASSUME NEW x, NEW y, Older(s, x, y)
      PROVE  x \in Members(s) /\ y \in Members(s) /\ x # y /\ ~Older(s, y, x)
  <2>1. PICK i \in DOMAIN s, j \in DOMAIN s : i < j /\ s[i] = x /\ s[j] = y
    BY <1>1 DEF Older
  <2>2. DOMAIN s \subseteq Nat
    OBVIOUS
  <2>3. x # y
    BY <2>1, <2>2 DEF Distinct
  <2>4. ASSUME Older(s, y, x) PROVE FALSE
    <3>1. PICK k \in DOMAIN s, l \in DOMAIN s : k < l /\ s[k] = y /\ s[l] = x
      BY <2>4 DEF Older
    <3>2. k = j /\ l = i
      BY <2>1, <3>1 DEF Distinct
    <3> QED BY <2>1, <2>2, <3>1, <3>2
  <2> QED BY <2>1, <2>3, <2>4 DEF Members
<1>2. ASSUME NEW x, NEW y, NEW z, Older(s, x, y), Older(s, y, z)
      PROVE  Older(s, x, z)
  <2>1. PICK i \in DOMAIN s, j \in DOMAIN s : i < j /\ s[i] = x /\ s[j] = y
    BY <1>2 DEF Older
  <2>2. PICK k \in DOMAIN s, l \in DOMAIN s : k < l /\ s[k] = y /\ s[l] = z
    BY <1>2 DEF Older
  <2>3. k = j /\ DOMAIN s \subseteq Nat
    BY <2>1, <2>2 DEF Distinct
  <2>4. i < l
    BY <2>1, <2>2, <2>3
  <2> QED BY <2>1, <2>2, <2>4 DEF Older
<1> QED BY <1>1, <1>2

\* A new element is the youngest.
LEMMA OlderAppend ==
    ASSUME NEW s \in Seq(Element), NEW e \in Element, NEW t, t = Append(s, e)
    PROVE  /\ \A x, y : Older(s, x, y) => Older(t, x, y)
           /\ \A x \in Members(s) : Older(t, x, e)
<1>1. /\ DOMAIN t = 1..(Len(s) + 1) /\ DOMAIN s = 1..Len(s) /\ Len(s) \in Nat
      /\ \A i \in 1..Len(s) : t[i] = s[i]
      /\ t[Len(s) + 1] = e
  BY AppendFacts
<1>2. ASSUME NEW x, NEW y, Older(s, x, y) PROVE Older(t, x, y)
  <2>1. PICK i \in DOMAIN s, j \in DOMAIN s : i < j /\ s[i] = x /\ s[j] = y
    BY <1>2 DEF Older
  <2>2. i \in DOMAIN t /\ j \in DOMAIN t /\ t[i] = x /\ t[j] = y
    BY <1>1, <2>1
  <2> QED BY <2>1, <2>2 DEF Older
<1>3. ASSUME NEW x \in Members(s) PROVE Older(t, x, e)
  <2>1. PICK i \in DOMAIN s : s[i] = x
    BY DEF Members
  <2>2. i \in DOMAIN t /\ Len(s) + 1 \in DOMAIN t /\ i < Len(s) + 1 /\ t[i] = x
    BY <1>1, <2>1
  <2> QED BY <1>1, <2>2 DEF Older
<1> QED BY <1>2, <1>3

\* No element is in the sequence at two places; there may be several nulls.
Clear(s) == \A i, j \in DOMAIN s : s[i] = s[j] /\ s[i] # Null => i = j

LEMMA ClearPush ==
    ASSUME NEW T, NEW s \in Seq(T), Clear(s), NEW e \in T, e = Null \/ e \notin Members(s)
    PROVE  Clear(Append(s, e))
<1> DEFINE t == Append(s, e)
<1>1. /\ DOMAIN t = 1..(Len(s) + 1) /\ DOMAIN s = 1..Len(s) /\ Len(s) \in Nat
      /\ \A i \in 1..Len(s) : t[i] = s[i]
      /\ t[Len(s) + 1] = e
  BY AppendFacts
<1> HIDE DEF t
<1>2. ASSUME NEW i \in DOMAIN t, NEW j \in DOMAIN t, t[i] = t[j], t[i] # Null PROVE i = j
  <2>1. CASE i \in DOMAIN s /\ j \in DOMAIN s
    BY <1>1, <1>2, <2>1 DEF Clear
  <2>2. CASE i \notin DOMAIN s /\ j \notin DOMAIN s
    BY <1>1, <2>2
  <2>3. CASE i \in DOMAIN s /\ j \notin DOMAIN s
    <3>1. j = Len(s) + 1 /\ t[j] = e /\ t[i] = s[i]
      BY <1>1, <2>3
    <3> QED BY <1>2, <2>3, <3>1 DEF Members
  <2>4. CASE i \notin DOMAIN s /\ j \in DOMAIN s
    <3>1. i = Len(s) + 1 /\ t[i] = e /\ t[j] = s[j]
      BY <1>1, <2>4
    <3> QED BY <1>2, <2>4, <3>1 DEF Members
  <2> QED BY <2>1, <2>2, <2>3, <2>4
<1> QED BY <1>2 DEF Clear, t

\* Then each element in it is there once.
LEMMA ClearOnce ==
    ASSUME result \in Seq(Known), Clear(result)
    PROVE  Once(Members(result) \ {Null})
<1>1. SUFFICES ASSUME NEW x \in Members(result) \ {Null}
               PROVE  Cardinality({i \in DOMAIN result : result[i] = x}) = 1
  BY DEF Once
<1>2. PICK i \in DOMAIN result : result[i] = x
  BY DEF Members
<1>3. {j \in DOMAIN result : result[j] = x} = {i}
  BY <1>2 DEF Clear
<1> QED BY <1>3, FS_Singleton

-----------------------------------------------------------------------------
(* Backing arrays.  Behind the index there is nothing that was delivered.  *)

Ahead(s, i, R) == \A j \in DOMAIN s : j > i /\ s[j] # Null => s[j] \notin R

\* t holds what s holds, some of it at an earlier place, and perhaps something new.
Later(s, t, R) ==
    \A j \in DOMAIN t : t[j] = Null \/ t[j] \notin R \/ \E k \in DOMAIN s : k >= j /\ t[j] = s[k]

LEMMA AheadKept ==
    ASSUME NEW S, NEW s \in Seq(S), NEW T, NEW t \in Seq(T), NEW i \in Nat, NEW R,
           Ahead(s, i, R), Later(s, t, R)
    PROVE  Ahead(t, i, R)
<1>1. SUFFICES ASSUME NEW j \in DOMAIN t, j > i, t[j] # Null, t[j] \in R PROVE FALSE
  BY DEF Ahead
<1>2. PICK k \in DOMAIN s : k >= j /\ t[j] = s[k]
  BY <1>1 DEF Later
<1>3. k > i
  BY <1>1, <1>2
<1> QED BY <1>1, <1>2, <1>3 DEF Ahead

\* One place is overwritten.
Overwritten(s, i, e, t) ==
    /\ Len(t) = Len(s) /\ i \in DOMAIN s
    /\ t[i] = e /\ \A j \in DOMAIN s \ {i} : t[j] = s[j]

LEMMA OverwrittenFacts ==
    ASSUME NEW S, NEW s \in Seq(S), NEW T, NEW t \in Seq(T), NEW i, NEW e, Overwritten(s, i, e, t), NEW R, e \notin R
    PROVE  /\ Later(s, t, R)
           /\ Clear(s) /\ e \notin Members(s) => Clear(t)
<1>1. DOMAIN t = DOMAIN s /\ DOMAIN s \subseteq Nat
  BY DEF Overwritten
<1>2. Later(s, t, R)
  BY <1>1 DEF Overwritten, Later
<1>3. ASSUME Clear(s), e \notin Members(s) PROVE Clear(t)
  BY <1>1, <1>3 DEF Overwritten, Clear, Members
<1> QED BY <1>2, <1>3

LEMMA LaterAppend ==
    ASSUME NEW s \in Seq(Element), NEW e \in Element, NEW R, e \notin R
    PROVE  Later(s, Append(s, e), R)
<1>1. PICK t : t = Append(s, e)
  OBVIOUS
<1>2. /\ DOMAIN t = 1..(Len(s) + 1) /\ DOMAIN s = 1..Len(s) /\ Len(s) \in Nat
      /\ \A i \in 1..Len(s) : t[i] = s[i]
      /\ t[Len(s) + 1] = e
  BY <1>1, AppendFacts
<1>3. ASSUME NEW j \in DOMAIN t PROVE t[j] \notin R \/ \E k \in DOMAIN s : k >= j /\ t[j] = s[k]
  <2>1. CASE j = Len(s) + 1
    BY <1>2, <2>1
  <2>2. CASE j # Len(s) + 1
    <3>1. j \in DOMAIN s /\ j >= j /\ t[j] = s[j]
      BY <1>2, <2>2
    <3> QED BY <3>1
  <2> QED BY <2>1, <2>2
<1>4. Later(s, t, R)
  BY <1>3 DEF Later
<1> QED BY <1>1, <1>4

\* The array a, which is not empty, holds the list s.
Holds(a, s) == Len(s) <= Len(a) /\ Len(a) > 0 /\ \A j \in DOMAIN s : a[j] = s[j]

LEMMA LaterWithout ==
    ASSUME NEW s \in Seq(Element), NEW e \in Members(s), NEW T, NEW a \in Seq(T), Holds(a, s), NEW R, NEW n \in Nat
    PROVE  Later(s, Without(s, e), R) /\ Later(a, Padded(Without(s, e), n), R)
<1>1. PICK k \in Nat : k = Position(s, e)
  BY PlaceFacts
<1>2. PICK r \in Seq(Element) : r = Without(s, e)
  BY WithoutFacts
<1>3. /\ Len(r) = Len(s) - 1
      /\ \A i \in 1..(Len(s) - 1) : r[i] = IF i < k THEN s[i] ELSE s[i + 1]
  BY <1>1, <1>2, WithoutFacts
<1>4. DOMAIN r = 1..(Len(s) - 1) /\ DOMAIN s = 1..Len(s) /\ Len(s) \in Nat /\ DOMAIN a = 1..Len(a) /\ Len(a) \in Nat
  BY <1>3
<1>5. ASSUME NEW j \in DOMAIN r PROVE \E i \in DOMAIN s : i >= j /\ r[j] = s[i]
  <2>1. j \in DOMAIN s /\ j + 1 \in DOMAIN s /\ j >= j /\ j + 1 >= j
    BY <1>4
  <2>2. r[j] = s[j] \/ r[j] = s[j + 1]
    BY <1>3, <1>4
  <2> QED BY <2>1, <2>2
<1>6. Later(s, r, R)
  BY <1>5 DEF Later
<1>7. PICK p : p = Padded(r, n)
  OBVIOUS
<1>8. DOMAIN p = 1..n /\ \A i \in 1..n : p[i] = IF i <= Len(r) THEN r[i] ELSE Null
  BY <1>7 DEF Padded
<1>9. ASSUME NEW j \in DOMAIN p PROVE p[j] = Null \/ \E i \in DOMAIN a : i >= j /\ p[j] = a[i]
  <2>1. CASE ~(j <= Len(r))
    BY <1>8, <2>1
  <2>2. CASE j <= Len(r)
    <3>1. j \in DOMAIN r /\ p[j] = r[j]
      BY <1>3, <1>4, <1>8, <2>2
    <3>2. PICK i \in DOMAIN s : i >= j /\ r[j] = s[i]
      BY <1>5, <3>1
    <3>3. i \in DOMAIN a /\ a[i] = s[i]
      BY <1>4 DEF Holds
    <3> QED BY <3>1, <3>2, <3>3
  <2> QED BY <2>1, <2>2
<1>10. Later(a, p, R)
  BY <1>9 DEF Later
<1> QED BY <1>2, <1>6, <1>7, <1>10

LEMMA PaddedClear ==
    ASSUME NEW s \in Seq(Element), Distinct(s), NEW n \in Nat
    PROVE  Clear(Padded(s, n)) /\ (Len(s) <= n /\ n > 0 => Holds(Padded(s, n), s))
<1>1. PICK p : p = Padded(s, n)
  OBVIOUS
<1>2. DOMAIN p = 1..n /\ \A i \in 1..n : p[i] = IF i <= Len(s) THEN s[i] ELSE Null
  BY <1>1 DEF Padded
<1>3. DOMAIN s = 1..Len(s) /\ Len(s) \in Nat
  OBVIOUS
<1>4. Clear(p)
  BY <1>2, <1>3 DEF Clear, Distinct
<1>5. Len(p) = n
  BY <1>1, PaddedFacts
<1>6. Len(s) <= n /\ n > 0 => Holds(p, s)
  BY <1>2, <1>3, <1>5 DEF Holds
<1> QED BY <1>1, <1>4, <1>6

Source == IF kind = "generic" THEN content ELSE arrays[walk.arr]

ArraysClear ==
    /\ Clear(result) /\ Clear(arrays[1]) /\ Clear(arrays[2])
    /\ kind # "raw" => Holds(arrays[table], content)
    /\ table = 1 => walk.arr = 1
    /\ walk.pc \in {"begin", "fields"} => walk.index = 0 /\ result = <<>>
    /\ walk.pc = "element" => Ahead(Source, walk.index, Members(result))

LEMMA ArrayMutate ==
    ASSUME ContainerType, WalkType, Loose, ArraysClear, kind \in {"array", "generic", "raw"}, Plain
    PROVE  ArraysClear'
<1> USE ElementFacts
<1>1. ContainerType'
  BY PlainType
<1>2. /\ arrays \in [1..2 -> Seq(Known)] /\ content \in Seq(Element) /\ Distinct(content) /\ table \in 1..2
      /\ walk.arr \in 1..2 /\ walk.index \in Nat /\ size = Len(content) /\ Len(content) \in Nat
      /\ Len(arrays[table]) \in Nat
  BY DEF ContainerType, WalkType
<1>3. arrays' \in [1..2 -> Seq(Known')] /\ content' \in Seq(Element)
  BY <1>1 DEF ContainerType
<1>4. PICK R : R = Members(result) /\ R \subseteq Known
  BY MembersIn DEF WalkType
<1>5. /\ kind' = kind /\ walk' = walk /\ result' = result
      /\ walk.pc \notin {"begin", "done"}
  BY DEF Plain, ArrayAdd, ArrayStore, LinkLast, HashPut, TreePut, ListRemove, Unlink, HashRemove,
         RotateLeft, RotateRight, HashResize, Java, Underway, Running
<1>6. ASSUME NEW A, A = arrays', NEW c, c = content', Clear(A[1]), Clear(A[2]),
             kind # "raw" => Holds(A[table'], c), table' = 1 => table = 1,
             Later(arrays[walk.arr], A[walk.arr], R), Later(content, c, R)
      PROVE  ArraysClear'
  <2>1. ASSUME walk.pc = "element" PROVE Ahead(IF kind = "generic" THEN c ELSE A[walk.arr], walk.index, R)
    <3>1. CASE kind = "generic"
      <4>1. Ahead(content, walk.index, R)
        BY <1>4, <2>1, <3>1 DEF ArraysClear, Source
      <4> QED BY <1>2, <1>3, <1>6, <3>1, <4>1, AheadKept
    <3>2. CASE kind # "generic"
      <4>1. Ahead(arrays[walk.arr], walk.index, R)
        BY <1>4, <2>1, <3>2 DEF ArraysClear, Source
      <4>2. arrays[walk.arr] \in Seq(Known) /\ A[walk.arr] \in Seq(Known')
        BY <1>2, <1>3, <1>6
      <4>3. Ahead(A[walk.arr], walk.index, R)
        BY <1>2, <1>6, <4>1, <4>2, AheadKept
      <4> QED BY <3>2, <4>3
    <3> QED BY <3>1, <3>2
  <2>2. Source' = IF kind = "generic" THEN c ELSE A[walk.arr]
    BY <1>5, <1>6 DEF Source
  <2>3. Members(result)' = R
    BY <1>4, <1>5 DEF Members
  <2>4. walk'.pc = "element" => Ahead(Source, walk.index, Members(result))'
    BY <1>5, <2>1, <2>2, <2>3, Zenon
  <2>5. (Clear(result) /\ Clear(arrays[1]) /\ Clear(arrays[2]))'
    BY <1>5, <1>6, Zenon DEF ArraysClear
  <2>6. (kind # "raw" => Holds(arrays[table], content))'
    BY <1>5, <1>6, Zenon
  <2> QED BY <1>5, <1>6, <2>4, <2>5, <2>6 DEF ArraysClear
<1>7. ASSUME NEW u \in 1..2 PROVE Later(arrays[u], arrays[u], R) /\ Clear(arrays[u]) /\ arrays[u] \in Seq(Known)
  <2>1. arrays[u] \in Seq(Known) /\ (u = 1 \/ u = 2)
    BY <1>2
  <2>2. \A j \in DOMAIN arrays[u] : j >= j
    BY <2>1
  <2> QED BY <2>1, <2>2 DEF Later, ArraysClear
<1>8. ASSUME NEW e \in Element \ Members(ever), ever' = Append(ever, e), ArrayAdd(e) \/ ArrayStore(e)
      PROVE  ArraysClear'
  <2>1. e \notin R /\ e \notin Known /\ e \notin Members(content)
    BY <1>4 DEF Known, ContainerType
  <2>2. \A u \in 1..2 : e \notin Members(arrays[u])
    BY <1>2, <2>1, MembersIn
  <2>3. ASSUME NEW A, A = arrays', NEW t \in 1..2, NEW i \in 1..Len(arrays[t]), A = [arrays EXCEPT ![t][i] = e]
        PROVE  /\ Overwritten(arrays[t], i, e, A[t]) /\ \A u \in 1..2 \ {t} : A[u] = arrays[u]
               /\ \A u \in 1..2 : Clear(A[u]) /\ Later(arrays[u], A[u], R)
    <3>1. arrays \in [1..2 -> Seq(Known \cup {e})]
      BY <1>2, SeqMono
    <3>2. /\ A \in [1..2 -> Seq(Known \cup {e})]
          /\ \A u \in 1..2 \ {t} : A[u] = arrays[u]
          /\ Len(A[t]) = Len(arrays[t])
          /\ A[t][i] = e
          /\ \A j \in 1..Len(arrays[t]) \ {i} : A[t][j] = arrays[t][j]
      BY <2>3, <3>1, SetPlace
    <3>3. Overwritten(arrays[t], i, e, A[t])
      <4>1. DOMAIN arrays[t] = 1..Len(arrays[t])
        BY <1>7
      <4> QED BY <3>2, <4>1 DEF Overwritten
    <3>4. Clear(A[t]) /\ Later(arrays[t], A[t], R)
      <4>1. arrays[t] \in Seq(Known) /\ A[t] \in Seq(Known \cup {e}) /\ Clear(arrays[t]) /\ e \notin Members(arrays[t])
        BY <1>7, <2>2, <3>2
      <4> QED BY <2>1, <3>3, <4>1, OverwrittenFacts
    <3>5. ASSUME NEW u \in 1..2 PROVE Clear(A[u]) /\ Later(arrays[u], A[u], R)
      <4>1. CASE u = t
        BY <3>4, <4>1
      <4>2. CASE u # t
        BY <1>7, <3>2, <4>2
      <4> QED BY <4>1, <4>2
    <3> QED BY <3>2, <3>3, <3>5
  <2>4. CASE ArrayAdd(e)
    <3>1. kind # "raw" /\ content' = Append(content, e)
      BY <2>4 DEF ArrayAdd
    <3>2. PICK c \in Seq(Element) : /\ c = Append(content, e) /\ Later(content, c, R) /\ Distinct(c)
                                    /\ Len(c) = Len(content) + 1 /\ c[Len(content) + 1] = e
                                    /\ \A j \in 1..Len(content) : c[j] = content[j]
      <4>1. PICK c \in Seq(Element) : c = Append(content, e)
        BY <1>2, AppendFacts
      <4>2. Later(content, c, R)
        BY <1>2, <2>1, <4>1, LaterAppend
      <4>3. Distinct(c)
        BY <1>2, <2>1, <4>1, DistinctAppend
      <4>4. /\ Len(c) = Len(content) + 1 /\ c[Len(content) + 1] = e
            /\ \A j \in 1..Len(content) : c[j] = content[j]
        BY <1>2, <4>1, AppendFacts
      <4> QED BY <4>1, <4>2, <4>3, <4>4
    <3>3. CASE size < Len(arrays[table]) /\ arrays' = [arrays EXCEPT ![table][size + 1] = e] /\ table' = table
      <4>1. PICK A : A = arrays' /\ A = [arrays EXCEPT ![table][size + 1] = e]
        BY <3>3
      <4>2. PICK i \in 1..Len(arrays[table]) : i = size + 1
        BY <1>2, <3>3
      <4>3. A = [arrays EXCEPT ![table][i] = e]
        BY <4>1, <4>2
      <4>4. /\ Overwritten(arrays[table], i, e, A[table])
            /\ \A u \in 1..2 : Clear(A[u]) /\ Later(arrays[u], A[u], R)
        BY <1>2, <2>3, <4>1, <4>3
      <4>5. Holds(A[table], c)
        <5>1. Holds(arrays[table], content) /\ DOMAIN c = 1..(Len(content) + 1) /\ DOMAIN content = 1..Len(content)
          BY <1>2, <3>1, <3>2 DEF ArraysClear
        <5>2. PICK a \in Seq(Known) : a = arrays[table]
          BY <1>7, <1>2
        <5>3. PICK b : b = A[table]
          OBVIOUS
        <5>4. /\ Len(content) <= Len(a) /\ Len(a) > 0 /\ Len(b) = Len(a) /\ b[i] = e
              /\ \A j \in DOMAIN content : a[j] = content[j]
              /\ \A j \in DOMAIN a \ {i} : b[j] = a[j]
          BY <4>4, <5>1, <5>2, <5>3 DEF Holds, Overwritten
        <5>5. i = Len(content) + 1 /\ i <= Len(a) /\ DOMAIN a = 1..Len(a) /\ Len(a) \in Nat
          BY <1>2, <4>2, <5>2
        <5>6. \A j \in DOMAIN c : b[j] = c[j]
          BY <1>2, <3>2, <5>1, <5>4, <5>5
        <5>7. Holds(b, c)
          BY <1>2, <3>2, <5>4, <5>5, <5>6 DEF Holds
        <5> QED BY <5>7, <5>3
      <4>6. Clear(A[1]) /\ Clear(A[2]) /\ Later(arrays[walk.arr], A[walk.arr], R)
        BY <1>2, <4>4
      <4>7. A[table'] = A[table]
        BY <3>3
      <4> QED BY <1>6, <3>1, <3>2, <3>3, <4>1, <4>5, <4>6, <4>7
    <3>4. CASE /\ size = Len(arrays[table]) /\ table = 1 /\ table' = 2
               /\ arrays' = [arrays EXCEPT ![2] = Padded(Append(content, e), 2 * Len(arrays[table]))]
      <4>1. PICK n \in Nat : n = 2 * Len(arrays[table])
        BY <1>2
      <4>2. PICK p : p = Padded(c, n)
        OBVIOUS
      <4>3. Len(c) <= n /\ n > 0
        <5>1. Len(arrays[table]) > 0
          BY <3>1 DEF ArraysClear, Holds
        <5> QED BY <1>2, <3>2, <3>4, <4>1, <5>1
      <4>4. Clear(p) /\ Holds(p, c)
        BY <3>2, <4>2, <4>3, PaddedClear
      <4>5. PICK A : A = arrays' /\ A = [arrays EXCEPT ![2] = p]
        BY <3>2, <3>4, <4>1, <4>2
      <4>6. A[1] = arrays[1] /\ A[2] = p
        BY <1>2, <4>5
      <4>7. walk.arr = 1
        BY <3>4 DEF ArraysClear
      <4>8. Clear(A[1]) /\ Later(arrays[walk.arr], A[walk.arr], R)
        BY <1>2, <1>7, <4>6, <4>7
      <4>9. Clear(A[2]) /\ Holds(A[table'], c) /\ table' # 1
        BY <3>4, <4>4, <4>6
      <4> QED BY <1>6, <3>1, <3>2, <4>5, <4>8, <4>9
    <3> QED BY <2>4, <3>3, <3>4 DEF ArrayAdd
  <2>5. CASE ArrayStore(e)
    <3>1. kind = "raw" /\ table' = table
      BY <2>5 DEF ArrayStore
    <3>2. PICK i \in DOMAIN content :
             arrays' = [arrays EXCEPT ![1][i] = e] /\ content' = [content EXCEPT ![i] = e]
      BY <2>5 DEF ArrayStore
    <3>3. PICK A : A = arrays' /\ A = [arrays EXCEPT ![1][i] = e]
      BY <3>2
    <3>4. i \in 1..Len(arrays[1]) /\ 1 \in 1..2
      BY <1>2, <3>1 DEF ContainerType
    <3>5. \A u \in 1..2 : Clear(A[u]) /\ Later(arrays[u], A[u], R)
      BY <2>3, <3>3, <3>4
    <3>6. PICK c : c = content' /\ c = [content EXCEPT ![i] = e]
      BY <3>2
    <3>7. Later(content, c, R)
      <4>1. c \in Seq(Element) /\ Overwritten(content, i, e, c)
        BY <1>2, <3>6 DEF Overwritten
      <4> QED BY <1>2, <2>1, <4>1, OverwrittenFacts
    <3>8. Clear(A[1]) /\ Clear(A[2]) /\ Later(arrays[walk.arr], A[walk.arr], R)
      BY <1>2, <3>5
    <3> QED BY <1>6, <3>1, <3>3, <3>6, <3>7, <3>8
  <2> QED BY <1>8, <2>4, <2>5
<1>9. ASSUME NEW e \in Element, ListRemove(e) PROVE ArraysClear'
  <2>1. /\ kind # "raw" /\ e \in Members(content) /\ table' = table
        /\ arrays' = [arrays EXCEPT ![table] = Padded(Without(content, e), Len(arrays[table]))]
        /\ content' = Without(content, e)
    BY <1>9 DEF ListRemove
  <2>2. PICK r \in Seq(Element) : r = Without(content, e) /\ Distinct(r) /\ Len(r) = Len(content) - 1
    BY <1>2, <2>1, WithoutFacts, DistinctWithout
  <2>3. PICK n \in Nat : n = Len(arrays[table])
    BY <1>2
  <2>4. PICK p : p = Padded(r, n)
    OBVIOUS
  <2>5. Holds(arrays[table], content) /\ Len(r) <= n /\ n > 0
    <3>1. Holds(arrays[table], content)
      BY <2>1 DEF ArraysClear
    <3> QED BY <1>2, <2>2, <2>3, <3>1 DEF Holds
  <2>6. Clear(p) /\ Holds(p, r)
    BY <2>2, <2>4, <2>5, PaddedClear
  <2>7. Later(content, r, R) /\ Later(arrays[table], p, R)
    BY <1>2, <1>7, <2>1, <2>2, <2>4, <2>5, LaterWithout
  <2>8. PICK A : A = arrays' /\ A = [arrays EXCEPT ![table] = p]
    BY <2>1, <2>2, <2>3, <2>4
  <2>9. A[table] = p /\ \A u \in 1..2 \ {table} : A[u] = arrays[u]
    BY <1>2, <2>8
  <2>10. ASSUME NEW u \in 1..2 PROVE Clear(A[u]) /\ Later(arrays[u], A[u], R)
    BY <1>7, <2>6, <2>7, <2>9
  <2>11. Clear(A[1]) /\ Clear(A[2]) /\ Later(arrays[walk.arr], A[walk.arr], R)
    BY <1>2, <2>10
  <2>12. Holds(A[table'], r)
    BY <2>1, <2>6, <2>9
  <2> QED BY <1>6, <2>1, <2>2, <2>7, <2>8, <2>11, <2>12
<1> QED
  BY <1>8, <1>9 DEF Plain, LinkLast, HashPut, TreePut, Unlink, HashRemove, RotateLeft,
     RotateRight, HashResize

\* The next element was not delivered before, nor is it found again behind its place.
LEMMA AheadPush ==
    ASSUME NEW T, NEW s \in Seq(T), Clear(s), NEW K, NEW r \in Seq(K), Clear(r), NEW i \in Nat,
           Ahead(s, i, Members(r)), NEW x \in K, x = GetArrayElement(s, i)
    PROVE  Clear(Append(r, x)) /\ Ahead(s, i + 1, Members(Append(r, x)))
<1>1. DOMAIN s = 1..Len(s) /\ Len(s) \in Nat
  OBVIOUS
<1>2. CASE i < Len(s)
  <2>1. i + 1 \in DOMAIN s /\ x = s[i + 1] /\ i + 1 > i
    BY <1>1, <1>2 DEF GetArrayElement
  <2>2. x = Null \/ x \notin Members(r)
    BY <2>1 DEF Ahead
  <2>3. Members(Append(r, x)) = Members(r) \cup {x}
    BY AppendFacts
  <2>4. ASSUME NEW j \in DOMAIN s, j > i + 1, s[j] # Null PROVE s[j] \notin Members(r) \cup {x}
    <3>1. s[j] \notin Members(r)
      BY <1>1, <2>4 DEF Ahead
    <3>2. s[j] # x
      BY <1>1, <2>1, <2>4 DEF Clear
    <3> QED BY <3>1, <3>2
  <2> QED BY <2>2, <2>3, <2>4, ClearPush DEF Ahead
<1>3. CASE ~(i < Len(s))
  <2>1. x = Null
    BY <1>3 DEF GetArrayElement
  <2>2. \A j \in DOMAIN s : ~(j > i + 1)
    BY <1>1, <1>3
  <2> QED BY <2>1, <2>2, ClearPush DEF Ahead
<1> QED BY <1>2, <1>3

LEMMA NoMembers == Members(<<>>) = {} /\ Clear(<<>>) /\ \A s, i : Ahead(s, i, {})
BY DEF Members, Clear, Ahead

LEMMA DistinctClear ==
    ASSUME NEW s, Distinct(s)
    PROVE  Clear(s)
BY DEF Distinct, Clear

\* What a step of the walk leaves alone.
LEMMA StepSame ==
    ASSUME Step
    PROVE  /\ kind' = kind /\ arrays' = arrays /\ table' = table /\ size' = size /\ next' = next /\ left' = left
           /\ item' = item /\ content' = content /\ initial' = initial /\ ever' = ever /\ changes' = changes
           /\ shift' = shift
BY DEF Step, container

LEMMA WalkIsStep ==
    ASSUME Walk
    PROVE  Step
BY DEF Walk, BeginWalk, ReadFields, ReadElement, ReadItem, ReadNext, ReadBucket, ReadNode, Spine, Visit

\* The fields that the walk can have, by the name of their types.
WalkRecord ==
    [pc : Stages(kind), n : Nat, arr : {1, 2}, index : Nat, node : Known, stack : Seq(Members(ever)), count : Nat]

LEMMA ArrayWalk ==
    ASSUME ContainerType, WalkType, ArraysClear, kind \in {"array", "generic", "raw"}, Walk
    PROVE  ArraysClear'
<1>1. /\ kind' = kind /\ arrays' = arrays /\ table' = table /\ size' = size /\ content' = content
  BY WalkIsStep, StepSame
<1>2. walk \in WalkRecord /\ result \in Seq(Known) /\ table \in {1, 2}
  BY DEF WalkType, WalkRecord, ContainerType
<1>3. walk.pc \in {"begin", "done", "fields", "element"} /\ (walk.pc = "fields" => kind = "array")
  BY <1>2 DEF WalkRecord, Stages
<1>4. /\ Clear(arrays[1])' /\ Clear(arrays[2])'
      /\ (kind # "raw" => Holds(arrays[table], content))'
  BY <1>1, Zenon DEF ArraysClear
<1>5. ASSUME NEW r, r = result', NEW w, w = walk', Clear(r), table = 1 => w.arr = 1,
             w.pc \in {"begin", "fields"} => w.index = 0 /\ r = <<>>,
             w.pc = "element" => Ahead(IF kind = "generic" THEN content ELSE arrays[w.arr], w.index, Members(r))
      PROVE  ArraysClear'
  <2>1. Source' = IF kind = "generic" THEN content ELSE arrays[w.arr]
    BY <1>1, <1>5 DEF Source
  <2>2. (walk.pc = "element" => Ahead(Source, walk.index, Members(result)))'
    BY <1>5, <2>1, Zenon
  <2>3. Clear(result)'
    BY <1>5, Zenon
  <2> QED BY <1>1, <1>4, <1>5, <2>2, <2>3 DEF ArraysClear
<1>6. CASE BeginWalk
  <2>1. result' = result /\ walk.pc = "begin" /\ result = <<>> /\ walk.index = 0
    BY <1>6 DEF BeginWalk, ArraysClear
  <2>2. PICK l \in {"fields", "element", "done"} : walk' = [walk EXCEPT !.n = size, !.pc = l]
    BY <1>6 DEF BeginWalk, GoOn
  <2>3. walk'.pc = l /\ walk'.index = walk.index /\ walk'.arr = walk.arr
    BY <1>2, <2>2 DEF WalkRecord
  <2>4. PICK w : w = walk' /\ w.pc = l /\ w.index = 0 /\ w.arr = walk.arr
    BY <2>1, <2>3
  <2>5. PICK r : r = <<>> /\ r = result' /\ Members(r) = {} /\ Clear(r)
    BY <2>1, NoMembers
  <2>6. Ahead(IF kind = "generic" THEN content ELSE arrays[w.arr], w.index, {})
    BY NoMembers
  <2>7. Ahead(IF kind = "generic" THEN content ELSE arrays[w.arr], w.index, Members(r))
    BY <2>5, <2>6
  <2>8. table = 1 => w.arr = 1
    BY <2>4 DEF ArraysClear
  <2> QED BY <1>5, <2>4, <2>5, <2>7, <2>8
<1>7. CASE ReadFields
  <2>1. result' = result /\ walk.pc = "fields" /\ result = <<>> /\ kind = "array"
    BY <1>3, <1>7 DEF ReadFields, ArraysClear
  <2>2. walk' = [walk EXCEPT !.arr = table, !.pc = "element"]
    BY <1>7, <2>1 DEF ReadFields
  <2>3. walk'.pc = "element" /\ walk'.arr = table
    BY <1>2, <2>2 DEF WalkRecord
  <2>4. PICK w : w = walk' /\ w.pc = "element" /\ w.arr = table
    BY <2>3
  <2>5. PICK r : r = <<>> /\ r = result' /\ Members(r) = {} /\ Clear(r)
    BY <2>1, NoMembers
  <2>6. Ahead(IF kind = "generic" THEN content ELSE arrays[w.arr], w.index, {})
    BY NoMembers
  <2>7. Ahead(IF kind = "generic" THEN content ELSE arrays[w.arr], w.index, Members(r))
    BY <2>5, <2>6
  <2> QED BY <1>5, <2>4, <2>5, <2>7
<1>8. CASE ReadElement
  <2>1. PICK s \in Seq(Known) : s = (IF kind = "generic" THEN content ELSE arrays[walk.arr]) /\ Clear(s)
    <3>1. CASE kind = "generic"
      <4>1. content \in Seq(Known) /\ Clear(content)
        BY DistinctClear, SeqOfMembers DEF ContainerType, Known
      <4> QED BY <3>1, <4>1
    <3>2. CASE kind # "generic"
      <4>1. walk.arr \in {1, 2}
        BY <1>2 DEF WalkRecord
      <4>2. arrays[walk.arr] \in Seq(Known) /\ Clear(arrays[walk.arr])
        BY <4>1 DEF ContainerType, ArraysClear
      <4> QED BY <3>2, <4>2
    <3> QED BY <3>1, <3>2
  <2>2. walk.pc = "element" /\ Ahead(s, walk.index, Members(result)) /\ Clear(result)
    BY <1>8, <2>1 DEF ReadElement, ArraysClear, Source
  <2>3. PICK x \in Known : x = GetArrayElement(s, walk.index)
    <3>1. walk.index \in Nat
      BY <1>2 DEF WalkRecord
    <3> QED BY <2>1, <3>1, ElementKnown DEF Known
  <2>4. PICK r : r = result' /\ r = Append(result, x)
    BY <1>8, <2>1, <2>3 DEF ReadElement, Push
  <2>5. PICK i \in Nat, l \in {"element", "done"} : i = walk.index /\ walk' = [walk EXCEPT !.index = i + 1, !.pc = l]
    <3>1. walk.index \in Nat
      BY <1>2 DEF WalkRecord
    <3>2. PICK l \in {"element", "done"} : l = GoOn(walk.index + 1 < walk.n, "element")
      BY DEF GoOn
    <3> QED BY <1>8, <3>1, <3>2 DEF ReadElement
  <2>6. Clear(r) /\ Ahead(s, i + 1, Members(r))
    BY <1>2, <2>1, <2>2, <2>3, <2>4, <2>5, AheadPush
  <2>7. walk'.pc = l /\ walk'.index = i + 1 /\ walk'.arr = walk.arr
    BY <1>2, <2>5 DEF WalkRecord
  <2>8. PICK w : w = walk' /\ w.pc = l /\ w.index = i + 1 /\ w.arr = walk.arr
    BY <2>7
  <2>9. Ahead(IF kind = "generic" THEN content ELSE arrays[w.arr], w.index, Members(r))
    BY <2>1, <2>6, <2>8
  <2> QED BY <1>5, <2>4, <2>5, <2>6, <2>8, <2>9 DEF ArraysClear
<1>9. Walk => BeginWalk \/ ReadFields \/ ReadElement
  BY <1>3 DEF Walk, ReadItem, ReadNext, ReadBucket, ReadNode, Spine, Visit
<1> QED BY <1>6, <1>7, <1>8, <1>9

LEMMA ArrayInit ==
    ASSUME NEW k \in Kind, NEW s \in Seq(Element), Distinct(s), Filled(k, s),
           k \in {"array", "generic"} => Len(s) <= Buckets, k \in {"array", "generic", "raw"}
    PROVE  ArraysClear
<1> USE CollectionWalkAssumption
<1>1. /\ kind = k /\ arrays = <<ArrayOf(k, s), <<>>>> /\ table = 1 /\ content = s /\ walk = NoWalk /\ result = <<>>
  BY DEF Filled
<1>2. arrays[1] = ArrayOf(k, s) /\ arrays[2] = <<>>
  BY <1>1
<1>3. CASE k = "raw"
  <2>1. arrays[1] = s
    BY <1>2, <1>3 DEF ArrayOf
  <2>2. Clear(s)
    BY DistinctClear
  <2> QED BY <1>1, <1>2, <1>3, <2>1, <2>2, NoMembers DEF ArraysClear, NoWalk
<1>4. CASE k # "raw"
  <2>1. PICK p : p = Padded(s, Buckets) /\ arrays[1] = p
    BY <1>2, <1>4 DEF ArrayOf
  <2>2. Buckets > 0 /\ Buckets \in Nat /\ Len(s) <= Buckets
    BY <1>4
  <2>3. Clear(p) /\ Holds(p, s)
    BY <2>1, <2>2, PaddedClear
  <2>4. Holds(arrays[table], content)
    BY <1>1, <2>1, <2>3
  <2> QED BY <1>1, <1>2, <1>4, <2>1, <2>3, <2>4, NoMembers DEF ArraysClear, NoWalk
<1> QED BY <1>3, <1>4

-----------------------------------------------------------------------------
(* Chains of nodes.  A link leads to a younger node, whatever is unlinked. *)

\* Links lead from older to younger elements of s.
Forward(f, s) == \A x \in Element : f[x] # Null => Older(s, x, f[x])

\* The list c in the order of s.
Follows(c, s) == \A i, j \in DOMAIN c : i < j => Older(s, c[i], c[j])

LinksClear ==
    /\ Clear(result) /\ Forward(next, ever) /\ Follows(content, ever)
    /\ walk.pc \in {"begin", "fields"} => result = <<>>
    /\ walk.pc = "item" => \A r \in Members(result) \ {Null} : Older(ever, r, walk.node)
    /\ walk.pc = "next" => \A r \in Members(result) \ {Null} : r = walk.node \/ Older(ever, r, walk.node)

LEMMA FollowsAppend ==
    ASSUME NEW c \in Seq(Element), NEW s \in Seq(Element), Members(c) \subseteq Members(s), Follows(c, s),
           NEW e \in Element, NEW d, d = Append(c, e), NEW t, t = Append(s, e)
    PROVE  Follows(d, t)
<1>1. /\ DOMAIN d = 1..(Len(c) + 1) /\ DOMAIN c = 1..Len(c) /\ Len(c) \in Nat
      /\ \A i \in 1..Len(c) : d[i] = c[i]
      /\ d[Len(c) + 1] = e
  BY AppendFacts
<1>2. SUFFICES ASSUME NEW i \in DOMAIN d, NEW j \in DOMAIN d, i < j PROVE Older(t, d[i], d[j])
  BY DEF Follows
<1>3. i \in DOMAIN c /\ d[i] = c[i]
  BY <1>1, <1>2
<1>4. CASE j = Len(c) + 1
  <2>1. d[j] = e /\ c[i] \in Members(s)
    BY <1>1, <1>3, <1>4 DEF Members
  <2> QED BY <1>3, <2>1, OlderAppend
<1>5. CASE j # Len(c) + 1
  <2>1. j \in DOMAIN c /\ d[j] = c[j]
    BY <1>1, <1>5
  <2>2. Older(s, c[i], c[j])
    BY <1>2, <1>3, <2>1 DEF Follows
  <2> QED BY <1>3, <2>1, <2>2, OlderAppend
<1> QED BY <1>4, <1>5

LEMMA FollowsWithout ==
    ASSUME NEW c \in Seq(Element), NEW s, Follows(c, s), NEW e \in Members(c)
    PROVE  Follows(Without(c, e), s)
<1>1. PICK k \in Nat : k = Position(c, e)
  BY PlaceFacts
<1>2. PICK r \in Seq(Element) : r = Without(c, e)
  BY WithoutFacts
<1>3. /\ Len(r) = Len(c) - 1
      /\ \A i \in 1..(Len(c) - 1) : r[i] = IF i < k THEN c[i] ELSE c[i + 1]
  BY <1>1, <1>2, WithoutFacts
<1>4. DOMAIN r = 1..(Len(c) - 1) /\ DOMAIN c = 1..Len(c) /\ Len(c) \in Nat
  BY <1>3
<1>5. ASSUME NEW i \in DOMAIN r, NEW j \in DOMAIN r, i < j PROVE Older(s, r[i], r[j])
  <2>1. PICK m : m = IF i < k THEN i ELSE i + 1
    OBVIOUS
  <2>2. PICK n : n = IF j < k THEN j ELSE j + 1
    OBVIOUS
  <2>3. m \in DOMAIN c /\ n \in DOMAIN c /\ m < n
    BY <1>4, <1>5, <2>1, <2>2
  <2>4. r[i] = c[m] /\ r[j] = c[n]
    BY <1>3, <1>4, <2>1, <2>2
  <2> QED BY <2>3, <2>4 DEF Follows
<1> QED BY <1>2, <1>5 DEF Follows

LEMMA FollowsOlder ==
    ASSUME NEW c, NEW s, Follows(c, s), NEW x, NEW y, Older(c, x, y)
    PROVE  Older(s, x, y)
BY DEF Follows, Older

\* An insertion leaves the order of the others, and puts the new one between its neighbours.
LEMMA OlderInsert ==
    ASSUME NEW s \in Seq(Element), NEW p \in DOMAIN s, NEW e \in Element, NEW t, t = InsertAt(s, p, e)
    PROVE  /\ \A x, y : Older(s, x, y) => Older(t, x, y)
           /\ \A k \in DOMAIN s : k < p => Older(t, s[k], e)
           /\ \A k \in DOMAIN s : k >= p => Older(t, e, s[k])
<1>1. /\ InsertAt(s, p, e) \in Seq(Element) /\ Len(InsertAt(s, p, e)) = Len(s) + 1
      /\ Inserted(s, p, e, InsertAt(s, p, e))
  BY InsertFacts
<1>2. /\ t \in Seq(Element) /\ Len(t) = Len(s) + 1
      /\ \A j \in 1..(Len(s) + 1) : t[j] = IF j < p THEN s[j] ELSE IF j = p THEN e ELSE s[j - 1]
  BY <1>1 DEF Inserted
<1>3. DOMAIN t = 1..(Len(s) + 1) /\ DOMAIN s = 1..Len(s) /\ Len(s) \in Nat /\ p \in 1..Len(s)
  BY <1>2
<1>4. p \in DOMAIN t /\ t[p] = e
  BY <1>2, <1>3
<1>5. ASSUME NEW k \in DOMAIN s
      PROVE  \E j \in DOMAIN t : t[j] = s[k] /\ j = IF k < p THEN k ELSE k + 1
  <2>1. PICK j : j = IF k < p THEN k ELSE k + 1
    OBVIOUS
  <2>2. j \in 1..(Len(s) + 1) /\ t[j] = s[k]
    BY <1>2, <1>3, <2>1
  <2> QED BY <1>3, <2>1, <2>2
<1>6. ASSUME NEW x, NEW y, Older(s, x, y) PROVE Older(t, x, y)
  <2>1. PICK i \in DOMAIN s, j \in DOMAIN s : i < j /\ s[i] = x /\ s[j] = y
    BY <1>6 DEF Older
  <2>2. PICK a \in DOMAIN t : t[a] = x /\ a = IF i < p THEN i ELSE i + 1
    BY <1>5, <2>1
  <2>3. PICK b \in DOMAIN t : t[b] = y /\ b = IF j < p THEN j ELSE j + 1
    BY <1>5, <2>1
  <2>4. a < b
    BY <1>3, <2>1, <2>2, <2>3
  <2> QED BY <2>2, <2>3, <2>4 DEF Older
<1>7. ASSUME NEW k \in DOMAIN s, k < p PROVE Older(t, s[k], e)
  <2>1. PICK a \in DOMAIN t : t[a] = s[k] /\ a = k
    BY <1>5, <1>7
  <2> QED BY <1>4, <1>7, <2>1 DEF Older
<1>8. ASSUME NEW k \in DOMAIN s, k >= p PROVE Older(t, e, s[k])
  <2>1. PICK a \in DOMAIN t : t[a] = s[k] /\ a = k + 1
    BY <1>3, <1>5, <1>8
  <2>2. p < a
    BY <1>3, <1>8, <2>1
  <2> QED BY <1>4, <2>1, <2>2 DEF Older
<1> QED BY <1>6, <1>7, <1>8

LEMMA FollowsInsert ==
    ASSUME NEW c \in Seq(Element), NEW s \in Seq(Element), Distinct(s), Follows(c, s), NEW e \in Element,
           NEW i \in DOMAIN c, NEW p \in DOMAIN s, s[p] = c[i],
           NEW d, d = InsertAt(c, i, e), NEW t, t = InsertAt(s, p, e)
    PROVE  /\ Follows(d, t) /\ Older(t, e, c[i]) /\ \A j \in DOMAIN c : j < i => Older(t, c[j], e)
           /\ \A x, y : Older(s, x, y) => Older(t, x, y)
<1>1. /\ \A x, y : Older(s, x, y) => Older(t, x, y)
      /\ \A k \in DOMAIN s : k < p => Older(t, s[k], e)
      /\ \A k \in DOMAIN s : k >= p => Older(t, e, s[k])
  BY OlderInsert
<1>2. /\ InsertAt(c, i, e) \in Seq(Element) /\ Len(InsertAt(c, i, e)) = Len(c) + 1
      /\ Inserted(c, i, e, InsertAt(c, i, e))
  BY InsertFacts
<1>3. /\ d \in Seq(Element) /\ Len(d) = Len(c) + 1
      /\ \A j \in 1..(Len(c) + 1) : d[j] = IF j < i THEN c[j] ELSE IF j = i THEN e ELSE c[j - 1]
  BY <1>2 DEF Inserted
<1>4. DOMAIN d = 1..(Len(c) + 1) /\ DOMAIN c = 1..Len(c) /\ Len(c) \in Nat /\ i \in 1..Len(c)
      /\ DOMAIN s \subseteq Nat
  BY <1>3
<1>5. ASSUME NEW j \in DOMAIN c, j < i PROVE Older(t, c[j], e)
  <2>1. Older(s, c[j], c[i])
    BY <1>5 DEF Follows
  <2>2. PICK a \in DOMAIN s, b \in DOMAIN s : a < b /\ s[a] = c[j] /\ s[b] = c[i]
    BY <2>1 DEF Older
  <2>3. b = p
    BY <2>2 DEF Distinct
  <2> QED BY <1>1, <2>2, <2>3
<1>6. ASSUME NEW j \in DOMAIN c, j >= i PROVE Older(t, e, c[j])
  <2>1. CASE j = i
    <3>1. p >= p
      BY <1>4
    <3> QED BY <1>1, <2>1, <3>1
  <2>2. CASE j # i
    <3>1. i < j
      BY <1>4, <1>6, <2>2
    <3>2. Older(s, c[i], c[j])
      BY <3>1 DEF Follows
    <3>3. PICK a \in DOMAIN s, b \in DOMAIN s : a < b /\ s[a] = c[i] /\ s[b] = c[j]
      BY <3>2 DEF Older
    <3>4. a = p
      BY <3>3 DEF Distinct
    <3>5. b >= p
      BY <1>4, <3>3, <3>4
    <3> QED BY <1>1, <3>3, <3>5
  <2> QED BY <2>1, <2>2
<1>7. ASSUME NEW j \in DOMAIN d, NEW k \in DOMAIN d, j < k PROVE Older(t, d[j], d[k])
  <2>1. CASE k < i
    <3>1. j \in DOMAIN c /\ k \in DOMAIN c /\ d[j] = c[j] /\ d[k] = c[k]
      BY <1>3, <1>4, <1>7, <2>1
    <3>2. Older(s, c[j], c[k])
      BY <1>7, <3>1 DEF Follows
    <3> QED BY <1>1, <3>1, <3>2
  <2>2. CASE k = i
    <3>1. j \in DOMAIN c /\ d[j] = c[j] /\ d[k] = e /\ j < i
      BY <1>3, <1>4, <1>7, <2>2
    <3> QED BY <1>5, <3>1
  <2>3. CASE k > i /\ j < i
    <3>1. j \in DOMAIN c /\ d[j] = c[j] /\ k - 1 \in DOMAIN c /\ d[k] = c[k - 1] /\ j < k - 1
      BY <1>3, <1>4, <1>7, <2>3
    <3>2. Older(s, c[j], c[k - 1])
      BY <3>1 DEF Follows
    <3> QED BY <1>1, <3>1, <3>2
  <2>4. CASE k > i /\ j = i
    <3>1. d[j] = e /\ k - 1 \in DOMAIN c /\ d[k] = c[k - 1] /\ k - 1 >= i
      BY <1>3, <1>4, <1>7, <2>4
    <3> QED BY <1>6, <3>1
  <2>5. CASE k > i /\ j > i
    <3>1. /\ j - 1 \in DOMAIN c /\ d[j] = c[j - 1] /\ k - 1 \in DOMAIN c /\ d[k] = c[k - 1]
          /\ j - 1 < k - 1
      BY <1>3, <1>4, <1>7, <2>5
    <3>2. Older(s, c[j - 1], c[k - 1])
      BY <3>1 DEF Follows
    <3> QED BY <1>1, <3>1, <3>2
  <2> QED BY <1>4, <1>7, <2>1, <2>2, <2>3, <2>4, <2>5
<1>8. Older(t, e, c[i])
  <2>1. i >= i
    BY <1>4
  <2> QED BY <1>6, <2>1
<1> QED BY <1>1, <1>5, <1>7, <1>8 DEF Follows

\* A link to a new element, and a link over one that is taken out.
LEMMA ForwardAdd ==
    ASSUME NEW s \in Seq(Element), NEW e \in Element, NEW t, t = Append(s, e), NEW T, NEW f \in [Element -> T],
           Forward(f, s)
    PROVE  Forward(f, t) /\ \A x \in Members(s) : Forward([f EXCEPT ![x] = e], t)
<1>1. Forward(f, t)
  BY OlderAppend DEF Forward
<1>2. ASSUME NEW x \in Members(s) PROVE Forward([f EXCEPT ![x] = e], t)
  <2>1. PICK g : g = [f EXCEPT ![x] = e]
    OBVIOUS
  <2>2. \A y \in Element : g[y] = IF y = x THEN e ELSE f[y]
    BY <2>1
  <2>3. Older(t, x, e)
    BY OlderAppend
  <2>4. Forward(g, t)
    BY <1>1, <2>2, <2>3 DEF Forward
  <2> QED BY <2>1, <2>4
<1> QED BY <1>1, <1>2

LEMMA ForwardSkip ==
    ASSUME NEW s \in Seq(Element), Distinct(s), NEW e \in Element, NEW f, Forward(f, s), NEW g,
           \A x \in Element : g[x] \in {f[x], Null} \/ (f[x] = e /\ g[x] = f[e])
    PROVE  Forward(g, s)
<1>1. SUFFICES ASSUME NEW x \in Element, g[x] # Null PROVE Older(s, x, g[x])
  BY DEF Forward
<1>2. CASE g[x] = f[x]
  BY <1>1, <1>2 DEF Forward
<1>3. CASE f[x] = e /\ g[x] = f[e]
  <2>1. Older(s, x, e) /\ Older(s, e, f[e])
    BY <1>1, <1>3, ElementFacts DEF Forward
  <2>2. Older(s, x, f[e])
    BY <2>1, OlderOrder
  <2> QED BY <1>3, <2>2
<1> QED BY <1>1, <1>2, <1>3

LEMMA LinkMutate ==
    ASSUME ContainerType, WalkType, LinksClear, kind = "linked", Plain
    PROVE  LinksClear'
<1> USE ElementFacts
<1>1. /\ ever \in Seq(Element) /\ Distinct(ever) /\ content \in Seq(Element)
      /\ Members(content) \subseteq Members(ever) /\ next \in [Element -> Known]
  BY DEF ContainerType
<1>2. /\ walk' = walk /\ result' = result /\ walk.pc \notin {"begin", "done"}
  BY DEF Plain, ArrayAdd, ArrayStore, LinkLast, HashPut, TreePut, ListRemove, Unlink, HashRemove,
         RotateLeft, RotateRight, HashResize, Java, Underway, Running
<1>3. ASSUME NEW N, N = next', NEW E, E = ever', Forward(N, E), \A x, y : Older(ever, x, y) => Older(E, x, y),
             NEW c, c = content', Follows(c, E)
      PROVE  LinksClear'
  <2>1. PICK R : R = Members(result) \ {Null} /\ R = (Members(result) \ {Null})'
    BY <1>2, Zenon
  <2>2. /\ walk.pc = "item" => \A r \in R : Older(E, r, walk.node)
        /\ walk.pc = "next" => \A r \in R : r = walk.node \/ Older(E, r, walk.node)
    BY <1>3, <2>1 DEF LinksClear
  <2>3. Clear(result)' /\ Forward(next, ever)' /\ Follows(content, ever)'
    BY <1>2, <1>3, Zenon DEF LinksClear
  <2> QED BY <1>2, <1>3, <2>1, <2>2, <2>3 DEF LinksClear
<1>4. ASSUME NEW e \in Element \ Members(ever), ever' = Append(ever, e), LinkLast(e)
      PROVE  LinksClear'
  <2>1. PICK E : E = ever' /\ E = Append(ever, e)
    BY <1>4
  <2>2. \A x, y : Older(ever, x, y) => Older(E, x, y)
    BY <1>1, <2>1, OlderAppend
  <2>3. Forward(next, E) /\ \A x \in Members(ever) : Forward([next EXCEPT ![x] = e], E)
    <3>1. Forward(next, ever)
      BY DEF LinksClear
    <3> QED BY <1>1, <2>1, <3>1, ForwardAdd
  <2>6. PICK c : c = content' /\ c = Append(content, e)
    BY <1>4 DEF LinkLast
  <2>7. Follows(c, E)
    BY <1>1, <2>1, <2>6, FollowsAppend DEF LinksClear
  <2>4. CASE content = <<>>
    <3>1. next' = next
      BY <1>4, <2>4 DEF LinkLast
    <3> QED BY <1>3, <2>1, <2>2, <2>3, <2>6, <2>7, <3>1
  <2>5. CASE content # <<>>
    <3>1. PICK x \in Members(ever) : x = Last(content)
      BY <1>1, <2>5, ContentKnown
    <3>2. PICK N : N = next' /\ N = [next EXCEPT ![x] = e]
      BY <1>4, <2>5, <3>1 DEF LinkLast
    <3>3. Forward(N, E)
      BY <2>3, <3>2
    <3> QED BY <1>3, <2>1, <2>2, <2>6, <2>7, <3>2, <3>3
  <2> QED BY <2>4, <2>5
<1>5. ASSUME NEW e \in Element, ever' = ever, Unlink(e) PROVE LinksClear'
  <2>1. next' = [[f \in Element |-> IF next[f] = e THEN next[e] ELSE next[f]] EXCEPT ![e] = Null]
    BY <1>5 DEF Unlink
  <2>2. PICK N : N = next' /\ \A x \in Element : N[x] \in {next[x], Null} \/ (next[x] = e /\ N[x] = next[e])
    BY <2>1
  <2>3. Forward(N, ever)
    <3>1. Forward(next, ever)
      BY DEF LinksClear
    <3> QED BY <1>1, <2>2, <3>1, ForwardSkip
  <2>4. PICK c : c = content' /\ c = Without(content, e) /\ e \in Members(content)
    BY <1>5 DEF Unlink
  <2>5. Follows(c, ever)
    BY <1>1, <2>4, FollowsWithout DEF LinksClear
  <2> QED BY <1>3, <1>5, <2>2, <2>3, <2>4, <2>5
<1> QED
  BY <1>4, <1>5 DEF Plain, ArrayAdd, ArrayStore, ListRemove, HashPut, TreePut, HashRemove,
     RotateLeft, RotateRight, HashResize

LEMMA LinkInsert ==
    ASSUME ContainerType, WalkType, LinksClear, Links
    PROVE  LinksClear'
<1> USE ElementFacts
<1>1. /\ ever \in Seq(Element) /\ Distinct(ever) /\ content \in Seq(Element)
      /\ Members(content) \subseteq Members(ever) /\ next \in [Element -> Known]
  BY DEF ContainerType
<1>2. PICK e \in Element \ Members(ever), i \in DOMAIN content : LinkBefore(e, i)
  BY DEF Links
<1>3. PICK p \in DOMAIN ever : p = Position(ever, content[i]) /\ ever[p] = content[i]
  <2>1. content[i] \in Members(ever)
    BY <1>1 DEF Members
  <2> QED BY <1>1, <2>1, PositionFacts
<1>4. PICK c : c = content' /\ c = InsertAt(content, i, e)
  BY <1>2 DEF LinkBefore
<1>5. PICK E : E = ever' /\ E = InsertAt(ever, p, e)
  BY <1>2, <1>3 DEF LinkBefore
<1>6. /\ Follows(c, E) /\ Older(E, e, content[i]) /\ \A j \in DOMAIN content : j < i => Older(E, content[j], e)
      /\ \A x, y : Older(ever, x, y) => Older(E, x, y)
  BY <1>1, <1>3, <1>4, <1>5, FollowsInsert DEF LinksClear
<1>7. PICK N : N = next'
  OBVIOUS
<1>8. ASSUME NEW x \in Element, N[x] # Null PROVE Older(E, x, N[x])
  <2>1. CASE i = 1 /\ N = [next EXCEPT ![e] = content[i]]
    <3>1. N[x] = IF x = e THEN content[i] ELSE next[x]
      BY <1>1, <2>1
    <3> QED BY <1>6, <1>8, <3>1 DEF LinksClear, Forward
  <2>2. CASE i # 1 /\ N = [next EXCEPT ![content[i - 1]] = e, ![e] = content[i]]
    <3>1. i - 1 \in DOMAIN content /\ i - 1 < i
      BY <1>1, <2>2
    <3>2. PICK y : y = content[i - 1] /\ Older(E, y, e)
      BY <1>6, <3>1
    <3>3. N[x] = IF x = e THEN content[i] ELSE IF x = y THEN e ELSE next[x]
      BY <1>1, <2>2, <3>2
    <3> QED BY <1>6, <1>8, <3>2, <3>3 DEF LinksClear, Forward
  <2> QED BY <1>2, <1>7, <2>1, <2>2 DEF LinkBefore
<1>9. Forward(N, E)
  BY <1>8 DEF Forward
<1>10. walk' = walk /\ result' = result /\ walk.pc \notin {"begin", "done"}
  BY <1>2 DEF LinkBefore, Java, Underway, Running
<1>11. PICK R : R = Members(result) \ {Null} /\ R = (Members(result) \ {Null})'
  BY <1>10, Zenon
<1>12. /\ walk.pc = "item" => \A r \in R : Older(E, r, walk.node)
       /\ walk.pc = "next" => \A r \in R : r = walk.node \/ Older(E, r, walk.node)
  BY <1>6, <1>11 DEF LinksClear
<1>13. Clear(result)' /\ Forward(next, ever)' /\ Follows(content, ever)'
  BY <1>4, <1>5, <1>6, <1>7, <1>9, <1>10, Zenon DEF LinksClear
<1> QED BY <1>5, <1>10, <1>11, <1>12, <1>13 DEF LinksClear

LEMMA LinkWalk ==
    ASSUME ContainerType, WalkType, LinksClear, kind = "linked", Walk
    PROVE  LinksClear'
<1> USE ElementFacts
<1>1. next' = next /\ ever' = ever /\ content' = content
  BY WalkIsStep, StepSame
<1>2. walk \in WalkRecord /\ result \in Seq(Known) /\ ever \in Seq(Element) /\ Distinct(ever)
  BY DEF WalkType, WalkRecord, ContainerType
<1>3. walk.pc \in {"begin", "done", "fields", "item", "next"}
  BY <1>2 DEF WalkRecord, Stages
<1>4. ASSUME NEW r, r = result', NEW w, w = walk', Clear(r),
             w.pc \in {"begin", "fields"} => r = <<>>,
             w.pc = "item" => \A x \in Members(r) \ {Null} : Older(ever, x, w.node),
             w.pc = "next" => \A x \in Members(r) \ {Null} : x = w.node \/ Older(ever, x, w.node)
      PROVE  LinksClear'
  <2>1. (Members(result) \ {Null})' = Members(r) \ {Null} /\ Clear(result)'
    BY <1>4, Zenon
  <2>2. Forward(next, ever)' /\ Follows(content, ever)'
    BY <1>1, Zenon DEF LinksClear
  <2> QED BY <1>1, <1>4, <2>1, <2>2 DEF LinksClear
<1>5. CASE BeginWalk
  <2>1. result' = result /\ result = <<>>
    BY <1>5 DEF BeginWalk, LinksClear
  <2>2. PICK l \in {"fields", "done"} : walk' = [walk EXCEPT !.n = size, !.pc = l]
    BY <1>5 DEF BeginWalk, GoOn
  <2>3. walk'.pc = l
    BY <1>2, <2>2 DEF WalkRecord
  <2> QED BY <1>4, <2>1, <2>3, NoMembers
<1>6. CASE ReadFields
  <2>1. result' = result /\ result = <<>>
    BY <1>6 DEF ReadFields, LinksClear
  <2>2. PICK l \in {"item", "done"} : walk' = [walk EXCEPT !.node = arrays[1][1], !.pc = l]
    BY <1>6 DEF ReadFields, GoOn
  <2>3. walk'.pc = l
    BY <1>2, <2>2 DEF WalkRecord
  <2> QED BY <1>4, <2>1, <2>3, NoMembers
<1>7. CASE ReadItem
  <2>1. walk.pc = "item" /\ result' = Append(result, item[walk.node]) /\ walk' = [walk EXCEPT !.pc = "next"]
    BY <1>7 DEF ReadItem, Push
  <2>2. walk'.pc = "next" /\ walk'.node = walk.node
    BY <1>2, <2>1 DEF WalkRecord
  <2>3. walk.node \in Element /\ walk.node \in Known /\ walk.node # Null
    <3>1. walk.node \in Known /\ walk.node # Null
      BY <1>2, <2>1 DEF WalkRecord, WalkType
    <3> QED BY <1>2, <3>1, MembersIn DEF Known
  <2>4. PICK x \in {walk.node, Null} : x = item[walk.node]
    BY <2>3 DEF ContainerType
  <2>5. x \in Known
    BY <2>3, <2>4 DEF Known
  <2>6. \A y \in Members(result) \ {Null} : Older(ever, y, walk.node)
    BY <2>1 DEF LinksClear
  <2>7. x = Null \/ x \notin Members(result)
    <3>1. walk.node \notin Members(result)
      BY <1>2, <2>3, <2>6, OlderOrder
    <3> QED BY <2>4, <3>1
  <2>8. PICK r : r = Append(result, x) /\ r = result'
    BY <2>1, <2>4
  <2>9. Clear(r) /\ Members(r) = Members(result) \cup {x}
    <3>1. Clear(result)
      BY DEF LinksClear
    <3>2. Clear(Append(result, x))
      BY <1>2, <2>5, <2>7, <3>1, ClearPush
    <3>3. Members(Append(result, x)) = Members(result) \cup {x}
      BY <1>2, <2>5, AppendFacts
    <3> QED BY <2>8, <3>2, <3>3
  <2>10. \A y \in Members(r) \ {Null} : y = walk.node \/ Older(ever, y, walk.node)
    BY <2>4, <2>6, <2>9
  <2> QED BY <1>4, <2>2, <2>8, <2>9, <2>10
<1>8. CASE ReadNext
  <2>1. walk.pc = "next" /\ result' = result
    BY <1>8 DEF ReadNext
  <2>2. PICK l \in {"item", "done"} :
           /\ walk' = [walk EXCEPT !.node = next[walk.node], !.index = walk.index + 1, !.pc = l]
           /\ l = "item" => next[walk.node] # Null
    BY <1>8 DEF ReadNext, GoOn
  <2>3. walk'.pc = l /\ walk'.node = next[walk.node]
    BY <1>2, <2>2 DEF WalkRecord
  <2>4. walk.node \in Element
    <3>1. walk.node \in Known /\ walk.node # Null
      BY <1>2, <2>1 DEF WalkRecord, WalkType
    <3> QED BY <1>2, <3>1, MembersIn DEF Known
  <2>5. ASSUME l = "item", NEW y \in Members(result) \ {Null} PROVE Older(ever, y, next[walk.node])
    <3>1. Older(ever, walk.node, next[walk.node])
      BY <2>2, <2>4, <2>5 DEF LinksClear, Forward
    <3>2. y = walk.node \/ Older(ever, y, walk.node)
      BY <2>1, <2>5 DEF LinksClear
    <3> QED BY <1>2, <3>1, <3>2, OlderOrder
  <2>6. Clear(result)
    BY DEF LinksClear
  <2> QED BY <1>4, <2>1, <2>3, <2>5, <2>6
<1> QED
  BY <1>3, <1>5, <1>6, <1>7, <1>8 DEF Walk, ReadElement, ReadBucket, ReadNode, Spine, Visit

\* The first element of a set behind e is younger than e.
LEMMA FirstOlder ==
    ASSUME NEW s \in Seq(Element), NEW e \in Members(s), NEW S, FirstIn(s, S, Position(s, e)) # Null
    PROVE  Older(s, e, FirstIn(s, S, Position(s, e))) /\ FirstIn(s, S, Position(s, e)) \in S
<1>1. PICK i \in DOMAIN s : i = Position(s, e) /\ s[i] = e
  BY PositionFacts
<1>2. i \in Nat
  OBVIOUS
<1>3. PICK k \in DOMAIN s : k > i /\ s[k] \in S /\ FirstIn(s, S, i) = s[k]
  BY <1>1, <1>2, FirstInFacts
<1>4. i < k
  BY <1>3
<1> QED BY <1>1, <1>3, <1>4 DEF Older

LEMMA LinkInit ==
    ASSUME NEW k \in Kind, NEW s \in Seq(Element), Distinct(s), Filled(k, s), k = "linked"
    PROVE  LinksClear
<1>1. /\ next = Chain(s) /\ ever = s /\ content = s /\ walk = NoWalk /\ result = <<>>
  BY DEF Filled
<1>2. \A e \in Element : next[e] = IF e \in Members(s) THEN FirstIn(s, Element, Position(s, e)) ELSE Null
  BY <1>1 DEF Chain
<1>3. Forward(next, s) /\ Follows(s, s)
  BY <1>2, FirstOlder DEF Forward, Follows, Older
<1> QED BY <1>1, <1>3, NoMembers DEF LinksClear, NoWalk

-----------------------------------------------------------------------------
(* Tables of chains.  Links stay within a bucket of the first table, also  *)
(* when the second one splits it, and the walk leaves a bucket for good.   *)

\* Links within buckets; chains at their buckets.
Grouped(f) == \A x \in Element : f[x] # Null => BucketOf(f[x], 1) = BucketOf(x, 1)
InPlace(a) == \A b \in DOMAIN a : a[b] # Null => BucketOf(a[b], 1) = b

HashClear ==
    /\ Clear(result) /\ Forward(next, ever) /\ Grouped(next) /\ Follows(content, ever) /\ InPlace(arrays[1])
    /\ walk.arr = 1
    /\ walk.pc = "begin" => table = 1 /\ result = <<>>
    /\ \A r \in Members(result) \ {Null} : BucketOf(r, 1) <= walk.index
    /\ walk.pc = "node" /\ walk.node # Null =>
          /\ BucketOf(walk.node, 1) = walk.index
          /\ \A r \in Members(result) \ {Null} : BucketOf(r, 1) = walk.index => Older(ever, r, walk.node)

LEMMA SameBucket ==
    ASSUME NEW x \in Element, NEW y \in Element, NEW t \in {1, 2}, BucketOf(x, t) = BucketOf(y, t)
    PROVE  BucketOf(x, 1) = BucketOf(y, 1)
BY BucketFacts

LEMMA BucketRange ==
    ASSUME NEW e \in Element, NEW t \in {1, 2}
    PROVE  BucketOf(e, t) \in 1..(t * Buckets) /\ BucketOf(e, t) \in Nat
<1>1. CASE t = 1
  BY <1>1, BucketFacts, CollectionWalkAssumption
<1>2. CASE t = 2
  BY <1>2, BucketFacts
<1> QED BY <1>1, <1>2

LEMMA InPlaceSet ==
    ASSUME NEW S, NEW a \in Seq(S), NEW T, NEW b \in Seq(T), NEW i, NEW e, Overwritten(a, i, e, b), InPlace(a),
           e # Null => BucketOf(e, 1) = i
    PROVE  InPlace(b)
<1>1. DOMAIN b = DOMAIN a
  BY DEF Overwritten
<1> QED BY <1>1 DEF InPlace, Overwritten

LEMMA HashMutate ==
    ASSUME ContainerType, WalkType, Loose, HashClear, kind = "hash", Plain
    PROVE  HashClear'
<1> USE ElementFacts
<1>1. /\ ever \in Seq(Element) /\ Distinct(ever) /\ content \in Seq(Element) /\ Distinct(content)
      /\ Members(content) \subseteq Members(ever) /\ Members(content) \subseteq Element
      /\ next \in [Element -> Known] /\ table \in {1, 2} /\ table \in 1..2
      /\ arrays \in [1..2 -> Seq(Known)] /\ arrays[1] \in Seq(Known)
      /\ Len(arrays[table]) = table * Buckets
  <2>1. /\ ever \in Seq(Element) /\ Distinct(ever) /\ content \in Seq(Element) /\ Distinct(content)
        /\ Members(content) \subseteq Members(ever)
        /\ next \in [Element -> Known] /\ table \in {1, 2}
        /\ arrays \in [1..2 -> Seq(Known)]
        /\ Len(arrays[1]) = Buckets /\ (table = 2 => Len(arrays[2]) = 2 * Buckets)
    BY DEF ContainerType
  <2>2. Len(arrays[table]) = table * Buckets
    <3>1. CASE table = 1
      BY <2>1, <3>1, CollectionWalkAssumption
    <3>2. CASE table = 2
      BY <2>1, <3>2
    <3> QED BY <2>1, <3>1, <3>2
  <2>3. Members(content) \subseteq Element
    BY <2>1, MembersIn
  <2> QED BY <2>1, <2>2, <2>3
<1>2. /\ walk' = walk /\ result' = result /\ walk.pc \notin {"begin", "done"}
  BY DEF Plain, ArrayAdd, ArrayStore, LinkLast, HashPut, TreePut, ListRemove, Unlink, HashRemove,
         RotateLeft, RotateRight, HashResize, Java, Underway, Running
<1>3. Forward(next, ever) /\ Grouped(next) /\ Follows(content, ever) /\ InPlace(arrays[1])
  BY DEF HashClear
<1>4. ASSUME NEW N, N = next', NEW E, E = ever', NEW c, c = content', NEW a, a = arrays'[1],
             Forward(N, E), Grouped(N), Follows(c, E), InPlace(a),
             \A x, y : Older(ever, x, y) => Older(E, x, y)
      PROVE  HashClear'
  <2>1. PICK R : R = Members(result) \ {Null} /\ R = (Members(result) \ {Null})'
    BY <1>2, Zenon
  <2>2. walk.pc = "node" /\ walk.node # Null =>
           /\ BucketOf(walk.node, 1) = walk.index
           /\ \A r \in R : BucketOf(r, 1) = walk.index => Older(E, r, walk.node)
    BY <1>4, <2>1 DEF HashClear
  <2>3. \A r \in R : BucketOf(r, 1) <= walk.index
    BY <2>1 DEF HashClear
  <2>4. (Clear(result) /\ Forward(next, ever) /\ Grouped(next) /\ Follows(content, ever) /\ InPlace(arrays[1]))'
    BY <1>2, <1>4, Zenon DEF HashClear
  <2>5. walk.arr = 1
    BY DEF HashClear
  <2> QED BY <1>2, <1>4, <2>1, <2>2, <2>3, <2>4, <2>5 DEF HashClear
\* The table of the moment is written at one place.
<1>5. ASSUME NEW b \in 1..Len(arrays[table]), NEW T, Known \subseteq T, NEW e \in T,
             arrays' = [arrays EXCEPT ![table][b] = e], e # Null /\ table = 1 => BucketOf(e, 1) = b
      PROVE  InPlace(arrays'[1])
  <2>1. PICK A : A = [arrays EXCEPT ![table][b] = e] /\ A = arrays'
    BY <1>5
  <2>2. arrays \in [1..2 -> Seq(T)]
    BY <1>1, <1>5, SeqMono
  <2>3. /\ A \in [1..2 -> Seq(T)]
        /\ \A u \in 1..2 \ {table} : A[u] = arrays[u]
        /\ Len(A[table]) = Len(arrays[table])
        /\ A[table][b] = e
        /\ \A j \in 1..Len(arrays[table]) \ {b} : A[table][j] = arrays[table][j]
    BY <1>1, <2>1, <2>2, SetPlace
  <2>4. CASE table = 1
    <3>1. DOMAIN arrays[1] = 1..Len(arrays[1])
      BY <1>1
    <3>2. Overwritten(arrays[1], b, e, A[1]) /\ A[1] \in Seq(T)
      BY <2>3, <2>4, <3>1 DEF Overwritten
    <3>3. InPlace(A[1])
      BY <1>1, <1>3, <1>5, <2>4, <3>2, InPlaceSet
    <3> QED BY <2>1, <3>3
  <2>5. CASE table # 1
    <3>1. A[1] = arrays[1]
      BY <2>3, <2>5
    <3> QED BY <1>3, <2>1, <3>1
  <2> QED BY <2>4, <2>5
<1>6. ASSUME NEW e \in Element \ Members(ever), ever' = Append(ever, e), HashPut(e)
      PROVE  HashClear'
  <2>1. PICK E : E = ever' /\ E = Append(ever, e)
    BY <1>6
  <2>2. \A x, y : Older(ever, x, y) => Older(E, x, y)
    BY <1>1, <2>1, OlderAppend
  <2>3. Forward(next, E) /\ \A x \in Members(ever) : Forward([next EXCEPT ![x] = e], E)
    BY <1>1, <1>3, <2>1, ForwardAdd
  <2>4. PICK c : c = content' /\ c = Append(content, e)
    BY <1>6 DEF HashPut
  <2>5. Follows(c, E)
    BY <1>1, <1>3, <2>1, <2>4, FollowsAppend
  <2>6. PICK bucket : bucket = InBucket(BucketOf(e, table), table)
    OBVIOUS
  <2>7. CASE bucket \cap Members(content) = {}
    <3>1. arrays' = [arrays EXCEPT ![table][BucketOf(e, table)] = e] /\ next' = next
      BY <1>6, <2>6, <2>7 DEF HashPut
    <3>2. PICK b \in 1..Len(arrays[table]) : b = BucketOf(e, table)
      BY <1>1, BucketRange
    <3>3. PICK T : T = Known \cup {e}
      OBVIOUS
    <3>4. InPlace(arrays'[1])
      <4>1. arrays' = [arrays EXCEPT ![table][b] = e] /\ Known \subseteq T /\ e \in T /\ (e # Null /\ table = 1 => BucketOf(e, 1) = b)
        BY <3>1, <3>2, <3>3
      <4> QED BY <1>5, <4>1
    <3> QED BY <1>3, <1>4, <2>1, <2>2, <2>3, <2>4, <2>5, <3>1, <3>4
  <2>8. CASE bucket \cap Members(content) # {}
    <3>1. PICK x \in Members(content) : x = LastIn(content, bucket) /\ x \in bucket
      <4>1. PICK s \in Seq(Element) : s = content /\ bucket \cap Members(s) # {}
        BY <1>1, <2>8, Zenon
      <4>2. PICK k \in DOMAIN s : s[k] \in bucket /\ LastIn(s, bucket) = s[k]
        BY <4>1, LastInFacts
      <4> QED BY <4>1, <4>2 DEF Members
    <3>2. BucketOf(e, 1) = BucketOf(x, 1)
      <4>1. x \in Element /\ BucketOf(x, table) = BucketOf(e, table)
        BY <2>6, <3>1 DEF InBucket
      <4> QED BY <1>1, <4>1, SameBucket
    <3>3. PICK N : N = next' /\ N = [next EXCEPT ![x] = e]
      BY <1>6, <2>6, <2>8, <3>1 DEF HashPut
    <3>4. arrays' = arrays
      BY <1>6, <2>6, <2>8 DEF HashPut
    <3>5. Forward(N, E)
      <4>1. x \in Members(ever)
        BY <1>1, <3>1
      <4>2. Forward([next EXCEPT ![x] = e], E)
        BY <2>3, <4>1
      <4> QED BY <3>3, <4>2
    <3>6. Grouped(N)
      <4>1. \A y \in Element : N[y] = IF y = x THEN e ELSE next[y]
        BY <1>1, <3>3
      <4> QED BY <1>3, <3>2, <4>1 DEF Grouped
    <3> QED BY <1>3, <1>4, <2>1, <2>2, <2>4, <2>5, <3>3, <3>4, <3>5, <3>6
  <2> QED BY <2>7, <2>8
<1>7. ASSUME NEW e \in Element, ever' = ever, HashRemove(e) PROVE HashClear'
  <2>1. PICK b \in 1..Len(arrays[table]) : b = BucketOf(e, table)
    BY <1>1, BucketRange
  <2>2. PICK r \in Seq(Element) : r = Without(content, e) /\ Members(r) \subseteq Members(ever) /\ Follows(r, ever)
    <3>1. e \in Members(content)
      BY <1>7 DEF HashRemove
    <3> QED BY <1>1, <1>3, <3>1, WithoutFacts, DistinctWithout, FollowsWithout
  <2>3. PICK x \in Known : x = FirstIn(r, InBucket(b, table), 0) /\ (x # Null => x \in InBucket(b, table))
    <3>1. PICK S : S = InBucket(b, table)
      OBVIOUS
    <3>2. FirstIn(r, S, 0) = Null \/ \E k \in DOMAIN r : r[k] \in S /\ FirstIn(r, S, 0) = r[k]
      BY FirstInFacts
    <3> QED BY <2>2, <3>1, <3>2 DEF Known, Members
  <2>4. /\ arrays' = [arrays EXCEPT ![table][b] = x] /\ content' = r
        /\ next' = [f \in Element |-> IF next[f] = e /\ f \in Members(content) THEN next[e] ELSE next[f]]
    BY <1>7, <2>1, <2>2, <2>3 DEF HashRemove
  <2>5. InPlace(arrays'[1])
    <3>1. x # Null /\ table = 1 => BucketOf(x, 1) = b
      BY <2>3 DEF InBucket
    <3> QED BY <1>5, <2>4, <3>1
  <2>6. PICK N : N = next' /\ \A y \in Element : N[y] = next[y] \/ (next[y] = e /\ N[y] = next[e])
    BY <2>4
  <2>7. Forward(N, ever)
    BY <1>1, <1>3, <2>6, ForwardSkip
  <2>8. Grouped(N)
    <3>1. ASSUME NEW y \in Element, N[y] # Null PROVE BucketOf(N[y], 1) = BucketOf(y, 1)
      <4>1. CASE N[y] = next[y]
        BY <1>3, <3>1, <4>1 DEF Grouped
      <4>2. CASE next[y] = e /\ N[y] = next[e]
        <5>1. BucketOf(e, 1) = BucketOf(y, 1) /\ BucketOf(next[e], 1) = BucketOf(e, 1)
          BY <1>3, <3>1, <4>2 DEF Grouped
        <5> QED BY <4>2, <5>1
      <4> QED BY <2>6, <4>1, <4>2
    <3> QED BY <3>1 DEF Grouped
  <2> QED BY <1>4, <1>7, <2>2, <2>4, <2>5, <2>6, <2>7, <2>8
<1>8. ASSUME ever' = ever, HashResize PROVE HashClear'
  <2>1. /\ arrays' = <<[b \in DOMAIN arrays[1] |-> Null], Heads(content, 2)>> /\ content' = content
        /\ next' = [e \in Element |-> IF e \in Members(content) THEN HashLinks(content, 2)[e] ELSE next[e]]
    BY <1>8 DEF HashResize
  <2>2. InPlace(arrays'[1])
    BY <2>1 DEF InPlace
  <2>3. PICK N : N = next' /\ \A x \in Element :
                    N[x] = IF x \in Members(content) THEN FirstIn(content, InBucket(BucketOf(x, 2), 2), Position(content, x))
                           ELSE next[x]
    BY <2>1 DEF HashLinks
  <2>4. ASSUME NEW x \in Element, N[x] # Null PROVE Older(ever, x, N[x]) /\ BucketOf(N[x], 1) = BucketOf(x, 1)
    <3>1. CASE x \notin Members(content)
      BY <1>3, <2>3, <2>4, <3>1 DEF Forward, Grouped
    <3>2. CASE x \in Members(content)
      <4>1. PICK S : S = InBucket(BucketOf(x, 2), 2)
        OBVIOUS
      <4>2. N[x] = FirstIn(content, S, Position(content, x))
        BY <2>3, <3>2, <4>1
      <4>3. Older(content, x, N[x]) /\ N[x] \in S
        BY <1>1, <2>4, <3>2, <4>2, FirstOlder
      <4>4. N[x] \in Element /\ BucketOf(N[x], 2) = BucketOf(x, 2)
        BY <4>1, <4>3 DEF InBucket
      <4> QED BY <1>3, <4>3, <4>4, FollowsOlder, SameBucket
    <3> QED BY <3>1, <3>2
  <2>5. Forward(N, ever) /\ Grouped(N)
    BY <2>4 DEF Forward, Grouped
  <2> QED BY <1>3, <1>4, <1>8, <2>1, <2>2, <2>3, <2>5
<1> QED
  BY <1>6, <1>7, <1>8 DEF Plain, ArrayAdd, ArrayStore, ListRemove, LinkLast, TreePut, Unlink,
     RotateLeft, RotateRight

LEMMA HashWalk ==
    ASSUME ContainerType, WalkType, HashClear, kind = "hash", Walk
    PROVE  HashClear'
<1> USE ElementFacts
<1>1. next' = next /\ ever' = ever /\ content' = content /\ arrays' = arrays /\ table' = table
  BY WalkIsStep, StepSame
<1>2. /\ walk \in WalkRecord /\ result \in Seq(Known) /\ ever \in Seq(Element) /\ Distinct(ever)
      /\ arrays[1] \in Seq(Known) /\ next \in [Element -> Known]
  BY DEF WalkType, WalkRecord, ContainerType
<1>3. walk.pc \in {"begin", "done", "bucket", "node"} /\ walk.index \in Nat
  BY <1>2 DEF WalkRecord, Stages
<1>4. Members(result) \subseteq Known /\ Members(ever) \subseteq Element /\ \A x \in Known \ {Null} : x \in Element
  BY <1>2, MembersIn DEF Known
<1>5. ASSUME NEW r, r = result', NEW w, w = walk', Clear(r), w.arr = 1, w.pc # "begin",
             \A x \in Members(r) \ {Null} : BucketOf(x, 1) <= w.index,
             w.pc = "node" /\ w.node # Null =>
                /\ BucketOf(w.node, 1) = w.index
                /\ \A x \in Members(r) \ {Null} : BucketOf(x, 1) = w.index => Older(ever, x, w.node)
      PROVE  HashClear'
  <2>1. (Members(result) \ {Null})' = Members(r) \ {Null} /\ Clear(result)'
    BY <1>5, Zenon
  <2>2. (Forward(next, ever) /\ Grouped(next) /\ Follows(content, ever) /\ InPlace(arrays[1]))'
    BY <1>1, Zenon DEF HashClear
  <2> QED BY <1>1, <1>5, <2>1, <2>2 DEF HashClear
<1>6. CASE BeginWalk
  <2>1. result' = result /\ result = <<>> /\ table = 1
    BY <1>6 DEF BeginWalk, HashClear
  <2>2. walk' = [walk EXCEPT !.arr = table, !.n = Len(arrays[table]), !.pc = "bucket"]
    BY <1>6 DEF BeginWalk
  <2>3. walk'.pc = "bucket" /\ walk'.arr = 1
    BY <1>2, <2>1, <2>2 DEF WalkRecord
  <2> QED BY <1>5, <2>1, <2>3, NoMembers
<1>7. CASE ReadBucket
  <2>1. walk.pc = "bucket" /\ result' = result /\ Clear(result) /\ walk.arr = 1
    BY <1>7 DEF ReadBucket, HashClear
  <2>2. \A x \in Members(result) \ {Null} : BucketOf(x, 1) <= walk.index
    BY DEF HashClear
  <2>3. CASE walk.index < walk.n
    <3>1. PICK i \in Nat : i = walk.index + 1
      BY <1>3
    <3>2. PICK x : x = GetArrayElement(arrays[1], walk.index)
      OBVIOUS
    <3>3. walk' = [walk EXCEPT !.node = x, !.index = i, !.count = 0, !.pc = "node"]
      BY <1>7, <2>1, <2>3, <3>1, <3>2 DEF ReadBucket
    <3>4. walk'.pc = "node" /\ walk'.node = x /\ walk'.index = i /\ walk'.arr = 1
      BY <1>2, <2>1, <3>3 DEF WalkRecord
    <3>5. x # Null => BucketOf(x, 1) = i
      <4>1. CASE walk.index < Len(arrays[1])
        <5>1. i \in DOMAIN arrays[1] /\ x = arrays[1][i]
          BY <1>2, <1>3, <3>1, <3>2, <4>1 DEF GetArrayElement
        <5> QED BY <5>1 DEF HashClear, InPlace
      <4>2. CASE ~(walk.index < Len(arrays[1]))
        BY <3>2, <4>2 DEF GetArrayElement
      <4> QED BY <4>1, <4>2
    <3>6. ASSUME NEW y \in Members(result) \ {Null} PROVE BucketOf(y, 1) <= i /\ BucketOf(y, 1) # i
      <4>1. BucketOf(y, 1) \in Nat
        BY <1>4, BucketRange
      <4> QED BY <1>3, <2>2, <3>1, <4>1
    <3> QED BY <1>5, <2>1, <3>4, <3>5, <3>6
  <2>4. CASE ~(walk.index < walk.n)
    <3>1. walk' = [walk EXCEPT !.pc = "done"]
      BY <1>7, <2>4 DEF ReadBucket
    <3>2. walk'.pc = "done" /\ walk'.index = walk.index /\ walk'.arr = 1
      BY <1>2, <2>1, <3>1 DEF WalkRecord
    <3> QED BY <1>5, <2>1, <2>2, <3>2
  <2> QED BY <2>3, <2>4
<1>8. CASE ReadNode
  <2>1. walk.pc = "node" /\ Clear(result) /\ walk.arr = 1
    BY <1>8 DEF ReadNode, HashClear
  <2>2. \A x \in Members(result) \ {Null} : BucketOf(x, 1) <= walk.index
    BY DEF HashClear
  <2>3. CASE walk.node # Null /\ walk.count < MaxGuard
    <3>1. PICK x \in Known : x = walk.node /\ x # Null
      BY <1>2, <2>3 DEF WalkRecord
    <3>2. x \in Element
      BY <1>4, <3>1
    <3>3. BucketOf(x, 1) = walk.index /\ \A y \in Members(result) \ {Null} : BucketOf(y, 1) = walk.index => Older(ever, y, x)
      BY <2>1, <3>1 DEF HashClear
    <3>4. x \notin Members(result)
      BY <1>2, <3>1, <3>3, OlderOrder
    <3>5. PICK r : r = result' /\ r = Append(result, x)
      BY <1>8, <2>3, <3>1 DEF ReadNode, Push
    <3>6. Clear(Append(result, x)) /\ Members(Append(result, x)) = Members(result) \cup {x}
      BY <1>2, <2>1, <3>4, ClearPush, AppendFacts
    <3>7. Clear(r) /\ Members(r) = Members(result) \cup {x}
      BY <3>5, <3>6
    <3>8. walk' = [walk EXCEPT !.node = next[x], !.count = walk.count + 1]
      BY <1>8, <2>3, <3>1 DEF ReadNode
    <3>9. walk'.pc = "node" /\ walk'.node = next[x] /\ walk'.index = walk.index /\ walk'.arr = 1
      BY <1>2, <2>1, <3>8 DEF WalkRecord
    <3>10. \A y \in Members(r) \ {Null} : BucketOf(y, 1) <= walk.index
      BY <1>3, <2>2, <3>3, <3>7
    <3>11. ASSUME next[x] # Null
           PROVE  /\ BucketOf(next[x], 1) = walk.index
                  /\ \A y \in Members(r) \ {Null} : BucketOf(y, 1) = walk.index => Older(ever, y, next[x])
      <4>1. BucketOf(next[x], 1) = BucketOf(x, 1) /\ Older(ever, x, next[x])
        BY <3>2, <3>11 DEF HashClear, Grouped, Forward
      <4> QED BY <1>2, <3>3, <3>7, <4>1, OlderOrder
    <3> QED BY <1>5, <3>5, <3>7, <3>9, <3>10, <3>11
  <2>4. CASE ~(walk.node # Null /\ walk.count < MaxGuard)
    <3>1. walk' = [walk EXCEPT !.pc = "bucket"] /\ result' = result
      BY <1>8, <2>4 DEF ReadNode
    <3>2. walk'.pc = "bucket" /\ walk'.index = walk.index /\ walk'.arr = 1
      BY <1>2, <2>1, <3>1 DEF WalkRecord
    <3> QED BY <1>5, <2>1, <2>2, <3>1, <3>2
  <2> QED BY <2>3, <2>4
<1> QED
  BY <1>3, <1>6, <1>7, <1>8 DEF Walk, ReadFields, ReadElement, ReadItem, ReadNext, Spine, Visit

LEMMA HashInit ==
    ASSUME NEW k \in Kind, NEW s \in Seq(Element), Distinct(s), Filled(k, s), k = "hash"
    PROVE  HashClear
<1>1. /\ next = HashLinks(s, 1) /\ ever = s /\ content = s /\ walk = NoWalk /\ result = <<>> /\ table = 1
      /\ arrays[1] = Heads(s, 1)
  BY DEF Filled, ArrayOf
<1>2. ASSUME NEW e \in Element, next[e] # Null PROVE Older(s, e, next[e]) /\ BucketOf(next[e], 1) = BucketOf(e, 1)
  <2>1. PICK S : S = InBucket(BucketOf(e, 1), 1)
    OBVIOUS
  <2>2. e \in Members(s) /\ next[e] = FirstIn(s, S, Position(s, e))
    BY <1>1, <1>2, <2>1 DEF HashLinks
  <2>3. Older(s, e, next[e]) /\ next[e] \in S
    BY <1>2, <2>2, FirstOlder
  <2> QED BY <2>1, <2>3 DEF InBucket
<1>3. Follows(s, s)
  BY DEF Follows, Older
<1>4. InPlace(arrays[1])
  <2>1. DOMAIN arrays[1] = 1..(1 * Buckets)
    BY <1>1 DEF Heads
  <2>2. ASSUME NEW b \in DOMAIN arrays[1], arrays[1][b] # Null PROVE BucketOf(arrays[1][b], 1) = b
    <3>1. PICK S : S = InBucket(b, 1)
      OBVIOUS
    <3>2. arrays[1][b] = FirstIn(s, S, 0)
      BY <1>1, <2>1, <3>1 DEF Heads
    <3>3. FirstIn(s, S, 0) = Null \/ \E j \in DOMAIN s : s[j] \in S /\ FirstIn(s, S, 0) = s[j]
      BY FirstInFacts
    <3> QED BY <2>2, <3>1, <3>2, <3>3 DEF InBucket
  <2> QED BY <2>2 DEF InPlace
<1>5. Forward(next, ever) /\ Grouped(next)
  BY <1>1, <1>2 DEF Forward, Grouped
<1>6. Follows(content, ever)
  BY <1>1, <1>3
<1> QED BY <1>1, <1>4, <1>5, <1>6, NoMembers DEF HashClear, NoWalk

-----------------------------------------------------------------------------
(* Search trees.  lo[p] and hi[p] are the bounds of the subtree at p: an   *)
(* ancestor, or Null where there is none.                                  *)

Under(x, h) == h = Null \/ x < h

Bounded(lo, hi, s) ==
    \A p \in Members(s) :
        /\ lo[p] # Null => Older(s, lo[p], p) /\ lo[p] < p
        /\ hi[p] # Null => Older(s, hi[p], p) /\ p < hi[p]

\* The left subtrees, where f is "left", and the right ones, where g is "right".
Lefts(lo, hi, s, f) ==
    \A p \in Members(s) :
        /\ f[p] = Null => \A x \in Members(s) : ~(lo[p] < x /\ x < p)
        /\ f[p] # Null => lo[f[p]] = lo[p] /\ hi[f[p]] = p
Rights(lo, hi, s, g) ==
    \A p \in Members(s) :
        /\ g[p] = Null => \A x \in Members(s) : ~(p < x /\ Under(x, hi[p]))
        /\ g[p] # Null => lo[g[p]] = p /\ hi[g[p]] = hi[p]

SearchTree(lo, hi, s, f, g) ==
    /\ lo \in [Element -> Nat] /\ hi \in [Element -> Nat]
    /\ Bounded(lo, hi, s) /\ Lefts(lo, hi, s, f) /\ Rights(lo, hi, s, g)

\* With e in the tree, l and h are the bounds of the leaf.
LEMMA BoundedPut ==
    ASSUME NEW s \in Seq(Element), NEW e \in Element \ Members(s), NEW t, t = Append(s, e),
           NEW lo \in [Element -> Nat], NEW hi \in [Element -> Nat], Bounded(lo, hi, s),
           NEW l \in Nat, l = Null \/ (l \in Members(s) /\ l < e),
           NEW h \in Nat, h = Null \/ (h \in Members(s) /\ e < h)
    PROVE  Bounded([lo EXCEPT ![e] = l], [hi EXCEPT ![e] = h], t)
<1>1. PICK lo2, hi2 : lo2 = [lo EXCEPT ![e] = l] /\ hi2 = [hi EXCEPT ![e] = h]
  OBVIOUS
<1>2. /\ lo2[e] = l /\ hi2[e] = h
      /\ \A p \in Element \ {e} : lo2[p] = lo[p] /\ hi2[p] = hi[p]
  BY <1>1
<1>3. Members(t) = Members(s) \cup {e} /\ Members(s) \subseteq Element
  BY AppendFacts, MembersIn
<1>4. ASSUME NEW p \in Members(t)
      PROVE  /\ lo2[p] # Null => Older(t, lo2[p], p) /\ lo2[p] < p
             /\ hi2[p] # Null => Older(t, hi2[p], p) /\ p < hi2[p]
  <2>1. CASE p = e
    BY <1>2, <2>1, OlderAppend
  <2>2. CASE p # e
    <3>1. p \in Members(s) /\ lo2[p] = lo[p] /\ hi2[p] = hi[p]
      BY <1>2, <1>3, <2>2
    <3> QED BY <3>1, OlderAppend DEF Bounded
  <2> QED BY <2>1, <2>2
<1> QED BY <1>1, <1>4 DEF Bounded

\* A leaf right of p, the largest element below e.
LEMMA PutRight ==
    ASSUME NEW s \in Seq(Element), Distinct(s), NEW e \in Element \ Members(s), NEW t, t = Append(s, e),
           NEW lo, NEW hi, NEW f, NEW g \in [Element -> Members(s) \cup {Null}], SearchTree(lo, hi, s, f, g),
           f \in [Element -> Members(s) \cup {Null}], f[e] = Null, g[e] = Null,
           NEW p \in Members(s), Between(p, e) \cap Members(s) = {}, p < e, g[p] = Null
    PROVE  SearchTree([lo EXCEPT ![e] = p], [hi EXCEPT ![e] = hi[p]], t, f, [g EXCEPT ![p] = e])
<1> USE ElementFacts
<1>1. PICK lo2, hi2, g2 : lo2 = [lo EXCEPT ![e] = p] /\ hi2 = [hi EXCEPT ![e] = hi[p]] /\ g2 = [g EXCEPT ![p] = e]
  OBVIOUS
<1>2. /\ lo \in [Element -> Nat] /\ hi \in [Element -> Nat]
      /\ Bounded(lo, hi, s) /\ Lefts(lo, hi, s, f) /\ Rights(lo, hi, s, g)
  BY DEF SearchTree
<1>3. Members(t) = Members(s) \cup {e} /\ Members(s) \subseteq Element /\ p \in Element /\ p # e /\ p \in Nat /\ e \in Nat
  <2>1. Members(t) = Members(s) \cup {e}
    BY AppendFacts
  <2>2. Members(s) \subseteq Element
    BY MembersIn
  <2> QED BY <2>1, <2>2
<1>4. /\ lo2 \in [Element -> Nat] /\ hi2 \in [Element -> Nat] /\ lo2[e] = p /\ hi2[e] = hi[p]
      /\ \A q \in Element \ {e} : lo2[q] = lo[q] /\ hi2[q] = hi[q]
      /\ g2[p] = e /\ \A q \in Element \ {p} : g2[q] = g[q]
  BY <1>1, <1>2, <1>3
<1>5. \A x \in Members(s) : x \in Nat /\ x # Null /\ ~(p < x /\ x < e)
  BY <1>3 DEF Between
<1>6. hi[p] \in Nat /\ (hi[p] # Null => hi[p] \in Members(s) /\ Older(s, hi[p], p) /\ p < hi[p] /\ e < hi[p])
  <2>1. hi[p] \in Nat
    BY <1>2, <1>3
  <2>2. ASSUME hi[p] # Null PROVE hi[p] \in Members(s) /\ Older(s, hi[p], p) /\ p < hi[p] /\ e < hi[p]
    <3>1. Older(s, hi[p], p) /\ p < hi[p]
      BY <1>2, <2>2 DEF Bounded
    <3>2. hi[p] \in Members(s)
      BY <3>1, OlderOrder
    <3>3. hi[p] # e
      BY <3>2
    <3> QED BY <1>3, <1>5, <2>1, <3>1, <3>2, <3>3
  <2> QED BY <2>1, <2>2
<1>7. Bounded(lo2, hi2, t)
  BY <1>1, <1>2, <1>3, <1>6, BoundedPut
<1>8. ASSUME NEW q \in Members(t)
      PROVE  /\ f[q] = Null => \A x \in Members(t) : ~(lo2[q] < x /\ x < q)
             /\ f[q] # Null => lo2[f[q]] = lo2[q] /\ hi2[f[q]] = q
  <2>1. CASE q = e
    <3>1. ASSUME NEW x \in Members(t), p < x, x < e PROVE FALSE
      BY <1>3, <1>5, <3>1
    <3> QED BY <1>4, <2>1, <3>1
  <2>2. CASE q # e
    <3>1. q \in Members(s) /\ q \in Element /\ q \in Nat /\ lo2[q] = lo[q] /\ lo[q] \in Nat
      BY <1>2, <1>3, <1>4, <2>2
    <3>2. ASSUME f[q] # Null PROVE lo2[f[q]] = lo2[q] /\ hi2[f[q]] = q
      <4>1. f[q] \in Element \ {e}
        BY <1>3, <3>1, <3>2
      <4> QED BY <1>2, <1>4, <3>1, <3>2, <4>1 DEF Lefts
    <3>3. ASSUME f[q] = Null, NEW x \in Members(t), lo[q] < x, x < q PROVE FALSE
      <4>1. \A y \in Members(s) : ~(lo[q] < y /\ y < q)
        BY <1>2, <3>1, <3>3 DEF Lefts
      <4>2. x = e
        BY <1>3, <3>3, <4>1
      <4>3. ~(lo[q] < p)
        BY <1>3, <3>1, <3>3, <4>1, <4>2
      <4>4. lo[q] # Null
        BY <1>3, <1>5, <3>1, <4>3 DEF Null
      <4>5. Older(s, lo[q], q) /\ lo[q] \in Members(s)
        BY <1>2, <3>1, <4>4, OlderOrder DEF Bounded
      <4>6. lo[q] = p
        BY <1>3, <1>5, <3>1, <3>3, <4>2, <4>3, <4>5
      <4>7. ~Under(q, hi[p])
        BY <1>2, <1>3, <3>1, <3>3, <4>2 DEF Rights
      <4>8. hi[p] # Null /\ ~(q < hi[p])
        BY <4>7 DEF Under
      <4>9. ~(hi[p] < q)
        BY <1>6, <4>1, <4>6, <4>8
      <4>10. hi[p] = q
        BY <1>6, <3>1, <4>8, <4>9
      <4> QED BY <1>6, <4>5, <4>6, <4>8, <4>10, OlderOrder
    <3> QED BY <3>1, <3>2, <3>3
  <2> QED BY <2>1, <2>2
<1>9. ASSUME NEW q \in Members(t)
      PROVE  /\ g2[q] = Null => \A x \in Members(t) : ~(q < x /\ Under(x, hi2[q]))
             /\ g2[q] # Null => lo2[g2[q]] = q /\ hi2[g2[q]] = hi2[q]
  <2>1. CASE q = e
    <3>1. g2[q] = Null /\ hi2[q] = hi[p]
      BY <1>3, <1>4, <2>1
    <3>2. ASSUME NEW x \in Members(t), e < x, Under(x, hi[p]) PROVE FALSE
      <4>1. x \in Members(s) /\ p < x
        BY <1>3, <1>5, <3>2
      <4> QED BY <1>2, <3>2, <4>1 DEF Rights
    <3> QED BY <2>1, <3>1, <3>2
  <2>2. CASE q = p
    BY <1>3, <1>4, <2>2
  <2>3. CASE q # e /\ q # p
    <3>1. q \in Members(s) /\ q \in Element /\ q \in Nat /\ hi2[q] = hi[q] /\ hi[q] \in Nat /\ g2[q] = g[q]
      BY <1>2, <1>3, <1>4, <2>3
    <3>2. ASSUME g[q] # Null PROVE lo2[g[q]] = q /\ hi2[g[q]] = hi2[q]
      <4>1. g[q] \in Element \ {e}
        BY <1>3, <3>1, <3>2
      <4> QED BY <1>2, <1>4, <3>1, <3>2, <4>1 DEF Rights
    <3>3. ASSUME g[q] = Null, NEW x \in Members(t), q < x, Under(x, hi[q]) PROVE FALSE
      <4>1. \A y \in Members(s) : ~(q < y /\ Under(y, hi[q]))
        BY <1>2, <3>1, <3>3 DEF Rights
      <4>2. x = e
        BY <1>3, <3>3, <4>1
      <4>3. Under(p, hi[q])
        BY <1>3, <3>1, <3>3, <4>2 DEF Under
      <4>4. ~(q < p)
        BY <4>1, <4>3
      <4>5. p < q /\ q < e
        BY <1>3, <2>3, <3>1, <3>3, <4>2, <4>4
      <4> QED BY <1>5, <3>1, <4>5
    <3> QED BY <3>1, <3>2, <3>3
  <2> QED BY <2>1, <2>2, <2>3
<1> QED BY <1>1, <1>4, <1>7, <1>8, <1>9 DEF SearchTree, Lefts, Rights

\* A leaf left of p, the smallest element above e.
LEMMA PutLeft ==
    ASSUME NEW s \in Seq(Element), Distinct(s), NEW e \in Element \ Members(s), NEW t, t = Append(s, e),
           NEW lo, NEW hi, NEW g, NEW f \in [Element -> Members(s) \cup {Null}], SearchTree(lo, hi, s, f, g),
           g \in [Element -> Members(s) \cup {Null}], f[e] = Null, g[e] = Null,
           NEW p \in Members(s), Between(p, e) \cap Members(s) = {}, e < p, f[p] = Null
    PROVE  SearchTree([lo EXCEPT ![e] = lo[p]], [hi EXCEPT ![e] = p], t, [f EXCEPT ![p] = e], g)
<1> USE ElementFacts
<1>1. PICK lo2, hi2, f2 : lo2 = [lo EXCEPT ![e] = lo[p]] /\ hi2 = [hi EXCEPT ![e] = p] /\ f2 = [f EXCEPT ![p] = e]
  OBVIOUS
<1>2. /\ lo \in [Element -> Nat] /\ hi \in [Element -> Nat]
      /\ Bounded(lo, hi, s) /\ Lefts(lo, hi, s, f) /\ Rights(lo, hi, s, g)
  BY DEF SearchTree
<1>3. Members(t) = Members(s) \cup {e} /\ Members(s) \subseteq Element /\ p \in Element /\ p # e /\ p \in Nat /\ e \in Nat
  <2>1. Members(t) = Members(s) \cup {e}
    BY AppendFacts
  <2>2. Members(s) \subseteq Element
    BY MembersIn
  <2> QED BY <2>1, <2>2
<1>4. /\ lo2 \in [Element -> Nat] /\ hi2 \in [Element -> Nat] /\ lo2[e] = lo[p] /\ hi2[e] = p
      /\ \A q \in Element \ {e} : lo2[q] = lo[q] /\ hi2[q] = hi[q]
      /\ f2[p] = e /\ \A q \in Element \ {p} : f2[q] = f[q]
  BY <1>1, <1>2, <1>3
<1>5. \A x \in Members(s) : x \in Nat /\ x # Null /\ ~(e < x /\ x < p)
  BY <1>3 DEF Between
<1>6. lo[p] \in Nat /\ (lo[p] # Null => lo[p] \in Members(s) /\ Older(s, lo[p], p) /\ lo[p] < p /\ lo[p] < e)
  <2>1. lo[p] \in Nat
    BY <1>2, <1>3
  <2>2. ASSUME lo[p] # Null PROVE lo[p] \in Members(s) /\ Older(s, lo[p], p) /\ lo[p] < p /\ lo[p] < e
    <3>1. Older(s, lo[p], p) /\ lo[p] < p
      BY <1>2, <2>2 DEF Bounded
    <3>2. lo[p] \in Members(s)
      BY <3>1, OlderOrder
    <3>3. lo[p] # e
      BY <3>2
    <3> QED BY <1>3, <1>5, <2>1, <3>1, <3>2, <3>3
  <2> QED BY <2>1, <2>2
<1>7. Bounded(lo2, hi2, t)
  BY <1>1, <1>2, <1>3, <1>6, BoundedPut
<1>8. ASSUME NEW q \in Members(t)
      PROVE  /\ g[q] = Null => \A x \in Members(t) : ~(q < x /\ Under(x, hi2[q]))
             /\ g[q] # Null => lo2[g[q]] = q /\ hi2[g[q]] = hi2[q]
  <2>1. CASE q = e
    <3>1. ASSUME NEW x \in Members(t), e < x, x < p PROVE FALSE
      BY <1>3, <1>5, <3>1
    <3>2. p # Null
      BY <1>5
    <3> QED BY <1>4, <2>1, <3>1, <3>2 DEF Under
  <2>2. CASE q # e
    <3>1. q \in Members(s) /\ q \in Element /\ q \in Nat /\ q # Null /\ hi2[q] = hi[q] /\ hi[q] \in Nat /\ lo2[q] = lo[q]
      BY <1>2, <1>3, <1>4, <2>2
    <3>2. ASSUME g[q] # Null PROVE lo2[g[q]] = q /\ hi2[g[q]] = hi2[q]
      <4>1. g[q] \in Element \ {e}
        BY <1>3, <3>1, <3>2
      <4> QED BY <1>2, <1>4, <3>1, <3>2, <4>1 DEF Rights
    <3>3. ASSUME g[q] = Null, NEW x \in Members(t), q < x, Under(x, hi[q]) PROVE FALSE
      <4>1. \A y \in Members(s) : ~(q < y /\ Under(y, hi[q]))
        BY <1>2, <3>1, <3>3 DEF Rights
      <4>2. x = e
        BY <1>3, <3>3, <4>1
      <4>3. ~Under(p, hi[q])
        BY <1>3, <3>1, <3>3, <4>1, <4>2
      <4>4. hi[q] # Null /\ ~(p < hi[q]) /\ e < hi[q]
        BY <3>3, <4>2, <4>3 DEF Under
      <4>5. Older(s, hi[q], q) /\ hi[q] \in Members(s)
        BY <1>2, <3>1, <4>4, OlderOrder DEF Bounded
      <4>6. hi[q] = p
        BY <1>3, <1>5, <3>1, <4>4, <4>5
      <4>7. ~(lo[p] < q)
        BY <1>2, <1>3, <3>1, <3>3, <4>2 DEF Lefts
      <4>8. lo[p] # Null
        BY <3>1, <4>7 DEF Null
      <4>9. ~(q < lo[p])
        BY <1>6, <4>1, <4>6, <4>8 DEF Under
      <4>10. lo[p] = q
        BY <1>6, <3>1, <4>7, <4>9
      <4> QED BY <1>6, <4>5, <4>6, <4>8, <4>10, OlderOrder
    <3> QED BY <3>1, <3>2, <3>3
  <2> QED BY <2>1, <2>2
<1>9. ASSUME NEW q \in Members(t)
      PROVE  /\ f2[q] = Null => \A x \in Members(t) : ~(lo2[q] < x /\ x < q)
             /\ f2[q] # Null => lo2[f2[q]] = lo2[q] /\ hi2[f2[q]] = q
  <2>1. CASE q = e
    <3>1. f2[q] = Null /\ lo2[q] = lo[p]
      BY <1>3, <1>4, <2>1
    <3>2. ASSUME NEW x \in Members(t), lo[p] < x, x < e PROVE FALSE
      <4>1. x \in Members(s) /\ x < p
        BY <1>3, <1>5, <3>2
      <4> QED BY <1>2, <3>2, <4>1 DEF Lefts
    <3> QED BY <2>1, <3>1, <3>2
  <2>2. CASE q = p
    BY <1>3, <1>4, <2>2
  <2>3. CASE q # e /\ q # p
    <3>1. q \in Members(s) /\ q \in Element /\ q \in Nat /\ lo2[q] = lo[q] /\ lo[q] \in Nat /\ f2[q] = f[q]
      BY <1>2, <1>3, <1>4, <2>3
    <3>2. ASSUME f[q] # Null PROVE lo2[f[q]] = lo2[q] /\ hi2[f[q]] = q
      <4>1. f[q] \in Element \ {e}
        BY <1>3, <3>1, <3>2
      <4> QED BY <1>2, <1>4, <3>1, <3>2, <4>1 DEF Lefts
    <3>3. ASSUME f[q] = Null, NEW x \in Members(t), lo[q] < x, x < q PROVE FALSE
      <4>1. \A y \in Members(s) : ~(lo[q] < y /\ y < q)
        BY <1>2, <3>1, <3>3 DEF Lefts
      <4>2. x = e
        BY <1>3, <3>3, <4>1
      <4>3. lo[q] < p
        BY <1>3, <3>1, <3>3, <4>2
      <4>4. ~(p < q)
        BY <4>1, <4>3
      <4>5. e < q /\ q < p
        BY <1>3, <2>3, <3>1, <3>3, <4>2, <4>4
      <4> QED BY <1>5, <3>1, <4>5
    <3> QED BY <3>1, <3>2, <3>3
  <2> QED BY <2>1, <2>2, <2>3
<1> QED BY <1>1, <1>4, <1>7, <1>8, <1>9 DEF SearchTree, Lefts, Rights

\* The first node of a tree.
LEMMA PutRoot ==
    ASSUME NEW s \in Seq(Element), Members(s) = {}, NEW e \in Element, NEW t, t = Append(s, e), NEW lo, NEW hi, NEW f, NEW g,
           SearchTree(lo, hi, s, f, g), f[e] = Null, g[e] = Null
    PROVE  SearchTree([lo EXCEPT ![e] = Null], [hi EXCEPT ![e] = Null], t, f, g)
<1>1. PICK lo2, hi2 : lo2 = [lo EXCEPT ![e] = Null] /\ hi2 = [hi EXCEPT ![e] = Null]
  OBVIOUS
<1>2. lo \in [Element -> Nat] /\ hi \in [Element -> Nat] /\ Null \in Nat
  BY ElementFacts DEF SearchTree
<1>3. lo2 \in [Element -> Nat] /\ hi2 \in [Element -> Nat] /\ lo2[e] = Null /\ hi2[e] = Null
  BY <1>1, <1>2
<1>4. Members(t) = {e} /\ e \in Nat
  <2>1. Members(t) = Members(s) \cup {e}
    BY AppendFacts
  <2> QED BY <2>1, ElementFacts
<1>5. ~(e < e)
  BY <1>4
<1>6. Bounded(lo2, hi2, t) /\ Lefts(lo2, hi2, t, f) /\ Rights(lo2, hi2, t, g)
  BY <1>3, <1>4, <1>5 DEF Bounded, Lefts, Rights
<1> QED BY <1>1, <1>3, <1>6 DEF SearchTree

\* The bounds of p among the elements put before it.
IsLow(s, p, l) ==
    /\ l = Null \/ (Older(s, l, p) /\ l < p)
    /\ \A x \in Members(s) : Older(s, x, p) /\ x < p => x <= l
IsHigh(s, p, h) ==
    /\ h = Null \/ (Older(s, h, p) /\ p < h)
    /\ \A x \in Members(s) : Older(s, x, p) /\ p < x => h # Null /\ h <= x

LEMMA BoundsExist ==
    ASSUME NEW s \in Seq(Element), NEW p \in Members(s)
    PROVE  (\E l \in Nat : IsLow(s, p, l)) /\ (\E h \in Nat : IsHigh(s, p, h))
<1> USE ElementFacts
<1>1. Members(s) \subseteq Nat /\ p \in Nat /\ \A x \in Members(s) : x # Null
  BY MembersIn
<1>2. \E l \in Nat : IsLow(s, p, l)
  <2>1. PICK S : S = {x \in Members(s) : Older(s, x, p) /\ x < p}
    OBVIOUS
  <2>2. CASE S = {}
    <3>1. IsLow(s, p, Null)
      BY <2>1, <2>2 DEF IsLow
    <3> QED BY <3>1
  <2>3. CASE S # {}
    <3>1. S \subseteq 1..p
      BY <1>1, <2>1 DEF Null
    <3>2. PICK l \in S : \A y \in S : l >= y
      BY <1>1, <2>3, <3>1, GreatestNat
    <3>3. l \in Nat /\ Older(s, l, p) /\ l < p
      BY <1>1, <2>1
    <3>4. \A x \in Members(s) : Older(s, x, p) /\ x < p => x <= l
      BY <1>1, <2>1, <3>2, <3>3
    <3> QED BY <3>3, <3>4 DEF IsLow
  <2> QED BY <2>2, <2>3
<1>3. \E h \in Nat : IsHigh(s, p, h)
  <2>1. PICK S : S = {x \in Members(s) : Older(s, x, p) /\ p < x}
    OBVIOUS
  <2>2. CASE S = {}
    <3>1. IsHigh(s, p, Null)
      BY <2>1, <2>2 DEF IsHigh
    <3> QED BY <3>1
  <2>3. CASE S # {}
    <3>1. S \subseteq Nat
      BY <1>1, <2>1
    <3>2. PICK h \in S : \A y \in S : ~(y < h)
      BY <2>3, <3>1, LeastNat
    <3>3. h \in Nat /\ h # Null /\ Older(s, h, p) /\ p < h
      BY <1>1, <2>1
    <3>4. \A x \in Members(s) : Older(s, x, p) /\ p < x => h <= x
      BY <1>1, <2>1, <3>2, <3>3
    <3> QED BY <3>3, <3>4 DEF IsHigh
  <2> QED BY <2>2, <2>3
<1> QED BY <1>2, <1>3

LEMMA BoundsUnique ==
    ASSUME NEW s \in Seq(Element), Distinct(s), NEW p \in Members(s), NEW a \in Nat, NEW b \in Nat
    PROVE  /\ IsLow(s, p, a) /\ IsLow(s, p, b) => a = b
           /\ IsHigh(s, p, a) /\ IsHigh(s, p, b) => a = b
<1>1. \A x : Older(s, x, p) => x \in Members(s)
  BY OlderOrder
<1>2. ASSUME IsLow(s, p, a), IsLow(s, p, b) PROVE a = b
  BY <1>1, <1>2 DEF IsLow, Null
<1>3. ASSUME IsHigh(s, p, a), IsHigh(s, p, b) PROVE a = b
  <2>1. CASE a = Null
    BY <1>1, <1>3, <2>1 DEF IsHigh
  <2>2. CASE b = Null
    BY <1>1, <1>3, <2>2 DEF IsHigh
  <2>3. CASE a # Null /\ b # Null
    <3>1. a <= b /\ b <= a
      BY <1>1, <1>3, <2>3 DEF IsHigh
    <3> QED BY <3>1
  <2> QED BY <2>1, <2>2, <2>3
<1> QED BY <1>2, <1>3

LEMMA OlderTotal ==
    ASSUME NEW s \in Seq(Element), NEW x \in Members(s), NEW y \in Members(s), x # y
    PROVE  Older(s, x, y) \/ Older(s, y, x)
<1>1. PICK i \in DOMAIN s, j \in DOMAIN s : s[i] = x /\ s[j] = y
  BY DEF Members
<1>2. i < j \/ j < i
  BY <1>1
<1> QED BY <1>1, <1>2 DEF Older

LEMMA BelowFacts ==
    ASSUME NEW s \in Seq(Element), Distinct(s), NEW p \in Members(s), NEW x \in Element
    PROVE  x \in Below(s, p) <=> \A y \in Members(s) : Older(s, y, p) => y # x /\ y \notin Between(x, p)
<1>1. PICK k \in DOMAIN s : k = Position(s, p) /\ s[k] = p
  BY PositionFacts
<1>2. k \in Nat /\ 1..(k - 1) \subseteq DOMAIN s
  BY <1>1
<1>3. ASSUME NEW y \in Members(s) PROVE Older(s, y, p) <=> \E i \in 1..(k - 1) : s[i] = y
  <2>1. ASSUME Older(s, y, p) PROVE \E i \in 1..(k - 1) : s[i] = y
    <3>1. PICK i \in DOMAIN s, j \in DOMAIN s : i < j /\ s[i] = y /\ s[j] = p
      BY <2>1 DEF Older
    <3>2. j = k
      BY <1>1, <3>1 DEF Distinct
    <3>3. i \in 1..(k - 1)
      BY <3>1, <3>2
    <3> QED BY <3>1, <3>3
  <2>2. ASSUME NEW i \in 1..(k - 1), s[i] = y PROVE Older(s, y, p)
    <3>1. i \in DOMAIN s /\ i < k
      BY <1>2, <2>2
    <3> QED BY <1>1, <2>2, <3>1 DEF Older
  <2> QED BY <2>1, <2>2
<1>4. x \in Below(s, p) <=> \A i \in 1..(k - 1) : s[i] # x /\ s[i] \notin Between(x, p)
  BY <1>1 DEF Below
<1>5. \A i \in 1..(k - 1) : s[i] \in Members(s)
  BY <1>2 DEF Members
<1> QED BY <1>3, <1>4, <1>5

\* What FirstIn() finds came before the others of the set.
LEMMA FirstOfAll ==
    ASSUME NEW s \in Seq(Element), Distinct(s), NEW S
    PROVE  \/ FirstIn(s, S, 0) = Null /\ Members(s) \cap S = {}
           \/ /\ FirstIn(s, S, 0) \in Members(s) \cap S
              /\ \A y \in Members(s) : Older(s, y, FirstIn(s, S, 0)) => y \notin S
<1>1. \A j \in DOMAIN s : j > 0
  OBVIOUS
<1>2. CASE FirstIn(s, S, 0) = Null /\ \A j \in DOMAIN s : j > 0 => s[j] \notin S
  BY <1>1, <1>2 DEF Members
<1>3. CASE \E k \in DOMAIN s :
              /\ k > 0 /\ s[k] \in S /\ FirstIn(s, S, 0) = s[k]
              /\ \A j \in DOMAIN s : 0 < j /\ j < k => s[j] \notin S
  <2>1. PICK k \in DOMAIN s : s[k] \in S /\ FirstIn(s, S, 0) = s[k] /\ \A j \in DOMAIN s : j < k => s[j] \notin S
    BY <1>1, <1>3
  <2>2. ASSUME NEW y, Older(s, y, s[k]) PROVE y \notin S
    <3>1. PICK i \in DOMAIN s, j \in DOMAIN s : i < j /\ s[i] = y /\ s[j] = s[k]
      BY <2>2 DEF Older
    <3>2. j = k
      BY <3>1 DEF Distinct
    <3> QED BY <2>1, <3>1, <3>2
  <2> QED BY <2>1, <2>2 DEF Members
<1>4. 0 \in Nat
  OBVIOUS
<1> QED BY <1>2, <1>3, <1>4, FirstInFacts

\* The child on the left: its bounds are those of p and p itself.
LEMMA LeftChild ==
    ASSUME NEW s \in Seq(Element), Distinct(s), NEW p \in Members(s), NEW l \in Nat, IsLow(s, p, l),
           NEW c, c = FirstIn(s, {x \in Below(s, p) : x < p}, 0)
    PROVE  /\ c = Null => \A x \in Members(s) : ~(l < x /\ x < p)
           /\ c # Null => c \in Members(s) /\ IsLow(s, c, l) /\ IsHigh(s, c, p)
<1> USE ElementFacts
<1>1. PICK S : S = {x \in Below(s, p) : x < p}
  OBVIOUS
<1>2. Members(s) \subseteq Element /\ Members(s) \subseteq Nat /\ p \in Nat /\ \A x \in Members(s) : x # Null
  BY MembersIn
<1>3. \A x, y : Older(s, x, y) => x \in Members(s) /\ x # y /\ ~Older(s, y, x)
  BY OlderOrder
<1>4. \A x \in Members(s) : Older(s, x, p) /\ x < p => x <= l
  BY DEF IsLow
\* Between l and p, what came after p is below it.
<1>5. ASSUME NEW x \in Members(s), x < p, l < x PROVE x \in S
  <2>1. ASSUME NEW y \in Members(s), Older(s, y, p) PROVE y # x /\ y \notin Between(x, p)
    <3>1. y \in Nat /\ x \in Nat /\ (y < p => y <= l)
      BY <1>2, <1>4, <2>1
    <3>2. y # x
      BY <1>5, <3>1
    <3>3. ~((x < y /\ y < p) \/ (p < y /\ y < x))
      BY <1>2, <1>5, <3>1
    <3> QED BY <3>2, <3>3 DEF Between
  <2>2. x \in Below(s, p)
    BY <1>2, <2>1, BelowFacts
  <2> QED BY <1>1, <1>5, <2>2
<1>6. CASE c = Null
  <2>1. Members(s) \cap S = {}
    BY <1>1, <1>2, <1>6, FirstOfAll
  <2> QED BY <1>2, <1>5, <1>6, <2>1
<1>7. CASE c # Null
  <2>1. c \in Members(s) \cap S /\ \A y \in Members(s) : Older(s, y, c) => y \notin S
    BY <1>1, <1>7, FirstOfAll
  <2>2. c \in Members(s) /\ c \in Nat /\ c < p /\ c \in Below(s, p) /\ c \in Element
    BY <1>1, <1>2, <2>1
  <2>3. \A y \in Members(s) : Older(s, y, p) => y # c /\ y \notin Between(c, p)
    BY <2>2, BelowFacts
  <2>4. Older(s, p, c)
    <3>1. c # p
      BY <1>2, <2>2
    <3> QED BY <2>2, <2>3, <3>1, OlderTotal
  <2>5. \A y \in Members(s) : Older(s, y, p) => ~(c < y /\ y < p)
    BY <1>2, <2>3 DEF Between
  <2>6. ASSUME l # Null PROVE Older(s, l, c) /\ l < c
    <3>1. Older(s, l, p) /\ l < p /\ l \in Members(s)
      BY <1>3, <2>6 DEF IsLow
    <3>2. l # c /\ ~(c < l /\ l < p)
      BY <2>3, <2>5, <3>1
    <3>3. l < c
      BY <2>2, <3>1, <3>2
    <3> QED BY <2>4, <3>1, <3>3, OlderOrder
  <2>7. ASSUME NEW x \in Members(s), Older(s, x, c), x < c PROVE x <= l
    <3>1. x \in Nat /\ x < p
      BY <1>2, <2>2, <2>7
    <3>2. x \notin S
      BY <2>1, <2>7
    <3> QED BY <1>5, <3>1, <3>2
  <2>8. ASSUME NEW x \in Members(s), Older(s, x, c), c < x PROVE p <= x
    <3>1. SUFFICES ASSUME x < p PROVE FALSE
      BY <1>2
    <3>2. x \in Nat /\ x # p
      BY <1>2, <3>1
    <3>3. ASSUME NEW y \in Members(s), Older(s, y, p) PROVE y # x /\ y \notin Between(x, p)
      <4>1. y \in Nat /\ ~(c < y /\ y < p)
        BY <1>2, <2>5, <3>3
      <4>2. y # x /\ ~((x < y /\ y < p) \/ (p < y /\ y < x))
        BY <1>2, <2>2, <2>8, <3>1, <3>2, <4>1
      <4> QED BY <4>2 DEF Between
    <3>4. x \in S
      BY <1>1, <1>2, <3>1, <3>3, BelowFacts
    <3> QED BY <2>1, <2>8, <3>4
  <2>9. IsLow(s, c, l)
    BY <2>6, <2>7 DEF IsLow
  <2>10. IsHigh(s, c, p)
    BY <1>2, <2>2, <2>4, <2>8 DEF IsHigh
  <2> QED BY <1>7, <2>2, <2>9, <2>10
<1> QED BY <1>6, <1>7

\* And the one on the right.
LEMMA RightChild ==
    ASSUME NEW s \in Seq(Element), Distinct(s), NEW p \in Members(s), NEW h \in Nat, IsHigh(s, p, h),
           NEW c, c = FirstIn(s, {x \in Below(s, p) : x > p}, 0)
    PROVE  /\ c = Null => \A x \in Members(s) : ~(p < x /\ Under(x, h))
           /\ c # Null => c \in Members(s) /\ IsLow(s, c, p) /\ IsHigh(s, c, h)
<1> USE ElementFacts
<1>1. PICK S : S = {x \in Below(s, p) : x > p}
  OBVIOUS
<1>2. Members(s) \subseteq Element /\ Members(s) \subseteq Nat /\ p \in Nat /\ \A x \in Members(s) : x # Null
  BY MembersIn
<1>3. \A x, y : Older(s, x, y) => x \in Members(s) /\ x # y /\ ~Older(s, y, x)
  BY OlderOrder
<1>4. \A x \in Members(s) : Older(s, x, p) /\ p < x => h # Null /\ h <= x
  BY DEF IsHigh
<1>5. ASSUME NEW x \in Members(s), p < x, Under(x, h) PROVE x \in S
  <2>1. ASSUME NEW y \in Members(s), Older(s, y, p) PROVE y # x /\ y \notin Between(x, p)
    <3>1. y \in Nat /\ x \in Nat /\ (p < y => h # Null /\ h <= y)
      BY <1>2, <1>4, <2>1
    <3>2. p < y => x < y
      BY <1>5, <3>1 DEF Under
    <3>3. y # x /\ ~((x < y /\ y < p) \/ (p < y /\ y < x))
      BY <1>2, <1>5, <3>1, <3>2
    <3> QED BY <3>3 DEF Between
  <2>2. x \in Below(s, p)
    BY <1>2, <2>1, BelowFacts
  <2>3. x > p
    BY <1>2, <1>5
  <2> QED BY <1>1, <2>2, <2>3
<1>6. CASE c = Null
  <2>1. Members(s) \cap S = {}
    BY <1>1, <1>2, <1>6, FirstOfAll
  <2> QED BY <1>2, <1>5, <1>6, <2>1
<1>7. CASE c # Null
  <2>1. c \in Members(s) \cap S /\ \A y \in Members(s) : Older(s, y, c) => y \notin S
    BY <1>1, <1>7, FirstOfAll
  <2>2. c \in Members(s) /\ c \in Nat /\ p < c /\ c \in Below(s, p) /\ c \in Element
    BY <1>1, <1>2, <2>1
  <2>3. \A y \in Members(s) : Older(s, y, p) => y # c /\ y \notin Between(c, p)
    BY <2>2, BelowFacts
  <2>4. Older(s, p, c)
    <3>1. c # p
      BY <1>2, <2>2
    <3> QED BY <2>2, <2>3, <3>1, OlderTotal
  <2>5. \A y \in Members(s) : Older(s, y, p) => ~(p < y /\ y < c)
    BY <1>2, <2>3 DEF Between
  <2>6. ASSUME h # Null PROVE Older(s, h, c) /\ c < h
    <3>1. Older(s, h, p) /\ p < h /\ h \in Members(s)
      BY <1>3, <2>6 DEF IsHigh
    <3>2. h # c /\ ~(p < h /\ h < c)
      BY <2>3, <2>5, <3>1
    <3>3. c < h
      BY <2>2, <3>1, <3>2
    <3> QED BY <2>4, <3>1, <3>3, OlderOrder
  <2>7. ASSUME NEW x \in Members(s), Older(s, x, c), c < x PROVE h # Null /\ h <= x
    <3>1. x \in Nat /\ p < x
      BY <1>2, <2>2, <2>7
    <3>2. x \notin S
      BY <2>1, <2>7
    <3>3. ~Under(x, h)
      BY <1>5, <3>1, <3>2
    <3> QED BY <3>1, <3>3 DEF Under
  <2>8. ASSUME NEW x \in Members(s), Older(s, x, c), x < c PROVE x <= p
    <3>1. SUFFICES ASSUME p < x PROVE FALSE
      BY <1>2
    <3>2. x \in Nat /\ x > p
      BY <1>2, <3>1
    <3>3. ASSUME NEW y \in Members(s), Older(s, y, p) PROVE y # x /\ y \notin Between(x, p)
      <4>1. y \in Nat /\ ~(p < y /\ y < c)
        BY <1>2, <2>5, <3>3
      <4>2. y # x /\ ~((x < y /\ y < p) \/ (p < y /\ y < x))
        BY <1>2, <2>2, <2>8, <3>1, <3>2, <4>1
      <4> QED BY <4>2 DEF Between
    <3>4. x \in S
      BY <1>1, <1>2, <3>2, <3>3, BelowFacts
    <3> QED BY <2>1, <2>8, <3>4
  <2>9. IsHigh(s, c, h)
    BY <2>6, <2>7 DEF IsHigh
  <2>10. IsLow(s, c, p)
    BY <1>2, <2>2, <2>4, <2>8 DEF IsLow
  <2> QED BY <1>7, <2>2, <2>9, <2>10
<1> QED BY <1>6, <1>7

\* The tree that a container begins with is a search tree; nothing bounds its root.
LEMMA InitTree ==
    ASSUME NEW s \in Seq(Element), Distinct(s)
    PROVE  \E lo, hi \in [Element -> Nat] :
              /\ SearchTree(lo, hi, s, Smaller(s), Larger(s))
              /\ FirstIn(s, Element, 0) # Null => lo[FirstIn(s, Element, 0)] = Null /\ hi[FirstIn(s, Element, 0)] = Null
              /\ FirstIn(s, Element, 0) = Null => Members(s) = {}
<1> USE ElementFacts
<1>1. PICK lo \in [Element -> Nat] : \A p \in Members(s) : IsLow(s, p, lo[p])
  <2>1. PICK lo : lo = [p \in Element |-> IF p \in Members(s) THEN CHOOSE l \in Nat : IsLow(s, p, l) ELSE 0]
    OBVIOUS
  <2>2. ASSUME NEW p \in Members(s) PROVE p \in Element /\ lo[p] \in Nat /\ IsLow(s, p, lo[p])
    <3>1. p \in Element /\ \E l \in Nat : IsLow(s, p, l)
      BY MembersIn, BoundsExist
    <3> QED BY <2>1, <3>1
  <2>3. lo \in [Element -> Nat]
    BY <2>1, <2>2
  <2> QED BY <2>2, <2>3
<1>2. PICK hi \in [Element -> Nat] : \A p \in Members(s) : IsHigh(s, p, hi[p])
  <2>1. PICK hi : hi = [p \in Element |-> IF p \in Members(s) THEN CHOOSE h \in Nat : IsHigh(s, p, h) ELSE 0]
    OBVIOUS
  <2>2. ASSUME NEW p \in Members(s) PROVE p \in Element /\ hi[p] \in Nat /\ IsHigh(s, p, hi[p])
    <3>1. p \in Element /\ \E h \in Nat : IsHigh(s, p, h)
      BY MembersIn, BoundsExist
    <3> QED BY <2>1, <3>1
  <2>3. hi \in [Element -> Nat]
    BY <2>1, <2>2
  <2> QED BY <2>2, <2>3
<1>3. Members(s) \subseteq Element /\ Members(s) \subseteq Nat
  BY MembersIn
<1>4. Bounded(lo, hi, s)
  BY <1>1, <1>2 DEF Bounded, IsLow, IsHigh
<1>5. ASSUME NEW p \in Members(s), NEW c, c = Smaller(s)[p]
      PROVE  /\ c = Null => \A x \in Members(s) : ~(lo[p] < x /\ x < p)
             /\ c # Null => lo[c] = lo[p] /\ hi[c] = p
  <2>1. c = FirstIn(s, {x \in Below(s, p) : x < p}, 0)
    BY <1>3, <1>5 DEF Smaller
  <2>2. PICK l \in Nat : l = lo[p] /\ IsLow(s, p, l)
    BY <1>1, <1>3
  <2>3. /\ c = Null => \A x \in Members(s) : ~(l < x /\ x < p)
        /\ c # Null => c \in Members(s) /\ IsLow(s, c, l) /\ IsHigh(s, c, p)
    BY <2>1, <2>2, LeftChild
  <2>4. ASSUME c # Null PROVE lo[c] = l /\ hi[c] = p
    <3>1. c \in Members(s) /\ IsLow(s, c, l) /\ IsHigh(s, c, p) /\ IsLow(s, c, lo[c]) /\ IsHigh(s, c, hi[c])
      BY <1>1, <1>2, <2>3, <2>4
    <3>2. lo[c] \in Nat /\ hi[c] \in Nat /\ p \in Nat
      BY <1>3, <3>1
    <3> QED BY <3>1, <3>2, BoundsUnique
  <2> QED BY <2>2, <2>3, <2>4
<1>6. ASSUME NEW p \in Members(s), NEW c, c = Larger(s)[p]
      PROVE  /\ c = Null => \A x \in Members(s) : ~(p < x /\ Under(x, hi[p]))
             /\ c # Null => lo[c] = p /\ hi[c] = hi[p]
  <2>1. c = FirstIn(s, {x \in Below(s, p) : x > p}, 0)
    BY <1>3, <1>6 DEF Larger
  <2>2. PICK h \in Nat : h = hi[p] /\ IsHigh(s, p, h)
    BY <1>2, <1>3
  <2>3. /\ c = Null => \A x \in Members(s) : ~(p < x /\ Under(x, h))
        /\ c # Null => c \in Members(s) /\ IsLow(s, c, p) /\ IsHigh(s, c, h)
    BY <2>1, <2>2, RightChild
  <2>4. ASSUME c # Null PROVE lo[c] = p /\ hi[c] = h
    <3>1. c \in Members(s) /\ IsLow(s, c, p) /\ IsHigh(s, c, h) /\ IsLow(s, c, lo[c]) /\ IsHigh(s, c, hi[c])
      BY <1>1, <1>2, <2>3, <2>4
    <3>2. lo[c] \in Nat /\ hi[c] \in Nat /\ p \in Nat
      BY <1>3, <3>1
    <3> QED BY <3>1, <3>2, BoundsUnique
  <2> QED BY <2>2, <2>3, <2>4
<1>7. SearchTree(lo, hi, s, Smaller(s), Larger(s))
  BY <1>4, <1>5, <1>6 DEF SearchTree, Lefts, Rights
<1>8. PICK root : root = FirstIn(s, Element, 0)
  OBVIOUS
<1>9. \/ root = Null /\ Members(s) \cap Element = {}
      \/ root \in Members(s) /\ \A y \in Members(s) : Older(s, y, root) => y \notin Element
  BY <1>8, FirstOfAll
<1>10. root = Null => Members(s) = {}
  BY <1>3, <1>9
<1>11. ASSUME root # Null PROVE lo[root] = Null /\ hi[root] = Null
  <2>1. root \in Members(s) /\ \A y : ~Older(s, y, root)
    BY <1>3, <1>9, <1>11, OlderOrder
  <2> QED BY <1>1, <1>2, <2>1 DEF IsLow, IsHigh
<1> QED BY <1>7, <1>8, <1>10, <1>11

-----------------------------------------------------------------------------
(* The walk of a tree: on the stack are the nodes whose left subtrees it   *)
(* is in; it delivered what is smaller, in ascending order.                *)

Top(st) == IF st = <<>> THEN Null ELSE Last(st)

OnStack(hi, st, r) ==
    /\ \A i, j \in DOMAIN r : i < j => r[i] < r[j]
    /\ \A i, j \in DOMAIN st : i < j => st[j] < st[i]
    /\ \A j \in DOMAIN st : hi[st[j]] = (IF j = 1 THEN Null ELSE st[j - 1])
    /\ \A x \in Members(r), j \in DOMAIN st : x < st[j]

\* The elements of I that were not delivered are in the subtree at node, or behind it.
AtNode(lo, hi, st, node, r, I) ==
    /\ node # Null => /\ hi[node] = Top(st)
                      /\ \A x \in Members(r) : x <= lo[node]
                      /\ \A x \in I : x \in Members(r) \/ lo[node] < x
    /\ node = Null => \A x \in I : x \in Members(r) \/ (st # <<>> /\ Last(st) <= x)

\* One node down the left spine.
LEMMA GoLeft ==
    ASSUME NEW s \in Seq(Element), Distinct(s), NEW lo, NEW hi, NEW f, NEW g, SearchTree(lo, hi, s, f, g),
           NEW I, I \subseteq Members(s), NEW st \in Seq(Members(s)), NEW r \in Seq(Members(s)),
           NEW p \in Members(s), OnStack(hi, st, r), AtNode(lo, hi, st, p, r, I)
    PROVE  OnStack(hi, Append(st, p), r) /\ AtNode(lo, hi, Append(st, p), f[p], r, I)
<1> USE ElementFacts
<1>1. Members(s) \subseteq Element /\ Members(s) \subseteq Nat /\ \A x \in Members(s) : x # Null
  BY MembersIn
<1>2. lo[p] \in Nat /\ lo[p] < p /\ hi[p] \in Nat /\ (hi[p] # Null => p < hi[p])
  <2>1. lo[p] \in Nat /\ hi[p] \in Nat
    BY <1>1 DEF SearchTree
  <2>2. (lo[p] # Null => lo[p] < p) /\ (hi[p] # Null => p < hi[p])
    BY DEF SearchTree, Bounded
  <2>3. p \in Nat /\ p # 0
    BY <1>1 DEF Null
  <2> QED BY <2>1, <2>2, <2>3 DEF Null
<1>3. /\ hi[p] = Top(st) /\ \A x \in Members(r) : x <= lo[p]
      /\ \A x \in I : x \in Members(r) \/ lo[p] < x
  BY <1>1 DEF AtNode
<1>4. PICK t : t = Append(st, p)
  OBVIOUS
<1>5. /\ DOMAIN t = 1..(Len(st) + 1) /\ DOMAIN st = 1..Len(st) /\ Len(st) \in Nat
      /\ (\A i \in 1..Len(st) : t[i] = st[i]) /\ t[Len(st) + 1] = p
      /\ t \in Seq(Members(s)) /\ Len(t) = Len(st) + 1
  BY <1>4, AppendFacts
<1>6. t # <<>> /\ Last(t) = p
  BY <1>5 DEF Last
<1>7. \A i \in DOMAIN st : p < st[i]
  <2>1. ASSUME NEW i \in DOMAIN st PROVE p < st[i]
    <3>1. st # <<>> /\ Len(st) \in DOMAIN st /\ i <= Len(st)
      BY <1>5
    <3>2. hi[p] = st[Len(st)] /\ st[Len(st)] \in Members(s) /\ st[i] \in Members(s)
      BY <1>3, <3>1 DEF Top, Last
    <3>3. p < st[Len(st)]
      BY <1>1, <1>2, <3>2
    <3>4. i = Len(st) \/ st[Len(st)] < st[i]
      <4>1. \A l, m \in DOMAIN st : l < m => st[m] < st[l]
        BY DEF OnStack
      <4>2. i = Len(st) \/ i < Len(st)
        BY <1>5, <3>1
      <4> QED BY <3>1, <4>1, <4>2
    <3>5. p \in Nat /\ st[Len(st)] \in Nat /\ st[i] \in Nat
      BY <1>1, <3>2
    <3> QED BY <3>3, <3>4, <3>5
  <2> QED BY <2>1
<1>8. \A i, j \in DOMAIN t : i < j => t[j] < t[i]
  <2>1. ASSUME NEW i \in DOMAIN t, NEW j \in DOMAIN t, i < j PROVE t[j] < t[i]
    <3>1. i \in DOMAIN st /\ t[i] = st[i] /\ (j \in DOMAIN st \/ j = Len(st) + 1)
      BY <1>5, <2>1
    <3>2. CASE j \in DOMAIN st
      BY <1>5, <2>1, <3>1, <3>2 DEF OnStack
    <3>3. CASE j = Len(st) + 1
      BY <1>5, <1>7, <3>1, <3>3
    <3> QED BY <3>1, <3>2, <3>3
  <2> QED BY <2>1
<1>9. ASSUME NEW j \in DOMAIN t PROVE hi[t[j]] = (IF j = 1 THEN Null ELSE t[j - 1])
  <2>1. CASE j \in DOMAIN st
    <3>1. t[j] = st[j] /\ (j # 1 => t[j - 1] = st[j - 1])
      BY <1>5, <2>1
    <3> QED BY <2>1, <3>1 DEF OnStack
  <2>2. CASE j = Len(st) + 1
    <3>1. CASE st = <<>>
      BY <1>3, <1>5, <2>2, <3>1 DEF Top
    <3>2. CASE st # <<>>
      <4>1. Len(st) \in 1..Len(st) /\ Len(st) # 0
        BY <1>5, <3>2
      <4>2. t[j] = p /\ j # 1 /\ t[j - 1] = st[Len(st)]
        BY <1>5, <2>2, <4>1
      <4> QED BY <1>3, <3>2, <4>2 DEF Top, Last
    <3> QED BY <3>1, <3>2
  <2> QED BY <1>5, <2>1, <2>2
<1>10. ASSUME NEW x \in Members(r), NEW j \in DOMAIN t PROVE x < t[j]
  <2>1. x \in Nat
    BY <1>1, MembersIn
  <2>2. CASE j \in DOMAIN st
    BY <1>5, <2>2 DEF OnStack
  <2>3. CASE j = Len(st) + 1
    <3>1. x <= lo[p] /\ p \in Nat
      BY <1>1, <1>3
    <3>2. x < p
      BY <1>2, <2>1, <3>1
    <3> QED BY <1>5, <2>3, <3>2
  <2> QED BY <1>5, <2>2, <2>3
<1>11. OnStack(hi, t, r)
  BY <1>8, <1>9, <1>10 DEF OnStack
<1>12. AtNode(lo, hi, t, f[p], r, I)
  <2>1. CASE f[p] # Null
    <3>1. lo[f[p]] = lo[p] /\ hi[f[p]] = p
      BY <2>1 DEF SearchTree, Lefts
    <3> QED BY <1>3, <1>6, <2>1, <3>1 DEF AtNode, Top
  <2>2. CASE f[p] = Null
    <3>1. \A x \in Members(s) : ~(lo[p] < x /\ x < p)
      BY <2>2 DEF SearchTree, Lefts
    <3>2. \A x \in I : x \in Members(r) \/ p <= x
      BY <1>1, <1>3, <3>1
    <3> QED BY <1>6, <2>2, <3>2 DEF AtNode
  <2> QED BY <2>1, <2>2
<1> QED BY <1>4, <1>11, <1>12

\* The node at the end of the spine is delivered; on with what is right of it.
LEMMA GoRight ==
    ASSUME NEW s \in Seq(Element), Distinct(s), NEW lo, NEW hi, NEW f, NEW g, SearchTree(lo, hi, s, f, g),
           NEW I, I \subseteq Members(s), NEW st \in Seq(Members(s)), NEW r \in Seq(Members(s)),
           st # <<>>, NEW p, p = Last(st), OnStack(hi, st, r), AtNode(lo, hi, st, Null, r, I)
    PROVE  OnStack(hi, Front(st), Append(r, p)) /\ AtNode(lo, hi, Front(st), g[p], Append(r, p), I)
<1> USE ElementFacts
<1>1. Members(s) \subseteq Element /\ Members(s) \subseteq Nat /\ \A x \in Members(s) : x # Null
  BY MembersIn
<1>2. PICK t : t = Front(st)
  OBVIOUS
<1>3. PICK n \in Nat : n = Len(st)
  OBVIOUS
<1>4. /\ n # 0 /\ n \in DOMAIN st /\ p = st[n] /\ p \in Members(s) /\ DOMAIN st = 1..n
      /\ DOMAIN t = 1..(n - 1) /\ (\A i \in 1..(n - 1) : t[i] = st[i]) /\ t \in Seq(Members(s)) /\ Len(t) = n - 1
  <2>1. /\ Front(st) \in Seq(Members(s)) /\ Len(Front(st)) = Len(st) - 1
        /\ \A i \in 1..(Len(st) - 1) : Front(st)[i] = st[i]
        /\ Last(st) \in Members(s) /\ Last(st) = st[Len(st)] /\ Len(st) \in Nat \ {0}
    BY FrontFacts
  <2>2. /\ t \in Seq(Members(s)) /\ Len(t) = n - 1 /\ (\A i \in 1..(n - 1) : t[i] = st[i])
        /\ p \in Members(s) /\ p = st[n] /\ n # 0
    BY <1>2, <1>3, <2>1
  <2> QED BY <1>3, <2>2
<1>5. PICK q : q = Append(r, p)
  OBVIOUS
<1>6. /\ DOMAIN q = 1..(Len(r) + 1) /\ DOMAIN r = 1..Len(r) /\ Len(r) \in Nat
      /\ (\A i \in 1..Len(r) : q[i] = r[i]) /\ q[Len(r) + 1] = p
      /\ Members(q) = Members(r) \cup {p}
  BY <1>4, <1>5, AppendFacts
<1>7. Members(r) \subseteq Members(s) /\ \A x \in Members(r) : x < p
  BY <1>4, MembersIn DEF OnStack
<1>8. \A i, j \in DOMAIN q : i < j => q[i] < q[j]
  <2>1. ASSUME NEW i \in DOMAIN q, NEW j \in DOMAIN q, i < j PROVE q[i] < q[j]
    <3>1. i \in DOMAIN r /\ q[i] = r[i] /\ (j \in DOMAIN r \/ j = Len(r) + 1)
      BY <1>6, <2>1
    <3>2. CASE j \in DOMAIN r
      BY <1>6, <2>1, <3>1, <3>2 DEF OnStack
    <3>3. CASE j = Len(r) + 1
      <4>1. r[i] \in Members(r)
        BY <3>1 DEF Members
      <4> QED BY <1>6, <1>7, <3>1, <3>3, <4>1
    <3> QED BY <3>1, <3>2, <3>3
  <2> QED BY <2>1
<1>9. \A i \in DOMAIN t : i \in DOMAIN st /\ i < n /\ t[i] = st[i]
  BY <1>4
<1>10. \A i, j \in DOMAIN t : i < j => t[j] < t[i]
  BY <1>9 DEF OnStack
<1>11. ASSUME NEW j \in DOMAIN t PROVE hi[t[j]] = (IF j = 1 THEN Null ELSE t[j - 1])
  <2>1. j # 1 => j - 1 \in 1..(n - 1)
    BY <1>4
  <2>2. t[j] = st[j] /\ j \in DOMAIN st /\ (j # 1 => t[j - 1] = st[j - 1])
    BY <1>4, <1>9, <2>1
  <2> QED BY <2>2 DEF OnStack
<1>12. \A x \in Members(q), j \in DOMAIN t : x < t[j]
  <2>1. ASSUME NEW j \in DOMAIN t PROVE p < t[j]
    BY <1>4, <1>9 DEF OnStack
  <2>2. ASSUME NEW x \in Members(r), NEW j \in DOMAIN t PROVE x < t[j]
    BY <1>9 DEF OnStack
  <2> QED BY <1>6, <2>1, <2>2
<1>13. OnStack(hi, t, q)
  BY <1>8, <1>10, <1>11, <1>12 DEF OnStack
<1>14. hi[p] = Top(t) /\ (t # <<>> => Last(t) = hi[p] /\ hi[p] # Null) /\ (t = <<>> => hi[p] = Null)
  <2>1. hi[p] = IF n = 1 THEN Null ELSE st[n - 1]
    BY <1>4 DEF OnStack
  <2>2. CASE n = 1
    <3>1. t = <<>>
      BY <1>4, <2>2
    <3> QED BY <2>1, <2>2, <3>1 DEF Top
  <2>3. CASE n # 1
    <3>1. n - 1 \in 1..(n - 1) /\ n - 1 \in 1..n /\ Len(t) = n - 1 /\ Len(t) # 0
      BY <1>4, <2>3
    <3>2. t # <<>> /\ Last(t) = t[n - 1] /\ t[n - 1] = st[n - 1]
      BY <1>4, <3>1 DEF Last
    <3>3. st[n - 1] \in Members(s)
      BY <1>4, <3>1
    <3> QED BY <1>1, <2>1, <2>3, <3>2, <3>3 DEF Top
  <2> QED BY <2>2, <2>3
<1>15. \A x \in I : x \in Members(r) \/ p <= x
  BY DEF AtNode
<1>16. \A x \in I : x \in Members(q) \/ p < x
  BY <1>1, <1>4, <1>6, <1>15
<1>17. \A x \in Members(q) : x <= p
  BY <1>1, <1>4, <1>6, <1>7
<1>18. AtNode(lo, hi, t, g[p], q, I)
  <2>1. CASE g[p] # Null
    <3>1. lo[g[p]] = p /\ hi[g[p]] = hi[p]
      BY <1>4, <2>1 DEF SearchTree, Rights
    <3> QED BY <1>14, <1>16, <1>17, <2>1, <3>1 DEF AtNode
  <2>2. CASE g[p] = Null
    <3>1. \A x \in Members(s) : ~(p < x /\ Under(x, hi[p]))
      BY <1>4, <2>2 DEF SearchTree, Rights
    <3>2. ASSUME NEW x \in I, x \notin Members(q) PROVE t # <<>> /\ Last(t) <= x
      <4>1. p < x /\ ~Under(x, hi[p]) /\ x \in Nat
        BY <1>1, <1>16, <3>1, <3>2
      <4>2. hi[p] # Null /\ ~(x < hi[p])
        BY <4>1 DEF Under
      <4>3. hi[p] \in Nat
        BY <1>1, <1>4 DEF SearchTree
      <4> QED BY <1>14, <4>1, <4>2, <4>3
    <3> QED BY <2>2, <3>2 DEF AtNode
  <2> QED BY <2>1, <2>2
<1> QED BY <1>2, <1>5, <1>13, <1>18

\* A walk that delivered as many nodes as there are delivered all of them.
LEMMA AllDelivered ==
    ASSUME NEW s \in Seq(Element), NEW r \in Seq(Members(s)), Distinct(r), Len(s) <= Len(r)
    PROVE  Members(s) \subseteq Members(r)
<1>1. SUFFICES ASSUME NEW x \in Members(s), x \notin Members(r) PROVE FALSE
  OBVIOUS
<1>2. PICK n \in Nat, m \in Nat : n = Len(s) /\ m = Len(r)
  OBVIOUS
<1>3. /\ IsFiniteSet(1..n) /\ Cardinality(1..n) = n /\ IsFiniteSet(1..m) /\ Cardinality(1..m) = m
  BY FS_Interval
<1>4. IsFiniteSet(Members(s)) /\ Cardinality(Members(s)) <= n
  <2>1. s \in [1..n -> Members(s)] /\ \A y \in Members(s) : \E i \in 1..n : s[i] = y
    BY <1>2 DEF Members
  <2>2. s \in Surjection(1..n, Members(s))
    BY <2>1 DEF Surjection
  <2> QED BY <1>3, <2>2, FS_Surjection
<1>5. PICK T : T = Members(s) \ {x}
  OBVIOUS
<1>6. IsFiniteSet(T) /\ Cardinality(T) = Cardinality(Members(s)) - 1 /\ Cardinality(Members(s)) \in Nat
  BY <1>4, <1>5, FS_RemoveElement, FS_CardinalityType
<1>7. Cardinality(T) < m
  BY <1>2, <1>4, <1>6
<1>8. r \in [1..m -> T]
  <2>1. \A i \in 1..m : r[i] \in Members(s) /\ r[i] # x
    BY <1>1, <1>2 DEF Members
  <2> QED BY <1>2, <1>5, <2>1
<1>9. PICK i \in 1..m, j \in 1..m : i # j /\ r[i] = r[j]
  BY <1>3, <1>6, <1>7, <1>8, FS_PigeonHole
<1> QED BY <1>2, <1>9 DEF Distinct

Rooted(lo, hi, root) ==
    /\ root # Null => lo[root] = Null /\ hi[root] = Null
    /\ root = Null => Members(ever) = {}

TreeWalk(lo, hi) ==
    /\ OnStack(hi, walk.stack, result)
    /\ walk.pc = "begin" => /\ result = <<>> /\ walk.stack = <<>> /\ walk.count = 0
                            /\ Rooted(lo, hi, arrays[1][1])
    /\ walk.pc = "spine" => AtNode(lo, hi, walk.stack, walk.node, result, initial) /\ walk.count = Len(result)
    /\ walk.pc = "done" /\ Len(ever) <= MaxVisited + 1 => initial \subseteq Members(result)

TreeClear ==
    "rotated" \notin changes =>
        /\ content = ever /\ Null \notin Members(result)
        /\ \E lo, hi \in [Element -> Nat] : SearchTree(lo, hi, ever, left, next) /\ TreeWalk(lo, hi)

LEMMA TreeInit ==
    ASSUME NEW k \in Kind, NEW s \in Seq(Element), Distinct(s), Filled(k, s), k = "tree"
    PROVE  TreeClear
<1>1. /\ next = Larger(s) /\ left = Smaller(s) /\ ever = s /\ content = s /\ walk = NoWalk /\ result = <<>>
      /\ arrays[1][1] = FirstIn(s, Element, 0)
  BY DEF Filled, ArrayOf
<1>2. PICK lo \in [Element -> Nat], hi \in [Element -> Nat] :
         /\ SearchTree(lo, hi, s, Smaller(s), Larger(s))
         /\ FirstIn(s, Element, 0) # Null => lo[FirstIn(s, Element, 0)] = Null /\ hi[FirstIn(s, Element, 0)] = Null
         /\ FirstIn(s, Element, 0) = Null => Members(s) = {}
  BY InitTree
<1>3. Rooted(lo, hi, arrays[1][1])
  BY <1>1, <1>2 DEF Rooted
<1>4. OnStack(hi, <<>>, <<>>)
  BY NoMembers DEF OnStack
<1>5. walk.pc = "begin" /\ walk.stack = <<>> /\ walk.count = 0
  BY <1>1 DEF NoWalk
<1>6. TreeWalk(lo, hi)
  BY <1>1, <1>3, <1>4, <1>5 DEF TreeWalk
<1>7. SearchTree(lo, hi, ever, left, next)
  BY <1>1, <1>2
<1> QED BY <1>1, <1>6, <1>7, NoMembers DEF TreeClear

\* Bounds of a new node change nothing for the others.
LEMMA OtherBounds ==
    ASSUME NEW e, NEW lo, NEW hi, NEW lo2, NEW hi2, NEW M, e \notin M,
           \A p \in M : lo2[p] = lo[p] /\ hi2[p] = hi[p],
           NEW st \in Seq(M), NEW node \in M \cup {Null}, NEW r, NEW I,
           OnStack(hi, st, r)
    PROVE  OnStack(hi2, st, r) /\ (AtNode(lo, hi, st, node, r, I) => AtNode(lo2, hi2, st, node, r, I))
<1>1. \A j \in DOMAIN st : st[j] \in M
  OBVIOUS
<1>2. OnStack(hi2, st, r)
  BY <1>1 DEF OnStack
<1>3. ASSUME AtNode(lo, hi, st, node, r, I) PROVE AtNode(lo2, hi2, st, node, r, I)
  BY <1>3 DEF AtNode
<1> QED BY <1>2, <1>3

LEMMA TreeMutate ==
    ASSUME ContainerType, WalkType, Loose, TreeClear, kind = "tree", Plain
    PROVE  TreeClear'
<1> USE ElementFacts
<1>1. SUFFICES ASSUME "rotated" \notin changes' PROVE TreeClear'
  BY DEF TreeClear
<1>2. /\ ever \in Seq(Element) /\ Distinct(ever) /\ Members(ever) \subseteq Element
      /\ next \in [Element -> Known] /\ left \in [Element -> Known]
      /\ result \in Seq(Known) /\ walk.stack \in Seq(Members(ever)) /\ walk.node \in Known
  BY MembersIn DEF ContainerType, WalkType
<1>3. /\ walk' = walk /\ result' = result /\ initial' = initial /\ walk.pc \notin {"begin", "done"}
  BY DEF Plain, ArrayAdd, ArrayStore, LinkLast, HashPut, TreePut, ListRemove, Unlink, HashRemove,
         RotateLeft, RotateRight, HashResize, Java, Underway, Running
<1>4. PICK e \in Element \ Members(ever) : TreePut(e) /\ ever' = Append(ever, e)
  <2>1. \A e : ~RotateLeft(e) /\ ~RotateRight(e)
    BY <1>1 DEF RotateLeft, RotateRight, Lifted, Changed
  <2> QED BY <2>1 DEF Plain, ArrayAdd, ArrayStore, LinkLast, HashPut, ListRemove, Unlink,
     HashRemove, HashResize
<1>5. /\ content = ever /\ Null \notin Members(result)
      /\ \E lo, hi \in [Element -> Nat] : SearchTree(lo, hi, ever, left, next) /\ TreeWalk(lo, hi)
  <2>1. "rotated" \notin changes
    BY <1>1, <1>4 DEF TreePut, Changed
  <2> QED BY <2>1 DEF TreeClear
<1>6. PICK lo \in [Element -> Nat], hi \in [Element -> Nat] : SearchTree(lo, hi, ever, left, next) /\ TreeWalk(lo, hi)
  BY <1>5
<1>7. content' = ever' /\ Null \notin Members(result)'
  <2>1. content' = ever'
    BY <1>4, <1>5 DEF TreePut
  <2>2. Members(result)' = Members(result)
    BY <1>3, Zenon
  <2> QED BY <1>5, <2>1, <2>2
<1>8. PICK E : E = ever' /\ E = Append(ever, e)
  BY <1>4
<1>9. ASSUME NEW lo2 \in [Element -> Nat], NEW hi2 \in [Element -> Nat], NEW f, f = left', NEW g, g = next',
             SearchTree(lo2, hi2, E, f, g), \A p \in Element \ {e} : lo2[p] = lo[p] /\ hi2[p] = hi[p]
      PROVE  TreeClear'
  <2>1. OnStack(hi, walk.stack, result)
    BY <1>6 DEF TreeWalk
  <2>2. e \notin Members(ever) /\ \A p \in Members(ever) : lo2[p] = lo[p] /\ hi2[p] = hi[p]
    BY <1>2, <1>4, <1>9
  <2>3. walk.node \in Members(ever) \cup {Null}
    BY <1>2 DEF Known
  <2>4. /\ OnStack(hi2, walk.stack, result)
        /\ AtNode(lo, hi, walk.stack, walk.node, result, initial) => AtNode(lo2, hi2, walk.stack, walk.node, result, initial)
    BY <1>2, <2>1, <2>2, <2>3, OtherBounds
  <2>5. walk.pc = "spine" => AtNode(lo2, hi2, walk.stack, walk.node, result, initial) /\ walk.count = Len(result)
    BY <1>6, <2>4 DEF TreeWalk
  <2>6. TreeWalk(lo2, hi2)'
    <3>1. OnStack(hi2, walk.stack, result)'
      BY <1>3, <2>4, Zenon
    <3>2. (walk.pc = "spine" => AtNode(lo2, hi2, walk.stack, walk.node, result, initial) /\ walk.count = Len(result))'
      BY <1>3, <2>5, Zenon
    <3> QED BY <1>3, <3>1, <3>2 DEF TreeWalk
  <2>7. SearchTree(lo2, hi2, ever', left', next')
    BY <1>8, <1>9
  <2> QED BY <1>7, <2>6, <2>7 DEF TreeClear
<1>10. /\ left[e] = Null /\ next[e] = Null
       /\ left \in [Element -> Members(ever) \cup {Null}] /\ next \in [Element -> Members(ever) \cup {Null}]
  BY <1>2 DEF Loose, Known
<1>11. CASE content = <<>>
  <2>1. left' = left /\ next' = next
    BY <1>4, <1>11 DEF TreePut
  <2>2. Members(ever) = {}
    BY <1>5, <1>11, NoMembers
  <2>3. PICK lo2, hi2 : lo2 = [lo EXCEPT ![e] = Null] /\ hi2 = [hi EXCEPT ![e] = Null]
    OBVIOUS
  <2>4. SearchTree(lo2, hi2, E, left, next)
    BY <1>2, <1>6, <1>8, <1>10, <2>2, <2>3, PutRoot
  <2>5. lo2 \in [Element -> Nat] /\ hi2 \in [Element -> Nat] /\ \A p \in Element \ {e} : lo2[p] = lo[p] /\ hi2[p] = hi[p]
    BY <2>3
  <2> QED BY <1>9, <2>1, <2>4, <2>5
<1>12. CASE content # <<>>
  <2>1. PICK p \in Members(ever) :
           /\ Between(p, e) \cap Members(ever) = {}
           /\ \/ p < e /\ next[p] = Null /\ next' = [next EXCEPT ![p] = e] /\ left' = left
              \/ p > e /\ left[p] = Null /\ left' = [left EXCEPT ![p] = e] /\ next' = next
    BY <1>4, <1>5, <1>12 DEF TreePut
  <2>2. p \in Element /\ p \in Nat /\ lo[p] \in Nat /\ hi[p] \in Nat /\ e \in Nat
    BY <1>2, <2>1
  <2>3. CASE p < e /\ next[p] = Null /\ next' = [next EXCEPT ![p] = e] /\ left' = left
    <3>1. PICK lo2, hi2, g : lo2 = [lo EXCEPT ![e] = p] /\ hi2 = [hi EXCEPT ![e] = hi[p]] /\ g = [next EXCEPT ![p] = e]
      OBVIOUS
    <3>2. SearchTree(lo2, hi2, E, left, g)
      BY <1>2, <1>6, <1>8, <1>10, <2>1, <2>3, <3>1, PutRight
    <3>3. lo2 \in [Element -> Nat] /\ hi2 \in [Element -> Nat] /\ \A q \in Element \ {e} : lo2[q] = lo[q] /\ hi2[q] = hi[q]
      BY <2>2, <3>1
    <3> QED BY <1>9, <2>3, <3>1, <3>2, <3>3
  <2>4. CASE p > e /\ left[p] = Null /\ left' = [left EXCEPT ![p] = e] /\ next' = next
    <3>1. PICK lo2, hi2, f : lo2 = [lo EXCEPT ![e] = lo[p]] /\ hi2 = [hi EXCEPT ![e] = p] /\ f = [left EXCEPT ![p] = e]
      OBVIOUS
    <3>2. e < p
      BY <2>2, <2>4
    <3>3. SearchTree(lo2, hi2, E, f, next)
      BY <1>2, <1>6, <1>8, <1>10, <2>1, <2>4, <3>1, <3>2, PutLeft
    <3>4. lo2 \in [Element -> Nat] /\ hi2 \in [Element -> Nat] /\ \A q \in Element \ {e} : lo2[q] = lo[q] /\ hi2[q] = hi[q]
      BY <2>2, <3>1
    <3> QED BY <1>9, <2>4, <3>1, <3>3, <3>4
  <2> QED BY <2>1, <2>3, <2>4
<1> QED BY <1>11, <1>12

LEMMA AscendingDistinct ==
    ASSUME NEW r \in Seq(Nat), \A i, j \in DOMAIN r : i < j => r[i] < r[j]
    PROVE  Distinct(r)
<1>1. SUFFICES ASSUME NEW i \in DOMAIN r, NEW j \in DOMAIN r, r[i] = r[j], i # j PROVE FALSE
  BY DEF Distinct
<1>2. i < j \/ j < i
  BY <1>1
<1>3. r[i] < r[j] \/ r[j] < r[i]
  BY <1>2
<1>4. r[i] \in Nat /\ r[j] \in Nat
  OBVIOUS
<1> QED BY <1>1, <1>3, <1>4

LEMMA TreeStep ==
    ASSUME ContainerType, WalkType, TreeClear, kind = "tree", Walk
    PROVE  TreeClear'
<1> USE ElementFacts
<1>1. /\ next' = next /\ left' = left /\ ever' = ever /\ content' = content /\ arrays' = arrays
      /\ initial' = initial /\ changes' = changes
  BY WalkIsStep, StepSame
<1>2. SUFFICES ASSUME "rotated" \notin changes PROVE TreeClear'
  BY <1>1 DEF TreeClear
<1>3. /\ walk \in WalkRecord /\ result \in Seq(Known) /\ ever \in Seq(Element) /\ Distinct(ever)
      /\ walk.stack \in Seq(Members(ever)) /\ walk.node \in Known /\ initial \subseteq Members(ever)
      /\ Members(ever) \subseteq Element /\ walk.count \in Nat
  BY MembersIn DEF WalkType, WalkRecord, ContainerType
<1>4. walk.pc \in {"begin", "done", "spine"}
  BY <1>3 DEF WalkRecord, Stages
<1>5. /\ content = ever /\ Null \notin Members(result)
      /\ \E lo, hi \in [Element -> Nat] : SearchTree(lo, hi, ever, left, next) /\ TreeWalk(lo, hi)
  BY <1>2 DEF TreeClear
<1>6. PICK lo \in [Element -> Nat], hi \in [Element -> Nat] : SearchTree(lo, hi, ever, left, next) /\ TreeWalk(lo, hi)
  BY <1>5
<1>7. result \in Seq(Members(ever))
  BY <1>3, <1>5 DEF Known, Members
<1>8. ASSUME NEW r, r = result', NEW w, w = walk', Null \notin Members(r), OnStack(hi, w.stack, r), w.pc # "begin",
             w.pc = "spine" => AtNode(lo, hi, w.stack, w.node, r, initial) /\ w.count = Len(r),
             w.pc = "done" /\ Len(ever) <= MaxVisited + 1 => initial \subseteq Members(r)
      PROVE  TreeClear'
  <2>1. Null \notin Members(result)' /\ content' = ever'
    BY <1>1, <1>5, <1>8, Zenon
  <2>2. SearchTree(lo, hi, ever', left', next')
    BY <1>1, <1>6
  <2>3. TreeWalk(lo, hi)'
    <3>1. OnStack(hi, walk.stack, result)'
      BY <1>8, Zenon
    <3>2. (walk.pc = "spine" => AtNode(lo, hi, walk.stack, walk.node, result, initial) /\ walk.count = Len(result))'
      BY <1>1, <1>8, Zenon
    <3>3. (walk.pc = "done" /\ Len(ever) <= MaxVisited + 1 => initial \subseteq Members(result))'
      BY <1>1, <1>8, Zenon
    <3> QED BY <1>8, <3>1, <3>2, <3>3 DEF TreeWalk
  <2> QED BY <2>1, <2>2, <2>3 DEF TreeClear
<1>9. OnStack(hi, walk.stack, result)
  BY <1>6 DEF TreeWalk
<1>10. CASE BeginWalk
  <2>1. walk.pc = "begin" /\ result' = result
    BY <1>10 DEF BeginWalk
  <2>2. result = <<>> /\ walk.stack = <<>> /\ walk.count = 0 /\ Rooted(lo, hi, arrays[1][1])
    BY <1>6, <2>1 DEF TreeWalk
  <2>3. PICK x : x = arrays[1][1]
    OBVIOUS
  <2>4. PICK l \in {"spine", "done"} : walk' = [walk EXCEPT !.node = x, !.pc = l] /\ (l = "spine" <=> x # Null)
    BY <1>10, <2>3 DEF BeginWalk, GoOn
  <2>5. walk'.pc = l /\ walk'.node = x /\ walk'.stack = <<>> /\ walk'.count = 0
    BY <1>3, <2>2, <2>4 DEF WalkRecord
  <2>6. ASSUME x # Null PROVE AtNode(lo, hi, <<>>, x, <<>>, initial)
    <3>1. lo[x] = 0 /\ hi[x] = Null /\ Top(<<>>) = Null
      BY <2>2, <2>3, <2>6 DEF Rooted, Top, Null
    <3>2. ASSUME NEW y \in initial PROVE 0 < y
      <4>1. y \in Nat /\ y # 0
        BY <1>3 DEF Null
      <4> QED BY <4>1
    <3> QED BY <2>6, <3>1, <3>2, NoMembers DEF AtNode
  <2>7. x = Null => initial = {}
    BY <1>3, <2>2, <2>3 DEF Rooted
  <2>8. Len(<<>>) = 0
    OBVIOUS
  <2>9. PICK r : r = result' /\ r = <<>>
    BY <2>1, <2>2
  <2>10. AtNode(lo, hi, <<>>, x, r, initial) \/ x = Null
    BY <2>6, <2>9
  <2> QED BY <1>8, <1>9, <2>2, <2>4, <2>5, <2>7, <2>8, <2>9, <2>10, NoMembers
<1>11. CASE Spine
  <2>1. /\ walk.pc = "spine" /\ walk.node # Null /\ result' = result
        /\ walk' = [walk EXCEPT !.stack = Append(walk.stack, walk.node), !.node = left[walk.node]]
    BY <1>11 DEF Spine
  <2>2. PICK p \in Members(ever) : p = walk.node
    BY <1>3, <2>1 DEF Known
  <2>3. AtNode(lo, hi, walk.stack, p, result, initial) /\ walk.count = Len(result)
    BY <1>6, <2>1, <2>2 DEF TreeWalk
  <2>4. OnStack(hi, Append(walk.stack, p), result) /\ AtNode(lo, hi, Append(walk.stack, p), left[p], result, initial)
    BY <1>3, <1>6, <1>7, <1>9, <2>2, <2>3, GoLeft
  <2>5. walk'.pc = "spine" /\ walk'.stack = Append(walk.stack, p) /\ walk'.node = left[p] /\ walk'.count = walk.count
    BY <1>3, <2>1, <2>2 DEF WalkRecord
  <2> QED BY <1>5, <1>8, <2>1, <2>3, <2>4, <2>5
<1>12. CASE Visit
  <2>1. walk.pc = "spine" /\ walk.node = Null
    BY <1>12 DEF Visit
  <2>2. AtNode(lo, hi, walk.stack, Null, result, initial) /\ walk.count = Len(result)
    BY <1>6, <2>1 DEF TreeWalk
  <2>3. CASE walk.stack = <<>>
    <3>1. result' = result /\ walk' = [walk EXCEPT !.pc = "done"]
      BY <1>12, <2>3 DEF Visit
    <3>2. walk'.pc = "done" /\ walk'.stack = walk.stack
      BY <1>3, <3>1 DEF WalkRecord
    <3>3. initial \subseteq Members(result)
      BY <2>2, <2>3 DEF AtNode
    <3> QED BY <1>5, <1>8, <1>9, <3>1, <3>2, <3>3
  <2>4. CASE walk.stack # <<>>
    <3>1. PICK p \in Members(ever) : p = Last(walk.stack)
      BY <1>3, <2>4, FrontFacts
    <3>2. PICK r : r = result' /\ r = Append(result, p)
      BY <1>12, <2>4, <3>1 DEF Visit, Push
    <3>3. PICK l \in {"spine", "done"} :
             /\ walk' = [walk EXCEPT !.stack = Front(walk.stack), !.node = next[p], !.count = walk.count + 1, !.pc = l]
             /\ l = GoOn(walk.count + 1 <= MaxVisited, "spine")
      BY <1>12, <2>4, <3>1 DEF Visit, GoOn
    <3>4. /\ walk'.pc = l /\ walk'.stack = Front(walk.stack) /\ walk'.node = next[p] /\ walk'.count = walk.count + 1
      BY <1>3, <3>3 DEF WalkRecord
    <3>5. /\ OnStack(hi, Front(walk.stack), Append(result, p))
          /\ AtNode(lo, hi, Front(walk.stack), next[p], Append(result, p), initial)
      BY <1>3, <1>6, <1>7, <1>9, <2>2, <2>4, <3>1, GoRight
    <3>6. r \in Seq(Members(ever)) /\ Len(r) = Len(result) + 1 /\ Members(r) = Members(result) \cup {p}
      BY <1>7, <3>2, AppendFacts
    <3>7. Null \notin Members(r)
      BY <1>3, <1>5, <3>1, <3>6
    <3>8. ASSUME l = "done", Len(ever) <= MaxVisited + 1 PROVE initial \subseteq Members(r)
      <4>1. ~(walk.count + 1 <= MaxVisited)
        BY <3>3, <3>8 DEF GoOn
      <4>2. Len(ever) <= Len(r)
        BY <1>3, <2>2, <3>6, <3>8, <4>1, CollectionWalkAssumption
      <4>3. Distinct(r)
        <5>1. r \in Seq(Nat)
          <6>1. Members(ever) \subseteq Nat
            BY <1>3
          <6> QED BY <3>6, <6>1, SeqMono
        <5>2. \A i, j \in DOMAIN r : i < j => r[i] < r[j]
          BY <3>2, <3>5 DEF OnStack
        <5> QED BY <5>1, <5>2, AscendingDistinct
      <4>4. Members(ever) \subseteq Members(r)
        BY <1>3, <3>6, <4>2, <4>3, AllDelivered
      <4> QED BY <1>3, <4>4
    <3>9. OnStack(hi, Front(walk.stack), r) /\ AtNode(lo, hi, Front(walk.stack), next[p], r, initial)
      BY <3>2, <3>5
    <3>10. walk.count + 1 = Len(r)
      BY <2>2, <3>6
    <3> QED BY <1>8, <3>2, <3>3, <3>4, <3>7, <3>8, <3>9, <3>10
  <2> QED BY <2>3, <2>4
<1> QED
  BY <1>4, <1>10, <1>11, <1>12 DEF Walk, ReadFields, ReadElement, ReadItem, ReadNext, ReadBucket, ReadNode

LEMMA TreeOnce ==
    ASSUME ContainerType, WalkType, TreeClear, "rotated" \notin changes
    PROVE  Clear(result)
<1>1. PICK hi : OnStack(hi, walk.stack, result)
  BY DEF TreeClear, TreeWalk
<1>2. result \in Seq(Nat)
  <2>1. result \in Seq(Known) /\ Known \subseteq Nat
    BY MembersIn, ElementFacts DEF WalkType, ContainerType, Known
  <2> QED BY <2>1, SeqMono
<1>3. Distinct(result)
  BY <1>1, <1>2, AscendingDistinct DEF OnStack
<1> QED BY <1>3, DistinctClear

-----------------------------------------------------------------------------
(* Every walk: nothing but what was in the container, and nothing twice.   *)

WalkInv ==
    /\ ContainerType /\ ShiftType /\ WalkType /\ Loose
    /\ kind \in {"array", "generic", "raw"} /\ "shifted" \notin changes => ArraysClear
    /\ kind = "linked" => LinksClear
    /\ kind = "hash" => HashClear
    /\ kind = "tree" => TreeClear

LEMMA WalkInvInit ==
    ASSUME InitWalk
    PROVE  WalkInv
<1>1. PICK k \in Kind, s \in Seq(Element) :
         Distinct(s) /\ (k \in {"array", "generic"} => Len(s) <= Buckets) /\ Filled(k, s)
  BY InitFilled
<1>2. ContainerType /\ ShiftType /\ WalkType /\ kind = k
  BY <1>1, InitType, ShiftInit DEF Filled
<1>3. Loose
  <2>1. /\ ever = s
        /\ next = (IF k = "linked" THEN Chain(s) ELSE IF k = "hash" THEN HashLinks(s, 1)
                   ELSE IF k = "tree" THEN Larger(s) ELSE NoLinks)
        /\ left = (IF k = "tree" THEN Smaller(s) ELSE NoLinks)
    BY <1>1 DEF Filled
  <2>2. ASSUME NEW x \in Element, x \notin Members(s)
        PROVE  /\ Chain(s)[x] = Null /\ HashLinks(s, 1)[x] = Null
               /\ Larger(s)[x] = Null /\ Smaller(s)[x] = Null /\ NoLinks[x] = Null
    BY <2>2 DEF Chain, HashLinks, Larger, Smaller, NoLinks
  <2> QED BY <2>1, <2>2 DEF Loose
<1>4. k \in {"array", "generic", "raw"} => ArraysClear
  BY <1>1, ArrayInit
<1>5. k = "linked" => LinksClear
  BY <1>1, LinkInit
<1>6. k = "hash" => HashClear
  BY <1>1, HashInit
<1>7. k = "tree" => TreeClear
  BY <1>1, TreeInit
<1> QED BY <1>2, <1>3, <1>4, <1>5, <1>6, <1>7 DEF WalkInv

LEMMA WalkInvStep ==
    ASSUME WalkInv, [NextWalk]_walkVars
    PROVE  WalkInv'
<1> USE DEF WalkInv
<1>1. CASE Plain
  <2>1. ContainerType' /\ ShiftType' /\ WalkType' /\ Loose'
    BY <1>1, PlainType, PlainShift
  <2>2. kind' = kind /\ ("shifted" \notin changes' => "shifted" \notin changes)
    BY <1>1, PlainKeeps
  <2> QED BY <1>1, <2>1, <2>2, ArrayMutate, LinkMutate, HashMutate, TreeMutate
<1>4. CASE Shifts
  <2>1. ContainerType' /\ ShiftType' /\ WalkType' /\ Loose'
    BY <1>4, ShiftsType
  <2>2. kind' = kind /\ kind \in {"array", "generic"} /\ "shifted" \in changes'
    BY <1>4, ShiftsType
  <2> QED BY <2>1, <2>2
<1>5. CASE Links
  <2>1. ContainerType' /\ ShiftType' /\ WalkType' /\ Loose'
    BY <1>5, LinksType
  <2>2. kind' = kind /\ kind = "linked"
    BY <1>5, LinksType
  <2>3. LinksClear'
    BY <1>5, <2>2, LinkInsert
  <2> QED BY <2>1, <2>2, <2>3
<1>2. CASE Walk
  <2>1. ContainerType' /\ WalkType' /\ Loose'
    BY <1>2, WalkStepType
  <2>2. kind' = kind /\ changes' = changes
    BY <1>2, WalkIsStep, StepSame
  <2>3. ShiftType'
    BY <1>2, <2>2, WalkIsStep, StepSame, ShiftKept
  <2> QED BY <1>2, <2>1, <2>2, <2>3, ArrayWalk, LinkWalk, HashWalk, TreeStep
<1>3. CASE UNCHANGED walkVars
  <2>1. Step /\ walk' = walk /\ result' = result
    BY <1>3 DEF walkVars, Step
  <2>2. /\ kind' = kind /\ arrays' = arrays /\ table' = table /\ size' = size /\ next' = next /\ left' = left
        /\ item' = item /\ content' = content /\ initial' = initial /\ ever' = ever /\ changes' = changes
    BY <2>1, StepSame
  <2>3. ContainerType' /\ Loose' /\ Known' = Known /\ Members(ever)' = Members(ever)
    BY <2>1, StepKeeps
  <2>4. WalkType'
    BY <2>1, <2>2, <2>3, WalkTypeKept
  <2>5. ArraysClear => ArraysClear'
    BY <2>1, <2>2, Zenon DEF ArraysClear, Source
  <2>6. LinksClear => LinksClear'
    BY <2>1, <2>2, Zenon DEF LinksClear
  <2>7. HashClear => HashClear'
    BY <2>1, <2>2, Zenon DEF HashClear
  <2>8. TreeClear => TreeClear'
    BY <2>1, <2>2, Zenon DEF TreeClear, TreeWalk, Rooted
  <2>9. ShiftType'
    BY <2>1, <2>2, StepSame, ShiftKept
  <2> QED BY <2>2, <2>3, <2>4, <2>5, <2>6, <2>7, <2>8, <2>9
<1> QED BY <1>1, <1>2, <1>3, <1>4, <1>5, MutateCases DEF NextWalk

\* A walk delivers only what was in the container at some time of it, and nothing twice
\* unless a tree was rotated or the elements of an array list shifted under it: whichever of
\* the modelled operations Java code does, however many, and wherever it is in one of them.
THEOREM WalkDeliversOnce == WalkSpec => []NoStrangers
<1>1. InitWalk => WalkInv
  BY WalkInvInit
<1>2. WalkInv /\ [NextWalk]_walkVars => WalkInv'
  BY WalkInvStep
<1>3. WalkInv => NoStrangers
  <2> SUFFICES ASSUME WalkInv PROVE NoStrangers
    OBVIOUS
  <2>1. ContainerType /\ WalkType /\ result \in Seq(Known)
    BY DEF WalkInv, WalkType
  <2>2. Members(result) \subseteq Members(ever) \cup {Null}
    BY <2>1, MembersIn DEF Known
  <2>3. ASSUME "rotated" \notin changes, "shifted" \notin changes PROVE Once(Members(result) \ {Null})
    <3>1. kind \in {"array", "linked", "hash", "tree", "generic", "raw"}
      BY <2>1 DEF ContainerType
    <3>2. Clear(result)
      BY <2>1, <2>3, <3>1, TreeOnce DEF WalkInv, ArraysClear, LinksClear, HashClear
    <3> QED BY <2>1, <3>2, ClearOnce
  <2> QED BY <2>2, <2>3 DEF NoStrangers
<1> QED BY <1>1, <1>2, <1>3, PTL DEF WalkSpec

-----------------------------------------------------------------------------
(* Lists: while elements are only added, the walk copies the first n.      *)

Gentle == changes \subseteq {"added"}

\* What no change has touched yet.
Still ==
    /\ walk.pc = "begin" => changes = {}
    /\ changes = {} => initial = Members(content) /\ content = ever

Prefix(r, c, n) == Len(r) = n /\ n <= Len(c) /\ \A j \in 1..n : r[j] = c[j]
Serves(a, c, n) == n <= Len(a) /\ \A j \in 1..n : a[j] = c[j]

\* How far the walk w is in the list c, where r is what it delivered.
Reach(w) == IF w.pc = "next" THEN w.index + 1 ELSE IF w.pc = "done" THEN w.n ELSE w.index
Counted(w, r, c, I, ch) ==
    /\ Prefix(r, c, Reach(w))
    /\ w.pc # "begin" => w.n <= Len(c) /\ I = {c[j] : j \in 1..w.n} /\ (ch = {} => w.n = Len(c))
    /\ w.pc \notin {"begin", "done"} => w.index < w.n

LEMMA PrefixFacts ==
    ASSUME NEW K, NEW r \in Seq(K), NEW c \in Seq(Element), NEW n \in Nat, Prefix(r, c, n)
    PROVE  /\ \A e \in Element : Prefix(r, Append(c, e), n)
           /\ n < Len(c) /\ c[n + 1] \in K => Prefix(Append(r, c[n + 1]), c, n + 1)
           /\ n = Len(c) => r = c
<1>1. Len(r) = n /\ n <= Len(c) /\ DOMAIN r = 1..n /\ DOMAIN c = 1..Len(c) /\ Len(c) \in Nat /\ \A j \in 1..n : r[j] = c[j]
  BY DEF Prefix
<1>2. ASSUME NEW e \in Element PROVE Prefix(r, Append(c, e), n)
  <2>1. PICK d : d = Append(c, e)
    OBVIOUS
  <2>2. Len(d) = Len(c) + 1 /\ \A i \in 1..Len(c) : d[i] = c[i]
    BY <2>1, AppendFacts
  <2>3. Prefix(r, d, n)
    BY <1>1, <2>2 DEF Prefix
  <2> QED BY <2>1, <2>3
<1>3. ASSUME n < Len(c), c[n + 1] \in K PROVE Prefix(Append(r, c[n + 1]), c, n + 1)
  <2>1. PICK q : q = Append(r, c[n + 1])
    OBVIOUS
  <2>2. Len(q) = n + 1 /\ (\A i \in 1..n : q[i] = r[i]) /\ q[n + 1] = c[n + 1]
    BY <1>1, <1>3, <2>1, AppendFacts
  <2>3. Prefix(q, c, n + 1)
    <3>1. ASSUME NEW j \in 1..(n + 1) PROVE q[j] = c[j]
      BY <1>1, <2>2
    <3> QED BY <1>1, <1>3, <2>2, <3>1 DEF Prefix
  <2> QED BY <2>1, <2>3
<1>4. ASSUME n = Len(c) PROVE r = c
  BY <1>1, <1>4
<1> QED BY <1>2, <1>3, <1>4

\* An element is added at the end of the list.
LEMMA CountedAdd ==
    ASSUME NEW w, NEW K, NEW r \in Seq(K), NEW c \in Seq(Element), NEW I, NEW ch, NEW ch2, ch2 # {},
           w.n \in Nat, w.index \in Nat, w.pc # "begin", NEW e \in Element, Counted(w, r, c, I, ch)
    PROVE  Counted(w, r, Append(c, e), I, ch2)
<1>1. Reach(w) \in Nat
  BY DEF Reach
<1>2. PICK d : d = Append(c, e)
  OBVIOUS
<1>3. Len(d) = Len(c) + 1 /\ Len(c) \in Nat /\ \A i \in 1..Len(c) : d[i] = c[i]
  BY <1>2, AppendFacts
<1>4. Prefix(r, d, Reach(w))
  BY <1>1, <1>2, PrefixFacts DEF Counted
<1>5. w.n <= Len(c) /\ I = {c[j] : j \in 1..w.n}
  BY DEF Counted
<1>6. {c[j] : j \in 1..w.n} = {d[j] : j \in 1..w.n}
  <2>1. \A j \in 1..w.n : d[j] = c[j]
    BY <1>3, <1>5
  <2> QED BY <2>1
<1>7. w.n <= Len(d)
  BY <1>3, <1>5
<1>8. Counted(w, r, d, I, ch2)
  BY <1>4, <1>5, <1>6, <1>7 DEF Counted
<1> QED BY <1>2, <1>8

\* At the end all that was there is delivered, once.
LEMMA CountedAll ==
    ASSUME ContainerType, WalkType, walk.pc = "done", Counted(walk, result, content, initial, changes)
    PROVE  /\ Once(initial) /\ Null \notin Members(result)
           /\ changes = {} => result = content
<1>1. /\ content \in Seq(Element) /\ Distinct(content) /\ result \in Seq(Known) /\ walk.n \in Nat
  BY DEF ContainerType, WalkType
<1>2. /\ Prefix(result, content, walk.n) /\ initial = {content[j] : j \in 1..walk.n}
      /\ changes = {} => walk.n = Len(content)
  BY DEF Counted, Reach
<1>3. PICK n \in Nat : n = walk.n
  BY <1>1
<1>4. /\ DOMAIN result = 1..n /\ 1..n \subseteq DOMAIN content /\ \A j \in 1..n : result[j] = content[j]
  BY <1>1, <1>2, <1>3 DEF Prefix
<1>5. Null \notin Members(result)
  BY <1>1, <1>4, ElementFacts DEF Members
<1>6. ASSUME NEW x \in initial PROVE Cardinality({i \in DOMAIN result : result[i] = x}) = 1
  <2>1. PICK j \in 1..n : x = content[j]
    BY <1>2, <1>3
  <2>2. {i \in DOMAIN result : result[i] = x} = {j}
    BY <1>1, <1>4, <2>1 DEF Distinct
  <2> QED BY <2>2, FS_Singleton
<1>7. changes = {} => result = content
  BY <1>1, <1>2, <1>3, PrefixFacts
<1> QED BY <1>5, <1>6, <1>7 DEF Once

LEMMA StillInit ==
    ASSUME NEW k, NEW s, Filled(k, s)
    PROVE  Still
BY DEF Filled, Still

LEMMA StillStep ==
    ASSUME Still, ContainerType, ShiftType, WalkType, Loose, [NextWalk]_walkVars
    PROVE  Still'
<1>1. CASE Mutate
  <2>1. changes' # {} /\ walk' = walk /\ walk.pc # "begin"
    <3>1. CASE Plain
      <4>1. changes' # {}
        BY <3>1, PlainKeeps
      <4>2. walk' = walk /\ walk.pc # "begin"
        BY <3>1 DEF Plain, ArrayAdd, ArrayStore, LinkLast, HashPut, TreePut, ListRemove, Unlink, HashRemove,
             RotateLeft, RotateRight, HashResize, Java, Underway, Running
      <4> QED BY <4>1, <4>2
    <3>2. CASE Shifts
      <4>1. "shifted" \in changes' /\ walk' = walk /\ walk.pc # "begin"
        BY <3>2, ShiftsType
      <4> QED BY <4>1
    <3>3. CASE Links
      <4>1. "inserted" \in changes' /\ walk' = walk /\ walk.pc # "begin"
        BY <3>3, LinksType
      <4> QED BY <4>1
    <3> QED BY <1>1, <3>1, <3>2, <3>3, MutateCases
  <2> QED BY <2>1 DEF Still
<1>2. CASE Walk
  <2>1. content' = content /\ initial' = initial /\ ever' = ever /\ changes' = changes
    BY <1>2, WalkIsStep, StepSame
  <2>2. Members(content)' = Members(content)
    BY <2>1 DEF Members
  <2>3. walk'.pc # "begin" \/ walk' = walk \/ walk.pc = "begin"
    <3>1. walk \in WalkRecord
      BY DEF WalkType, WalkRecord
    <3> QED
      BY <1>2, <3>1 DEF WalkRecord, Walk, BeginWalk, ReadFields, ReadElement, ReadItem, ReadNext, ReadBucket,
           ReadNode, Spine, Visit, GoOn
  <2> QED BY <2>1, <2>2, <2>3 DEF Still
<1>3. CASE UNCHANGED walkVars
  <2>1. content' = content /\ initial' = initial /\ ever' = ever /\ changes' = changes /\ walk' = walk
    BY <1>3 DEF walkVars, container
  <2>2. Members(content)' = Members(content)
    BY <2>1 DEF Members
  <2> QED BY <2>1, <2>2 DEF Still
<1> QED BY <1>1, <1>2, <1>3 DEF NextWalk

\* The walk starts with the elements of the moment.
LEMMA CountedBegin ==
    ASSUME NEW c \in Seq(Element), NEW w, NEW ch, w.n = Len(c), w.index = 0, w.pc \in {"fields", "element", "done"},
           w.pc = "done" => w.n = 0, w.pc # "done" => w.n > 0
    PROVE  Counted(w, <<>>, c, Members(c), ch)
<1>1. Reach(w) = 0
  BY DEF Reach
<1>2. Prefix(<<>>, c, 0)
  BY DEF Prefix
<1>3. Members(c) = {c[j] : j \in 1..w.n} /\ w.n <= Len(c)
  BY DEF Members
<1> QED BY <1>1, <1>2, <1>3 DEF Counted

\* It takes the next element.
LEMMA CountedPush ==
    ASSUME NEW K, NEW r \in Seq(K), NEW c \in Seq(Element), NEW w, NEW v, NEW I, NEW ch, Counted(w, r, c, I, ch),
           w.n \in Nat, w.index \in Nat, w.pc \in {"element", "item"}, v.n = w.n, c[w.index + 1] \in K,
           \/ v.pc = "next" /\ v.index = w.index
           \/ v.index = w.index + 1 /\ v.pc = (IF w.index + 1 < w.n THEN "element" ELSE "done")
    PROVE  Counted(v, Append(r, c[w.index + 1]), c, I, ch)
<1>1. PICK i \in Nat, n \in Nat : i = w.index /\ n = w.n
  OBVIOUS
<1>2. Prefix(r, c, i) /\ n <= Len(c) /\ I = {c[j] : j \in 1..n} /\ (ch = {} => n = Len(c)) /\ i < n
  BY <1>1 DEF Counted, Reach
<1>3. Len(c) \in Nat /\ i < Len(c)
  BY <1>2
<1>4. PICK q : q = Append(r, c[i + 1])
  OBVIOUS
<1>5. Prefix(q, c, i + 1)
  BY <1>1, <1>2, <1>3, <1>4, PrefixFacts
<1>6. Reach(v) = i + 1 /\ v.n = n /\ v.pc # "begin"
  BY <1>1, <1>2 DEF Reach
<1>7. v.pc # "done" => v.index < v.n
  BY <1>1, <1>2
<1>8. Counted(v, q, c, I, ch)
  BY <1>2, <1>5, <1>6, <1>7 DEF Counted
<1> QED BY <1>1, <1>4, <1>8

ArrayGains ==
    Gentle => /\ Counted(walk, result, content, initial, changes)
              /\ kind = "raw" => arrays[1] = content /\ walk.arr = 1
              /\ walk.pc = "element" => Serves(Source, content, walk.n)

LEMMA ArrayGainsInit ==
    ASSUME NEW k \in Kind, NEW s \in Seq(Element), Filled(k, s), k \in {"array", "generic", "raw"}
    PROVE  ArrayGains
<1>1. /\ kind = k /\ arrays = <<ArrayOf(k, s), <<>>>> /\ content = s /\ walk = NoWalk /\ result = <<>>
  BY DEF Filled
<1>2. walk.pc = "begin" /\ walk.index = 0 /\ walk.arr = 1
  BY <1>1 DEF NoWalk
<1>3. k = "raw" => arrays[1] = s
  BY <1>1 DEF ArrayOf
<1>4. Reach(walk) = 0 /\ Prefix(<<>>, s, 0)
  BY <1>2 DEF Reach, Prefix
<1>5. Counted(walk, result, content, initial, changes)
  BY <1>1, <1>2, <1>4 DEF Counted
<1> QED BY <1>1, <1>2, <1>3, <1>5 DEF ArrayGains

LEMMA ServesAdd ==
    ASSUME NEW K, NEW a \in Seq(K), NEW L, NEW b \in Seq(L), NEW c \in Seq(Element), NEW e \in Element, NEW n \in Nat,
           n <= Len(c), Serves(a, c, n), b = a \/ Overwritten(a, Len(c) + 1, e, b)
    PROVE  Serves(b, Append(c, e), n)
<1>1. PICK d : d = Append(c, e)
  OBVIOUS
<1>2. Len(c) \in Nat /\ \A i \in 1..Len(c) : d[i] = c[i]
  BY <1>1, AppendFacts
<1>3. Len(b) = Len(a) /\ n <= Len(a) /\ Len(a) \in Nat /\ DOMAIN a = 1..Len(a) /\ \A j \in 1..n : a[j] = c[j]
  BY DEF Overwritten, Serves
<1>4. ASSUME NEW j \in 1..n PROVE b[j] = d[j]
  <2>1. d[j] = c[j] /\ j # Len(c) + 1 /\ j \in DOMAIN a
    BY <1>2, <1>3
  <2>2. b[j] = a[j]
    BY <2>1 DEF Overwritten
  <2> QED BY <1>3, <2>1, <2>2
<1>5. Serves(b, d, n)
  BY <1>3, <1>4 DEF Serves
<1> QED BY <1>1, <1>5

\* What a change that only adds leaves behind.
LEMMA GentleBefore ==
    ASSUME Plain, Gentle'
    PROVE  /\ Gentle /\ changes' # {}
           /\ kind' = kind /\ walk' = walk /\ result' = result /\ initial' = initial
           /\ walk.pc \notin {"begin", "done"}
           /\ \E e \in Element \ Members(ever) :
                 ever' = Append(ever, e) /\ (ArrayAdd(e) \/ LinkLast(e) \/ HashPut(e) \/ TreePut(e))
<1>1. PICK what : changes' = changes \cup {what}
  BY DEF Plain, ArrayAdd, ArrayStore, LinkLast, HashPut, TreePut, ListRemove, Unlink, HashRemove,
         RotateLeft, RotateRight, HashResize, Changed, Lifted
<1>2. /\ kind' = kind /\ walk' = walk /\ result' = result /\ initial' = initial
      /\ walk.pc \notin {"begin", "done"}
  BY DEF Plain, ArrayAdd, ArrayStore, LinkLast, HashPut, TreePut, ListRemove, Unlink, HashRemove,
         RotateLeft, RotateRight, HashResize, Java, Underway, Running
<1>3. "removed" \notin changes' /\ "resized" \notin changes' /\ "rotated" \notin changes'
  BY DEF Gentle
<1>4. ~HashResize /\ \A e \in Element : ~ArrayStore(e) /\ ~ListRemove(e) /\ ~Unlink(e) /\ ~HashRemove(e)
                                        /\ ~RotateLeft(e) /\ ~RotateRight(e)
  BY <1>3 DEF ArrayStore, ListRemove, Unlink, HashRemove, RotateLeft, RotateRight, HashResize,
     Changed, Lifted
<1>5. Gentle /\ changes' # {}
  BY <1>1 DEF Gentle
<1> QED BY <1>2, <1>4, <1>5 DEF Plain

LEMMA ArrayGainsMutate ==
    ASSUME ContainerType, WalkType, ArraysClear, ArrayGains, kind \in {"array", "generic", "raw"}, Plain
    PROVE  ArrayGains'
<1>1. SUFFICES ASSUME Gentle'
               PROVE  /\ Counted(walk, result, content, initial, changes)'
                      /\ (kind = "raw" => arrays[1] = content /\ walk.arr = 1)'
                      /\ (walk.pc = "element" => Serves(Source, content, walk.n))'
  BY DEF ArrayGains
<1>2. /\ Gentle /\ changes' # {} /\ kind' = kind /\ walk' = walk /\ result' = result /\ initial' = initial
      /\ walk.pc \notin {"begin", "done"}
  BY <1>1, GentleBefore
<1>3. PICK e \in Element \ Members(ever) : ArrayAdd(e)
  <2>1. PICK e \in Element \ Members(ever) : ArrayAdd(e) \/ LinkLast(e) \/ HashPut(e) \/ TreePut(e)
    BY <1>1, GentleBefore
  <2> QED BY <2>1 DEF LinkLast, HashPut, TreePut
<1>4. /\ arrays \in [1..2 -> Seq(Known)] /\ content \in Seq(Element) /\ table \in 1..2 /\ size = Len(content)
      /\ Len(content) \in Nat /\ result \in Seq(Known)
      /\ walk.arr \in 1..2 /\ walk.n \in Nat /\ walk.index \in Nat
  BY DEF ContainerType, WalkType
<1>5. /\ Counted(walk, result, content, initial, changes)
      /\ walk.pc = "element" => Serves(Source, content, walk.n)
  BY <1>2 DEF ArrayGains
<1>6. PICK c \in Seq(Element) : c = Append(content, e) /\ c = content' /\ Len(c) = Len(content) + 1
  <2>1. content' = Append(content, e)
    BY <1>3 DEF ArrayAdd
  <2> QED BY <1>4, <2>1, AppendFacts
<1>7. Counted(walk, result, content, initial, changes)'
  <2>1. Counted(walk, result, c, initial, changes')
    BY <1>2, <1>4, <1>5, <1>6, CountedAdd
  <2> QED BY <1>2, <1>6, <2>1, Zenon
<1>8. kind # "raw"
  BY <1>3 DEF ArrayAdd
<1>9. ASSUME walk.pc = "element" PROVE Serves(Source, content, walk.n)'
  <2>1. walk.n <= Len(content) /\ walk.n <= Len(c)
    BY <1>2, <1>4, <1>5, <1>6 DEF Counted
  <2>2. CASE kind = "generic"
    <3>1. Serves(c, c, walk.n)
      BY <2>1 DEF Serves
    <3>2. Source' = c
      BY <1>2, <1>6, <2>2 DEF Source
    <3> QED BY <1>2, <1>6, <3>1, <3>2, Zenon
  <2>3. CASE kind # "generic"
    <3>1. Serves(arrays[walk.arr], content, walk.n) /\ arrays[walk.arr] \in Seq(Known)
      BY <1>4, <1>5, <1>9, <2>3 DEF Source
    <3>2. PICK A : A = arrays'
      OBVIOUS
    <3>3. /\ A[walk.arr] \in Seq(Known \cup {e})
          /\ A[walk.arr] = arrays[walk.arr] \/ Overwritten(arrays[walk.arr], Len(content) + 1, e, A[walk.arr])
      <4>1. CASE size < Len(arrays[table]) /\ arrays' = [arrays EXCEPT ![table][size + 1] = e] /\ table' = table
        <5>1. PICK i \in 1..Len(arrays[table]) : i = size + 1
          <6>1. Len(arrays[table]) \in Nat
            BY <1>4
          <6> QED BY <1>4, <4>1, <6>1
        <5>2. A = [arrays EXCEPT ![table][i] = e]
          BY <3>2, <4>1, <5>1
        <5>3. arrays \in [1..2 -> Seq(Known \cup {e})]
          BY <1>4, SeqMono
        <5>4. /\ A \in [1..2 -> Seq(Known \cup {e})]
              /\ \A u \in 1..2 \ {table} : A[u] = arrays[u]
              /\ Len(A[table]) = Len(arrays[table])
              /\ A[table][i] = e
              /\ \A j \in 1..Len(arrays[table]) \ {i} : A[table][j] = arrays[table][j]
          <6>1. e \in Known \cup {e} /\ table \in 1..2
            BY <1>4
          <6> QED BY <5>2, <5>3, <6>1, SetPlace
        <5>5. Overwritten(arrays[table], i, e, A[table])
          <6>1. DOMAIN arrays[table] = 1..Len(arrays[table])
            BY <1>4
          <6> QED BY <5>1, <5>4, <6>1 DEF Overwritten
        <5>6. i = Len(content) + 1
          BY <1>4, <5>1
        <5>7. CASE walk.arr = table
          BY <1>4, <5>4, <5>5, <5>6, <5>7
        <5>8. CASE walk.arr # table
          BY <1>4, <5>4, <5>8
        <5> QED BY <5>7, <5>8
      <4>2. CASE /\ size = Len(arrays[table]) /\ table = 1 /\ table' = 2
                 /\ arrays' = [arrays EXCEPT ![2] = Padded(Append(content, e), 2 * Len(arrays[table]))]
        <5>1. walk.arr = 1
          BY <4>2 DEF ArraysClear
        <5>2. A[walk.arr] = arrays[walk.arr]
          BY <1>4, <3>2, <4>2, <5>1
        <5> QED BY <3>1, <5>2, SeqMono
      <4> QED BY <1>3, <4>1, <4>2 DEF ArrayAdd
    <3>4. Serves(A[walk.arr], c, walk.n)
      <4>1. PICK b \in Seq(Known \cup {e}) : b = A[walk.arr]
        BY <3>3
      <4>2. PICK a \in Seq(Known) : a = arrays[walk.arr]
        BY <3>1
      <4>3. Serves(b, c, walk.n)
        BY <1>4, <1>6, <2>1, <3>1, <3>3, <4>1, <4>2, ServesAdd
      <4> QED BY <4>1, <4>3
    <3>5. Source' = A[walk.arr]
      BY <1>2, <2>3, <3>2 DEF Source
    <3> QED BY <1>2, <1>6, <3>4, <3>5, Zenon
  <2> QED BY <2>2, <2>3
<1> QED BY <1>2, <1>7, <1>8, <1>9

LEMMA ArrayGainsWalk ==
    ASSUME ContainerType, WalkType, Still, ArraysClear, ArrayGains, kind \in {"array", "generic", "raw"}, Walk
    PROVE  ArrayGains'
<1>1. /\ kind' = kind /\ arrays' = arrays /\ table' = table /\ size' = size /\ content' = content
      /\ initial' = initial /\ changes' = changes
  BY WalkIsStep, StepSame
<1>2. walk \in WalkRecord /\ result \in Seq(Known) /\ table \in {1, 2} /\ content \in Seq(Element) /\ size = Len(content)
  BY DEF WalkType, WalkRecord, ContainerType
<1>3. walk.pc \in {"begin", "done", "fields", "element"} /\ (walk.pc = "fields" => kind = "array")
  BY <1>2 DEF WalkRecord, Stages
<1>4. /\ walk.n \in Nat /\ walk.index \in Nat /\ walk.arr \in {1, 2} /\ Len(content) \in Nat
  BY <1>2 DEF WalkRecord
<1>5. SUFFICES ASSUME Gentle PROVE ArrayGains'
  BY <1>1 DEF ArrayGains, Gentle
<1>6. /\ Counted(walk, result, content, initial, changes)
      /\ kind = "raw" => arrays[1] = content /\ walk.arr = 1
      /\ walk.pc = "element" => Serves(Source, content, walk.n)
  BY <1>5 DEF ArrayGains
<1>7. ASSUME NEW r, r = result', NEW w, w = walk', Counted(w, r, content, initial, changes), kind = "raw" => w.arr = 1,
             w.pc = "element" => Serves(IF kind = "generic" THEN content ELSE arrays[w.arr], content, w.n)
      PROVE  ArrayGains'
  <2>1. Source' = IF kind = "generic" THEN content ELSE arrays[w.arr]
    BY <1>1, <1>7 DEF Source
  <2>2. (walk.pc = "element" => Serves(Source, content, walk.n))'
    BY <1>1, <1>7, <2>1, Zenon
  <2>3. Counted(walk, result, content, initial, changes)'
    BY <1>1, <1>7, Zenon
  <2>4. (kind = "raw" => arrays[1] = content /\ walk.arr = 1)'
    BY <1>1, <1>6, <1>7
  <2> QED BY <2>2, <2>3, <2>4 DEF ArrayGains
<1>8. CASE BeginWalk
  <2>1. /\ result' = result /\ walk.pc = "begin" /\ result = <<>> /\ walk.index = 0
        /\ initial = Members(content)
    BY <1>8 DEF BeginWalk, ArraysClear, Still
  <2>2. PICK l : /\ l = GoOn(size > 0, IF kind = "array" THEN "fields" ELSE "element")
                 /\ walk' = [walk EXCEPT !.n = size, !.pc = l]
    BY <1>8 DEF BeginWalk
  <2>3. walk'.pc = l /\ walk'.index = walk.index /\ walk'.arr = walk.arr /\ walk'.n = size
    BY <1>2, <2>2 DEF WalkRecord
  <2>4. PICK w : w = walk' /\ w.pc = l /\ w.index = 0 /\ w.arr = walk.arr /\ w.n = Len(content)
    BY <1>2, <2>1, <2>3
  <2>5. /\ l \in {"fields", "element", "done"} /\ (l = "done" => w.n = 0) /\ (l # "done" => w.n > 0)
        /\ l = "element" => kind \in {"generic", "raw"}
    BY <1>2, <1>4, <2>2, <2>4 DEF GoOn
  <2>6. Counted(w, <<>>, content, Members(content), changes)
    BY <1>2, <2>4, <2>5, CountedBegin
  <2>7. w.pc = "element" => Serves(IF kind = "generic" THEN content ELSE arrays[w.arr], content, w.n)
    <3>1. Serves(content, content, w.n)
      BY <1>4, <2>4 DEF Serves
    <3> QED BY <1>6, <2>4, <2>5, <3>1
  <2>8. Counted(w, result, content, initial, changes)
    BY <2>1, <2>6
  <2> QED BY <1>6, <1>7, <2>1, <2>4, <2>7, <2>8
<1>9. CASE ReadFields
  <2>1. result' = result /\ walk.pc = "fields" /\ kind = "array"
    BY <1>3, <1>9 DEF ReadFields
  <2>2. walk' = [walk EXCEPT !.arr = table, !.pc = "element"]
    BY <1>9, <2>1 DEF ReadFields
  <2>3. walk'.pc = "element" /\ walk'.arr = table /\ walk'.index = walk.index /\ walk'.n = walk.n
    BY <1>2, <2>2 DEF WalkRecord
  <2>4. PICK w : w = walk' /\ w.pc = "element" /\ w.arr = table /\ w.index = walk.index /\ w.n = walk.n
    BY <2>3
  <2>5. Counted(w, result, content, initial, changes) /\ w.n <= Len(content)
    <3>1. Reach(w) = Reach(walk) /\ walk.n <= Len(content) /\ walk.index < walk.n
      BY <1>6, <2>1, <2>4 DEF Reach, Counted
    <3> QED BY <1>6, <2>1, <2>4, <3>1 DEF Counted
  <2>6. Serves(arrays[table], content, w.n)
    <3>1. Holds(arrays[table], content)
      BY <2>1 DEF ArraysClear
    <3>2. PICK a \in Seq(Known) : a = arrays[table]
      BY <1>2 DEF ContainerType
    <3>3. Serves(a, content, w.n)
      BY <1>2, <1>4, <2>4, <2>5, <3>1, <3>2 DEF Holds, Serves
    <3> QED BY <3>2, <3>3
  <2> QED BY <1>7, <2>1, <2>4, <2>5, <2>6
<1>10. CASE ReadElement
  <2>1. walk.pc = "element" /\ walk.index < walk.n /\ walk.n <= Len(content)
    BY <1>6, <1>10 DEF ReadElement, Counted
  <2>2. PICK s : s = (IF kind = "generic" THEN content ELSE arrays[walk.arr]) /\ Serves(s, content, walk.n)
    BY <1>6, <2>1 DEF Source
  <2>3. GetArrayElement(s, walk.index) = content[walk.index + 1] /\ content[walk.index + 1] \in Known
    <3>1. walk.index < Len(s) /\ walk.index + 1 \in 1..walk.n
      <4>1. s \in Seq(Known) \/ s = content
        BY <1>4, <2>2 DEF ContainerType
      <4>2. Len(s) \in Nat
        BY <1>4, <4>1
      <4> QED BY <1>4, <2>1, <2>2, <4>2 DEF Serves
    <3>2. walk.index + 1 \in DOMAIN content
      BY <1>2, <1>4, <2>1
    <3>3. content[walk.index + 1] \in Members(content)
      BY <3>2 DEF Members
    <3> QED BY <2>2, <3>1, <3>3 DEF GetArrayElement, Serves, ContainerType, Known
  <2>4. PICK r : r = result' /\ r = Append(result, content[walk.index + 1])
    BY <1>10, <2>2, <2>3 DEF ReadElement, Push
  <2>5. PICK l : /\ l = (IF walk.index + 1 < walk.n THEN "element" ELSE "done")
                 /\ walk' = [walk EXCEPT !.index = walk.index + 1, !.pc = l]
    BY <1>10 DEF ReadElement, GoOn
  <2>6. walk'.pc = l /\ walk'.index = walk.index + 1 /\ walk'.arr = walk.arr /\ walk'.n = walk.n
    BY <1>2, <1>4, <2>5 DEF WalkRecord
  <2>7. PICK w : w = walk' /\ w.pc = l /\ w.index = walk.index + 1 /\ w.arr = walk.arr /\ w.n = walk.n
    BY <2>6
  <2>8. Counted(w, r, content, initial, changes)
    <3>1. PICK i \in Nat, n \in Nat : i = walk.index /\ n = walk.n
      BY <1>4
    <3>2. w.n = n /\ w.index = i + 1 /\ w.pc = (IF i + 1 < n THEN "element" ELSE "done")
      BY <2>5, <2>7, <3>1
    <3>3. walk.pc \in {"element", "item"} /\ content[i + 1] \in Known /\ r = Append(result, content[i + 1])
      BY <2>1, <2>3, <2>4, <3>1
    <3> QED BY <1>2, <1>6, <3>1, <3>2, <3>3, CountedPush
  <2>9. Serves(IF kind = "generic" THEN content ELSE arrays[w.arr], content, w.n)
    BY <2>2, <2>7
  <2> QED BY <1>6, <1>7, <2>4, <2>7, <2>8, <2>9
<1>11. Walk => BeginWalk \/ ReadFields \/ ReadElement
  BY <1>3 DEF Walk, ReadItem, ReadNext, ReadBucket, ReadNode, Spine, Visit
<1> QED BY <1>8, <1>9, <1>10, <1>11

\* Each node of the list leads to the one behind it.
Joined(c, f) == \A i \in 1..(Len(c) - 1) : f[c[i]] = c[i + 1]

LinkGains ==
    Gentle => /\ Counted(walk, result, content, initial, changes)
              /\ Joined(content, next) /\ (content # <<>> => arrays[1][1] = content[1])
              /\ \A e \in Element : item[e] = e
              /\ walk.pc \in {"item", "next"} => walk.node = content[walk.index + 1]

LEMMA FirstNext ==
    ASSUME NEW s \in Seq(Element), NEW i \in Nat, i < Len(s)
    PROVE  FirstIn(s, Element, i) = s[i + 1]
<1>1. i + 1 \in DOMAIN s /\ i + 1 > i /\ DOMAIN s \subseteq Nat /\ s[i + 1] \in Element
  OBVIOUS
<1>2. PICK k \in DOMAIN s : k > i /\ FirstIn(s, Element, i) = s[k] /\ \A j \in DOMAIN s : i < j /\ j < k => s[j] \notin Element
  BY <1>1, FirstInFacts
<1>3. ~(i + 1 < k)
  BY <1>1, <1>2
<1>4. k = i + 1
  BY <1>1, <1>2, <1>3
<1> QED BY <1>2, <1>4

LEMMA LinkGainsInit ==
    ASSUME NEW k \in Kind, NEW s \in Seq(Element), Distinct(s), Filled(k, s), k = "linked"
    PROVE  LinkGains
<1>1. /\ next = Chain(s) /\ content = s /\ walk = NoWalk /\ result = <<>> /\ arrays[1] = <<FirstIn(s, Element, 0)>>
      /\ item = [e \in Element |-> e]
  BY DEF Filled, ArrayOf
<1>2. walk.pc = "begin" /\ walk.index = 0
  BY <1>1 DEF NoWalk
<1>3. Reach(walk) = 0 /\ Prefix(<<>>, s, 0)
  BY <1>2 DEF Reach, Prefix
<1>4. Counted(walk, result, content, initial, changes)
  BY <1>1, <1>2, <1>3 DEF Counted
<1>5. ASSUME NEW i \in 1..(Len(s) - 1) PROVE Chain(s)[s[i]] = s[i + 1]
  <2>1. i \in Nat /\ i < Len(s) /\ i \in DOMAIN s /\ s[i] \in Element
    OBVIOUS
  <2>2. s[i] \in Members(s) /\ Position(s, s[i]) = i
    BY <2>1, PositionOf DEF Members
  <2> QED BY <2>1, <2>2, FirstNext DEF Chain
<1>6. ASSUME s # <<>> PROVE arrays[1][1] = s[1]
  <2>1. 0 \in Nat /\ 0 < Len(s)
    BY <1>6
  <2>2. FirstIn(s, Element, 0) = s[0 + 1]
    BY <2>1, FirstNext
  <2> QED BY <1>1, <2>2
<1>7. Joined(content, next)
  BY <1>1, <1>5 DEF Joined
<1>8. \A e \in Element : item[e] = e
  BY <1>1
<1> QED BY <1>1, <1>2, <1>4, <1>6, <1>7, <1>8 DEF LinkGains

LEMMA LinkGainsMutate ==
    ASSUME ContainerType, WalkType, LinkGains, kind = "linked", Plain
    PROVE  LinkGains'
<1>1. SUFFICES ASSUME Gentle'
               PROVE  /\ Counted(walk, result, content, initial, changes)'
                      /\ Joined(content, next)' /\ (content # <<>> => arrays[1][1] = content[1])'
                      /\ (\A e \in Element : item[e] = e)'
                      /\ (walk.pc \in {"item", "next"} => walk.node = content[walk.index + 1])'
  BY DEF LinkGains
<1>2. /\ Gentle /\ changes' # {} /\ kind' = kind /\ walk' = walk /\ result' = result /\ initial' = initial
      /\ walk.pc \notin {"begin", "done"}
  BY <1>1, GentleBefore
<1>3. PICK e \in Element \ Members(ever) : LinkLast(e)
  <2>1. PICK e \in Element \ Members(ever) : ArrayAdd(e) \/ LinkLast(e) \/ HashPut(e) \/ TreePut(e)
    BY <1>1, GentleBefore
  <2> QED BY <2>1 DEF ArrayAdd, HashPut, TreePut
<1>4. /\ arrays \in [1..2 -> Seq(Known)] /\ content \in Seq(Element) /\ Distinct(content) /\ next \in [Element -> Known]
      /\ Len(content) \in Nat /\ result \in Seq(Known) /\ DOMAIN content = 1..Len(content)
      /\ walk.n \in Nat /\ walk.index \in Nat
  BY DEF ContainerType, WalkType
<1>5. /\ Counted(walk, result, content, initial, changes)
      /\ Joined(content, next) /\ (content # <<>> => arrays[1][1] = content[1])
      /\ \A x \in Element : item[x] = x
      /\ walk.pc \in {"item", "next"} => walk.node = content[walk.index + 1]
  BY <1>2 DEF LinkGains
<1>6. PICK c \in Seq(Element) : /\ c = Append(content, e) /\ c = content' /\ Len(c) = Len(content) + 1
                                /\ \A i \in 1..Len(content) : c[i] = content[i]
                                /\ c[Len(content) + 1] = e
  <2>1. content' = Append(content, e)
    BY <1>3 DEF LinkLast
  <2>2. content \in Seq(Element) /\ e \in Element
    BY <1>4
  <2>3. /\ Append(content, e) \in Seq(Element) /\ Len(Append(content, e)) = Len(content) + 1
        /\ \A i \in 1..Len(content) : Append(content, e)[i] = content[i]
        /\ Append(content, e)[Len(content) + 1] = e
    BY <2>2, AppendFacts
  <2> QED BY <2>1, <2>3
<1>7. Counted(walk, result, content, initial, changes)'
  <2>1. Counted(walk, result, c, initial, changes')
    <3>1. Counted(walk, result, Append(content, e), initial, changes')
      BY <1>2, <1>4, <1>5, CountedAdd
    <3> QED BY <1>6, <3>1
  <2> QED BY <1>2, <1>6, <2>1, Zenon
<1>8. (\A x \in Element : item[x] = x)'
  BY <1>3, <1>5 DEF LinkLast
<1>9. (walk.pc \in {"item", "next"} => walk.node = content[walk.index + 1])'
  <2>1. walk.index < walk.n /\ walk.n <= Len(content)
    BY <1>2, <1>5 DEF Counted
  <2>2. walk.index + 1 \in 1..Len(content)
    BY <1>4, <2>1
  <2> QED BY <1>2, <1>5, <1>6, <2>2
<1>10. CASE content = <<>>
  <2>1. arrays' = [arrays EXCEPT ![1] = <<e>>] /\ next' = next
    BY <1>3, <1>10 DEF LinkLast
  <2>2. arrays'[1][1] = e
    BY <1>4, <2>1
  <2>3. Len(c) = 1 /\ c[1] = e
    BY <1>6, <1>10
  <2>4. Joined(c, next)
    BY <2>3 DEF Joined
  <2>5. Joined(content, next)'
    BY <1>6, <2>1, <2>4, Zenon
  <2>6. (content # <<>> => arrays[1][1] = content[1])'
    BY <1>6, <2>2, <2>3
  <2> QED BY <1>7, <1>8, <1>9, <2>5, <2>6
<1>11. CASE content # <<>>
  <2>1. arrays' = arrays /\ next' = [next EXCEPT ![Last(content)] = e] /\ Len(content) \in DOMAIN content
        /\ Last(content) = content[Len(content)]
    BY <1>3, <1>4, <1>11 DEF LinkLast, Last
  <2>2. PICK N : N = next' /\ N = [next EXCEPT ![content[Len(content)]] = e]
    BY <2>1
  <2>3. Joined(c, N)
    <3>1. ASSUME NEW i \in 1..(Len(c) - 1) PROVE N[c[i]] = c[i + 1]
      <4>1. i \in DOMAIN content /\ c[i] = content[i] /\ content[i] \in Element
        BY <1>4, <1>6
      <4>2. CASE i = Len(content)
        BY <1>4, <1>6, <2>2, <4>1, <4>2
      <4>3. CASE i # Len(content)
        <5>1. i \in 1..(Len(content) - 1) /\ c[i + 1] = content[i + 1]
          BY <1>4, <1>6, <4>1, <4>3
        <5>2. content[i] # content[Len(content)]
          BY <1>4, <2>1, <4>1, <4>3 DEF Distinct
        <5>3. N[content[i]] = next[content[i]]
          BY <1>4, <2>2, <4>1, <5>2
        <5> QED BY <1>5, <4>1, <5>1, <5>3 DEF Joined
      <4> QED BY <4>2, <4>3
    <3> QED BY <3>1 DEF Joined
  <2>4. Joined(content, next)'
    BY <1>6, <2>2, <2>3, Zenon
  <2>5. (content # <<>> => arrays[1][1] = content[1])'
    <3>1. 1 \in 1..Len(content)
      BY <1>4, <2>1
    <3> QED BY <1>5, <1>6, <1>11, <2>1, <3>1
  <2> QED BY <1>7, <1>8, <1>9, <2>4, <2>5
<1> QED BY <1>10, <1>11

LEMMA LinkGainsWalk ==
    ASSUME ContainerType, WalkType, Still, LinksClear, LinkGains, kind = "linked", Walk
    PROVE  LinkGains'
<1>1. /\ kind' = kind /\ arrays' = arrays /\ next' = next /\ size' = size /\ content' = content /\ item' = item
      /\ initial' = initial /\ changes' = changes
  BY WalkIsStep, StepSame
<1>2. walk \in WalkRecord /\ result \in Seq(Known) /\ content \in Seq(Element) /\ size = Len(content)
  BY DEF WalkType, WalkRecord, ContainerType
<1>3. walk.pc \in {"begin", "done", "fields", "item", "next"}
  BY <1>2 DEF WalkRecord, Stages
<1>4. PICK i \in Nat, n \in Nat : i = walk.index /\ n = walk.n
  BY <1>2 DEF WalkRecord
<1>5. SUFFICES ASSUME Gentle PROVE LinkGains'
  BY <1>1 DEF LinkGains, Gentle
<1>6. /\ Counted(walk, result, content, initial, changes)
      /\ Joined(content, next) /\ (content # <<>> => arrays[1][1] = content[1])
      /\ \A e \in Element : item[e] = e
      /\ walk.pc \in {"item", "next"} => walk.node = content[i + 1]
  BY <1>4, <1>5 DEF LinkGains
<1>7. ASSUME NEW r, r = result', NEW w, w = walk', Counted(w, r, content, initial, changes),
             w.pc \in {"item", "next"} => w.node = content[w.index + 1]
      PROVE  LinkGains'
  <2>1. Counted(walk, result, content, initial, changes)'
    BY <1>1, <1>7, Zenon
  <2>2. Joined(content, next)' /\ (content # <<>> => arrays[1][1] = content[1])' /\ (\A e \in Element : item[e] = e)'
    BY <1>1, <1>6, Zenon
  <2>3. (walk.pc \in {"item", "next"} => walk.node = content[walk.index + 1])'
    BY <1>1, <1>7
  <2> QED BY <2>1, <2>2, <2>3 DEF LinkGains
<1>8. CASE BeginWalk
  <2>1. /\ result' = result /\ walk.pc = "begin" /\ result = <<>> /\ initial = Members(content)
    BY <1>8 DEF BeginWalk, LinksClear, Still
  <2>2. i = 0
    BY <1>4, <1>6, <2>1 DEF Counted, Prefix, Reach
  <2>3. PICK l : l = GoOn(size > 0, "fields") /\ walk' = [walk EXCEPT !.n = size, !.pc = l]
    BY <1>8 DEF BeginWalk
  <2>4. walk'.pc = l /\ walk'.index = walk.index /\ walk'.n = size
    BY <1>2, <2>3 DEF WalkRecord
  <2>5. PICK w : w = walk' /\ w.pc = l /\ w.index = 0 /\ w.n = Len(content)
    BY <1>2, <1>4, <2>2, <2>4
  <2>6. l \in {"fields", "done"} /\ (l = "done" => w.n = 0) /\ (l # "done" => w.n > 0)
    <3>1. Len(content) \in Nat
      BY <1>2
    <3> QED BY <1>2, <2>3, <2>5, <3>1 DEF GoOn
  <2>7. Counted(w, <<>>, content, Members(content), changes)
    BY <1>2, <2>5, <2>6, CountedBegin
  <2>8. Counted(w, result, content, initial, changes)
    BY <2>1, <2>7
  <2> QED BY <1>7, <2>1, <2>5, <2>6, <2>8
<1>9. CASE ReadFields
  <2>1. result' = result /\ walk.pc = "fields" /\ result = <<>>
    BY <1>9 DEF ReadFields, LinksClear
  <2>2. /\ i = 0 /\ 0 < n /\ n <= Len(content) /\ Prefix(result, content, 0)
        /\ initial = {content[j] : j \in 1..n} /\ (changes = {} => n = Len(content))
    BY <1>4, <1>6, <2>1 DEF Counted, Prefix, Reach
  <2>3. content # <<>> /\ content[1] \in Element
    BY <1>2, <2>2
  <2>4. arrays[1][1] = content[1] /\ arrays[1][1] # Null
    BY <1>6, <2>3, ElementFacts
  <2>5. walk' = [walk EXCEPT !.node = content[1], !.pc = "item"]
    BY <1>9, <2>4 DEF ReadFields, GoOn
  <2>6. walk'.pc = "item" /\ walk'.node = content[1] /\ walk'.index = i /\ walk'.n = n
    BY <1>2, <1>4, <2>5 DEF WalkRecord
  <2>7. PICK w : w = walk' /\ w.pc = "item" /\ w.node = content[1] /\ w.index = 0 /\ w.n = n
    BY <2>2, <2>6
  <2>8. Counted(w, result, content, initial, changes)
    <3>1. Reach(w) = 0
      BY <2>7 DEF Reach
    <3> QED BY <2>2, <2>7, <3>1 DEF Counted
  <2> QED BY <1>7, <2>1, <2>7, <2>8
<1>10. CASE ReadItem
  <2>1. walk.pc = "item" /\ result' = Append(result, item[walk.node]) /\ walk' = [walk EXCEPT !.pc = "next"]
    BY <1>10 DEF ReadItem, Push
  <2>2. i < n /\ n <= Len(content)
    BY <1>4, <1>6, <2>1 DEF Counted
  <2>3. i + 1 \in DOMAIN content /\ content[i + 1] \in Element
    BY <1>2, <2>2
  <2>4. content[i + 1] \in Known
    <3>1. content[i + 1] \in Members(content)
      BY <2>3 DEF Members
    <3> QED BY <3>1 DEF ContainerType, Known
  <2>5. PICK r : r = result' /\ r = Append(result, content[i + 1])
    BY <1>6, <2>1, <2>3
  <2>6. walk'.pc = "next" /\ walk'.node = walk.node /\ walk'.index = i /\ walk'.n = n
    BY <1>2, <1>4, <2>1 DEF WalkRecord
  <2>7. PICK w : w = walk' /\ w.pc = "next" /\ w.node = content[i + 1] /\ w.index = i /\ w.n = n
    BY <1>6, <2>1, <2>6
  <2>8. Counted(w, r, content, initial, changes)
    <3>1. walk.pc \in {"element", "item"} /\ walk.n \in Nat /\ walk.index \in Nat /\ w.n = walk.n
          /\ w.pc = "next" /\ w.index = walk.index
          /\ content[walk.index + 1] \in Known /\ r = Append(result, content[walk.index + 1])
      BY <1>4, <2>1, <2>4, <2>5, <2>7
    <3> QED BY <1>2, <1>6, <3>1, CountedPush
  <2> QED BY <1>7, <2>5, <2>7, <2>8
<1>11. CASE ReadNext
  <2>1. walk.pc = "next" /\ result' = result
    BY <1>11 DEF ReadNext
  <2>2. /\ i < n /\ n <= Len(content) /\ Prefix(result, content, i + 1)
        /\ initial = {content[j] : j \in 1..n} /\ (changes = {} => n = Len(content))
        /\ walk.node = content[i + 1]
    BY <1>4, <1>6, <2>1 DEF Counted, Reach
  <2>3. PICK l : /\ l = GoOn(next[content[i + 1]] # Null /\ i + 1 < n, "item")
                 /\ walk' = [walk EXCEPT !.node = next[content[i + 1]], !.index = i + 1, !.pc = l]
    BY <1>4, <1>11, <2>2 DEF ReadNext
  <2>4. walk'.pc = l /\ walk'.node = next[content[i + 1]] /\ walk'.index = i + 1 /\ walk'.n = n
    BY <1>2, <1>4, <2>3 DEF WalkRecord
  <2>5. PICK w : w = walk' /\ w.pc = l /\ w.node = next[content[i + 1]] /\ w.index = i + 1 /\ w.n = n
    BY <2>4
  <2>6. CASE i + 1 < n
    <3>1. i + 1 \in 1..(Len(content) - 1) /\ i + 2 \in DOMAIN content /\ content[i + 2] \in Element
      BY <1>2, <2>2, <2>6
    <3>2. next[content[i + 1]] = content[(i + 1) + 1]
      BY <1>6, <3>1 DEF Joined
    <3>3. next[content[i + 1]] = content[i + 2] /\ content[i + 2] # Null
      BY <3>1, <3>2, ElementFacts
    <3>4. l = "item"
      BY <2>3, <2>6, <3>3 DEF GoOn
    <3>5. Reach(w) = i + 1 /\ w.index < w.n
      BY <2>5, <2>6, <3>4 DEF Reach
    <3>6. Counted(w, result, content, initial, changes)
      BY <2>2, <2>5, <3>4, <3>5 DEF Counted
    <3>7. w.node = content[w.index + 1]
      BY <2>5, <3>3
    <3> QED BY <1>7, <2>1, <2>5, <3>6, <3>7
  <2>7. CASE ~(i + 1 < n)
    <3>1. l = "done" /\ n = i + 1
      BY <2>2, <2>3, <2>7 DEF GoOn
    <3>2. Reach(w) = i + 1
      BY <2>5, <3>1 DEF Reach
    <3>3. Counted(w, result, content, initial, changes)
      BY <2>2, <2>5, <3>1, <3>2 DEF Counted
    <3> QED BY <1>7, <2>1, <2>5, <3>1, <3>3
  <2> QED BY <2>6, <2>7
<1> QED
  BY <1>3, <1>8, <1>9, <1>10, <1>11 DEF Walk, ReadElement, ReadBucket, ReadNode, Spine, Visit

-----------------------------------------------------------------------------
(* Tables of chains: while elements are only added, every one of a bucket  *)
(* is reached from its head.                                               *)

\* The links of f lead from an element of s to all younger ones of its bucket; the heads
\* in a lead to all.
Chained(s, f) ==
    \A x, y \in Members(s) : BucketOf(x, 1) = BucketOf(y, 1) /\ Older(s, x, y) =>
        f[x] # Null /\ (y = f[x] \/ Older(s, f[x], y))
Headed(s, a) ==
    \A y \in Members(s) : a[BucketOf(y, 1)] # Null /\ (y = a[BucketOf(y, 1)] \/ Older(s, a[BucketOf(y, 1)], y))

\* What the walk w has delivered in r of the elements I, and what its node leads to.
Visited(w, r, I, s) ==
    \A y \in I :
        /\ BucketOf(y, 1) < w.index => y \in Members(r)
        /\ BucketOf(y, 1) = w.index /\ w.pc # "node" => y \in Members(r)
        /\ BucketOf(y, 1) = w.index /\ w.pc = "node" =>
              y \in Members(r) \/ (w.node # Null /\ (y = w.node \/ Older(s, w.node, y)))

\* More than c elements are as old as x.
Placed(s, x, c) == \E i \in DOMAIN s : s[i] = x /\ c < i

HashGains ==
    Gentle => /\ content = ever /\ table = 1 /\ Chained(ever, next) /\ Headed(ever, arrays[1])
              /\ Null \notin Members(result)
              /\ walk.pc = "begin" => walk.index = 0
              /\ walk.pc # "begin" => walk.n = Buckets /\ walk.index <= Buckets
              /\ walk.pc = "done" => walk.index = Buckets
              /\ walk.pc = "node" /\ walk.node # Null => Placed(ever, walk.node, walk.count)
              /\ Len(ever) <= MaxGuard => Visited(walk, result, initial, ever)

LEMMA FirstCovers ==
    ASSUME NEW s \in Seq(Element), NEW S, NEW i \in Nat, NEW j \in DOMAIN s, j > i, s[j] \in S
    PROVE  FirstIn(s, S, i) # Null /\ (s[j] = FirstIn(s, S, i) \/ Older(s, FirstIn(s, S, i), s[j]))
<1>1. PICK k \in DOMAIN s : /\ k > i /\ s[k] \in S /\ FirstIn(s, S, i) = s[k]
                            /\ \A l \in DOMAIN s : i < l /\ l < k => s[l] \notin S
  BY FirstInFacts
<1>2. i < j /\ ~(j < k) /\ DOMAIN s \subseteq Nat /\ s[k] \in Element
  BY <1>1
<1>3. k = j \/ k < j
  BY <1>2
<1>4. k < j => Older(s, s[k], s[j])
  BY <1>1 DEF Older
<1> QED BY <1>1, <1>2, <1>3, <1>4, ElementFacts

LEMMA HashGainsInit ==
    ASSUME NEW k \in Kind, NEW s \in Seq(Element), Distinct(s), Filled(k, s), k = "hash"
    PROVE  HashGains
<1>1. /\ next = HashLinks(s, 1) /\ ever = s /\ content = s /\ walk = NoWalk /\ result = <<>> /\ table = 1
      /\ arrays[1] = Heads(s, 1)
  BY DEF Filled, ArrayOf
<1>2. walk.pc = "begin" /\ walk.index = 0
  BY <1>1 DEF NoWalk
<1>3. Members(s) \subseteq Element
  BY MembersIn
<1>4. ASSUME NEW x \in Members(s), NEW y \in Members(s), BucketOf(x, 1) = BucketOf(y, 1), Older(s, x, y)
      PROVE  next[x] # Null /\ (y = next[x] \/ Older(s, next[x], y))
  <2>1. PICK S : S = InBucket(BucketOf(x, 1), 1)
    OBVIOUS
  <2>2. PICK i \in DOMAIN s, j \in DOMAIN s : i < j /\ s[i] = x /\ s[j] = y
    BY <1>4 DEF Older
  <2>3. y \in S /\ i \in Nat /\ j > i
    BY <1>3, <1>4, <2>1, <2>2 DEF InBucket
  <2>4. next[x] = FirstIn(s, S, i)
    <3>1. Position(s, x) = i
      BY <2>2, PositionOf
    <3> QED BY <1>1, <1>3, <2>1, <3>1 DEF HashLinks
  <2> QED BY <2>2, <2>3, <2>4, FirstCovers
<1>5. ASSUME NEW y \in Members(s) PROVE arrays[1][BucketOf(y, 1)] # Null
               /\ (y = arrays[1][BucketOf(y, 1)] \/ Older(s, arrays[1][BucketOf(y, 1)], y))
  <2>1. PICK b \in 1..(1 * Buckets) : b = BucketOf(y, 1)
    BY <1>3, BucketRange
  <2>2. PICK S : S = InBucket(b, 1)
    OBVIOUS
  <2>3. PICK j \in DOMAIN s : s[j] = y /\ j > 0
    BY DEF Members
  <2>4. y \in S /\ arrays[1][b] = FirstIn(s, S, 0)
    BY <1>1, <1>3, <2>1, <2>2 DEF InBucket, Heads
  <2>5. FirstIn(s, S, 0) # Null /\ (y = FirstIn(s, S, 0) \/ Older(s, FirstIn(s, S, 0), y))
    BY <2>3, <2>4, FirstCovers
  <2> QED BY <2>1, <2>4, <2>5
<1>6. Chained(ever, next) /\ Headed(ever, arrays[1])
  BY <1>1, <1>4, <1>5 DEF Chained, Headed
<1>7. Visited(walk, result, initial, ever)
  <2>1. initial = Members(s)
    BY DEF Filled
  <2>2. ASSUME NEW y \in initial PROVE ~(BucketOf(y, 1) < 0) /\ BucketOf(y, 1) # 0
    BY <1>3, <2>1, BucketRange
  <2> QED BY <1>2, <2>2 DEF Visited
<1> QED BY <1>1, <1>2, <1>6, <1>7, NoMembers DEF HashGains

\* An element that is new is older than none.
LEMMA OlderBack ==
    ASSUME NEW s \in Seq(Element), NEW e \in Element \ Members(s), NEW t, t = Append(s, e), NEW x, NEW y, Older(t, x, y)
    PROVE  x \in Members(s) /\ (y = e \/ (y \in Members(s) /\ Older(s, x, y)))
<1>1. /\ DOMAIN t = 1..(Len(s) + 1) /\ DOMAIN s = 1..Len(s) /\ Len(s) \in Nat
      /\ \A i \in 1..Len(s) : t[i] = s[i]
      /\ t[Len(s) + 1] = e
  BY AppendFacts
<1>2. PICK i \in DOMAIN t, j \in DOMAIN t : i < j /\ t[i] = x /\ t[j] = y
  BY DEF Older
<1>3. i \in DOMAIN s /\ s[i] = x
  BY <1>1, <1>2
<1>4. CASE j = Len(s) + 1
  BY <1>1, <1>2, <1>3, <1>4 DEF Members
<1>5. CASE j # Len(s) + 1
  <2>1. j \in DOMAIN s /\ s[j] = y
    BY <1>1, <1>2, <1>5
  <2> QED BY <1>2, <1>3, <2>1 DEF Members, Older
<1> QED BY <1>4, <1>5

\* A new element in a bucket that was empty, and one behind the last of its bucket.
LEMMA ChainedEmpty ==
    ASSUME NEW s \in Seq(Element), NEW e \in Element \ Members(s), NEW t, t = Append(s, e), NEW f, Chained(s, f),
           \A x \in Members(s) : BucketOf(x, 1) # BucketOf(e, 1)
    PROVE  Chained(t, f)
<1>1. SUFFICES ASSUME NEW x \in Members(t), NEW y \in Members(t), BucketOf(x, 1) = BucketOf(y, 1), Older(t, x, y)
               PROVE  f[x] # Null /\ (y = f[x] \/ Older(t, f[x], y))
  BY DEF Chained
<1>2. x \in Members(s) /\ (y = e \/ (y \in Members(s) /\ Older(s, x, y)))
  BY <1>1, OlderBack
<1>3. y \in Members(s) /\ Older(s, x, y)
  BY <1>1, <1>2
<1>4. f[x] # Null /\ (y = f[x] \/ Older(s, f[x], y))
  BY <1>1, <1>2, <1>3 DEF Chained
<1> QED BY <1>4, OlderAppend

LEMMA ChainedLast ==
    ASSUME NEW s \in Seq(Element), Distinct(s), NEW e \in Element \ Members(s), NEW t, t = Append(s, e),
           NEW T, NEW f \in [Element -> T], Chained(s, f), Forward(f, s),
           NEW z \in Members(s), BucketOf(z, 1) = BucketOf(e, 1),
           \A x \in Members(s) \ {z} : BucketOf(x, 1) = BucketOf(e, 1) => Older(s, x, z)
    PROVE  Chained(t, [f EXCEPT ![z] = e])
<1>1. PICK g : g = [f EXCEPT ![z] = e]
  OBVIOUS
<1>2. Members(s) \subseteq Element
  BY MembersIn
<1>3. g[z] = e /\ \A x \in Element \ {z} : g[x] = f[x]
  BY <1>1, <1>2
<1>4. ASSUME NEW x \in Members(t), NEW y \in Members(t), BucketOf(x, 1) = BucketOf(y, 1), Older(t, x, y)
      PROVE  g[x] # Null /\ (y = g[x] \/ Older(t, g[x], y))
  <2>1. x \in Members(s) /\ (y = e \/ (y \in Members(s) /\ Older(s, x, y)))
    BY <1>4, OlderBack
  <2>2. CASE y = e
    <3>1. CASE x = z
      BY <1>3, <2>2, <3>1, ElementFacts
    <3>2. CASE x # z
      <4>1. Older(s, x, z) /\ g[x] = f[x]
        BY <1>2, <1>3, <1>4, <2>1, <2>2, <3>2
      <4>2. f[x] # Null
        BY <1>4, <2>1, <2>2, <4>1 DEF Chained
      <4>3. f[x] \in Members(s)
        BY <1>2, <2>1, <4>2, OlderOrder DEF Forward
      <4> QED BY <2>2, <4>1, <4>2, <4>3, OlderAppend
    <3> QED BY <3>1, <3>2
  <2>3. CASE y # e
    <3>1. y \in Members(s) /\ Older(s, x, y)
      BY <2>1, <2>3
    <3>2. x # z
      <4>1. SUFFICES ASSUME x = z PROVE FALSE
        OBVIOUS
      <4>2. y # z /\ ~Older(s, y, z)
        BY <3>1, <4>1, OlderOrder
      <4> QED BY <1>4, <3>1, <4>1, <4>2
    <3>3. g[x] = f[x]
      BY <1>2, <1>3, <2>1, <3>2
    <3>4. f[x] # Null /\ (y = f[x] \/ Older(s, f[x], y))
      BY <1>4, <2>1, <3>1 DEF Chained
    <3> QED BY <3>3, <3>4, OlderAppend
  <2> QED BY <2>2, <2>3
<1>5. Chained(t, g)
  BY <1>4 DEF Chained
<1> QED BY <1>1, <1>5

LEMMA HeadedKept ==
    ASSUME NEW s \in Seq(Element), Distinct(s), NEW e \in Element \ Members(s), NEW t, t = Append(s, e), NEW a,
           Headed(s, a), NEW y \in Members(s), NEW h, h = a[BucketOf(y, 1)]
    PROVE  h # Null /\ (y = h \/ Older(t, h, y)) /\ Older(t, h, e)
<1>1. h # Null /\ (y = h \/ Older(s, h, y))
  BY DEF Headed
<1>2. h \in Members(s)
  BY <1>1, OlderOrder
<1> QED BY <1>1, <1>2, OlderAppend

LEMMA HeadedLast ==
    ASSUME NEW s \in Seq(Element), Distinct(s), NEW e \in Element \ Members(s), NEW t, t = Append(s, e), NEW a,
           Headed(s, a), NEW z \in Members(s), BucketOf(z, 1) = BucketOf(e, 1)
    PROVE  Headed(t, a)
<1>1. Members(t) = Members(s) \cup {e}
  BY AppendFacts
<1>2. ASSUME NEW y \in Members(s) PROVE a[BucketOf(y, 1)] # Null /\ (y = a[BucketOf(y, 1)] \/ Older(t, a[BucketOf(y, 1)], y))
  BY HeadedKept
<1>3. a[BucketOf(z, 1)] # Null /\ Older(t, a[BucketOf(z, 1)], e)
  BY HeadedKept
<1>4. a[BucketOf(e, 1)] # Null /\ Older(t, a[BucketOf(e, 1)], e)
  BY <1>3
<1> QED BY <1>1, <1>2, <1>4 DEF Headed

LEMMA PlacedFacts ==
    ASSUME NEW s \in Seq(Element), NEW c \in Nat, NEW x, Placed(s, x, c)
    PROVE  /\ c < Len(s)
           /\ \A e \in Element : Placed(Append(s, e), x, c)
           /\ Distinct(s) => \A y : Older(s, x, y) => Placed(s, y, c + 1)
<1>1. PICK i \in DOMAIN s : s[i] = x /\ c < i
  BY DEF Placed
<1>2. i \in 1..Len(s) /\ Len(s) \in Nat /\ DOMAIN s \subseteq Nat
  OBVIOUS
<1>3. ASSUME NEW e \in Element PROVE Placed(Append(s, e), x, c)
  <2>1. PICK t : t = Append(s, e)
    OBVIOUS
  <2>2. DOMAIN t = 1..(Len(s) + 1) /\ t[i] = x
    BY <1>1, <1>2, <2>1, AppendFacts
  <2>3. i \in DOMAIN t
    BY <1>2, <2>2
  <2>4. Placed(t, x, c)
    BY <1>1, <2>2, <2>3 DEF Placed
  <2> QED BY <2>1, <2>4
<1>4. ASSUME Distinct(s), NEW y, Older(s, x, y) PROVE Placed(s, y, c + 1)
  <2>1. PICK k \in DOMAIN s, l \in DOMAIN s : k < l /\ s[k] = x /\ s[l] = y
    BY <1>4 DEF Older
  <2>2. k = i
    BY <1>1, <1>4, <2>1 DEF Distinct
  <2>3. c + 1 < l
    BY <1>1, <1>2, <2>1, <2>2
  <2> QED BY <2>1, <2>3 DEF Placed
<1>5. c < Len(s)
  BY <1>1, <1>2
<1> QED BY <1>3, <1>4, <1>5

LEMMA HashGainsMutate ==
    ASSUME ContainerType, WalkType, HashClear, HashGains, kind = "hash", Plain
    PROVE  HashGains'
<1>1. SUFFICES ASSUME Gentle' PROVE HashGains'
  BY DEF HashGains
<1>2. /\ Gentle /\ walk' = walk /\ result' = result /\ initial' = initial
      /\ walk.pc \notin {"begin", "done"}
  BY <1>1, GentleBefore
<1>3. PICK e \in Element \ Members(ever) : HashPut(e) /\ ever' = Append(ever, e)
  <2>1. PICK e \in Element \ Members(ever) :
           (ArrayAdd(e) \/ LinkLast(e) \/ HashPut(e) \/ TreePut(e)) /\ ever' = Append(ever, e)
    BY <1>1, GentleBefore
  <2> QED BY <2>1 DEF ArrayAdd, LinkLast, TreePut
<1>4. /\ arrays \in [1..2 -> Seq(Known)] /\ arrays[1] \in Seq(Known) /\ ever \in Seq(Element) /\ Distinct(ever)
      /\ next \in [Element -> Known] /\ Len(ever) \in Nat /\ Len(arrays[1]) = Buckets /\ walk.count \in Nat
      /\ Members(ever) \subseteq Element
  BY MembersIn DEF ContainerType, WalkType
<1>5. /\ content = ever /\ table = 1 /\ Chained(ever, next) /\ Headed(ever, arrays[1])
      /\ Null \notin Members(result)
      /\ walk.n = Buckets /\ walk.index <= Buckets
      /\ walk.pc = "node" /\ walk.node # Null => Placed(ever, walk.node, walk.count)
      /\ Len(ever) <= MaxGuard => Visited(walk, result, initial, ever)
  BY <1>2 DEF HashGains
<1>6. Forward(next, ever)
  BY DEF HashClear
<1>7. PICK E \in Seq(Element) : E = Append(ever, e) /\ E = ever' /\ Len(E) = Len(ever) + 1
  BY <1>3, <1>4, AppendFacts
<1>8. /\ content' = E /\ table' = 1
  BY <1>3, <1>5, <1>7 DEF HashPut
<1>9. ASSUME walk.pc = "node", walk.node # Null PROVE Placed(E, walk.node, walk.count)
  <2>1. Placed(ever, walk.node, walk.count)
    BY <1>5, <1>9
  <2>2. Placed(Append(ever, e), walk.node, walk.count)
    BY <1>4, <2>1, PlacedFacts
  <2> QED BY <1>7, <2>2
<1>10. ASSUME Len(E) <= MaxGuard PROVE Visited(walk, result, initial, E)
  <2>1. Visited(walk, result, initial, ever)
    BY <1>4, <1>5, <1>7, <1>10, CollectionWalkAssumption
  <2>2. \A x, y : Older(ever, x, y) => Older(E, x, y)
    BY <1>4, <1>7, OlderAppend
  <2> QED BY <2>1, <2>2 DEF Visited
<1>11. ASSUME NEW N, N = next', NEW a, a = arrays'[1], Chained(E, N), Headed(E, a)
       PROVE  HashGains'
  <2>1. Chained(ever, next)' /\ Headed(ever, arrays[1])'
    BY <1>7, <1>11, Zenon
  <2>2. (Null \notin Members(result))'
    BY <1>2, <1>5 DEF Members
  <2>3. (walk.pc = "node" /\ walk.node # Null => Placed(ever, walk.node, walk.count))'
    BY <1>2, <1>7, <1>9, Zenon
  <2>4. (Len(ever) <= MaxGuard => Visited(walk, result, initial, ever))'
    BY <1>2, <1>7, <1>10, Zenon
  <2> QED BY <1>2, <1>5, <1>7, <1>8, <2>1, <2>2, <2>3, <2>4 DEF HashGains
<1>12. PICK b \in 1..Len(arrays[1]) : b = BucketOf(e, 1)
  BY <1>4, BucketFacts
<1>13. PICK bucket : bucket = InBucket(b, 1)
  OBVIOUS
<1>14. \A x \in Members(ever) : x \in bucket <=> BucketOf(x, 1) = b
  BY <1>4, <1>13 DEF InBucket
<1>15. CASE bucket \cap Members(ever) = {}
  <2>1. arrays' = [arrays EXCEPT ![1][b] = e] /\ next' = next
    BY <1>3, <1>5, <1>12, <1>13, <1>15 DEF HashPut
  <2>2. \A x \in Members(ever) : BucketOf(x, 1) # BucketOf(e, 1)
    BY <1>12, <1>14, <1>15
  <2>3. Chained(E, next)
    BY <1>4, <1>5, <1>7, <2>2, ChainedEmpty
  <2>4. PICK a : a = arrays'[1]
    OBVIOUS
  <2>5. a[b] = e /\ \A i \in 1..Len(arrays[1]) \ {b} : a[i] = arrays[1][i]
    <3>1. PICK T : T = Known \cup {e}
      OBVIOUS
    <3>2. arrays \in [1..2 -> Seq(T)] /\ e \in T /\ 1 \in 1..2
      BY <1>4, <3>1, SeqMono
    <3>3. /\ [arrays EXCEPT ![1][b] = e][1][b] = e
          /\ \A i \in 1..Len(arrays[1]) \ {b} : [arrays EXCEPT ![1][b] = e][1][i] = arrays[1][i]
      BY <3>2, SetPlace
    <3> QED BY <2>1, <2>4, <3>3
  <2>6. \A y \in Members(ever) : a[BucketOf(y, 1)] = arrays[1][BucketOf(y, 1)]
    BY <1>4, <1>12, <2>2, <2>5, BucketFacts
  <2>7. Headed(E, a)
    <3>1. Members(E) = Members(ever) \cup {e}
      <4>1. ever \in Seq(Element) /\ e \in Element
        BY <1>4
      <4>2. Members(Append(ever, e)) = Members(ever) \cup {e}
        BY <4>1, AppendFacts
      <4> QED BY <1>7, <4>2
    <3>2. ASSUME NEW y \in Members(ever) PROVE a[BucketOf(y, 1)] # Null /\ (y = a[BucketOf(y, 1)] \/ Older(E, a[BucketOf(y, 1)], y))
      <4>1. PICK h : h = arrays[1][BucketOf(y, 1)] /\ h = a[BucketOf(y, 1)]
        BY <2>6
      <4>2. h # Null /\ (y = h \/ Older(E, h, y))
        BY <1>4, <1>5, <1>7, <4>1, HeadedKept
      <4> QED BY <4>1, <4>2
    <3>3. a[BucketOf(e, 1)] # Null /\ e = a[BucketOf(e, 1)]
      BY <1>12, <2>5, ElementFacts
    <3> QED BY <3>1, <3>2, <3>3 DEF Headed
  <2> QED BY <1>11, <2>1, <2>3, <2>4, <2>7
<1>16. CASE bucket \cap Members(ever) # {}
  <2>1. PICK z \in Members(ever) : /\ z = LastIn(ever, bucket) /\ z \in bucket
                                   /\ \A x \in Members(ever) \ {z} : x \in bucket => Older(ever, x, z)
    <3>1. PICK s \in Seq(Element) : s = ever /\ bucket \cap Members(s) # {}
      BY <1>4, <1>16, Zenon
    <3>2. PICK k \in DOMAIN s : s[k] \in bucket /\ LastIn(s, bucket) = s[k] /\ \A j \in DOMAIN s : k < j => s[j] \notin bucket
      BY <3>1, LastInFacts
    <3>3. ASSUME NEW x \in Members(s), x # s[k], x \in bucket PROVE Older(s, x, s[k])
      <4>1. PICK j \in DOMAIN s : s[j] = x
        BY DEF Members
      <4>2. j < k
        BY <3>2, <3>3, <4>1
      <4> QED BY <4>1, <4>2 DEF Older
    <3> QED BY <3>1, <3>2, <3>3 DEF Members
  <2>2. arrays' = arrays /\ next' = [next EXCEPT ![z] = e]
    BY <1>3, <1>5, <1>12, <1>13, <1>16, <2>1 DEF HashPut
  <2>3. BucketOf(z, 1) = BucketOf(e, 1) /\ \A x \in Members(ever) \ {z} : BucketOf(x, 1) = BucketOf(e, 1) => Older(ever, x, z)
    BY <1>12, <1>14, <2>1
  <2>4. Chained(E, [next EXCEPT ![z] = e])
    BY <1>4, <1>5, <1>6, <1>7, <2>3, ChainedLast
  <2>5. Headed(E, arrays[1])
    BY <1>4, <1>5, <1>7, <2>3, HeadedLast
  <2> QED BY <1>11, <2>2, <2>4, <2>5
<1> QED BY <1>15, <1>16

LEMMA HashGainsWalk ==
    ASSUME ContainerType, WalkType, HashClear, HashGains, kind = "hash", Walk
    PROVE  HashGains'
<1>1. /\ next' = next /\ ever' = ever /\ content' = content /\ arrays' = arrays /\ table' = table
      /\ initial' = initial /\ changes' = changes
  BY WalkIsStep, StepSame
<1>2. /\ walk \in WalkRecord /\ result \in Seq(Known) /\ ever \in Seq(Element) /\ Distinct(ever)
      /\ arrays[1] \in Seq(Known) /\ next \in [Element -> Known] /\ Len(arrays[1]) = Buckets
      /\ initial \subseteq Members(ever)
  BY DEF WalkType, WalkRecord, ContainerType
<1>3. walk.pc \in {"begin", "done", "bucket", "node"} /\ walk.index \in Nat /\ walk.count \in Nat
  BY <1>2 DEF WalkRecord, Stages
<1>4. /\ Members(ever) \subseteq Element /\ Buckets \in Nat \ {0} /\ Len(ever) \in Nat /\ MaxGuard \in Nat
      /\ \A y \in initial : BucketOf(y, 1) \in 1..Buckets
  BY <1>2, MembersIn, BucketFacts, CollectionWalkAssumption
<1>5. SUFFICES ASSUME Gentle PROVE HashGains'
  BY <1>1 DEF HashGains, Gentle
<1>6. /\ content = ever /\ table = 1 /\ Chained(ever, next) /\ Headed(ever, arrays[1])
      /\ Null \notin Members(result)
      /\ walk.pc = "begin" => walk.index = 0
      /\ walk.pc # "begin" => walk.n = Buckets /\ walk.index <= Buckets
      /\ walk.pc = "done" => walk.index = Buckets
      /\ walk.pc = "node" /\ walk.node # Null => Placed(ever, walk.node, walk.count)
      /\ Len(ever) <= MaxGuard => Visited(walk, result, initial, ever)
  BY <1>5 DEF HashGains
<1>7. ASSUME NEW r, r = result', NEW w, w = walk', Null \notin Members(r), w.pc # "begin",
             w.n = Buckets, w.index <= Buckets, w.pc = "done" => w.index = Buckets,
             w.pc = "node" /\ w.node # Null => Placed(ever, w.node, w.count),
             Len(ever) <= MaxGuard => Visited(w, r, initial, ever)
      PROVE  HashGains'
  <2>1. (Chained(ever, next) /\ Headed(ever, arrays[1]))'
    BY <1>1, <1>6, Zenon
  <2>2. (Null \notin Members(result))'
    BY <1>7 DEF Members
  <2>3. (walk.pc = "node" /\ walk.node # Null => Placed(ever, walk.node, walk.count))'
    BY <1>1, <1>7, Zenon
  <2>4. (Len(ever) <= MaxGuard => Visited(walk, result, initial, ever))'
    BY <1>1, <1>7, Zenon
  <2> QED BY <1>1, <1>6, <1>7, <2>1, <2>2, <2>3, <2>4 DEF HashGains
<1>8. CASE BeginWalk
  <2>1. result' = result /\ walk.pc = "begin" /\ walk.index = 0
    BY <1>6, <1>8 DEF BeginWalk
  <2>2. walk' = [walk EXCEPT !.arr = 1, !.n = Buckets, !.pc = "bucket"]
    BY <1>2, <1>6, <1>8 DEF BeginWalk
  <2>3. walk'.pc = "bucket" /\ walk'.n = Buckets /\ walk'.index = 0
    BY <1>2, <2>1, <2>2 DEF WalkRecord
  <2>4. PICK w : w = walk' /\ w.pc = "bucket" /\ w.n = Buckets /\ w.index = 0
    BY <2>3
  <2>5. Visited(w, result, initial, ever)
    <3>1. \A y \in initial : ~(BucketOf(y, 1) < 0) /\ BucketOf(y, 1) # 0
      BY <1>4
    <3> QED BY <2>4, <3>1 DEF Visited
  <2>6. 0 <= Buckets
    BY <1>4
  <2> QED BY <1>6, <1>7, <2>1, <2>4, <2>5, <2>6
<1>9. CASE ReadBucket
  <2>1. walk.pc = "bucket" /\ result' = result /\ walk.arr = 1 /\ walk.n = Buckets /\ walk.index <= Buckets
    BY <1>6, <1>9 DEF ReadBucket, HashClear
  <2>2. CASE walk.index < Buckets
    <3>1. PICK i \in 1..Buckets : i = walk.index + 1
      BY <1>3, <1>4, <2>2
    <3>2. PICK x : x = arrays[1][i]
      OBVIOUS
    <3>3. walk' = [walk EXCEPT !.node = x, !.index = i, !.count = 0, !.pc = "node"]
      BY <1>2, <1>9, <2>1, <2>2, <3>1, <3>2 DEF ReadBucket, GetArrayElement
    <3>4. walk'.pc = "node" /\ walk'.node = x /\ walk'.index = i /\ walk'.n = Buckets /\ walk'.count = 0
      BY <1>2, <2>1, <3>3 DEF WalkRecord
    <3>5. PICK w : w = walk' /\ w.pc = "node" /\ w.node = x /\ w.index = i /\ w.n = Buckets /\ w.count = 0
      BY <3>4
    <3>6. x # Null => Placed(ever, x, 0)
      <4>1. x \in Members(ever) \cup {Null}
        BY <1>2, <3>1, <3>2 DEF Known
      <4>2. x # Null => \E j \in DOMAIN ever : ever[j] = x /\ 0 < j
        BY <1>2, <4>1 DEF Members
      <4> QED BY <4>2 DEF Placed
    <3>7. ASSUME Len(ever) <= MaxGuard PROVE Visited(w, result, initial, ever)
      <4>1. Visited(walk, result, initial, ever)
        BY <1>6, <3>7
      <4>2. ASSUME NEW y \in initial, BucketOf(y, 1) < i PROVE y \in Members(result)
        <5>1. BucketOf(y, 1) < walk.index \/ BucketOf(y, 1) = walk.index
          BY <1>3, <1>4, <3>1, <4>2
        <5> QED BY <2>1, <4>1, <5>1 DEF Visited
      <4>3. ASSUME NEW y \in initial, BucketOf(y, 1) = i PROVE x # Null /\ (y = x \/ Older(ever, x, y))
        BY <1>2, <1>6, <3>2, <4>3 DEF Headed
      <4> QED BY <3>5, <4>2, <4>3 DEF Visited
    <3>8. i <= Buckets
      BY <3>1
    <3> QED BY <1>6, <1>7, <2>1, <3>5, <3>6, <3>7, <3>8
  <2>3. CASE ~(walk.index < Buckets)
    <3>1. walk' = [walk EXCEPT !.pc = "done"] /\ walk.index = Buckets
      BY <1>3, <1>4, <1>9, <2>1, <2>3 DEF ReadBucket
    <3>2. walk'.pc = "done" /\ walk'.index = walk.index /\ walk'.n = Buckets
      BY <1>2, <2>1, <3>1 DEF WalkRecord
    <3>3. PICK w : w = walk' /\ w.pc = "done" /\ w.index = walk.index /\ w.n = Buckets
      BY <3>2
    <3>4. Len(ever) <= MaxGuard => Visited(w, result, initial, ever)
      BY <1>6, <2>1, <3>3 DEF Visited
    <3> QED BY <1>6, <1>7, <2>1, <3>1, <3>3, <3>4
  <2> QED BY <2>2, <2>3
<1>10. CASE ReadNode
  <2>1. walk.pc = "node" /\ walk.n = Buckets /\ walk.index <= Buckets
    BY <1>6, <1>10 DEF ReadNode
  <2>2. CASE walk.node # Null /\ walk.count < MaxGuard
    <3>1. PICK x \in Known : x = walk.node /\ x # Null
      BY <1>2, <2>2 DEF WalkRecord
    <3>2. x \in Members(ever) /\ x \in Element /\ BucketOf(x, 1) = walk.index
      BY <1>4, <2>1, <3>1 DEF Known, HashClear
    <3>3. PICK r : r = result' /\ r = Append(result, x)
      BY <1>10, <2>2, <3>1 DEF ReadNode, Push
    <3>4. Members(r) = Members(result) \cup {x} /\ Null \notin Members(r)
      <4>1. Members(Append(result, x)) = Members(result) \cup {x}
        BY <1>2, AppendFacts
      <4> QED BY <1>6, <3>1, <3>3, <4>1
    <3>5. walk' = [walk EXCEPT !.node = next[x], !.count = walk.count + 1]
      BY <1>10, <2>2, <3>1 DEF ReadNode
    <3>6. walk'.pc = "node" /\ walk'.node = next[x] /\ walk'.index = walk.index /\ walk'.n = Buckets
          /\ walk'.count = walk.count + 1
      BY <1>2, <2>1, <3>5 DEF WalkRecord
    <3>7. PICK w : /\ w = walk' /\ w.pc = "node" /\ w.node = next[x] /\ w.index = walk.index /\ w.n = Buckets
                   /\ w.count = walk.count + 1
      BY <3>6
    <3>8. next[x] # Null => Placed(ever, next[x], walk.count + 1)
      <4>1. next[x] # Null => Older(ever, x, next[x])
        BY <3>2 DEF HashClear, Forward
      <4>2. Placed(ever, x, walk.count)
        BY <1>6, <2>1, <3>1
      <4> QED BY <1>2, <1>3, <4>1, <4>2, PlacedFacts
    <3>9. ASSUME Len(ever) <= MaxGuard PROVE Visited(w, r, initial, ever)
      <4>1. Visited(walk, result, initial, ever)
        BY <1>6, <3>9
      <4>2. ASSUME NEW y \in initial, BucketOf(y, 1) = walk.index
            PROVE  y \in Members(r) \/ (next[x] # Null /\ (y = next[x] \/ Older(ever, next[x], y)))
        <5>1. y \in Members(result) \/ y = x \/ Older(ever, x, y)
          BY <2>1, <3>1, <4>1, <4>2 DEF Visited
        <5>2. CASE Older(ever, x, y)
          BY <1>2, <1>6, <3>2, <4>2, <5>2 DEF Chained
        <5> QED BY <3>4, <5>1, <5>2
      <4>3. ASSUME NEW y \in initial, BucketOf(y, 1) < walk.index PROVE y \in Members(r)
        BY <3>4, <4>1, <4>3 DEF Visited
      <4> QED BY <3>7, <4>2, <4>3 DEF Visited
    <3> QED BY <1>7, <2>1, <3>3, <3>4, <3>7, <3>8, <3>9
  <2>3. CASE ~(walk.node # Null /\ walk.count < MaxGuard)
    <3>1. walk' = [walk EXCEPT !.pc = "bucket"] /\ result' = result
      BY <1>10, <2>3 DEF ReadNode
    <3>2. walk'.pc = "bucket" /\ walk'.index = walk.index /\ walk'.n = Buckets
      BY <1>2, <2>1, <3>1 DEF WalkRecord
    <3>3. PICK w : w = walk' /\ w.pc = "bucket" /\ w.index = walk.index /\ w.n = Buckets
      BY <3>2
    <3>4. ASSUME Len(ever) <= MaxGuard PROVE Visited(w, result, initial, ever)
      <4>1. walk.node = Null
        <5>1. SUFFICES ASSUME walk.node # Null PROVE FALSE
          OBVIOUS
        <5>2. walk.count < Len(ever)
          BY <1>2, <1>3, <1>6, <2>1, <5>1, PlacedFacts
        <5> QED BY <1>3, <1>4, <2>3, <3>4, <5>1, <5>2
      <4>2. Visited(walk, result, initial, ever)
        BY <1>6, <3>4
      <4> QED BY <2>1, <3>3, <4>1, <4>2 DEF Visited
    <3> QED BY <1>6, <1>7, <2>1, <3>1, <3>3, <3>4
  <2> QED BY <2>2, <2>3
<1> QED
  BY <1>3, <1>8, <1>9, <1>10 DEF Walk, ReadFields, ReadElement, ReadItem, ReadNext, Spine, Visit

-----------------------------------------------------------------------------
(* Every walk: while elements are only added, nothing is lost.             *)

LossInv ==
    /\ WalkInv /\ Still
    /\ kind \in {"array", "generic", "raw"} => ArrayGains
    /\ kind = "linked" => LinkGains
    /\ kind = "hash" => HashGains

LEMMA LossInvInit ==
    ASSUME InitWalk
    PROVE  LossInv
<1>1. PICK k \in Kind, s \in Seq(Element) :
         Distinct(s) /\ (k \in {"array", "generic"} => Len(s) <= Buckets) /\ Filled(k, s)
  BY InitFilled
<1>2. WalkInv /\ Still /\ kind = k
  BY <1>1, WalkInvInit, StillInit DEF Filled
<1>3. k \in {"array", "generic", "raw"} => ArrayGains
  BY <1>1, ArrayGainsInit
<1>4. k = "linked" => LinkGains
  BY <1>1, LinkGainsInit
<1>5. k = "hash" => HashGains
  BY <1>1, HashGainsInit
<1> QED BY <1>2, <1>3, <1>4, <1>5 DEF LossInv

LEMMA LossInvStep ==
    ASSUME LossInv, [NextWalk]_walkVars
    PROVE  LossInv'
<1>1. WalkInv' /\ ContainerType /\ ShiftType /\ WalkType /\ Loose
  BY WalkInvStep DEF LossInv, WalkInv
<1>2. Still'
  BY <1>1, StillStep DEF LossInv
<1>6. ASSUME Gentle' PROVE Gentle' /\ "shifted" \notin changes'
  BY <1>6 DEF Gentle
<1>7. ASSUME ~Gentle' PROVE ArrayGains' /\ LinkGains' /\ HashGains'
  BY <1>7 DEF ArrayGains, LinkGains, HashGains
<1>3. CASE Plain
  <2>1. kind' = kind /\ ("shifted" \notin changes' => "shifted" \notin changes)
    BY <1>3, PlainKeeps
  <2>2. CASE Gentle'
    <3>1. kind \in {"array", "generic", "raw"} => ArraysClear
      BY <1>6, <2>1, <2>2 DEF LossInv, WalkInv
    <3> QED BY <1>1, <1>2, <1>3, <2>1, <3>1, ArrayGainsMutate, LinkGainsMutate, HashGainsMutate DEF LossInv, WalkInv
  <2> QED BY <1>1, <1>2, <1>7, <2>2 DEF LossInv
<1>8. CASE Shifts \/ Links
  <2>1. "shifted" \in changes' \/ "inserted" \in changes'
    BY <1>1, <1>8, ShiftsType, LinksType
  <2>2. ~Gentle'
    BY <2>1 DEF Gentle
  <2> QED BY <1>1, <1>2, <1>7, <2>2 DEF LossInv
<1>4. CASE Walk
  <2>1. kind' = kind /\ changes' = changes
    BY <1>4, WalkIsStep, StepSame
  <2>2. CASE Gentle'
    <3>1. kind \in {"array", "generic", "raw"} => ArraysClear
      BY <1>6, <2>1, <2>2 DEF LossInv, WalkInv
    <3> QED BY <1>1, <1>2, <1>4, <2>1, <3>1, ArrayGainsWalk, LinkGainsWalk, HashGainsWalk DEF LossInv, WalkInv
  <2> QED BY <1>1, <1>2, <1>7, <2>2 DEF LossInv
<1>5. CASE UNCHANGED walkVars
  <2>1. Step /\ walk' = walk /\ result' = result
    BY <1>5 DEF walkVars, Step
  <2>2. /\ kind' = kind /\ arrays' = arrays /\ table' = table /\ size' = size /\ next' = next /\ left' = left
        /\ item' = item /\ content' = content /\ initial' = initial /\ ever' = ever /\ changes' = changes
    BY <2>1, StepSame
  <2>3. ArrayGains => ArrayGains'
    BY <2>1, <2>2, Zenon DEF ArrayGains, Gentle, Source
  <2>4. LinkGains => LinkGains'
    BY <2>1, <2>2, Zenon DEF LinkGains, Gentle
  <2>5. HashGains => HashGains'
    BY <2>1, <2>2, Zenon DEF HashGains, Gentle
  <2> QED BY <1>1, <1>2, <2>2, <2>3, <2>4, <2>5 DEF LossInv
<1> QED BY <1>3, <1>4, <1>5, <1>8, MutateCases DEF NextWalk

\* At the end of a walk over chains or over a tree.
LEMMA AllOnce ==
    ASSUME ContainerType, WalkType, Still, Clear(result), Null \notin Members(result), initial \subseteq Members(result)
    PROVE  Once(initial) /\ (changes = {} => Members(result) = Members(content))
<1>1. result \in Seq(Known) /\ initial \subseteq Members(ever)
  BY DEF WalkType
<1>2. Once(Members(result) \ {Null})
  BY <1>1, ClearOnce
<1>3. Once(initial)
  BY <1>2 DEF Once
<1>4. Members(result) \subseteq Members(ever)
  BY <1>1, MembersIn DEF Known
<1> QED BY <1>3, <1>4 DEF Still

\* While Java code only appends to a list, or puts keys into a map that neither grows its
\* table nor rotates its tree, a walk delivers each element that was there when it began, once,
\* and no null; one that Java code leaves alone copies the container, a list in its order and
\* a tree ascending.
THEOREM WalkLosesNothing == WalkSpec => []NothingLost
<1>1. InitWalk => LossInv
  BY LossInvInit
<1>2. LossInv /\ [NextWalk]_walkVars => LossInv'
  BY LossInvStep
<1>3. LossInv => NothingLost
  <2>1. SUFFICES ASSUME LossInv, Done, Gentle, Uncut
                 PROVE  /\ Once(initial) /\ Null \notin Members(result)
                        /\ changes = {} =>
                              /\ Members(result) = Members(content)
                              /\ kind = "tree" => \A i, j \in DOMAIN result : i < j => result[i] < result[j]
                              /\ kind \notin {"hash", "tree"} => result = content
    BY DEF NothingLost, Gentle
  <2>2. /\ ContainerType /\ WalkType /\ Still /\ walk.pc = "done"
        /\ kind \in {"array", "linked", "hash", "tree", "generic", "raw"}
    BY <2>1 DEF LossInv, WalkInv, Done, ContainerType
  <2>3. CASE kind \in {"array", "linked", "generic", "raw"}
    <3>1. Counted(walk, result, content, initial, changes)
      BY <2>1, <2>3 DEF LossInv, ArrayGains, LinkGains
    <3>2. Once(initial) /\ Null \notin Members(result) /\ (changes = {} => result = content)
      BY <2>2, <3>1, CountedAll
    <3> QED BY <2>3, <3>2
  <2>4. CASE kind = "hash"
    <3>1. /\ Null \notin Members(result) /\ walk.index = Buckets /\ Visited(walk, result, initial, ever)
          /\ Clear(result)
      BY <2>1, <2>2, <2>4 DEF LossInv, WalkInv, HashClear, HashGains, Uncut
    <3>2. ASSUME NEW y \in initial PROVE y \in Members(result)
      <4>1. y \in Element
        BY <2>2, MembersIn DEF WalkType, ContainerType
      <4>2. BucketOf(y, 1) \in 1..Buckets /\ Buckets \in Nat
        BY <4>1, BucketFacts, CollectionWalkAssumption
      <4>3. BucketOf(y, 1) < walk.index \/ BucketOf(y, 1) = walk.index
        BY <3>1, <4>2
      <4> QED BY <2>2, <3>1, <4>3 DEF Visited
    <3> QED BY <2>2, <2>4, <3>1, <3>2, AllOnce
  <2>5. CASE kind = "tree"
    <3>1. "rotated" \notin changes /\ TreeClear
      BY <2>1, <2>5 DEF Gentle, LossInv, WalkInv
    <3>2. /\ Null \notin Members(result) /\ initial \subseteq Members(result)
          /\ \A i, j \in DOMAIN result : i < j => result[i] < result[j]
      <4>1. PICK lo \in [Element -> Nat], hi \in [Element -> Nat] : TreeWalk(lo, hi)
        BY <3>1 DEF TreeClear
      <4>2. OnStack(hi, walk.stack, result) /\ initial \subseteq Members(result)
        BY <2>1, <2>2, <2>5, <4>1 DEF TreeWalk, Uncut
      <4> QED BY <3>1, <4>2 DEF TreeClear, OnStack
    <3>3. Clear(result)
      BY <2>2, <3>1, TreeOnce
    <3> QED BY <2>2, <2>5, <3>2, <3>3, AllOnce
  <2> QED BY <2>2, <2>3, <2>4, <2>5
<1> QED BY <1>1, <1>2, <1>3, PTL DEF WalkSpec
=============================================================================
