------------------------- MODULE ClassLookupProofs -------------------------
(***************************************************************************)
(* Proofs about ClassLookup, for all constants: the type invariant; that   *)
(* an override of the class cache sticks whatever lookups, overrides,      *)
(* loads and unloads happen around it; that an attached thread sees the    *)
(* host's classes; and that a reanchor which succeeds is complete.  The    *)
(* override of a reanchor is decided one step before it is written, so the *)
(* invariant also says that the klass a reanchor is about to write is      *)
(* loaded under its name.                                                  *)
(***************************************************************************)
EXTENDS ClassLookup, TLAPS

USE LookupAssumption

ThreadState == [java : BOOLEAN, env : BOOLEAN, known : BOOLEAN, context : Loader]
CallState == [pc : {"idle", "walk", "jni", "insert", "capture", "resolve", "override"},
              name : Name, klass : Klass \cup {NoKlass}, loader : Loader, ok : BOOLEAN]
KlassState == [name : Name \cup {0}, loader : Loader]

\* A thread state in which whatever is cached is known to the JVM.
SoundThread(th) == th \in ThreadState /\ (th.java \/ th.env => th.known)

\* A call state in which the klass is there when the place needs one.
SoundCall(cl) == cl \in CallState /\ (cl.pc \in {"insert", "capture", "override"} => cl.klass \in Klass)

LEMMA TypeParts ==
  TypeOK <=> /\ cache \in [Name -> Klass \cup {NoKlass, Absent}]
             /\ live \in SUBSET Klass
             /\ content \in [Klass -> KlassState]
             /\ host \in Klass \cup {NoKlass}
             /\ thread \in [Client -> ThreadState] /\ \A c \in Client : SoundThread(thread[c])
             /\ call \in [Client -> CallState] /\ \A c \in Client : SoundCall(call[c])
             /\ pinned \in [Name -> Klass \cup {NoKlass}]
             /\ unloads \in Nat
  BY DEF TypeOK, SoundThread, SoundCall, ThreadState, CallState, KlassState

LEMMA EnsuredType ==
  ASSUME TypeOK, NEW th, SoundThread(th)
  PROVE  SoundThread(Ensured(th))
  <1>1. Inherited(th.context) \in Loader
    BY TypeParts DEF Inherited, LoaderOfHost, SoundThread, ThreadState, KlassState
  <1>2. SoundThread(Attached(th)) /\ SoundThread([Attached(th) EXCEPT !.java = TRUE])
    BY <1>1 DEF Attached, SoundThread, ThreadState
  <1> QED
    BY <1>2 DEF Ensured, Listed, SoundThread, ThreadState

LEMMA IdleSound == SoundCall(Idle)
  BY DEF Idle, SoundCall, CallState, Name

\* A step of the call of one client.
LEMMA CallStep ==
  ASSUME TypeOK, NEW c \in Client, NEW cl, SoundCall(cl), call' = [call EXCEPT ![c] = cl]
  PROVE  call' \in [Client -> CallState] /\ \A d \in Client : SoundCall(call'[d])
  BY TypeParts DEF SoundCall

LEMMA ThreadStep ==
  ASSUME TypeOK, NEW c \in Client, NEW th, SoundThread(th), thread' = [thread EXCEPT ![c] = th]
  PROVE  thread' \in [Client -> ThreadState] /\ \A d \in Client : SoundThread(thread'[d])
  BY TypeParts DEF SoundThread

LEMMA LoadType ==
  ASSUME TypeOK, NEW n \in Name, NEW l \in Loader, NEW k \in Klass, LoadClass(n, l, k)
  PROVE  /\ live' \in SUBSET Klass /\ content' \in [Klass -> KlassState]
         /\ live \subseteq live' /\ \A j \in live : content'[j] = content[j]
         /\ k \in live' /\ content'[k] = [name |-> n, loader |-> l]
  BY TypeParts DEF LoadClass, KlassState

LEMMA TypeInit == Init => TypeOK
  <1> SUFFICES ASSUME Init PROVE TypeOK
    OBVIOUS
  <1>1. content \in [Klass -> KlassState]
    <2> SUFFICES ASSUME NEW k \in Klass, NEW p \in Initial, p.klass = k
                 PROVE  LET q == CHOOSE q \in Initial : q.klass = k IN
                        [name |-> q.name, loader |-> q.loader] \in KlassState
      BY DEF Init, KlassState
    <2> DEFINE q == CHOOSE r \in Initial : r.klass = k
    <2>1. q \in Initial
      OBVIOUS
    <2> QED
      BY <2>1 DEF KlassState
  <1>2. live \in SUBSET Klass
    BY DEF Init
  <1>3. call \in [Client -> CallState] /\ \A c \in Client : SoundCall(call[c])
    BY IdleSound DEF Init, SoundCall
  <1>4. thread \in [Client -> ThreadState] /\ \A c \in Client : SoundThread(thread[c])
    BY DEF Init, SoundThread, ThreadState
  <1> QED
    BY <1>1, <1>2, <1>3, <1>4, TypeParts DEF Init

LEMMA ReanchorNextType ==
  ASSUME TypeOK, NEW c \in Client, NEW ok \in BOOLEAN, ReanchorNext(c, ok)
  PROVE  call' \in [Client -> CallState] /\ \A d \in Client : SoundCall(call'[d])
  <1> DEFINE next == [call[c] EXCEPT !.pc = "resolve", !.name = call[c].name + 1,
                                     !.klass = NoKlass, !.ok = ok]
             cl == IF call[c].name = NNames THEN Idle ELSE next
  <1>1. SoundCall(call[c])
    BY TypeParts
  <1>2. ASSUME call[c].name # NNames PROVE SoundCall(next)
    <2>1. call[c].name \in 1..NNames /\ call[c] \in CallState
      BY <1>1 DEF SoundCall, CallState, Name
    <2>2. call[c].name + 1 \in Name
      BY <1>2, <2>1 DEF Name
    <2>3. next \in CallState /\ next.pc = "resolve"
      BY <2>1, <2>2 DEF CallState
    <2> QED
      BY <2>3 DEF SoundCall
  <1>3. SoundCall(cl)
    BY <1>2, IdleSound
  <1>4. call' = [call EXCEPT ![c] = cl]
    BY DEF ReanchorNext
  <1> QED
    BY <1>3, <1>4, CallStep

LEMMA FindType ==
  ASSUME TypeOK, NEW c \in Client, Find(c)
  PROVE  TypeOK'
  <1>0. SoundCall(call[c]) /\ SoundThread(thread[c]) /\ call[c].name \in Name
    BY TypeParts DEF SoundCall, CallState
  <1>1. CASE Walk(c)
    <2>1. CASE \E k \in Copies(call[c].name) :
                 call' = [call EXCEPT ![c] = [@ EXCEPT !.pc = "insert", !.klass = k]]
      <3>1. PICK k \in Klass : call' = [call EXCEPT ![c] = [@ EXCEPT !.pc = "insert", !.klass = k]]
        BY <2>1, TypeParts DEF Copies
      <3>2. SoundCall([call[c] EXCEPT !.pc = "insert", !.klass = k])
        BY <1>0 DEF SoundCall, CallState
      <3>3. call' \in [Client -> CallState] /\ \A d \in Client : SoundCall(call'[d])
        BY <3>1, <3>2, CallStep
      <3> QED
        BY <1>1, <3>3, TypeParts DEF Walk, TypeOK, SoundCall, CallState
    <2>2. CASE call' = [call EXCEPT ![c].pc = "jni"]
      <3>1. SoundCall([call[c] EXCEPT !.pc = "jni"])
        BY <1>0 DEF SoundCall, CallState
      <3>2. call' = [call EXCEPT ![c] = [call[c] EXCEPT !.pc = "jni"]]
        BY <2>2
      <3>3. call' \in [Client -> CallState] /\ \A d \in Client : SoundCall(call'[d])
        BY <3>1, <3>2, CallStep
      <3> QED
        BY <1>1, <3>3 DEF Walk, TypeOK, SoundCall, CallState
    <2> QED
      BY <1>1, <2>1, <2>2 DEF Walk
  <1>2. CASE JniFind(c)
    <2> DEFINE th == Ensured(Ensured(thread[c]))
    <2>1. SoundThread(th)
      BY <1>0, EnsuredType
    <2>2. thread' \in [Client -> ThreadState] /\ \A d \in Client : SoundThread(thread'[d])
      BY <1>2, <2>1, ThreadStep DEF JniFind
    <2>3. \A i \in 1..3 : LoaderChain(th)[i] \in Loader
      BY <2>1 DEF LoaderChain, SoundThread, ThreadState
    <2>4. /\ live' \in SUBSET Klass /\ content' \in [Klass -> KlassState]
          /\ call' \in [Client -> CallState] /\ \A d \in Client : SoundCall(call'[d])
      <3>1. CASE call' = [call EXCEPT ![c] = Idle] /\ UNCHANGED <<live, content>>
        BY <3>1, IdleSound, CallStep, TypeParts
      <3>2. ASSUME NEW i \in 1..3, NEW k \in Klass, LoadClass(call[c].name, LoaderChain(th)[i], k),
                   call' = [call EXCEPT ![c] = [@ EXCEPT !.pc = "insert", !.klass = k]]
            PROVE  /\ live' \in SUBSET Klass /\ content' \in [Klass -> KlassState]
                   /\ call' \in [Client -> CallState] /\ \A d \in Client : SoundCall(call'[d])
        <4>1. SoundCall([call[c] EXCEPT !.pc = "insert", !.klass = k])
          BY <1>0 DEF SoundCall, CallState
        <4>2. live' \in SUBSET Klass /\ content' \in [Klass -> KlassState]
          BY <1>0, <2>3, <3>2, LoadType
        <4> QED
          BY <3>2, <4>1, <4>2, CallStep
      <3> QED
        BY <1>2, <3>1, <3>2 DEF JniFind
    <2>5. UNCHANGED <<cache, host, pinned, unloads>>
      BY <1>2 DEF JniFind
    <2> QED
      BY <2>2, <2>4, <2>5 DEF TypeOK, SoundThread, SoundCall, ThreadState, CallState, KlassState
  <1>3. CASE Insert(c)
    <2>1. SoundCall([call[c] EXCEPT !.pc = "capture"])
      BY <1>0, <1>3 DEF SoundCall, CallState, Insert
    <2>2. call' = [call EXCEPT ![c] = [call[c] EXCEPT !.pc = "capture"]]
      BY <1>3 DEF Insert
    <2>3. call' \in [Client -> CallState] /\ \A d \in Client : SoundCall(call'[d])
      BY <2>1, <2>2, CallStep
    <2>4. cache' \in [Name -> Klass \cup {NoKlass, Absent}]
      BY <1>0, <1>3, TypeParts DEF Insert, SoundCall, CallState
    <2> QED
      BY <1>3, <2>3, <2>4 DEF Insert, TypeOK, SoundCall, CallState
  <1>4. CASE Capture(c)
    <2>1. call[c].klass \in Klass /\ content[call[c].klass] \in KlassState
      BY <1>0, <1>4, TypeParts DEF Capture, SoundCall
    <2>2. call' \in [Client -> CallState] /\ \A d \in Client : SoundCall(call'[d])
      BY <1>4, IdleSound, CallStep DEF Capture
    <2>3. SoundThread([thread[c] EXCEPT !.context = content[call[c].klass].loader])
      BY <1>0, <2>1 DEF SoundThread, ThreadState, KlassState
    <2>4. thread' \in [Client -> ThreadState] /\ \A d \in Client : SoundThread(thread'[d])
      <3>1. CASE UNCHANGED thread
        BY <3>1, TypeParts
      <3>2. CASE thread' = [thread EXCEPT ![c] = [thread[c] EXCEPT !.context = content[call[c].klass].loader]]
        BY <3>2, <2>3, ThreadStep
      <3> QED
        BY <1>4, <3>1, <3>2 DEF Capture
    <2>5. host' \in Klass \cup {NoKlass}
      BY <1>0, <1>4, <2>1, TypeParts DEF Capture
    <2> QED
      BY <1>4, <2>2, <2>4, <2>5
         DEF Capture, TypeOK, SoundCall, CallState, SoundThread, ThreadState
  <1> QED
    BY <1>1, <1>2, <1>3, <1>4 DEF Find

LEMMA PinType ==
  ASSUME TypeOK, NEW n \in Name, NEW k \in Klass \cup {NoKlass}, Pin(n, k)
  PROVE  /\ cache' \in [Name -> Klass \cup {NoKlass, Absent}]
         /\ pinned' \in [Name -> Klass \cup {NoKlass}]
  BY TypeParts DEF Pin

LEMMA ReanchorType ==
  ASSUME TypeOK, NEW c \in Client,
         (\E l \in Loader : ReanchorBegin(c, l)) \/ ReanchorResolve(c) \/ ReanchorOverride(c)
  PROVE  TypeOK'
  <1>0. SoundCall(call[c]) /\ SoundThread(thread[c]) /\ call[c].name \in Name /\ call[c].loader \in Loader
        /\ call[c].ok \in BOOLEAN
    BY TypeParts DEF SoundCall, CallState
  <1>1. ASSUME NEW l \in Loader, ReanchorBegin(c, l) PROVE TypeOK'
    <2>1. SoundCall([Idle EXCEPT !.pc = "resolve", !.loader = l])
      BY IdleSound DEF SoundCall, CallState
    <2>2. call' \in [Client -> CallState] /\ \A d \in Client : SoundCall(call'[d])
      BY <1>1, <2>1, CallStep DEF ReanchorBegin
    <2> QED
      BY <1>1, <2>2 DEF ReanchorBegin, TypeOK, SoundCall, CallState
  <1>2. CASE ReanchorResolve(c)
    <2>1. SoundThread(Ensured(thread[c]))
      BY <1>0, EnsuredType
    <2>2. thread' \in [Client -> ThreadState] /\ \A d \in Client : SoundThread(thread'[d])
      BY <1>2, <2>1, ThreadStep DEF ReanchorResolve
    <2>3. /\ live' \in SUBSET Klass /\ content' \in [Klass -> KlassState]
          /\ call' \in [Client -> CallState] /\ \A d \in Client : SoundCall(call'[d])
      <3>1. CASE ReanchorNext(c, FALSE) /\ UNCHANGED <<live, content>>
        BY <3>1, ReanchorNextType, TypeParts
      <3>2. ASSUME NEW k \in Klass, LoadClass(call[c].name, call[c].loader, k),
                   call' = [call EXCEPT ![c] = [@ EXCEPT !.pc = "override", !.klass = k]]
            PROVE  /\ live' \in SUBSET Klass /\ content' \in [Klass -> KlassState]
                   /\ call' \in [Client -> CallState] /\ \A d \in Client : SoundCall(call'[d])
        <4>1. SoundCall([call[c] EXCEPT !.pc = "override", !.klass = k])
          BY <1>0 DEF SoundCall, CallState
        <4>2. live' \in SUBSET Klass /\ content' \in [Klass -> KlassState]
          BY <1>0, <3>2, LoadType
        <4> QED
          BY <3>2, <4>1, <4>2, CallStep
      <3> QED
        BY <1>2, <3>1, <3>2 DEF ReanchorResolve
    <2>4. UNCHANGED <<cache, host, pinned, unloads>>
      BY <1>2 DEF ReanchorResolve
    <2> QED
      BY <2>2, <2>3, <2>4 DEF TypeOK, SoundThread, SoundCall, ThreadState, CallState, KlassState
  <1>3. CASE ReanchorOverride(c)
    <2>1. call' \in [Client -> CallState] /\ \A d \in Client : SoundCall(call'[d])
      BY <1>0, <1>3, ReanchorNextType DEF ReanchorOverride
    <2>2. call[c].klass \in Klass
      BY <1>0, <1>3 DEF ReanchorOverride, SoundCall
    <2>3. /\ cache' \in [Name -> Klass \cup {NoKlass, Absent}]
          /\ pinned' \in [Name -> Klass \cup {NoKlass}]
      BY <1>0, <1>3, <2>2, PinType DEF ReanchorOverride
    <2> QED
      BY <1>3, <2>1, <2>3 DEF ReanchorOverride, TypeOK, SoundCall, CallState
  <1> QED
    BY <1>1, <1>2, <1>3

LEMMA TypeNext == TypeOK /\ [Next]_vars => TypeOK'
  <1> SUFFICES ASSUME TypeOK, [Next]_vars PROVE TypeOK'
    OBVIOUS
  <1>1. ASSUME NEW c \in Client, EnsureCurrentJavaThread(c) PROVE TypeOK'
    <2>1. SoundThread(Ensured(thread[c]))
      BY EnsuredType, TypeParts
    <2>2. thread' \in [Client -> ThreadState] /\ \A d \in Client : SoundThread(thread'[d])
      BY <1>1, <2>1, ThreadStep DEF EnsureCurrentJavaThread
    <2> QED
      BY <1>1, <2>2 DEF EnsureCurrentJavaThread, TypeOK, SoundThread, ThreadState
  <1>3. ASSUME NEW c \in Client, NEW n \in Name, FindMiss(c, n) PROVE TypeOK'
    <2>1. SoundCall([Idle EXCEPT !.pc = "walk", !.name = n])
      BY IdleSound DEF SoundCall, CallState
    <2>2. call' \in [Client -> CallState] /\ \A d \in Client : SoundCall(call'[d])
      BY <1>3, <2>1, CallStep DEF FindMiss
    <2> QED
      BY <1>3, <2>2 DEF FindMiss, TypeOK, SoundCall, CallState
  <1>4. ASSUME NEW c \in Client, NEW n \in Name, EvictClassLookup(c, n) PROVE TypeOK'
    BY <1>4 DEF EvictClassLookup, TypeOK
  <1>5. ASSUME NEW c \in Client, NEW n \in Name, NEW k \in Klass \cup {NoKlass},
               OverrideClassLookup(c, n, k)
        PROVE  TypeOK'
    BY <1>5, PinType DEF OverrideClassLookup, TypeOK
  <1>6. ASSUME NEW l \in Loader, JvmUnload(l) PROVE TypeOK'
    BY <1>6 DEF JvmUnload, TypeOK
  <1>7. ASSUME NEW l \in Loader, NEW n \in Name, NEW k \in Klass, JvmLoad(n, l, k) PROVE TypeOK'
    <2>1. live' \in SUBSET Klass /\ content' \in [Klass -> KlassState]
      BY <1>7, LoadType DEF JvmLoad
    <2> QED
      BY <1>7, <2>1 DEF JvmLoad, TypeOK, KlassState
  <1>8. CASE UNCHANGED vars
    BY <1>8 DEF vars, TypeOK
  <1> QED
    BY <1>1, <1>3, <1>4, <1>5, <1>6, <1>7, <1>8, FindType, ReanchorType DEF Next

\* For all constants: lookups, overrides, reanchors and attachments keep the
\* cache, the host klass and every thread and call of their type.
THEOREM TypeCorrect == Spec => []TypeOK
  BY TypeInit, TypeNext, PTL DEF Spec

\* A reanchor that is about to write its override writes a loaded klass of the
\* anchor's loader under its own name.
Anchored(c) ==
    call[c].pc = "override" =>
        /\ call[c].klass \in live
        /\ content[call[c].klass] = [name |-> call[c].name, loader |-> call[c].loader]

StickInv == TypeOK /\ OverrideSticks /\ \A c \in Client : Anchored(c)

\* Steps that leave the overrides alone and keep every loaded klass as it is.
LEMMA Undisturbed ==
  ASSUME StickInv, TypeOK', UNCHANGED <<cache, pinned>>,
         live \subseteq live', \A k \in live : content'[k] = content[k]
  PROVE  OverrideSticks'
  BY DEF StickInv, OverrideSticks, Hit

\* A client whose call is untouched, or that is not about to override.
LEMMA AnchoredStep ==
  ASSUME StickInv, live \subseteq live', \A k \in live : content'[k] = content[k],
         NEW c \in Client, \A d \in Client : d # c => call'[d] = call[d],
         call'[c] = call[c] \/ call'[c].pc # "override"
  PROVE  \A d \in Client : Anchored(d)'
  <1> SUFFICES ASSUME NEW d \in Client, call'[d].pc = "override" PROVE Anchored(d)'
    BY DEF Anchored
  <1>1. call'[d] = call[d]
    OBVIOUS
  <1>2. Anchored(d)
    BY DEF StickInv
  <1> QED
    BY <1>1, <1>2 DEF Anchored

LEMMA StickFind ==
  ASSUME StickInv, TypeOK', NEW c \in Client, Find(c)
  PROVE  StickInv'
  <1> USE DEF StickInv
  <1>0. call[c].name \in Name /\ call \in [Client -> CallState]
    BY TypeParts DEF CallState
  <1>1. live \subseteq live' /\ \A k \in live : content'[k] = content[k]
    <2>1. ASSUME NEW i \in 1..3, NEW k \in Klass,
                 LoadClass(call[c].name, LoaderChain(Ensured(Ensured(thread[c])))[i], k)
          PROVE  live \subseteq live' /\ \A j \in live : content'[j] = content[j]
      BY <2>1, TypeParts DEF LoadClass
    <2>2. CASE JniFind(c)
      BY <2>1, <2>2 DEF JniFind
    <2>3. CASE Walk(c) \/ Insert(c) \/ Capture(c)
      BY <2>3 DEF Walk, Insert, Capture
    <2> QED
      BY <2>2, <2>3 DEF Find
  <1>2. /\ \A d \in Client : d # c => call'[d] = call[d]
        /\ call'[c].pc # "override"
    <2>a. ASSUME NEW k, call' = [call EXCEPT ![c] = [@ EXCEPT !.pc = "insert", !.klass = k]]
          PROVE  (\A d \in Client : d # c => call'[d] = call[d]) /\ call'[c].pc = "insert"
      BY <1>0, <2>a DEF CallState
    <2>b. ASSUME call' = [call EXCEPT ![c] = Idle] \/ call' = [call EXCEPT ![c].pc = "jni"]
          PROVE  (\A d \in Client : d # c => call'[d] = call[d]) /\ call'[c].pc # "override"
      BY <1>0, <2>b DEF Idle, CallState
    <2>1. CASE Walk(c) \/ JniFind(c)
      BY <2>1, <2>a, <2>b DEF Walk, JniFind
    <2>2. CASE Insert(c) \/ Capture(c)
      BY <1>0, <2>2 DEF Insert, Capture, Idle, CallState
    <2> QED
      BY <2>1, <2>2 DEF Find
  <1>3. \A d \in Client : Anchored(d)'
    BY <1>1, <1>2, AnchoredStep
  <1>4. OverrideSticks'
    <2>1. CASE UNCHANGED cache
      <3>1. UNCHANGED pinned
        BY DEF Find, Walk, JniFind, Insert, Capture
      <3> QED
        BY <1>1, <2>1, <3>1, Undisturbed
    <2>2. CASE Insert(c)
      <3>1. \A n \in Name : pinned[n] # NoKlass => cache'[n] = cache[n]
        BY <1>0, <2>2, TypeParts DEF Insert, OverrideSticks
      <3> QED
        BY <2>2, <3>1 DEF Insert, OverrideSticks, Hit
    <2> QED
      BY <2>1, <2>2 DEF Find, Walk, JniFind, Capture
  <1> QED
    BY <1>3, <1>4

\* A klass that was written under the name it shows, while it is loaded.
LEMMA PinSticks ==
  ASSUME StickInv, TypeOK', NEW n \in Name, NEW k \in live \cup {NoKlass}, Pin(n, k),
         k # NoKlass => content[k].name = n, UNCHANGED <<live, content>>
  PROVE  OverrideSticks'
  BY TypeParts DEF StickInv, OverrideSticks, Hit, Pin

LEMMA StickReanchor ==
  ASSUME StickInv, TypeOK', NEW c \in Client,
         (\E l \in Loader : ReanchorBegin(c, l)) \/ ReanchorResolve(c) \/ ReanchorOverride(c)
  PROVE  StickInv'
  <1> USE DEF StickInv
  <1>0. call[c].name \in Name /\ call[c].loader \in Loader /\ call \in [Client -> CallState]
    BY TypeParts DEF CallState
  <1>a. ASSUME NEW ok \in BOOLEAN, ReanchorNext(c, ok)
        PROVE  (\A d \in Client : d # c => call'[d] = call[d]) /\ call'[c].pc # "override"
    BY <1>0, <1>a DEF ReanchorNext, Idle, CallState
  <1>1. ASSUME NEW l \in Loader, ReanchorBegin(c, l) PROVE StickInv'
    <2>1. (\A d \in Client : d # c => call'[d] = call[d]) /\ call'[c].pc # "override"
      BY <1>0, <1>1 DEF ReanchorBegin, Idle, CallState
    <2> QED
      BY <1>1, <2>1, AnchoredStep, Undisturbed DEF ReanchorBegin
  <1>2. CASE ReanchorResolve(c)
    <2>1. CASE ReanchorNext(c, FALSE) /\ UNCHANGED <<live, content>>
      <3>1. (\A d \in Client : d # c => call'[d] = call[d]) /\ call'[c].pc # "override"
        BY <1>a, <2>1
      <3>2. \A d \in Client : Anchored(d)'
        BY <2>1, <3>1, AnchoredStep
      <3>3. OverrideSticks'
        BY <1>2, <2>1, Undisturbed DEF ReanchorResolve
      <3> QED
        BY <3>2, <3>3
    <2>2. ASSUME NEW k \in Klass, LoadClass(call[c].name, call[c].loader, k),
                 call' = [call EXCEPT ![c] = [@ EXCEPT !.pc = "override", !.klass = k]]
          PROVE  StickInv'
      <3>1. /\ live \subseteq live' /\ \A j \in live : content'[j] = content[j]
            /\ k \in live' /\ content'[k] = [name |-> call[c].name, loader |-> call[c].loader]
        BY <1>0, <2>2, LoadType
      <3>2. OverrideSticks'
        BY <1>2, <3>1, Undisturbed DEF ReanchorResolve
      <3>3. call'[c].klass = k /\ call'[c].name = call[c].name /\ call'[c].loader = call[c].loader
        BY <1>0, <2>2 DEF CallState
      <3>4. Anchored(c)'
        BY <3>1, <3>3 DEF Anchored
      <3>5. ASSUME NEW d \in Client, d # c PROVE Anchored(d)'
        <4>1. call'[d] = call[d]
          BY <1>0, <2>2, <3>5
        <4>2. Anchored(d)
          OBVIOUS
        <4> QED
          BY <3>1, <4>1, <4>2 DEF Anchored
      <3> QED
        BY <3>2, <3>4, <3>5
    <2> QED
      BY <1>2, <2>1, <2>2 DEF ReanchorResolve
  <1>3. CASE ReanchorOverride(c)
    <2>1. call[c].klass \in live /\ content[call[c].klass].name = call[c].name
      <3>1. Anchored(c) /\ call[c].pc = "override"
        BY <1>3 DEF ReanchorOverride
      <3> QED
        BY <3>1 DEF Anchored
    <2>2. OverrideSticks'
      BY <1>0, <1>3, <2>1, PinSticks DEF ReanchorOverride
    <2>3. call[c].ok \in BOOLEAN
      BY TypeParts DEF CallState
    <2>4. (\A d \in Client : d # c => call'[d] = call[d]) /\ call'[c].pc # "override"
      BY <1>3, <1>a, <2>3 DEF ReanchorOverride
    <2>5. \A d \in Client : Anchored(d)'
      BY <1>3, <2>4, AnchoredStep DEF ReanchorOverride
    <2> QED
      BY <2>2, <2>5
  <1> QED
    BY <1>1, <1>2, <1>3

LEMMA StickNext == StickInv /\ TypeOK' /\ [Next]_vars => StickInv'
  <1> SUFFICES ASSUME StickInv, TypeOK', [Next]_vars PROVE StickInv'
    OBVIOUS
  <1> USE DEF StickInv
  <1>1. ASSUME UNCHANGED <<cache, pinned, live, content, call>> PROVE StickInv'
    BY <1>1 DEF OverrideSticks, Hit, Anchored
  <1>2. ASSUME NEW c \in Client, NEW n \in Name, FindMiss(c, n) PROVE StickInv'
    <2>1. pinned[n] = NoKlass
      BY <1>2 DEF FindMiss, OverrideSticks
    <2>2. OverrideSticks'
      BY <1>2, <2>1, TypeParts DEF FindMiss, OverrideSticks, Hit
    <2>3. call \in [Client -> CallState]
      BY TypeParts
    <2>4. (\A d \in Client : d # c => call'[d] = call[d]) /\ call'[c].pc # "override"
      BY <1>2, <2>3 DEF FindMiss, Idle
    <2>5. \A d \in Client : Anchored(d)'
      BY <1>2, <2>4, AnchoredStep DEF FindMiss
    <2> QED
      BY <2>2, <2>5
  <1>3. ASSUME NEW c \in Client, NEW n \in Name, EvictClassLookup(c, n) PROVE StickInv'
    <2>1. OverrideSticks'
      BY <1>3, TypeParts DEF EvictClassLookup, OverrideSticks, Hit
    <2> QED
      BY <1>3, <2>1 DEF EvictClassLookup, Anchored
  <1>4. ASSUME NEW c \in Client, NEW n \in Name, NEW k \in Klass \cup {NoKlass},
               OverrideClassLookup(c, n, k)
        PROVE  StickInv'
    <2>1. OverrideSticks'
      BY <1>4, PinSticks DEF OverrideClassLookup, Copies
    <2> QED
      BY <1>4, <2>1 DEF OverrideClassLookup, Anchored
  <1>5. ASSUME NEW l \in Loader, JvmUnload(l) PROVE StickInv'
    <2>1. OverrideSticks'
      BY <1>5, TypeParts DEF JvmUnload, OverrideSticks, Hit
    <2>2. ASSUME NEW c \in Client PROVE Anchored(c)'
      <3>1. Anchored(c)
        OBVIOUS
      <3> QED
        BY <1>5, <3>1 DEF JvmUnload, Anchored
    <2> QED
      BY <2>1, <2>2
  <1>6. ASSUME NEW l \in Loader, NEW n \in Name, NEW k \in Klass, JvmLoad(n, l, k) PROVE StickInv'
    <2>1. live \subseteq live' /\ \A j \in live : content'[j] = content[j]
      BY <1>6, LoadType DEF JvmLoad
    <2>2. OverrideSticks'
      BY <1>6, <2>1, Undisturbed DEF JvmLoad
    <2>3. ASSUME NEW c \in Client PROVE Anchored(c)'
      <3>1. Anchored(c) /\ call'[c] = call[c]
        BY <1>6 DEF JvmLoad
      <3> QED
        BY <2>1, <3>1 DEF Anchored
    <2> QED
      BY <2>2, <2>3
  <1>7. ASSUME NEW c \in Client, EnsureCurrentJavaThread(c) PROVE StickInv'
    BY <1>7, <1>1 DEF EnsureCurrentJavaThread
  <1>9. CASE UNCHANGED vars
    BY <1>9, <1>1 DEF vars
  <1> QED
    BY <1>2, <1>3, <1>4, <1>5, <1>6, <1>7, <1>9, StickFind, StickReanchor DEF Next

\* For all constants: until it is evicted, replaced or its class unloaded, an
\* override of the class cache is what every later find_class() finds there,
\* whatever lookups, reanchors, loads and unloads interleave with it.
THEOREM Sticks == Spec => []OverrideSticks
  <1>1. Init => StickInv
    BY TypeInit DEF Init, StickInv, OverrideSticks, Anchored, Idle
  <1>2. StickInv /\ [Next]_vars => StickInv'
    BY TypeNext, StickNext DEF StickInv
  <1>3. StickInv => OverrideSticks
    BY DEF StickInv
  <1> QED
    BY <1>1, <1>2, <1>3, PTL DEF Spec

-----------------------------------------------------------------------------
(* The host's loader.                                                      *)

\* The published host klass is of a loader that has an oop, also after it was
\* unloaded and its memory used for another class: no loadClass() defines a
\* class of the bootstrap loader.
HostInv == host # NoKlass => content[host].loader # Boot

\* A thread without a JNIEnv that makes sure of itself twice has one, and the
\* context loader that attach_current_native_thread() leaves it with.
LEMMA EnsuredTwice ==
  ASSUME NEW th \in ThreadState, ~th.env
  PROVE  LET fin == Ensured(Ensured(th)) IN fin.env /\ fin.context = Inherited(th.context)
  <1>1. Attached(th).env /\ Attached(th).context = Inherited(th.context) /\ Attached(th).java = th.java
    BY DEF Attached, ThreadState
  <1>2. CASE th.java
    BY <1>1, <1>2 DEF Ensured
  <1>3. CASE ~th.java /\ ~th.known
    <2> DEFINE one == [Attached(th) EXCEPT !.java = TRUE]
    <2>1. one.java /\ one.env /\ one.context = Inherited(th.context)
      BY <1>1 DEF Attached, ThreadState
    <2>2. Ensured(th) = one
      BY <1>3 DEF Ensured, Listed
    <2>3. Ensured(one) = one
      BY <2>1 DEF Ensured
    <2> QED
      BY <2>1, <2>2, <2>3
  <1>4. CASE ~th.java /\ th.known
    <2> DEFINE one == [th EXCEPT !.java = TRUE]
    <2>1. one.java /\ ~one.env /\ one.context = th.context
      BY DEF ThreadState
    <2>2. Ensured(th) = one
      BY <1>4 DEF Ensured, Listed
    <2>3. Ensured(one) = Attached(one)
      BY <2>1 DEF Ensured
    <2>4. Attached(one).env /\ Attached(one).context = Inherited(th.context)
      BY <2>1 DEF Attached, ThreadState
    <2> QED
      BY <2>2, <2>3, <2>4
  <1> QED
    BY <1>2, <1>3, <1>4 DEF ThreadState

LEMMA HostNext == TypeOK /\ HostInv /\ [Next]_vars => HostInv'
  <1> SUFFICES ASSUME TypeOK, HostInv, [Next]_vars PROVE HostInv'
    OBVIOUS
  <1>1. ASSUME NEW n, NEW l, NEW k, LoadClass(n, l, k), UNCHANGED host PROVE HostInv'
    BY <1>1, TypeParts DEF LoadClass, HostInv, KlassState
  <1>2. ASSUME UNCHANGED <<host, content>> PROVE HostInv'
    BY <1>2 DEF HostInv
  <1>3. ASSUME NEW c \in Client, Capture(c) PROVE HostInv'
    BY <1>3 DEF Capture, HostInv
  <1>4. ASSUME NEW c \in Client, JniFind(c) PROVE HostInv'
    BY <1>1, <1>2, <1>4 DEF JniFind
  <1>5. ASSUME NEW c \in Client, ReanchorResolve(c) PROVE HostInv'
    BY <1>1, <1>2, <1>5 DEF ReanchorResolve
  <1>6. ASSUME NEW l \in Loader, NEW n \in Name, NEW k \in Klass, JvmLoad(n, l, k) PROVE HostInv'
    BY <1>1, <1>6 DEF JvmLoad
  <1>7. ASSUME NEW c \in Client,
               \/ EnsureCurrentJavaThread(c) \/ Walk(c) \/ Insert(c) \/ ReanchorOverride(c)
               \/ \E n \in Name : FindMiss(c, n) \/ EvictClassLookup(c, n)
               \/ \E n \in Name, k \in Klass \cup {NoKlass} : OverrideClassLookup(c, n, k)
               \/ \E l \in Loader : ReanchorBegin(c, l)
        PROVE  HostInv'
    BY <1>2, <1>7 DEF EnsureCurrentJavaThread, Walk, Insert, ReanchorOverride, FindMiss,
                      EvictClassLookup, OverrideClassLookup, ReanchorBegin
  <1>8. ASSUME NEW l \in Loader, JvmUnload(l) PROVE HostInv'
    BY <1>2, <1>8 DEF JvmUnload
  <1>9. CASE UNCHANGED vars
    BY <1>2, <1>9 DEF vars
  <1> QED
    BY <1>3, <1>4, <1>5, <1>6, <1>7, <1>8, <1>9 DEF Next, Find

\* For all constants: once a host loader is known, find_class() on a thread that
\* it has to attach, or that it adopted without a JNIEnv, does not answer null
\* for a class that this loader can load.
THEOREM AttachedSeesHost == Spec => HostVisible
  <1>1. Init => HostInv
    BY DEF Init, HostInv
  <1>2. TypeOK /\ HostInv /\ [Next]_vars =>
           [\A c \in Client :
               JniFind(c) /\ call'[c].pc = "idle" /\ ~thread[c].env /\ host \in live =>
                  call[c].name \notin Defines[content[host].loader]]_vars
    <2> SUFFICES ASSUME TypeOK, HostInv, NEW c \in Client, JniFind(c), call'[c].pc = "idle",
                        ~thread[c].env, host \in live
                 PROVE  call[c].name \notin Defines[content[host].loader]
      OBVIOUS
    <2> DEFINE th == Ensured(Ensured(thread[c]))
    <2>1. host # NoKlass /\ content[host].loader # Boot /\ LoaderOfHost = content[host].loader
      BY TypeParts DEF HostInv, LoaderOfHost
    <2>2. th.context = content[host].loader
      <3>1. thread[c] \in ThreadState
        BY TypeParts
      <3>2. th.context = Inherited(thread[c].context)
        BY <3>1, EnsuredTwice
      <3> QED
        BY <2>1, <3>2 DEF Inherited
    <2>3. \A i \in 1..3 : LoaderChain(th)[i] = Boot \/ call[c].name \notin Defines[LoaderChain(th)[i]]
      <3>1. ASSUME NEW k, call' = [call EXCEPT ![c] = [@ EXCEPT !.pc = "insert", !.klass = k]] PROVE FALSE
        BY <3>1, TypeParts DEF CallState
      <3> QED
        BY <3>1 DEF JniFind
    <2>4. LoaderChain(th)[1] = content[host].loader
      BY <2>2 DEF LoaderChain
    <2> QED
      BY <2>1, <2>3, <2>4
  <1> QED
    BY <1>1, <1>2, HostNext, TypeCorrect, PTL DEF Spec, HostVisible

-----------------------------------------------------------------------------
(* The reanchor of a list of classes.                                      *)

Reanchoring(c) == call[c].pc \in {"resolve", "override"}

\* The cache answers n with the loaded copy of the loader that c anchors at.
Rehomed(c, n) ==
    /\ cache[n] \in live
    /\ content[cache[n]] = [name |-> n, loader |-> call[c].loader]

\* A reanchor without a failure so far has rehomed every name it is past.
ListInv ==
    \A c \in Overrider : Reanchoring(c) /\ call[c].ok =>
        \A n \in 1..(call[c].name - 1) : Rehomed(c, n)

ReanchorInv == StickInv /\ ListInv

\* A step that keeps what the cache answers from a loaded class of the anchor's
\* loader, by a client that does not go on with a reanchor.
LEMMA ListKept ==
  ASSUME ReanchorInv, NEW d \in Client, \A c \in Client : c # d => call'[c] = call[c],
         call'[d] = call[d] \/ ~Reanchoring(d)',
         \A c \in Overrider, n \in Name : Reanchoring(c) /\ Rehomed(c, n) =>
             cache'[n] = cache[n] /\ cache[n] \in live' /\ content'[cache[n]] = content[cache[n]]
  PROVE  ListInv'
  <1> SUFFICES ASSUME NEW c \in Overrider, Reanchoring(c)', call'[c].ok, NEW n \in 1..(call'[c].name - 1)
               PROVE  Rehomed(c, n)'
    BY DEF ListInv
  <1>1. call'[c] = call[c]
    OBVIOUS
  <1>2. call[c].name \in Name /\ Reanchoring(c) /\ call[c].ok
    BY <1>1, TypeParts DEF ReanchorInv, StickInv, CallState, Reanchoring
  <1>3. Rehomed(c, n) /\ n \in Name
    BY <1>1, <1>2 DEF ReanchorInv, ListInv, Name
  <1> QED
    BY <1>1, <1>2, <1>3 DEF Rehomed

\* Classes are loaded and the cache is left alone.
LEMMA ListLoad ==
  ASSUME ReanchorInv, NEW d \in Client, \A c \in Client : c # d => call'[c] = call[c],
         call'[d] = call[d] \/ ~Reanchoring(d)', UNCHANGED cache,
         live \subseteq live', \A k \in live : content'[k] = content[k]
  PROVE  ListInv'
  <1>1. \A c \in Overrider, n \in Name : Reanchoring(c) /\ Rehomed(c, n) =>
             cache'[n] = cache[n] /\ cache[n] \in live' /\ content'[cache[n]] = content[cache[n]]
    BY DEF Rehomed
  <1> QED
    BY <1>1, ListKept

LEMMA ListFind ==
  ASSUME ReanchorInv, NEW d \in Client, Find(d) \/ \E n \in Name : FindMiss(d, n)
  PROVE  ListInv'
  <1> USE DEF ReanchorInv, StickInv
  <1>0. call[d].name \in Name /\ call[d] \in CallState /\ call \in [Client -> CallState]
    BY TypeParts DEF CallState
  <1>1. (\A c \in Client : c # d => call'[c] = call[c]) /\ ~Reanchoring(d)'
    <2>a. ASSUME NEW k, call' = [call EXCEPT ![d] = [@ EXCEPT !.pc = "insert", !.klass = k]]
          PROVE  (\A c \in Client : c # d => call'[c] = call[c]) /\ ~Reanchoring(d)'
      BY <1>0, <2>a DEF CallState, Reanchoring
    <2>b. ASSUME call' = [call EXCEPT ![d] = Idle] \/ call' = [call EXCEPT ![d].pc = "jni"]
                 \/ call' = [call EXCEPT ![d].pc = "capture"]
          PROVE  (\A c \in Client : c # d => call'[c] = call[c]) /\ ~Reanchoring(d)'
      BY <1>0, <2>b DEF Idle, CallState, Reanchoring
    <2>1. ASSUME NEW m \in Name, FindMiss(d, m)
          PROVE  (\A c \in Client : c # d => call'[c] = call[c]) /\ ~Reanchoring(d)'
      <3>1. call' = [call EXCEPT ![d] = [Idle EXCEPT !.pc = "walk", !.name = m]]
        BY <2>1 DEF FindMiss
      <3>2. call'[d].pc = "walk" /\ \A c \in Client : c # d => call'[c] = call[c]
        BY <1>0, <3>1 DEF Idle
      <3> QED
        BY <3>2 DEF Reanchoring
    <2>2. CASE Find(d)
      BY <2>2, <2>a, <2>b DEF Find, Walk, JniFind, Insert, Capture
    <2> QED
      BY <2>1, <2>2
  <1>2. CASE \E n \in Name : FindMiss(d, n)
    <2>1. PICK m \in Name : FindMiss(d, m)
      BY <1>2
    <2>2. ASSUME NEW c \in Overrider, NEW n \in Name, Rehomed(c, n) PROVE cache'[n] = cache[n]
      <3>1. Hit(n)
        BY <2>2, TypeParts DEF Rehomed, Hit
      <3> QED
        BY <2>1, <3>1, TypeParts DEF FindMiss
    <2>3. \A c \in Overrider, n \in Name : Reanchoring(c) /\ Rehomed(c, n) =>
             cache'[n] = cache[n] /\ cache[n] \in live' /\ content'[cache[n]] = content[cache[n]]
      BY <2>1, <2>2 DEF FindMiss, Rehomed
    <2> QED
      BY <1>1, <2>3, ListKept
  <1>3. CASE Walk(d) \/ Capture(d)
    BY <1>1, <1>3, ListLoad DEF Walk, Capture
  <1>4. CASE Insert(d)
    <2>1. ASSUME NEW c \in Overrider, NEW n \in Name, Rehomed(c, n) PROVE cache'[n] = cache[n]
      BY <1>0, <1>4, <2>1, TypeParts DEF Insert, Rehomed
    <2> QED
      BY <1>1, <1>4, <2>1, ListKept DEF Insert, Rehomed
  <1>5. CASE JniFind(d)
    <2>1. live \subseteq live' /\ \A k \in live : content'[k] = content[k]
      <3>1. ASSUME NEW n, NEW l, NEW k \in Klass, LoadClass(n, l, k)
            PROVE  live \subseteq live' /\ \A j \in live : content'[j] = content[j]
        BY <3>1, TypeParts DEF LoadClass
      <3> QED
        BY <1>5, <3>1 DEF JniFind
    <2> QED
      BY <1>1, <1>5, <2>1, ListLoad DEF JniFind
  <1> QED
    BY <1>2, <1>3, <1>4, <1>5 DEF Find

\* The reanchor of the only client that overrides.
LEMMA ListReanchor ==
  ASSUME ReanchorInv, \A a, b \in Overrider : a = b, NEW c \in Overrider,
         (\E l \in Loader : ReanchorBegin(c, l)) \/ ReanchorResolve(c) \/ ReanchorOverride(c)
  PROVE  ListInv'
  <1> USE DEF ReanchorInv, StickInv
  <1>0. call[c].name \in Name /\ call[c] \in CallState /\ call \in [Client -> CallState]
        /\ call[c].loader \in Loader /\ call[c].ok \in BOOLEAN
    BY TypeParts DEF CallState
  <1> SUFFICES ASSUME Reanchoring(c)', call'[c].ok, NEW n \in 1..(call'[c].name - 1)
               PROVE  Rehomed(c, n)'
    BY DEF ListInv
  <1>a. ASSUME NEW ok \in BOOLEAN, ReanchorNext(c, ok)
        PROVE  /\ ok /\ call[c].name # NNames
               /\ call'[c].name = call[c].name + 1 /\ call'[c].loader = call[c].loader
    BY <1>0, <1>a DEF ReanchorNext, Idle, CallState, Reanchoring
  <1>b. ASSUME Reanchoring(c), call[c].ok, NEW m \in 1..(call[c].name - 1)
        PROVE  Rehomed(c, m) /\ m \in Name
    BY <1>0, <1>b DEF ListInv, Name
  <1>1. CASE \E l \in Loader : ReanchorBegin(c, l)
    <2>1. PICK l \in Loader : call' = [call EXCEPT ![c] = [Idle EXCEPT !.pc = "resolve", !.loader = l]]
      BY <1>1 DEF ReanchorBegin
    <2>2. call'[c].name = 1
      BY <1>0, <2>1 DEF Idle
    <2> QED
      BY <2>2
  <1>2. CASE ReanchorResolve(c)
    <2>1. ASSUME NEW k \in Klass, LoadClass(call[c].name, call[c].loader, k),
                 call' = [call EXCEPT ![c] = [@ EXCEPT !.pc = "override", !.klass = k]]
          PROVE  Rehomed(c, n)'
      <3>1. call'[c].name = call[c].name /\ call'[c].loader = call[c].loader /\ call'[c].ok = call[c].ok
        BY <1>0, <2>1 DEF CallState
      <3>2. Rehomed(c, n)
        BY <1>2, <1>b, <3>1 DEF ReanchorResolve, Reanchoring
      <3>3. live \subseteq live' /\ \A j \in live : content'[j] = content[j]
        BY <1>0, <2>1, LoadType
      <3> QED
        BY <1>2, <3>1, <3>2, <3>3 DEF ReanchorResolve, Rehomed
    <2>2. CASE ReanchorNext(c, FALSE)
      BY <1>a, <2>2
    <2> QED
      BY <1>2, <2>1, <2>2 DEF ReanchorResolve
  <1>3. CASE ReanchorOverride(c)
    <2>1. /\ call[c].ok /\ call'[c].name = call[c].name + 1 /\ call'[c].loader = call[c].loader
      BY <1>0, <1>3, <1>a DEF ReanchorOverride
    <2>2. Anchored(c) /\ call[c].pc = "override"
      BY <1>3 DEF ReanchorOverride
    <2>3. /\ cache' = [cache EXCEPT ![call[c].name] = call[c].klass]
          /\ UNCHANGED <<live, content>>
      BY <1>3 DEF ReanchorOverride, Pin
    <2>4. cache \in [Name -> Klass \cup {NoKlass, Absent}]
      BY TypeParts
    <2>5. CASE n = call[c].name
      BY <1>0, <2>1, <2>2, <2>3, <2>4, <2>5 DEF Anchored, Rehomed
    <2>6. CASE n \in 1..(call[c].name - 1)
      <3>1. Rehomed(c, n) /\ n \in Name /\ n # call[c].name
        BY <1>0, <1>b, <2>1, <2>2, <2>6 DEF Reanchoring, Name
      <3> QED
        BY <2>1, <2>3, <2>4, <3>1 DEF Rehomed
    <2>7. n = call[c].name \/ n \in 1..(call[c].name - 1)
      BY <1>0, <2>1 DEF Name
    <2> QED
      BY <2>5, <2>6, <2>7
  <1> QED
    BY <1>1, <1>2, <1>3

LEMMA ListNext ==
  ASSUME ReanchorInv, \A a, b \in Overrider : a = b, [Next]_vars
  PROVE  ListInv'
  <1> USE DEF ReanchorInv, StickInv
  <1>1. ASSUME UNCHANGED <<cache, live, content, call>> PROVE ListInv'
    BY <1>1 DEF ListInv, Rehomed, Reanchoring
  <1>2. ASSUME NEW c \in Overrider, call[c].pc = "idle", UNCHANGED call PROVE ListInv'
    BY <1>2 DEF ListInv, Reanchoring
  <1>3. ASSUME NEW c \in Overrider, NEW n \in Name,
               EvictClassLookup(c, n) \/ \E k \in Klass \cup {NoKlass} : OverrideClassLookup(c, n, k)
        PROVE  ListInv'
    BY <1>2, <1>3 DEF EvictClassLookup, OverrideClassLookup
  <1>4. ASSUME NEW l \in Loader, JvmUnload(l) PROVE ListInv'
    <2>1. ASSUME NEW c \in Overrider, NEW n \in Name, Rehomed(c, n) PROVE cache[n] \in live'
      <3>1. call[c].loader # l
        BY <1>4 DEF JvmUnload
      <3> QED
        BY <1>4, <2>1, <3>1 DEF JvmUnload, Rehomed
    <2> SUFFICES ASSUME NEW c \in Overrider, Reanchoring(c)', call'[c].ok,
                        NEW n \in 1..(call'[c].name - 1)
                 PROVE  Rehomed(c, n)'
      BY DEF ListInv
    <2>2. UNCHANGED <<cache, content, call>>
      BY <1>4 DEF JvmUnload
    <2>3. call[c].name \in Name
      BY TypeParts DEF CallState
    <2>4. Rehomed(c, n) /\ n \in Name
      BY <2>2, <2>3 DEF ListInv, Reanchoring, Name
    <2> QED
      BY <2>1, <2>2, <2>4 DEF Rehomed
  <1>5. ASSUME NEW l \in Loader, NEW m \in Name, NEW k \in Klass, JvmLoad(m, l, k) PROVE ListInv'
    <2>1. live \subseteq live' /\ \A j \in live : content'[j] = content[j]
      BY <1>5, LoadType DEF JvmLoad
    <2>2. UNCHANGED <<cache, call>>
      BY <1>5 DEF JvmLoad
    <2> QED
      BY <2>1, <2>2 DEF ListInv, Rehomed, Reanchoring
  <1>6. ASSUME NEW c \in Client, EnsureCurrentJavaThread(c) PROVE ListInv'
    BY <1>6, <1>1 DEF EnsureCurrentJavaThread
  <1>7. CASE UNCHANGED vars
    BY <1>7, <1>1 DEF vars
  <1> QED
    BY <1>3, <1>4, <1>5, <1>6, <1>7, ListFind, ListReanchor DEF Next

\* For all constants, as long as one client at most overrides the cache: when
\* reanchor_classes_via_oop() answers true, every class of its list is found in
\* the copy of the anchor's loader, whatever other threads looked up, loaded or
\* unloaded between two classes of the list.
THEOREM Reanchored == (\A a, b \in Overrider : a = b) => (Spec => ReanchorComplete)
  <1> SUFFICES ASSUME \A a, b \in Overrider : a = b PROVE Spec => ReanchorComplete
    OBVIOUS
  <1>1. Init => ReanchorInv
    BY TypeInit DEF Init, ReanchorInv, StickInv, OverrideSticks, Anchored, ListInv, Reanchoring, Idle
  <1>2. ReanchorInv /\ [Next]_vars => ReanchorInv'
    BY TypeNext, StickNext, ListNext DEF StickInv, ReanchorInv
  <1>3. ReanchorInv /\ [Next]_vars =>
           [\A c \in Overrider :
               ReanchorOverride(c) /\ call'[c].pc = "idle" /\ call[c].ok =>
                  \A n \in Name : /\ cache'[n] \in live'
                                  /\ content'[cache'[n]] = [name |-> n, loader |-> call[c].loader]]_vars
    <2> SUFFICES ASSUME ReanchorInv, NEW c \in Overrider, ReanchorOverride(c), call'[c].pc = "idle",
                        call[c].ok, NEW n \in Name
                 PROVE  /\ cache'[n] \in live'
                        /\ content'[cache'[n]] = [name |-> n, loader |-> call[c].loader]
      OBVIOUS
    <2>1. call[c] \in CallState /\ call[c].name \in Name /\ cache \in [Name -> Klass \cup {NoKlass, Absent}]
      BY TypeParts DEF ReanchorInv, StickInv, CallState
    <2>2. call[c].name = NNames
      BY <2>1, TypeParts DEF ReanchorInv, StickInv, ReanchorOverride, ReanchorNext, CallState
    <2>3. Anchored(c) /\ call[c].pc = "override"
      BY DEF ReanchorInv, StickInv, ReanchorOverride
    <2>4. cache' = [cache EXCEPT ![call[c].name] = call[c].klass] /\ UNCHANGED <<live, content>>
      BY DEF ReanchorOverride, Pin
    <2>5. CASE n = NNames
      BY <2>1, <2>2, <2>3, <2>4, <2>5 DEF Anchored
    <2>6. CASE n # NNames
      <3>1. n \in 1..(call[c].name - 1)
        BY <2>2, <2>6 DEF Name
      <3>2. Rehomed(c, n)
        BY <2>3, <3>1 DEF ReanchorInv, ListInv, Reanchoring
      <3> QED
        BY <2>1, <2>2, <2>4, <2>6, <3>2 DEF Rehomed
    <2> QED
      BY <2>5, <2>6
  <1> QED
    BY <1>1, <1>2, <1>3, PTL DEF Spec, ReanchorComplete
=============================================================================
