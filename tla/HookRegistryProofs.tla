------------------------- MODULE HookRegistryProofs -------------------------
(***************************************************************************)
(* Theorems about HookRegistry, for any number of methods, stubs, handles  *)
(* and threads.                                                            *)
(***************************************************************************)
EXTENDS HookRegistry, TLAPS, SequenceTheorems, WellFoundedInduction

\* A non-empty set of natural numbers has a least element.
LEMMA LeastNat ==
    ASSUME NEW S, S \subseteq Nat, S # {}
    PROVE  \E x \in S : \A y \in S : ~(y < x)
<1>1. PICK x \in S : \A y \in S : ~(<<y, x>> \in OpToRel(<, Nat))
  BY NatLessThanWellFounded, WFMin
<1> QED BY <1>1 DEF OpToRel

\* std::find_if of stop() and common_detour finds an entry of m, the first one.
LEMMA FirstOfFinds ==
    ASSUME TypeOK, NEW m, InList(m)
    PROVE  /\ FirstOf(m) \in 1..Len(hooked)
           /\ hooked[FirstOf(m)].method = m
<1> DEFINE S == {i \in DOMAIN hooked : hooked[i].method = m}
<1>0. DOMAIN hooked = 1..Len(hooked)
  BY LenProperties DEF TypeOK
<1>1. S \subseteq Nat /\ S # {}
  BY <1>0 DEF InList
<1>2. PICK x \in S : \A y \in S : ~(y < x)
  BY <1>1, LeastNat
<1> QED BY <1>0, <1>2 DEF FirstOf

\* vector::erase drops one element and closes the gap.
LEMMA RemoveAtProperties ==
    ASSUME NEW S, NEW q \in Seq(S), NEW i \in 1..Len(q)
    PROVE  /\ RemoveAt(q, i) \in Seq(S)
           /\ Len(RemoveAt(q, i)) = Len(q) - 1
           /\ \A j \in 1..(Len(q) - 1) :
                 RemoveAt(q, i)[j] = IF j < i THEN q[j] ELSE q[j + 1]
<1> DEFINE l == SubSeq(q, 1, i - 1)
           r == SubSeq(q, i + 1, Len(q))
<1>1. Len(q) \in Nat /\ \A j \in 1..Len(q) : q[j] \in S
  BY LenProperties, ElementOfSeq
<1>2. /\ l \in Seq(S) /\ Len(l) = i - 1
      /\ \A j \in 1..(i - 1) : l[j] = q[j]
  <2>1. \A j \in 1..(i - 1) : q[j] \in S
    BY <1>1
  <2> QED BY <1>1, <2>1, SubSeqProperties
<1>3. /\ r \in Seq(S) /\ Len(r) = Len(q) - i
      /\ \A j \in 1..(Len(q) - i) : r[j] = q[i + j]
  <2>1. \A j \in (i + 1)..Len(q) : q[j] \in S
    BY <1>1
  <2>2. /\ r \in Seq(S)
        /\ Len(r) = IF i + 1 <= Len(q) THEN Len(q) - (i + 1) + 1 ELSE 0
        /\ \A j \in 1..(Len(q) - (i + 1) + 1) : r[j] = q[(i + 1) + j - 1]
    BY <1>1, <2>1, SubSeqProperties
  <2> QED BY <1>1, <2>2
<1>4. /\ l \o r \in Seq(S)
      /\ Len(l \o r) = Len(l) + Len(r)
      /\ \A j \in 1..(Len(l) + Len(r)) :
            (l \o r)[j] = IF j <= Len(l) THEN l[j] ELSE r[j - Len(l)]
  BY <1>2, <1>3, ConcatProperties
<1>5. RemoveAt(q, i) = l \o r
  BY DEF RemoveAt
<1> HIDE DEF l, r
<1>6. Len(RemoveAt(q, i)) = Len(q) - 1
  BY <1>1, <1>2, <1>3, <1>4, <1>5
<1>7. ASSUME NEW j \in 1..(Len(q) - 1)
      PROVE  RemoveAt(q, i)[j] = IF j < i THEN q[j] ELSE q[j + 1]
  <2>1. (l \o r)[j] = IF j <= i - 1 THEN l[j] ELSE r[j - (i - 1)]
    BY <1>1, <1>2, <1>3, <1>4
  <2>2. CASE j < i
    BY <1>1, <1>2, <1>5, <2>1, <2>2
  <2>3. CASE ~(j < i)
    <3>1. r[j - (i - 1)] = q[i + (j - (i - 1))]
      BY <1>1, <1>3, <2>3
    <3>2. i + (j - (i - 1)) = j + 1
      BY <1>1
    <3> QED BY <1>1, <1>5, <2>1, <2>3, <3>1, <3>2
  <2> QED BY <2>2, <2>3
<1> QED BY <1>4, <1>5, <1>6, <1>7

-----------------------------------------------------------------------------
(* Type correctness.                                                       *)

\* The Methods and JavaMethods an entry, a call and a handle name exist.
LEMMA EntryType ==
    ASSUME TypeOK, NEW i \in DOMAIN hooked
    PROVE  /\ i \in 1..Len(hooked)
           /\ hooked[i] \in HookedMethod
           /\ hooked[i].method \in Method /\ hooked[i].who \in JavaMethod
<1>1. i \in 1..Len(hooked)
  BY LenProperties DEF TypeOK
<1>2. hooked[i] \in HookedMethod
  BY <1>1, ElementOfSeq DEF TypeOK
<1> QED BY <1>1, <1>2 DEF HookedMethod

\* The deoptimisations under way have their types.
DeoptTyped ==
    /\ deopt \in [Deopter -> [method : Method \cup {NoMethod}, left : SUBSET Field]]
    /\ \A o \in Deopter : deopt[o].left # {} => deopt[o].method # NoMethod

LEMMA InitTypeOK == Init => TypeOK
<1> SUFFICES ASSUME Init PROVE TypeOK
  OBVIOUS
<1> USE RegistryAssumption
<1>1. occupant \in [Method -> JavaMethod \cup {NoJava}]
  <2>1. ASSUME NEW m \in Method, Live(m)
        PROVE  (CHOOSE s \in JavaMethod : table[s] = m) \in JavaMethod
    BY <2>1 DEF Live
  <2> QED BY <2>1 DEF Init
<1>2. handles \in [Handle -> [method : Method \cup {NoMethod}, who : JavaMethod \cup {NoJava}]]
  BY DEF Init, EmptyHandle
<1>3. /\ call \in [Caller -> Call]
      /\ \A d \in Caller : call[d].pc # "idle" => call[d].method # NoMethod /\ call[d].who # NoJava
  BY DEF Init, Call, Idle
<1>4. hooked \in Seq(HookedMethod) /\ vpos \in 0..Len(hooked)
  BY EmptySeq DEF Init
<1>5. linked \in [Method -> BOOLEAN]
  BY DEF Init
<1>6. DeoptTyped /\ torn \in SUBSET Method
  BY DEF Init, DeoptTyped, NoDeopt, Deopter, Field
<1> QED BY <1>1, <1>2, <1>3, <1>4, <1>5, <1>6 DEF Init, TypeOK, DeoptTyped

\* Setting the inhibitors and deoptimising keep the Methods' fields typed.
LEMMA InhibitType ==
    ASSUME TypeOK, NEW m, Inhibit(m, TRUE)
    PROVE  dontInline' \in [Method -> BOOLEAN] /\ noCompile' \in [Method -> BOOLEAN]
<1>1. dontInline' = [dontInline EXCEPT ![m] = TRUE] /\ dontInline \in [Method -> BOOLEAN]
  BY DEF Inhibit, TypeOK
<1>2. noCompile' = [noCompile EXCEPT ![m] = TRUE] /\ noCompile \in [Method -> BOOLEAN]
  BY DEF Inhibit, TypeOK
<1>3. dontInline' \in [Method -> BOOLEAN]
  BY <1>1
<1>4. noCompile' \in [Method -> BOOLEAN]
  BY <1>2
<1> QED BY <1>3, <1>4

\* entryVars keep their types.
EntryTyped ==
    /\ code \in [Method -> BOOLEAN]
    /\ fromI \in [Method -> {"i2i", "i2c"}]
    /\ fromC \in [Method -> {"c2i", "nmethod"}]

LEMMA EntryKept ==
    ASSUME TypeOK, UNCHANGED entryVars
    PROVE  EntryTyped'
<1>1. code' = code /\ fromI' = fromI /\ fromC' = fromC
  BY DEF entryVars
<1>2. EntryTyped
  BY DEF EntryTyped, TypeOK
<1> QED BY <1>1, <1>2 DEF EntryTyped

\* The deoptimisation of one Method begins, or none does.
LEMMA BeginDeoptType ==
    ASSUME TypeOK, NEW m \in Method, NEW o \in Deopter, UNCHANGED deopt \/ BeginDeopt(o, m)
    PROVE  DeoptTyped'
<1>1. DeoptTyped
  BY DEF TypeOK, DeoptTyped
<1>2. CASE UNCHANGED deopt
  BY <1>1, <1>2 DEF DeoptTyped
<1>3. CASE BeginDeopt(o, m)
  <2> DEFINE r == [method |-> m, left |-> IF m \in AdapterKnown THEN Field ELSE Field \ {"fromC"}]
  <2>1. r \in [method : Method \cup {NoMethod}, left : SUBSET Field] /\ r.method # NoMethod
    BY RegistryAssumption
  <2>2. deopt' = [deopt EXCEPT ![o] = r]
    BY <1>3 DEF BeginDeopt
  <2> HIDE DEF r
  <2> QED BY <1>1, <2>1, <2>2 DEF DeoptTyped
<1> QED BY <1>2, <1>3

\* One store of a deoptimisation.
LEMMA StoreType ==
    ASSUME TypeOK, NEW o \in Deopter, NEW f \in deopt[o].left, Store(o, f)
    PROVE  TypeOK'
<1> DEFINE m == deopt[o].method
           rest == deopt[o].left \ {f}
           r == IF rest = {} THEN NoDeopt ELSE [deopt[o] EXCEPT !.left = rest]
<1>1. deopt[o] \in [method : Method \cup {NoMethod}, left : SUBSET Field] /\ m # NoMethod
  BY DEF TypeOK
<1>2. r \in [method : Method \cup {NoMethod}, left : SUBSET Field]
      /\ (r.left # {} => r.method # NoMethod)
  BY <1>1 DEF NoDeopt
<1>3. deopt' = [deopt EXCEPT ![o] = r] /\ DeoptTyped
  BY DEF Store, TypeOK, DeoptTyped
<1>4. DeoptTyped'
  <2> HIDE DEF r
  <2> QED BY <1>2, <1>3 DEF DeoptTyped
<1>5. EntryTyped'
  <2>1. fromI' \in [Method -> {"i2i", "i2c"}]
    <3>1. fromI' = fromI \/ fromI' = [fromI EXCEPT ![m] = "i2i"]
      BY DEF Store
    <3> QED BY <3>1 DEF TypeOK
  <2>2. fromC' \in [Method -> {"c2i", "nmethod"}]
    <3>1. fromC' = fromC \/ fromC' = [fromC EXCEPT ![m] = "c2i"]
      BY DEF Store
    <3> QED BY <3>1 DEF TypeOK
  <2>3. code' \in [Method -> BOOLEAN]
    <3>1. code' = code \/ code' = [code EXCEPT ![m] = FALSE]
      BY DEF Store
    <3> QED BY <3>1 DEF TypeOK
  <2> QED BY <2>1, <2>2, <2>3 DEF EntryTyped
<1> QED BY <1>4, <1>5 DEF TypeOK, EntryTyped, DeoptTyped, Store, historyVars

\* Every outcome of the part of hook<T>() under the mutex.
LEMMA HookInstallType ==
    ASSUME TypeOK, NEW d \in Caller, HookInstall(d)
    PROVE  TypeOK'
<1> DEFINE m == call[d].method
           s == call[d].who
<1>1. m \in Method /\ s \in JavaMethod /\ call[d] \in Call
  BY DEF TypeOK, HookInstall, Call
<1>2. NewEntry(m, s) \in HookedMethod
  BY <1>1 DEF TypeOK, NewEntry, HookedMethod
<1>3. /\ Append(hooked, NewEntry(m, s)) \in Seq(HookedMethod)
      /\ Len(hooked) \in Nat
  BY <1>2, AppendProperties, LenProperties DEF TypeOK
<1>0. vpos = 0
  BY DEF HookInstall, Locked
<1>4. vpos = 0 /\ vpos' = 0 /\ Len(hooked') \in Nat /\ hooked' \in Seq(HookedMethod)
  <2>1. vpos = 0 /\ vpos' = 0
    BY <1>0 DEF HookInstall
  <2>2. hooked' = hooked \/ hooked' = Append(hooked, NewEntry(m, s))
    BY DEF HookInstall, HookFresh, HookAlready, HookUnlinked, HookNoTrampoline
  <2>3. hooked' \in Seq(HookedMethod)
    BY <1>3, <2>2 DEF TypeOK
  <2> QED BY <2>1, <2>3, LenProperties
<1>5. patched' \in SUBSET Stub
  <2>1. I2i(m, s) \in Stub
    BY <1>1, RegistryAssumption DEF I2i, TypeOK
  <2> QED BY <2>1 DEF TypeOK, HookInstall, HookFresh, HookAlready, HookUnlinked, HookNoTrampoline
<1>6. /\ call' \in [Caller -> Call]
      /\ \A e \in Caller : call'[e].pc # "idle" => call'[e].method # NoMethod /\ call'[e].who # NoJava
  <2>1. \/ call' = [call EXCEPT ![d] = Idle]
        \/ \E q \in {"deopt", "handle"} : call' = [call EXCEPT ![d] = [call[d] EXCEPT !.pc = q]]
    BY DEF HookInstall, HookFresh, HookAlready, HookUnlinked, HookNoTrampoline, HookSucceeds, HookFails, TypeOK
  <2>2. Idle \in Call /\ Idle.pc = "idle"
    BY DEF Idle, Call
  <2>4. m # NoMethod /\ s # NoJava
    BY <1>1, RegistryAssumption
  <2>5. CASE call' = [call EXCEPT ![d] = Idle]
    BY <2>2, <2>5 DEF TypeOK
  <2>6. ASSUME NEW q \in {"deopt", "handle"}, call' = [call EXCEPT ![d] = [call[d] EXCEPT !.pc = q]]
        PROVE  <1>6
    <3> DEFINE c == [call[d] EXCEPT !.pc = q]
    <3>1. c \in Call /\ c.method # NoMethod /\ c.who # NoJava
      BY <1>1, <2>4 DEF Call
    <3> HIDE DEF c
    <3>2. call' = [call EXCEPT ![d] = c]
      BY <2>6 DEF c
    <3> QED BY <3>1, <3>2 DEF TypeOK
  <2> QED BY <2>1, <2>5, <2>6
<1>7. claimed' \in SUBSET JavaMethod
  BY <1>1 DEF TypeOK, HookInstall, HookFresh, HookAlready, HookUnlinked, HookNoTrampoline,
              HookSucceeds, HookFails
<1>8. dontInline' \in [Method -> BOOLEAN] /\ noCompile' \in [Method -> BOOLEAN]
  <2>1. PICK n : n = m
    OBVIOUS
  <2>2. CASE UNCHANGED <<dontInline, noCompile>>
    BY <2>2 DEF TypeOK
  <2>3. CASE Inhibit(n, TRUE)
    BY <2>3, InhibitType
  <2> QED BY <2>1, <2>2, <2>3 DEF HookInstall, HookFresh, HookAlready, HookUnlinked, HookNoTrampoline
<1>9. EntryTyped'
  BY EntryKept DEF HookInstall
<1>10. DeoptTyped'
  <2>1. PICK n \in Method : n = m
    BY <1>1
  <2>2. UNCHANGED deopt \/ BeginDeopt("locked", n)
    BY <2>1 DEF HookInstall, HookFresh, HookAlready, HookUnlinked, HookNoTrampoline, DeoptIfCompiled
  <2> QED BY <2>2, BeginDeoptType DEF Deopter
<1>11. torn' \in SUBSET Method /\ drifts' \in Nat /\ redefines' \in Nat
  BY DEF TypeOK, HookInstall, historyVars
<1> QED BY <1>4, <1>5, <1>6, <1>7, <1>8, <1>9, <1>10, <1>11 DEF TypeOK, EntryTyped, DeoptTyped, HookInstall

\* One entry of a pass of verify_hooks(): entries are replaced, never added.
LEMMA VerifyEntryType ==
    ASSUME TypeOK, VerifyEntry
    PROVE  TypeOK' /\ Len(hooked') = Len(hooked)
<1>1. vpos \in 1..Len(hooked) /\ Len(hooked) \in Nat /\ DOMAIN hooked = 1..Len(hooked)
  <2>1. vpos # 0
    BY DEF VerifyEntry, VerifySkip, VerifyDrifted, VerifyJit, VerifyClean, Verifying
  <2>2. Len(hooked) \in Nat /\ DOMAIN hooked = 1..Len(hooked)
    BY LenProperties DEF TypeOK
  <2> QED BY <2>1, <2>2 DEF TypeOK
<1>2. hooked[vpos] \in HookedMethod /\ hooked[vpos].method \in Method /\ hooked[vpos].who \in JavaMethod
  BY <1>1, EntryType
<1>3. hooked' \in Seq(HookedMethod) /\ Len(hooked') = Len(hooked)
  <2>1. CASE hooked' = hooked
    BY <2>1 DEF TypeOK
  <2>2. CASE \E e \in HookedMethod : hooked' = [hooked EXCEPT ![vpos] = e]
    BY <1>1, <2>2, ExceptSeq DEF TypeOK
  <2>3. CASE VerifySkip \/ VerifyClean
    BY <2>1, <2>3 DEF VerifySkip, VerifyClean
  <2>4. [hooked[vpos] EXCEPT !.drift_logged = TRUE] \in HookedMethod
    BY <1>2 DEF HookedMethod
  <2>5. CASE VerifyJit
    BY <2>2, <2>4, <2>5 DEF VerifyJit
  <2>6. CASE VerifyDrifted /\ ReinstallFails(vpos)
    BY <2>2, <2>4, <2>6 DEF ReinstallFails
  <2>7. CASE VerifyDrifted /\ Reinstall(vpos)
    <3>1. table[hooked[vpos].who] \in Method
      BY <1>2, <2>7 DEF Reinstall, Resolvable, Loaded, TypeOK
    <3>2. [hooked[vpos] EXCEPT !.method = table[hooked[vpos].who], !.drift_logged = FALSE] \in HookedMethod
      BY <1>2, <3>1 DEF HookedMethod
    <3> QED BY <2>2, <2>7, <3>2 DEF Reinstall
  <2> QED BY <2>3, <2>5, <2>6, <2>7 DEF VerifyEntry, VerifyDrifted
<1>4. VerifyAdvance
  BY DEF VerifyEntry, VerifySkip, VerifyDrifted, VerifyJit, VerifyClean
<1>6. vpos' \in 0..Len(hooked)
  <2>1. vpos' = IF vpos = Len(hooked) THEN 0 ELSE vpos + 1
    BY <1>4 DEF VerifyAdvance
  <2>2. CASE vpos = Len(hooked)
    BY <1>1, <2>1, <2>2
  <2>3. CASE vpos # Len(hooked)
    <3>1. vpos' = vpos + 1
      BY <2>1, <2>3
    <3>2. vpos \in Nat /\ Len(hooked) \in Nat /\ vpos <= Len(hooked)
      BY <1>1
    <3> QED BY <2>3, <3>1, <3>2
  <2> QED BY <2>2, <2>3
<1>5. dontInline' \in [Method -> BOOLEAN] /\ noCompile' \in [Method -> BOOLEAN] /\ DeoptTyped'
  <2>1. CASE UNCHANGED <<dontInline, noCompile, deopt>>
    BY <2>1 DEF TypeOK, DeoptTyped
  <2>2. ASSUME NEW m \in Method, Inhibit(m, TRUE), DeoptIfCompiled(m)
        PROVE  <1>5
    <3>1. UNCHANGED deopt \/ BeginDeopt("locked", m)
      BY <2>2 DEF DeoptIfCompiled
    <3> QED BY <2>2, <3>1, InhibitType, BeginDeoptType DEF Deopter
  <2>3. CASE VerifySkip \/ VerifyClean
    BY <2>1, <2>3 DEF VerifySkip, VerifyClean
  <2>4. CASE VerifyJit
    BY <1>2, <2>2, <2>4 DEF VerifyJit
  <2>5. CASE VerifyDrifted
    <3>1. Reinstall(vpos) => table[hooked[vpos].who] \in Method
      BY <1>2 DEF Reinstall, Resolvable, Loaded, TypeOK
    <3> QED BY <2>1, <2>2, <2>5, <3>1 DEF VerifyDrifted, Reinstall, ReinstallFails
  <2> QED BY <2>3, <2>4, <2>5 DEF VerifyEntry
<1>7. EntryTyped'
  BY <1>4, EntryKept DEF VerifyAdvance
<1>8. torn' \in SUBSET Method /\ drifts' \in Nat /\ redefines' \in Nat
  BY <1>4 DEF TypeOK, VerifyAdvance, historyVars
<1> QED BY <1>3, <1>4, <1>5, <1>6, <1>7, <1>8 DEF TypeOK, EntryTyped, DeoptTyped, VerifyAdvance

\* hook_handle::stop() removes at most one entry.
LEMMA StopType ==
    ASSUME TypeOK, NEW h \in Handle, Stop(h)
    PROVE  TypeOK'
<1> DEFINE m == handles[h].method
<1>1. m \in Method
  BY DEF TypeOK, Stop
<1>2. hooked' \in Seq(HookedMethod)
  <2>1. CASE InList(m)
    BY <2>1, FirstOfFinds, RemoveAtProperties DEF TypeOK, Stop
  <2>2. CASE ~InList(m)
    BY <2>2 DEF TypeOK, Stop
  <2> QED BY <2>1, <2>2
<1>3. vpos' \in 0..Len(hooked')
  BY <1>2, LenProperties DEF Stop, Locked
<1>4. handles' \in [Handle -> [method : Method \cup {NoMethod}, who : JavaMethod \cup {NoJava}]]
  BY DEF TypeOK, Stop, EmptyHandle
<1>5. dontInline' \in [Method -> BOOLEAN] /\ noCompile' \in [Method -> BOOLEAN]
  BY DEF TypeOK, Stop, Inhibit
<1>6. claimed' \in SUBSET JavaMethod
  BY DEF TypeOK, Stop
<1> QED BY <1>2, <1>3, <1>4, <1>5, <1>6 DEF TypeOK, Stop, historyVars

LEMMA NextTypeOK == TypeOK /\ [Next]_vars => TypeOK'
<1> SUFFICES ASSUME TypeOK, [Next]_vars PROVE TypeOK'
  OBVIOUS
<1> USE RegistryAssumption
<1>1. ASSUME NEW d \in Caller, NEW s \in JavaMethod, NEW h \in Handle \cup {NoHandle}, HookResolve(d, s, h)
      PROVE  TypeOK'
  <2>1. [pc |-> "lock", who |-> s, method |-> table[s], handle |-> h] \in Call
    BY <1>1 DEF TypeOK, Call
  <2>2. /\ call' \in [Caller -> Call]
        /\ \A e \in Caller : call'[e].pc # "idle" => call'[e].method # NoMethod /\ call'[e].who # NoJava
    BY <1>1, <2>1 DEF TypeOK, HookResolve, Loaded
  <2> QED BY <1>1, <2>2 DEF TypeOK, HookResolve, jvmVars, historyVars
<1>2. ASSUME NEW d \in Caller, HookInstall(d)
      PROVE  TypeOK'
  BY <1>2, HookInstallType
<1>3. ASSUME NEW d \in Caller, ScopedHookReturn(d)
      PROVE  TypeOK'
  <2>1. /\ call' \in [Caller -> Call]
        /\ \A e \in Caller : call'[e].pc # "idle" => call'[e].method # NoMethod /\ call'[e].who # NoJava
    BY <1>3 DEF TypeOK, ScopedHookReturn, Call, Idle
  <2>2. handles' \in [Handle -> [method : Method \cup {NoMethod}, who : JavaMethod \cup {NoJava}]]
    <3> DEFINE s == call[d].who
    <3>1. s \in JavaMethod
      BY <1>3 DEF TypeOK, Call, ScopedHookReturn
    <3>2. EmptyHandle \in [method : Method \cup {NoMethod}, who : JavaMethod \cup {NoJava}]
      BY DEF EmptyHandle
    <3>3. [method |-> table[s], who |-> s] \in [method : Method \cup {NoMethod}, who : JavaMethod \cup {NoJava}]
      BY <3>1 DEF TypeOK
    <3> QED BY <1>3, <3>1, <3>2, <3>3 DEF TypeOK, ScopedHookReturn
  <2> QED BY <1>3, <2>1, <2>2 DEF TypeOK, ScopedHookReturn, jvmVars, historyVars
<1>11. ASSUME NEW d \in Caller, HookReturn(d)
       PROVE  TypeOK'
  <2>1. call[d] \in Call /\ call[d].who \in JavaMethod
    BY <1>11 DEF TypeOK, HookReturn, Call
  <2>2. /\ call' \in [Caller -> Call]
        /\ \A e \in Caller : call'[e].pc # "idle" => call'[e].method # NoMethod /\ call'[e].who # NoJava
    <3> DEFINE c == IF call[d].handle = NoHandle THEN Idle ELSE [call[d] EXCEPT !.pc = "handle"]
    <3>1. c \in Call /\ (c.pc # "idle" => c.method # NoMethod /\ c.who # NoJava)
      BY <1>11, <2>1 DEF TypeOK, HookReturn, Call, Idle
    <3>2. call' = [call EXCEPT ![d] = c]
      BY <1>11 DEF HookReturn, HookSucceeds
    <3> HIDE DEF c
    <3> QED BY <3>1, <3>2 DEF TypeOK
  <2>3. claimed' \in SUBSET JavaMethod
    BY <1>11, <2>1 DEF TypeOK, HookReturn, HookSucceeds
  <2> QED BY <1>11, <2>2, <2>3 DEF TypeOK, HookReturn, jvmVars, historyVars
<1>4. ASSUME NEW h \in Handle, Stop(h)
      PROVE  TypeOK'
  BY <1>4, StopType
<1>5. CASE Shutdown
  <2>1. hooked' \in Seq(HookedMethod) /\ vpos' \in 0..Len(hooked')
    BY <1>5, EmptySeq DEF Shutdown, Locked
  <2> QED BY <1>5, <2>1 DEF TypeOK, Shutdown, Restored, historyVars
<1>6. CASE VerifyBegin
  <2>1. vpos' \in 0..Len(hooked)
    BY <1>6, EmptySeq DEF TypeOK, VerifyBegin
  <2> QED BY <1>6, <2>1 DEF TypeOK, VerifyBegin, jvmVars, historyVars
<1>7. CASE VerifyEntry
  BY <1>7, VerifyEntryType
<1>8. ASSUME NEW m \in Method, DeoptimizeMethod(m)
      PROVE  TypeOK'
  <2>1. DeoptTyped'
    BY <1>8, BeginDeoptType DEF DeoptimizeMethod, Deopter
  <2> QED BY <1>8, <2>1 DEF TypeOK, DeoptTyped, DeoptimizeMethod, jvmVars, registryVars, historyVars
<1>12. ASSUME NEW o \in Deopter, DeoptStore(o)
       PROVE  TypeOK'
  BY <1>12, StoreType DEF DeoptStore
<1>9. CASE Jvm
  <2>1. ASSUME NEW m \in Method, JitCompile(m)
        PROVE  TypeOK'
    BY <2>1 DEF TypeOK, JitCompile, registryVars, entryVars
  <2>2. ASSUME NEW m \in Method, ClearNoCompile(m) PROVE TypeOK'
    BY <2>2 DEF TypeOK, ClearNoCompile, registryVars, entryVars
  <2>5. ASSUME NEW m \in Method, LinkClass(m) PROVE TypeOK'
    BY <2>5 DEF TypeOK, LinkClass, registryVars, entryVars, historyVars
  <2>6. ASSUME NEW m \in Method, FreeMethod(m) PROVE TypeOK'
    BY <2>6 DEF TypeOK, FreeMethod, registryVars, entryVars, historyVars
  <2>3. ASSUME NEW s \in JavaMethod, UnloadClass(s)
        PROVE  TypeOK'
    BY <2>3 DEF TypeOK, UnloadClass, registryVars, entryVars
  <2>4. ASSUME NEW s \in JavaMethod, NEW m \in Method, Redefine(s, m)
        PROVE  TypeOK'
    BY <2>4 DEF TypeOK, Redefine, registryVars, entryVars
  <2> QED BY <1>9, <2>1, <2>2, <2>3, <2>4, <2>5, <2>6 DEF Jvm
<1>10. CASE UNCHANGED vars
  BY <1>10 DEF TypeOK, vars
<1> QED BY <1>1, <1>2, <1>3, <1>4, <1>5, <1>6, <1>7, <1>8, <1>9, <1>10, <1>11, <1>12 DEF Next, Registry

\* Type correctness: hook, scoped_hook, stop, shutdown_hooks and verify_hooks
\* keep the registry a list of entries with a non-null Method*, calls under the
\* mutex have a resolved Method*, and a verify pass stays inside the list.
THEOREM TypeCorrect == Spec => []TypeOK
BY InitTypeOK, NextTypeOK, PTL DEF Spec

-----------------------------------------------------------------------------
(* Deoptimisation.                                                         *)

\* What an operation of the registry does to the entry points at most: nothing yet, and a
\* deoptimisation begins.
OnlyBegins ==
    /\ UNCHANGED <<entryVars, torn>>
    /\ UNCHANGED deopt \/ \E o \in Deopter, m \in Method : BeginDeopt(o, m)

\* Install, repair, re-install and the bulk walk touch _code and the entry points only by
\* beginning a deoptimisation and by its stores.
LEMMA RegistryDeopts ==
    ASSUME TypeOK, Registry
    PROVE  OnlyBegins \/ \E o \in Deopter : DeoptStore(o)
<1>1. ASSUME NEW d \in Caller, HookInstall(d) PROVE OnlyBegins
  <2>1. call[d].method \in Method
    BY <1>1 DEF TypeOK, HookInstall, Call
  <2>2. UNCHANGED deopt \/ BeginDeopt("locked", call[d].method)
    BY <1>1 DEF HookInstall, HookFresh, HookAlready, HookUnlinked, HookNoTrampoline, DeoptIfCompiled
  <2> QED BY <1>1, <2>1, <2>2 DEF OnlyBegins, HookInstall, historyVars, Deopter
<1>2. ASSUME VerifyEntry PROVE OnlyBegins
  <2>1. vpos \in DOMAIN hooked
    <3>1. vpos # 0
      BY <1>2 DEF VerifyEntry, VerifySkip, VerifyDrifted, VerifyJit, VerifyClean, Verifying
    <3> QED BY <3>1, LenProperties DEF TypeOK
  <2>2. hooked[vpos].method \in Method /\ hooked[vpos].who \in JavaMethod
    BY <2>1, EntryType
  <2>3. UNCHANGED <<entryVars, torn>>
    BY <1>2 DEF VerifyEntry, VerifySkip, VerifyDrifted, VerifyJit, VerifyClean, VerifyAdvance, historyVars
  <2>4. Reinstall(vpos) => table[hooked[vpos].who] \in Method
    BY <2>2 DEF Reinstall, Resolvable, Loaded, TypeOK
  <2>5. UNCHANGED deopt \/ \E m \in Method : BeginDeopt("locked", m)
    BY <1>2, <2>2, <2>4 DEF VerifyEntry, VerifySkip, VerifyDrifted, VerifyJit, VerifyClean,
       Reinstall, ReinstallFails, DeoptIfCompiled
  <2> QED BY <2>3, <2>5 DEF OnlyBegins, Deopter
<1>3. ASSUME NEW m \in Method, DeoptimizeMethod(m) PROVE OnlyBegins
  BY <1>3 DEF DeoptimizeMethod, OnlyBegins, jvmVars, entryVars, historyVars, Deopter
<1>4. ASSUME NEW d \in Caller, ScopedHookReturn(d) \/ HookReturn(d)
                \/ \E s \in JavaMethod, h \in Handle \cup {NoHandle} : HookResolve(d, s, h)
      PROVE  OnlyBegins
  BY <1>4 DEF ScopedHookReturn, HookReturn, HookResolve, OnlyBegins, jvmVars, entryVars, historyVars
<1>5. ASSUME (\E h \in Handle : Stop(h)) \/ Shutdown \/ VerifyBegin
      PROVE  OnlyBegins
  BY <1>5 DEF Stop, Shutdown, VerifyBegin, OnlyBegins, jvmVars, entryVars, historyVars
<1> QED BY <1>1, <1>2, <1>3, <1>4, <1>5 DEF Registry

\* All steps that touch _code and the entry points.
LEMMA EntryPointSteps ==
    ASSUME TypeOK, [Next]_vars
    PROVE  \/ OnlyBegins
           \/ \E o \in Deopter : DeoptStore(o)
           \/ \E m \in Method : JitCompile(m)
           \/ \E s \in JavaMethod, m \in Method : Redefine(s, m)
<1>1. ASSUME (\E m \in Method : ClearNoCompile(m) \/ LinkClass(m) \/ FreeMethod(m))
                \/ (\E s \in JavaMethod : UnloadClass(s))
      PROVE  OnlyBegins
  BY <1>1 DEF ClearNoCompile, LinkClass, FreeMethod, UnloadClass, OnlyBegins, entryVars, historyVars
<1>2. UNCHANGED vars => OnlyBegins
  BY DEF vars, OnlyBegins, entryVars
<1> QED BY <1>1, <1>2, RegistryDeopts DEF Next, Jvm

\* What a deoptimisation that is under way has stored already, unless the JIT came in between,
\* and that _code is stored last.
DeoptOrdered ==
    \A o \in Deopter : Deoptimising(o) =>
        /\ "code" \in deopt[o].left
        /\ deopt[o].method \notin torn =>
              /\ "fromI" \notin deopt[o].left => fromI[deopt[o].method] = "i2i"
              /\ deopt[o].method \in AdapterKnown /\ "fromC" \notin deopt[o].left =>
                    fromC[deopt[o].method] = "c2i"

\* A store leaves every Method whole whose deoptimisation is not over.
LEMMA StoreKeeps ==
    ASSUME TypeOK, NoHalfDeopt, DeoptOrdered, NEW o \in Deopter, DeoptStore(o)
    PROVE  (NoHalfDeopt /\ DeoptOrdered)'
<1>1. PICK f \in deopt[o].left : (f = "code" => deopt[o].left = {"code"}) /\ Store(o, f)
  BY DEF DeoptStore
<1> DEFINE m == deopt[o].method
<1>2. m \in Method /\ f \in Field /\ Deoptimising(o) /\ torn' = torn
  BY <1>1 DEF TypeOK, Deoptimising, Store, historyVars
<1>3. /\ fromI' = IF f = "fromI" THEN [fromI EXCEPT ![m] = "i2i"] ELSE fromI
      /\ fromC' = IF f = "fromC" THEN [fromC EXCEPT ![m] = "c2i"] ELSE fromC
      /\ code' = IF f = "code" THEN [code EXCEPT ![m] = FALSE] ELSE code
  BY <1>1 DEF Store
<1>4. \A n \in Method : /\ fromI[n] = "i2i" => fromI'[n] = "i2i"
                        /\ fromC[n] = "c2i" => fromC'[n] = "c2i"
  BY <1>2, <1>3 DEF TypeOK
<1>5. (f = "fromI" => fromI'[m] = "i2i") /\ (f = "fromC" => fromC'[m] = "c2i")
  BY <1>2, <1>3 DEF TypeOK
<1>6. NoHalfDeopt'
  <2> SUFFICES ASSUME NEW n \in Method, n \notin torn, ~code'[n]
               PROVE  fromI'[n] = "i2i" /\ (n \in AdapterKnown => fromC'[n] = "c2i")
    BY <1>2 DEF NoHalfDeopt
  <2>1. CASE f = "code" /\ n = m
    <3>1. "fromI" \notin deopt[o].left /\ "fromC" \notin deopt[o].left
      BY <1>1, <2>1
    <3>2. fromI[m] = "i2i" /\ (m \in AdapterKnown => fromC[m] = "c2i")
      BY <1>2, <2>1, <3>1 DEF DeoptOrdered
    <3> QED BY <1>2, <1>4, <2>1, <3>2
  <2>2. CASE ~(f = "code" /\ n = m)
    <3>1. ~code[n]
      BY <1>2, <1>3, <2>2 DEF TypeOK
    <3> QED BY <1>4, <3>1 DEF NoHalfDeopt
  <2> QED BY <2>1, <2>2
<1>7. DeoptOrdered'
  <2> DEFINE rest == deopt[o].left \ {f}
  <2>1. \A p \in Deopter : p # o => deopt'[p] = deopt[p]
    BY <1>1 DEF TypeOK, Store
  <2>2. \/ deopt'[o].left = {}
        \/ deopt'[o].method = m /\ deopt'[o].left = rest
    BY <1>1 DEF TypeOK, Store, NoDeopt
  <2>3. ASSUME NEW p \in Deopter, p # o, deopt'[p].left # {}
        PROVE  /\ "code" \in deopt'[p].left
               /\ deopt'[p].method \notin torn =>
                     /\ "fromI" \notin deopt'[p].left => fromI'[deopt'[p].method] = "i2i"
                     /\ deopt'[p].method \in AdapterKnown /\ "fromC" \notin deopt'[p].left =>
                           fromC'[deopt'[p].method] = "c2i"
    <3>1. deopt'[p] = deopt[p] /\ Deoptimising(p) /\ deopt[p].method \in Method
      BY <2>1, <2>3 DEF TypeOK, Deoptimising
    <3> QED BY <1>4, <3>1 DEF DeoptOrdered
  <2>4. ASSUME deopt'[o].left # {}
        PROVE  /\ "code" \in deopt'[o].left
               /\ deopt'[o].method \notin torn =>
                     /\ "fromI" \notin deopt'[o].left => fromI'[deopt'[o].method] = "i2i"
                     /\ deopt'[o].method \in AdapterKnown /\ "fromC" \notin deopt'[o].left =>
                           fromC'[deopt'[o].method] = "c2i"
    <3>1. deopt'[o].method = m /\ deopt'[o].left = rest /\ rest # {}
      BY <2>2, <2>4
    <3>2. f # "code"
      BY <1>1, <3>1
    <3>3. "code" \in deopt[o].left
          /\ (m \notin torn =>
                /\ "fromI" \notin deopt[o].left => fromI[m] = "i2i"
                /\ m \in AdapterKnown /\ "fromC" \notin deopt[o].left => fromC[m] = "c2i")
      BY <1>2 DEF DeoptOrdered
    <3>4. "code" \in rest
      BY <3>2, <3>3
    <3>5. m \notin torn =>
             /\ "fromI" \notin rest => fromI'[m] = "i2i"
             /\ m \in AdapterKnown /\ "fromC" \notin rest => fromC'[m] = "c2i"
      BY <1>2, <1>4, <1>5, <3>3
    <3> QED BY <3>1, <3>4, <3>5
  <2>5. torn' = torn
    BY <1>2
  <2> QED BY <2>3, <2>4, <2>5 DEF DeoptOrdered, Deoptimising
<1> QED BY <1>6, <1>7

LEMMA NextNoHalfDeopt ==
    ASSUME TypeOK, NoHalfDeopt, DeoptOrdered, [Next]_vars
    PROVE  (NoHalfDeopt /\ DeoptOrdered)'
<1>1. CASE OnlyBegins
  <2>1. code' = code /\ fromI' = fromI /\ fromC' = fromC /\ torn' = torn
    BY <1>1 DEF OnlyBegins, entryVars
  <2>2. NoHalfDeopt'
    BY <2>1 DEF NoHalfDeopt
  <2>3. CASE UNCHANGED deopt
    BY <2>1, <2>2, <2>3 DEF DeoptOrdered, Deoptimising
  <2>4. ASSUME NEW o \in Deopter, NEW m \in Method, BeginDeopt(o, m)
        PROVE  DeoptOrdered'
    <3>1. \A p \in Deopter : p # o => deopt'[p] = deopt[p]
      BY <2>4 DEF TypeOK, BeginDeopt
    <3>2. deopt'[o].method = m /\ deopt'[o].left = IF m \in AdapterKnown THEN Field ELSE Field \ {"fromC"}
      BY <2>4 DEF TypeOK, BeginDeopt
    <3>3. "code" \in deopt'[o].left /\ "fromI" \in deopt'[o].left
          /\ (m \in AdapterKnown => "fromC" \in deopt'[o].left)
      BY <3>2 DEF Field
    <3> QED BY <2>1, <3>1, <3>2, <3>3 DEF DeoptOrdered, Deoptimising
  <2> QED BY <1>1, <2>2, <2>3, <2>4 DEF OnlyBegins
<1>2. CASE \E o \in Deopter : DeoptStore(o)
  BY <1>2, StoreKeeps
<1>3. ASSUME NEW m \in Method, JitCompile(m) PROVE (NoHalfDeopt /\ DeoptOrdered)'
  <2>1. /\ code' = [code EXCEPT ![m] = TRUE] /\ fromI' = [fromI EXCEPT ![m] = "i2c"]
        /\ fromC' = [fromC EXCEPT ![m] = "nmethod"] /\ deopt' = deopt
        /\ torn' = IF UnderDeopt(m) THEN torn \cup {m} ELSE torn \ {m}
    BY <1>3 DEF JitCompile
  <2>2. NoHalfDeopt'
    BY <2>1 DEF TypeOK, NoHalfDeopt
  <2>3. ASSUME NEW o \in Deopter, Deoptimising(o), deopt[o].method \notin torn'
        PROVE  deopt[o].method \in Method /\ deopt[o].method # m /\ deopt[o].method \notin torn
    BY <2>1, <2>3 DEF UnderDeopt, TypeOK, Deoptimising
  <2>4. \A n \in Method : n # m => fromI'[n] = fromI[n] /\ fromC'[n] = fromC[n]
    BY <2>1 DEF TypeOK
  <2>5. DeoptOrdered'
    BY <2>1, <2>3, <2>4 DEF DeoptOrdered, Deoptimising
  <2> QED BY <2>2, <2>5
<1>4. ASSUME NEW s \in JavaMethod, NEW m \in Method, Redefine(s, m) PROVE (NoHalfDeopt /\ DeoptOrdered)'
  <2>1. /\ code' = [code EXCEPT ![m] = FALSE] /\ fromI' = [fromI EXCEPT ![m] = "i2i"]
        /\ fromC' = [fromC EXCEPT ![m] = "c2i"] /\ deopt' = deopt /\ torn' = torn \ {m}
    BY <1>4 DEF Redefine
  <2>2. NoHalfDeopt'
    BY <2>1 DEF TypeOK, NoHalfDeopt
  <2>3. fromI'[m] = "i2i" /\ fromC'[m] = "c2i"
        /\ \A n \in Method : n # m => fromI'[n] = fromI[n] /\ fromC'[n] = fromC[n]
    BY <2>1 DEF TypeOK
  <2>4. \A o \in Deopter : Deoptimising(o) => deopt[o].method \in Method
    BY DEF TypeOK, Deoptimising
  <2>5. DeoptOrdered'
    BY <2>1, <2>3, <2>4 DEF DeoptOrdered, Deoptimising
  <2> QED BY <2>2, <2>5
<1> QED BY <1>1, <1>2, <1>3, <1>4, EntryPointSteps

\* For all constants, whichever c2i adapters can be recovered: at no store of an install, of a
\* repair, of a re-install and of the bulk walk, in any interleaving with each other, with
\* the JIT and with class redefinition, is a Method without _code and still entered through a
\* compiled entry point that the deoptimisation was to replace, unless the JIT stored into it
\* in the middle of one.
THEOREM DeoptConsistent == Spec => []NoHalfDeopt
<1>1. Init => NoHalfDeopt /\ DeoptOrdered
  BY DEF Init, NoHalfDeopt, DeoptOrdered, Deoptimising, NoDeopt, Deopter
<1>2. TypeOK /\ NoHalfDeopt /\ DeoptOrdered /\ [Next]_vars => (NoHalfDeopt /\ DeoptOrdered)'
  BY NextNoHalfDeopt
<1> QED BY <1>1, <1>2, TypeCorrect, PTL DEF Spec

-----------------------------------------------------------------------------
(* A JVM that redefines no class.                                          *)

\* The method arrays and the Method slots describe each other.
TableSound ==
    /\ \A s, t \in JavaMethod : table[s] = table[t] /\ table[s] # NoMethod => s = t
    /\ \A m \in Method : occupant[m] # NoJava => table[occupant[m]] = m
    /\ \A s \in JavaMethod : Loaded(s) => occupant[table[s]] = s

\* Entries, calls and handles hold the Method* their Java method has now.
EntriesAnchored == \A i \in DOMAIN hooked : table[hooked[i].who] = hooked[i].method
CallsAnchored ==
    \A d \in Caller : call[d].pc \in {"lock", "deopt"} => table[call[d].who] = call[d].method
HandlesAnchored ==
    \A h \in Handle : handles[h].method # NoMethod =>
        handles[h].who \in JavaMethod /\ table[handles[h].who] = handles[h].method

\* The Method of a hook<T>() that deoptimises it is in the list already.
CallsListed == \A d \in Caller : call[d].pc = "deopt" => InList(call[d].method)

\* A successful hook() left an entry that is still there.
ClaimsListed == \A s \in claimed : Loaded(s) /\ InList(table[s])

\* The stub of every entry has a trampoline, also after stop() removed another hook
\* that shares the stub.
EntriesTrampolined == \A i \in DOMAIN hooked : StubOf[hooked[i].who] \in patched

StableInv ==
    /\ TypeOK
    /\ TableSound
    /\ EntriesAnchored
    /\ CallsAnchored
    /\ HandlesAnchored
    /\ OneEntryPerMethod
    /\ EntriesTrampolined
    /\ CallsListed
    /\ NoHalfDeopt
    /\ DeoptOrdered
    /\ ClaimsListed

LEMMA InitStable == Init => StableInv
<1> SUFFICES ASSUME Init PROVE StableInv
  OBVIOUS
<1>1. TypeOK
  BY InitTypeOK
<1>2. DOMAIN hooked = {}
  BY DEF Init
<1>3. TableSound
  <2>1. \A s, t \in JavaMethod : table[s] = table[t] /\ table[s] # NoMethod => s = t
    BY RegistryAssumption DEF Init
  <2>2. ASSUME NEW m \in Method, Live(m)
        PROVE  occupant[m] \in JavaMethod /\ table[occupant[m]] = m
    BY <2>2 DEF Init, Live
  <2>3. ASSUME NEW m \in Method, ~Live(m)
        PROVE  occupant[m] = NoJava
    BY <2>3 DEF Init
  <2>4. ASSUME NEW s \in JavaMethod, Loaded(s)
        PROVE  occupant[table[s]] = s
    <3>1. table[s] \in Method /\ Live(table[s])
      BY <1>1, <2>4 DEF TypeOK, Loaded, Live
    <3>2. occupant[table[s]] \in JavaMethod /\ table[occupant[table[s]]] = table[s]
      BY <2>2, <3>1
    <3> QED BY <2>1, <2>4, <3>2 DEF Loaded
  <2> QED BY <2>1, <2>2, <2>3, <2>4 DEF TableSound
<1>4. CallsAnchored /\ CallsListed /\ HandlesAnchored
  BY DEF Init, CallsAnchored, CallsListed, HandlesAnchored, Idle, EmptyHandle
<1>5. NoHalfDeopt /\ DeoptOrdered
  BY DEF Init, NoHalfDeopt, DeoptOrdered, Deoptimising, NoDeopt, Deopter
<1> QED BY <1>1, <1>2, <1>3, <1>4, <1>5 DEF StableInv, EntriesAnchored, OneEntryPerMethod,
            EntriesTrampolined, ClaimsListed, Init

\* Without redefinition no step moves a Method.
LEMMA TableFixed ==
    ASSUME MaxRedefine = 0, StableInv, [Next]_vars
    PROVE  table' = table /\ occupant' = occupant
<1>1. ASSUME NEW m \in Method
      PROVE  ~FreeMethod(m)
  <2>1. occupant[m] # NoJava => Live(m)
    BY DEF StableInv, TypeOK, TableSound, Live
  <2> QED BY <2>1 DEF FreeMethod
<1>2. ASSUME NEW s \in JavaMethod
      PROVE  ~UnloadClass(s) /\ \A m \in Method : ~Redefine(s, m)
  BY DEF StableInv, TypeOK, UnloadClass, Redefine
<1>3. ASSUME NEW m \in Method, JitCompile(m) \/ ClearNoCompile(m) \/ LinkClass(m) \/ DeoptimizeMethod(m)
      PROVE  table' = table /\ occupant' = occupant
  BY <1>3 DEF JitCompile, ClearNoCompile, LinkClass, DeoptimizeMethod, jvmVars
<1>8. ASSUME NEW o \in Deopter, DeoptStore(o)
      PROVE  table' = table /\ occupant' = occupant
  BY <1>8 DEF DeoptStore, Store
<1>4. ASSUME NEW d \in Caller, HookInstall(d) \/ HookReturn(d) \/ ScopedHookReturn(d)
                \/ \E s \in JavaMethod, h \in Handle \cup {NoHandle} : HookResolve(d, s, h)
      PROVE  table' = table /\ occupant' = occupant
  BY <1>4 DEF HookInstall, HookReturn, ScopedHookReturn, HookResolve, jvmVars
<1>5. ASSUME (\E h \in Handle : Stop(h)) \/ Shutdown \/ VerifyBegin
      PROVE  table' = table /\ occupant' = occupant
  BY <1>5 DEF Stop, Shutdown, VerifyBegin, jvmVars
<1>6. VerifyEntry => table' = table /\ occupant' = occupant
  BY DEF VerifyEntry, VerifySkip, VerifyDrifted, VerifyJit, VerifyClean, VerifyAdvance
<1>7. UNCHANGED vars => table' = table /\ occupant' = occupant
  BY DEF vars
<1> QED BY <1>1, <1>2, <1>3, <1>4, <1>5, <1>6, <1>7, <1>8 DEF Next, Registry, Jvm

\* The parts of StableInv about the list of entries.
EntryInv == EntriesAnchored /\ OneEntryPerMethod /\ EntriesTrampolined /\ ClaimsListed

\* The list keeps its entries, up to drift_logged.
SameEntries ==
    /\ DOMAIN hooked' = DOMAIN hooked
    /\ \A i \in DOMAIN hooked : hooked'[i].method = hooked[i].method /\ hooked'[i].who = hooked[i].who

LEMMA SameEntriesKeep ==
    ASSUME StableInv, table' = table, SameEntries, patched' = patched, claimed' = claimed
    PROVE  EntryInv'
BY DEF StableInv, SameEntries, EntryInv, EntriesAnchored, OneEntryPerMethod, EntriesTrampolined,
       ClaimsListed, InList, Loaded

\* hook<T>() of a Method* that is not in the list.
LEMMA HookFreshKeeps ==
    ASSUME StableInv, NEW d \in Caller, call[d].pc = "lock", HookFresh(d),
           table' = table, occupant' = occupant
    PROVE  EntryInv' /\ \A n \in Method : n = call[d].method \/ InList(n) => InList(n)'
<1> DEFINE m == call[d].method
           s == call[d].who
<1>1. m \in Method /\ s \in JavaMethod /\ table[s] = m
  BY DEF StableInv, TypeOK, Call, CallsAnchored
<1>2. Loaded(s) /\ occupant[m] = s
  BY <1>1, RegistryAssumption DEF StableInv, TableSound, Loaded
<1>3. I2i(m, s) = StubOf[s]
  BY <1>1, <1>2, RegistryAssumption DEF I2i
<1> DEFINE e == NewEntry(m, s)
<1>4. e \in HookedMethod /\ e.method = m /\ e.who = s
  BY <1>1, <1>2 DEF NewEntry, HookedMethod
<1>5. hooked \in Seq(HookedMethod) /\ Len(hooked) \in Nat /\ DOMAIN hooked = 1..Len(hooked)
  BY LenProperties DEF StableInv, TypeOK
<1> HIDE DEF e
<1>6. /\ DOMAIN hooked' = 1..(Len(hooked) + 1)
      /\ \A i \in 1..Len(hooked) : hooked'[i] = hooked[i]
      /\ hooked'[Len(hooked) + 1] = e
  <2>1. hooked' = Append(hooked, e)
    BY DEF HookFresh, e
  <2>2. Append(hooked, e) \in Seq(HookedMethod)
    BY <1>4, <1>5, AppendProperties
  <2> QED BY <1>4, <1>5, <2>1, <2>2, AppendProperties, LenProperties
<1>7. \A i \in DOMAIN hooked' :
         \/ i \in DOMAIN hooked /\ hooked'[i] = hooked[i]
         \/ i = Len(hooked) + 1 /\ hooked'[i] = e
  <2> SUFFICES ASSUME NEW i \in DOMAIN hooked'
               PROVE  \/ i \in DOMAIN hooked /\ hooked'[i] = hooked[i]
                      \/ i = Len(hooked) + 1 /\ hooked'[i] = e
    OBVIOUS
  <2>1. i \in 1..(Len(hooked) + 1)
    BY <1>6
  <2>2. i \in 1..Len(hooked) \/ i = Len(hooked) + 1
    BY <1>5, <2>1
  <2> QED BY <1>5, <1>6, <2>2
<1>8. ~InList(m) /\ patched' = patched \cup {StubOf[s]} /\ claimed' = claimed
  BY <1>3 DEF HookFresh
<1>9. EntriesAnchored'
  BY <1>1, <1>4, <1>7 DEF StableInv, EntriesAnchored
<1>10. OneEntryPerMethod'
  BY <1>4, <1>7, <1>8 DEF StableInv, OneEntryPerMethod, InList
<1>11. EntriesTrampolined'
  BY <1>4, <1>7, <1>8 DEF StableInv, EntriesTrampolined
<1>12. ClaimsListed'
  <2>1. ASSUME NEW t \in claimed
        PROVE  table[t] # NoMethod /\ \E i \in DOMAIN hooked' : hooked'[i].method = table[t]
    <3>1. PICK i \in DOMAIN hooked : hooked[i].method = table[t]
      BY DEF StableInv, ClaimsListed, InList
    <3>2. i \in 1..Len(hooked) /\ i \in DOMAIN hooked'
      BY <1>5, <1>6
    <3> QED BY <1>6, <3>1, <3>2 DEF StableInv, ClaimsListed, Loaded
  <2> QED BY <1>8, <2>1 DEF ClaimsListed, Loaded, InList
<1>13. \A n \in Method : n = m \/ InList(n) => InList(n)'
  <2>1. Len(hooked) + 1 \in DOMAIN hooked' /\ hooked'[Len(hooked) + 1].method = m
    BY <1>4, <1>5, <1>6
  <2>2. \A i \in DOMAIN hooked : i \in DOMAIN hooked' /\ hooked'[i] = hooked[i]
    BY <1>5, <1>6
  <2> QED BY <2>1, <2>2 DEF InList
<1> QED BY <1>9, <1>10, <1>11, <1>12, <1>13 DEF EntryInv

\* What erasing the entry of m leaves: the other entries, in their order.
LEMMA StopErases ==
    ASSUME StableInv, NEW h \in Handle, Stop(h), InList(handles[h].method)
    PROVE  LET m == handles[h].method IN
           \E k \in DOMAIN hooked :
              /\ hooked[k].method = m
              /\ \A j \in DOMAIN hooked' : \E i \in DOMAIN hooked :
                    i = (IF j < k THEN j ELSE j + 1) /\ i # k /\ hooked'[j] = hooked[i]
              /\ \A i \in DOMAIN hooked : i # k => \E j \in DOMAIN hooked' : hooked'[j] = hooked[i]
              /\ DOMAIN hooked' \subseteq Nat /\ DOMAIN hooked \subseteq Nat
<1> DEFINE m == handles[h].method
           k == FirstOf(m)
<1>1. hooked \in Seq(HookedMethod) /\ Len(hooked) \in Nat /\ DOMAIN hooked = 1..Len(hooked)
  BY LenProperties DEF StableInv, TypeOK
<1>2. k \in 1..Len(hooked) /\ hooked[k].method = m
  BY FirstOfFinds DEF StableInv
<1>3. /\ hooked' \in Seq(HookedMethod) /\ Len(hooked') = Len(hooked) - 1
      /\ \A j \in 1..(Len(hooked) - 1) : hooked'[j] = IF j < k THEN hooked[j] ELSE hooked[j + 1]
  BY <1>1, <1>2, RemoveAtProperties DEF Stop
<1>4. DOMAIN hooked' = 1..(Len(hooked) - 1)
  BY <1>3, LenProperties
<1> HIDE DEF k
<1>5. ASSUME NEW j \in DOMAIN hooked'
      PROVE  \E i \in DOMAIN hooked : i = (IF j < k THEN j ELSE j + 1) /\ i # k /\ hooked'[j] = hooked[i]
  <2>1. j \in 1..(Len(hooked) - 1) /\ j \in Nat /\ k \in Nat
    BY <1>1, <1>2, <1>4
  <2>2. CASE j < k
    BY <1>1, <1>2, <1>3, <2>1, <2>2
  <2>3. CASE ~(j < k)
    <3>1. j + 1 \in DOMAIN hooked /\ j + 1 # k
      BY <1>1, <1>2, <2>1, <2>3
    <3> QED BY <1>3, <2>1, <2>3, <3>1
  <2> QED BY <2>2, <2>3
<1>6. ASSUME NEW i \in DOMAIN hooked, i # k
      PROVE  \E j \in DOMAIN hooked' : hooked'[j] = hooked[i]
  <2>1. i \in 1..Len(hooked) /\ i \in Nat /\ k \in Nat
    BY <1>1, <1>2
  <2>2. CASE i < k
    <3>1. i \in 1..(Len(hooked) - 1)
      BY <1>1, <1>2, <2>1, <2>2
    <3> QED BY <1>3, <1>4, <2>2, <3>1
  <2>3. CASE i > k
    <3>1. i - 1 \in 1..(Len(hooked) - 1) /\ ~(i - 1 < k) /\ (i - 1) + 1 = i
      BY <1>1, <1>2, <2>1, <2>3
    <3> QED BY <1>3, <1>4, <3>1
  <2> QED BY <1>6, <2>1, <2>2, <2>3
<1>7. DOMAIN hooked' \subseteq Nat /\ DOMAIN hooked \subseteq Nat /\ k \in DOMAIN hooked
  BY <1>1, <1>2, <1>4
<1> QED BY <1>2, <1>5, <1>6, <1>7

LEMMA StopKeeps ==
    ASSUME StableInv, NEW h \in Handle, Stop(h)
    PROVE  EntryInv'
<1> DEFINE m == handles[h].method
           s == handles[h].who
<1>1. s \in JavaMethod /\ table[s] = m /\ m # NoMethod
  BY DEF StableInv, HandlesAnchored, Stop
<1>2. patched' = patched /\ claimed' = claimed \ {s} /\ table' = table
  BY DEF Stop
<1>3. CASE ~InList(m)
  <2>1. hooked' = hooked
    BY <1>3 DEF Stop
  <2> QED BY <1>2, <2>1 DEF StableInv, EntryInv, EntriesAnchored, OneEntryPerMethod,
              EntriesTrampolined, ClaimsListed, InList, Loaded
<1>4. CASE InList(m)
  <2>1. PICK k \in DOMAIN hooked :
              /\ hooked[k].method = m
              /\ \A j \in DOMAIN hooked' : \E i \in DOMAIN hooked :
                    i = (IF j < k THEN j ELSE j + 1) /\ i # k /\ hooked'[j] = hooked[i]
              /\ \A i \in DOMAIN hooked : i # k => \E j \in DOMAIN hooked' : hooked'[j] = hooked[i]
              /\ DOMAIN hooked' \subseteq Nat /\ DOMAIN hooked \subseteq Nat
    BY <1>4, StopErases
  <2>2. EntriesAnchored' /\ EntriesTrampolined'
    BY <1>2, <2>1 DEF StableInv, EntriesAnchored, EntriesTrampolined
  <2>3. OneEntryPerMethod'
    <3> SUFFICES ASSUME NEW x \in DOMAIN hooked', NEW y \in DOMAIN hooked', hooked'[x].method = hooked'[y].method
                 PROVE  x = y
      BY DEF OneEntryPerMethod
    <3>1. x \in Nat /\ y \in Nat /\ k \in Nat
      BY <2>1
    <3>2. PICK i \in DOMAIN hooked : i = (IF x < k THEN x ELSE x + 1) /\ i # k /\ hooked'[x] = hooked[i]
      BY <2>1
    <3>3. PICK j \in DOMAIN hooked : j = (IF y < k THEN y ELSE y + 1) /\ j # k /\ hooked'[y] = hooked[j]
      BY <2>1
    <3>4. i = j
      BY <3>2, <3>3 DEF StableInv, OneEntryPerMethod
    <3> QED BY <3>1, <3>2, <3>3, <3>4
  <2>4. ClaimsListed'
    <3> SUFFICES ASSUME NEW t \in claimed, t # s
                 PROVE  Loaded(t)' /\ InList(table[t])'
      BY <1>2 DEF ClaimsListed
    <3>1. t \in JavaMethod /\ Loaded(t) /\ table[t] # m
      BY <1>1 DEF StableInv, TypeOK, ClaimsListed, TableSound, Loaded
    <3>2. PICK i \in DOMAIN hooked : hooked[i].method = table[t]
      BY DEF StableInv, ClaimsListed, InList
    <3>3. i # k
      BY <2>1, <3>1, <3>2
    <3> QED BY <1>2, <2>1, <3>1, <3>2, <3>3 DEF InList, Loaded
  <2> QED BY <2>2, <2>3, <2>4 DEF EntryInv
<1> QED BY <1>3, <1>4

\* The slot of an entry holds the method the hook was installed on, so that
\* verify_hooks() sees no drift of the first two modes.
LEMMA OccupantIsWho ==
    ASSUME StableInv, NEW i \in DOMAIN hooked
    PROVE  occupant[hooked[i].method] = hooked[i].who /\ hooked[i].who # NoJava
<1>1. hooked[i].method \in Method /\ hooked[i].who \in JavaMethod /\ table[hooked[i].who] = hooked[i].method
  BY EntryType DEF StableInv, EntriesAnchored
<1> QED BY <1>1, RegistryAssumption DEF StableInv, TableSound, Loaded

LEMMA NothingDrifts == ASSUME StableInv PROVE ~VerifyDrifted
<1> SUFFICES ASSUME VerifyDrifted PROVE FALSE
  OBVIOUS
<1>1. vpos \in DOMAIN hooked
  BY LenProperties DEF StableInv, TypeOK, VerifyDrifted, Verifying
<1> QED BY <1>1, OccupantIsWho DEF VerifyDrifted, Drifted

\* Every step of the registry and of a JVM that moves no Method.
LEMMA NextStable ==
    ASSUME MaxRedefine = 0, InstallFaults = FALSE, StableInv, [Next]_vars
    PROVE  StableInv'
<1>1. TypeOK' /\ NoHalfDeopt' /\ DeoptOrdered'
  BY NextTypeOK, NextNoHalfDeopt DEF StableInv
<1>2. table' = table /\ occupant' = occupant
  BY TableFixed
<1>3. TableSound'
  BY <1>2 DEF StableInv, TableSound, Loaded
<1>4. CallsAnchored'
  <2>1. CASE call' = call
    BY <1>2, <2>1 DEF StableInv, CallsAnchored
  <2>2. ASSUME NEW d \in Caller, NEW s \in JavaMethod, NEW h \in Handle \cup {NoHandle}, HookResolve(d, s, h)
        PROVE  CallsAnchored'
    BY <1>2, <2>2 DEF StableInv, TypeOK, CallsAnchored, HookResolve
  <2>3. ASSUME NEW d \in Caller, HookInstall(d) \/ HookReturn(d) \/ ScopedHookReturn(d)
        PROVE  CallsAnchored'
    <3>1. call[d] \in Call /\ call[d].pc # "idle" /\ (call[d].pc = "handle" => ScopedHookReturn(d))
      BY <2>3 DEF StableInv, TypeOK, HookInstall, HookReturn, ScopedHookReturn
    <3>2. \/ call' = [call EXCEPT ![d] = Idle]
          \/ \E q \in {"deopt", "handle"} : /\ call' = [call EXCEPT ![d] = [call[d] EXCEPT !.pc = q]]
                                           /\ call[d].pc \in {"lock", "deopt"}
      BY <2>3 DEF StableInv, TypeOK, HookInstall, HookFresh, HookAlready, HookUnlinked,
                  HookNoTrampoline, HookReturn, HookSucceeds, HookFails, ScopedHookReturn
    <3>3. CASE call' = [call EXCEPT ![d] = Idle]
      BY <1>2, <3>3 DEF StableInv, TypeOK, CallsAnchored, Idle
    <3>4. ASSUME NEW q \in {"deopt", "handle"}, call' = [call EXCEPT ![d] = [call[d] EXCEPT !.pc = q]],
                 call[d].pc \in {"lock", "deopt"}
          PROVE  CallsAnchored'
      <4>1. /\ call'[d].who = call[d].who /\ call'[d].method = call[d].method
            /\ \A e \in Caller : e # d => call'[e] = call[e]
        BY <3>1, <3>4 DEF StableInv, TypeOK, Call
      <4>2. table[call[d].who] = call[d].method
        BY <3>4 DEF StableInv, CallsAnchored
      <4> QED BY <1>2, <4>1, <4>2 DEF StableInv, CallsAnchored
    <3> QED BY <3>2, <3>3, <3>4
  <2>4. CASE Jvm
    BY <2>1, <2>4 DEF Jvm, JitCompile, ClearNoCompile, LinkClass, FreeMethod, UnloadClass, Redefine, registryVars
  <2>5. CASE VerifyEntry
    BY <2>1, <2>5 DEF VerifyEntry, VerifySkip, VerifyDrifted, VerifyJit, VerifyClean, VerifyAdvance
  <2>6. CASE (\E h \in Handle : Stop(h)) \/ Shutdown \/ VerifyBegin \/ (\E m \in Method : DeoptimizeMethod(m))
    BY <2>1, <2>6 DEF Stop, Shutdown, VerifyBegin, DeoptimizeMethod, registryVars
  <2>7. CASE UNCHANGED vars
    BY <2>1, <2>7 DEF vars
  <2>8. CASE \E o \in Deopter : DeoptStore(o)
    BY <2>1, <2>8 DEF DeoptStore, Store
  <2> QED BY <2>2, <2>3, <2>4, <2>5, <2>6, <2>7, <2>8 DEF Next, Registry
<1>5. HandlesAnchored'
  <2>1. CASE handles' = handles
    BY <1>2, <2>1 DEF StableInv, HandlesAnchored
  <2>2. ASSUME NEW d \in Caller, ScopedHookReturn(d)
        PROVE  HandlesAnchored'
    <3>1. call[d].who \in JavaMethod
      BY <2>2 DEF StableInv, TypeOK, Call, ScopedHookReturn
    <3> QED BY <1>2, <2>2, <3>1 DEF StableInv, TypeOK, HandlesAnchored, ScopedHookReturn, EmptyHandle
  <2>3. ASSUME NEW h \in Handle, Stop(h)
        PROVE  HandlesAnchored'
    BY <1>2, <2>3 DEF StableInv, TypeOK, HandlesAnchored, Stop, EmptyHandle
  <2>4. CASE Jvm
    BY <2>1, <2>4 DEF Jvm, JitCompile, ClearNoCompile, LinkClass, FreeMethod, UnloadClass, Redefine, registryVars
  <2>5. CASE VerifyEntry
    BY <2>1, <2>5 DEF VerifyEntry, VerifySkip, VerifyDrifted, VerifyJit, VerifyClean, VerifyAdvance
  <2>6. CASE Shutdown \/ VerifyBegin \/ (\E m \in Method : DeoptimizeMethod(m))
    BY <2>1, <2>6 DEF Shutdown, VerifyBegin, DeoptimizeMethod, registryVars
  <2>9. CASE \E o \in Deopter : DeoptStore(o)
    BY <2>1, <2>9 DEF DeoptStore, Store
  <2>7. ASSUME NEW d \in Caller, HookInstall(d) \/ HookReturn(d)
                  \/ \E s \in JavaMethod, h \in Handle \cup {NoHandle} : HookResolve(d, s, h)
        PROVE  HandlesAnchored'
    BY <2>1, <2>7 DEF HookInstall, HookReturn, HookResolve
  <2>8. CASE UNCHANGED vars
    BY <2>1, <2>8 DEF vars
  <2> QED BY <2>2, <2>3, <2>4, <2>5, <2>6, <2>7, <2>8, <2>9 DEF Next, Registry
<1>6. EntryInv' /\ CallsListed'
  <2>1. CASE hooked' = hooked /\ patched' = patched /\ claimed' = claimed /\ call' = call
    <3>1. EntryInv'
      BY <1>2, <2>1, SameEntriesKeep DEF SameEntries
    <3> QED BY <2>1, <3>1 DEF StableInv, CallsListed, InList
  <2>2. ASSUME NEW d \in Caller, HookInstall(d)
        PROVE  EntryInv' /\ CallsListed'
    <3> DEFINE s == call[d].who
               m == call[d].method
    <3>0. /\ s \in JavaMethod /\ m \in Method /\ table[s] = m
          /\ call[d] \in Call /\ call[d].pc = "lock"
      BY <2>2 DEF StableInv, TypeOK, Call, CallsAnchored, HookInstall
    <3>1. CASE HookFresh(d)
      <4>1. EntryInv' /\ \A n \in Method : n = m \/ InList(n) => InList(n)'
        BY <1>2, <3>0, <3>1, HookFreshKeeps
      <4>2. /\ \A e \in Caller : call'[e].method = call[e].method
            /\ \A e \in Caller : e # d => call'[e] = call[e]
        BY <3>0, <3>1 DEF HookFresh, StableInv, TypeOK, Call
      <4>3. ASSUME NEW e \in Caller, call'[e].pc = "deopt" PROVE InList(call[e].method)'
        <5>1. CASE e = d
          BY <3>0, <4>1, <4>2, <5>1
        <5>2. CASE e # d
          <6>1. InList(call[e].method) /\ call[e].method \in Method
            BY <4>2, <4>3, <5>2 DEF StableInv, CallsListed, TypeOK, Call
          <6> QED BY <4>1, <4>2, <5>2, <6>1 DEF InList
        <5> QED BY <5>1, <5>2
      <4>4. CallsListed'
        BY <4>2, <4>3 DEF CallsListed
      <4> QED BY <4>1, <4>4
    <3>2. ASSUME hooked' = hooked, patched' = patched,
                 claimed' = claimed \/ (claimed' = claimed \cup {s} /\ InList(m)),
                 \A e \in Caller : call'[e].pc = "deopt" => call'[e] = call[e]
          PROVE  EntryInv' /\ CallsListed'
      <4>1. EntriesAnchored' /\ OneEntryPerMethod' /\ EntriesTrampolined'
        BY <1>2, <3>2 DEF StableInv, EntriesAnchored, OneEntryPerMethod, EntriesTrampolined
      <4>2. \A t \in claimed' : table[t] # NoMethod /\ InList(table[t])
        BY <3>0, <3>2, RegistryAssumption DEF StableInv, ClaimsListed, Loaded
      <4>3. ClaimsListed'
        BY <1>2, <3>2, <4>2 DEF ClaimsListed, Loaded, InList
      <4>4. CallsListed'
        BY <3>2 DEF StableInv, CallsListed, InList
      <4> QED BY <4>1, <4>3, <4>4 DEF EntryInv
    <3>3. ASSUME HookAlready(d) \/ HookUnlinked(d)
          PROVE  \A e \in Caller : call'[e].pc = "deopt" => call'[e] = call[e]
      <4>1. call' = [call EXCEPT ![d] = Idle] \/ call' = [call EXCEPT ![d] = [call[d] EXCEPT !.pc = "handle"]]
        BY <3>3 DEF HookAlready, HookUnlinked, HookSucceeds, HookFails, StableInv, TypeOK
      <4> QED BY <3>0, <4>1 DEF StableInv, TypeOK, Call, Idle
    <3>4. CASE HookAlready(d)
      BY <3>2, <3>3, <3>4 DEF HookAlready, HookSucceeds
    <3>5. CASE HookUnlinked(d)
      BY <3>2, <3>3, <3>5 DEF HookUnlinked, HookFails
    <3> QED BY <2>2, <3>1, <3>4, <3>5 DEF HookInstall, HookNoTrampoline
  <2>3. ASSUME NEW h \in Handle, Stop(h)
        PROVE  EntryInv' /\ CallsListed'
    <3>1. call' = call /\ \A d \in Caller : call[d].pc # "deopt"
      BY <2>3 DEF Stop, Locked
    <3> QED BY <2>3, <3>1, StopKeeps DEF CallsListed
  <2>4. CASE Shutdown
    BY <2>4 DEF Shutdown, Locked, EntryInv, EntriesAnchored, OneEntryPerMethod, EntriesTrampolined,
                ClaimsListed, CallsListed
  <2>5. CASE VerifyEntry
    <3>1. patched' = patched /\ claimed' = claimed /\ call' = call
      BY <2>5 DEF VerifyEntry, VerifySkip, VerifyDrifted, VerifyJit, VerifyClean, VerifyAdvance
    <3>2. CASE VerifySkip \/ VerifyClean
      BY <2>1, <3>1, <3>2 DEF VerifySkip, VerifyClean
    <3>3. CASE VerifyJit
      <4>1. vpos \in DOMAIN hooked
        BY <3>3, LenProperties DEF StableInv, TypeOK, VerifyJit, Verifying
      <4>2. hooked[vpos] \in HookedMethod
        BY <4>1, EntryType DEF StableInv
      <4>3. SameEntries
        BY <3>3, <4>1, <4>2 DEF VerifyJit, SameEntries, HookedMethod
      <4>4. CallsListed'
        BY <3>1, <4>3 DEF SameEntries, StableInv, CallsListed, InList
      <4> QED BY <1>2, <3>1, <4>3, <4>4, SameEntriesKeep
    <3>4. ~VerifyDrifted
      BY NothingDrifts
    <3> QED BY <2>5, <3>2, <3>3, <3>4 DEF VerifyEntry
  <2>6. CASE Jvm
    BY <2>1, <2>6 DEF Jvm, JitCompile, ClearNoCompile, LinkClass, FreeMethod, UnloadClass, Redefine, registryVars
  <2>7. CASE VerifyBegin \/ (\E m \in Method : DeoptimizeMethod(m)) \/ (\E o \in Deopter : DeoptStore(o))
    BY <2>1, <2>7 DEF VerifyBegin, DeoptimizeMethod, DeoptStore, Store, registryVars
  <2>8. ASSUME NEW d \in Caller, ScopedHookReturn(d)
                  \/ \E s \in JavaMethod, h \in Handle \cup {NoHandle} : HookResolve(d, s, h)
        PROVE  EntryInv' /\ CallsListed'
    <3>1. hooked' = hooked /\ patched' = patched /\ claimed' = claimed
      BY <2>8 DEF ScopedHookReturn, HookResolve
    <3>2. EntryInv'
      BY <1>2, <3>1, SameEntriesKeep DEF SameEntries
    <3>3. \A e \in Caller : call'[e].pc = "deopt" => call'[e] = call[e]
      BY <2>8 DEF ScopedHookReturn, HookResolve, Idle, StableInv, TypeOK
    <3> QED BY <3>1, <3>2, <3>3 DEF StableInv, CallsListed, InList
  <2>10. ASSUME NEW d \in Caller, HookReturn(d)
        PROVE  EntryInv' /\ CallsListed'
    <3> DEFINE s == call[d].who
    <3>1. s \in JavaMethod /\ table[s] = call[d].method /\ InList(table[s]) /\ table[s] # NoMethod
      BY <2>10, RegistryAssumption DEF StableInv, TypeOK, Call, CallsAnchored, CallsListed, HookReturn
    <3>2. hooked' = hooked /\ patched' = patched /\ claimed' = claimed \cup {s}
      BY <2>10 DEF HookReturn, HookSucceeds
    <3>3. EntriesAnchored' /\ OneEntryPerMethod' /\ EntriesTrampolined'
      BY <1>2, <3>2 DEF StableInv, EntriesAnchored, OneEntryPerMethod, EntriesTrampolined
    <3>4. \A t \in claimed' : table[t] # NoMethod /\ InList(table[t])
      BY <3>1, <3>2 DEF StableInv, ClaimsListed, Loaded
    <3>5. ClaimsListed'
      BY <1>2, <3>2, <3>4 DEF ClaimsListed, Loaded, InList
    <3>6. call' = [call EXCEPT ![d] = Idle] \/ call' = [call EXCEPT ![d] = [call[d] EXCEPT !.pc = "handle"]]
      BY <2>10 DEF HookReturn, HookSucceeds, StableInv, TypeOK
    <3>7. call[d] \in Call
      BY DEF StableInv, TypeOK
    <3>8. \A e \in Caller : call'[e].pc = "deopt" => call'[e] = call[e]
      BY <3>6, <3>7 DEF StableInv, TypeOK, Call, Idle
    <3>9. CallsListed'
      BY <3>2, <3>8 DEF StableInv, CallsListed, InList
    <3> QED BY <3>3, <3>5, <3>9 DEF EntryInv
  <2>9. CASE UNCHANGED vars
    BY <2>1, <2>9 DEF vars
  <2> QED BY <2>2, <2>3, <2>4, <2>5, <2>6, <2>7, <2>8, <2>9, <2>10 DEF Next, Registry
<1> QED BY <1>1, <1>3, <1>4, <1>5, <1>6 DEF StableInv, EntryInv

LEMMA StableCorrect ==
    ASSUME MaxRedefine = 0, InstallFaults = FALSE
    PROVE  Spec => []StableInv
<1>1. StableInv /\ [Next]_vars => StableInv'
  BY NextStable
<1> QED BY InitStable, <1>1, PTL DEF Spec

\* In a JVM that redefines no class, and when the stub can be patched, a hook()
\* that returned true fires until it is removed: a call of a method that is not
\* compiled, and into which the JIT did not store in the middle of a deoptimisation,
\* reaches the detour installed for it.
THEOREM HooksFire ==
    ASSUME MaxRedefine = 0, InstallFaults = FALSE
    PROVE  Spec => []ClaimFires
<1>1. StableInv => ClaimFires
  <2> SUFFICES ASSUME StableInv, NEW s \in claimed, Loaded(s), ~code[table[s]], table[s] \notin torn
               PROVE  Fires(s)
    BY DEF ClaimFires
  <2> DEFINE m == table[s]
             k == FirstOf(m)
  <2>1. s \in JavaMethod /\ m \in Method /\ InList(m)
    BY DEF StableInv, TypeOK, ClaimsListed, Loaded
  <2>2. k \in 1..Len(hooked) /\ hooked[k].method = m
    BY <2>1, FirstOfFinds DEF StableInv
  <2>3. k \in DOMAIN hooked
    BY <2>2, LenProperties DEF StableInv, TypeOK
  <2>4. hooked[k].who \in JavaMethod /\ table[hooked[k].who] = m
    BY <2>2, <2>3, EntryType DEF StableInv, EntriesAnchored
  <2>5. hooked[k].who = s
    BY <2>1, <2>4 DEF StableInv, TableSound, Loaded
  <2>6. fromI[m] = "i2i"
    BY <2>1 DEF StableInv, NoHalfDeopt
  <2>7. StubOf[s] \in patched
    BY <2>3, <2>5 DEF StableInv, EntriesTrampolined
  <2> QED BY <2>1, <2>5, <2>6, <2>7 DEF Fires
<1> QED BY <1>1, StableCorrect, PTL

\* In a JVM that redefines no class the registry holds at most one entry per
\* Method*, however many threads call hook<T>() for it.
THEOREM OneEntry ==
    ASSUME MaxRedefine = 0, InstallFaults = FALSE
    PROVE  Spec => []OneEntryPerMethod
<1>1. StableInv => OneEntryPerMethod
  BY DEF StableInv
<1> QED BY <1>1, StableCorrect, PTL

\* In a JVM that redefines no class stop() removes the hook it was made for and
\* no other.
THEOREM StopExact ==
    ASSUME MaxRedefine = 0, InstallFaults = FALSE
    PROVE  Spec => StopExactly
<1>1. ASSUME StableInv, NEW h \in Handle, Stop(h)
      PROVE  /\ \A i \in DOMAIN hooked' : hooked'[i].who # handles[h].who
             /\ \A i \in DOMAIN hooked : hooked[i].who # handles[h].who =>
                   \E j \in DOMAIN hooked' : hooked'[j] = hooked[i]
  <2> DEFINE m == handles[h].method
             s == handles[h].who
  <2>1. s \in JavaMethod /\ table[s] = m /\ m # NoMethod
    BY <1>1 DEF StableInv, HandlesAnchored, Stop
  <2>2. \A i \in DOMAIN hooked : hooked[i].who = s <=> hooked[i].method = m
    <3> SUFFICES ASSUME NEW i \in DOMAIN hooked PROVE hooked[i].who = s <=> hooked[i].method = m
      OBVIOUS
    <3>1. hooked[i].who \in JavaMethod /\ table[hooked[i].who] = hooked[i].method
      BY <1>1, EntryType DEF StableInv, EntriesAnchored
    <3> QED BY <1>1, <2>1, <3>1 DEF StableInv, TableSound
  <2>3. CASE ~InList(m)
    BY <1>1, <2>2, <2>3 DEF Stop, InList
  <2>4. CASE InList(m)
    <3>1. PICK k \in DOMAIN hooked :
              /\ hooked[k].method = m
              /\ \A j \in DOMAIN hooked' : \E i \in DOMAIN hooked : i # k /\ hooked'[j] = hooked[i]
              /\ \A i \in DOMAIN hooked : i # k => \E j \in DOMAIN hooked' : hooked'[j] = hooked[i]
      BY <1>1, <2>4, StopErases
    <3>2. \A i \in DOMAIN hooked : hooked[i].method = m => i = k
      BY <1>1, <3>1 DEF StableInv, OneEntryPerMethod
    <3> QED BY <2>2, <3>1, <3>2
  <2> QED BY <2>3, <2>4
<1>2. StableInv /\ [Next]_vars =>
        [\A h \in Handle : Stop(h) =>
            /\ \A i \in DOMAIN hooked' : hooked'[i].who # handles[h].who
            /\ \A i \in DOMAIN hooked : hooked[i].who # handles[h].who =>
                  \E j \in DOMAIN hooked' : hooked'[j] = hooked[i]]_vars
  BY <1>1
<1> QED BY <1>2, StableCorrect, PTL DEF Spec, StopExactly

-----------------------------------------------------------------------------
(* Inhibitors.                                                             *)

\* A class whose methods can be hooked is linked.
AllLinked == \A m \in Method : linked[m]

LEMMA NextLinked ==
    ASSUME TypeOK, AllLinked, [Next]_vars
    PROVE  AllLinked'
<1>1. CASE linked' = linked
  BY <1>1 DEF AllLinked
<1>2. ASSUME NEW m \in Method, LinkClass(m) \/ \E s \in JavaMethod : Redefine(s, m)
      PROVE  AllLinked'
  BY <1>2 DEF TypeOK, AllLinked, LinkClass, Redefine
<1>8. ASSUME NEW o \in Deopter, DeoptStore(o)
      PROVE  linked' = linked
  BY <1>8 DEF DeoptStore, Store
<1>3. ASSUME NEW m \in Method, JitCompile(m) \/ ClearNoCompile(m) \/ FreeMethod(m) \/ DeoptimizeMethod(m)
      PROVE  linked' = linked
  BY <1>3 DEF JitCompile, ClearNoCompile, FreeMethod, DeoptimizeMethod, jvmVars
<1>4. ASSUME NEW d \in Caller, HookInstall(d) \/ HookReturn(d) \/ ScopedHookReturn(d)
                \/ \E s \in JavaMethod, h \in Handle \cup {NoHandle} : HookResolve(d, s, h)
      PROVE  linked' = linked
  BY <1>4 DEF HookInstall, HookReturn, ScopedHookReturn, HookResolve, jvmVars
<1>5. ASSUME (\E h \in Handle : Stop(h)) \/ Shutdown \/ VerifyBegin \/ \E s \in JavaMethod : UnloadClass(s)
      PROVE  linked' = linked
  BY <1>5 DEF Stop, Shutdown, VerifyBegin, UnloadClass, jvmVars
<1>6. VerifyEntry => linked' = linked
  BY DEF VerifyEntry, VerifySkip, VerifyDrifted, VerifyJit, VerifyClean, VerifyAdvance
<1>7. UNCHANGED vars => linked' = linked
  BY DEF vars
<1> QED BY <1>1, <1>2, <1>3, <1>4, <1>5, <1>6, <1>7, <1>8 DEF Next, Registry, Jvm

\* The inhibitors of m are set.
Inhibited(m) == dontInline[m] \/ noCompile[m]

\* The inhibitors of one Method are set, and it is in the list.
LEMMA InhibitedListed ==
    ASSUME StableInv, InhibitorsOwned, NEW m \in Method, Inhibit(m, TRUE),
           \E j \in DOMAIN hooked' : hooked'[j].method = m,
           \A i \in DOMAIN hooked : \E j \in DOMAIN hooked' : hooked'[j].method = hooked[i].method
    PROVE  InhibitorsOwned'
<1>1. InList(m)' /\ \A n : InList(n) => InList(n)'
  BY DEF InList
<1>2. \A n \in Method : n # m => (Inhibited(n)' <=> Inhibited(n))
  BY DEF StableInv, TypeOK, Inhibit, Inhibited
<1> QED BY <1>1, <1>2 DEF InhibitorsOwned, Inhibited

LEMMA NextInhibitors ==
    ASSUME MaxRedefine = 0, InstallFaults = FALSE, StableInv, AllLinked, InhibitorsOwned, [Next]_vars
    PROVE  InhibitorsOwned'
<1>1. ASSUME UNCHANGED <<dontInline, noCompile, hooked>> PROVE InhibitorsOwned'
  BY <1>1 DEF InhibitorsOwned, InList
<1>2. ASSUME NEW d \in Caller, HookInstall(d) PROVE InhibitorsOwned'
  <2> DEFINE m == call[d].method
             e == NewEntry(m, call[d].who)
  <2>1. m \in Method /\ linked[m] /\ e.method = m
    BY <1>2 DEF StableInv, TypeOK, Call, HookInstall, AllLinked, NewEntry
  <2>2. CASE HookFresh(d)
    <3>1. hooked' = Append(hooked, e) /\ Inhibit(m, TRUE)
      BY <2>2 DEF HookFresh
    <3>2. hooked \in Seq(HookedMethod) /\ Len(hooked) \in Nat /\ DOMAIN hooked = 1..Len(hooked)
      BY LenProperties DEF StableInv, TypeOK
    <3>3. e \in HookedMethod
      BY <1>2, <2>1 DEF StableInv, TypeOK, Call, HookInstall, NewEntry, HookedMethod
    <3> HIDE DEF e
    <3>4. /\ DOMAIN hooked' = 1..(Len(hooked) + 1) /\ hooked'[Len(hooked) + 1] = e
          /\ \A i \in 1..Len(hooked) : hooked'[i] = hooked[i]
      <4>1. Append(hooked, e) \in Seq(HookedMethod)
        BY <3>2, <3>3, AppendProperties
      <4> QED BY <3>1, <3>2, <3>3, <4>1, AppendProperties, LenProperties
    <3>5. \A i \in DOMAIN hooked : i \in DOMAIN hooked' /\ hooked'[i] = hooked[i]
      BY <3>2, <3>4
    <3>6. \E j \in DOMAIN hooked' : hooked'[j].method = m
      <4>1. Len(hooked) + 1 \in DOMAIN hooked'
        BY <3>2, <3>4
      <4> QED BY <2>1, <3>4, <4>1 DEF e
    <3> QED BY <2>1, <3>1, <3>5, <3>6, InhibitedListed
  <2>3. CASE HookAlready(d)
    BY <1>1, <2>3 DEF HookAlready
  <2> QED BY <1>2, <2>1, <2>2, <2>3 DEF HookInstall, HookUnlinked, HookNoTrampoline
<1>3. ASSUME NEW h \in Handle, Stop(h) PROVE InhibitorsOwned'
  <2> DEFINE m == handles[h].method
  <2>1. CASE ~InList(m)
    BY <1>1, <1>3, <2>1 DEF Stop
  <2>2. CASE InList(m)
    <3>1. PICK n \in Method : n = m /\ Inhibit(n, FALSE)
      BY <1>3, <2>2 DEF StableInv, TypeOK, Stop
    <3>2. PICK k \in DOMAIN hooked :
              /\ hooked[k].method = n
              /\ \A i \in DOMAIN hooked : i # k => \E j \in DOMAIN hooked' : hooked'[j] = hooked[i]
      BY <1>3, <2>2, <3>1, StopErases
    <3>3. \A o : o # n /\ InList(o) => InList(o)'
      BY <3>2 DEF InList
    <3>4. ~Inhibited(n)' /\ \A o \in Method : o # n => (Inhibited(o)' <=> Inhibited(o))
      BY <3>1 DEF StableInv, TypeOK, Inhibit, Inhibited
    <3> QED BY <3>3, <3>4 DEF InhibitorsOwned, Inhibited
  <2> QED BY <2>1, <2>2
<1>4. CASE Shutdown
  <2>1. \A m \in Method : Inhibited(m) => Restored(m)
    BY OccupantIsWho DEF InhibitorsOwned, Inhibited, InList, Restored
  <2>2. \A m \in Method : ~Inhibited(m)'
    BY <1>4, <2>1 DEF Shutdown, Inhibited
  <2> QED BY <2>2 DEF InhibitorsOwned, Inhibited
<1>5. CASE VerifyEntry
  <2>1. CASE VerifySkip \/ VerifyClean
    BY <1>1, <2>1 DEF VerifySkip, VerifyClean
  <2>2. CASE VerifyJit
    <3>1. vpos \in DOMAIN hooked
      BY <2>2, LenProperties DEF StableInv, TypeOK, VerifyJit, Verifying
    <3>2. hooked[vpos] \in HookedMethod /\ hooked[vpos].method \in Method
      BY <3>1, EntryType DEF StableInv
    <3>3. hooked' = [hooked EXCEPT ![vpos].drift_logged = TRUE] /\ Inhibit(hooked[vpos].method, TRUE)
      BY <2>2 DEF VerifyJit
    <3>4. DOMAIN hooked' = DOMAIN hooked /\ \A i \in DOMAIN hooked : hooked'[i].method = hooked[i].method
      BY <3>1, <3>2, <3>3 DEF HookedMethod
    <3>5. \E j \in DOMAIN hooked' : hooked'[j].method = hooked[vpos].method
      BY <3>1, <3>4
    <3> QED BY <3>2, <3>3, <3>4, <3>5, InhibitedListed
  <2> QED BY <1>5, <2>1, <2>2, NothingDrifts DEF VerifyEntry
<1>6. ASSUME NEW m \in Method, ClearNoCompile(m) PROVE InhibitorsOwned'
  BY <1>6 DEF StableInv, TypeOK, ClearNoCompile, registryVars, InhibitorsOwned, InList
<1>7. ASSUME NEW m \in Method, JitCompile(m) \/ LinkClass(m) \/ FreeMethod(m) \/ DeoptimizeMethod(m)
      PROVE  InhibitorsOwned'
  BY <1>1, <1>7 DEF JitCompile, LinkClass, FreeMethod, DeoptimizeMethod, registryVars, jvmVars
<1>8. ASSUME NEW s \in JavaMethod
      PROVE  ~UnloadClass(s) /\ \A m \in Method : ~Redefine(s, m)
  BY DEF StableInv, TypeOK, UnloadClass, Redefine
<1>9. ASSUME NEW d \in Caller, ScopedHookReturn(d) \/ HookReturn(d)
                \/ \E s \in JavaMethod, h \in Handle \cup {NoHandle} : HookResolve(d, s, h)
      PROVE  InhibitorsOwned'
  BY <1>1, <1>9 DEF ScopedHookReturn, HookReturn, HookResolve, jvmVars
<1>12. ASSUME NEW o \in Deopter, DeoptStore(o) PROVE InhibitorsOwned'
  BY <1>1, <1>12 DEF DeoptStore, Store
<1>10. CASE VerifyBegin
  BY <1>1, <1>10 DEF VerifyBegin, jvmVars
<1>11. CASE UNCHANGED vars
  BY <1>1, <1>11 DEF vars
<1> QED BY <1>2, <1>3, <1>4, <1>5, <1>6, <1>7, <1>8, <1>9, <1>10, <1>11, <1>12 DEF Next, Registry, Jvm

\* In a JVM that redefines no class and where only linked classes are hooked, a Method
\* keeps its inhibitors only as long as it has an entry: whatever order hook<T>(),
\* stop(), shutdown_hooks() and the repairs of verify_hooks() come in, none leaves a
\* method behind that the JIT may never inline or compile again.
THEOREM InhibitorsReleased ==
    ASSUME MaxRedefine = 0, InstallFaults = FALSE, LazyLink = FALSE
    PROVE  Spec => []InhibitorsOwned
<1>1. Init => AllLinked /\ InhibitorsOwned
  BY DEF Init, AllLinked, InhibitorsOwned, Live
<1>2. StableInv /\ AllLinked /\ InhibitorsOwned /\ [Next]_vars => (AllLinked /\ InhibitorsOwned)'
  BY NextLinked, NextInhibitors DEF StableInv
<1> QED BY <1>1, <1>2, StableCorrect, PTL DEF Spec

-----------------------------------------------------------------------------
(* What repairs may not do, also when classes are redefined and unloaded.  *)

\* No Method belongs to two Java methods: a class gets a fresh Method only in a slot
\* that no loaded class uses.
OneOwner ==
    /\ \A s, t \in JavaMethod : table[s] = table[t] /\ Loaded(s) => s = t
    /\ \A s \in JavaMethod : Loaded(s) => occupant[table[s]] = s

LEMMA InitOneOwner == Init => OneOwner
<1> SUFFICES ASSUME Init PROVE OneOwner
  OBVIOUS
<1> QED BY InitStable DEF StableInv, TableSound, OneOwner, Loaded

LEMMA NextOneOwner ==
    ASSUME TypeOK, OneOwner, [Next]_vars
    PROVE  OneOwner'
<1> USE RegistryAssumption
<1>1. CASE UNCHANGED <<table, occupant>>
  BY <1>1 DEF OneOwner, Loaded
<1>2. ASSUME NEW s \in JavaMethod, NEW m \in Method, Redefine(s, m) PROVE OneOwner'
  <2>1. \A t \in JavaMethod : table[t] # m
    BY <1>2 DEF OneOwner, Loaded, Redefine
  <2>2. table' = [table EXCEPT ![s] = m] /\ occupant' = [occupant EXCEPT ![m] = s]
    BY <1>2 DEF Redefine
  <2> QED BY <2>1, <2>2 DEF TypeOK, OneOwner, Loaded
<1>3. ASSUME NEW s \in JavaMethod, UnloadClass(s) PROVE OneOwner'
  BY <1>3 DEF TypeOK, OneOwner, Loaded, UnloadClass
<1>4. ASSUME NEW m \in Method, FreeMethod(m) PROVE OneOwner'
  BY <1>4 DEF TypeOK, OneOwner, Loaded, Live, FreeMethod
<1>5. ASSUME NEW m \in Method, JitCompile(m) \/ ClearNoCompile(m) \/ LinkClass(m) \/ DeoptimizeMethod(m)
      PROVE  OneOwner'
  BY <1>1, <1>5 DEF JitCompile, ClearNoCompile, LinkClass, DeoptimizeMethod, jvmVars
<1>10. ASSUME NEW o \in Deopter, DeoptStore(o) PROVE OneOwner'
  BY <1>1, <1>10 DEF DeoptStore, Store
<1>6. ASSUME NEW d \in Caller, HookInstall(d) \/ HookReturn(d) \/ ScopedHookReturn(d)
                \/ \E s \in JavaMethod, h \in Handle \cup {NoHandle} : HookResolve(d, s, h)
      PROVE  OneOwner'
  BY <1>1, <1>6 DEF HookInstall, HookReturn, ScopedHookReturn, HookResolve, jvmVars
<1>7. ASSUME (\E h \in Handle : Stop(h)) \/ Shutdown \/ VerifyBegin PROVE OneOwner'
  BY <1>1, <1>7 DEF Stop, Shutdown, VerifyBegin, jvmVars
<1>8. CASE VerifyEntry
  BY <1>1, <1>8 DEF VerifyEntry, VerifySkip, VerifyDrifted, VerifyJit, VerifyClean, VerifyAdvance
<1>9. CASE UNCHANGED vars
  BY <1>1, <1>9 DEF vars
<1> QED BY <1>2, <1>3, <1>4, <1>5, <1>6, <1>7, <1>8, <1>9, <1>10 DEF Next, Registry, Jvm

\* The first entry of m, in any list.
IsFirst(q, m, k) ==
    k \in DOMAIN q /\ q[k].method = m /\ \A j \in DOMAIN q : j < k => q[j].method # m

LEMMA FirstExists ==
    ASSUME NEW q \in Seq(HookedMethod), NEW m, NEW i \in DOMAIN q, q[i].method = m
    PROVE  \E k : IsFirst(q, m, k) /\ ~(i < k)
<1> DEFINE S == {j \in DOMAIN q : q[j].method = m}
<1>0. DOMAIN q = 1..Len(q) /\ Len(q) \in Nat
  BY LenProperties
<1>1. S \subseteq Nat /\ S # {}
  BY <1>0
<1>2. PICK x \in S : \A y \in S : ~(y < x)
  BY <1>1, LeastNat
<1> QED BY <1>2 DEF IsFirst

LEMMA FirstUnique ==
    ASSUME NEW q \in Seq(HookedMethod), NEW m, NEW k, NEW l, IsFirst(q, m, k), IsFirst(q, m, l)
    PROVE  k = l
<1>1. DOMAIN q = 1..Len(q) /\ Len(q) \in Nat
  BY LenProperties
<1> QED BY <1>1 DEF IsFirst

\* The entry that common_detour takes is the first one of the Method*.
LEMMA FirstOfIsFirst ==
    ASSUME NEW q \in Seq(HookedMethod), NEW m, NEW k, IsFirst(q, m, k)
    PROVE  (CHOOSE i \in DOMAIN q : /\ q[i].method = m
                                    /\ \A j \in DOMAIN q : j < i => q[j].method # m) = k
<1> DEFINE P(i) == i \in DOMAIN q /\ q[i].method = m /\ \A j \in DOMAIN q : j < i => q[j].method # m
           c == CHOOSE i \in DOMAIN q : q[i].method = m /\ \A j \in DOMAIN q : j < i => q[j].method # m
<1>1. P(k)
  BY DEF IsFirst
<1>2. P(c)
  BY <1>1
<1>3. IsFirst(q, m, c)
  BY <1>2 DEF IsFirst
<1> QED BY <1>3, FirstUnique

\* Fires, in terms of the first entry.
LEMMA FiresFirst ==
    ASSUME TypeOK, NEW s \in JavaMethod
    PROVE  Fires(s) <=>
             /\ Loaded(s) /\ fromI[table[s]] = "i2i" /\ StubOf[s] \in patched
             /\ \E k : IsFirst(hooked, table[s], k) /\ hooked[k].who = s
<1> DEFINE m == table[s]
<1>0. hooked \in Seq(HookedMethod)
  BY DEF TypeOK
<1>1. ASSUME NEW k, IsFirst(hooked, m, k) PROVE InList(m) /\ FirstOf(m) = k
  <2>1. InList(m)
    BY <1>1 DEF InList, IsFirst
  <2>2. FirstOf(m) = k
    BY <1>0, <1>1, FirstOfIsFirst DEF FirstOf
  <2> QED BY <2>1, <2>2
<1>2. InList(m) => \E k : IsFirst(hooked, m, k)
  BY <1>0, FirstExists DEF InList
<1> QED BY <1>1, <1>2 DEF Fires

LEMMA FiresFirstNext ==
    ASSUME TypeOK', NEW s \in JavaMethod
    PROVE  Fires(s)' <=>
             /\ Loaded(s)' /\ fromI'[table'[s]] = "i2i" /\ StubOf[s] \in patched'
             /\ \E k : IsFirst(hooked', table'[s], k) /\ hooked'[k].who = s
<1> DEFINE m == table'[s]
<1>0. hooked' \in Seq(HookedMethod)
  BY DEF TypeOK
<1>1. ASSUME NEW k, IsFirst(hooked', m, k)
      PROVE  (\E i \in DOMAIN hooked' : hooked'[i].method = m) /\ FirstOf(table[s])' = k
  <2>1. \E i \in DOMAIN hooked' : hooked'[i].method = m
    BY <1>1 DEF IsFirst
  <2>2. FirstOf(table[s])' = k
    BY <1>0, <1>1, FirstOfIsFirst DEF FirstOf
  <2> QED BY <2>1, <2>2
<1>2. (\E i \in DOMAIN hooked' : hooked'[i].method = m) => \E k : IsFirst(hooked', m, k)
  BY <1>0, FirstExists
<1> QED BY <1>1, <1>2 DEF Fires, InList

\* Steps that add entries at the end, mark entries or move one to the Method* its class has
\* now, and otherwise only deoptimise and add trampolines.
LEMMA StillFires ==
    ASSUME TypeOK, TypeOK', OneOwner, table' = table, patched \subseteq patched',
           \A m \in Method : fromI[m] = "i2i" => fromI'[m] = "i2i",
           \A i \in DOMAIN hooked :
              /\ i \in DOMAIN hooked' /\ hooked'[i].who = hooked[i].who
              /\ hooked'[i].method = hooked[i].method \/ hooked'[i].method = table[hooked[i].who],
           \A j \in DOMAIN hooked' \ DOMAIN hooked : ~InList(hooked'[j].method),
           NEW s \in JavaMethod, Fires(s)
    PROVE  Fires(s)'
<1> DEFINE m == table[s]
<1>1. PICK k : IsFirst(hooked, m, k) /\ hooked[k].who = s
  BY FiresFirst
<1>2. Loaded(s) /\ m \in Method /\ fromI[m] = "i2i" /\ StubOf[s] \in patched
  BY FiresFirst DEF TypeOK, Loaded
<1>3. k \in DOMAIN hooked /\ k \in DOMAIN hooked' /\ hooked'[k].method = m
  BY <1>1 DEF IsFirst
<1>4. hooked' \in Seq(HookedMethod)
  BY DEF TypeOK
<1>5. PICK l : IsFirst(hooked', m, l) /\ ~(k < l)
  BY <1>3, <1>4, FirstExists
<1>6. hooked'[l].who = s
  <2>1. l \in DOMAIN hooked' /\ hooked'[l].method = m
    BY <1>5 DEF IsFirst
  <2>2. l \in DOMAIN hooked
    BY <1>1, <2>1 DEF IsFirst, InList
  <2>3. CASE hooked[l].method = m
    <3>1. DOMAIN hooked = 1..Len(hooked) /\ Len(hooked) \in Nat
      BY LenProperties DEF TypeOK
    <3>2. ~(l < k)
      BY <1>1, <2>2, <2>3 DEF IsFirst
    <3>3. l = k
      BY <1>3, <1>5, <2>2, <3>1, <3>2
    <3> QED BY <1>1, <1>3, <3>3
  <2>4. CASE hooked[l].method # m
    <3>1. table[hooked[l].who] = m /\ hooked[l].who \in JavaMethod
      BY <2>1, <2>2, <2>4, EntryType
    <3>2. hooked[l].who = s
      BY <1>2, <3>1 DEF OneOwner
    <3> QED BY <2>2, <3>2
  <2> QED BY <2>3, <2>4
<1> QED BY <1>2, <1>5, <1>6, FiresFirstNext DEF Loaded

\* A store of a deoptimisation leaves no entry point that was i2i.
LEMMA DeoptKeeps ==
    ASSUME TypeOK, NEW o \in Deopter, DeoptStore(o)
    PROVE  \A n \in Method : fromI[n] = "i2i" => fromI'[n] = "i2i"
<1>1. fromI' = fromI \/ fromI' = [fromI EXCEPT ![deopt[o].method] = "i2i"]
  BY DEF DeoptStore, Store
<1> QED BY <1>1 DEF TypeOK

\* For all constants, classes that are redefined, unloaded and not linked included:
\* hook<T>() of another method, every entry of a pass of verify_hooks(),
\* deoptimize_methods_if() and every single store of their deoptimisations leave a hook that fires firing.
THEOREM RepairsKeepHooks == Spec => OnlyRemovalSilences
<1>1. ASSUME TypeOK, TypeOK', OneOwner, NEW d \in Caller, HookInstall(d), NEW s \in JavaMethod, Fires(s)
      PROVE  Fires(s)'
  <2> DEFINE e == NewEntry(call[d].method, call[d].who)
  <2>1. table' = table /\ patched \subseteq patched'
    BY <1>1 DEF HookInstall, HookFresh, HookAlready, HookUnlinked, HookNoTrampoline
  <2>2. \A m \in Method : fromI[m] = "i2i" => fromI'[m] = "i2i"
    BY <1>1 DEF HookInstall, entryVars
  <2>3. CASE hooked' = hooked
    BY <1>1, <2>1, <2>2, <2>3, StillFires
  <2>4. CASE hooked' = Append(hooked, e) /\ ~InList(call[d].method)
    <3>1. e.method = call[d].method /\ e \in HookedMethod
      BY <1>1 DEF TypeOK, Call, HookInstall, NewEntry, HookedMethod
    <3>2. hooked \in Seq(HookedMethod) /\ Len(hooked) \in Nat /\ DOMAIN hooked = 1..Len(hooked)
      BY <1>1, LenProperties DEF TypeOK
    <3> HIDE DEF e
    <3>3. Append(hooked, e) \in Seq(HookedMethod)
      BY <3>1, <3>2, AppendProperties
    <3>4. /\ DOMAIN hooked' = 1..(Len(hooked) + 1) /\ hooked'[Len(hooked) + 1] = e
          /\ \A i \in 1..Len(hooked) : hooked'[i] = hooked[i]
      BY <2>4, <3>1, <3>2, <3>3, AppendProperties, LenProperties
    <3>5. \A i \in DOMAIN hooked : i \in DOMAIN hooked' /\ hooked'[i] = hooked[i]
      BY <3>2, <3>4
    <3>6. \A j \in DOMAIN hooked' \ DOMAIN hooked : ~InList(hooked'[j].method)
      <4>1. \A j \in DOMAIN hooked' \ DOMAIN hooked : j = Len(hooked) + 1
        BY <3>2, <3>4
      <4> QED BY <2>4, <3>1, <3>4, <4>1
    <3> QED BY <1>1, <2>1, <2>2, <3>5, <3>6, StillFires
  <2> QED BY <1>1, <2>3, <2>4 DEF HookInstall, HookFresh, HookAlready, HookUnlinked, HookNoTrampoline
<1>2. ASSUME TypeOK, TypeOK', OneOwner, VerifyEntry, NEW s \in JavaMethod, Fires(s)
      PROVE  Fires(s)'
  <2>1. table' = table /\ patched' = patched
    BY <1>2 DEF VerifyEntry, VerifySkip, VerifyDrifted, VerifyJit, VerifyClean, VerifyAdvance
  <2>2. \A m \in Method : fromI[m] = "i2i" => fromI'[m] = "i2i"
    BY <1>2 DEF VerifyEntry, VerifySkip, VerifyDrifted, VerifyJit, VerifyClean, VerifyAdvance, entryVars
  <2>3. CASE hooked' = hooked
    BY <1>2, <2>1, <2>2, <2>3, StillFires
  <2>4. vpos \in DOMAIN hooked
    <3>1. vpos # 0
      BY <1>2 DEF VerifyEntry, VerifySkip, VerifyDrifted, VerifyJit, VerifyClean, Verifying
    <3>2. Len(hooked) \in Nat /\ DOMAIN hooked = 1..Len(hooked)
      BY <1>2, LenProperties DEF TypeOK
    <3> QED BY <1>2, <3>1, <3>2 DEF TypeOK
  <2>5. hooked[vpos] \in HookedMethod
    BY <1>2, <2>4, EntryType
  <2>6. CASE hooked' = [hooked EXCEPT ![vpos].drift_logged = TRUE]
    <3>1. /\ DOMAIN hooked' = DOMAIN hooked
          /\ \A i \in DOMAIN hooked : hooked'[i].who = hooked[i].who /\ hooked'[i].method = hooked[i].method
      BY <2>4, <2>5, <2>6 DEF HookedMethod
    <3> QED BY <1>2, <2>1, <2>2, <3>1, StillFires
  <2>7. CASE Reinstall(vpos)
    <3> DEFINE e == [hooked[vpos] EXCEPT !.method = table[hooked[vpos].who], !.drift_logged = FALSE]
    <3>1. e.who = hooked[vpos].who /\ e.method = table[hooked[vpos].who]
      BY <2>5 DEF HookedMethod
    <3>2. hooked' = [hooked EXCEPT ![vpos] = e]
      BY <2>7 DEF Reinstall
    <3> HIDE DEF e
    <3>3. /\ DOMAIN hooked' = DOMAIN hooked
          /\ \A i \in DOMAIN hooked : hooked'[i].who = hooked[i].who
          /\ \A i \in DOMAIN hooked : hooked'[i].method = hooked[i].method
                                      \/ hooked'[i].method = table[hooked[i].who]
      BY <2>4, <3>1, <3>2
    <3> QED BY <1>2, <2>1, <2>2, <3>3, StillFires
  <2> QED BY <1>2, <2>3, <2>6, <2>7
          DEF VerifyEntry, VerifySkip, VerifyDrifted, VerifyJit, VerifyClean, ReinstallFails
<1>3. ASSUME TypeOK, TypeOK', OneOwner, NEW m \in Method, DeoptimizeMethod(m), NEW s \in JavaMethod, Fires(s)
      PROVE  Fires(s)'
  <2>1. UNCHANGED <<table, patched, hooked, fromI>>
    BY <1>3 DEF DeoptimizeMethod, jvmVars, registryVars
  <2> QED BY <1>3, <2>1, StillFires
<1>6. ASSUME TypeOK, TypeOK', OneOwner, NEW o \in Deopter, DeoptStore(o), NEW s \in JavaMethod, Fires(s)
      PROVE  Fires(s)'
  <2>1. \A n \in Method : fromI[n] = "i2i" => fromI'[n] = "i2i"
    BY <1>6, DeoptKeeps
  <2>2. UNCHANGED <<table, patched, hooked>>
    BY <1>6 DEF DeoptStore, Store
  <2> QED BY <1>6, <2>1, <2>2, StillFires
<1>4. TypeOK /\ TypeOK' /\ OneOwner /\ [Next]_vars =>
        [(\E d \in Caller : HookInstall(d)) \/ VerifyEntry
           \/ (\E m \in Method : DeoptimizeMethod(m)) \/ (\E o \in Deopter : DeoptStore(o))
         => \A s \in JavaMethod : Fires(s) => Fires(s)']_vars
  BY <1>1, <1>2, <1>3, <1>6
<1>5. TypeOK /\ OneOwner /\ [Next]_vars => OneOwner'
  BY NextOneOwner
<1> QED BY <1>4, <1>5, InitOneOwner, TypeCorrect, PTL DEF Spec, OnlyRemovalSilences
=============================================================================
