----------------------- MODULE TrampolineChainProofs -----------------------
(***************************************************************************)
(* Theorems about TrampolineChain, for any number of hookers, trampolines  *)
(* and places to patch, and any number of mishaps: who owns what is        *)
(* patched, that a call comes back to the stub, and that the stub is       *)
(* restored.                                                               *)
(***************************************************************************)
EXTENDS TrampolineChain, FiniteSetTheorems, WellFoundedInduction, TLAPS

-----------------------------------------------------------------------------
(* The inductive invariant.                                                *)

\* A trampoline in use is that of a hook which is installed.
Owned ==
    /\ \A h \in Hooker : ~Installed(h) => hook[h].tramp = NoTramp
    /\ \A f \in Foreign : hook[f].pc \in {"none", "installed"}
    /\ \A t \in Tramp : mem[t].owner = "free" => mem[t] = Free
    /\ \A t \in Tramp : mem[t].owner # "free" =>
          hook[mem[t].owner].pc = "installed" /\ hook[mem[t].owner].tramp = t

\* A copy of vmhook that has chosen a place and was not raced finds it as it was, so its
\* trampoline has the original instruction.
Unraced ==
    /\ \A d \in Dll : hook[d].pc \in {"found", "detected"} => bytes[hook[d].site] = Original
    /\ \A d \in Dll : hook[d].pc = "detected" => hook[d].chain = NoTramp
    /\ \A t \in Tramp : mem[t].saved = Original

\* A JMP goes to the trampoline of a hook on this place.
Patched ==
    \A s \in Site : bytes[s] # Original =>
        mem[bytes[s]].owner # "free" /\ hook[mem[bytes[s]].owner].site = s

\* The copies of vmhook are on different places, which they find patched.
Apart ==
    /\ \A d \in Dll : Installed(d) => bytes[hook[d].site] # Original
    /\ \A d, e \in Dll : Installed(d) /\ hook[e].pc # "none" /\ d # e => hook[d].site # hook[e].site

\* Without races, failed removals, and foreign hookers that leave or chain, there is one copy
\* of vmhook on a place, and behind it at most one trampoline, a foreign one that resumes
\* in the stub.
Straight ==
    /\ Apart
    /\ \A t \in Tramp : mem[t].owner \in Foreign => mem[t].resume = Stub
    /\ \A t \in Tramp : mem[t].owner \in Dll /\ mem[t].resume # Stub => mem[mem[t].resume].owner \in Foreign

\* Where a foreign hooker's JMP still is, the one that it displaced is of a copy of vmhook on
\* the same place.
Behind ==
    \A f \in Foreign : Installed(f) =>
        LET t == hook[f].tramp
            r == mem[t].resume IN
        bytes[hook[f].site] = t /\ r # Stub =>
            mem[r].owner \in Dll /\ hook[mem[r].owner].site = hook[f].site

OneForeign == \A f, g \in Foreign : f = g

Calm == AtWorst({"rewrite", "repair"})
Returning == AtWorst({"chained", "left", "rewrite", "repair"})

ChainInv ==
    /\ TypeOK /\ Owned
    /\ Calm => Unraced /\ Patched /\ Straight
    /\ OneForeign /\ Returning => Unraced /\ Patched /\ Behind

-----------------------------------------------------------------------------
(* The steps, one hooker h, trampoline t and place s at a time.            *)

HookType == [pc : {"none", "found", "detected", "installed"}, site : Site,
             tramp : Tramp \cup {NoTramp}, chain : Tramp \cup {NoTramp}]
MemType == [owner : Hooker \cup {"free"}, saved : Tramp \cup {Original}, resume : Tramp \cup {Stub}]
Byte == Tramp \cup {Original}

Base == TypeOK /\ Owned

Touch(h, k, t, m, s, b) ==
    /\ hook' = [hook EXCEPT ![h] = k]
    /\ mem' = [mem EXCEPT ![t] = m]
    /\ bytes' = [bytes EXCEPT ![s] = b]

\* The history after a step in which ms goes wrong, and after one that writes to s.
History(ms) ==
    /\ mishap \subseteq mishap' /\ ms \subseteq mishap' /\ mishap' \subseteq Mishap
    /\ stomps' \in 0..MaxStomp
Alone(h, s) == \A d \in Dll \ {h} : hook[d].pc \in {"found", "detected"} => hook[d].site # s
Noticed(h, s) == "raced" \notin mishap' => Alone(h, s)

\* find_hook_location(), the detection of a chain, and a constructor that fails.
SearchStep(d, k) ==
    /\ hook' = [hook EXCEPT ![d] = k]
    /\ UNCHANGED <<bytes, mem, mishap, stomps>>
    /\ hook[d].pc # "installed" /\ k.pc # "installed" /\ k.tramp = NoTramp
    /\ \/ k.pc = "found" /\ bytes[k.site] = Original
       \/ k.pc = "detected" /\ hook[d].pc = "found" /\ k.site = hook[d].site /\ k.chain = JmpTarget(k.site)
       \/ k.pc = "none"

ConstructStep(d, t, s, k, m) ==
    /\ Touch(d, k, t, m, s, t) /\ History({}) /\ Noticed(d, s)
    /\ hook[d].pc = "detected" /\ s = hook[d].site /\ mem[t] = Free
    /\ k.pc = "installed" /\ k.tramp = t /\ k.site = s
    /\ m.owner = d /\ m.saved = bytes[s] /\ m.resume = ResumeAt(hook[d].chain)
    /\ k.chain = hook[d].chain

\* The chain target follows what is at the place, and the resume JMP and the patch are written,
\* unless a page could not be unprotected.
Mends(d, t, k, m, b) ==
    /\ k.chain = NewChain(d)
    /\ "rewrite" \in mishap' \/ m.resume = IF k.chain = hook[d].chain THEN mem[t].resume ELSE k.chain
    /\ "repair" \in mishap' \/ b = t

RepairStep(d, t, s, k, m, b) ==
    /\ Touch(d, k, t, m, s, b) /\ History({})
    /\ Installed(d) /\ t = hook[d].tramp /\ s = hook[d].site /\ bytes[s] # t
    /\ k.pc = "installed" /\ k.tramp = t /\ k.site = s
    /\ m.owner = mem[t].owner /\ m.saved = mem[t].saved
    /\ m.resume = mem[t].resume \/ (bytes[s] # Original /\ m.resume = bytes[s])
    /\ b = bytes[s] \/ (b = t /\ Noticed(d, s))
    /\ Mends(d, t, k, m, b)

DestroyStep(d, t, s, b) ==
    /\ Touch(d, NoHook, t, Free, s, b) /\ History({})
    /\ Installed(d) /\ t = hook[d].tramp /\ s = hook[d].site
    /\ \/ b = bytes[s] /\ "destroy" \in mishap'
       \/ b = IF bytes[s] = Original THEN Original ELSE mem[t].saved

StompStep(f, t, s, k, m) ==
    /\ Touch(f, k, t, m, s, t) /\ History({}) /\ Noticed(f, s)
    /\ \/ hook[f].pc = "none" /\ mem[t] = Free
       \/ Installed(f) /\ t = hook[f].tramp /\ s = hook[f].site /\ bytes[s] # t
    /\ k.pc = "installed" /\ k.tramp = t /\ k.site = s
    /\ m.owner = f /\ m.saved = Original
    /\ m.resume = Stub \/ ("chained" \in mishap' /\ bytes[s] # Original /\ m.resume = bytes[s])

LeaveStep(f, t, s, b) ==
    /\ Touch(f, NoHook, t, Free, s, b) /\ History({"left"}) /\ Noticed(f, s)
    /\ Installed(f) /\ t = hook[f].tramp /\ s = hook[f].site
    /\ b = IF bytes[s] # t THEN bytes[s] ELSE IF mem[t].resume = Stub THEN Original ELSE mem[t].resume

LEMMA GoesFacts ==
    ASSUME TypeOK, NEW ms \in SUBSET Mishap, Goes(ms)
    PROVE  mishap \subseteq mishap' /\ ms \subseteq mishap' /\ mishap' \subseteq Mishap
BY DEF Goes, TypeOK

LEMMA WritesFacts ==
    ASSUME TypeOK, NEW ms \in SUBSET Mishap, NEW h, NEW s, Writes(h, s, ms)
    PROVE  /\ mishap \subseteq mishap' /\ ms \subseteq mishap' /\ mishap' \subseteq Mishap
           /\ Noticed(h, s)
<1> DEFINE raced == \E d \in Dll \ {h} : hook[d].pc \in {"found", "detected"} /\ hook[d].site = s
           rs == IF raced THEN {"raced"} ELSE {}
<1>1. Goes(ms \cup rs) /\ rs \subseteq {"raced"}
  BY DEF Writes
<1>2. raced => "raced" \in rs
  OBVIOUS
<1>3. ~raced => Alone(h, s)
  BY DEF Alone
<1> HIDE DEF raced, rs
<1>4. ms \cup rs \in SUBSET Mishap
  BY <1>1 DEF Mishap
<1>5. mishap \subseteq mishap' /\ ms \cup rs \subseteq mishap' /\ mishap' \subseteq Mishap
  BY <1>1, <1>4, GoesFacts
<1> QED BY <1>2, <1>3, <1>5 DEF Noticed

LEMMA Typed ==
    ASSUME TypeOK
    PROVE  /\ bytes \in [Site -> Byte] /\ mem \in [Tramp -> MemType] /\ hook \in [Hooker -> HookType]
           /\ mishap \subseteq Mishap /\ stomps \in 0..MaxStomp
           /\ Dll \subseteq Hooker /\ Foreign \subseteq Hooker
           /\ Original \notin Tramp /\ Stub \notin Tramp /\ NoTramp \notin Tramp /\ "free" \notin Hooker
           /\ \A h \in Hooker : Installed(h) => hook[h].tramp \in Tramp /\ mem[hook[h].tramp].owner = h
<1>1. /\ bytes \in [Site -> Byte] /\ mem \in [Tramp -> MemType] /\ hook \in [Hooker -> HookType]
      /\ mishap \subseteq Mishap /\ stomps \in 0..MaxStomp
      /\ \A h \in Hooker : Installed(h) => hook[h].tramp # NoTramp /\ mem[hook[h].tramp].owner = h
  BY DEF TypeOK, Byte, MemType, HookType, Installed
<1>2. \A h \in Hooker : hook[h].tramp \in Tramp \cup {NoTramp}
  BY <1>1 DEF HookType
<1> QED BY <1>1, <1>2, ChainAssumption DEF Hooker

LEMMA NoHookType == NoHook \in HookType /\ Free \in MemType /\ NoHook.pc = "none" /\ NoHook.tramp = NoTramp
                    /\ Free.owner = "free" /\ Free.saved = Original /\ Free.resume = Stub
<1>1. 1 \in Site
  BY ChainAssumption DEF Site
<1> QED BY <1>1 DEF NoHook, Free, HookType, MemType

LEMMA SearchShape ==
    ASSUME TypeOK, Owned, NEW d \in Dll, FindHookLocation(d) \/ DetectChain(d) \/ ConstructFails(d)
    PROVE  \E k \in HookType : SearchStep(d, k)
<1>1. hook[d] \in HookType /\ d \in Hooker /\ (hook[d].pc # "installed" => hook[d].tramp = NoTramp)
  BY Typed DEF Owned, Installed
<1>2. CASE FindHookLocation(d)
  <2>1. PICK s \in Site : /\ hook[d].pc = "none" /\ bytes[s] = Original
                          /\ hook' = [hook EXCEPT ![d] = [NoHook EXCEPT !.pc = "found", !.site = s]]
                          /\ UNCHANGED <<bytes, mem, mishap, stomps>>
    BY <1>2 DEF FindHookLocation
  <2> DEFINE k == [NoHook EXCEPT !.pc = "found", !.site = s]
  <2>2. k \in HookType /\ k.pc = "found" /\ k.site = s /\ k.tramp = NoTramp
    BY DEF NoHook, HookType
  <2>3. hook' = [hook EXCEPT ![d] = k]
    BY <2>1
  <2> HIDE DEF k
  <2> QED BY <2>1, <2>2, <2>3 DEF SearchStep
<1>3. CASE DetectChain(d)
  <2> DEFINE c == JmpTarget(hook[d].site)
             k == [hook[d] EXCEPT !.pc = "detected", !.chain = c]
  <2>1. hook[d].pc = "found" /\ UNCHANGED <<bytes, mem, mishap, stomps>>
    BY <1>3 DEF DetectChain
  <2>2. c \in Tramp \cup {NoTramp}
    BY <1>1, Typed DEF JmpTarget, HookType, Byte
  <2>3. hook' = [hook EXCEPT ![d].pc = "detected", ![d].chain = c]
    BY <1>3 DEF DetectChain
  <2> HIDE DEF c
  <2>4. hook' = [hook EXCEPT ![d] = k]
    BY <1>1, <2>3, Typed DEF HookType
  <2>5. k \in HookType /\ k.pc = "detected" /\ k.site = hook[d].site /\ k.tramp = hook[d].tramp /\ k.chain = c
    BY <1>1, <2>2 DEF HookType
  <2> HIDE DEF k
  <2> QED BY <1>1, <2>1, <2>4, <2>5 DEF SearchStep, c
<1>4. CASE ConstructFails(d)
  BY <1>4, NoHookType DEF ConstructFails, SearchStep
<1> QED BY <1>2, <1>3, <1>4

LEMMA ConstructShape ==
    ASSUME TypeOK, Owned, NEW d \in Dll, NEW t \in Tramp, Construct(d, t)
    PROVE  \E s \in Site, k \in HookType, m \in MemType : ConstructStep(d, t, s, k, m)
<1>0. PICK s : s = hook[d].site
  OBVIOUS
<1> DEFINE k == [hook[d] EXCEPT !.pc = "installed", !.tramp = t]
           r == ResumeAt(hook[d].chain)
           m == [owner |-> d, saved |-> bytes[s], resume |-> r]
<1>1. hook[d] \in HookType /\ d \in Hooker /\ s \in Site
  BY <1>0, Typed DEF HookType
<1>2. /\ hook[d].pc = "detected" /\ mem[t] = Free /\ mem' = [mem EXCEPT ![t] = m]
      /\ bytes' = [bytes EXCEPT ![s] = t] /\ Writes(d, s, {}) /\ stomps' = stomps
      /\ hook' = [hook EXCEPT ![d].pc = "installed", ![d].tramp = t]
  BY <1>0 DEF Construct
<1>3. r \in Tramp \cup {Stub}
  BY <1>1 DEF ResumeAt, HookType
<1>4. hook' = [hook EXCEPT ![d] = k]
  BY <1>1, <1>2, Typed DEF HookType
<1>5. k \in HookType /\ k.pc = "installed" /\ k.tramp = t /\ k.site = s /\ k.chain = hook[d].chain
  BY <1>0, <1>1 DEF HookType
<1>6. bytes[s] \in Byte
  BY <1>1, Typed
<1>7. m \in MemType /\ m.owner = d /\ m.saved = bytes[s] /\ m.resume = r
  <2> HIDE DEF r
  <2> QED BY <1>1, <1>3, <1>6 DEF MemType, Byte
<1>8. mishap \subseteq mishap' /\ mishap' \subseteq Mishap /\ Noticed(d, s)
  BY <1>2, WritesFacts
<1>9. History({})
  BY <1>2, <1>8 DEF History, TypeOK
<1>10. r = ResumeAt(hook[d].chain)
  OBVIOUS
<1> HIDE DEF k, m, r
<1>11. ConstructStep(d, t, s, k, m)
  BY <1>0, <1>2, <1>4, <1>5, <1>7, <1>8, <1>9, <1>10 DEF ConstructStep, Touch
<1> QED BY <1>1, <1>5, <1>7, <1>11

LEMMA RepairShape ==
    ASSUME TypeOK, Owned, NEW d \in Dll, VerifyAndRepair(d)
    PROVE  \E t \in Tramp, s \in Site, k \in HookType, m \in MemType, b \in Byte : RepairStep(d, t, s, k, m, b)
<1>0. PICK s, t, c : s = hook[d].site /\ t = hook[d].tramp /\ c = NewChain(d)
  OBVIOUS
<1>1. PICK ms \in SUBSET {"rewrite"} :
        /\ FollowChain(d, ms)
        /\ \/ /\ bytes' = [bytes EXCEPT ![s] = t]
              /\ Writes(d, s, ms)
           \/ Goes(ms \cup {"repair"}) /\ UNCHANGED bytes
  BY <1>0 DEF VerifyAndRepair
<1>2. hook[d] \in HookType /\ d \in Hooker /\ s \in Site /\ Installed(d)
  BY <1>0, <1>1, Typed DEF HookType, FollowChain
<1>3. t \in Tramp /\ mem[t] \in MemType /\ bytes[s] \in Byte
  BY <1>0, <1>2, Typed
<1> DEFINE k == [hook[d] EXCEPT !.chain = c]
           m == IF mem' = mem THEN mem[t] ELSE [mem[t] EXCEPT !.resume = c]
           b == IF bytes' = bytes THEN bytes[s] ELSE t
<1>4. c = IF bytes[s] = Original THEN hook[d].chain ELSE bytes[s]
  BY <1>0 DEF NewChain
<1>5. /\ bytes[s] # t /\ hook' = [hook EXCEPT ![d].chain = c] /\ stomps' = stomps
      /\ mem' = mem \/ (c # hook[d].chain /\ mem' = [mem EXCEPT ![t].resume = c])
  BY <1>0, <1>1 DEF FollowChain, RewriteChainResume
<1>6. c \in Tramp \cup {NoTramp} /\ (c # hook[d].chain => bytes[s] # Original /\ c = bytes[s] /\ c \in Tramp)
  BY <1>2, <1>3, <1>4 DEF HookType, Byte
<1>7. hook' = [hook EXCEPT ![d] = k]
  BY <1>2, <1>5, Typed DEF HookType
<1>8. k \in HookType /\ k.pc = "installed" /\ k.tramp = t /\ k.site = s
  BY <1>0, <1>2, <1>6 DEF HookType, Installed
<1>9. mem' = [mem EXCEPT ![t] = m]
  BY <1>3, <1>5, Typed DEF MemType
<1>10. /\ m \in MemType /\ m.owner = mem[t].owner /\ m.saved = mem[t].saved
       /\ m.resume = mem[t].resume \/ (bytes[s] # Original /\ m.resume = bytes[s])
  <2>1. CASE mem' = mem
    BY <1>3, <2>1
  <2>2. CASE mem' # mem
    <3>1. m = [mem[t] EXCEPT !.resume = c] /\ bytes[s] # Original /\ c = bytes[s] /\ c \in Tramp
      BY <1>5, <1>6, <2>2
    <3> HIDE DEF m
    <3> QED BY <1>3, <3>1 DEF MemType
  <2> QED BY <2>1, <2>2
<1>11. bytes' = [bytes EXCEPT ![s] = b] /\ b \in Byte
  <2>1. CASE bytes' = bytes
    BY <1>2, <1>3, <2>1, Typed
  <2>2. CASE bytes' # bytes
    BY <1>1, <1>3, <2>2 DEF Byte
  <2> QED BY <2>1, <2>2
<1>12. ms \in SUBSET Mishap /\ ms \cup {"repair"} \in SUBSET Mishap
  BY DEF Mishap
<1>13. /\ mishap \subseteq mishap' /\ mishap' \subseteq Mishap
       /\ bytes' = bytes \/ Noticed(d, s)
  BY <1>1, <1>12, WritesFacts, GoesFacts
<1>14. b = bytes[s] \/ (b = t /\ Noticed(d, s))
  BY <1>13
<1>15. History({})
  BY <1>5, <1>13 DEF History, TypeOK
<1>16. k.chain = c
  BY <1>2 DEF HookType
<1>17. "rewrite" \in mishap' \/ m.resume = IF c = hook[d].chain THEN mem[t].resume ELSE c
  <2> SUFFICES ASSUME "rewrite" \notin mishap' PROVE m.resume = IF c = hook[d].chain THEN mem[t].resume ELSE c
    OBVIOUS
  <2>1. ms = {}
    BY <1>1, <1>12, WritesFacts, GoesFacts
  <2>2. CASE c = hook[d].chain
    BY <1>5, <2>2
  <2>3. CASE c # hook[d].chain
    <3>1. mem' = [mem EXCEPT ![t].resume = c]
      BY <1>0, <1>1, <2>1, <2>3 DEF FollowChain, RewriteChainResume
    <3>2. mem'[t].resume = c
      BY <1>3, <3>1, Typed DEF MemType
    <3> QED BY <1>3, <2>3, <3>2 DEF MemType
  <2> QED BY <2>2, <2>3
<1>18. "repair" \in mishap' \/ b = t
  <2>1. CASE bytes' = [bytes EXCEPT ![s] = t]
    <3>1. bytes'[s] = t
      BY <1>2, <2>1, Typed
    <3> QED BY <1>5, <3>1
  <2>2. CASE Goes(ms \cup {"repair"})
    BY <1>12, <2>2, GoesFacts
  <2> QED BY <1>1, <2>1, <2>2
<1> HIDE DEF k, m, b
<1>19. Mends(d, t, k, m, b)
  BY <1>0, <1>16, <1>17, <1>18 DEF Mends
<1>20. RepairStep(d, t, s, k, m, b)
  BY <1>0, <1>2, <1>5, <1>7, <1>8, <1>9, <1>10, <1>11, <1>14, <1>15, <1>19 DEF RepairStep, Touch
<1> QED BY <1>2, <1>3, <1>8, <1>10, <1>11, <1>20

LEMMA DestroyShape ==
    ASSUME TypeOK, Owned, NEW d \in Dll, Destroy(d)
    PROVE  \E t \in Tramp, s \in Site, b \in Byte : DestroyStep(d, t, s, b)
<1>0. PICK s, t : s = hook[d].site /\ t = hook[d].tramp
  OBVIOUS
<1>1. /\ Installed(d) /\ stomps' = stomps
      /\ mem' = [mem EXCEPT ![t] = Free] /\ hook' = [hook EXCEPT ![d] = NoHook]
      /\ \/ /\ bytes' = IF bytes[s] = Original THEN bytes ELSE [bytes EXCEPT ![s] = mem[t].saved]
            /\ Writes(d, s, {})
         \/ Goes({"destroy"}) /\ UNCHANGED bytes
  BY <1>0 DEF Destroy
<1>2. s \in Site /\ t \in Tramp /\ mem[t] \in MemType /\ bytes[s] \in Byte
  BY <1>0, <1>1, Typed DEF HookType
<1>3. {"destroy"} \in SUBSET Mishap /\ {} \in SUBSET Mishap
  BY DEF Mishap
<1>4. mishap \subseteq mishap' /\ mishap' \subseteq Mishap
  BY <1>1, <1>3, WritesFacts, GoesFacts
<1>5. History({})
  BY <1>1, <1>4 DEF History, TypeOK
<1>6. CASE bytes' = bytes /\ "destroy" \in mishap'
  <2>1. PICK b : b = bytes[s]
    OBVIOUS
  <2>2. bytes' = [bytes EXCEPT ![s] = b] /\ b \in Byte
    BY <1>2, <1>6, <2>1, Typed
  <2>3. DestroyStep(d, t, s, b)
    BY <1>0, <1>1, <1>5, <1>6, <2>1, <2>2 DEF DestroyStep, Touch
  <2> QED BY <1>2, <2>2, <2>3
<1>7. CASE bytes' = IF bytes[s] = Original THEN bytes ELSE [bytes EXCEPT ![s] = mem[t].saved]
  <2>1. PICK b : b = IF bytes[s] = Original THEN Original ELSE mem[t].saved
    OBVIOUS
  <2>2. bytes' = [bytes EXCEPT ![s] = b]
    BY <1>2, <1>7, <2>1, Typed
  <2>3. b \in Byte
    BY <1>2, <2>1 DEF MemType, Byte
  <2>4. DestroyStep(d, t, s, b)
    BY <1>0, <1>1, <1>5, <2>1, <2>2 DEF DestroyStep, Touch
  <2> QED BY <1>2, <2>3, <2>4
<1>8. Goes({"destroy"}) => "destroy" \in mishap'
  BY <1>3, GoesFacts
<1> QED BY <1>1, <1>6, <1>7, <1>8

LEMMA StompShape ==
    ASSUME TypeOK, Owned, NEW f \in Foreign, NEW t \in Tramp, NEW s \in Site, Stomp(f, t, s)
    PROVE  \E k \in HookType, m \in MemType : StompStep(f, t, s, k, m)
<1>1. PICK r \in {Stub, ResumeAt(JmpTarget(s))} :
        /\ mem' = [mem EXCEPT ![t] = [owner |-> f, saved |-> Original, resume |-> r]]
        /\ Writes(f, s, IF r = Stub THEN {} ELSE {"chained"})
  BY DEF Stomp
<1>2. /\ \/ hook[f].pc = "none" /\ mem[t] = Free
         \/ Installed(f) /\ t = hook[f].tramp /\ s = hook[f].site /\ bytes[s] # t
      /\ stomps < MaxStomp /\ stomps' = stomps + 1
      /\ bytes' = [bytes EXCEPT ![s] = t]
      /\ hook' = [hook EXCEPT ![f].pc = "installed", ![f].tramp = t, ![f].site = s]
  BY DEF Stomp
<1> DEFINE k == [hook[f] EXCEPT !.pc = "installed", !.tramp = t, !.site = s]
           m == [owner |-> f, saved |-> Original, resume |-> r]
           ms == IF r = Stub THEN {} ELSE {"chained"}
<1>3. f \in Hooker /\ hook[f] \in HookType /\ bytes[s] \in Byte
  BY Typed
<1>4. r = Stub \/ (bytes[s] # Original /\ r = bytes[s] /\ r \in Tramp)
  <2>1. r = Stub \/ r = ResumeAt(JmpTarget(s))
    BY <1>1
  <2> QED BY <1>3, <2>1 DEF ResumeAt, JmpTarget, Byte
<1>5. hook' = [hook EXCEPT ![f] = k]
  BY <1>2, <1>3, Typed DEF HookType
<1>6. k \in HookType /\ k.pc = "installed" /\ k.tramp = t /\ k.site = s
  BY <1>3 DEF HookType
<1>7. m \in MemType /\ m.owner = f /\ m.saved = Original /\ m.resume = r
  BY <1>3, <1>4 DEF MemType
<1>8. ms \in SUBSET Mishap /\ (r # Stub => "chained" \in ms) /\ Writes(f, s, ms)
  BY <1>1 DEF Mishap
<1> HIDE DEF k, ms
<1>9. mishap \subseteq mishap' /\ ms \subseteq mishap' /\ mishap' \subseteq Mishap /\ Noticed(f, s)
  BY <1>8, WritesFacts
<1>10. History({})
  BY <1>2, <1>9, ChainAssumption DEF History, TypeOK
<1>11. mem' = [mem EXCEPT ![t] = m]
  BY <1>1
<1> HIDE DEF m
<1>12. m.resume = Stub \/ ("chained" \in mishap' /\ bytes[s] # Original /\ m.resume = bytes[s])
  BY <1>4, <1>7, <1>8, <1>9
<1>13. StompStep(f, t, s, k, m)
  BY <1>2, <1>5, <1>6, <1>7, <1>9, <1>10, <1>11, <1>12 DEF StompStep, Touch
<1> QED BY <1>6, <1>7, <1>13

LEMMA LeaveShape ==
    ASSUME TypeOK, Owned, NEW f \in Foreign, Leave(f)
    PROVE  \E t \in Tramp, s \in Site, b \in Byte : LeaveStep(f, t, s, b)
<1>0. PICK s, t : s = hook[f].site /\ t = hook[f].tramp
  OBVIOUS
<1>1. PICK b : b = IF bytes[s] # t THEN bytes[s] ELSE IF mem[t].resume = Stub THEN Original ELSE mem[t].resume
  OBVIOUS
<1>2. /\ Installed(f) /\ stomps' = stomps
      /\ mem' = [mem EXCEPT ![t] = Free] /\ hook' = [hook EXCEPT ![f] = NoHook]
      /\ Writes(f, s, {"left"})
      /\ bytes' = IF bytes[s] # t THEN bytes
                  ELSE [bytes EXCEPT ![s] = IF mem[t].resume = Stub THEN Original ELSE mem[t].resume]
  BY <1>0 DEF Leave
<1>3. s \in Site /\ t \in Tramp /\ mem[t] \in MemType /\ bytes[s] \in Byte
  BY <1>0, <1>2, Typed DEF HookType
<1>4. b \in Byte
  BY <1>1, <1>3 DEF MemType, Byte
<1>5. bytes' = [bytes EXCEPT ![s] = b]
  BY <1>1, <1>2, <1>3, Typed
<1>6. {"left"} \in SUBSET Mishap
  BY DEF Mishap
<1>7. mishap \subseteq mishap' /\ {"left"} \subseteq mishap' /\ mishap' \subseteq Mishap /\ Noticed(f, s)
  BY <1>2, <1>6, WritesFacts
<1>8. History({"left"})
  BY <1>2, <1>7 DEF History, TypeOK
<1>9. LeaveStep(f, t, s, b)
  BY <1>0, <1>1, <1>2, <1>5, <1>7, <1>8 DEF LeaveStep, Touch
<1> QED BY <1>3, <1>4, <1>9

-----------------------------------------------------------------------------
(* Who owns what.                                                          *)

LEMMA TouchValues ==
    ASSUME TypeOK, NEW h \in Hooker, NEW k \in HookType, NEW t \in Tramp, NEW m \in MemType,
           NEW s \in Site, NEW b \in Byte, Touch(h, k, t, m, s, b)
    PROVE  /\ hook' \in [Hooker -> HookType] /\ mem' \in [Tramp -> MemType] /\ bytes' \in [Site -> Byte]
           /\ hook'[h] = k /\ \A g \in Hooker \ {h} : hook'[g] = hook[g]
           /\ mem'[t] = m /\ \A u \in Tramp \ {t} : mem'[u] = mem[u]
           /\ bytes'[s] = b /\ \A x \in Site \ {s} : bytes'[x] = bytes[x]
BY Typed DEF Touch

\* A step gives a hook a trampoline that is free, or its own; or takes both away.
Takes(h, k, t, m) ==
    /\ k.pc = "installed" /\ k.tramp = t /\ m.owner = h
    /\ mem[t].owner \in {"free", h} /\ (Installed(h) => hook[h].tramp = t)
GivesBack(h, k, t, m) == k = NoHook /\ m = Free /\ Installed(h) /\ t = hook[h].tramp

LEMMA TouchBase ==
    ASSUME Base, NEW h \in Hooker, NEW k \in HookType, NEW t \in Tramp, NEW m \in MemType,
           NEW s \in Site, NEW b \in Byte, Touch(h, k, t, m, s, b), History({}),
           Takes(h, k, t, m) \/ GivesBack(h, k, t, m)
    PROVE  Base'
<1> USE DEF Installed
<1>0. TypeOK /\ Owned
  BY DEF Base
<1>1. /\ hook' \in [Hooker -> HookType] /\ mem' \in [Tramp -> MemType] /\ bytes' \in [Site -> Byte]
      /\ hook'[h] = k /\ \A g \in Hooker \ {h} : hook'[g] = hook[g]
      /\ mem'[t] = m /\ \A u \in Tramp \ {t} : mem'[u] = mem[u]
  BY <1>0, TouchValues
<1>2. /\ \A g \in Hooker : Installed(g) => hook[g].tramp \in Tramp /\ mem[hook[g].tramp].owner = g
      /\ NoTramp \notin Tramp /\ "free" \notin Hooker /\ Foreign \subseteq Hooker
      /\ \A u \in Tramp : mem[u].owner \in Hooker \cup {"free"}
  BY <1>0, Typed DEF MemType
<1>3. mem[t].owner \in {"free", h}
  BY <1>2 DEF Takes, GivesBack
<1>4. /\ k.pc = "installed" => k.tramp = t /\ m.owner = h
      /\ k.pc # "installed" => k.pc = "none" /\ k.tramp = NoTramp
      /\ m.owner = "free" => m = Free
      /\ m.owner # "free" => m.owner = h /\ k.pc = "installed" /\ k.tramp = t
      /\ Installed(h) => hook[h].tramp = t
  BY <1>2, NoHookType DEF Takes, GivesBack
<1>5. \A g \in Hooker : hook'[g].pc = "installed" => hook'[g].tramp # NoTramp /\ mem'[hook'[g].tramp].owner = g
  <2> SUFFICES ASSUME NEW g \in Hooker, hook'[g].pc = "installed"
               PROVE  hook'[g].tramp # NoTramp /\ mem'[hook'[g].tramp].owner = g
    OBVIOUS
  <2>1. CASE g = h
    BY <1>1, <1>2, <1>4, <2>1
  <2>2. CASE g # h
    <3>1. Installed(g) /\ hook'[g] = hook[g]
      BY <1>1, <2>2
    <3>2. hook[g].tramp # t
      BY <1>2, <1>3, <2>2, <3>1
    <3> QED BY <1>1, <1>2, <3>1, <3>2
  <2> QED BY <2>1, <2>2
<1>6. TypeOK'
  BY <1>1, <1>5 DEF TypeOK, History, HookType, MemType, Byte
<1>7. (\A g \in Hooker : ~Installed(g) => hook[g].tramp = NoTramp)'
  BY <1>0, <1>1, <1>4 DEF Owned
<1>8. (\A f \in Foreign : hook[f].pc \in {"none", "installed"})'
  BY <1>0, <1>1, <1>2, <1>4 DEF Owned
<1>9. (\A u \in Tramp : mem[u].owner = "free" => mem[u] = Free)'
  BY <1>0, <1>1, <1>4 DEF Owned
<1>10. (\A u \in Tramp : mem[u].owner # "free" =>
            hook[mem[u].owner].pc = "installed" /\ hook[mem[u].owner].tramp = u)'
  <2> SUFFICES ASSUME NEW u \in Tramp, mem'[u].owner # "free"
               PROVE  hook'[mem'[u].owner].pc = "installed" /\ hook'[mem'[u].owner].tramp = u
    OBVIOUS
  <2>1. CASE u = t
    BY <1>1, <1>4, <2>1
  <2>2. CASE u # t
    <3>1. PICK g : g = mem[u].owner
      OBVIOUS
    <3>2. mem'[u].owner = g /\ g \in Hooker /\ Installed(g) /\ hook[g].tramp = u
      BY <1>0, <1>1, <1>2, <2>2, <3>1 DEF Owned
    <3>3. g # h
      BY <1>4, <2>2, <3>2
    <3> QED BY <1>1, <3>2, <3>3
  <2> QED BY <2>1, <2>2
<1> QED BY <1>6, <1>7, <1>8, <1>9, <1>10 DEF Base, Owned

LEMMA SearchBase ==
    ASSUME Base, NEW d \in Dll, NEW k \in HookType, SearchStep(d, k)
    PROVE  Base'
<1> USE DEF Installed
<1>0. TypeOK /\ Owned /\ d \in Hooker /\ d \notin Foreign
  BY ChainAssumption DEF Base, Hooker
<1>1. /\ hook' = [hook EXCEPT ![d] = k] /\ bytes' = bytes /\ mem' = mem /\ mishap' = mishap /\ stomps' = stomps
      /\ hook[d].pc # "installed" /\ k.pc # "installed" /\ k.tramp = NoTramp
  BY DEF SearchStep
<1>2. hook' \in [Hooker -> HookType] /\ hook'[d] = k /\ \A g \in Hooker \ {d} : hook'[g] = hook[g]
  BY <1>0, <1>1, Typed
<1>3. TypeOK'
  BY <1>0, <1>1, <1>2 DEF TypeOK, HookType
<1>4. \A u \in Tramp : mem[u].owner \in Hooker \cup {"free"}
  BY <1>0, Typed DEF MemType
<1>5. \A u \in Tramp : mem[u].owner # "free" => mem[u].owner \in Hooker \ {d}
  BY <1>0, <1>1, <1>4 DEF Owned
<1>6. Foreign \subseteq Hooker
  BY DEF Hooker
<1>7. Owned'
  BY <1>0, <1>1, <1>2, <1>5, <1>6 DEF Owned
<1> QED BY <1>3, <1>7 DEF Base

\* Every step is one of these.
LEMMA StepShape ==
    ASSUME Base, Next
    PROVE  \/ \E d \in Dll, k \in HookType : SearchStep(d, k)
           \/ \E d \in Dll, t \in Tramp, s \in Site, k \in HookType, m \in MemType : ConstructStep(d, t, s, k, m)
           \/ \E d \in Dll, t \in Tramp, s \in Site, k \in HookType, m \in MemType, b \in Byte :
                RepairStep(d, t, s, k, m, b)
           \/ \E d \in Dll, t \in Tramp, s \in Site, b \in Byte : DestroyStep(d, t, s, b)
           \/ \E f \in Foreign, t \in Tramp, s \in Site, k \in HookType, m \in MemType : StompStep(f, t, s, k, m)
           \/ \E f \in Foreign, t \in Tramp, s \in Site, b \in Byte : LeaveStep(f, t, s, b)
<1>0. TypeOK /\ Owned
  BY DEF Base
<1>1. ASSUME NEW d \in Dll, FindHookLocation(d) \/ DetectChain(d) \/ ConstructFails(d)
      PROVE  \E k \in HookType : SearchStep(d, k)
  BY <1>0, <1>1, SearchShape
<1>2. ASSUME NEW d \in Dll, NEW t \in Tramp, Construct(d, t)
      PROVE  \E s \in Site, k \in HookType, m \in MemType : ConstructStep(d, t, s, k, m)
  BY <1>0, <1>2, ConstructShape
<1>3. ASSUME NEW d \in Dll, VerifyAndRepair(d)
      PROVE  \E t \in Tramp, s \in Site, k \in HookType, m \in MemType, b \in Byte : RepairStep(d, t, s, k, m, b)
  BY <1>0, <1>3, RepairShape
<1>4. ASSUME NEW d \in Dll, Destroy(d)
      PROVE  \E t \in Tramp, s \in Site, b \in Byte : DestroyStep(d, t, s, b)
  BY <1>0, <1>4, DestroyShape
<1>5. ASSUME NEW f \in Foreign, NEW t \in Tramp, NEW s \in Site, Stomp(f, t, s)
      PROVE  \E k \in HookType, m \in MemType : StompStep(f, t, s, k, m)
  BY <1>0, <1>5, StompShape
<1>6. ASSUME NEW f \in Foreign, Leave(f)
      PROVE  \E t \in Tramp, s \in Site, b \in Byte : LeaveStep(f, t, s, b)
  BY <1>0, <1>6, LeaveShape
<1>7. CASE \E d \in Dll : FindHookLocation(d) \/ DetectChain(d) \/ ConstructFails(d)
  BY <1>1, <1>7
<1>8. CASE \E d \in Dll, t \in Tramp : Construct(d, t)
  BY <1>2, <1>8
<1>9. CASE \E d \in Dll : VerifyAndRepair(d)
  BY <1>3, <1>9
<1>10. CASE \E d \in Dll : Destroy(d)
  BY <1>4, <1>10
<1>11. CASE \E f \in Foreign, t \in Tramp, s \in Site : Stomp(f, t, s)
  BY <1>5, <1>11
<1>12. CASE \E f \in Foreign : Leave(f)
  BY <1>6, <1>12
<1> QED BY <1>7, <1>8, <1>9, <1>10, <1>11, <1>12 DEF Next

LEMMA InitBase == Init => Base
<1> SUFFICES ASSUME Init PROVE Base
  OBVIOUS
<1>1. /\ bytes = [s \in Site |-> Original] /\ mem = [t \in Tramp |-> Free]
      /\ hook = [h \in Hooker |-> NoHook] /\ mishap = {} /\ stomps = 0
  BY DEF Init
<1>2. \A f \in Foreign : f \in Hooker
  BY DEF Hooker
<1>3. TypeOK
  BY <1>1, NoHookType, ChainAssumption DEF TypeOK, HookType, MemType
<1>4. Owned
  BY <1>1, <1>2, NoHookType DEF Owned, Installed
<1> QED BY <1>3, <1>4 DEF Base

LEMMA NextBase == Base /\ [Next]_vars => Base'
<1> SUFFICES ASSUME Base, [Next]_vars PROVE Base'
  OBVIOUS
<1>0. TypeOK /\ Owned /\ Dll \subseteq Hooker /\ Foreign \subseteq Hooker
  BY DEF Base, Hooker
<1>1. CASE UNCHANGED vars
  BY <1>0, <1>1 DEF Base, TypeOK, Owned, Installed, vars
<1>2. ASSUME NEW d \in Dll, NEW k \in HookType, SearchStep(d, k) PROVE Base'
  BY <1>2, SearchBase
<1>3. ASSUME NEW d \in Dll, NEW t \in Tramp, NEW s \in Site, NEW k \in HookType, NEW m \in MemType,
             ConstructStep(d, t, s, k, m)
      PROVE  Base'
  <2>1. Touch(d, k, t, m, s, t) /\ History({}) /\ t \in Byte /\ d \in Hooker
    BY <1>0, <1>3 DEF ConstructStep, Byte
  <2>2. Takes(d, k, t, m)
    BY <1>3, NoHookType DEF Takes, ConstructStep, Installed
  <2> QED BY <2>1, <2>2, TouchBase
<1>4. ASSUME NEW d \in Dll, NEW t \in Tramp, NEW s \in Site, NEW k \in HookType, NEW m \in MemType, NEW b \in Byte,
             RepairStep(d, t, s, k, m, b)
      PROVE  Base'
  <2>1. Touch(d, k, t, m, s, b) /\ History({}) /\ d \in Hooker
    BY <1>0, <1>4 DEF RepairStep
  <2>2. Takes(d, k, t, m)
    BY <1>0, <1>4, <2>1, Typed DEF Takes, RepairStep
  <2> QED BY <2>1, <2>2, TouchBase
<1>5. ASSUME NEW d \in Dll, NEW t \in Tramp, NEW s \in Site, NEW b \in Byte, DestroyStep(d, t, s, b) PROVE Base'
  <2>1. PICK k \in HookType, m \in MemType : k = NoHook /\ m = Free
    BY NoHookType
  <2>2. Touch(d, k, t, m, s, b) /\ History({}) /\ d \in Hooker /\ GivesBack(d, k, t, m)
    BY <1>0, <1>5, <2>1 DEF DestroyStep, GivesBack
  <2> QED BY <2>2, TouchBase
<1>6. ASSUME NEW f \in Foreign, NEW t \in Tramp, NEW s \in Site, NEW k \in HookType, NEW m \in MemType,
             StompStep(f, t, s, k, m)
      PROVE  Base'
  <2>1. Touch(f, k, t, m, s, t) /\ History({}) /\ t \in Byte /\ f \in Hooker
    BY <1>0, <1>6 DEF StompStep, Byte
  <2>2. Takes(f, k, t, m)
    BY <1>0, <1>6, <2>1, Typed, NoHookType DEF Takes, StompStep, Installed
  <2> QED BY <2>1, <2>2, TouchBase
<1>7. ASSUME NEW f \in Foreign, NEW t \in Tramp, NEW s \in Site, NEW b \in Byte, LeaveStep(f, t, s, b) PROVE Base'
  <2>1. PICK k \in HookType, m \in MemType : k = NoHook /\ m = Free
    BY NoHookType
  <2>2. Touch(f, k, t, m, s, b) /\ History({}) /\ f \in Hooker /\ GivesBack(f, k, t, m)
    BY <1>0, <1>7, <2>1 DEF LeaveStep, GivesBack, History
  <2> QED BY <2>2, TouchBase
<1>8. CASE Next
  BY <1>2, <1>3, <1>4, <1>5, <1>6, <1>7, <1>8, StepShape
<1> QED BY <1>1, <1>8

\* A trampoline resumes in the stub or at a trampoline, and a hook that is installed owns the trampoline
\* it is reached through, whatever the hookers do to each other and whichever page cannot be unprotected.
THEOREM TypeCorrect == Spec => []TypeOK
<1>1. Spec => []Base
  BY InitBase, NextBase, PTL DEF Spec
<1>2. Base => TypeOK
  BY DEF Base
<1> QED BY <1>1, <1>2, PTL

-----------------------------------------------------------------------------
(* The two regimes.                                                        *)

LEMMA Owners ==
    ASSUME Base
    PROVE  /\ TypeOK /\ Owned
           /\ \A u \in Tramp : mem[u].owner # "free" =>
                 mem[u].owner \in Hooker /\ Installed(mem[u].owner) /\ hook[mem[u].owner].tramp = u
           /\ \A h \in Hooker : Installed(h) => hook[h].tramp \in Tramp /\ mem[hook[h].tramp].owner = h
           /\ \A s \in Site : bytes[s] # Original => bytes[s] \in Tramp
<1>1. TypeOK /\ Owned
  BY DEF Base
<1>2. \A u \in Tramp : mem[u].owner \in Hooker \cup {"free"}
  BY <1>1, Typed DEF MemType
<1> QED BY <1>1, <1>2, Typed DEF Owned, Installed, Byte

\* What a step has to respect for the places to stay patched by their owners.
Respects(h, k, t, m, s, b) ==
    /\ Takes(h, k, t, m) \/ GivesBack(h, k, t, m)
    /\ Installed(h) => hook[h].site = s
    /\ m.saved = Original
    /\ b \in {Original, bytes[s]} \/ Alone(h, s)
    /\ b # Original => \/ b = t /\ k.pc = "installed" /\ k.site = s
                       \/ b \in Tramp \ {t} /\ mem[b].owner # "free" /\ hook[mem[b].owner].site = s

LEMMA TouchUnraced ==
    ASSUME Base, Unraced, NEW h \in Hooker, NEW k \in HookType, NEW t \in Tramp, NEW m \in MemType,
           NEW s \in Site, NEW b \in Byte, Touch(h, k, t, m, s, b),
           Takes(h, k, t, m) \/ GivesBack(h, k, t, m), m.saved = Original,
           b \in {Original, bytes[s]} \/ Alone(h, s)
    PROVE  Unraced'
<1>0. TypeOK /\ Owned
  BY DEF Base
<1>1. /\ hook' \in [Hooker -> HookType] /\ mem' \in [Tramp -> MemType] /\ bytes' \in [Site -> Byte]
      /\ hook'[h] = k /\ \A g \in Hooker \ {h} : hook'[g] = hook[g]
      /\ mem'[t] = m /\ \A u \in Tramp \ {t} : mem'[u] = mem[u]
      /\ bytes'[s] = b /\ \A x \in Site \ {s} : bytes'[x] = bytes[x]
  BY <1>0, TouchValues
<1>2. k.pc \in {"installed", "none"}
  BY NoHookType DEF Takes, GivesBack
<1>3. Unraced'
  <2>1. ASSUME NEW d \in Dll, hook'[d].pc \in {"found", "detected"}
        PROVE  bytes'[hook'[d].site] = Original /\ (hook'[d].pc = "detected" => hook'[d].chain = NoTramp)
    <3>1. d \in Hooker \ {h} /\ hook'[d] = hook[d]
      BY <1>1, <1>2, <2>1 DEF Hooker
    <3>2. bytes[hook[d].site] = Original /\ (hook[d].pc = "detected" => hook[d].chain = NoTramp)
      BY <2>1, <3>1 DEF Unraced
    <3>3. hook[d].site \in Site
      BY <1>0, <3>1, Typed DEF HookType
    <3>4. hook[d].site = s => b = Original
      BY <2>1, <3>1, <3>2 DEF Alone
    <3> QED BY <1>1, <3>1, <3>2, <3>3, <3>4
  <2>2. \A u \in Tramp : mem'[u].saved = Original
    BY <1>1 DEF Unraced
  <2> QED BY <2>1, <2>2 DEF Unraced
<1> QED BY <1>3

LEMMA TouchPatched ==
    ASSUME Base, Unraced, Patched, NEW h \in Hooker, NEW k \in HookType, NEW t \in Tramp, NEW m \in MemType,
           NEW s \in Site, NEW b \in Byte, Touch(h, k, t, m, s, b), Respects(h, k, t, m, s, b)
    PROVE  Unraced' /\ Patched'
<1>0. TypeOK /\ Owned
  BY DEF Base
<1>1. /\ hook' \in [Hooker -> HookType] /\ mem' \in [Tramp -> MemType] /\ bytes' \in [Site -> Byte]
      /\ hook'[h] = k /\ \A g \in Hooker \ {h} : hook'[g] = hook[g]
      /\ mem'[t] = m /\ \A u \in Tramp \ {t} : mem'[u] = mem[u]
      /\ bytes'[s] = b /\ \A x \in Site \ {s} : bytes'[x] = bytes[x]
  BY <1>0, TouchValues
<1>2. k.pc \in {"installed", "none"} /\ (Installed(h) => hook[h].tramp = t) /\ mem[t].owner \in {"free", h}
      /\ (k.pc = "installed" => m.owner = h) /\ h # "free"
  BY <1>0, Owners, Typed, NoHookType DEF Respects, Takes, GivesBack
<1>3. \A u \in Tramp \ {t} : mem[u].owner # "free" => mem[u].owner \in Hooker \ {h}
  BY <1>2, Owners
<1>4. Unraced'
  BY TouchUnraced DEF Respects
<1>5. ASSUME NEW x \in Site, bytes'[x] # Original
      PROVE  mem'[bytes'[x]].owner # "free" /\ hook'[mem'[bytes'[x]].owner].site = x
  <2>1. CASE x = s
    <3>1. CASE b = t /\ k.pc = "installed" /\ k.site = s
      BY <1>1, <1>2, <2>1, <3>1
    <3>2. CASE b \in Tramp \ {t} /\ mem[b].owner # "free" /\ hook[mem[b].owner].site = s
      BY <1>1, <1>3, <2>1, <3>2
    <3> QED BY <1>1, <1>5, <2>1, <3>1, <3>2 DEF Respects
  <2>2. CASE x # s
    <3>1. PICK u : u = bytes[x]
      OBVIOUS
    <3>2. u \in Tramp /\ bytes'[x] = u /\ mem[u].owner # "free" /\ hook[mem[u].owner].site = x
      BY <1>1, <1>5, <2>2, <3>1, Owners DEF Patched
    <3>3. u # t
      BY <1>2, <2>2, <3>2, Owners DEF Respects
    <3> QED BY <1>1, <1>3, <3>2, <3>3
  <2> QED BY <2>1, <2>2
<1> QED BY <1>4, <1>5 DEF Patched

LEMMA SearchUnraced ==
    ASSUME Base, Unraced, NEW d \in Dll, NEW k \in HookType, SearchStep(d, k)
    PROVE  Unraced'
<1>0. TypeOK /\ Owned /\ d \in Hooker /\ Dll \subseteq Hooker
  BY DEF Base, Hooker
<1>1. /\ hook' = [hook EXCEPT ![d] = k] /\ bytes' = bytes /\ mem' = mem
      /\ hook[d].pc # "installed"
  BY DEF SearchStep
<1>2. hook'[d] = k /\ \A g \in Hooker \ {d} : hook'[g] = hook[g]
  BY <1>0, <1>1, Typed
<1>3. k.pc \in {"found", "detected"} => bytes[k.site] = Original
  BY <1>0 DEF SearchStep, Unraced
<1>4. k.pc = "detected" => k.chain = NoTramp
  BY <1>3 DEF SearchStep, JmpTarget
<1>5. Unraced'
  BY <1>0, <1>1, <1>2, <1>3, <1>4 DEF Unraced
<1> QED BY <1>5

LEMMA SearchPatched ==
    ASSUME Base, Unraced, Patched, NEW d \in Dll, NEW k \in HookType, SearchStep(d, k)
    PROVE  Unraced' /\ Patched'
<1>0. TypeOK /\ Owned /\ d \in Hooker /\ Dll \subseteq Hooker
  BY DEF Base, Hooker
<1>1. /\ hook' = [hook EXCEPT ![d] = k] /\ bytes' = bytes /\ mem' = mem
      /\ hook[d].pc # "installed"
  BY DEF SearchStep
<1>2. hook'[d] = k /\ \A g \in Hooker \ {d} : hook'[g] = hook[g]
  BY <1>0, <1>1, Typed
<1>3. ASSUME NEW x \in Site, bytes[x] # Original
      PROVE  mem[bytes[x]].owner # "free" /\ hook'[mem[bytes[x]].owner].site = x
  <2>1. PICK g : g = mem[bytes[x]].owner
    OBVIOUS
  <2>2. g # "free" /\ hook[g].site = x /\ bytes[x] \in Tramp
    BY <1>3, <2>1, Owners DEF Patched
  <2>3. g \in Hooker /\ Installed(g)
    BY <2>1, <2>2, Owners
  <2>4. g # d
    BY <1>1, <2>3 DEF Installed
  <2> QED BY <1>2, <2>1, <2>2, <2>3, <2>4
<1>4. Patched'
  BY <1>1, <1>3 DEF Patched
<1> QED BY <1>4, SearchUnraced

LEMMA ConstructRespects ==
    ASSUME Base, Unraced, Patched, "raced" \notin mishap', NEW d \in Dll, NEW t \in Tramp, NEW s \in Site,
           NEW k \in HookType, NEW m \in MemType, ConstructStep(d, t, s, k, m)
    PROVE  Respects(d, k, t, m, s, t) /\ m.resume = Stub
<1>1. /\ hook[d].pc = "detected" /\ s = hook[d].site /\ mem[t] = Free /\ m.owner = d
      /\ k.pc = "installed" /\ k.tramp = t /\ k.site = s /\ m.saved = bytes[s]
      /\ m.resume = ResumeAt(hook[d].chain) /\ Alone(d, s)
  BY DEF ConstructStep, Noticed
<1>2. bytes[s] = Original /\ hook[d].chain = NoTramp
  BY <1>1 DEF Unraced
<1> QED BY <1>1, <1>2, NoHookType DEF Respects, Takes, Installed, ResumeAt

\* What verify_and_repair() finds over its own JMP is of another hooker on this place.
LEMMA RepairRespects ==
    ASSUME Base, Unraced, Patched, "raced" \notin mishap', NEW d \in Dll, NEW t \in Tramp, NEW s \in Site,
           NEW k \in HookType, NEW m \in MemType, NEW b \in Byte, RepairStep(d, t, s, k, m, b)
    PROVE  /\ Respects(d, k, t, m, s, b)
           /\ bytes[s] # Original =>
                 /\ bytes[s] \in Tramp \ {t}
                 /\ mem[bytes[s]].owner \in Hooker \ {d} /\ Installed(mem[bytes[s]].owner)
                 /\ hook[mem[bytes[s]].owner].site = s
<1>1. /\ Installed(d) /\ t = hook[d].tramp /\ s = hook[d].site /\ bytes[s] # t
      /\ k.pc = "installed" /\ k.tramp = t /\ k.site = s
      /\ m.owner = mem[t].owner /\ m.saved = mem[t].saved
      /\ b = bytes[s] \/ (b = t /\ Alone(d, s))
  BY DEF RepairStep, Noticed
<1>2. d \in Hooker /\ mem[t].owner = d /\ m.saved = Original
  BY <1>1, Owners DEF Unraced, Hooker
<1>3. ASSUME bytes[s] # Original
      PROVE  /\ bytes[s] \in Tramp \ {t}
             /\ mem[bytes[s]].owner \in Hooker \ {d} /\ Installed(mem[bytes[s]].owner)
             /\ hook[mem[bytes[s]].owner].site = s /\ mem[bytes[s]].owner # "free"
  <2>1. PICK u : u = bytes[s]
    OBVIOUS
  <2>2. u \in Tramp \ {t} /\ mem[u].owner # "free" /\ hook[mem[u].owner].site = s
    BY <1>1, <1>3, <2>1, Owners DEF Patched
  <2>3. mem[u].owner \in Hooker /\ Installed(mem[u].owner) /\ hook[mem[u].owner].tramp = u
    BY <2>2, Owners
  <2>4. mem[u].owner # d
    BY <1>1, <2>2, <2>3
  <2> QED BY <2>1, <2>2, <2>3, <2>4
<1>4. Takes(d, k, t, m)
  BY <1>1, <1>2 DEF Takes
<1>5. Respects(d, k, t, m, s, b)
  BY <1>1, <1>2, <1>3, <1>4 DEF Respects
<1> QED BY <1>3, <1>5

LEMMA DestroyRespects ==
    ASSUME Base, Unraced, Patched, "destroy" \notin mishap', NEW d \in Dll, NEW t \in Tramp, NEW s \in Site,
           NEW b \in Byte, DestroyStep(d, t, s, b)
    PROVE  Respects(d, NoHook, t, Free, s, b) /\ b = Original
<1>1. Installed(d) /\ t = hook[d].tramp /\ s = hook[d].site
  BY DEF DestroyStep
<1>2. b = Original
  BY DEF DestroyStep, Unraced
<1> QED BY <1>1, <1>2, NoHookType DEF Respects, GivesBack

LEMMA StompRespects ==
    ASSUME Base, Unraced, Patched, "raced" \notin mishap', NEW f \in Foreign, NEW t \in Tramp, NEW s \in Site,
           NEW k \in HookType, NEW m \in MemType, StompStep(f, t, s, k, m)
    PROVE  Respects(f, k, t, m, s, t)
<1>1. /\ \/ hook[f].pc = "none" /\ mem[t] = Free
         \/ Installed(f) /\ t = hook[f].tramp /\ s = hook[f].site
      /\ k.pc = "installed" /\ k.tramp = t /\ k.site = s /\ m.owner = f /\ m.saved = Original
      /\ Alone(f, s)
  BY DEF StompStep, Noticed
<1>2. Takes(f, k, t, m)
  BY <1>1, NoHookType, Owners DEF Takes, Installed, Hooker
<1> QED BY <1>1, <1>2 DEF Respects, Installed

LEMMA LeaveRespects ==
    ASSUME Base, Unraced, Patched, Behind, "raced" \notin mishap', NEW f \in Foreign, NEW t \in Tramp, NEW s \in Site,
           NEW b \in Byte, LeaveStep(f, t, s, b)
    PROVE  Respects(f, NoHook, t, Free, s, b)
<1>1. /\ Installed(f) /\ t = hook[f].tramp /\ s = hook[f].site /\ Alone(f, s)
      /\ b = IF bytes[s] # t THEN bytes[s] ELSE IF mem[t].resume = Stub THEN Original ELSE mem[t].resume
  BY DEF LeaveStep, Noticed
<1>2. f \in Hooker /\ f \notin Dll /\ mem[t].owner = f
  BY <1>1, Owners, ChainAssumption DEF Hooker
<1>3. b # Original => b \in Tramp \ {t} /\ mem[b].owner # "free" /\ hook[mem[b].owner].site = s
  <2>1. CASE bytes[s] # t
    BY <1>1, <2>1, Owners DEF Patched
  <2>2. CASE bytes[s] = t /\ mem[t].resume # Stub
    <3>1. PICK r : r = mem[t].resume
      OBVIOUS
    <3>2. mem[r].owner \in Dll /\ hook[mem[r].owner].site = s
      BY <1>1, <2>2, <3>1 DEF Behind
    <3>3. r # t /\ mem[r].owner # "free" /\ b = r
      BY <1>1, <1>2, <2>2, <3>1, <3>2, ChainAssumption DEF Hooker
    <3>4. r \in Tramp
      BY <2>2, <3>1, Owners, Typed DEF MemType
    <3> QED BY <3>2, <3>3, <3>4
  <2>3. CASE bytes[s] = t /\ mem[t].resume = Stub
    BY <1>1, <2>3
  <2> QED BY <2>1, <2>2, <2>3
<1>4. b \in {Original, bytes[s]} \/ Alone(f, s)
  BY <1>1
<1> QED BY <1>1, <1>3, <1>4, NoHookType DEF Respects, GivesBack

-----------------------------------------------------------------------------
(* The first regime: Straight.                                             *)

LEMMA SearchApart ==
    ASSUME Base, Unraced, Apart, NEW d \in Dll, NEW k \in HookType, SearchStep(d, k)
    PROVE  Apart'
<1>0. TypeOK /\ Owned /\ d \in Hooker /\ Dll \subseteq Hooker
  BY DEF Base, Hooker
<1>1. /\ hook' = [hook EXCEPT ![d] = k] /\ bytes' = bytes /\ mem' = mem
      /\ hook[d].pc # "installed" /\ k.pc # "installed"
  BY DEF SearchStep
<1>2. hook'[d] = k /\ \A g \in Hooker \ {d} : hook'[g] = hook[g]
  BY <1>0, <1>1, Typed
<1>3. \A e \in Dll : hook'[e].pc = "installed" => e # d /\ hook'[e] = hook[e] /\ Installed(e)
  BY <1>0, <1>1, <1>2 DEF Installed
<1>4. ASSUME NEW e \in Dll, Installed(e), k.pc # "none" PROVE hook[e].site # k.site
  <2>1. e # d
    BY <1>1, <1>4 DEF Installed
  <2>2. CASE bytes[k.site] = Original
    BY <1>4, <2>2 DEF Apart
  <2>3. CASE hook[d].pc = "found" /\ k.site = hook[d].site
    BY <1>4, <2>1, <2>3 DEF Apart
  <2> QED BY <1>4, <2>2, <2>3 DEF SearchStep
<1>5. (\A c, e \in Dll : Installed(c) /\ hook[e].pc # "none" /\ c # e => hook[c].site # hook[e].site)'
  <2> SUFFICES ASSUME NEW c \in Dll, NEW e \in Dll, hook'[c].pc = "installed", hook'[e].pc # "none", c # e
               PROVE  hook'[c].site # hook'[e].site
    BY DEF Installed
  <2>1. hook'[c] = hook[c] /\ Installed(c)
    BY <1>3
  <2>2. CASE e = d
    BY <1>2, <1>4, <2>1, <2>2
  <2>3. CASE e # d
    BY <1>0, <1>2, <2>1, <2>3 DEF Apart
  <2> QED BY <2>2, <2>3
<1>6. (\A e \in Dll : Installed(e) => bytes[hook[e].site] # Original)'
  BY <1>1, <1>3 DEF Apart, Installed
<1> QED BY <1>5, <1>6 DEF Apart

LEMMA SearchStraight ==
    ASSUME Base, Unraced, Straight, NEW d \in Dll, NEW k \in HookType, SearchStep(d, k)
    PROVE  Straight'
<1>1. Apart'
  BY SearchApart DEF Straight
<1>2. mem' = mem
  BY DEF SearchStep
<1> QED BY <1>1, <1>2 DEF Straight

\* A step that leaves alone where the copies of vmhook are.
LEMMA TouchApart ==
    ASSUME Base, Apart, NEW h \in Hooker, NEW k \in HookType, NEW t \in Tramp, NEW m \in MemType,
           NEW s \in Site, NEW b \in Byte, Touch(h, k, t, m, s, b),
           \* no other copy of vmhook loses its patch
           b # Original \/ \A e \in Dll \ {h} : Installed(e) => hook[e].site # s,
           h \in Dll /\ k.pc = "installed" => k.site = s /\ b # Original,
           h \in Dll /\ k.pc # "none" => \A e \in Dll \ {h} : hook[e].pc # "none" => hook[e].site # k.site
    PROVE  Apart'
<1>0. TypeOK /\ Owned /\ Dll \subseteq Hooker
  BY DEF Base, Hooker
<1>1. /\ hook' \in [Hooker -> HookType] /\ mem' \in [Tramp -> MemType] /\ bytes' \in [Site -> Byte]
      /\ hook'[h] = k /\ \A g \in Hooker \ {h} : hook'[g] = hook[g]
      /\ mem'[t] = m /\ \A u \in Tramp \ {t} : mem'[u] = mem[u]
      /\ bytes'[s] = b /\ \A x \in Site \ {s} : bytes'[x] = bytes[x]
  BY <1>0, TouchValues
<1>2. (\A e \in Dll : Installed(e) => bytes[hook[e].site] # Original)'
  <2> SUFFICES ASSUME NEW e \in Dll, hook'[e].pc = "installed" PROVE bytes'[hook'[e].site] # Original
    BY DEF Installed
  <2>1. CASE e = h
    BY <1>1, <2>1
  <2>2. CASE e # h
    <3>1. hook'[e] = hook[e] /\ Installed(e) /\ hook[e].site \in Site
      BY <1>0, <1>1, <2>2, Typed DEF Installed, HookType
    <3>2. bytes[hook[e].site] # Original
      BY <3>1 DEF Apart
    <3>3. CASE hook[e].site = s
      BY <1>1, <2>2, <3>1, <3>3
    <3>4. CASE hook[e].site # s
      BY <1>1, <3>1, <3>2, <3>4
    <3> QED BY <3>3, <3>4
  <2> QED BY <2>1, <2>2
<1>3. (\A c, e \in Dll : Installed(c) /\ hook[e].pc # "none" /\ c # e => hook[c].site # hook[e].site)'
  <2> SUFFICES ASSUME NEW c \in Dll, NEW e \in Dll, hook'[c].pc = "installed", hook'[e].pc # "none", c # e
               PROVE  hook'[c].site # hook'[e].site
    BY DEF Installed
  <2>1. CASE c = h
    <3>1. hook'[c] = k /\ hook'[e] = hook[e] /\ e \in Dll \ {h}
      BY <1>0, <1>1, <2>1
    <3> QED BY <2>1, <3>1
  <2>2. CASE e = h
    <3>1. hook'[e] = k /\ hook'[c] = hook[c] /\ c \in Dll \ {h}
      BY <1>0, <1>1, <2>2
    <3> QED BY <2>2, <3>1
  <2>3. CASE c # h /\ e # h
    <3>1. hook'[e] = hook[e] /\ hook'[c] = hook[c]
      BY <1>0, <1>1, <2>3
    <3> QED BY <3>1 DEF Apart, Installed
  <2> QED BY <2>1, <2>2, <2>3
<1> QED BY <1>2, <1>3 DEF Apart

LEMMA TouchStraight ==
    ASSUME Base, Straight, NEW h \in Hooker, NEW k \in HookType, NEW t \in Tramp, NEW m \in MemType,
           NEW s \in Site, NEW b \in Byte, Touch(h, k, t, m, s, b),
           \* no other copy of vmhook loses its patch
           b # Original \/ \A e \in Dll \ {h} : Installed(e) => hook[e].site # s,
           h \in Dll /\ k.pc = "installed" => k.site = s /\ b # Original,
           h \in Dll /\ k.pc # "none" => \A e \in Dll \ {h} : hook[e].pc # "none" => hook[e].site # k.site,
           \* the resume JMPs stay straight
           m.owner \in Foreign => m.resume = Stub,
           m.owner \in Dll /\ m.resume # Stub => m.resume # t /\ mem[m.resume].owner \in Foreign,
           mem[t].owner \in Foreign => m.owner \in Foreign
    PROVE  Straight'
<1>0. TypeOK /\ Owned /\ Dll \subseteq Hooker
  BY DEF Base, Hooker
<1>1. /\ hook' \in [Hooker -> HookType] /\ mem' \in [Tramp -> MemType] /\ bytes' \in [Site -> Byte]
      /\ hook'[h] = k /\ \A g \in Hooker \ {h} : hook'[g] = hook[g]
      /\ mem'[t] = m /\ \A u \in Tramp \ {t} : mem'[u] = mem[u]
      /\ bytes'[s] = b /\ \A x \in Site \ {s} : bytes'[x] = bytes[x]
  BY <1>0, TouchValues
<1>2. Apart'
  BY TouchApart DEF Straight
<1>4. \A u \in Tramp : mem'[u].owner \in Foreign => mem'[u].resume = Stub
  BY <1>1 DEF Straight, Apart
<1>5. ASSUME NEW u \in Tramp, mem'[u].owner \in Dll, mem'[u].resume # Stub
      PROVE  mem'[mem'[u].resume].owner \in Foreign
  <2>0. PICK r : r = mem'[u].resume
    OBVIOUS
  <2>1. r \in Tramp
    BY <1>1, <1>5, <2>0 DEF MemType
  <2>2. mem[r].owner \in Foreign
    BY <1>1, <1>5, <2>0 DEF Straight, Apart
  <2>3. mem'[r].owner \in Foreign
    BY <1>1, <2>1, <2>2
  <2> QED BY <2>0, <2>3
<1> QED BY <1>2, <1>4, <1>5 DEF Straight, Apart

LEMMA CalmNext ==
    ASSUME Base, Unraced, Patched, Straight, Calm', Next
    PROVE  Unraced' /\ Patched' /\ Straight'
<1>0. TypeOK /\ Owned /\ Dll \subseteq Hooker /\ Foreign \subseteq Hooker /\ Dll \cap Foreign = {}
  BY ChainAssumption DEF Base, Hooker
<1>1. "raced" \notin mishap' /\ "destroy" \notin mishap' /\ "left" \notin mishap' /\ "chained" \notin mishap'
  BY DEF Calm, AtWorst
<1>2. ASSUME NEW d \in Dll, NEW k \in HookType, SearchStep(d, k) PROVE Unraced' /\ Patched' /\ Straight'
  BY <1>2, SearchPatched, SearchStraight
<1>3. ASSUME NEW d \in Dll, NEW t \in Tramp, NEW s \in Site, NEW k \in HookType, NEW m \in MemType,
             ConstructStep(d, t, s, k, m)
      PROVE  Unraced' /\ Patched' /\ Straight'
  <2>1. Touch(d, k, t, m, s, t) /\ t \in Byte /\ d \in Hooker /\ t # Original
    BY <1>0, <1>3, Typed DEF ConstructStep, Byte
  <2>2. Respects(d, k, t, m, s, t) /\ m.resume = Stub
    BY <1>1, <1>3, ConstructRespects
  <2>3. /\ hook[d].pc = "detected" /\ hook[d].site = s /\ mem[t] = Free /\ Alone(d, s)
        /\ k.pc = "installed" /\ k.site = s /\ m.owner = d
    BY <1>1, <1>3 DEF ConstructStep, Noticed
  <2>4. \A e \in Dll \ {d} : hook[e].pc # "none" => hook[e].site # k.site
    <3> SUFFICES ASSUME NEW e \in Dll \ {d}, hook[e].pc # "none" PROVE hook[e].site # s
      BY <2>3
    <3>1. hook[e].pc \in {"found", "detected", "installed"}
      BY <1>0, Typed DEF HookType
    <3>2. CASE Installed(e)
      BY <2>3, <3>2 DEF Straight, Apart
    <3>3. CASE hook[e].pc \in {"found", "detected"}
      BY <2>3, <3>3 DEF Alone
    <3> QED BY <3>1, <3>2, <3>3 DEF Installed
  <2>5. mem[t].owner \notin Foreign /\ m.owner \notin Foreign
    BY <1>0, <2>3, NoHookType, ChainAssumption
  <2>6. Unraced' /\ Patched'
    BY <2>1, <2>2, TouchPatched
  <2>7. Straight'
    BY <2>1, <2>2, <2>3, <2>4, <2>5, TouchStraight
  <2> QED BY <2>6, <2>7
<1>4. ASSUME NEW d \in Dll, NEW t \in Tramp, NEW s \in Site, NEW k \in HookType, NEW m \in MemType, NEW b \in Byte,
             RepairStep(d, t, s, k, m, b)
      PROVE  Unraced' /\ Patched' /\ Straight'
  <2>1. /\ Touch(d, k, t, m, s, b) /\ Installed(d) /\ t = hook[d].tramp /\ s = hook[d].site /\ bytes[s] # t
        /\ k.pc = "installed" /\ k.site = s /\ m.owner = mem[t].owner
        /\ m.resume = mem[t].resume \/ (bytes[s] # Original /\ m.resume = bytes[s])
        /\ b = bytes[s] \/ b = t
    BY <1>4 DEF RepairStep
  <2>2. /\ Respects(d, k, t, m, s, b)
        /\ bytes[s] # Original =>
              /\ bytes[s] \in Tramp \ {t}
              /\ mem[bytes[s]].owner \in Hooker \ {d} /\ Installed(mem[bytes[s]].owner)
              /\ hook[mem[bytes[s]].owner].site = s
    BY <1>1, <1>4, RepairRespects
  <2>3. d \in Hooker /\ mem[t].owner = d /\ m.owner = d /\ d \notin Foreign /\ t # Original
    BY <1>0, <2>1, Owners, Typed
  <2>4. bytes[s] # Original
    BY <2>1 DEF Straight, Apart
  <2>5. mem[bytes[s]].owner \in Foreign
    BY <2>1, <2>2, <2>4 DEF Straight, Apart, Hooker, Installed
  <2>6. m.resume # Stub => m.resume # t /\ mem[m.resume].owner \in Foreign
    <3>1. CASE m.resume = bytes[s]
      BY <2>1, <2>5, <3>1
    <3>2. CASE m.resume = mem[t].resume
      BY <2>3, <3>2 DEF Straight, Apart
    <3> QED BY <2>1, <3>1, <3>2
  <2>7. \A e \in Dll \ {d} : hook[e].pc # "none" => hook[e].site # k.site
    BY <2>1 DEF Straight, Apart
  <2>8. b # Original
    BY <2>1, <2>3, <2>4
  <2>9. Unraced' /\ Patched'
    BY <2>1, <2>2, <2>3, TouchPatched
  <2>10. Straight'
    BY <2>1, <2>3, <2>6, <2>7, <2>8, TouchStraight
  <2> QED BY <2>9, <2>10
<1>5. ASSUME NEW d \in Dll, NEW t \in Tramp, NEW s \in Site, NEW b \in Byte, DestroyStep(d, t, s, b)
      PROVE  Unraced' /\ Patched' /\ Straight'
  <2>1. PICK k \in HookType, m \in MemType : k = NoHook /\ m = Free
    BY NoHookType
  <2>2. Touch(d, k, t, m, s, b) /\ Installed(d) /\ t = hook[d].tramp /\ s = hook[d].site
    BY <1>5, <2>1 DEF DestroyStep
  <2>3. Respects(d, k, t, m, s, b) /\ b = Original
    BY <1>1, <1>5, <2>1, DestroyRespects
  <2>4. d \in Hooker /\ mem[t].owner = d /\ d \notin Foreign /\ m.owner = "free" /\ k.pc = "none"
    BY <1>0, <2>1, <2>2, Owners, NoHookType
  <2>5. m.owner \notin Foreign /\ m.owner \notin Dll
    BY <1>0, <2>4, ChainAssumption
  <2>6. \A e \in Dll \ {d} : Installed(e) => hook[e].site # s
    BY <2>2 DEF Straight, Apart, Installed
  <2>7. Unraced' /\ Patched'
    BY <2>2, <2>3, <2>4, TouchPatched
  <2>8. Straight'
    BY <2>2, <2>4, <2>5, <2>6, TouchStraight
  <2> QED BY <2>7, <2>8
<1>6. ASSUME NEW f \in Foreign, NEW t \in Tramp, NEW s \in Site, NEW k \in HookType, NEW m \in MemType,
             StompStep(f, t, s, k, m)
      PROVE  Unraced' /\ Patched' /\ Straight'
  <2>1. Touch(f, k, t, m, s, t) /\ t \in Byte /\ f \in Hooker /\ t # Original /\ f \notin Dll
    BY <1>0, <1>6, Typed DEF StompStep, Byte
  <2>2. Respects(f, k, t, m, s, t)
    BY <1>1, <1>6, StompRespects
  <2>3. m.owner = f /\ m.resume = Stub
    BY <1>1, <1>6 DEF StompStep
  <2>4. Unraced' /\ Patched'
    BY <2>1, <2>2, TouchPatched
  <2>5. Straight'
    BY <2>1, <2>3, TouchStraight
  <2> QED BY <2>4, <2>5
<1>7. ASSUME NEW f \in Foreign, NEW t \in Tramp, NEW s \in Site, NEW b \in Byte, LeaveStep(f, t, s, b) PROVE FALSE
  BY <1>1, <1>7 DEF LeaveStep, History
<1> QED BY <1>2, <1>3, <1>4, <1>5, <1>6, <1>7, StepShape

-----------------------------------------------------------------------------
(* The second regime: Behind.                                              *)

LEMMA ReturningNext ==
    ASSUME Base, Unraced, Patched, Behind, OneForeign, Returning', Next
    PROVE  Unraced' /\ Patched' /\ Behind'
<1>0. TypeOK /\ Owned /\ Dll \subseteq Hooker /\ Foreign \subseteq Hooker /\ Dll \cap Foreign = {}
  BY ChainAssumption DEF Base, Hooker
<1>1. "raced" \notin mishap' /\ "destroy" \notin mishap'
  BY DEF Returning, AtWorst
<1>2. ASSUME NEW f \in Foreign, Installed(f), NEW r, r = mem[hook[f].tramp].resume,
             bytes[hook[f].site] = hook[f].tramp, r # Stub
      PROVE  /\ r \in Tramp /\ mem[r].owner \in Dll /\ hook[mem[r].owner].site = hook[f].site
             /\ Installed(mem[r].owner) /\ hook[mem[r].owner].tramp = r
  <2>1. mem[r].owner \in Dll /\ hook[mem[r].owner].site = hook[f].site
    BY <1>2 DEF Behind
  <2>2. hook[f].tramp \in Tramp
    BY <1>0, <1>2, Owners
  <2>3. r \in Tramp
    BY <1>0, <1>2, <2>2, Typed DEF MemType
  <2>4. mem[r].owner # "free"
    BY <1>0, <2>1, ChainAssumption
  <2> QED BY <2>1, <2>3, <2>4, Owners
<1>3. ASSUME NEW d \in Dll, NEW k \in HookType, SearchStep(d, k) PROVE Unraced' /\ Patched' /\ Behind'
  <2>1. /\ hook' = [hook EXCEPT ![d] = k] /\ bytes' = bytes /\ mem' = mem /\ ~Installed(d)
    BY <1>3 DEF SearchStep, Installed
  <2>2. \A g \in Hooker \ {d} : hook'[g] = hook[g]
    BY <1>0, <2>1, Typed
  <2>3. ASSUME NEW f \in Foreign, hook'[f].pc = "installed", NEW t, t = hook'[f].tramp, NEW r, r = mem'[t].resume,
               bytes'[hook'[f].site] = t, r # Stub
        PROVE  mem'[r].owner \in Dll /\ hook'[mem'[r].owner].site = hook'[f].site
    <3>1. hook'[f] = hook[f] /\ Installed(f)
      BY <1>0, <2>2, <2>3 DEF Installed
    <3>2. mem[r].owner \in Dll /\ hook[mem[r].owner].site = hook[f].site /\ Installed(mem[r].owner)
      BY <1>2, <2>1, <2>3, <3>1
    <3> QED BY <1>0, <2>1, <2>2, <3>1, <3>2
  <2>4. Behind'
    BY <2>3 DEF Behind, Installed
  <2> QED BY <1>3, <2>4, SearchPatched
<1>4. ASSUME NEW d \in Dll, NEW t \in Tramp, NEW s \in Site, NEW k \in HookType, NEW m \in MemType, NEW b \in Byte,
             Touch(d, k, t, m, s, b), Respects(d, k, t, m, s, b),
             \* the JMP of the other hooker stays only where this one changes nothing, or is there already
             \A f \in Foreign : Installed(f) /\ hook[f].site = s /\ b = hook[f].tramp =>
                 b = bytes[s] /\ k.site = s /\ m.owner = d /\ Installed(d)
      PROVE  Unraced' /\ Patched' /\ Behind'
  <2>1. /\ d \in Hooker /\ hook'[d] = k /\ \A g \in Hooker \ {d} : hook'[g] = hook[g]
        /\ mem'[t] = m /\ \A u \in Tramp \ {t} : mem'[u] = mem[u]
        /\ bytes'[s] = b /\ \A x \in Site \ {s} : bytes'[x] = bytes[x]
    BY <1>0, <1>4, TouchValues
  <2>2. mem[t].owner \in {"free", d} /\ (Installed(d) => hook[d].site = s /\ hook[d].tramp = t)
    BY <1>0, <1>4, Owners DEF Respects, Takes, GivesBack
  <2>3. ASSUME NEW f \in Foreign, hook'[f].pc = "installed", NEW u, u = hook'[f].tramp, NEW r, r = mem'[u].resume,
               bytes'[hook'[f].site] = u, r # Stub
        PROVE  mem'[r].owner \in Dll /\ hook'[mem'[r].owner].site = hook'[f].site
    <3>1. f # d /\ f \in Hooker /\ hook'[f] = hook[f] /\ Installed(f) /\ hook[f].site \in Site
      BY <1>0, <2>1, <2>3, Typed DEF Installed, HookType
    <3>2. u \in Tramp /\ mem[u].owner = f
      BY <2>3, <3>1, Owners
    <3>3. u # t
      BY <1>0, <2>2, <3>1, <3>2, ChainAssumption
    <3>4. r = mem[u].resume /\ bytes[hook[f].site] = u
      <4>1. CASE hook[f].site = s
        BY <1>4, <2>1, <2>3, <3>1, <3>2, <3>3, <4>1
      <4>2. CASE hook[f].site # s
        BY <2>1, <2>3, <3>1, <3>2, <3>3, <4>2
      <4> QED BY <4>1, <4>2
    <3>5. /\ r \in Tramp /\ mem[r].owner \in Dll /\ hook[mem[r].owner].site = hook[f].site
          /\ Installed(mem[r].owner) /\ hook[mem[r].owner].tramp = r
      BY <1>2, <2>3, <3>1, <3>4
    <3>6. CASE mem[r].owner = d
      <4>1. r = t /\ hook[f].site = s
        BY <2>2, <3>5, <3>6
      <4>2. b = u
        BY <2>1, <2>3, <3>1, <4>1
      <4>3. k.site = s /\ m.owner = d
        BY <1>4, <2>3, <3>1, <4>1, <4>2
      <4> QED BY <2>1, <3>1, <4>1, <4>3
    <3>7. CASE mem[r].owner # d
      <4>1. r # t
        BY <2>2, <3>5, <3>7, <1>0, ChainAssumption
      <4> QED BY <1>0, <2>1, <3>1, <3>5, <3>7, <4>1
    <3> QED BY <3>6, <3>7
  <2>4. Behind'
    BY <2>3 DEF Behind, Installed
  <2> QED BY <1>4, <2>1, <2>4, TouchPatched
<1>5. ASSUME NEW d \in Dll, NEW t \in Tramp, NEW s \in Site, NEW k \in HookType, NEW m \in MemType,
             ConstructStep(d, t, s, k, m)
      PROVE  Unraced' /\ Patched' /\ Behind'
  <2>1. Touch(d, k, t, m, s, t) /\ t \in Byte /\ mem[t] = Free
    BY <1>5 DEF ConstructStep, Byte
  <2>2. Respects(d, k, t, m, s, t)
    BY <1>1, <1>5, ConstructRespects
  <2>3. \A f \in Foreign : Installed(f) => t # hook[f].tramp
    BY <1>0, <2>1, Owners, NoHookType, ChainAssumption
  <2> QED BY <1>4, <2>1, <2>2, <2>3
<1>6. ASSUME NEW d \in Dll, NEW t \in Tramp, NEW s \in Site, NEW k \in HookType, NEW m \in MemType, NEW b \in Byte,
             RepairStep(d, t, s, k, m, b)
      PROVE  Unraced' /\ Patched' /\ Behind'
  <2>1. Respects(d, k, t, m, s, b)
    BY <1>1, <1>6, RepairRespects
  <2>2. mem[t].owner = d /\ m.owner = d
    BY <1>0, <1>6, Owners DEF RepairStep
  <2>3. \A f \in Foreign : Installed(f) => t # hook[f].tramp
    BY <1>0, <2>2, Owners
  <2>4. b = bytes[s] \/ b = t
    BY <1>6 DEF RepairStep
  <2>5. Installed(d) /\ k.site = s /\ Touch(d, k, t, m, s, b)
    BY <1>6 DEF RepairStep
  <2> QED BY <1>4, <2>1, <2>2, <2>3, <2>4, <2>5
<1>7. ASSUME NEW d \in Dll, NEW t \in Tramp, NEW s \in Site, NEW b \in Byte, DestroyStep(d, t, s, b)
      PROVE  Unraced' /\ Patched' /\ Behind'
  <2>1. PICK k \in HookType, m \in MemType : k = NoHook /\ m = Free
    BY NoHookType
  <2>2. Touch(d, k, t, m, s, b)
    BY <1>7, <2>1 DEF DestroyStep
  <2>3. Respects(d, k, t, m, s, b) /\ b = Original
    BY <1>1, <1>7, <2>1, DestroyRespects
  <2>4. \A f \in Foreign : Installed(f) => b # hook[f].tramp
    BY <1>0, <2>3, Owners, Typed
  <2> QED BY <1>4, <2>2, <2>3, <2>4
<1>8. ASSUME NEW f \in Foreign, NEW t \in Tramp, NEW s \in Site, NEW k \in HookType, NEW m \in MemType,
             StompStep(f, t, s, k, m)
      PROVE  Unraced' /\ Patched' /\ Behind'
  <2>1. /\ Touch(f, k, t, m, s, t) /\ t \in Byte /\ f \in Hooker /\ f \notin Dll
        /\ k.tramp = t /\ k.site = s
        /\ \/ hook[f].pc = "none" /\ mem[t] = Free
           \/ Installed(f) /\ t = hook[f].tramp /\ s = hook[f].site /\ bytes[s] # t
        /\ m.resume = Stub \/ (bytes[s] # Original /\ m.resume = bytes[s])
    <3>1. m.resume = Stub \/ (bytes[s] # Original /\ m.resume = bytes[s])
      BY <1>8 DEF StompStep
    <3> QED BY <1>0, <1>8, <3>1 DEF StompStep, Byte
  <2>2. Respects(f, k, t, m, s, t)
    BY <1>1, <1>8, StompRespects
  <2>3. Unraced' /\ Patched'
    BY <2>1, <2>2, TouchPatched
  <2>4. /\ hook'[f] = k /\ \A g \in Hooker \ {f} : hook'[g] = hook[g]
        /\ mem'[t] = m /\ \A u \in Tramp \ {t} : mem'[u] = mem[u]
    BY <1>0, <2>1, TouchValues
  <2>5. ASSUME m.resume # Stub, NEW r, r = bytes[s], bytes[s] # Original, m.resume = r
        PROVE  mem'[r].owner \in Dll /\ hook'[mem'[r].owner].site = s
    <3>1. r \in Tramp /\ mem[r].owner # "free" /\ hook[mem[r].owner].site = s
      BY <2>5, Owners DEF Patched
    <3>2. mem[r].owner \in Hooker /\ Installed(mem[r].owner) /\ hook[mem[r].owner].tramp = r
      BY <3>1, Owners
    <3>3. r # t
      BY <2>1, <2>5, <3>1, NoHookType
    <3>4. mem[r].owner # f
      BY <2>1, <3>2, <3>3 DEF Installed
    <3>5. mem[r].owner \in Dll
      BY <3>2, <3>4 DEF OneForeign, Hooker
    <3> QED BY <1>0, <2>4, <3>1, <3>2, <3>3, <3>4, <3>5
  <2>6. ASSUME NEW g \in Foreign, hook'[g].pc = "installed", NEW u, u = hook'[g].tramp, NEW r, r = mem'[u].resume,
               r # Stub
        PROVE  mem'[r].owner \in Dll /\ hook'[mem'[r].owner].site = hook'[g].site
    <3>1. g = f
      BY DEF OneForeign
    <3>2. hook'[g] = k /\ u = t /\ r = m.resume
      BY <2>1, <2>4, <2>6, <3>1
    <3>3. bytes[s] # Original /\ r = bytes[s]
      BY <2>1, <2>6, <3>2
    <3> QED BY <2>1, <2>5, <2>6, <3>2, <3>3
  <2>7. Behind'
    BY <2>6 DEF Behind, Installed
  <2> QED BY <2>3, <2>7
<1>9. ASSUME NEW f \in Foreign, NEW t \in Tramp, NEW s \in Site, NEW b \in Byte, LeaveStep(f, t, s, b)
      PROVE  Unraced' /\ Patched' /\ Behind'
  <2>1. PICK k \in HookType, m \in MemType : k = NoHook /\ m = Free
    BY NoHookType
  <2>2. Touch(f, k, t, m, s, b) /\ f \in Hooker
    BY <1>0, <1>9, <2>1 DEF LeaveStep
  <2>3. Respects(f, k, t, m, s, b)
    BY <1>1, <1>9, <2>1, LeaveRespects
  <2>4. hook'[f] = k
    BY <1>0, <2>2, TouchValues
  <2>5. \A g \in Foreign : hook'[g].pc = "none"
    BY <2>1, <2>4, NoHookType DEF OneForeign
  <2>6. Behind'
    BY <2>5 DEF Behind, Installed
  <2> QED BY <2>2, <2>3, <2>6, TouchPatched
<1> QED BY <1>3, <1>5, <1>6, <1>7, <1>8, <1>9, StepShape

\* Nothing that has gone wrong is forgotten.
LEMMA MishapsGrow == ASSUME Base, Next PROVE mishap \subseteq mishap'
<1>1. ASSUME NEW d \in Dll, NEW k \in HookType, SearchStep(d, k) PROVE mishap \subseteq mishap'
  BY <1>1 DEF SearchStep
<1>2. ASSUME NEW ms, History(ms) PROVE mishap \subseteq mishap'
  BY <1>2 DEF History
<1> QED BY <1>1, <1>2, StepShape DEF ConstructStep, RepairStep, DestroyStep, StompStep, LeaveStep

LEMMA ChainInvariant == Spec => []ChainInv
<1>1. Init => ChainInv
  <2> SUFFICES ASSUME Init PROVE ChainInv
    OBVIOUS
  <2>1. Base
    BY InitBase
  <2>2. /\ bytes = [s \in Site |-> Original] /\ mem = [t \in Tramp |-> Free]
        /\ hook = [h \in Hooker |-> NoHook] /\ Dll \subseteq Hooker /\ Foreign \subseteq Hooker
    BY DEF Init, Hooker
  <2>3. Unraced /\ Patched
    BY <2>2, NoHookType DEF Unraced, Patched
  <2>4. \A t \in Tramp : mem[t].owner \notin Hooker
    BY <2>2, NoHookType, ChainAssumption
  <2>5. Straight
    BY <2>2, <2>4, NoHookType DEF Straight, Apart, Installed
  <2>6. Behind
    BY <2>2, NoHookType DEF Behind, Installed
  <2> QED BY <2>1, <2>3, <2>5, <2>6 DEF ChainInv, Base
<1>2. ChainInv /\ [Next]_vars => ChainInv'
  <2> SUFFICES ASSUME ChainInv, [Next]_vars PROVE ChainInv'
    OBVIOUS
  <2>1. Base /\ Base'
    BY NextBase DEF ChainInv, Base
  <2>2. CASE UNCHANGED vars
    BY <2>1, <2>2 DEF ChainInv, Base, Calm, Returning, AtWorst, Unraced, Patched, Straight, Apart, Behind, Installed, vars
  <2>3. CASE Next
    <3>1. (Calm' => Calm) /\ (Returning' => Returning)
      BY <2>1, <2>3, MishapsGrow DEF Calm, Returning, AtWorst
    <3>2. Calm' => Unraced' /\ Patched' /\ Straight'
      BY <2>1, <2>3, <3>1, CalmNext DEF ChainInv
    <3>3. OneForeign /\ Returning' => Unraced' /\ Patched' /\ Behind'
      BY <2>1, <2>3, <3>1, ReturningNext DEF ChainInv
    <3>4. OneForeign' <=> OneForeign
      BY DEF OneForeign
    <3> QED BY <2>1, <3>2, <3>3, <3>4 DEF ChainInv, Base
  <2> QED BY <2>2, <2>3
<1> QED BY <1>1, <1>2, PTL DEF Spec

\* Where one foreign hooker shares the stub with any number of copies of vmhook, the stub is what the JVM
\* generated once every ~midi2i_hook() has run and that hooker is gone, whoever patched over whom in between,
\* unless a removal failed or raced an install.
THEOREM StubComesBack == OneForeign => (Spec => []StubRestored)
<1> SUFFICES ASSUME OneForeign PROVE Spec => []StubRestored
  OBVIOUS
<1>1. ChainInv => StubRestored
  <2> SUFFICES ASSUME ChainInv, Returning, \A h \in Hooker : hook[h].tramp = NoTramp, NEW s \in Site,
                      bytes[s] # Original
               PROVE  FALSE
    BY DEF StubRestored, Returning
  <2>1. Base /\ Patched /\ TypeOK
    BY DEF ChainInv, Base
  <2>2. bytes[s] \in Tramp /\ mem[bytes[s]].owner # "free"
    BY <2>1, Owners DEF Patched
  <2>3. mem[bytes[s]].owner \in Hooker /\ hook[mem[bytes[s]].owner].tramp = bytes[s]
    BY <2>1, <2>2, Owners
  <2> QED BY <2>2, <2>3, ChainAssumption
<1> QED BY <1>1, ChainInvariant, PTL

-----------------------------------------------------------------------------
(* A call that reaches a site.                                             *)

Hop(t) == IF t \in Tramp /\ mem[t] # Free /\ mem[t].saved = Original THEN mem[t].resume ELSE t

LEMMA NoHopOut ==
    /\ Hop(Original) = Original /\ Hop(Stub) = Stub
BY ChainAssumption DEF Hop

LEMMA LeastNat ==
    ASSUME NEW S, S \subseteq Nat, S # {}
    PROVE  \E x \in S : \A y \in S : ~(y < x)
<1>1. PICK x \in S : \A y \in S : ~(<<y, x>> \in OpToRel(<, Nat))
  BY NatLessThanWellFounded, WFMin
<1> QED BY <1>1 DEF OpToRel

\* Where two trampolines are enough to be back, a call is there for good.
LEMMA WalkHops ==
    ASSUME NEW s \in Site, NEW b, b = bytes[s], NEW c, c = Hop(b), Hop(c) \in {Original, Stub},
           NEW n \in Nat, n = Cardinality(Tramp)
    PROVE  Walk(s)[n] = IF n = 0 THEN b ELSE IF n = 1 THEN c ELSE Hop(c)
<1> DEFINE F == [i \in 0..n |-> IF i = 0 THEN b ELSE IF i = 1 THEN c ELSE Hop(c)]
<1>1. F = [i \in 0..n |-> IF i = 0 THEN b ELSE Hop(F[i - 1])]
  <2>1. Hop(Hop(c)) = Hop(c)
    BY NoHopOut
  <2>2. ASSUME NEW i \in 0..n PROVE F[i] = IF i = 0 THEN b ELSE Hop(F[i - 1])
    <3>1. CASE i = 0
      BY <3>1
    <3>2. CASE i = 1
      <4>1. F[0] = b /\ F[1] = c
        BY <2>2, <3>2
      <4> QED BY <3>2, <4>1
    <3>3. CASE i > 1
      <4>1. i - 1 \in 0..n /\ i - 1 # 0 /\ i # 0 /\ i # 1
        BY <2>2, <3>3
      <4>2. F[i] = Hop(c) /\ (F[i - 1] = c \/ F[i - 1] = Hop(c))
        BY <4>1
      <4> QED BY <2>1, <4>1, <4>2
    <3> QED BY <2>2, <3>1, <3>2, <3>3
  <2> QED BY <2>2
<1> DEFINE w == Walk(s)
<1>2. w = [i \in 0..n |-> IF i = 0 THEN b ELSE Hop(w[i - 1])]
  <2> HIDE DEF F
  <2>1. \E f : f = [i \in 0..n |-> IF i = 0 THEN b ELSE Hop(f[i - 1])]
    BY <1>1
  <2> QED BY <2>1 DEF Walk, Hop
<1> HIDE DEF w
<1>3. w[0] = b /\ \A i \in 1..n : w[i] = Hop(w[i - 1])
  BY <1>2
<1>4. F[0] = b /\ \A i \in 1..n : F[i] = Hop(F[i - 1])
  <2> HIDE DEF F
  <2> QED BY <1>1
<1>5. w[n] = F[n]
  <2> HIDE DEF F
  <2> SUFFICES ASSUME w[n] # F[n] PROVE FALSE
    OBVIOUS
  <2> DEFINE S == {i \in 0..n : w[i] # F[i]}
  <2>1. n \in S /\ S \subseteq Nat
    OBVIOUS
  <2> HIDE DEF S
  <2>2. PICK x \in S : \A y \in S : ~(y < x)
    BY <2>1, LeastNat
  <2>3. x \in 0..n /\ w[x] # F[x]
    BY <2>2 DEF S
  <2>4. x \in 1..n /\ x - 1 \in 0..n /\ x - 1 < x
    BY <1>3, <1>4, <2>3
  <2>5. w[x - 1] = F[x - 1]
    BY <2>2, <2>4 DEF S
  <2> QED BY <1>3, <1>4, <2>3, <2>4, <2>5
<1> QED BY <1>5 DEF w

\* A Java call that reaches a place that any number of hookers have patched comes back to the stub: the
\* trampolines it enters are in use, begin with the original instruction and are at most two, a copy of
\* vmhook's and a foreign one behind it, also where verify_and_repair() could not unprotect a page.
THEOREM CallsComeBack == Spec => []ReturnsToStub
<1>1. ChainInv => ReturnsToStub
  <2> SUFFICES ASSUME ChainInv, Calm, NEW s \in Site
               PROVE  Walk(s)[Cardinality(Tramp)] \in {Original, Stub}
    BY DEF ReturnsToStub, Calm
  <2>1. Base /\ TypeOK /\ Unraced /\ Patched /\ Straight
    BY DEF ChainInv, Base
  <2>2. PICK n : n = Cardinality(Tramp)
    OBVIOUS
  <2>3. n \in Nat
    BY <2>2, FS_CardinalityType, ChainAssumption
  <2>4. PICK b : b = bytes[s]
    OBVIOUS
  <2>5. PICK c : c = Hop(b)
    OBVIOUS
  <2>6. \A t \in Tramp : mem[t].owner # "free" => Hop(t) = mem[t].resume
    BY <2>1, NoHookType DEF Hop, Unraced
  <2>7. Hop(c) \in {Original, Stub} => Walk(s)[n] = IF n = 0 THEN b ELSE IF n = 1 THEN c ELSE Hop(c)
    BY <2>2, <2>3, <2>4, <2>5, WalkHops
  <2>8. CASE b = Original
    <3>1. c = Original /\ Hop(c) = Original
      BY <2>5, <2>8, NoHopOut
    <3> QED BY <2>2, <2>7, <2>8, <3>1
  <2>9. CASE b # Original
    <3>1. b \in Tramp /\ mem[b].owner # "free"
      BY <2>1, <2>4, <2>9, Owners DEF Patched
    <3>2. c = mem[b].resume /\ mem[b].owner \in Hooker /\ c \in Tramp \cup {Stub}
      BY <2>1, <2>5, <2>6, <3>1, Owners, Typed DEF MemType
    <3>3. n # 0
      BY <2>2, <3>1, FS_EmptySet, ChainAssumption
    <3>4. CASE c = Stub
      <4>1. Hop(c) = Stub
        BY <3>4, NoHopOut
      <4> QED BY <2>2, <2>7, <3>3, <3>4, <4>1
    <3>5. CASE c # Stub
      <4>1. c \in Tramp /\ mem[c].owner \in Foreign /\ mem[b].owner \in Dll
        BY <2>1, <3>1, <3>2, <3>5 DEF Straight, Apart, Hooker
      <4>2. c # b
        BY <4>1, ChainAssumption
      <4>3. Hop(c) = Stub
        BY <2>1, <2>6, <4>1, ChainAssumption DEF Straight, Apart, Hooker
      <4>4. n # 1
        BY <2>2, <3>1, <4>1, <4>2, FS_Singleton, ChainAssumption
      <4> QED BY <2>2, <2>7, <3>3, <4>3, <4>4
    <3> QED BY <3>4, <3>5
  <2> QED BY <2>8, <2>9
<1> QED BY <1>1, ChainInvariant, PTL

-----------------------------------------------------------------------------
(* The third regime: Enclosed.  It has failed removals too, so a JMP may   *)
(* go to a trampoline that is released, or in use for another place.       *)

Lasting == AtWorst({"chained", "rewrite", "repair", "destroy"})

\* The trampolines that control can reach from the place of d are among those in Z: that of d and
\* those of foreign hookers on the same place.
Within(d, Z) ==
    /\ Stub \in Z /\ hook[d].tramp \in Z /\ bytes[hook[d].site] \in Z
    /\ \A z \in Z \cap Tramp :
          /\ mem[z].resume \in Z
          /\ z = hook[d].tramp \/ (mem[z].owner \in Foreign /\ hook[mem[z].owner].site = hook[d].site)

Enclosed == \A d \in Dll : Installed(d) => \E Z \in SUBSET (Tramp \cup {Stub}) : Within(d, Z)

\* The resume JMP goes where midi2i_hook has noted, unless rewrite_chain_resume() failed once.
InStep ==
    "rewrite" \notin mishap =>
        \A d \in Dll : Installed(d) => mem[hook[d].tramp].resume = ResumeAt(hook[d].chain)

\* A step on another place with a trampoline outside of Z leaves Z closed.
LEMMA ElsewhereWithin ==
    ASSUME Base, NEW h \in Hooker, NEW k \in HookType, NEW t \in Tramp, NEW m \in MemType,
           NEW s \in Site, NEW b \in Byte, Touch(h, k, t, m, s, b),
           NEW d \in Dll, d # h, Installed(d), hook[d].site # s,
           NEW Z \in SUBSET (Tramp \cup {Stub}), Within(d, Z), t \notin Z,
           h \in Foreign => ~Installed(h) \/ k.site = hook[h].site
    PROVE  Within(d, Z)'
<1>0. TypeOK /\ Owned /\ d \in Hooker /\ hook[d].site \in Site
  BY Typed DEF Base, HookType
<1>1. /\ hook'[h] = k /\ \A g \in Hooker \ {h} : hook'[g] = hook[g]
      /\ \A u \in Tramp \ {t} : mem'[u] = mem[u]
      /\ \A x \in Site \ {s} : bytes'[x] = bytes[x]
  BY <1>0, TouchValues
<1>2. hook'[d] = hook[d] /\ bytes'[hook[d].site] = bytes[hook[d].site]
  BY <1>0, <1>1
<1>3. ASSUME NEW z \in Z \cap Tramp
      PROVE  /\ mem'[z].resume \in Z
             /\ z = hook[d].tramp \/ (mem'[z].owner \in Foreign /\ hook'[mem'[z].owner].site = hook[d].site)
  <2>1. mem'[z] = mem[z] /\ mem[z].resume \in Z
    BY <1>1 DEF Within
  <2>2. CASE z = hook[d].tramp
    BY <2>1, <2>2
  <2>3. CASE mem[z].owner \in Foreign /\ hook[mem[z].owner].site = hook[d].site
    <3>1. PICK g \in Foreign : g = mem[z].owner
      BY <2>3
    <3>2. g \in Hooker /\ g # "free"
      BY ChainAssumption DEF Hooker
    <3>3. Installed(g)
      BY <3>1, <3>2, Owners
    <3>4. hook'[g].site = hook[g].site
      BY <1>1, <3>2, <3>3
    <3> QED BY <2>1, <2>3, <3>1, <3>4
  <2> QED BY <2>1, <2>2, <2>3 DEF Within
<1> QED BY <1>2, <1>3 DEF Within

\* A trampoline that is free, or of another copy of vmhook, or of a foreign hooker on another
\* place, is outside.
LEMMA Outside ==
    ASSUME Base, NEW d \in Dll, Installed(d), NEW Z \in SUBSET (Tramp \cup {Stub}), Within(d, Z), NEW t \in Tramp,
           t # hook[d].tramp, mem[t].owner \in Foreign => hook[mem[t].owner].site # hook[d].site
    PROVE  t \notin Z
BY DEF Within

LEMMA SearchEnclosed ==
    ASSUME Base, Enclosed, NEW c \in Dll, NEW k \in HookType, SearchStep(c, k)
    PROVE  Enclosed'
<1>0. TypeOK /\ Owned /\ c \in Hooker /\ Dll \subseteq Hooker /\ Foreign \subseteq Hooker \ {c}
  BY ChainAssumption DEF Base, Hooker
<1>1. /\ hook' = [hook EXCEPT ![c] = k] /\ bytes' = bytes /\ mem' = mem
      /\ hook[c].pc # "installed" /\ k.pc # "installed"
  BY DEF SearchStep
<1>2. hook'[c] = k /\ \A g \in Hooker \ {c} : hook'[g] = hook[g]
  BY <1>0, <1>1, Typed
<1> SUFFICES ASSUME NEW d \in Dll, hook'[d].pc = "installed"
             PROVE  \E Z \in SUBSET (Tramp \cup {Stub}) : Within(d, Z)'
  BY DEF Enclosed, Installed
<1>3. d # c /\ hook'[d] = hook[d] /\ Installed(d)
  BY <1>0, <1>1, <1>2 DEF Installed
<1>4. PICK Z \in SUBSET (Tramp \cup {Stub}) : Within(d, Z)
  BY <1>3 DEF Enclosed
<1>5. Within(d, Z)'
  BY <1>0, <1>1, <1>2, <1>3, <1>4 DEF Within
<1> QED BY <1>5

LEMMA LastingNext ==
    ASSUME Base, Unraced, Apart, Enclosed, Lasting', Next
    PROVE  Unraced' /\ Apart' /\ Enclosed'
<1>0. TypeOK /\ Owned /\ Dll \subseteq Hooker /\ Foreign \subseteq Hooker /\ Dll \cap Foreign = {}
  BY ChainAssumption DEF Base, Hooker
<1>1. "raced" \notin mishap' /\ "left" \notin mishap'
  BY DEF Lasting, AtWorst
<1>2. ASSUME NEW d \in Dll, NEW k \in HookType, SearchStep(d, k) PROVE Unraced' /\ Apart' /\ Enclosed'
  BY <1>2, SearchUnraced, SearchApart, SearchEnclosed
<1>3. ASSUME NEW c \in Dll, NEW t \in Tramp, NEW s \in Site, NEW k \in HookType, NEW m \in MemType,
             ConstructStep(c, t, s, k, m)
      PROVE  Unraced' /\ Apart' /\ Enclosed'
  <2>1. Touch(c, k, t, m, s, t) /\ t \in Byte /\ c \in Hooker /\ t # Original
    BY <1>0, <1>3, Typed DEF ConstructStep, Byte
  <2>2. /\ hook[c].pc = "detected" /\ hook[c].site = s /\ mem[t] = Free /\ Alone(c, s)
        /\ k.pc = "installed" /\ k.site = s /\ k.tramp = t /\ m.owner = c
        /\ m.saved = bytes[s] /\ m.resume = ResumeAt(hook[c].chain)
    BY <1>1, <1>3 DEF ConstructStep, Noticed
  <2>3. m.saved = Original /\ m.resume = Stub
    BY <2>2 DEF Unraced, ResumeAt
  <2>4. Takes(c, k, t, m)
    BY <2>2, NoHookType DEF Takes, Installed
  <2>5. \A e \in Dll \ {c} : hook[e].pc # "none" => hook[e].site # k.site
    <3> SUFFICES ASSUME NEW e \in Dll \ {c}, hook[e].pc # "none" PROVE hook[e].site # s
      BY <2>2
    <3>1. hook[e].pc \in {"found", "detected", "installed"}
      BY <1>0, Typed DEF HookType
    <3>2. CASE Installed(e)
      BY <2>2, <3>2 DEF Apart
    <3>3. CASE hook[e].pc \in {"found", "detected"}
      BY <2>2, <3>3 DEF Alone
    <3> QED BY <3>1, <3>2, <3>3 DEF Installed
  <2>6. Unraced'
    BY <2>1, <2>2, <2>3, <2>4, TouchUnraced
  <2>7. Apart'
    BY <2>1, <2>2, <2>5, TouchApart
  <2>8. ASSUME NEW d \in Dll, hook'[d].pc = "installed"
        PROVE  \E Z \in SUBSET (Tramp \cup {Stub}) : Within(d, Z)'
    <3>1. /\ hook'[c] = k /\ \A g \in Hooker \ {c} : hook'[g] = hook[g]
          /\ mem'[t] = m /\ bytes'[s] = t
      BY <1>0, <2>1, TouchValues
    <3>2. CASE d = c
      <4>1. PICK Z : Z = {t, Stub}
        OBVIOUS
      <4>2. Z \in SUBSET (Tramp \cup {Stub}) /\ \A z \in Z \cap Tramp : z = t
        BY <4>1, ChainAssumption
      <4>3. Within(d, Z)'
        BY <2>2, <2>3, <3>1, <3>2, <4>1, <4>2 DEF Within
      <4> QED BY <4>2, <4>3
    <3>3. CASE d # c
      <4>1. hook'[d] = hook[d] /\ Installed(d) /\ hook[d].site # s
        BY <1>0, <2>2, <2>5, <2>8, <3>1, <3>3 DEF Installed
      <4>2. PICK Z \in SUBSET (Tramp \cup {Stub}) : Within(d, Z)
        BY <4>1 DEF Enclosed
      <4>3. t # hook[d].tramp /\ mem[t].owner \notin Foreign
        BY <1>0, <2>2, <4>1, Owners, NoHookType, ChainAssumption
      <4>4. t \notin Z
        BY <4>1, <4>2, <4>3, Outside
      <4>5. c \notin Foreign
        BY <1>0
      <4>6. Within(d, Z)'
        BY <2>1, <3>3, <4>1, <4>2, <4>4, <4>5, ElsewhereWithin
      <4> QED BY <4>6
    <3> QED BY <3>2, <3>3
  <2> QED BY <2>6, <2>7, <2>8 DEF Enclosed, Installed
<1>4. ASSUME NEW c \in Dll, NEW t \in Tramp, NEW s \in Site, NEW k \in HookType, NEW m \in MemType, NEW b \in Byte,
             RepairStep(c, t, s, k, m, b)
      PROVE  Unraced' /\ Apart' /\ Enclosed'
  <2>1. /\ Touch(c, k, t, m, s, b) /\ Installed(c) /\ t = hook[c].tramp /\ s = hook[c].site /\ bytes[s] # t
        /\ k.pc = "installed" /\ k.site = s /\ k.tramp = t /\ m.owner = mem[t].owner /\ m.saved = mem[t].saved
        /\ m.resume = mem[t].resume \/ m.resume = bytes[s]
        /\ b = bytes[s] \/ (b = t /\ Alone(c, s))
    BY <1>1, <1>4 DEF RepairStep, Noticed
  <2>2. c \in Hooker /\ mem[t].owner = c /\ m.owner = c /\ c \notin Foreign /\ t # Original /\ m.saved = Original
    BY <1>0, <2>1, Owners, Typed DEF Unraced
  <2>3. bytes[s] # Original /\ b # Original
    BY <2>1, <2>2 DEF Apart
  <2>4. Takes(c, k, t, m)
    BY <2>1, <2>2 DEF Takes
  <2>5. \A e \in Dll \ {c} : hook[e].pc # "none" => hook[e].site # k.site
    BY <2>1 DEF Apart
  <2>6. Unraced'
    BY <2>1, <2>2, <2>4, TouchUnraced
  <2>7. Apart'
    BY <2>1, <2>2, <2>3, <2>5, TouchApart
  <2>8. ASSUME NEW d \in Dll, hook'[d].pc = "installed"
        PROVE  \E Z \in SUBSET (Tramp \cup {Stub}) : Within(d, Z)'
    <3>1. /\ hook'[c] = k /\ \A g \in Hooker \ {c} : hook'[g] = hook[g]
          /\ mem'[t] = m /\ \A u \in Tramp \ {t} : mem'[u] = mem[u]
          /\ bytes'[s] = b
      BY <1>0, <2>1, <2>2, TouchValues
    <3>2. CASE d = c
      <4>1. PICK Z \in SUBSET (Tramp \cup {Stub}) : Within(d, Z)
        BY <2>1, <3>2 DEF Enclosed
      <4>2. t \in Z /\ bytes[s] \in Z /\ mem[t].resume \in Z /\ Stub \in Z
        BY <2>1, <3>2, <4>1 DEF Within
      <4>3. ASSUME NEW z \in Z \cap Tramp
            PROVE  mem'[z].resume \in Z /\ (z = t \/ (mem'[z].owner \in Foreign /\ hook'[mem'[z].owner].site = s))
        <5>1. CASE z = t
          BY <2>1, <3>1, <4>2, <5>1
        <5>2. CASE z # t
          <6>1. mem'[z] = mem[z] /\ mem[z].resume \in Z /\ mem[z].owner \in Foreign /\ hook[mem[z].owner].site = s
            BY <2>1, <3>1, <3>2, <4>1, <5>2 DEF Within
          <6>2. hook'[mem[z].owner] = hook[mem[z].owner]
            BY <1>0, <2>2, <3>1, <6>1
          <6> QED BY <6>1, <6>2
        <5> QED BY <5>1, <5>2
      <4>4. Within(d, Z)'
        BY <2>1, <3>1, <3>2, <4>2, <4>3 DEF Within
      <4> QED BY <4>4
    <3>3. CASE d # c
      <4>1. hook'[d] = hook[d] /\ Installed(d) /\ hook[d].site # s
        BY <1>0, <2>1, <2>2, <2>5, <2>8, <3>1, <3>3 DEF Installed
      <4>2. PICK Z \in SUBSET (Tramp \cup {Stub}) : Within(d, Z)
        BY <4>1 DEF Enclosed
      <4>3. t # hook[d].tramp /\ mem[t].owner \notin Foreign
        BY <1>0, <2>2, <3>3, <4>1, Owners
      <4>4. t \notin Z
        BY <4>1, <4>2, <4>3, Outside
      <4>5. Within(d, Z)'
        BY <2>1, <2>2, <3>3, <4>1, <4>2, <4>4, ElsewhereWithin
      <4> QED BY <4>5
    <3> QED BY <3>2, <3>3
  <2> QED BY <2>6, <2>7, <2>8 DEF Enclosed, Installed
<1>5. ASSUME NEW c \in Dll, NEW t \in Tramp, NEW s \in Site, NEW b \in Byte, DestroyStep(c, t, s, b)
      PROVE  Unraced' /\ Apart' /\ Enclosed'
  <2>1. PICK k \in HookType, m \in MemType : k = NoHook /\ m = Free
    BY NoHookType
  <2>2. Touch(c, k, t, m, s, b) /\ Installed(c) /\ t = hook[c].tramp /\ s = hook[c].site
    BY <1>5, <2>1 DEF DestroyStep
  <2>3. b = bytes[s] \/ b = Original
    BY <1>5 DEF DestroyStep, Unraced
  <2>4. c \in Hooker /\ mem[t].owner = c /\ c \notin Foreign /\ k.pc = "none" /\ m.saved = Original
    BY <1>0, <2>1, <2>2, Owners, NoHookType
  <2>5. GivesBack(c, k, t, m)
    BY <2>1, <2>2 DEF GivesBack
  <2>6. \A e \in Dll \ {c} : Installed(e) => hook[e].site # s
    BY <2>2 DEF Apart, Installed
  <2>7. Unraced'
    BY <2>2, <2>3, <2>4, <2>5, TouchUnraced
  <2>8. Apart'
    BY <2>2, <2>4, <2>6, TouchApart
  <2>9. ASSUME NEW d \in Dll, hook'[d].pc = "installed"
        PROVE  \E Z \in SUBSET (Tramp \cup {Stub}) : Within(d, Z)'
    <3>1. hook'[c] = k /\ \A g \in Hooker \ {c} : hook'[g] = hook[g]
      BY <1>0, <2>2, <2>4, TouchValues
    <3>2. d # c
      BY <2>4, <2>9, <3>1
    <3>3. hook'[d] = hook[d] /\ Installed(d) /\ hook[d].site # s
      BY <1>0, <2>6, <2>9, <3>1, <3>2 DEF Installed
    <3>4. PICK Z \in SUBSET (Tramp \cup {Stub}) : Within(d, Z)
      BY <3>3 DEF Enclosed
    <3>5. t # hook[d].tramp /\ mem[t].owner \notin Foreign
      BY <1>0, <2>4, <3>2, <3>3, Owners
    <3>6. t \notin Z
      BY <3>3, <3>4, <3>5, Outside
    <3>7. Within(d, Z)'
      BY <2>2, <2>4, <3>2, <3>3, <3>4, <3>6, ElsewhereWithin
    <3> QED BY <3>7
  <2> QED BY <2>7, <2>8, <2>9 DEF Enclosed, Installed
<1>6. ASSUME NEW f \in Foreign, NEW t \in Tramp, NEW s \in Site, NEW k \in HookType, NEW m \in MemType,
             StompStep(f, t, s, k, m)
      PROVE  Unraced' /\ Apart' /\ Enclosed'
  <2>1. Touch(f, k, t, m, s, t) /\ t \in Byte /\ f \in Hooker /\ t # Original /\ f \notin Dll
    BY <1>0, <1>6, Typed DEF StompStep, Byte
  <2>2. /\ \/ hook[f].pc = "none" /\ mem[t] = Free
           \/ Installed(f) /\ t = hook[f].tramp /\ s = hook[f].site
        /\ k.pc = "installed" /\ k.tramp = t /\ k.site = s /\ m.owner = f /\ m.saved = Original
        /\ m.resume = Stub \/ m.resume = bytes[s]
        /\ Alone(f, s)
    BY <1>1, <1>6 DEF StompStep, Noticed
  <2>3. Takes(f, k, t, m)
    BY <2>1, <2>2, NoHookType, Owners DEF Takes, Installed
  <2>4. Unraced'
    BY <2>1, <2>2, <2>3, TouchUnraced
  <2>5. Apart'
    BY <2>1, TouchApart
  <2>6. mem[t].owner \in {"free", f} /\ f # "free"
    BY <2>1, <2>3, ChainAssumption DEF Takes
  <2>7. ASSUME NEW d \in Dll, hook'[d].pc = "installed"
        PROVE  \E Z \in SUBSET (Tramp \cup {Stub}) : Within(d, Z)'
    <3>1. /\ hook'[f] = k /\ \A g \in Hooker \ {f} : hook'[g] = hook[g]
          /\ mem'[t] = m /\ \A u \in Tramp \ {t} : mem'[u] = mem[u]
          /\ bytes'[s] = t
      BY <1>0, <2>1, TouchValues
    <3>2. d \in Hooker /\ d # f /\ hook'[d] = hook[d] /\ Installed(d)
      BY <1>0, <2>1, <2>7, <3>1 DEF Installed
    <3>3. t # hook[d].tramp
      BY <1>0, <2>6, <3>2, Owners, ChainAssumption
    <3>4. PICK Z \in SUBSET (Tramp \cup {Stub}) : Within(d, Z)
      BY <3>2 DEF Enclosed
    <3>5. CASE hook[d].site = s
      <4>1. PICK Y : Y = Z \cup {t}
        OBVIOUS
      <4>2. Y \in SUBSET (Tramp \cup {Stub}) /\ t \in Y /\ Stub \in Y /\ hook[d].tramp \in Y /\ m.resume \in Y
        BY <2>2, <3>4, <3>5, <4>1 DEF Within
      <4>3. ASSUME NEW z \in Y \cap Tramp
            PROVE  /\ mem'[z].resume \in Y
                   /\ z = hook[d].tramp \/ (mem'[z].owner \in Foreign /\ hook'[mem'[z].owner].site = s)
        <5>1. CASE z = t
          BY <2>2, <3>1, <4>2, <5>1
        <5>2. CASE z # t
          <6>1. mem'[z] = mem[z] /\ z \in Z \cap Tramp
            BY <3>1, <4>1, <5>2
          <6>2. mem[z].resume \in Y
            BY <3>4, <4>1, <6>1 DEF Within
          <6>3. CASE z = hook[d].tramp
            BY <6>1, <6>2, <6>3
          <6>4. CASE mem[z].owner \in Foreign /\ hook[mem[z].owner].site = s
            <7>1. PICK g \in Foreign : g = mem[z].owner
              BY <6>4
            <7>2. g \in Hooker /\ g # "free"
              BY <1>0, ChainAssumption
            <7>3. Installed(g) /\ hook[g].tramp = z
              BY <6>1, <7>1, <7>2, Owners
            <7>4. g # f
              BY <2>2, <5>2, <7>3 DEF Installed
            <7>5. hook'[g] = hook[g]
              BY <3>1, <7>2, <7>4
            <7> QED BY <6>1, <6>2, <6>4, <7>1, <7>5
          <6> QED BY <3>4, <3>5, <6>1, <6>3, <6>4 DEF Within
        <5> QED BY <5>1, <5>2
      <4>4. Within(d, Y)'
        BY <3>1, <3>2, <3>5, <4>2, <4>3 DEF Within
      <4> QED BY <4>2, <4>4
    <3>6. CASE hook[d].site # s
      <4>1. mem[t].owner \in Foreign => hook[mem[t].owner].site # hook[d].site
        <5> SUFFICES ASSUME mem[t].owner \in Foreign PROVE hook[f].site # hook[d].site
          BY <2>6, ChainAssumption DEF Hooker
        <5>1. mem[t] # Free
          BY <1>0, NoHookType, ChainAssumption
        <5> QED BY <2>2, <3>6, <5>1
      <4>2. t \notin Z
        BY <3>2, <3>3, <3>4, <4>1, Outside
      <4>3. ~Installed(f) \/ k.site = hook[f].site
        BY <2>2 DEF Installed
      <4>4. Within(d, Z)'
        BY <2>1, <3>2, <3>4, <3>6, <4>2, <4>3, ElsewhereWithin
      <4> QED BY <4>4
    <3> QED BY <3>5, <3>6
  <2> QED BY <2>4, <2>5, <2>7 DEF Enclosed, Installed
<1>7. ASSUME NEW f \in Foreign, NEW t \in Tramp, NEW s \in Site, NEW b \in Byte, LeaveStep(f, t, s, b) PROVE FALSE
  BY <1>1, <1>7 DEF LeaveStep, History
<1> QED BY <1>2, <1>3, <1>4, <1>5, <1>6, <1>7, StepShape

\* A step of another hooker leaves the hook and the trampoline of d alone.
LEMMA OtherInStep ==
    ASSUME Base, NEW h \in Hooker, NEW k \in HookType, NEW t \in Tramp, NEW m \in MemType,
           NEW s \in Site, NEW b \in Byte, Touch(h, k, t, m, s, b), Takes(h, k, t, m) \/ GivesBack(h, k, t, m),
           NEW d \in Dll, d # h, hook'[d].pc = "installed"
    PROVE  Installed(d) /\ hook'[d] = hook[d] /\ mem'[hook[d].tramp] = mem[hook[d].tramp]
<1>0. TypeOK /\ Owned /\ d \in Hooker \ {h}
  BY DEF Base, Hooker
<1>1. /\ \A g \in Hooker \ {h} : hook'[g] = hook[g]
      /\ \A u \in Tramp \ {t} : mem'[u] = mem[u]
  BY <1>0, TouchValues
<1>2. hook'[d] = hook[d] /\ Installed(d)
  BY <1>0, <1>1 DEF Installed
<1>3. hook[d].tramp \in Tramp /\ mem[hook[d].tramp].owner = d
  BY <1>0, <1>2, Owners
<1>4. mem[t].owner \in {"free", h} /\ d # "free"
  BY <1>0, Owners, ChainAssumption DEF Takes, GivesBack
<1> QED BY <1>0, <1>1, <1>2, <1>3, <1>4

LEMMA InStepNext ==
    ASSUME Base, InStep, Next
    PROVE  InStep'
<1>0. TypeOK /\ Owned /\ Dll \subseteq Hooker /\ Foreign \subseteq Hooker /\ Dll \cap Foreign = {}
  BY ChainAssumption DEF Base, Hooker
<1> SUFFICES ASSUME "rewrite" \notin mishap', NEW d \in Dll, hook'[d].pc = "installed"
             PROVE  mem'[hook'[d].tramp].resume = ResumeAt(hook'[d].chain)
  BY DEF InStep, Installed, ResumeAt
<1>1. \A e \in Dll : Installed(e) => mem[hook[e].tramp].resume = ResumeAt(hook[e].chain)
  BY MishapsGrow DEF InStep
<1>2. ASSUME NEW c \in Dll, NEW k \in HookType, SearchStep(c, k)
      PROVE  mem'[hook'[d].tramp].resume = ResumeAt(hook'[d].chain)
  <2>1. hook' = [hook EXCEPT ![c] = k] /\ mem' = mem /\ k.pc # "installed"
    BY <1>2 DEF SearchStep
  <2>2. hook'[d] = hook[d] /\ Installed(d)
    BY <1>0, <2>1, Typed DEF Installed
  <2> QED BY <1>1, <2>1, <2>2
<1>3. ASSUME NEW h \in Hooker, NEW k \in HookType, NEW t \in Tramp, NEW m \in MemType, NEW s \in Site, NEW b \in Byte,
             Touch(h, k, t, m, s, b), Takes(h, k, t, m) \/ GivesBack(h, k, t, m),
             h = d => m.resume = ResumeAt(k.chain)
      PROVE  mem'[hook'[d].tramp].resume = ResumeAt(hook'[d].chain)
  <2>1. CASE h = d
    <3>1. hook'[h] = k /\ mem'[t] = m
      BY <1>0, <1>3, TouchValues
    <3>2. k.tramp = t
      BY <2>1, <3>1, <1>3, NoHookType DEF Takes, GivesBack
    <3> QED BY <1>3, <2>1, <3>1, <3>2
  <2>2. CASE h # d
    <3>1. Installed(d) /\ hook'[d] = hook[d] /\ mem'[hook[d].tramp] = mem[hook[d].tramp]
      BY <1>3, <2>2, OtherInStep
    <3> QED BY <1>1, <3>1
  <2> QED BY <2>1, <2>2
<1>4. ASSUME NEW c \in Dll, NEW t \in Tramp, NEW s \in Site, NEW k \in HookType, NEW m \in MemType,
             ConstructStep(c, t, s, k, m)
      PROVE  mem'[hook'[d].tramp].resume = ResumeAt(hook'[d].chain)
  <2>1. /\ Touch(c, k, t, m, s, t) /\ hook[c].pc = "detected" /\ mem[t] = Free
        /\ k.pc = "installed" /\ k.tramp = t /\ m.owner = c
        /\ m.resume = ResumeAt(k.chain) /\ t \in Byte /\ c \in Hooker
    BY <1>0, <1>4 DEF ConstructStep, Byte
  <2>2. Takes(c, k, t, m)
    BY <2>1, NoHookType DEF Takes, Installed
  <2> QED BY <1>3, <2>1, <2>2
<1>5. ASSUME NEW c \in Dll, NEW t \in Tramp, NEW s \in Site, NEW k \in HookType, NEW m \in MemType, NEW b \in Byte,
             RepairStep(c, t, s, k, m, b)
      PROVE  mem'[hook'[d].tramp].resume = ResumeAt(hook'[d].chain)
  <2>1. /\ Touch(c, k, t, m, s, b) /\ Installed(c) /\ t = hook[c].tramp /\ s = hook[c].site
        /\ k.pc = "installed" /\ k.tramp = t /\ m.owner = mem[t].owner /\ Mends(c, t, k, m, b)
    BY <1>5 DEF RepairStep
  <2>2. c \in Hooker /\ Takes(c, k, t, m)
    BY <1>0, <2>1, Owners DEF Takes
  <2>3. m.resume = ResumeAt(k.chain)
    <3>1. /\ k.chain = IF bytes[s] = Original THEN hook[c].chain ELSE bytes[s]
          /\ m.resume = IF k.chain = hook[c].chain THEN mem[t].resume ELSE k.chain
      BY <2>1 DEF Mends, NewChain
    <3>2. CASE k.chain = hook[c].chain
      BY <1>1, <2>1, <3>1, <3>2
    <3>3. CASE k.chain # hook[c].chain
      <4>1. k.chain \in Tramp
        BY <3>1, <3>3, Owners
      <4> QED BY <3>1, <3>3, <4>1, ChainAssumption DEF ResumeAt
    <3> QED BY <3>2, <3>3
  <2> QED BY <1>3, <2>1, <2>2, <2>3
<1>6. ASSUME NEW h \in Hooker, NEW t \in Tramp, NEW s \in Site, NEW b \in Byte,
             Touch(h, NoHook, t, Free, s, b), Installed(h), t = hook[h].tramp
      PROVE  mem'[hook'[d].tramp].resume = ResumeAt(hook'[d].chain)
  <2>1. PICK k \in HookType, m \in MemType : k = NoHook /\ m = Free
    BY NoHookType
  <2>2. Touch(h, k, t, m, s, b) /\ GivesBack(h, k, t, m)
    BY <1>6, <2>1 DEF GivesBack
  <2>3. hook'[h] = k /\ k.pc = "none"
    BY <1>0, <2>1, <2>2, TouchValues, NoHookType
  <2> QED BY <1>3, <2>2, <2>3
<1>7. ASSUME NEW f \in Foreign, NEW t \in Tramp, NEW s \in Site, NEW k \in HookType, NEW m \in MemType,
             StompStep(f, t, s, k, m)
      PROVE  mem'[hook'[d].tramp].resume = ResumeAt(hook'[d].chain)
  <2>1. /\ Touch(f, k, t, m, s, t) /\ t \in Byte /\ f \in Hooker /\ f # d
        /\ \/ hook[f].pc = "none" /\ mem[t] = Free
           \/ Installed(f) /\ t = hook[f].tramp
        /\ k.pc = "installed" /\ k.tramp = t /\ m.owner = f
    BY <1>0, <1>7 DEF StompStep, Byte
  <2>2. Takes(f, k, t, m)
    BY <2>1, NoHookType, Owners DEF Takes, Installed
  <2> QED BY <1>3, <2>1, <2>2
<1>8. ASSUME NEW c \in Dll, NEW t \in Tramp, NEW s \in Site, NEW b \in Byte, DestroyStep(c, t, s, b)
      PROVE  mem'[hook'[d].tramp].resume = ResumeAt(hook'[d].chain)
  BY <1>0, <1>6, <1>8 DEF DestroyStep
<1>9. ASSUME NEW f \in Foreign, NEW t \in Tramp, NEW s \in Site, NEW b \in Byte, LeaveStep(f, t, s, b)
      PROVE  mem'[hook'[d].tramp].resume = ResumeAt(hook'[d].chain)
  BY <1>0, <1>6, <1>9 DEF LeaveStep
<1> QED BY <1>2, <1>4, <1>5, <1>7, <1>8, <1>9, StepShape

LastInv ==
    /\ Base /\ InStep
    /\ Lasting => Unraced /\ Apart /\ Enclosed

LEMMA InitLastInv == Init => LastInv
<1> SUFFICES ASSUME Init PROVE LastInv
  OBVIOUS
<1>1. Base
  BY InitBase
<1>2. /\ bytes = [s \in Site |-> Original] /\ mem = [t \in Tramp |-> Free]
      /\ hook = [h \in Hooker |-> NoHook] /\ Dll \subseteq Hooker
  BY DEF Init, Hooker
<1>3. \A d \in Dll : hook[d].pc = "none"
  BY <1>2, NoHookType
<1>4. Unraced
  BY <1>2, <1>3, NoHookType DEF Unraced
<1>5. Apart /\ Enclosed /\ InStep
  BY <1>3 DEF Apart, Enclosed, InStep, Installed
<1> QED BY <1>1, <1>4, <1>5 DEF LastInv

LEMMA NextLastInv == LastInv /\ [Next]_vars => LastInv'
<1> SUFFICES ASSUME LastInv, [Next]_vars PROVE LastInv'
  OBVIOUS
<1>1. Base /\ Base' /\ InStep
  BY NextBase DEF LastInv
<1>2. CASE UNCHANGED vars
  <2>1. InStep'
    BY <1>1, <1>2 DEF InStep, Installed, ResumeAt, vars
  <2>2. Lasting' => Unraced' /\ Apart' /\ Enclosed'
    BY <1>2 DEF LastInv, Lasting, AtWorst, Unraced, Apart, Enclosed, Within, Installed, vars
  <2> QED BY <1>1, <2>1, <2>2 DEF LastInv
<1>3. CASE Next
  <2>1. Lasting' => Lasting
    BY <1>1, <1>3, MishapsGrow DEF Lasting, AtWorst
  <2>2. Lasting' => Unraced' /\ Apart' /\ Enclosed'
    BY <1>1, <1>3, <2>1, LastingNext DEF LastInv
  <2>3. InStep'
    BY <1>1, <1>3, InStepNext
  <2> QED BY <1>1, <2>2, <2>3 DEF LastInv
<1> QED BY <1>2, <1>3

-----------------------------------------------------------------------------
(* Which hooks a call fires, before and after a step: the walk of Walk()   *)
(* in the memory M, from what the places B hold.                           *)

\* Following up for n steps from s0.
Steps(S, up) == up \in [S -> S]
Orbit(S, up, s0, n, f) == f \in [0..n -> S] /\ f[0] = s0 /\ \A k \in 1..n : f[k] = up[f[k - 1]]

LEMMA OrbitExists ==
    ASSUME NEW S, NEW s0 \in S, NEW n \in Nat, NEW up, Steps(S, up)
    PROVE  \E f : Orbit(S, up, s0, n, f)
<1>0. up \in [S -> S]
  BY DEF Steps
<1> DEFINE Runs(m) == \E f \in [0..m -> S] : f[0] = s0 /\ \A k \in 1..m : f[k] = up[f[k - 1]]
           Bad == {m \in 0..n : ~Runs(m)}
<1>1. SUFFICES ASSUME Bad # {} PROVE FALSE
  <2>1. n \in 0..n
    OBVIOUS
  <2>2. Bad = {} => Runs(n)
    BY <2>1
  <2> QED BY <2>2 DEF Orbit
<1>2. PICK x \in Bad : \A y \in Bad : ~(y < x)
  <2>1. Bad \subseteq Nat
    OBVIOUS
  <2> HIDE DEF Bad
  <2> QED BY <1>1, <2>1, LeastNat
<1>3. x # 0
  <2>1. SUFFICES ASSUME x = 0 PROVE Runs(0)
    BY <1>2
  <2> DEFINE f == [k \in 0..0 |-> s0]
  <2>2. f \in [0..0 -> S] /\ f[0] = s0 /\ \A k \in 1..0 : f[k] = up[f[k - 1]]
    OBVIOUS
  <2> QED BY <2>2
<1>4. x \in 1..n /\ x - 1 \in 0..n /\ x - 1 < x
  BY <1>2, <1>3
<1>5. Runs(x - 1)
  BY <1>2, <1>4
<1>6. PICK f \in [0..(x - 1) -> S] : f[0] = s0 /\ \A k \in 1..(x - 1) : f[k] = up[f[k - 1]]
  BY <1>5
<1>7. Runs(x)
  <2> DEFINE g == [k \in 0..x |-> IF k < x THEN f[k] ELSE up[f[x - 1]]]
  <2>1. f[x - 1] \in S
    BY <1>4, <1>6
  <2>2. up[f[x - 1]] \in S
    BY <1>0, <2>1
  <2>3. \A k \in 0..x : k < x => k \in 0..(x - 1)
    BY <1>4
  <2>4. g \in [0..x -> S]
    BY <1>6, <2>2, <2>3
  <2>5. g[0] = s0
    BY <1>4, <1>6
  <2>6. ASSUME NEW k \in 1..x PROVE g[k] = up[g[k - 1]]
    <3>1. k \in 0..x /\ k - 1 \in 0..x /\ k - 1 < x
      BY <1>4
    <3>2. g[k - 1] = f[k - 1]
      BY <3>1
    <3>3. CASE k < x
      <4>1. g[k] = f[k] /\ k \in 1..(x - 1)
        BY <1>4, <3>1, <3>3
      <4> QED BY <1>6, <3>2, <4>1
    <3>4. CASE ~(k < x)
      <4>1. k = x
        BY <1>4, <3>4
      <4>2. g[x] = up[f[x - 1]]
        BY <3>1, <4>1
      <4> QED BY <3>2, <4>1, <4>2
    <3> QED BY <3>3, <3>4
  <2> HIDE DEF g
  <2> QED BY <2>4, <2>5, <2>6
<1> QED BY <1>2, <1>7

Place == Tramp \cup {Original, Stub}
HopIn(M, v) == IF v \in Tramp /\ M[v] # Free /\ M[v].saved = Original THEN M[v].resume ELSE v

WalkIn(B, M, s) ==
    LET w[n \in 0..Cardinality(Tramp)] == IF n = 0 THEN B[s] ELSE HopIn(M, w[n - 1])
    IN w

Hops(M, b, n, w) == DOMAIN w = 0..n /\ w[0] = b /\ \A i \in 1..n : w[i] = HopIn(M, w[i - 1])

LEMMA WalkInHops ==
    ASSUME NEW B \in [Site -> Byte], NEW M \in [Tramp -> MemType], NEW s \in Site, NEW n \in Nat, n = Cardinality(Tramp)
    PROVE  Hops(M, B[s], n, WalkIn(B, M, s))
<1>1. \A v \in Place : HopIn(M, v) \in Place
  BY DEF HopIn, Place, MemType
<1>2. PICK up \in [Place -> Place] : up = [v \in Place |-> HopIn(M, v)]
  BY <1>1
<1>3. PICK b \in Place : b = B[s]
  BY DEF Place, Byte
<1>4. Steps(Place, up)
  BY DEF Steps
<1>5. PICK f : Orbit(Place, up, b, n, f)
  BY <1>4, OrbitExists
<1>6. ASSUME NEW i \in 0..n PROVE f[i] = IF i = 0 THEN b ELSE HopIn(M, f[i - 1])
  <2>1. CASE i = 0
    BY <1>5, <2>1 DEF Orbit
  <2>2. CASE i # 0
    <3>1. i \in 1..n /\ i - 1 \in 0..n
      BY <2>2
    <3>2. f[i] = up[f[i - 1]] /\ f[i - 1] \in Place
      BY <1>5, <3>1 DEF Orbit
    <3> QED BY <1>2, <2>2, <3>2
  <2> QED BY <2>1, <2>2
<1>7. f = [i \in 0..n |-> IF i = 0 THEN b ELSE HopIn(M, f[i - 1])]
  BY <1>5, <1>6 DEF Orbit
<1> DEFINE w == CHOOSE g : g = [i \in 0..n |-> IF i = 0 THEN b ELSE HopIn(M, g[i - 1])]
<1>8. w = [i \in 0..n |-> IF i = 0 THEN b ELSE HopIn(M, w[i - 1])]
  <2>1. \E g : g = [i \in 0..n |-> IF i = 0 THEN b ELSE HopIn(M, g[i - 1])]
    BY <1>7
  <2> QED BY <2>1
<1>9. WalkIn(B, M, s) = w
  BY <1>3 DEF WalkIn
<1> HIDE DEF w
<1>10. w[0] = b /\ \A i \in 1..n : w[i] = HopIn(M, w[i - 1])
  BY <1>8
<1>11. DOMAIN w = 0..n
  BY <1>8
<1> QED BY <1>3, <1>9, <1>10, <1>11 DEF Hops

Hits(M, t, h) == t \in Tramp /\ M[t].owner = h /\ M[t].saved = Original
FiresIn(B, M, h) ==
    \E s \in Site : \E n \in 0..Cardinality(Tramp) : Hits(M, WalkIn(B, M, s)[n], h)

LEMMA FiresNow ==
    ASSUME TypeOK, NEW h \in Hooker
    PROVE  Fires(h) <=> FiresIn(bytes, mem, h)
<1>1. \A s : Walk(s) = WalkIn(bytes, mem, s)
  BY DEF Walk, WalkIn, HopIn
<1>2. Cardinality(Tramp) \in Nat
  BY FS_CardinalityType, ChainAssumption
<1>3. \A s \in Site : DOMAIN WalkIn(bytes, mem, s) = 0..Cardinality(Tramp)
  BY <1>2, Typed, WalkInHops DEF Hops
<1> QED BY <1>1, <1>3 DEF Fires, Fired, FiresIn, Hits

LEMMA FiresThen ==
    ASSUME TypeOK', NEW h \in Hooker
    PROVE  Fires(h)' <=> FiresIn(bytes', mem', h)
<1>1. \A s : Walk(s)' = WalkIn(bytes', mem', s)
  BY DEF Walk, WalkIn, HopIn
<1>2. Cardinality(Tramp) \in Nat
  BY FS_CardinalityType, ChainAssumption
<1>3. bytes' \in [Site -> Byte] /\ mem' \in [Tramp -> MemType]
  BY DEF TypeOK, Byte, MemType
<1>4. \A s \in Site : DOMAIN WalkIn(bytes', mem', s) = 0..Cardinality(Tramp)
  BY <1>2, <1>3, WalkInHops DEF Hops
<1> QED BY <1>1, <1>4 DEF Fires, Fired, FiresIn, Hits

\* Control that is in a closed set stays there.
LEMMA HopsStay ==
    ASSUME NEW M, NEW b, NEW n \in Nat, NEW w, Hops(M, b, n, w), NEW Z, \A z \in Z : HopIn(M, z) \in Z,
           NEW j \in 0..n, w[j] \in Z, NEW i \in j..n
    PROVE  w[i] \in Z
<1> DEFINE bad == {x \in j..n : w[x] \notin Z}
<1>1. SUFFICES ASSUME bad # {} PROVE FALSE
  OBVIOUS
<1>2. bad \subseteq Nat
  OBVIOUS
<1>3. PICK x \in bad : \A y \in bad : ~(y < x)
  <2> HIDE DEF bad
  <2> QED BY <1>1, <1>2, LeastNat
<1>4. x \in 1..n /\ x - 1 \in j..n /\ x - 1 < x
  BY <1>3
<1>5. w[x - 1] \in Z
  BY <1>3, <1>4
<1>6. w[x] = HopIn(M, w[x - 1])
  BY <1>4 DEF Hops
<1> QED BY <1>3, <1>5, <1>6

AlikeBut(M, N, t) == \A u \in Tramp \ {t} : N[u] = M[u]

Avoids(w, i, t) == \A j \in 0..i : w[j] # t

\* Two walks that start at the same place are the same up to a trampoline that has changed.
LEMMA HopsAgree ==
    ASSUME NEW M, NEW N, NEW b, NEW n \in Nat, NEW w, NEW v, Hops(M, b, n, w), Hops(N, b, n, v),
           NEW t, AlikeBut(M, N, t), NEW i \in 0..n, Avoids(w, i, t)
    PROVE  v[i] = w[i]
<1> DEFINE bad == {x \in 0..i : v[x] # w[x]}
<1>1. SUFFICES ASSUME bad # {} PROVE FALSE
  OBVIOUS
<1>2. bad \subseteq Nat
  OBVIOUS
<1>3. PICK x \in bad : \A y \in bad : ~(y < x)
  <2> HIDE DEF bad
  <2> QED BY <1>1, <1>2, LeastNat
<1>4. x # 0
  BY <1>3 DEF Hops
<1>5. x \in 1..n /\ x - 1 \in 0..i /\ x - 1 < x
  BY <1>3, <1>4
<1>6. v[x - 1] = w[x - 1] /\ w[x - 1] # t
  BY <1>3, <1>5 DEF Avoids
<1>7. v[x] = HopIn(N, v[x - 1]) /\ w[x] = HopIn(M, w[x - 1])
  BY <1>5 DEF Hops
<1>8. HopIn(N, w[x - 1]) = HopIn(M, w[x - 1])
  BY <1>6 DEF HopIn, AlikeBut
<1> QED BY <1>3, <1>6, <1>7, <1>8

\* A change of one place s and one trampoline t silences no hook outside of a set Z that control
\* does not leave once it has come to s or t.
LEMMA StillFires ==
    ASSUME NEW B \in [Site -> Byte], NEW M \in [Tramp -> MemType],
           NEW C \in [Site -> Byte], NEW N \in [Tramp -> MemType],
           NEW s \in Site, \A x \in Site \ {s} : C[x] = B[x],
           NEW t \in Tramp, \A u \in Tramp \ {t} : N[u] = M[u],
           NEW Z, \A z \in Z : HopIn(M, z) \in Z, B[s] \in Z, t \in Z,
           NEW h, \A z \in Z : ~Hits(M, z, h), FiresIn(B, M, h)
    PROVE  FiresIn(C, N, h)
<1>1. PICK n \in Nat : n = Cardinality(Tramp)
  BY FS_CardinalityType, ChainAssumption
<1>2. PICK x \in Site, i \in 0..n : Hits(M, WalkIn(B, M, x)[i], h)
  BY <1>1 DEF FiresIn
<1>3. PICK w : w = WalkIn(B, M, x)
  OBVIOUS
<1>4. PICK v : v = WalkIn(C, N, x)
  OBVIOUS
<1>5. Hops(M, B[x], n, w) /\ Hops(N, C[x], n, v)
  BY <1>1, <1>3, <1>4, WalkInHops
<1>6. ASSUME NEW j \in 0..i, w[j] \in Z PROVE FALSE
  <2>1. j \in 0..n /\ i \in j..n
    OBVIOUS
  <2>2. w[i] \in Z
    BY <1>5, <1>6, <2>1, HopsStay
  <2> QED BY <1>2, <1>3, <2>2
<1>7. C[x] = B[x]
  <2>1. w[0] = B[x] /\ 0 \in 0..i
    BY <1>5 DEF Hops
  <2> QED BY <1>6, <2>1
<1>8. \A j \in 0..i : w[j] # t
  BY <1>6
<1>9. v[i] = w[i]
  <2>1. PICK b : b = B[x]
    OBVIOUS
  <2>2. Hops(M, b, n, w) /\ Hops(N, b, n, v)
    BY <1>5, <1>7, <2>1
  <2>3. AlikeBut(M, N, t)
    BY DEF AlikeBut
  <2>4. i \in 0..n /\ n \in Nat
    BY <1>1, <1>2
  <2>5. Avoids(w, i, t)
    BY <1>8 DEF Avoids
  <2> QED BY <2>2, <2>3, <2>4, <2>5, HopsAgree
<1>10. w[i] # t /\ Hits(M, w[i], h)
  BY <1>2, <1>3, <1>8
<1>11. Hits(N, v[i], h)
  BY <1>9, <1>10 DEF Hits
<1> QED BY <1>1, <1>4, <1>11 DEF FiresIn

\* Within Z control stays, and meets the hook of d and foreign ones only.
LEMMA WithinClosed ==
    ASSUME Base, Unraced, NEW d \in Dll, Installed(d), NEW Z \in SUBSET (Tramp \cup {Stub}), Within(d, Z)
    PROVE  /\ \A z \in Z : HopIn(mem, z) \in Z
           /\ \A z \in Z : \A h : Hits(mem, z, h) => h = d \/ h \in Foreign
<1>1. ASSUME NEW z \in Z PROVE HopIn(mem, z) \in Z
  BY <1>1 DEF HopIn, Within
<1>2. mem[hook[d].tramp].owner = d
  BY Owners DEF Hooker
<1> QED BY <1>1, <1>2 DEF Within, Hits

\* ~midi2i_hook() of one copy of vmhook silences no other copy, for any number of copies, foreign hookers and
\* places, also after repairs and removals that failed and with foreign hookers that chain.  Of the hooks of
\* foreign hookers it says nothing.
THEOREM OthersSurvive == Spec => DestroyKeepsOthers
<1>1. LastInv /\ [Next]_vars =>
        [\A d \in Dll :
            Destroy(d) /\ AtWorst({"chained", "rewrite", "repair", "destroy"})
            => \A h \in Dll \ {d} : Fires(h) => Fires(h)']_vars
  <2> SUFFICES ASSUME LastInv, [Next]_vars, NEW d \in Dll, Destroy(d), Lasting, NEW h \in Dll \ {d}, Fires(h)
               PROVE  Fires(h)'
    BY DEF Lasting
  <2>1. Base /\ TypeOK /\ Owned /\ Unraced /\ Apart /\ Enclosed /\ h \in Hooker /\ d \in Hooker /\ h \notin Foreign
    BY ChainAssumption DEF LastInv, Base, Hooker
  <2>2. TypeOK'
    BY <2>1, NextBase DEF Base
  <2>3. PICK t \in Tramp, s \in Site, b \in Byte : DestroyStep(d, t, s, b)
    BY <2>1, DestroyShape
  <2>4. Touch(d, NoHook, t, Free, s, b) /\ Installed(d) /\ t = hook[d].tramp /\ s = hook[d].site
    BY <2>3 DEF DestroyStep
  <2>5. PICK Z \in SUBSET (Tramp \cup {Stub}) : Within(d, Z)
    BY <2>1, <2>4 DEF Enclosed
  <2>6. t \in Z /\ bytes[s] \in Z
    BY <2>4, <2>5 DEF Within
  <2>7. (\A z \in Z : HopIn(mem, z) \in Z) /\ \A z \in Z : ~Hits(mem, z, h)
    BY <2>1, <2>4, <2>5, WithinClosed
  <2>8. FiresIn(bytes, mem, h)
    BY <2>1, FiresNow
  <2>9. PICK B, M, C, N : B = bytes /\ M = mem /\ C = bytes' /\ N = mem'
    OBVIOUS
  <2>10. /\ B \in [Site -> Byte] /\ M \in [Tramp -> MemType] /\ C \in [Site -> Byte] /\ N \in [Tramp -> MemType]
         /\ \A u \in Tramp \ {t} : N[u] = M[u]
         /\ \A x \in Site \ {s} : C[x] = B[x]
    BY <2>1, <2>4, <2>9, TouchValues, NoHookType, Typed
  <2>11. FiresIn(C, N, h)
    BY <2>6, <2>7, <2>8, <2>9, <2>10, StillFires
  <2> QED BY <2>1, <2>2, <2>9, <2>11, FiresThen
<1> QED BY <1>1, InitLastInv, NextLastInv, PTL DEF Spec, DestroyKeepsOthers

\* The constructor meets neither a patch nor a chain: its trampoline was not in use.
LEMMA ConstructCoexists ==
    ASSUME LastInv, LastInv', [Next]_vars, NEW d \in Dll, NEW t \in Tramp, Construct(d, t), AtWorst({"chained", "destroy"})'
    PROVE  Fires(d)' /\ \A h \in Hooker \ {d} : Fires(h) => Fires(h)'
<1>1. /\ Base /\ TypeOK /\ Owned /\ TypeOK' /\ Base' /\ mishap \subseteq mishap' /\ d \in Hooker
  BY MishapsGrow DEF LastInv, Base, Hooker, Construct, Next
<1>2. Lasting /\ Lasting' /\ Unraced /\ Unraced' /\ "raced" \notin mishap'
  BY <1>1 DEF LastInv, Lasting, AtWorst
<1>3. PICK s \in Site, k \in HookType, m \in MemType : ConstructStep(d, t, s, k, m)
  BY <1>1, ConstructShape
<1>4. /\ Touch(d, k, t, m, s, t) /\ hook[d].pc = "detected" /\ s = hook[d].site /\ mem[t] = Free
      /\ m.owner = d /\ t \in Byte
  BY <1>3 DEF ConstructStep, Byte
<1>5. PICK B, M, C, N : B = bytes /\ M = mem /\ C = bytes' /\ N = mem'
  OBVIOUS
<1>6. /\ B \in [Site -> Byte] /\ M \in [Tramp -> MemType] /\ C \in [Site -> Byte] /\ N \in [Tramp -> MemType]
      /\ \A u \in Tramp \ {t} : N[u] = M[u]
      /\ \A x \in Site \ {s} : C[x] = B[x]
      /\ C[s] = t /\ N[t] = m /\ B[s] = Original /\ M[t] = Free
  BY <1>1, <1>2, <1>4, <1>5, TouchValues, Typed DEF Unraced
<1>7. PICK n \in Nat : n = Cardinality(Tramp)
  BY FS_CardinalityType, ChainAssumption
<1>8. FiresIn(C, N, d)
  <2>1. WalkIn(C, N, s)[0] = t
    BY <1>6, <1>7, WalkInHops DEF Hops
  <2>2. Hits(N, t, d)
    BY <1>2, <1>4, <1>5, <1>6 DEF Unraced, Hits
  <2>3. 0 \in 0..n
    OBVIOUS
  <2> QED BY <1>7, <2>1, <2>2, <2>3 DEF FiresIn
<1>9. ASSUME NEW h \in Hooker \ {d}, FiresIn(B, M, h) PROVE FiresIn(C, N, h)
  <2>1. PICK Z : Z = {t, Original}
    OBVIOUS
  <2>2. \A z \in Z : HopIn(M, z) \in Z
    BY <1>6, <2>1, ChainAssumption DEF HopIn
  <2>3. \A z \in Z : ~Hits(M, z, h)
    BY <1>6, <2>1, NoHookType, ChainAssumption DEF Hits
  <2>4. t \in Z /\ B[s] \in Z
    BY <1>6, <2>1
  <2> QED BY <1>6, <1>9, <2>2, <2>3, <2>4, StillFires
<1> QED BY <1>1, <1>5, <1>8, <1>9, FiresNow, FiresThen

\* verify_and_repair() chains to the trampoline that it finds over its own JMP.
LEMMA RepairCoexists ==
    ASSUME OneForeign, LastInv, LastInv', [Next]_vars, NEW d \in Dll, VerifyAndRepair(d), AtWorst({"chained", "destroy"})'
    PROVE  Fires(d)' /\ \A h \in Hooker \ {d} : Fires(h) => Fires(h)'
<1>1. /\ Base /\ TypeOK /\ Owned /\ TypeOK' /\ Base' /\ d \in Hooker
  BY DEF LastInv, Base, Hooker
<1>2. PICK t \in Tramp, s \in Site, k \in HookType, m \in MemType, b \in Byte : RepairStep(d, t, s, k, m, b)
  BY <1>1, RepairShape
<1>3. mishap \subseteq mishap'
  BY <1>2 DEF RepairStep, History
<1>4. /\ Unraced /\ Unraced' /\ Apart /\ Enclosed
      /\ "rewrite" \notin mishap /\ "rewrite" \notin mishap' /\ "repair" \notin mishap'
  BY <1>3 DEF LastInv, Lasting, AtWorst
<1>5. /\ Touch(d, k, t, m, s, b) /\ Installed(d) /\ t = hook[d].tramp /\ s = hook[d].site /\ bytes[s] # t
      /\ m.owner = mem[t].owner /\ Mends(d, t, k, m, b)
  BY <1>2 DEF RepairStep
<1>6. mem[t].owner = d /\ bytes[s] # Original /\ bytes[s] \in Tramp /\ b = t
  BY <1>1, <1>4, <1>5, Owners DEF Apart, Mends
<1>7. m.resume = bytes[s]
  <2>1. /\ k.chain = bytes[s]
        /\ m.resume = IF k.chain = hook[d].chain THEN mem[t].resume ELSE k.chain
    BY <1>4, <1>5, <1>6 DEF Mends, NewChain
  <2>2. mem[t].resume = ResumeAt(hook[d].chain)
    BY <1>4, <1>5 DEF LastInv, InStep
  <2> QED BY <1>6, <2>1, <2>2, ChainAssumption DEF ResumeAt
<1>8. PICK Z \in SUBSET (Tramp \cup {Stub}) : Within(d, Z)
  BY <1>4, <1>5 DEF Enclosed
<1>9. t \in Z /\ bytes[s] \in Z
  BY <1>5, <1>8 DEF Within
<1>10. (\A z \in Z : HopIn(mem, z) \in Z) /\ \A z \in Z : \A h : Hits(mem, z, h) => h = d \/ h \in Foreign
  BY <1>1, <1>4, <1>5, <1>8, WithinClosed
<1>11. mem[bytes[s]].owner \in Foreign
  BY <1>5, <1>6, <1>8, <1>9 DEF Within
<1>12. PICK B, M, C, N : B = bytes /\ M = mem /\ C = bytes' /\ N = mem'
  OBVIOUS
<1>13. /\ B \in [Site -> Byte] /\ M \in [Tramp -> MemType] /\ C \in [Site -> Byte] /\ N \in [Tramp -> MemType]
       /\ \A u \in Tramp \ {t} : N[u] = M[u]
       /\ \A x \in Site \ {s} : C[x] = B[x]
       /\ C[s] = t /\ N[t] = m /\ N[B[s]] = M[B[s]]
  BY <1>1, <1>5, <1>6, <1>12, TouchValues, Typed
<1>14. PICK n \in Nat : n = Cardinality(Tramp) /\ n # 0
  BY FS_CardinalityType, FS_EmptySet, ChainAssumption
<1>15. \A u \in Tramp : N[u].saved = Original
  BY <1>4, <1>12 DEF Unraced
<1>16. WalkIn(C, N, s)[0] = t /\ WalkIn(C, N, s)[1] = B[s]
  <2>1. Hops(N, C[s], n, WalkIn(C, N, s))
    BY <1>13, <1>14, WalkInHops
  <2>2. 1 \in 1..n /\ 1 - 1 = 0
    BY <1>14
  <2>3. WalkIn(C, N, s)[0] = t
    BY <1>13, <2>1 DEF Hops
  <2>4. WalkIn(C, N, s)[1] = HopIn(N, t)
    <3>1. WalkIn(C, N, s)[1] = HopIn(N, WalkIn(C, N, s)[1 - 1])
      BY <2>1, <2>2 DEF Hops
    <3> QED BY <2>2, <2>3, <3>1
  <2>5. N[t] # Free
    BY <1>1, <1>5, <1>6, <1>13, NoHookType, ChainAssumption
  <2>6. HopIn(N, t) = B[s]
    BY <1>7, <1>12, <1>13, <1>15, <2>5 DEF HopIn
  <2> QED BY <2>3, <2>4, <2>6
<1>17. 0 \in 0..n /\ 1 \in 0..n
  BY <1>14
<1>18. FiresIn(C, N, d)
  <2>1. Hits(N, t, d)
    BY <1>5, <1>6, <1>13, <1>15 DEF Hits
  <2> QED BY <1>14, <1>16, <1>17, <2>1 DEF FiresIn
<1>19. ASSUME NEW h \in Hooker \ {d}, FiresIn(B, M, h) PROVE FiresIn(C, N, h)
  <2>1. CASE h \in Foreign
    <3>1. M[B[s]].owner = h
      BY <1>11, <1>12, <2>1 DEF OneForeign
    <3>2. Hits(N, B[s], h)
      BY <1>6, <1>12, <1>13, <1>15, <3>1 DEF Hits
    <3> QED BY <1>14, <1>16, <1>17, <3>2 DEF FiresIn
  <2>2. CASE h \notin Foreign
    <3>1. (\A z \in Z : HopIn(M, z) \in Z) /\ (\A z \in Z : ~Hits(M, z, h)) /\ t \in Z /\ B[s] \in Z
      BY <1>9, <1>10, <1>12, <2>2
    <3> QED BY <1>13, <1>19, <3>1, StillFires
  <2> QED BY <2>1, <2>2
<1> QED BY <1>1, <1>12, <1>18, <1>19, FiresNow, FiresThen

\* Where one foreign hooker shares the stub with any number of copies of vmhook, a copy that writes its JMP, in the
\* constructor or in verify_and_repair(), is called from then on and silences nobody, also after removals that
\* failed and with a foreign hooker that chains.
THEOREM HooksCoexist == OneForeign => (Spec => Coexist)
<1> SUFFICES ASSUME OneForeign PROVE Spec => Coexist
  OBVIOUS
<1>1. LastInv /\ LastInv' /\ [Next]_vars =>
        [\A d \in Dll :
            /\ VerifyAndRepair(d) \/ \E t \in Tramp : Construct(d, t)
            /\ AtWorst({"chained", "destroy"})'
            => Fires(d)' /\ \A h \in Hooker \ {d} : Fires(h) => Fires(h)']_vars
  <2> SUFFICES ASSUME LastInv, LastInv', [Next]_vars, NEW d \in Dll,
                      VerifyAndRepair(d) \/ \E t \in Tramp : Construct(d, t),
                      AtWorst({"chained", "destroy"})'
               PROVE  Fires(d)' /\ \A h \in Hooker \ {d} : Fires(h) => Fires(h)'
    OBVIOUS
  <2>1. CASE VerifyAndRepair(d)
    BY <2>1, RepairCoexists
  <2>2. ASSUME NEW t \in Tramp, Construct(d, t)
        PROVE  Fires(d)' /\ \A h \in Hooker \ {d} : Fires(h) => Fires(h)'
    BY <2>2, ConstructCoexists
  <2> QED BY <2>1, <2>2
<1> QED BY <1>1, InitLastInv, NextLastInv, PTL DEF Spec, Coexist
=============================================================================
