-------------------------- MODULE TrampolineChain --------------------------
(***************************************************************************)
(* The 5-byte patch of one i2i stub: midi2i_hook and the part of hook<T>() *)
(* that places it, with several hookers in one process.  A hooker is a     *)
(* copy of vmhook, each with its own mutex and its own registry, or a      *)
(* foreign hooker (external), which is known only by what verify_and_      *)
(* repair() is written to cope with: it writes a JMP over the one it finds *)
(* and its trampoline runs the overwritten instruction and resumes in the  *)
(* stub, or at the trampoline it displaced.                                *)
(*                                                                         *)
(* The history variable mishap records what has gone wrong so far, so that *)
(* the properties can say which mishap breaks which promise.               *)
(*                                                                         *)
(* A site is a place of the stub that find_hook_location() matches; its    *)
(* bytes are the original instruction or a JMP to a trampoline.            *)
(***************************************************************************)
EXTENDS Integers, FiniteSets

CONSTANTS
    Dll,      \* copies of vmhook in the process
    Foreign,  \* other hookers
    Tramp,    \* addresses allocate_nearby_memory() can answer
    NSites,   \* matches of the pattern in the stub, in scan order
    Original, \* the instruction a site holds when nobody patched it
    Stub,     \* the resume address target + HOOK_SIZE
    NoTramp,  \* null
    MaxStomp,  \* bound: patches written by foreign hookers
    MaxMishap  \* bound: kinds of mishap in one behaviour

Hooker == Dll \cup Foreign
Site == 1..NSites

ASSUME ChainAssumption ==
    /\ Dll \cap Foreign = {} /\ "free" \notin Hooker
    /\ NSites \in Nat \ {0}
    /\ Original \notin Tramp /\ Stub \notin Tramp /\ NoTramp \notin Tramp
    /\ Original # Stub
    /\ IsFiniteSet(Tramp)
    /\ MaxStomp \in Nat /\ MaxMishap \in Nat

VARIABLES
    bytes,   \* what a site holds: Original, or the trampoline its JMP goes to
    mem,     \* the trampolines: owner, saved bytes, target of the resume JMP
    hook,    \* the midi2i_hook of each hooker and how far its install is
    mishap,  \* what has gone wrong so far (history)
    stomps   \* patches written by foreign hookers so far

vars == <<bytes, mem, hook, mishap, stomps>>

\* Another hooker wrote to the stub while a copy of vmhook was installing; a
\* foreign hooker resumes at a trampoline it displaced; one was unloaded;
\* os::protect failed for the trampoline, for the target of a repair, for the
\* target of a removal.
Mishap == {"raced", "chained", "left", "rewrite", "repair", "destroy"}

Free == [owner |-> "free", saved |-> Original, resume |-> Stub]
NoHook == [pc |-> "none", site |-> 1, tramp |-> NoTramp, chain |-> NoTramp]

\* Type invariant: a trampoline resumes in the stub or at a trampoline, and a
\* midi2i_hook that is installed has a trampoline of its own.
TypeOK ==
    /\ bytes \in [Site -> Tramp \cup {Original}]
    /\ mem \in [Tramp -> [owner : Hooker \cup {"free"}, saved : Tramp \cup {Original},
                          resume : Tramp \cup {Stub}]]
    /\ hook \in [Hooker -> [pc : {"none", "found", "detected", "installed"}, site : Site,
                            tramp : Tramp \cup {NoTramp}, chain : Tramp \cup {NoTramp}]]
    /\ \A h \in Hooker : hook[h].pc = "installed" =>
          hook[h].tramp # NoTramp /\ mem[hook[h].tramp].owner = h
    /\ mishap \subseteq Mishap
    /\ stomps \in 0..MaxStomp

Installed(h) == hook[h].pc = "installed"

Init ==
    /\ bytes = [s \in Site |-> Original]
    /\ mem = [t \in Tramp |-> Free]
    /\ hook = [h \in Hooker |-> NoHook]
    /\ mishap = {}
    /\ stomps = 0

\* The mishaps in ms happen with this step.
Goes(ms) ==
    /\ mishap' = mishap \cup ms
    /\ Cardinality(mishap') <= MaxMishap

\* A hooker h that writes to site s races the copies of vmhook that chose s and
\* have not patched it yet: no lock spans two copies.
Writes(h, s, ms) ==
    LET raced == \E d \in Dll \ {h} : hook[d].pc \in {"found", "detected"} /\ hook[d].site = s
    IN  Goes(ms \cup IF raced THEN {"raced"} ELSE {})

-----------------------------------------------------------------------------
(* Installing the patch.                                                   *)

FindHookLocation_PatchedToo(d) ==
    /\ hook[d].pc = "none"
    /\ hook' = [hook EXCEPT ![d] = [NoHook EXCEPT !.pc = "found", !.site = 1]]
    /\ UNCHANGED <<bytes, mem, mishap, stomps>>

\* find_hook_location(): the first match of the pattern.  A JMP does not match
\* it, so a patched site is passed over; with no match left hook() fails.
FindHookLocation(d) ==
    /\ hook[d].pc = "none"
    /\ \E s \in Site :
          /\ bytes[s] = Original
          /\ \A r \in Site : r < s => bytes[r] # Original
          /\ hook' = [hook EXCEPT ![d] = [NoHook EXCEPT !.pc = "found", !.site = s]]
    /\ UNCHANGED <<bytes, mem, mishap, stomps>>

JmpTarget(s) == IF bytes[s] = Original THEN NoTramp ELSE bytes[s]

\* hook<T>() looks for a JMP at the injection point and follows it.
DetectChain(d) ==
    /\ hook[d].pc = "found"
    /\ hook' = [hook EXCEPT ![d].pc = "detected", ![d].chain = JmpTarget(hook[d].site)]
    /\ UNCHANGED <<bytes, mem, mishap, stomps>>

ResumeAt(chain) == IF chain = NoTramp THEN Stub ELSE chain

\* The constructor: the bytes at the site are copied to the front of the
\* trampoline, the resume JMP is set, the site is patched.
Construct(d, t) ==
    LET s == hook[d].site IN
    /\ hook[d].pc = "detected"
    /\ mem[t] = Free
    /\ mem' = [mem EXCEPT ![t] = [owner |-> d, saved |-> bytes[s],
                                  resume |-> ResumeAt(hook[d].chain)]]
    /\ bytes' = [bytes EXCEPT ![s] = t]
    /\ hook' = [hook EXCEPT ![d].pc = "installed", ![d].tramp = t]
    /\ Writes(d, s, {})
    /\ UNCHANGED stomps

\* allocate_nearby_memory() finds no page: has_error(), and hook<T>() deletes it.
ConstructFails(d) ==
    /\ hook[d].pc = "detected"
    /\ hook' = [hook EXCEPT ![d] = NoHook]
    /\ UNCHANGED <<bytes, mem, mishap, stomps>>

-----------------------------------------------------------------------------
(* verify_and_repair().                                                    *)

\* The chain target after the repair: the JMP that is at the site now, if any.
NewChain(d) == IF bytes[hook[d].site] = Original THEN hook[d].chain ELSE bytes[hook[d].site]

RewriteChainResume_Skip(d, ms) == ms = {} /\ UNCHANGED mem

\* rewrite_chain_resume(), which gives up when the page cannot be unprotected.
RewriteChainResume(d, ms) ==
    \/ ms = {} /\ mem' = [mem EXCEPT ![hook[d].tramp].resume = NewChain(d)]
    \/ ms = {"rewrite"} /\ UNCHANGED mem

\* The first half of verify_and_repair(): the chain target follows what is found
\* at the site, and the resume JMP the chain target.
FollowChain(d, ms) ==
    /\ Installed(d)
    /\ bytes[hook[d].site] # hook[d].tramp
    /\ IF NewChain(d) # hook[d].chain
       THEN RewriteChainResume(d, ms) ELSE ms = {} /\ UNCHANGED mem
    /\ hook' = [hook EXCEPT ![d].chain = NewChain(d)]
    /\ UNCHANGED stomps

VerifyAndRepair_KeepJmp(d) ==
    \E ms \in SUBSET {"rewrite"} : FollowChain(d, ms) /\ Goes(ms) /\ UNCHANGED bytes

\* The JMP at the site is not ours: chain to the one that is there and write
\* ours again.  A page that cannot be unprotected leaves the site as it is.
VerifyAndRepair(d) ==
    \E ms \in SUBSET {"rewrite"} :
        /\ FollowChain(d, ms)
        /\ \/ /\ bytes' = [bytes EXCEPT ![hook[d].site] = hook[d].tramp]
              /\ Writes(d, hook[d].site, ms)
           \/ Goes(ms \cup {"repair"}) /\ UNCHANGED bytes

-----------------------------------------------------------------------------

Destroy_KeepPatch(d) ==
    /\ Installed(d)
    /\ mem' = [mem EXCEPT ![hook[d].tramp] = Free]
    /\ hook' = [hook EXCEPT ![d] = NoHook]
    /\ UNCHANGED <<bytes, mishap, stomps>>

Destroy_FirstSite(d) ==
    LET t == hook[d].tramp IN
    /\ Installed(d)
    /\ bytes' = [bytes EXCEPT ![1] = mem[t].saved]
    /\ mem' = [mem EXCEPT ![t] = Free]
    /\ hook' = [hook EXCEPT ![d] = NoHook]
    /\ UNCHANGED <<mishap, stomps>>

\* ~midi2i_hook(): whoever's JMP is at the site, the saved bytes are put back,
\* then the trampoline is released.
Destroy(d) ==
    LET s == hook[d].site
        t == hook[d].tramp IN
    /\ Installed(d)
    /\ \/ /\ bytes' = IF bytes[s] = Original THEN bytes ELSE [bytes EXCEPT ![s] = mem[t].saved]
          /\ Writes(d, s, {})
       \/ Goes({"destroy"}) /\ UNCHANGED bytes
    /\ mem' = [mem EXCEPT ![t] = Free]
    /\ hook' = [hook EXCEPT ![d] = NoHook]
    /\ UNCHANGED stomps

-----------------------------------------------------------------------------
(* Foreign hookers.                                                        *)

\* The first patch of a foreign hooker, or its own repair of a patch it lost.
\* Its trampoline resumes in the stub or at the trampoline it displaced.
Stomp(f, t, s) ==
    /\ stomps < MaxStomp /\ stomps' = stomps + 1
    /\ \/ hook[f].pc = "none" /\ mem[t] = Free
       \/ Installed(f) /\ t = hook[f].tramp /\ s = hook[f].site /\ bytes[s] # t
    /\ \E behind \in {Stub, ResumeAt(JmpTarget(s))} :
          /\ mem' = [mem EXCEPT ![t] = [owner |-> f, saved |-> Original, resume |-> behind]]
          /\ Writes(f, s, IF behind = Stub THEN {} ELSE {"chained"})
    /\ bytes' = [bytes EXCEPT ![s] = t]
    /\ hook' = [hook EXCEPT ![f].pc = "installed", ![f].tramp = t, ![f].site = s]

\* A foreign hooker is unloaded: where its JMP still is, it takes it back.
Leave(f) ==
    LET t == hook[f].tramp IN
    /\ Installed(f)
    /\ Writes(f, hook[f].site, {"left"})
    /\ bytes' = IF bytes[hook[f].site] # t THEN bytes
                ELSE [bytes EXCEPT ![hook[f].site] =
                        IF mem[t].resume = Stub THEN Original ELSE mem[t].resume]
    /\ mem' = [mem EXCEPT ![t] = Free]
    /\ hook' = [hook EXCEPT ![f] = NoHook]
    /\ UNCHANGED stomps

Next ==
    \/ \E d \in Dll :
          \/ FindHookLocation(d)
          \/ DetectChain(d)
          \/ \E t \in Tramp : Construct(d, t)
          \/ ConstructFails(d)
          \/ VerifyAndRepair(d)
          \/ Destroy(d)
    \/ \E f \in Foreign : Leave(f) \/ \E t \in Tramp, s \in Site : Stomp(f, t, s)

Spec == Init /\ [][Next]_vars

(* The watchdog of each copy runs verify_and_repair() once per interval.   *)
FairSpec == Spec /\ \A d \in Dll : WF_vars(VerifyAndRepair(d))

-----------------------------------------------------------------------------
(* A call that reaches a site.                                             *)

\* Where control is after n trampolines.  The copied bytes run first: a copied
\* JMP is relative to the site and jumps wild at the trampoline's address, so
\* control never gets to the detour and the resume JMP of that trampoline.
Walk(s) ==
    LET w[n \in 0..Cardinality(Tramp)] ==
          IF n = 0 THEN bytes[s]
          ELSE LET t == w[n - 1] IN
               IF t \in Tramp /\ mem[t] # Free /\ mem[t].saved = Original
               THEN mem[t].resume ELSE t
    IN w

\* The hookers whose detours a call through site s runs.
Fired(s) ==
    {h \in Hooker : \E n \in DOMAIN Walk(s) :
        LET t == Walk(s)[n] IN t \in Tramp /\ mem[t].owner = h /\ mem[t].saved = Original}

Fires(h) == \E s \in Site : h \in Fired(s)

-----------------------------------------------------------------------------
(* Properties.                                                             *)

\* Nothing worse than the mishaps in ms has happened.
AtWorst(ms) == mishap \subseteq ms

\* A Java call that reaches a patched site comes back to the stub: it enters no
\* released trampoline, no copied JMP, and does not go around in a circle, even
\* when verify_and_repair() could not unprotect a page.
ReturnsToStub ==
    AtWorst({"rewrite", "repair"}) =>
        \A s \in Site : Walk(s)[Cardinality(Tramp)] \in {Original, Stub}

\* Writing its JMP, at install or at a repair, a copy of vmhook gets its own
\* detour called and silences no other: both hooks fire, neither is lost.
Coexist ==
    [][\A d \in Dll :
          /\ VerifyAndRepair(d) \/ \E t \in Tramp : Construct(d, t)
          /\ AtWorst({"chained", "destroy"})'
          => Fires(d)' /\ \A h \in Hooker \ {d} : Fires(h) => Fires(h)']_vars

\* When the last hooker is gone, the stub is what the JVM generated, unless a
\* removal failed or raced an install.
StubRestored ==
    /\ AtWorst({"chained", "left", "rewrite", "repair"})
    /\ \A h \in Hooker : hook[h].tramp = NoTramp
    => \A s \in Site : bytes[s] = Original

\* A patch that another hooker overwrote is written again and its detour fires.
StompRepaired ==
    \A d \in Dll :
        Installed(d) /\ ~Fires(d)
            ~> ~Installed(d) \/ Fires(d) \/ ~AtWorst({"chained", "rewrite", "destroy"})

\* Removing one copy of vmhook does not silence another.
DestroyKeepsOthers ==
    [][\A d \in Dll :
          Destroy(d) /\ AtWorst({"chained", "rewrite", "repair", "destroy"})
          => \A h \in Dll \ {d} : Fires(h) => Fires(h)']_vars
=============================================================================
