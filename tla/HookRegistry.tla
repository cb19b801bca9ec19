---------------------------- MODULE HookRegistry ----------------------------
(***************************************************************************)
(* The hook registry of vmhook.hpp: g_hooked_methods, g_hooked_i2i_entries *)
(* and the fields of the HotSpot Method objects that installing, removing, *)
(* verifying and repairing a hook reads and writes.                        *)
(*                                                                         *)
(* A Method* is an address.  The JVM may redefine a class (its method      *)
(* moves to another address), free the obsolete Method and hand the        *)
(* address to another method, so the registry's idea of an address can be  *)
(* stale.  The JVM's own steps are modelled as far as the registry can     *)
(* observe them and are marked external in the map.                        *)
(*                                                                         *)
(* g_hooked_methods_mutex makes stop, shutdown_hooks and the install part  *)
(* of hook up to the deoptimisation single actions.  hook resolves the     *)
(* Method* before it takes the mutex and scoped_hook once more after hook  *)
(* returned: these are steps of their own, and the JVM may move the method *)
(* in between.  The pass of verify_hooks is one action per entry: the      *)
(* mutex stays held, the JVM is not stopped.  A deoptimisation is one      *)
(* action per store, under the mutex or, in deoptimize_methods_if, not.    *)
(***************************************************************************)
EXTENDS Integers, SequencesExt

CONSTANTS
    Method,        \* addresses a HotSpot Method object can have
    JavaMethod,    \* Java methods: class, name and descriptor
    Stub,          \* i2i interpreter stubs
    Handle,        \* hook_handle objects of the client
    Caller,        \* threads that call hook<T>() and scoped_hook<T>()
    NoMethod,      \* the null Method*
    NoHandle,      \* a call of hook<T>(), which returns no handle
    NoJava,        \* a Method slot whose ConstMethod is null: freed or never used
    StubOf,        \* the i2i stub that a Java method is dispatched through
    NameOf,        \* the name of a Java method, without class and descriptor
    SignatureOf,   \* its JVM descriptor
    InitialTable,  \* where the methods of the loaded classes are at the start
    AdapterKnown,  \* addresses whose c2i adapter get_adapter() recovers
    Selected,      \* addresses that the predicate of deoptimize_methods_if selects
    LazyLink,      \* a class may be hooked before the JVM linked it
    InstallFaults, \* find_hook_location or allocate_nearby_memory may fail
    MaxDrift,      \* bound: compilations past NO_COMPILE and clearings of NO_COMPILE
    MaxRedefine    \* bound: class redefinitions, unloads and loads

ASSUME RegistryAssumption ==
    /\ NoMethod \notin Method
    /\ NoJava \notin JavaMethod
    /\ NoHandle \notin Handle
    /\ StubOf \in [JavaMethod -> Stub]
    /\ InitialTable \in [JavaMethod -> Method \cup {NoMethod}]
    /\ \A s, t \in JavaMethod :
          InitialTable[s] = InitialTable[t] /\ InitialTable[s] # NoMethod => s = t
    /\ AdapterKnown \subseteq Method
    /\ Selected \subseteq Method
    /\ LazyLink \in BOOLEAN
    /\ InstallFaults \in BOOLEAN
    /\ MaxDrift \in Nat
    /\ MaxRedefine \in Nat

VARIABLES
    table,       \* InstanceKlass::_methods: the current Method* of each Java method
    occupant,    \* the Java method whose data a slot holds
    linked,      \* Method::_i2i_entry is set
    dontInline,  \* the _dont_inline bit of Method::_flags
    noCompile,   \* the NO_COMPILE bits of Method::_access_flags
    code,        \* Method::_code is not null
    fromI,       \* what Method::_from_interpreted_entry points at
    fromC,       \* what Method::_from_compiled_entry points at
    hooked,      \* g_hooked_methods
    patched,     \* the stubs in g_hooked_i2i_entries
    handles,     \* hook_handle::method, with the Java method it was made for
    call,        \* the hook<T>() or scoped_hook<T>() call a thread is in
    claimed,     \* Java methods the client holds a successful hook() for (history)
    vpos,        \* entry verify_hooks is at, 0 when no pass runs
    deopt,       \* the deoptimisation that the owner of the mutex, or the bulk one, is in
    torn,        \* Methods into which the JIT stored during a deoptimisation (history)
    drifts,      \* drift steps so far
    redefines    \* redefinition steps so far

entryVars == <<code, fromI, fromC>>
jvmVars == <<table, occupant, linked, dontInline, noCompile, code, fromI, fromC>>
registryVars == <<hooked, patched, handles, call, claimed, vpos>>
historyVars == <<torn, drifts, redefines>>
vars == <<table, occupant, linked, dontInline, noCompile, code, fromI, fromC,
          hooked, patched, handles, call, claimed, vpos, deopt, torn, drifts, redefines>>

\* hooked_method.  who stands for expected_class_name and expected_method_name,
\* sig for the method whose descriptor expected_signature is (NoJava: empty).
HookedMethod == [method : Method, who : JavaMethod, sig : JavaMethod \cup {NoJava},
                 drift_logged : BOOLEAN]
EmptyHandle == [method |-> NoMethod, who |-> NoJava]

Idle == [pc |-> "idle", who |-> NoJava, method |-> NoMethod, handle |-> NoHandle]
Call == [pc : {"idle", "lock", "deopt", "handle"}, who : JavaMethod \cup {NoJava},
         method : Method \cup {NoMethod}, handle : Handle \cup {NoHandle}]

\* A deoptimisation: the fields that are still to be stored.  At most one runs under the
\* mutex; deoptimize_methods_if() takes none.
Field == {"fromI", "fromC", "code"}
Deopter == {"locked", "bulk"}
NoDeopt == [method |-> NoMethod, left |-> {}]

\* Type invariant: hook, stop, shutdown_hooks and verify_hooks keep the registry
\* a list of entries with non-null Method*, and a pass never runs off its end.
TypeOK ==
    /\ table \in [JavaMethod -> Method \cup {NoMethod}]
    /\ occupant \in [Method -> JavaMethod \cup {NoJava}]
    /\ linked \in [Method -> BOOLEAN]
    /\ dontInline \in [Method -> BOOLEAN]
    /\ noCompile \in [Method -> BOOLEAN]
    /\ code \in [Method -> BOOLEAN]
    /\ fromI \in [Method -> {"i2i", "i2c"}]
    /\ fromC \in [Method -> {"c2i", "nmethod"}]
    /\ hooked \in Seq(HookedMethod)
    /\ patched \in SUBSET Stub
    /\ handles \in [Handle -> [method : Method \cup {NoMethod}, who : JavaMethod \cup {NoJava}]]
    /\ call \in [Caller -> Call]
    /\ \A d \in Caller : call[d].pc # "idle" => call[d].method # NoMethod /\ call[d].who # NoJava
    /\ claimed \in SUBSET JavaMethod
    /\ vpos \in 0..Len(hooked)
    /\ deopt \in [Deopter -> [method : Method \cup {NoMethod}, left : SUBSET Field]]
    /\ \A o \in Deopter : deopt[o].left # {} => deopt[o].method # NoMethod
    /\ torn \in SUBSET Method
    /\ drifts \in Nat
    /\ redefines \in Nat

Live(m) == \E s \in JavaMethod : table[s] = m
Loaded(s) == table[s] # NoMethod
InList(m) == \E i \in DOMAIN hooked : hooked[i].method = m

\* First entry for m: std::find_if in stop(), the match common_detour takes.
FirstOf(m) == CHOOSE i \in DOMAIN hooked :
                 /\ hooked[i].method = m
                 /\ \A j \in DOMAIN hooked : j < i => hooked[j].method # m

Init ==
    /\ table = InitialTable
    /\ occupant = [m \in Method |-> IF Live(m) THEN CHOOSE s \in JavaMethod : table[s] = m
                                               ELSE NoJava]
    /\ linked \in [Method -> BOOLEAN] /\ \A m \in Method : linked[m] \/ (LazyLink /\ Live(m))
    /\ dontInline = [m \in Method |-> FALSE]
    /\ noCompile = [m \in Method |-> FALSE]
    /\ code = [m \in Method |-> FALSE]
    /\ fromI = [m \in Method |-> "i2i"]
    /\ fromC = [m \in Method |-> "c2i"]
    /\ hooked = <<>>
    /\ patched = {}
    /\ handles = [h \in Handle |-> EmptyHandle]
    /\ call = [d \in Caller |-> Idle]
    /\ claimed = {}
    /\ vpos = 0
    /\ deopt = [o \in Deopter |-> NoDeopt]
    /\ torn = {}
    /\ drifts = 0
    /\ redefines = 0

-----------------------------------------------------------------------------
(* Operations on one Method.                                               *)

\* set_dont_inline(m, TRUE) and *flags |= NO_COMPILE, set_dont_inline(m, FALSE)
\* and *flags &= ~NO_COMPILE.
Inhibit(m, on) ==
    /\ dontInline' = [dontInline EXCEPT ![m] = on]
    /\ noCompile' = [noCompile EXCEPT ![m] = on]

Deoptimising(o) == deopt[o].left # {}

\* Somebody is between the locking and the unlocking of g_hooked_methods_mutex.
Locked == vpos # 0 \/ Deoptimising("locked") \/ \E d \in Caller : call[d].pc = "deopt"

\* The deoptimisation of a Method that get_code() says is compiled begins.  Without a
\* recoverable c2i adapter _from_compiled_entry is left alone.
BeginDeopt(o, m) ==
    deopt' = [deopt EXCEPT ![o] = [method |-> m, left |-> IF m \in AdapterKnown THEN Field
                                                                            ELSE Field \ {"fromC"}]]

DeoptIfCompiled(m) == IF code[m] THEN BeginDeopt("locked", m) ELSE UNCHANGED deopt

\* One field is stored: set_from_interpreted_entry(), set_from_compiled_entry(), set_code().
Store(o, f) ==
    LET m == deopt[o].method
        left == deopt[o].left \ {f} IN
    /\ fromI' = IF f = "fromI" THEN [fromI EXCEPT ![m] = "i2i"] ELSE fromI
    /\ fromC' = IF f = "fromC" THEN [fromC EXCEPT ![m] = "c2i"] ELSE fromC
    /\ code' = IF f = "code" THEN [code EXCEPT ![m] = FALSE] ELSE code
    /\ deopt' = [deopt EXCEPT ![o] = IF left = {} THEN NoDeopt ELSE [@ EXCEPT !.left = left]]
    /\ UNCHANGED <<table, occupant, linked, dontInline, noCompile, hooked, patched, handles, call,
                   claimed, vpos, historyVars>>

DeoptStore_AnyOrder(o) == \E f \in deopt[o].left : Store(o, f)

\* Both entry points first, in the one order in hook<T>() and in the other one in
\* verify_hooks(), _code last.
DeoptStore(o) ==
    \E f \in deopt[o].left :
        /\ f = "fromC" /\ o = "bulk" => "fromI" \notin deopt[o].left
        /\ f = "code" => deopt[o].left = {"code"}
        /\ Store(o, f)

-----------------------------------------------------------------------------
(* hook<T>(name, signature, detour) and scoped_hook<T>(): the resolution,  *)
(* then one action per outcome of the part under the mutex.  A call that   *)
(* finds no class or no method changes nothing.                            *)

\* The class is found and its method array searched.
HookResolve(d, s, h) ==
    /\ call[d] = Idle
    /\ Loaded(s)
    /\ h # NoHandle => handles[h] = EmptyHandle /\ \A e \in Caller : call[e].handle # h
    /\ call' = [call EXCEPT ![d] = [pc |-> "lock", who |-> s, method |-> table[s], handle |-> h]]
    /\ UNCHANGED <<jvmVars, hooked, patched, handles, claimed, vpos, deopt, historyVars>>

\* The i2i stub get_i2i_entry() answers: that of the method in the slot, or
\* what the memory of a freed slot still holds.
I2i(m, s) == StubOf[IF occupant[m] = NoJava THEN s ELSE occupant[m]]

NewEntry(m, s) == [method |-> m, who |-> s, sig |-> occupant[m], drift_logged |-> FALSE]

\* A true result: hook<T>() returns to its caller, scoped_hook<T>() goes on.
HookSucceeds(d) ==
    /\ call' = [call EXCEPT ![d] = IF @.handle = NoHandle THEN Idle ELSE [@ EXCEPT !.pc = "handle"]]
    /\ claimed' = claimed \cup {call[d].who}

\* An exception, caught and turned into false; scoped_hook<T>() answers an empty handle.
HookFails(d) ==
    /\ call' = [call EXCEPT ![d] = Idle]
    /\ UNCHANGED claimed

HookFresh_NoPatch(d) ==
    LET m == call[d].method IN
    /\ ~InList(m) /\ linked[m]
    /\ Inhibit(m, TRUE)
    /\ hooked' = Append(hooked, NewEntry(m, call[d].who))
    /\ DeoptIfCompiled(m)
    /\ call' = [call EXCEPT ![d].pc = "deopt"]
    /\ UNCHANGED <<patched, claimed>>

\* A new hook, every step of the install succeeding: the inhibitors, the entry, the
\* trampoline unless the stub already has one, the deoptimisation if it is needed.
HookFresh(d) ==
    LET m == call[d].method IN
    /\ ~InList(m) /\ linked[m]
    /\ Inhibit(m, TRUE)
    /\ hooked' = Append(hooked, NewEntry(m, call[d].who))
    /\ patched' = patched \cup {I2i(m, call[d].who)}
    /\ DeoptIfCompiled(m)
    /\ call' = [call EXCEPT ![d].pc = "deopt"]
    /\ UNCHANGED claimed

\* The Method* is in the registry already: the call returns true at once.
HookAlready(d) ==
    /\ InList(call[d].method)
    /\ HookSucceeds(d)
    /\ UNCHANGED <<dontInline, noCompile, hooked, patched, deopt>>

\* The class is loaded but not linked: get_i2i_entry() is null and the call
\* throws after both inhibitors were set.
HookUnlinked(d) ==
    LET m == call[d].method IN
    /\ ~InList(m) /\ ~linked[m]
    /\ Inhibit(m, TRUE)
    /\ HookFails(d)
    /\ UNCHANGED <<hooked, patched, deopt>>

\* The stub cannot be patched: the call throws after the entry was pushed and
\* before the deoptimisation.
HookNoTrampoline(d) ==
    LET m == call[d].method IN
    /\ InstallFaults
    /\ ~InList(m) /\ linked[m] /\ I2i(m, call[d].who) \notin patched
    /\ Inhibit(m, TRUE)
    /\ hooked' = Append(hooked, NewEntry(m, call[d].who))
    /\ HookFails(d)
    /\ UNCHANGED <<patched, deopt>>

\* The part of hook<T>() under g_hooked_methods_mutex, up to the deoptimisation.
HookInstall(d) ==
    /\ call[d].pc = "lock"
    /\ ~Locked
    /\ HookFresh(d) \/ HookAlready(d) \/ HookUnlinked(d) \/ HookNoTrampoline(d)
    /\ UNCHANGED <<table, occupant, linked, entryVars, handles, vpos, historyVars>>

\* hook<T>() has deoptimised the method if it had to, and returns true.
HookReturn(d) ==
    /\ call[d].pc = "deopt"
    /\ ~Deoptimising("locked")
    /\ HookSucceeds(d)
    /\ UNCHANGED <<jvmVars, hooked, patched, handles, vpos, deopt, historyVars>>

\* The end of scoped_hook<T>(): the Method* is resolved again for the handle.  A
\* class or method that is gone by now gives an empty handle.
ScopedHookReturn(d) ==
    LET s == call[d].who IN
    /\ call[d].pc = "handle"
    /\ handles' = [handles EXCEPT ![call[d].handle] =
                      IF Loaded(s) THEN [method |-> table[s], who |-> s] ELSE EmptyHandle]
    /\ call' = [call EXCEPT ![d] = Idle]
    /\ UNCHANGED <<jvmVars, hooked, patched, claimed, vpos, deopt, historyVars>>

-----------------------------------------------------------------------------
(* Removal.                                                                *)

Stop_KeepFlags(h) ==
    LET m == handles[h].method IN
    /\ ~Locked
    /\ m # NoMethod
    /\ handles' = [handles EXCEPT ![h] = EmptyHandle]
    /\ claimed' = claimed \ {handles[h].who}
    /\ hooked' = IF InList(m) THEN RemoveAt(hooked, FirstOf(m)) ELSE hooked
    /\ UNCHANGED <<jvmVars, patched, call, vpos, deopt, historyVars>>

Stop_EraseToEnd(h) ==
    LET m == handles[h].method IN
    /\ ~Locked
    /\ m # NoMethod
    /\ handles' = [handles EXCEPT ![h] = EmptyHandle]
    /\ claimed' = claimed \ {handles[h].who}
    /\ IF InList(m)
       THEN /\ Inhibit(m, FALSE)
            /\ hooked' = SubSeq(hooked, 1, FirstOf(m) - 1)
       ELSE UNCHANGED <<dontInline, noCompile, hooked>>
    /\ UNCHANGED <<table, occupant, linked, code, fromI, fromC, patched, call, vpos, deopt, historyVars>>

\* hook_handle::stop(): the entry whose Method* is the handle's is dropped and
\* its inhibitors are cleared; the trampoline and the entry points stay.
Stop(h) ==
    LET m == handles[h].method IN
    /\ ~Locked
    /\ m # NoMethod
    /\ handles' = [handles EXCEPT ![h] = EmptyHandle]
    /\ claimed' = claimed \ {handles[h].who}
    /\ IF InList(m)
       THEN /\ Inhibit(m, FALSE)
            /\ hooked' = RemoveAt(hooked, FirstOf(m))
       ELSE UNCHANGED <<dontInline, noCompile, hooked>>
    /\ UNCHANGED <<table, occupant, linked, code, fromI, fromC, patched, call, vpos, deopt, historyVars>>

\* The entries whose inhibitors shutdown_hooks() clears: the slot's ConstMethod
\* must not be null.  A slot that now holds another method passes.
Restored(m) == InList(m) /\ occupant[m] # NoJava

\* The locked part of shutdown_hooks(): every trampoline is deleted, the
\* inhibitors are cleared, both vectors are emptied.
Shutdown ==
    /\ ~Locked
    /\ patched' = {}
    /\ dontInline' = [m \in Method |-> dontInline[m] /\ ~Restored(m)]
    /\ noCompile' = [m \in Method |-> noCompile[m] /\ ~Restored(m)]
    /\ hooked' = <<>>
    /\ claimed' = {}
    /\ UNCHANGED <<table, occupant, linked, code, fromI, fromC, handles, call, vpos, deopt, historyVars>>

-----------------------------------------------------------------------------
(* verify_hooks(): the drift detector.  The check of the 5-byte patch is   *)
(* the subject of module TrampolineChain.                                  *)

VerifyBegin ==
    /\ ~Locked
    /\ hooked # <<>>
    /\ vpos' = 1
    /\ UNCHANGED <<jvmVars, hooked, patched, handles, call, claimed, deopt, historyVars>>

\* The pass is at an entry, and the deoptimisation of the one before is over.
Verifying == vpos # 0 /\ ~Deoptimising("locked")

VerifyAdvance ==
    /\ vpos' = IF vpos = Len(hooked) THEN 0 ELSE vpos + 1
    /\ UNCHANGED <<table, occupant, linked, entryVars, patched, handles, call, claimed, historyVars>>

Drifted_NameOnly(e) ==
    occupant[e.method] # NoJava /\ NameOf[occupant[e.method]] # NameOf[e.who]

\* Mode 1, the ConstMethod is null, and mode 2, the name differs from the one
\* the hook was installed on.  Only the name is compared.
Drifted(e) == occupant[e.method] # NoJava => NameOf[occupant[e.method]] # NameOf[e.who]

\* Mode 3: compiled again, or NO_COMPILE cleared.
JitDrifted(e) == code[e.method] \/ ~noCompile[e.method]

\* try_reinstall() looks the class up by name and searches its methods for the
\* expected name and, unless it is empty, the expected signature.
Resolvable(e) == Loaded(e.who) /\ (e.sig # NoJava => SignatureOf[e.sig] = SignatureOf[e.who])

\* try_reinstall(): the entry moves to the Method* its class has now.
Reinstall(i) ==
    LET e == hooked[i]
        m == table[e.who] IN
    /\ Resolvable(e)
    /\ hooked' = [hooked EXCEPT ![i] = [e EXCEPT !.method = m, !.drift_logged = FALSE]]
    /\ Inhibit(m, TRUE)
    /\ DeoptIfCompiled(m)

ReinstallFails_PopBack(i) ==
    /\ ~Resolvable(hooked[i])
    /\ hooked' = Front(hooked)
    /\ UNCHANGED <<dontInline, noCompile, deopt>>

\* try_reinstall() finds no class or no method: the entry stays marked.
ReinstallFails(i) ==
    /\ ~Resolvable(hooked[i])
    /\ hooked' = [hooked EXCEPT ![i].drift_logged = TRUE]
    /\ UNCHANGED <<dontInline, noCompile, deopt>>

VerifySkip ==
    /\ Verifying
    /\ hooked[vpos].drift_logged
    /\ UNCHANGED <<dontInline, noCompile, deopt, hooked>>
    /\ VerifyAdvance

VerifyDrifted ==
    /\ Verifying
    /\ ~hooked[vpos].drift_logged
    /\ Drifted(hooked[vpos])
    /\ Reinstall(vpos) \/ ReinstallFails(vpos)
    /\ VerifyAdvance

VerifyJit_FlagsOnly ==
    LET e == hooked[vpos] IN
    /\ Verifying
    /\ ~e.drift_logged
    /\ ~Drifted(e)
    /\ JitDrifted(e)
    /\ Inhibit(e.method, TRUE)
    /\ hooked' = [hooked EXCEPT ![vpos].drift_logged = TRUE]
    /\ UNCHANGED deopt
    /\ VerifyAdvance

\* Mode 3: the inhibitors and the deoptimisation are applied again and the
\* entry is marked.
VerifyJit ==
    LET e == hooked[vpos] IN
    /\ Verifying
    /\ ~e.drift_logged
    /\ ~Drifted(e)
    /\ JitDrifted(e)
    /\ Inhibit(e.method, TRUE)
    /\ DeoptIfCompiled(e.method)
    /\ hooked' = [hooked EXCEPT ![vpos].drift_logged = TRUE]
    /\ VerifyAdvance

\* Nothing drifted: drift_logged is cleared, which it is already.
VerifyClean ==
    LET e == hooked[vpos] IN
    /\ Verifying
    /\ ~e.drift_logged
    /\ ~Drifted(e)
    /\ ~JitDrifted(e)
    /\ UNCHANGED <<dontInline, noCompile, deopt, hooked>>
    /\ VerifyAdvance

VerifyEntry == VerifySkip \/ VerifyDrifted \/ VerifyJit \/ VerifyClean

\* deoptimize_methods_if() comes to a method its predicate selects.  It leaves a method
\* alone whose c2i adapter it cannot recover.
DeoptimizeMethod(m) ==
    /\ ~Deoptimising("bulk")
    /\ Live(m) /\ code[m] /\ m \in Selected
    /\ linked[m] /\ m \in AdapterKnown
    /\ BeginDeopt("bulk", m)
    /\ UNCHANGED <<jvmVars, registryVars, historyVars>>

-----------------------------------------------------------------------------
(* The JVM, as far as the registry observes it.                            *)

\* Somebody is between two stores of a deoptimisation of m.
UnderDeopt(m) == \E o \in Deopter : Deoptimising(o) /\ deopt[o].method = m

\* The JIT installs an nmethod, or one of a higher tier, which makes a difference during a
\* deoptimisation only.  Past NO_COMPILE this is drift: the comment on mode 3 lists how it
\* happens.
JitCompile(m) ==
    /\ Live(m) /\ linked[m] /\ (code[m] => UnderDeopt(m))
    /\ IF noCompile[m] THEN drifts < MaxDrift /\ drifts' = drifts + 1 ELSE UNCHANGED drifts
    /\ torn' = IF UnderDeopt(m) THEN torn \cup {m} ELSE torn \ {m}
    /\ code' = [code EXCEPT ![m] = TRUE]
    /\ fromI' = [fromI EXCEPT ![m] = "i2c"]
    /\ fromC' = [fromC EXCEPT ![m] = "nmethod"]
    /\ UNCHANGED <<registryVars, table, occupant, linked, dontInline, noCompile, deopt, redefines>>

\* Another agent or a safepoint clears NO_COMPILE of a hooked method.
ClearNoCompile(m) ==
    /\ Live(m) /\ noCompile[m]
    /\ drifts < MaxDrift /\ drifts' = drifts + 1
    /\ noCompile' = [noCompile EXCEPT ![m] = FALSE]
    /\ UNCHANGED <<registryVars, table, occupant, linked, dontInline, entryVars, deopt, torn, redefines>>

LinkClass(m) ==
    /\ ~linked[m]
    /\ linked' = [linked EXCEPT ![m] = TRUE]
    /\ UNCHANGED <<registryVars, table, occupant, dontInline, noCompile, entryVars, deopt, historyVars>>

\* RedefineClasses, or the load of a class that was unloaded: the Java method
\* gets a fresh Method in a free slot.
Redefine(s, m) ==
    /\ redefines < MaxRedefine /\ redefines' = redefines + 1
    /\ occupant[m] = NoJava
    /\ table' = [table EXCEPT ![s] = m]
    /\ occupant' = [occupant EXCEPT ![m] = s]
    /\ linked' = [linked EXCEPT ![m] = TRUE]
    /\ dontInline' = [dontInline EXCEPT ![m] = FALSE]
    /\ noCompile' = [noCompile EXCEPT ![m] = FALSE]
    /\ code' = [code EXCEPT ![m] = FALSE]
    /\ fromI' = [fromI EXCEPT ![m] = "i2i"]
    /\ fromC' = [fromC EXCEPT ![m] = "c2i"]
    /\ torn' = torn \ {m}
    /\ UNCHANGED <<registryVars, deopt, drifts>>

UnloadClass(s) ==
    /\ redefines < MaxRedefine /\ redefines' = redefines + 1
    /\ Loaded(s)
    /\ table' = [table EXCEPT ![s] = NoMethod]
    /\ UNCHANGED <<registryVars, occupant, linked, dontInline, noCompile, entryVars, deopt, torn, drifts>>

\* The metaspace of an obsolete Method is reclaimed.
FreeMethod(m) ==
    /\ occupant[m] # NoJava /\ ~Live(m)
    /\ occupant' = [occupant EXCEPT ![m] = NoJava]
    /\ UNCHANGED <<registryVars, table, linked, dontInline, noCompile, entryVars, deopt, historyVars>>

Jvm ==
    \/ \E m \in Method : JitCompile(m) \/ ClearNoCompile(m) \/ LinkClass(m) \/ FreeMethod(m)
    \/ \E s \in JavaMethod : UnloadClass(s) \/ \E m \in Method : Redefine(s, m)

Registry ==
    \/ \E d \in Caller :
          \/ \E s \in JavaMethod, h \in Handle \cup {NoHandle} : HookResolve(d, s, h)
          \/ HookInstall(d)
          \/ HookReturn(d)
          \/ ScopedHookReturn(d)
    \/ \E h \in Handle : Stop(h)
    \/ Shutdown
    \/ VerifyBegin
    \/ VerifyEntry
    \/ \E m \in Method : DeoptimizeMethod(m)
    \/ \E o \in Deopter : DeoptStore(o)

Next == Registry \/ Jvm

Spec == Init /\ [][Next]_vars

\* The next step of the thread that has the mutex.
OwnerStep == VerifyEntry \/ DeoptStore("locked") \/ \E d \in Caller : HookReturn(d)

(* The watchdog calls verify_hooks() once per interval while hooks are     *)
(* installed and gets the mutex if it is free again and again; a pass, a   *)
(* deoptimisation and a hook<T>() that have begun go on.                   *)
FairSpec == Spec /\ SF_vars(VerifyBegin) /\ WF_vars(OwnerStep)

-----------------------------------------------------------------------------
(* Properties.                                                             *)

\* A call of s by an interpreted caller reaches the detour that was installed
\* for s: its entry point is the i2i stub, the stub is patched, and the first
\* entry common_detour finds for the Method* is the one of s.
Fires(s) ==
    LET m == table[s] IN
    /\ Loaded(s)
    /\ fromI[m] = "i2i"
    /\ StubOf[s] \in patched
    /\ InList(m)
    /\ hooked[FirstOf(m)].who = s

\* No Method is without _code and yet has an entry point of the compiled epoch, not even
\* between two stores of a deoptimisation: install, repair, re-install and the bulk
\* deoptimisation clear _code last.  Without a c2i adapter hook<T>() and verify_hooks() clear
\* it all the same and leave _from_compiled_entry; and what the JIT stores into a Method
\* while it is deoptimised is half undone.
NoHalfDeopt ==
    \A m \in Method \ torn :
        ~code[m] => fromI[m] = "i2i" /\ (m \in AdapterKnown => fromC[m] = "c2i")

\* What a true result of hook() promises: as long as the JIT has not compiled the method
\* again, nor stored into it while it was deoptimised, calls of it reach the detour
\* installed for it.
ClaimFires ==
    \A s \in claimed : Loaded(s) /\ ~code[table[s]] /\ table[s] \notin torn => Fires(s)

\* common_detour takes the first match and stop() erases the first match, so
\* the registry must not hold two entries for one Method*.
OneEntryPerMethod ==
    \A i, j \in DOMAIN hooked : hooked[i].method = hooked[j].method => i = j

\* Inhibitors belong to hooks: once stop() or shutdown_hooks() has removed the
\* hook of a method, the JIT may inline and compile the method again.
InhibitorsOwned ==
    \A m \in Method : dontInline[m] \/ noCompile[m] => InList(m)

\* hook_handle::stop() removes the hook it was made for, so that common_detour no longer
\* dispatches to it, and no other, also when a second hook shares the stub.
StopExactly ==
    [][\A h \in Handle : Stop(h) =>
          /\ \A i \in DOMAIN hooked' : hooked'[i].who # handles[h].who
          /\ \A i \in DOMAIN hooked : hooked[i].who # handles[h].who =>
                \E j \in DOMAIN hooked' : hooked'[j] = hooked[i]]_vars

\* Installing a hook, a pass of verify_hooks() and a bulk deoptimisation never
\* silence a hook that fires, at none of their stores.
OnlyRemovalSilences ==
    [][(\E d \in Caller : HookInstall(d)) \/ VerifyEntry
        \/ (\E m \in Method : DeoptimizeMethod(m)) \/ (\E o \in Deopter : DeoptStore(o))
       => \A s \in JavaMethod : Fires(s) => Fires(s)']_vars

\* A hooked method that the JIT compiled again, however often, and whose entry is not
\* marked is brought back to its detour by a later pass of verify_hooks(), which the watchdog
\* keeps running, unless the JIT stores into it while it is deoptimised.  A marked entry is
\* skipped for ever: the repair marks the entry, so a second drift is not repaired.
DriftRepaired ==
    \A s \in JavaMethod :
        (/\ s \in claimed /\ code[table[s]]
         /\ \E i \in DOMAIN hooked : hooked[i].method = table[s] /\ ~hooked[i].drift_logged)
        ~> (s \notin claimed \/ table[s] \in torn \/ Fires(s))

\* After its Method was freed by a redefinition, a hook that verify_hooks() has
\* not marked yet is moved to the Method its class has now, and fires if its stub
\* has a trampoline and the JIT does not store into that Method while it is deoptimised.
FreedReanchored ==
    \A s \in JavaMethod :
        (/\ s \in claimed /\ Loaded(s)
         /\ \E i \in DOMAIN hooked : /\ hooked[i].who = s /\ ~hooked[i].drift_logged
                                   /\ occupant[hooked[i].method] = NoJava)
        ~> (\/ s \notin claimed \/ ~Loaded(s) \/ StubOf[s] \notin patched
            \/ table[s] \in torn \/ Fires(s))
=============================================================================
