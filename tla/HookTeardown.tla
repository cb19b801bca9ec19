---------------------------- MODULE HookTeardown ----------------------------
(***************************************************************************)
(* The threads around the hook registry: client threads in hook<T>(),      *)
(* hook_handle::stop() and shutdown_hooks(), the auto-repair watchdog, and *)
(* Java threads in a trampoline and common_detour().  The registry itself  *)
(* is module HookRegistry; here it is the number of its entries.           *)
(*                                                                         *)
(* std::mutex is g_hooked_methods_mutex.  The condition variable only      *)
(* shortens the watchdog's wait, which ends by its timeout anyway, so a    *)
(* waiting watchdog may always go on.                                      *)
(*                                                                         *)
(* A registration of an event watch calls hook<T>() with a mutex of its own*)
(* held, which the end of shutdown_hooks() wants.  Module EventWatchers has*)
(* the watches; here the two watcher mutexes are one.                      *)
(***************************************************************************)
EXTENDS HookThreads, Integers, FiniteSets

CONSTANTS
    Watchdog,  \* identities of the watchdog threads ever running at once
    MaxCalls   \* bound: calls of hook<T>(), stop() and shutdown_hooks()

ASSUME TeardownAssumption ==
    /\ Closer \subseteq Client
    /\ NoThread \notin Client \cup Watchdog
    /\ Client \cap Watchdog = {}
    /\ MaxCalls \in Nat

VARIABLES
    requested,  \* g_shutdown_requested
    started,    \* g_started
    running,    \* g_watchdog_running
    owner,      \* who holds g_hooked_methods_mutex
    watcher,    \* who holds class_load_mutex or exception_mutex
    entries,    \* number of entries of g_hooked_methods
    patched,    \* the trampoline is in place
    pc,         \* where each client thread is
    dog,        \* where each watchdog thread is
    java,       \* where each Java thread is
    mishap,     \* what has gone wrong so far (history)
    calls       \* calls begun so far

flags == <<requested, started, running>>
vars == <<requested, started, running, owner, watcher, entries, patched, pc, dog, java, mishap, calls>>

\* wait_for_exit() returned while a watchdog had not yet set g_watchdog_running,
\* or gave up while one had; two threads were in shutdown_hooks() at once;
\* std::thread threw; a Java thread was past the flag check when a shutdown began.
Mishap == {"late", "timeout", "overlap", "nospawn", "inflight"}

\* Type invariant: a mutex is held by a thread inside its critical section.
TypeOK ==
    /\ requested \in BOOLEAN /\ started \in BOOLEAN /\ running \in BOOLEAN
    /\ owner \in Client \cup Watchdog \cup {NoThread}
    /\ watcher \in Client \cup {NoThread}
    /\ entries \in Nat
    /\ patched \in BOOLEAN
    /\ pc \in [Client -> {"idle", "watch", "install", "start", "unwatch",
                         "wait", "lock", "delete", "clear", "reset", "watchers"}]
    /\ dog \in [Watchdog -> {"none", "spawned", "wait", "verify", "pass"}]
    /\ java \in [Java -> {"out", "tramp", "iterate", "leave"}]
    /\ mishap \subseteq Mishap
    /\ calls \in 0..MaxCalls
    /\ \A c \in Client :
          /\ pc[c] \in {"install", "start", "delete", "clear", "reset", "watchers"} <=> owner = c
          /\ watcher = c => pc[c] \in {"watch", "install", "start", "unwatch"}
          /\ pc[c] \in {"watch", "unwatch"} => watcher = c
    /\ \A w \in Watchdog : dog[w] = "pass" <=> owner = w

Init ==
    /\ requested = FALSE /\ started = FALSE /\ running = FALSE
    /\ owner = NoThread
    /\ watcher = NoThread
    /\ entries = 0
    /\ patched = FALSE
    /\ pc = [c \in Client |-> "idle"]
    /\ dog = [w \in Watchdog |-> "none"]
    /\ java = [j \in Java |-> "out"]
    /\ mishap = {}
    /\ calls = 0

Goto(c, l) == pc' = [pc EXCEPT ![c] = l]
Begin(c) == pc[c] = "idle" /\ calls < MaxCalls /\ calls' = calls + 1
Alive(w) == dog[w] # "none"

\* The flag is up because of a call of shutdown_hooks().
Closing == \E c \in Client : pc[c] \in {"wait", "lock", "delete", "clear", "reset"}

-----------------------------------------------------------------------------
(* hook<T>() and hook_handle::stop().                                      *)

\* hook<T>() takes g_hooked_methods_mutex.
HookLock(c) ==
    /\ owner = NoThread /\ owner' = c
    /\ Goto(c, "install")
    /\ UNCHANGED <<flags, watcher, entries, patched, dog, java, mishap>>

HookBegin(c) == Begin(c) /\ HookLock(c)

\* on_class_loaded() and on_exception() lock their mutex and call hook<T>() inside.
WatchLock(c) ==
    /\ Begin(c)
    /\ watcher = NoThread /\ watcher' = c
    /\ Goto(c, "watch")
    /\ UNCHANGED <<flags, owner, entries, patched, dog, java, mishap>>

WatchHook(c) == pc[c] = "watch" /\ HookLock(c) /\ UNCHANGED calls

WatchUnlock(c) ==
    /\ pc[c] = "unwatch"
    /\ watcher' = NoThread
    /\ Goto(c, "idle")
    /\ UNCHANGED <<flags, owner, entries, patched, dog, java, mishap, calls>>

\* g_hooked_methods.push_back, then the trampoline.
HookInstall(c) ==
    /\ pc[c] = "install"
    /\ entries' = entries + 1
    /\ patched' = TRUE
    /\ Goto(c, "start")
    /\ UNCHANGED <<flags, owner, watcher, dog, java, mishap, calls>>

Spawn_Always(w) ==
    /\ dog[w] = "none" /\ dog' = [dog EXCEPT ![w] = "spawned"]
    /\ started' = TRUE

\* ensure_started() spawns a watchdog thread, which sets g_watchdog_running
\* itself when it gets to run.
Spawn(w) ==
    /\ ~started /\ ~requested
    /\ dog[w] = "none" /\ dog' = [dog EXCEPT ![w] = "spawned"]
    /\ started' = TRUE

\* ensure_started(): nothing if a watchdog was started, nothing but the latch if
\* a shutdown is under way, nothing if the thread cannot be created.  Then hook<T>() returns.
EnsureStarted(c) ==
    /\ pc[c] = "start"
    /\ \/ started /\ UNCHANGED <<started, dog, mishap>>
       \/ ~started /\ requested /\ started' = TRUE /\ UNCHANGED <<dog, mishap>>
       \/ (\E w \in Watchdog : Spawn(w)) /\ UNCHANGED mishap
       \/ ~started /\ ~requested /\ mishap' = mishap \cup {"nospawn"} /\ UNCHANGED <<started, dog>>
    /\ owner' = NoThread
    /\ Goto(c, IF watcher = c THEN "unwatch" ELSE "idle")
    /\ UNCHANGED <<requested, running, watcher, entries, patched, java, calls>>

\* hook_handle::stop(): lock, erase one entry, unlock.
Stop(c) ==
    /\ Begin(c)
    /\ owner = NoThread
    /\ entries > 0 /\ entries' = entries - 1
    /\ UNCHANGED <<flags, owner, watcher, patched, pc, dog, java, mishap>>

-----------------------------------------------------------------------------
(* shutdown_hooks().                                                       *)

\* The flag goes up before the mutex is taken, and the watchdog is notified.
ShutdownRequest(c) ==
    /\ Begin(c)
    /\ requested' = TRUE
    /\ mishap' = mishap \cup (IF Closing THEN {"overlap"} ELSE {})
                         \cup (IF \E j \in Java : java[j] = "iterate" THEN {"inflight"} ELSE {})
    /\ Goto(c, "wait")
    /\ UNCHANGED <<started, running, owner, watcher, entries, patched, dog, java>>

\* wait_for_exit(), which runs without the mutex, polls g_watchdog_running until
\* it is down or a bounded number of polls is used up.
WaitForExit(c) ==
    /\ pc[c] = "wait"
    /\ \/ ~running /\ mishap' =
             mishap \cup IF \E w \in Watchdog : dog[w] = "spawned" THEN {"late"} ELSE {}
       \/ running /\ mishap' = mishap \cup {"timeout"}
    /\ Goto(c, "lock")
    /\ UNCHANGED <<flags, owner, watcher, entries, patched, dog, java, calls>>

ShutdownLock(c) ==
    /\ pc[c] = "lock"
    /\ owner = NoThread /\ owner' = c
    /\ Goto(c, "delete")
    /\ UNCHANGED <<flags, watcher, entries, patched, dog, java, mishap, calls>>

\* Every midi2i_hook is deleted.
DeleteTrampolines(c) ==
    /\ pc[c] = "delete"
    /\ patched' = FALSE
    /\ Goto(c, "clear")
    /\ UNCHANGED <<flags, owner, watcher, entries, dog, java, mishap, calls>>

\* The inhibitors are cleared and both vectors emptied.
ClearEntries(c) ==
    /\ pc[c] = "clear"
    /\ entries' = 0
    /\ Goto(c, "reset")
    /\ UNCHANGED <<flags, owner, watcher, patched, dog, java, mishap, calls>>

ResetLatches_KeepStarted(c) ==
    /\ pc[c] = "reset"
    /\ requested' = FALSE
    /\ Goto(c, "watchers")
    /\ UNCHANGED <<started, running, owner, watcher, entries, patched, dog, java, mishap, calls>>

\* g_started and g_shutdown_requested are cleared.
ResetLatches(c) ==
    /\ pc[c] = "reset"
    /\ started' = FALSE
    /\ requested' = FALSE
    /\ Goto(c, "watchers")
    /\ UNCHANGED <<running, owner, watcher, entries, patched, dog, java, mishap, calls>>

\* reset_watcher_latches() takes the mutex of the watchers, and g_hooked_methods_mutex is
\* released after it.
ResetWatchers(c) ==
    /\ pc[c] = "watchers"
    /\ watcher = NoThread
    /\ owner' = NoThread
    /\ Goto(c, "idle")
    /\ UNCHANGED <<flags, watcher, entries, patched, dog, java, mishap, calls>>

-----------------------------------------------------------------------------
(* worker_loop().                                                          *)

WorkerBegin(w) ==
    /\ dog[w] = "spawned"
    /\ running' = TRUE
    /\ dog' = [dog EXCEPT ![w] = "wait"]
    /\ UNCHANGED <<requested, started, owner, watcher, entries, patched, pc, java, mishap, calls>>

\* The wait is over: the flag ends the thread, otherwise it runs verify_hooks().
WorkerWake(w) ==
    /\ dog[w] = "wait"
    /\ dog' = [dog EXCEPT ![w] = IF requested THEN "none" ELSE "verify"]
    /\ running' = (running /\ ~requested)
    /\ UNCHANGED <<requested, started, owner, watcher, entries, patched, pc, java, mishap, calls>>

VerifyLock(w) ==
    /\ dog[w] = "verify"
    /\ owner = NoThread /\ owner' = w
    /\ dog' = [dog EXCEPT ![w] = "pass"]
    /\ UNCHANGED <<flags, watcher, entries, patched, pc, java, mishap, calls>>

VerifyDone_KeepMutex(w) ==
    /\ dog[w] = "pass"
    /\ dog' = [dog EXCEPT ![w] = "wait"]
    /\ UNCHANGED <<flags, owner, watcher, entries, patched, pc, java, mishap, calls>>

VerifyDone(w) ==
    /\ dog[w] = "pass"
    /\ owner' = NoThread
    /\ dog' = [dog EXCEPT ![w] = "wait"]
    /\ UNCHANGED <<flags, watcher, entries, patched, pc, java, mishap, calls>>

-----------------------------------------------------------------------------
(* A Java thread that calls a hooked method.                               *)

JavaGoto(j, l) ==
    /\ java' = [java EXCEPT ![j] = l]
    /\ UNCHANGED <<flags, owner, watcher, entries, patched, pc, dog, mishap, calls>>

EnterTrampoline(j) == java[j] = "out" /\ patched /\ JavaGoto(j, "tramp")

CheckFlag_Ignored(j) == java[j] = "tramp" /\ JavaGoto(j, "iterate")

\* common_detour() returns at once when the flag is up, otherwise it goes
\* through g_hooked_methods without a lock.
CheckFlag(j) == java[j] = "tramp" /\ JavaGoto(j, IF requested THEN "leave" ELSE "iterate")

Dispatch(j) == java[j] = "iterate" /\ JavaGoto(j, "leave")

LeaveTrampoline(j) == java[j] = "leave" /\ JavaGoto(j, "out")

-----------------------------------------------------------------------------

Resume(c) ==
    \/ WatchHook(c) \/ HookInstall(c) \/ EnsureStarted(c) \/ WatchUnlock(c)
    \/ WaitForExit(c) \/ ShutdownLock(c) \/ DeleteTrampolines(c) \/ ClearEntries(c)
    \/ ResetLatches(c) \/ ResetWatchers(c)

Work(w) == WorkerBegin(w) \/ WorkerWake(w) \/ VerifyLock(w) \/ VerifyDone(w)

Next ==
    \/ \E c \in Client : HookBegin(c) \/ WatchLock(c) \/ Stop(c) \/ Resume(c)
    \/ \E c \in Closer : ShutdownRequest(c)
    \/ \E w \in Watchdog : Work(w)
    \/ \E j \in Java : EnterTrampoline(j) \/ CheckFlag(j) \/ Dispatch(j) \/ LeaveTrampoline(j)

Spec == Init /\ [][Next]_vars

(* A thread that is inside a call or inside the worker loop is scheduled   *)
(* again and again, and no mutex that others release is withheld from it   *)
(* for ever.                                                               *)
FairSpec == Spec /\ (\A c \in Client : SF_vars(Resume(c))) /\ (\A w \in Watchdog : SF_vars(Work(w)))

-----------------------------------------------------------------------------
(* Properties.                                                             *)

\* So far every shutdown was alone and saw the watchdog go.
Orderly == mishap \subseteq {"nospawn", "inflight"}

OneWatchdog == \A v, w \in Watchdog : Alive(v) /\ Alive(w) => v = w

\* hook<T>() and shutdown_hooks() hand the watchdog over: as long as shutdowns are
\* orderly there is at most one, however hook<T>() calls and shutdowns interleave, and
\* none from the deletion of the trampolines to the reset of the latches.
WatchdogHandover ==
    Orderly =>
        /\ OneWatchdog
        /\ (\E c \in Client : pc[c] \in {"delete", "clear", "reset"}) => \A w \in Watchdog : ~Alive(w)

\* g_shutdown_requested keeps Java threads off g_hooked_methods: as long as shutdowns are
\* orderly and none began while a thread was past the flag check, no thread iterates over
\* the vector while one of them is under way and clears it.
FlagKeepsOut ==
    Orderly /\ "inflight" \notin mishap /\ Closing => \A j \in Java : java[j] # "iterate"

\* shutdown_hooks() is reversible: with no shutdown under way, an installed hook
\* dispatches (the flag is down) and is kept in repair by a watchdog.
Reversible ==
    ~Closing /\ owner = NoThread /\ entries > 0 =>
        ~requested /\ ("nospawn" \in mishap \/ \E w \in Watchdog : Alive(w))

\* A registration that holds the mutex of the watchers and wants g_hooked_methods_mutex
\* meets shutdown_hooks(), which holds that one and wants the other.
Embraced == \E c, d \in Client : pc[c] = "watch" /\ pc[d] = "watchers"

\* shutdown_hooks() returns, whatever the watchdog, other shutdowns and installs were doing
\* when it was called, unless a call of it and the registration of a watch block each other
\* for ever.
ShutdownReturns ==
    \A c \in Closer : pc[c] = "wait" ~> pc[c] = "idle" \/ Embraced
=============================================================================
