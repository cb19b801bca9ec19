--------------------------- MODULE EventWatchers ---------------------------
(***************************************************************************)
(* on_class_loaded() and on_exception(): callback lists fed by a detour    *)
(* that the first registration installs with hook<T>() and that            *)
(* shutdown_hooks() removes.  The two are the same code over two sets of   *)
(* globals, here indexed by Kind.  Each kind has a mutex (class_load_mutex,*)
(* exception_mutex); the registry's g_hooked_methods_mutex is the third.   *)
(*                                                                         *)
(* hook<T>() is one step here (module HookRegistry has its detail) and     *)
(* needs g_hooked_methods_mutex; shutdown_hooks() holds that mutex until   *)
(* reset_watcher_latches() has gone through all kinds.                     *)
(***************************************************************************)
EXTENDS HookThreads, Integers, FiniteSets

CONSTANTS
    NKinds,       \* kinds of event, 1..NKinds in the order latches are reset
    Watch,        \* registrations
    KindOf,       \* the kind of each registration
    MaxShutdowns  \* bound: calls of shutdown_hooks()

Kind == 1..NKinds

ASSUME WatcherAssumption ==
    /\ Closer \subseteq Client
    /\ NKinds \in Nat \ {0}
    /\ KindOf \in [Watch -> Kind]
    /\ NoThread \notin Client
    /\ MaxShutdowns \in Nat

VARIABLES
    hooksMutex,  \* who holds g_hooked_methods_mutex
    lock,        \* who holds the mutex of each kind
    detour,      \* the entry of the kind's detour in g_hooked_methods
    latch,       \* class_load_hook_installed, exception_hook_installed
    callbacks,   \* class_load_callbacks, exception_callbacks
    watch,       \* the state of each watch_handle
    overtaken,   \* watches registered before the end of a shutdown (history)
    watchPc,     \* where each client thread is
    arg,         \* the watch a client registers; the kind a closer resets
    watchJava,   \* where each Java thread is, with its kind and its snapshot
    shutdowns    \* calls of shutdown_hooks() so far

watchVars == <<hooksMutex, lock, detour, latch, callbacks, watch, overtaken, watchPc, arg, watchJava, shutdowns>>

\* No entry; the entry that a failed hook<T>() left, without a trampoline; or an entry and a
\* trampoline.  That another hook patches the stub later is left out.
Detour == {"none", "leftover", "firing"}

Outside == [pc |-> "out", kind |-> 1, snapshot |-> {}]

\* Type invariant: a mutex of a kind is held only by the thread that installs
\* the detour of that kind, g_hooked_methods_mutex only by one that shuts down.
WatchTypeOK ==
    /\ hooksMutex \in Client \cup {NoThread}
    /\ lock \in [Kind -> Client \cup {NoThread}]
    /\ detour \in [Kind -> Detour]
    /\ latch \in [Kind -> BOOLEAN]
    /\ callbacks \in [Kind -> SUBSET Watch]
    /\ watch \in [Watch -> {"new", "pending", "running", "inert", "stopped"}]
    /\ overtaken \in SUBSET Watch
    /\ watchPc \in [Client -> {"idle", "hook", "unlock", "check", "reset"}]
    /\ arg \in [Client -> Watch \cup Kind]
    /\ watchJava \in [Java -> [pc : {"out", "lock", "call"}, kind : Kind, snapshot : SUBSET Watch]]
    /\ shutdowns \in 0..MaxShutdowns
    /\ \A c \in Client :
          /\ watchPc[c] \in {"hook", "unlock", "check"} => arg[c] \in Watch
          /\ watchPc[c] = "reset" => arg[c] \in Kind
          /\ hooksMutex = c <=> watchPc[c] = "reset"
          /\ \A k \in Kind : lock[k] = c <=> watchPc[c] \in {"hook", "unlock"} /\ KindOf[arg[c]] = k

WatchInit ==
    /\ hooksMutex = NoThread
    /\ lock = [k \in Kind |-> NoThread]
    /\ detour = [k \in Kind |-> "none"]
    /\ latch = [k \in Kind |-> FALSE]
    /\ callbacks = [k \in Kind |-> {}]
    /\ watch = [w \in Watch |-> "new"]
    /\ overtaken = {}
    /\ watchPc = [c \in Client |-> "idle"]
    /\ arg = [c \in Client |-> 1]
    /\ watchJava = [j \in Java |-> Outside]
    /\ shutdowns = 0

Moves(c, l) == watchPc' = [watchPc EXCEPT ![c] = l]

-----------------------------------------------------------------------------
(* on_class_loaded(), on_exception().                                      *)

\* Under the mutex of the kind the callback is pushed and the latch read.
Register(c, w) ==
    LET k == KindOf[w] IN
    /\ watchPc[c] = "idle"
    /\ watch[w] = "new"
    /\ lock[k] = NoThread /\ lock' = [lock EXCEPT ![k] = c]
    /\ callbacks' = [callbacks EXCEPT ![k] = @ \cup {w}]
    /\ watch' = [watch EXCEPT ![w] = "pending"]
    /\ arg' = [arg EXCEPT ![c] = w]
    /\ Moves(c, IF latch[k] THEN "unlock" ELSE "hook")
    /\ UNCHANGED <<hooksMutex, detour, latch, overtaken, watchJava, shutdowns>>

\* hook<T>() returns true: at once if the registry has an entry of the method, whatever state
\* it was left in, otherwise with the detour installed.
HookSucceeds(k) ==
    /\ detour' = [detour EXCEPT ![k] = IF @ = "none" THEN "firing" ELSE @]
    /\ latch' = [latch EXCEPT ![k] = TRUE]

\* hook<T>() returns false: before the entry was pushed, or after it, the stub not patched.
HookFails(k) ==
    /\ detour[k] = "none"
    /\ \E d \in {"none", "leftover"} : detour' = [detour EXCEPT ![k] = d]
    /\ UNCHANGED latch

HookDetour_FailKeepsLock(c) ==
    LET k == KindOf[arg[c]] IN
    /\ watchPc[c] = "hook"
    /\ hooksMutex = NoThread
    /\ \/ HookSucceeds(k) /\ Moves(c, "unlock")
       \/ HookFails(k) /\ Moves(c, "check")
    /\ UNCHANGED <<hooksMutex, lock, callbacks, watch, overtaken, arg, watchJava, shutdowns>>

\* hook<T>(), called with the mutex of the kind held.
HookDetour(c) ==
    /\ watchPc[c] = "hook"
    /\ hooksMutex = NoThread
    /\ HookSucceeds(KindOf[arg[c]]) \/ HookFails(KindOf[arg[c]])
    /\ Moves(c, "unlock")
    /\ UNCHANGED <<hooksMutex, lock, callbacks, watch, overtaken, arg, watchJava, shutdowns>>

Unlock(c) ==
    /\ watchPc[c] = "unlock"
    /\ lock' = [lock EXCEPT ![KindOf[arg[c]]] = NoThread]
    /\ Moves(c, "check")
    /\ UNCHANGED <<hooksMutex, detour, latch, callbacks, watch, overtaken, arg, watchJava, shutdowns>>

\* The second look at the latch: without a detour the callback is dropped and
\* the handle is inert.
CheckLatch(c) ==
    LET w == arg[c]
        k == KindOf[w] IN
    /\ watchPc[c] = "check"
    /\ lock[k] = NoThread
    /\ watch' = [watch EXCEPT ![w] = IF latch[k] THEN "running" ELSE "inert"]
    /\ callbacks' = IF latch[k] THEN callbacks ELSE [callbacks EXCEPT ![k] = @ \ {w}]
    /\ Moves(c, "idle")
    /\ UNCHANGED <<hooksMutex, lock, detour, latch, overtaken, arg, watchJava, shutdowns>>

StopWatch_KeepCallback(c, w) ==
    /\ watchPc[c] = "idle"
    /\ watch[w] = "running"
    /\ lock[KindOf[w]] = NoThread
    /\ watch' = [watch EXCEPT ![w] = "stopped"]
    /\ UNCHANGED <<hooksMutex, lock, detour, latch, callbacks, overtaken, watchPc, arg, watchJava, shutdowns>>

\* watch_handle::stop() with the on_stop of these watches.
StopWatch(c, w) ==
    LET k == KindOf[w] IN
    /\ watchPc[c] = "idle"
    /\ watch[w] = "running"
    /\ lock[k] = NoThread
    /\ watch' = [watch EXCEPT ![w] = "stopped"]
    /\ callbacks' = [callbacks EXCEPT ![k] = @ \ {w}]
    /\ UNCHANGED <<hooksMutex, lock, detour, latch, overtaken, watchPc, arg, watchJava, shutdowns>>

-----------------------------------------------------------------------------
(* shutdown_hooks().                                                       *)

Overtake == overtaken' = overtaken \cup {w \in Watch : watch[w] # "new"}

\* The registry is cleared under g_hooked_methods_mutex, which stays held.
ShutdownClear(c) ==
    /\ watchPc[c] = "idle"
    /\ shutdowns < MaxShutdowns /\ shutdowns' = shutdowns + 1
    /\ hooksMutex = NoThread /\ hooksMutex' = c
    /\ detour' = [k \in Kind |-> "none"]
    /\ Overtake
    /\ arg' = [arg EXCEPT ![c] = 1]
    /\ Moves(c, "reset")
    /\ UNCHANGED <<lock, latch, callbacks, watch, watchJava>>

ResetLatch_KeepLatch(c) ==
    LET k == arg[c] IN
    /\ watchPc[c] = "reset"
    /\ lock[k] = NoThread
    /\ callbacks' = [callbacks EXCEPT ![k] = {}]
    /\ Overtake
    /\ IF k = NKinds
       THEN Moves(c, "idle") /\ hooksMutex' = NoThread /\ UNCHANGED arg
       ELSE arg' = [arg EXCEPT ![c] = k + 1] /\ UNCHANGED <<watchPc, hooksMutex>>
    /\ UNCHANGED <<lock, detour, latch, watch, watchJava, shutdowns>>

\* reset_watcher_latches(), one kind per step.
ResetLatch(c) ==
    LET k == arg[c] IN
    /\ watchPc[c] = "reset"
    /\ lock[k] = NoThread
    /\ latch' = [latch EXCEPT ![k] = FALSE]
    /\ callbacks' = [callbacks EXCEPT ![k] = {}]
    /\ Overtake
    /\ IF k = NKinds
       THEN Moves(c, "idle") /\ hooksMutex' = NoThread /\ UNCHANGED arg
       ELSE arg' = [arg EXCEPT ![c] = k + 1] /\ UNCHANGED <<watchPc, hooksMutex>>
    /\ UNCHANGED <<lock, detour, watch, watchJava, shutdowns>>

-----------------------------------------------------------------------------
(* The detour, on the Java thread that defines a class or constructs a     *)
(* Throwable.                                                              *)

JavaStep(j) ==
    UNCHANGED <<hooksMutex, lock, detour, latch, callbacks, watch, overtaken, watchPc, arg, shutdowns>>

Event(j, k) ==
    /\ watchJava[j].pc = "out"
    /\ detour[k] = "firing"
    /\ watchJava' = [watchJava EXCEPT ![j] = [pc |-> "lock", kind |-> k, snapshot |-> {}]]
    /\ JavaStep(j)

\* The list is copied under the mutex and called without it.
Snapshot(j) ==
    /\ watchJava[j].pc = "lock"
    /\ lock[watchJava[j].kind] = NoThread
    /\ watchJava' = [watchJava EXCEPT ![j] = [@ EXCEPT !.pc = "call", !.snapshot = callbacks[watchJava[j].kind]]]
    /\ JavaStep(j)

Callback(j, w) ==
    /\ watchJava[j].pc = "call"
    /\ w \in watchJava[j].snapshot
    /\ watchJava' = [watchJava EXCEPT ![j].snapshot = @ \ {w}]
    /\ JavaStep(j)

DetourReturn(j) ==
    /\ watchJava[j].pc = "call"
    /\ watchJava[j].snapshot = {}
    /\ watchJava' = [watchJava EXCEPT ![j] = Outside]
    /\ JavaStep(j)

-----------------------------------------------------------------------------

ResumeCall(c) == HookDetour(c) \/ Unlock(c) \/ CheckLatch(c) \/ ResetLatch(c)
InDetour(j) == Snapshot(j) \/ (\E w \in Watch : Callback(j, w)) \/ DetourReturn(j)

WatchNext ==
    \/ \E c \in Client : ResumeCall(c) \/ \E w \in Watch : Register(c, w) \/ StopWatch(c, w)
    \/ \E c \in Closer : ShutdownClear(c)
    \/ \E j \in Java : InDetour(j) \/ \E k \in Kind : Event(j, k)

WatchSpec == WatchInit /\ [][WatchNext]_watchVars

(* Threads inside a call are scheduled and are not starved of a mutex that *)
(* is released again and again.                                            *)
FairWatchSpec == WatchSpec /\ (\A c \in Client : SF_watchVars(ResumeCall(c))) /\ (\A j \in Java : SF_watchVars(InDetour(j)))

-----------------------------------------------------------------------------
(* Properties.                                                             *)

Armed(w) == detour[KindOf[w]] = "firing" /\ w \in callbacks[KindOf[w]]

\* A watch that was registered after the last shutdown_hooks() and whose handle
\* reports running() fires, unless another shutdown is under way: its detour is
\* in place and its callback listed.  This fails once hook<T>() failed to patch the stub of
\* the detour: until the next shutdown the entry it left makes every later install return
\* true, and the watch runs and never fires.
RearmedFires ==
    hooksMutex = NoThread =>
        \A w \in Watch :
            watch[w] = "running" /\ w \notin overtaken /\ detour[KindOf[w]] # "leftover" => Armed(w)

\* The registry holds no callback of a watch that is stopped or inert, so that
\* no later event can reach it.
NoLeftovers ==
    \A w \in Watch : watch[w] \in {"stopped", "inert"} => w \notin callbacks[KindOf[w]]

\* A registration that holds the mutex of its kind and wants g_hooked_methods_mutex
\* meets shutdown_hooks(), which holds that one and wants the other.
Embrace ==
    \E c, d \in Client : watchPc[c] = "hook" /\ watchPc[d] = "reset" /\ arg[d] = KindOf[arg[c]]

\* Every call comes back, a registration with a handle and shutdown_hooks() through
\* reset_watcher_latches(): the two lock orders are the only way not to.
CallsReturn ==
    \A c \in Client : watchPc[c] # "idle" ~> watchPc[c] = "idle" \/ Embrace

\* A latch without its detour is reset: a later registration does not trust it.
LatchesReset ==
    \A k \in Kind : latch[k] /\ detour[k] = "none" ~> ~latch[k]
=============================================================================
