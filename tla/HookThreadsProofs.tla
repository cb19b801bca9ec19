-------------------------- MODULE HookThreadsProofs --------------------------
(***************************************************************************)
(* Theorems about the threads around the hook registry, for any number of  *)
(* client and Java threads: first those of HookTeardown, for any number of *)
(* watchdog identities and calls, then those of EventWatchers, for any     *)
(* number of kinds of event and registrations.                             *)
(*                                                                         *)
(* The two share the threads of HookThreads; all other names differ.      *)
(***************************************************************************)
EXTENDS HookTeardown, EventWatchers, TLAPS

LEMMA InitTypeOK == Init => TypeOK
<1> SUFFICES ASSUME Init PROVE TypeOK
  OBVIOUS
<1>1. (\A t \in Client \cup Watchdog : owner # t) /\ \A c \in Client : watcher # c
  BY TeardownAssumption DEF Init
<1>2. calls \in 0..MaxCalls
  BY TeardownAssumption DEF Init
<1> QED BY <1>1, <1>2 DEF Init, TypeOK

LEMMA NextTypeOK == TypeOK /\ [Next]_vars => TypeOK'
<1> SUFFICES ASSUME TypeOK, [Next]_vars PROVE TypeOK'
  OBVIOUS
<1> USE TeardownAssumption
<1>1. ASSUME NEW c \in Client, HookBegin(c) \/ WatchHook(c) PROVE TypeOK'
  <2>1. CASE HookBegin(c)
    BY <2>1 DEF TypeOK, HookBegin, HookLock, Begin, Goto, flags
  <2>2. CASE WatchHook(c)
    BY <2>2 DEF TypeOK, WatchHook, HookLock, Goto, flags
  <2> QED BY <1>1, <2>1, <2>2
<1>15. ASSUME NEW c \in Client, WatchLock(c) PROVE TypeOK'
  BY <1>15 DEF TypeOK, WatchLock, Begin, Goto, flags
<1>16. ASSUME NEW c \in Client, WatchUnlock(c) PROVE TypeOK'
  BY <1>16 DEF TypeOK, WatchUnlock, Goto, flags
<1>2. ASSUME NEW c \in Client, HookInstall(c) PROVE TypeOK'
  BY <1>2 DEF TypeOK, HookInstall, Goto, flags
<1>3. ASSUME NEW c \in Client, EnsureStarted(c) PROVE TypeOK'
  <2>1. /\ pc[c] = "start" /\ owner' = NoThread
        /\ pc' = [pc EXCEPT ![c] = IF watcher = c THEN "unwatch" ELSE "idle"]
        /\ UNCHANGED <<requested, running, watcher, entries, patched, java, calls>>
    BY <1>3 DEF EnsureStarted, Goto
  <2>2. /\ owner = c
        /\ \A d \in Client : pc[d] \in {"install", "start", "delete", "clear", "reset", "watchers"} => d = c
        /\ \A w \in Watchdog : dog[w] # "pass"
    BY <2>1 DEF TypeOK
  <2>3. /\ started' \in BOOLEAN /\ mishap' \subseteq Mishap
        /\ dog' = dog \/ \E w \in Watchdog : dog' = [dog EXCEPT ![w] = "spawned"]
    BY <1>3 DEF EnsureStarted, Spawn, Mishap, TypeOK
  <2>4. /\ dog' \in [Watchdog -> {"none", "spawned", "wait", "verify", "pass"}]
        /\ \A w \in Watchdog : dog'[w] # "pass"
    BY <2>2, <2>3 DEF TypeOK
  <2>5. /\ pc' \in [Client -> {"idle", "watch", "install", "start", "unwatch",
                              "wait", "lock", "delete", "clear", "reset", "watchers"}]
        /\ \A d \in Client : pc'[d] \notin {"install", "start", "delete", "clear", "reset", "watchers"}
        /\ \A d \in Client : watcher = d => pc'[d] \in {"watch", "install", "start", "unwatch"}
        /\ \A d \in Client : pc'[d] \in {"watch", "unwatch"} => watcher = d
    BY <2>1, <2>2 DEF TypeOK
  <2>6. NoThread \notin Client \cup Watchdog
    OBVIOUS
  <2>7. /\ \A d \in Client : owner' # d
        /\ \A w \in Watchdog : owner' # w
    BY <2>1, <2>6
  <2>8. watcher' \in Client \cup {NoThread}
    BY <2>1 DEF TypeOK
  <2> QED BY <2>1, <2>3, <2>4, <2>5, <2>7, <2>8 DEF TypeOK
<1>4. ASSUME NEW c \in Client, Stop(c) PROVE TypeOK'
  BY <1>4 DEF TypeOK, Stop, Begin, flags
<1>5. ASSUME NEW c \in Client, ShutdownRequest(c) PROVE TypeOK'
  BY <1>5 DEF TypeOK, ShutdownRequest, Begin, Goto, Mishap
<1>6. ASSUME NEW c \in Client, WaitForExit(c) PROVE TypeOK'
  BY <1>6 DEF TypeOK, WaitForExit, Goto, flags, Mishap
<1>7. ASSUME NEW c \in Client, ShutdownLock(c) PROVE TypeOK'
  BY <1>7 DEF TypeOK, ShutdownLock, Goto, flags
<1>8. ASSUME NEW c \in Client, DeleteTrampolines(c) \/ ClearEntries(c) PROVE TypeOK'
  <2>1. CASE DeleteTrampolines(c)
    BY <2>1 DEF TypeOK, DeleteTrampolines, Goto, flags
  <2>2. CASE ClearEntries(c)
    BY <2>2 DEF TypeOK, ClearEntries, Goto, flags
  <2> QED BY <1>8, <2>1, <2>2
<1>9. ASSUME NEW c \in Client, ResetLatches(c) PROVE TypeOK'
  BY <1>9 DEF TypeOK, ResetLatches, Goto
<1>17. ASSUME NEW c \in Client, ResetWatchers(c) PROVE TypeOK'
  BY <1>17 DEF TypeOK, ResetWatchers, Goto, flags
<1>10. ASSUME NEW w \in Watchdog, WorkerBegin(w) \/ WorkerWake(w) PROVE TypeOK'
  <2>1. CASE WorkerBegin(w)
    BY <2>1 DEF TypeOK, WorkerBegin
  <2>2. CASE WorkerWake(w)
    BY <2>2 DEF TypeOK, WorkerWake
  <2> QED BY <1>10, <2>1, <2>2
<1>11. ASSUME NEW w \in Watchdog, VerifyLock(w) PROVE TypeOK'
  BY <1>11 DEF TypeOK, VerifyLock, flags
<1>12. ASSUME NEW w \in Watchdog, VerifyDone(w) PROVE TypeOK'
  BY <1>12 DEF TypeOK, VerifyDone, flags
<1>13. ASSUME NEW j \in Java, EnterTrampoline(j) \/ CheckFlag(j) \/ Dispatch(j) \/ LeaveTrampoline(j)
       PROVE  TypeOK'
  BY <1>13 DEF TypeOK, EnterTrampoline, CheckFlag, Dispatch, LeaveTrampoline, JavaGoto, flags
<1>14. CASE UNCHANGED vars
  BY <1>14 DEF TypeOK, vars
<1> QED BY <1>1, <1>2, <1>3, <1>4, <1>5, <1>6, <1>7, <1>8, <1>9, <1>10, <1>11, <1>12, <1>13, <1>14,
           <1>15, <1>16, <1>17
        DEF Next, Resume, Work

\* Type correctness, of which mutual exclusion is a part: the threads inside
\* hook<T>(), stop(), the locked part of shutdown_hooks() and verify_hooks() are
\* exactly the owner of g_hooked_methods_mutex, and a registration holds the mutex of the
\* watchers for as long as its hook<T>() takes.
THEOREM TypeCorrect == Spec => []TypeOK
BY InitTypeOK, NextTypeOK, PTL DEF Spec

-----------------------------------------------------------------------------
(* The watchdog.                                                           *)

InShutdown(c) == pc[c] \in {"wait", "lock", "delete", "clear", "reset"}

\* One thread shuts down at a time, and the flag is up while it does.
FlagUp ==
    /\ \A c \in Client : InShutdown(c) => requested
    /\ \A c, d \in Client : InShutdown(c) /\ InShutdown(d) => c = d

\* g_started tells of every watchdog there is, and g_watchdog_running of every
\* one that has got to run.
WatchdogKnown == \A w \in Watchdog : Alive(w) => started /\ (dog[w] = "spawned" \/ running)

\* Once wait_for_exit() has returned there is no watchdog.
GoneAfterWait ==
    \A c \in Client : pc[c] \in {"lock", "delete", "clear", "reset"} => \A w \in Watchdog : ~Alive(w)

DogInv == FlagUp /\ WatchdogKnown /\ GoneAfterWait /\ OneWatchdog

\* No Java thread that found the flag down is left once the flag is up.
JavaOut == "inflight" \notin mishap /\ Closing => \A j \in Java : java[j] # "iterate"

IInv == TypeOK /\ (Orderly => DogInv /\ JavaOut)

\* A mishap is never forgotten.
LEMMA MishapKept == [Next]_vars => mishap \subseteq mishap'
<1> SUFFICES ASSUME [Next]_vars PROVE mishap \subseteq mishap'
  OBVIOUS
<1>1. ASSUME NEW c \in Client, EnsureStarted(c) PROVE mishap \subseteq mishap'
  BY <1>1 DEF EnsureStarted
<1>2. ASSUME NEW c \in Client, WaitForExit(c) \/ ShutdownRequest(c) PROVE mishap \subseteq mishap'
  BY <1>2 DEF WaitForExit, ShutdownRequest
<1>3. CASE UNCHANGED mishap
  BY <1>3
<1>4. ASSUME NEW c \in Client,
             \/ HookBegin(c) \/ WatchLock(c) \/ WatchHook(c) \/ WatchUnlock(c) \/ HookInstall(c)
             \/ Stop(c) \/ ShutdownLock(c) \/ DeleteTrampolines(c) \/ ClearEntries(c)
             \/ ResetLatches(c) \/ ResetWatchers(c)
      PROVE  UNCHANGED mishap
  BY <1>4 DEF HookBegin, WatchLock, WatchHook, WatchUnlock, HookLock, HookInstall, Stop, ShutdownLock,
     DeleteTrampolines, ClearEntries, ResetLatches, ResetWatchers
<1>5. ASSUME NEW w \in Watchdog, Work(w) PROVE UNCHANGED mishap
  BY <1>5 DEF Work, WorkerBegin, WorkerWake, VerifyLock, VerifyDone
<1>6. ASSUME NEW j \in Java, EnterTrampoline(j) \/ CheckFlag(j) \/ Dispatch(j) \/ LeaveTrampoline(j)
      PROVE  UNCHANGED mishap
  BY <1>6 DEF EnterTrampoline, CheckFlag, Dispatch, LeaveTrampoline, JavaGoto
<1>7. CASE UNCHANGED vars
  BY <1>7 DEF vars
<1> QED BY <1>1, <1>2, <1>3, <1>4, <1>5, <1>6, <1>7, TeardownAssumption DEF Next, Resume

LEMMA NextDogInv ==
    ASSUME TypeOK, Orderly', DogInv, [Next]_vars
    PROVE  DogInv'
<1> USE TeardownAssumption
<1>1. ASSUME UNCHANGED <<requested, started, running, dog>>,
             \A c \in Client : pc'[c] \in {"idle", "watch", "install", "start", "unwatch", "watchers", pc[c]}
      PROVE  DogInv'
  BY <1>1 DEF DogInv, TypeOK, FlagUp, InShutdown, WatchdogKnown, GoneAfterWait, OneWatchdog, Alive
<1>2. ASSUME NEW c \in Client,
             \/ HookBegin(c) \/ WatchLock(c) \/ WatchHook(c) \/ WatchUnlock(c) \/ HookInstall(c)
             \/ Stop(c) \/ ResetWatchers(c)
      PROVE  DogInv'
  BY <1>1, <1>2 DEF TypeOK, HookBegin, WatchLock, WatchHook, WatchUnlock, HookLock, HookInstall, Stop,
     ResetWatchers, Goto, flags
<1>3. ASSUME NEW c \in Client, EnsureStarted(c)
      PROVE  DogInv'
  <2>1. \A d \in Client : pc'[d] \in {"idle", "unwatch", pc[d]} /\ requested' = requested /\ running' = running
    BY <1>3 DEF TypeOK, EnsureStarted, Goto
  <2>2. CASE UNCHANGED <<started, dog>>
    BY <1>1, <2>1, <2>2
  <2>3. CASE started' = TRUE /\ UNCHANGED dog
    BY <2>1, <2>3 DEF DogInv, FlagUp, InShutdown, WatchdogKnown, GoneAfterWait, OneWatchdog, Alive
  <2>4. ASSUME NEW w \in Watchdog, Spawn(w)
        PROVE  DogInv'
    <3>1. \A v \in Watchdog : ~Alive(v)
      BY <2>4 DEF DogInv, WatchdogKnown, Spawn
    <3>2. \A d \in Client : ~InShutdown(d)
      BY <2>4 DEF DogInv, FlagUp, Spawn
    <3>3. dog' = [dog EXCEPT ![w] = "spawned"] /\ started' = TRUE
      BY <2>4 DEF Spawn
    <3>4. FlagUp' /\ GoneAfterWait'
      BY <2>1, <3>2 DEF FlagUp, GoneAfterWait, InShutdown
    <3>5. WatchdogKnown' /\ OneWatchdog'
      BY <3>1, <3>3 DEF TypeOK, WatchdogKnown, OneWatchdog, Alive
    <3> QED BY <3>4, <3>5 DEF DogInv
  <2> QED BY <1>3, <2>2, <2>3, <2>4 DEF EnsureStarted
<1>4. ASSUME NEW c \in Client, ShutdownRequest(c)
      PROVE  DogInv'
  <2>1. \A d \in Client : ~InShutdown(d)
    BY <1>4 DEF ShutdownRequest, Orderly, Closing, InShutdown
  <2>2. requested' /\ pc' = [pc EXCEPT ![c] = "wait"] /\ UNCHANGED <<started, running, dog>>
    BY <1>4 DEF ShutdownRequest, Goto
  <2>3. \A d \in Client : InShutdown(d)' => d = c
    BY <2>1, <2>2 DEF TypeOK, InShutdown
  <2>4. FlagUp'
    BY <2>2, <2>3 DEF FlagUp
  <2>5. GoneAfterWait'
    BY <2>1, <2>2 DEF TypeOK, GoneAfterWait, InShutdown
  <2> QED BY <2>2, <2>4, <2>5 DEF DogInv, WatchdogKnown, OneWatchdog, Alive
<1>5. ASSUME NEW c \in Client, WaitForExit(c)
      PROVE  DogInv'
  <2>1. ~running /\ \A w \in Watchdog : dog[w] # "spawned"
    BY <1>5 DEF WaitForExit, Orderly
  <2>2. \A w \in Watchdog : ~Alive(w)
    BY <2>1 DEF DogInv, WatchdogKnown
  <2>3. pc[c] = "wait" /\ pc' = [pc EXCEPT ![c] = "lock"] /\ UNCHANGED <<requested, started, running, dog>>
    BY <1>5 DEF WaitForExit, Goto, flags
  <2> QED BY <2>2, <2>3 DEF DogInv, TypeOK, FlagUp, InShutdown, WatchdogKnown, GoneAfterWait,
                            OneWatchdog, Alive
<1>6. ASSUME NEW c \in Client, ShutdownLock(c) \/ DeleteTrampolines(c) \/ ClearEntries(c)
      PROVE  DogInv'
  <2>1. /\ UNCHANGED <<requested, started, running, dog>>
        /\ pc[c] \in {"lock", "delete", "clear"} /\ pc' = [pc EXCEPT ![c] = pc'[c]]
        /\ pc'[c] \in {"delete", "clear", "reset"}
    BY <1>6 DEF TypeOK, ShutdownLock, DeleteTrampolines, ClearEntries, Goto, flags
  <2> QED BY <2>1 DEF DogInv, TypeOK, FlagUp, InShutdown, WatchdogKnown, GoneAfterWait,
                      OneWatchdog, Alive
<1>7. ASSUME NEW c \in Client, ResetLatches(c)
      PROVE  DogInv'
  <2>1. \A w \in Watchdog : ~Alive(w)
    BY <1>7 DEF DogInv, GoneAfterWait, ResetLatches
  <2>2. \A d \in Client : InShutdown(d) => d = c
    BY <1>7 DEF DogInv, FlagUp, InShutdown, ResetLatches
  <2>3. \A d \in Client : ~InShutdown(d)'
    BY <1>7, <2>2 DEF TypeOK, InShutdown, ResetLatches, Goto
  <2>4. FlagUp' /\ GoneAfterWait'
    BY <2>3 DEF FlagUp, GoneAfterWait, InShutdown
  <2> QED BY <1>7, <2>1, <2>4 DEF DogInv, ResetLatches, WatchdogKnown, OneWatchdog, Alive
<1>8. ASSUME NEW w \in Watchdog, Work(w)
      PROVE  DogInv'
  <2>1. UNCHANGED <<pc, requested, started>> /\ dog' = [dog EXCEPT ![w] = dog'[w]] /\ Alive(w)
    BY <1>8 DEF TypeOK, Work, WorkerBegin, WorkerWake, VerifyLock, VerifyDone, Alive, flags
  <2>2. started /\ \A v \in Watchdog : Alive(v) => v = w
    BY <2>1 DEF DogInv, WatchdogKnown, OneWatchdog
  <2>3. dog'[w] # "none" => running'
    BY <1>8, <2>1 DEF DogInv, WatchdogKnown, TypeOK, Work, WorkerBegin, WorkerWake, VerifyLock,
                      VerifyDone, flags
  <2>4. \A v \in Watchdog : Alive(v)' => v = w
    BY <2>1, <2>2 DEF TypeOK, Alive
  <2> QED BY <2>1, <2>2, <2>3, <2>4 DEF DogInv, TypeOK, FlagUp, InShutdown, WatchdogKnown,
                                        GoneAfterWait, OneWatchdog, Alive
<1>9. ASSUME NEW j \in Java, EnterTrampoline(j) \/ CheckFlag(j) \/ Dispatch(j) \/ LeaveTrampoline(j)
      PROVE  DogInv'
  BY <1>1, <1>9 DEF EnterTrampoline, CheckFlag, Dispatch, LeaveTrampoline, JavaGoto, flags
<1>10. CASE UNCHANGED vars
  BY <1>1, <1>10 DEF vars
<1> QED BY <1>2, <1>3, <1>4, <1>5, <1>6, <1>7, <1>8, <1>9, <1>10 DEF Next, Resume

\* While the flag is up a thread leaves common_detour() at once.
LEMMA NextJavaOut ==
    ASSUME TypeOK, Orderly', DogInv, JavaOut, [Next]_vars
    PROVE  JavaOut'
<1> SUFFICES ASSUME "inflight" \notin mishap', Closing' PROVE \A j \in Java : java'[j] # "iterate"
  BY DEF JavaOut
<1> USE TeardownAssumption
<1>1. "inflight" \notin mishap
  BY MishapKept
<1>2. ASSUME UNCHANGED java, Closing PROVE \A j \in Java : java'[j] # "iterate"
  BY <1>1, <1>2 DEF JavaOut
<1>3. ASSUME NEW c \in Client,
             \/ HookBegin(c) \/ WatchLock(c) \/ WatchHook(c) \/ WatchUnlock(c) \/ HookInstall(c)
             \/ EnsureStarted(c) \/ Stop(c) \/ WaitForExit(c) \/ ShutdownLock(c)
             \/ DeleteTrampolines(c) \/ ClearEntries(c) \/ ResetLatches(c) \/ ResetWatchers(c)
      PROVE  UNCHANGED java /\ Closing
  <2>1. UNCHANGED java /\ \A d \in Client \ {c} : pc'[d] = pc[d]
    BY <1>3 DEF TypeOK, HookBegin, WatchLock, WatchHook, WatchUnlock, HookLock, HookInstall,
                EnsureStarted, Stop, WaitForExit, ShutdownLock, DeleteTrampolines, ClearEntries,
                ResetLatches, ResetWatchers, Goto
  <2>2. pc'[c] \in {"lock", "delete", "clear", "reset"} => pc[c] \in {"wait", "lock", "delete", "clear"}
    BY <1>3 DEF TypeOK, HookBegin, WatchLock, WatchHook, WatchUnlock, HookLock, HookInstall,
                EnsureStarted, Stop, WaitForExit, ShutdownLock, DeleteTrampolines, ClearEntries,
                ResetLatches, ResetWatchers, Goto, Begin
  <2>3. pc'[c] = "wait" => pc[c] = "wait"
    BY <1>3 DEF TypeOK, HookBegin, WatchLock, WatchHook, WatchUnlock, HookLock, HookInstall,
                EnsureStarted, Stop, WaitForExit, ShutdownLock, DeleteTrampolines, ClearEntries,
                ResetLatches, ResetWatchers, Goto, Begin
  <2> QED BY <2>1, <2>2, <2>3 DEF Closing
<1>4. ASSUME NEW c \in Client, ShutdownRequest(c) PROVE \A j \in Java : java'[j] # "iterate"
  BY <1>4 DEF ShutdownRequest
<1>5. ASSUME NEW w \in Watchdog, Work(w) PROVE UNCHANGED java /\ Closing
  BY <1>5 DEF Work, WorkerBegin, WorkerWake, VerifyLock, VerifyDone, Closing
<1>6. ASSUME NEW j \in Java, EnterTrampoline(j) \/ CheckFlag(j) \/ Dispatch(j) \/ LeaveTrampoline(j)
      PROVE  \A i \in Java : java'[i] # "iterate"
  <2>1. UNCHANGED pc
    BY <1>6 DEF EnterTrampoline, CheckFlag, Dispatch, LeaveTrampoline, JavaGoto
  <2>2. Closing
    BY <2>1 DEF Closing
  <2>3. requested /\ \A i \in Java : java[i] # "iterate"
    BY <1>1, <2>2 DEF DogInv, FlagUp, InShutdown, Closing, JavaOut
  <2> QED BY <1>6, <2>3 DEF TypeOK, EnterTrampoline, CheckFlag, Dispatch, LeaveTrampoline, JavaGoto
<1>7. CASE UNCHANGED vars
  BY <1>2, <1>7 DEF vars, Closing
<1> QED BY <1>2, <1>3, <1>4, <1>5, <1>6, <1>7 DEF Next, Resume

LEMMA Invariant == Spec => []IInv
<1>1. Init => IInv
  BY InitTypeOK DEF Init, IInv, DogInv, FlagUp, InShutdown, WatchdogKnown, GoneAfterWait, OneWatchdog,
                    Alive, JavaOut, Closing
<1>2. IInv /\ [Next]_vars => IInv'
  <2> SUFFICES ASSUME IInv, [Next]_vars PROVE IInv'
    OBVIOUS
  <2>1. Orderly' => Orderly
    BY MishapKept DEF Orderly
  <2> QED BY <2>1, NextTypeOK, NextDogInv, NextJavaOut DEF IInv
<1> QED BY <1>1, <1>2, PTL DEF Spec

\* There is never more than one watchdog thread, and none while the hooks are torn down,
\* as long as shutdowns do not overlap and see the watchdog go: hook<T>() spawns none
\* while one lives or the flag is up.
THEOREM WatchdogUnique == Spec => []WatchdogHandover
<1>1. IInv => WatchdogHandover
  BY DEF IInv, DogInv, GoneAfterWait, WatchdogHandover
<1> QED BY <1>1, Invariant, PTL

\* Under the same conditions, and if no Java thread was past the flag check when it began,
\* shutdown_hooks() clears a vector over which nobody iterates.
THEOREM DispatchKeptOut == Spec => []FlagKeepsOut
<1>1. IInv => FlagKeepsOut
  BY DEF IInv, JavaOut, FlagKeepsOut
<1> QED BY <1>1, Invariant, PTL

-----------------------------------------------------------------------------
(* Hooks after a shutdown.                                                 *)

Starting == \E c \in Client : pc[c] = "start"

\* The flag is up only while somebody shuts down; then nobody is left without a
\* watchdog whose hook was installed since the registry was last emptied, and it is empty
\* whenever the latches are about to be reset, so that no later hook inherits them.
FlagDown == requested => Closing
Watched == ~Closing /\ started => \E w \in Watchdog : Alive(w)
Latched == ~Closing /\ entries > 0 /\ ~Starting => started \/ "nospawn" \in mishap
Emptied == \A c \in Client : pc[c] = "reset" => entries = 0

RevInv == FlagDown /\ Watched /\ Latched /\ Emptied

\* Inside a shutdown a thread goes on to the next place or, from "reset", out of it.
LEMMA StillClosing ==
    ASSUME TypeOK, NEW c \in Client,
           WaitForExit(c) \/ ShutdownLock(c) \/ DeleteTrampolines(c) \/ ClearEntries(c)
    PROVE  /\ Closing /\ Closing' /\ UNCHANGED <<requested, started, dog>>
           /\ pc'[c] = "reset" => entries' = 0
           /\ \A d \in Client : d # c => pc'[d] = pc[d]
<1>1. UNCHANGED <<requested, started, dog>> /\ pc[c] \in {"wait", "lock", "delete", "clear"}
  BY DEF WaitForExit, ShutdownLock, DeleteTrampolines, ClearEntries, flags
<1>2. pc'[c] \in {"lock", "delete", "clear", "reset"} /\ \A d \in Client : d # c => pc'[d] = pc[d]
  BY DEF TypeOK, WaitForExit, ShutdownLock, DeleteTrampolines, ClearEntries, Goto
<1>3. pc'[c] = "reset" => entries' = 0
  BY DEF TypeOK, WaitForExit, ShutdownLock, DeleteTrampolines, ClearEntries, Goto
<1> QED BY <1>1, <1>2, <1>3 DEF Closing

LEMMA NextRevInv ==
    ASSUME TypeOK, RevInv, [Next]_vars
    PROVE  RevInv'
<1> USE TeardownAssumption DEF RevInv
<1>1. ASSUME UNCHANGED <<requested, started, entries, pc, dog>>, mishap \subseteq mishap'
      PROVE  RevInv'
  BY <1>1 DEF FlagDown, Watched, Latched, Emptied, Closing, Starting, Alive
<1>2. ASSUME NEW c \in Client, HookBegin(c) \/ WatchLock(c) \/ WatchHook(c) \/ WatchUnlock(c)
                               \/ ResetWatchers(c)
      PROVE  RevInv'
  <2>1. /\ pc[c] \in {"idle", "watch", "unwatch", "watchers"}
        /\ \E l \in {"idle", "watch", "install"} : pc' = [pc EXCEPT ![c] = l]
        /\ UNCHANGED <<requested, started, entries, dog, mishap>>
    BY <1>2 DEF HookBegin, WatchLock, WatchHook, WatchUnlock, ResetWatchers, HookLock, Begin, Goto, flags
  <2>2. (Closing' <=> Closing) /\ (Starting' <=> Starting)
    BY <2>1 DEF TypeOK, Closing, Starting
  <2>3. Emptied'
    BY <2>1 DEF TypeOK, Emptied
  <2> QED BY <2>1, <2>2, <2>3 DEF FlagDown, Watched, Latched, Alive
<1>3. ASSUME NEW c \in Client, HookInstall(c) PROVE RevInv'
  <2>1. pc[c] = "install" /\ pc' = [pc EXCEPT ![c] = "start"] /\ UNCHANGED <<requested, started, dog>>
    BY <1>3 DEF HookInstall, Goto, flags
  <2>2. (Closing' <=> Closing) /\ Starting'
    BY <2>1 DEF TypeOK, Closing, Starting
  <2>3. \A d \in Client : pc[d] # "reset" /\ pc'[d] # "reset"
    BY <2>1 DEF TypeOK
  <2> QED BY <2>1, <2>2, <2>3 DEF FlagDown, Watched, Latched, Emptied, Alive
<1>4. ASSUME NEW c \in Client, EnsureStarted(c) PROVE RevInv'
  <2>1. /\ pc[c] = "start" /\ UNCHANGED <<requested, entries>>
        /\ \E l \in {"idle", "unwatch"} : pc' = [pc EXCEPT ![c] = l]
    BY <1>4 DEF EnsureStarted, Goto
  <2>2. (Closing' <=> Closing)
    BY <2>1 DEF TypeOK, Closing
  <2>3. FlagDown' /\ Emptied'
    BY <2>1, <2>2 DEF TypeOK, FlagDown, Emptied
  <2>4. CASE started /\ UNCHANGED <<started, dog, mishap>>
    BY <2>2, <2>3, <2>4 DEF Watched, Latched, Alive
  <2>5. CASE ~started /\ requested /\ started' = TRUE /\ UNCHANGED <<dog, mishap>>
    BY <2>2, <2>3, <2>5 DEF FlagDown, Watched, Latched
  <2>6. ASSUME NEW w \in Watchdog, Spawn(w) PROVE RevInv'
    <3>1. started' = TRUE /\ Alive(w)'
      BY <2>6 DEF TypeOK, Spawn, Alive
    <3> QED BY <2>3, <3>1 DEF Watched, Latched
  <2>7. CASE ~started /\ mishap' = mishap \cup {"nospawn"} /\ UNCHANGED <<started, dog>>
    BY <2>2, <2>3, <2>7 DEF Watched, Latched
  <2> QED BY <1>4, <2>4, <2>5, <2>6, <2>7 DEF EnsureStarted
<1>5. ASSUME NEW c \in Client, Stop(c) PROVE RevInv'
  <2>1. /\ UNCHANGED <<requested, started, pc, dog, mishap>>
        /\ entries > 0 /\ owner = NoThread
    BY <1>5 DEF Stop, flags
  <2>2. Emptied'
    BY <2>1 DEF TypeOK, Emptied
  <2> QED BY <2>1, <2>2 DEF FlagDown, Watched, Latched, Closing, Starting, Alive
<1>6. ASSUME NEW c \in Client, ShutdownRequest(c) PROVE RevInv'
  <2>1. pc[c] = "idle" /\ pc' = [pc EXCEPT ![c] = "wait"] /\ UNCHANGED entries
    BY <1>6 DEF ShutdownRequest, Begin, Goto
  <2>2. Closing'
    BY <2>1 DEF TypeOK, Closing
  <2> QED BY <2>1, <2>2 DEF TypeOK, FlagDown, Watched, Latched, Emptied
<1>7. ASSUME NEW c \in Client,
             WaitForExit(c) \/ ShutdownLock(c) \/ DeleteTrampolines(c) \/ ClearEntries(c)
      PROVE  RevInv'
  <2>1. /\ pc'[c] = "reset" => entries' = 0
        /\ \A d \in Client : d # c => pc'[d] = pc[d]
    BY <1>7, StillClosing
  <2>2. entries' \in {0, entries}
    BY <1>7 DEF WaitForExit, ShutdownLock, DeleteTrampolines, ClearEntries
  <2>3. Emptied'
    BY <2>1, <2>2 DEF TypeOK, Emptied
  <2> QED BY <1>7, StillClosing, <2>3 DEF FlagDown, Watched, Latched
<1>8. ASSUME NEW c \in Client, ResetLatches(c) PROVE RevInv'
  <2>1. /\ pc[c] = "reset" /\ pc' = [pc EXCEPT ![c] = "watchers"] /\ UNCHANGED entries
        /\ ~requested' /\ ~started'
    BY <1>8 DEF ResetLatches, Goto
  <2>2. entries' = 0
    BY <2>1 DEF Emptied
  <2> QED BY <2>1, <2>2 DEF FlagDown, Watched, Latched, Emptied
<1>9. ASSUME NEW w \in Watchdog, Work(w) PROVE RevInv'
  <2>1. UNCHANGED <<requested, started, entries, pc, mishap>>
    BY <1>9 DEF Work, WorkerBegin, WorkerWake, VerifyLock, VerifyDone, flags
  <2>2. \A v \in Watchdog : Alive(v) /\ ~requested => Alive(v)'
    BY <1>9 DEF TypeOK, Work, WorkerBegin, WorkerWake, VerifyLock, VerifyDone, Alive
  <2>3. Closing' <=> Closing
    BY <2>1 DEF Closing
  <2>4. Watched'
    BY <2>1, <2>2, <2>3 DEF FlagDown, Watched
  <2> QED BY <2>1, <2>3, <2>4 DEF FlagDown, Latched, Emptied, Starting
<1>10. ASSUME NEW j \in Java, EnterTrampoline(j) \/ CheckFlag(j) \/ Dispatch(j) \/ LeaveTrampoline(j)
       PROVE  RevInv'
  BY <1>1, <1>10 DEF EnterTrampoline, CheckFlag, Dispatch, LeaveTrampoline, JavaGoto, flags
<1>11. CASE UNCHANGED vars
  BY <1>1, <1>11 DEF vars
<1> QED BY <1>2, <1>3, <1>4, <1>5, <1>6, <1>7, <1>8, <1>9, <1>10, <1>11 DEF Next, Resume

\* shutdown_hooks() can be undone: after any number of shutdowns, overlapping, late or
\* timed out, a hook that hook<T>() installed dispatches and has a watchdog, or the thread
\* for it could not be created.
THEOREM HooksComeBack == Spec => []Reversible
<1>1. Init => RevInv
  BY DEF Init, RevInv, FlagDown, Watched, Latched, Emptied
<1>2. RevInv /\ TypeOK => Reversible
  <2> SUFFICES ASSUME RevInv, TypeOK, ~Closing, owner = NoThread, entries > 0
               PROVE  ~requested /\ ("nospawn" \in mishap \/ \E w \in Watchdog : Alive(w))
    BY DEF Reversible
  <2>1. ~Starting
    BY TeardownAssumption DEF TypeOK, Starting
  <2> QED BY <2>1 DEF RevInv, FlagDown, Watched, Latched
<1> QED BY <1>1, <1>2, NextRevInv, TypeCorrect, PTL DEF Spec

-----------------------------------------------------------------------------
(* The event watchers.                                                     *)

LEMMA KindFacts ==
    1 \in Kind /\ NKinds \in Kind /\ \A k \in Kind : k # NKinds => k + 1 \in Kind
BY WatcherAssumption DEF Kind

LEMMA InitWatchTypeOK == WatchInit => WatchTypeOK
<1> SUFFICES ASSUME WatchInit PROVE WatchTypeOK
  OBVIOUS
<1>1. 1 \in Kind
  BY KindFacts
<1>2. watchJava \in [Java -> [pc : {"out", "lock", "call"}, kind : Kind, snapshot : SUBSET Watch]]
  BY <1>1 DEF WatchInit, Outside
<1>3. \A c \in Client : hooksMutex # c /\ \A k \in Kind : lock[k] # c
  BY WatcherAssumption DEF WatchInit
<1>4. shutdowns \in 0..MaxShutdowns
  BY WatcherAssumption DEF WatchInit
<1> QED BY <1>1, <1>2, <1>3, <1>4 DEF WatchInit, WatchTypeOK, Detour

LEMMA NextWatchTypeOK == WatchTypeOK /\ [WatchNext]_watchVars => WatchTypeOK'
<1> SUFFICES ASSUME WatchTypeOK, [WatchNext]_watchVars PROVE WatchTypeOK'
  OBVIOUS
<1> USE WatcherAssumption
<1>1. ASSUME NEW c \in Client, NEW w \in Watch, Register(c, w) PROVE WatchTypeOK'
  BY <1>1 DEF WatchTypeOK, Register, Moves
<1>2. ASSUME NEW c \in Client, HookDetour(c) PROVE WatchTypeOK'
  <2>1. detour' \in [Kind -> Detour] /\ latch' \in [Kind -> BOOLEAN]
    <3> DEFINE k == KindOf[arg[c]]
    <3>0. k \in Kind /\ detour \in [Kind -> Detour] /\ latch \in [Kind -> BOOLEAN]
      BY <1>2 DEF WatchTypeOK, HookDetour
    <3> HIDE DEF k
    <3>1. CASE HookSucceeds(k)
      BY <3>0, <3>1 DEF HookSucceeds, Detour
    <3>2. CASE HookFails(k)
      <4>1. PICK d \in {"none", "leftover"} : detour' = [detour EXCEPT ![k] = d]
        BY <3>2 DEF HookFails
      <4>2. detour' \in [Kind -> Detour]
        BY <3>0, <4>1 DEF Detour
      <4>3. UNCHANGED latch
        BY <3>2 DEF HookFails
      <4> QED BY <3>0, <4>2, <4>3
    <3>3. HookSucceeds(k) \/ HookFails(k)
      BY <1>2 DEF HookDetour, k
    <3> QED BY <3>1, <3>2, <3>3
  <2>2. watchPc[c] = "hook" /\ watchPc' = [watchPc EXCEPT ![c] = "unlock"]
    BY <1>2 DEF HookDetour, Moves
  <2>3. UNCHANGED <<hooksMutex, lock, callbacks, watch, overtaken, arg, watchJava, shutdowns>>
    BY <1>2 DEF HookDetour
  <2> QED BY <2>1, <2>2, <2>3 DEF WatchTypeOK
<1>3. ASSUME NEW c \in Client, Unlock(c) PROVE WatchTypeOK'
  BY <1>3 DEF WatchTypeOK, Unlock, Moves
<1>4. ASSUME NEW c \in Client, CheckLatch(c) PROVE WatchTypeOK'
  BY <1>4 DEF WatchTypeOK, CheckLatch, Moves
<1>5. ASSUME NEW c \in Client, NEW w \in Watch, StopWatch(c, w) PROVE WatchTypeOK'
  BY <1>5 DEF WatchTypeOK, StopWatch
<1>6. ASSUME NEW c \in Client, ShutdownClear(c) PROVE WatchTypeOK'
  BY <1>6, KindFacts DEF WatchTypeOK, ShutdownClear, Overtake, Moves, Detour
<1>7. ASSUME NEW c \in Client, ResetLatch(c) PROVE WatchTypeOK'
  <2>1. arg[c] \in Kind
    BY <1>7 DEF WatchTypeOK, ResetLatch
  <2>2. CASE arg[c] = NKinds
    BY <1>7, <2>1, <2>2 DEF WatchTypeOK, ResetLatch, Overtake, Moves
  <2>3. CASE arg[c] # NKinds
    <3>1. arg[c] + 1 \in Kind
      BY <2>1, <2>3, KindFacts
    <3> QED BY <1>7, <2>1, <2>3, <3>1 DEF WatchTypeOK, ResetLatch, Overtake, Moves
  <2> QED BY <2>2, <2>3
<1>8. ASSUME NEW j \in Java, NEW k \in Kind, Event(j, k) PROVE WatchTypeOK'
  BY <1>8 DEF WatchTypeOK, Event, JavaStep
<1>9. ASSUME NEW j \in Java, InDetour(j) PROVE WatchTypeOK'
  <2>1. watchJava' \in [Java -> [pc : {"out", "lock", "call"}, kind : Kind, snapshot : SUBSET Watch]]
    <3>1. CASE Snapshot(j)
      <4>1. watchJava[j] \in [pc : {"out", "lock", "call"}, kind : Kind, snapshot : SUBSET Watch]
        BY DEF WatchTypeOK
      <4>2. callbacks[watchJava[j].kind] \in SUBSET Watch
        BY <4>1 DEF WatchTypeOK
      <4>3. [watchJava[j] EXCEPT !.pc = "call", !.snapshot = callbacks[watchJava[j].kind]] \in
               [pc : {"out", "lock", "call"}, kind : Kind, snapshot : SUBSET Watch]
        BY <4>1, <4>2
      <4> QED BY <3>1, <4>3 DEF WatchTypeOK, Snapshot
    <3>2. ASSUME NEW w \in Watch, Callback(j, w) PROVE <2>1
      BY <3>2 DEF WatchTypeOK, Callback
    <3>3. CASE DetourReturn(j)
      BY <3>3, KindFacts DEF WatchTypeOK, DetourReturn, Outside
    <3> QED BY <1>9, <3>1, <3>2, <3>3 DEF InDetour
  <2>2. JavaStep(j)
    BY <1>9 DEF InDetour, Snapshot, Callback, DetourReturn
  <2> QED BY <2>1, <2>2 DEF WatchTypeOK, JavaStep
<1>10. CASE UNCHANGED watchVars
  BY <1>10 DEF WatchTypeOK, watchVars
<1> QED BY <1>1, <1>2, <1>3, <1>4, <1>5, <1>6, <1>7, <1>8, <1>9, <1>10 DEF WatchNext, ResumeCall

\* Type correctness, of which mutual exclusion is a part: the mutex of a kind is
\* held exactly by the thread that installs the detour of that kind, and
\* g_hooked_methods_mutex exactly by the thread that shuts down.
THEOREM WatchTypeCorrect == WatchSpec => []WatchTypeOK
BY InitWatchTypeOK, NextWatchTypeOK, PTL DEF WatchSpec

-----------------------------------------------------------------------------
(* Registrations and shutdowns.                                            *)

InRegister(c) == watchPc[c] \in {"hook", "unlock", "check"}

\* A registration under way has a watch of its own.
OwnWatch ==
    /\ \A c \in Client : InRegister(c) => watch[arg[c]] = "pending"
    /\ \A c, d \in Client : InRegister(c) /\ InRegister(d) /\ arg[c] = arg[d] => c = d

\* No detour is in place during a shutdown, and outside of one a latch has the entry of its
\* detour.
LatchHonest ==
    /\ hooksMutex # NoThread => \A k \in Kind : detour[k] = "none"
    /\ hooksMutex = NoThread => \A k \in Kind : latch[k] => detour[k] # "none"

\* The reset goes through the kinds in order; what it is past is reset.
ResetOrder ==
    \A c \in Client, k \in Kind : watchPc[c] = "reset" /\ k < arg[c] => ~latch[k]

\* A watch that no shutdown overtook is listed, and latched once it runs.
Listed ==
    \A w \in Watch : w \notin overtaken =>
        /\ watch[w] \in {"pending", "running"} => w \in callbacks[KindOf[w]]
        /\ watch[w] = "running" => latch[KindOf[w]]

\* Only watches that are pending or running are listed.
OnlyLive ==
    \A k \in Kind : \A w \in callbacks[k] : KindOf[w] = k /\ watch[w] \in {"pending", "running"}

WatchInv == WatchTypeOK /\ OwnWatch /\ LatchHonest /\ ResetOrder /\ Listed /\ OnlyLive

LEMMA InitWatchInv == WatchInit => WatchInv
BY InitWatchTypeOK DEF WatchInit, WatchInv, OwnWatch, InRegister, LatchHonest, ResetOrder, Listed, OnlyLive

LEMMA NextWatchInv == WatchInv /\ [WatchNext]_watchVars => WatchInv'
<1> SUFFICES ASSUME WatchInv, [WatchNext]_watchVars PROVE WatchInv'
  OBVIOUS
<1> USE WatcherAssumption
<1>0. WatchTypeOK /\ WatchTypeOK'
  BY NextWatchTypeOK DEF WatchInv
<1>1. ASSUME NEW c \in Client, NEW w \in Watch, Register(c, w) PROVE WatchInv'
  <2>1. OwnWatch'
    BY <1>0, <1>1 DEF WatchInv, WatchTypeOK, OwnWatch, InRegister, Register, Moves
  <2>2. LatchHonest' /\ ResetOrder'
    BY <1>0, <1>1 DEF WatchInv, WatchTypeOK, LatchHonest, ResetOrder, Register, Moves
  <2>3. Listed' /\ OnlyLive'
    BY <1>0, <1>1 DEF WatchInv, WatchTypeOK, Listed, OnlyLive, Register
  <2> QED BY <1>0, <2>1, <2>2, <2>3 DEF WatchInv
<1>2. ASSUME NEW c \in Client, HookDetour(c) PROVE WatchInv'
  <2>1. hooksMutex = NoThread /\ \A d \in Client : watchPc[d] # "reset"
    BY <1>0, <1>2 DEF WatchTypeOK, HookDetour
  <2>2. OwnWatch'
    BY <1>0, <1>2 DEF WatchInv, WatchTypeOK, OwnWatch, InRegister, HookDetour, Moves
  <2>3. LatchHonest' /\ ResetOrder'
    BY <1>0, <1>2, <2>1 DEF WatchInv, WatchTypeOK, LatchHonest, ResetOrder, HookDetour, HookSucceeds, HookFails, Moves
  <2>4. Listed' /\ OnlyLive'
    BY <1>0, <1>2 DEF WatchInv, WatchTypeOK, Listed, OnlyLive, HookDetour, HookSucceeds, HookFails
  <2> QED BY <1>0, <2>2, <2>3, <2>4 DEF WatchInv
<1>3. ASSUME NEW c \in Client, Unlock(c) PROVE WatchInv'
  BY <1>0, <1>3 DEF WatchInv, WatchTypeOK, OwnWatch, InRegister, LatchHonest, ResetOrder, Listed, OnlyLive, Unlock, Moves
<1>4. ASSUME NEW c \in Client, CheckLatch(c) PROVE WatchInv'
  <2>1. OwnWatch'
    BY <1>0, <1>4 DEF WatchInv, WatchTypeOK, OwnWatch, InRegister, CheckLatch, Moves
  <2>2. LatchHonest' /\ ResetOrder'
    BY <1>0, <1>4 DEF WatchInv, WatchTypeOK, LatchHonest, ResetOrder, CheckLatch, Moves
  <2>3. Listed' /\ OnlyLive'
    BY <1>0, <1>4 DEF WatchInv, WatchTypeOK, OwnWatch, InRegister, Listed, OnlyLive, CheckLatch
  <2> QED BY <1>0, <2>1, <2>2, <2>3 DEF WatchInv
<1>5. ASSUME NEW c \in Client, NEW w \in Watch, StopWatch(c, w) PROVE WatchInv'
  <2>1. OwnWatch' /\ LatchHonest' /\ ResetOrder'
    BY <1>0, <1>5 DEF WatchInv, WatchTypeOK, OwnWatch, InRegister, LatchHonest, ResetOrder, StopWatch
  <2>2. Listed' /\ OnlyLive'
    BY <1>0, <1>5 DEF WatchInv, WatchTypeOK, Listed, OnlyLive, StopWatch
  <2> QED BY <1>0, <2>1, <2>2 DEF WatchInv
<1>6. ASSUME NEW c \in Client, ShutdownClear(c) PROVE WatchInv'
  <2>1. OwnWatch' /\ LatchHonest'
    BY <1>0, <1>6 DEF WatchInv, WatchTypeOK, OwnWatch, InRegister, LatchHonest, ShutdownClear, Moves
  <2>2. ResetOrder'
    BY <1>0, <1>6 DEF WatchInv, WatchTypeOK, ResetOrder, ShutdownClear, Moves, Kind
  <2>3. Listed' /\ OnlyLive'
    BY <1>0, <1>6 DEF WatchInv, WatchTypeOK, Listed, OnlyLive, ShutdownClear, Overtake
  <2> QED BY <1>0, <2>1, <2>2, <2>3 DEF WatchInv
<1>7. ASSUME NEW c \in Client, ResetLatch(c) PROVE WatchInv'
  <2>1. /\ arg[c] \in Kind /\ watchPc[c] = "reset" /\ hooksMutex = c
        /\ \A d \in Client : watchPc[d] = "reset" => d = c
        /\ latch' = [latch EXCEPT ![arg[c]] = FALSE] /\ detour' = detour /\ watch' = watch
    BY <1>0, <1>7 DEF WatchTypeOK, ResetLatch
  <2>2. OwnWatch'
    BY <1>0, <1>7 DEF WatchInv, WatchTypeOK, OwnWatch, InRegister, ResetLatch, Moves
  <2>3. Listed' /\ OnlyLive'
    BY <1>0, <1>7, <2>1 DEF WatchInv, WatchTypeOK, Listed, OnlyLive, ResetLatch, Overtake
  <2>4. CASE arg[c] = NKinds
    <3>1. \A k \in Kind : ~latch'[k]
      <4>1. \A k \in Kind : k < arg[c] \/ k = arg[c]
        BY <2>1, <2>4 DEF Kind
      <4> QED BY <1>0, <2>1, <4>1 DEF WatchInv, WatchTypeOK, ResetOrder
    <3>2. hooksMutex' = NoThread
      BY <1>7, <2>4 DEF ResetLatch
    <3> QED BY <1>0, <2>2, <2>3, <3>1, <3>2 DEF WatchInv, LatchHonest, ResetOrder
  <2>5. CASE arg[c] # NKinds
    <3>1. hooksMutex' = hooksMutex /\ watchPc' = watchPc /\ arg' = [arg EXCEPT ![c] = arg[c] + 1]
      BY <1>7, <2>5 DEF ResetLatch
    <3>2. LatchHonest'
      BY <2>1, <3>1 DEF WatchInv, LatchHonest
    <3>3. \A k \in Kind : k < arg[c] + 1 => k < arg[c] \/ k = arg[c]
      BY <2>1 DEF Kind
    <3>4. ResetOrder'
      BY <1>0, <2>1, <3>1, <3>3 DEF WatchInv, WatchTypeOK, ResetOrder
    <3> QED BY <1>0, <2>2, <2>3, <3>2, <3>4 DEF WatchInv
  <2> QED BY <2>4, <2>5
<1>8. ASSUME NEW j \in Java, InDetour(j) \/ \E k \in Kind : Event(j, k) PROVE WatchInv'
  <2>1. JavaStep(j)
    BY <1>8 DEF InDetour, Snapshot, Callback, DetourReturn, Event
  <2> QED BY <1>0, <2>1 DEF WatchInv, OwnWatch, InRegister, LatchHonest, ResetOrder, Listed, OnlyLive, JavaStep
<1>9. CASE UNCHANGED watchVars
  BY <1>0, <1>9 DEF WatchInv, OwnWatch, InRegister, LatchHonest, ResetOrder, Listed, OnlyLive, watchVars
<1> QED BY <1>1, <1>2, <1>3, <1>4, <1>5, <1>6, <1>7, <1>8, <1>9 DEF WatchNext, ResumeCall

LEMMA WatchInvariant == WatchSpec => []WatchInv
BY InitWatchInv, NextWatchInv, PTL DEF WatchSpec

\* Watches can be registered again after shutdown_hooks(), from any thread and in
\* any interleaving with other registrations: one that reports running() fires, unless a
\* failed hook<T>() left the entry of its detour behind since that shutdown.
THEOREM Rearmed == WatchSpec => []RearmedFires
<1>1. WatchInv => RearmedFires
  BY WatcherAssumption DEF WatchInv, WatchTypeOK, LatchHonest, Listed, RearmedFires, Armed, Detour
<1> QED BY <1>1, WatchInvariant, PTL

\* No callback list ever holds a watch that was stopped or never armed.
THEOREM ListsClean == WatchSpec => []NoLeftovers
<1>1. WatchInv => NoLeftovers
  BY WatcherAssumption DEF WatchInv, WatchTypeOK, OnlyLive, NoLeftovers
<1> QED BY <1>1, WatchInvariant, PTL
=============================================================================
