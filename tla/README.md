# A TLA+ verification of vmhook (EasyJNI)

`vmhook` is a header-only C++ library (`vmhook/ext/vmhook/vmhook.hpp`) that is
injected into a running HotSpot JVM. It hooks Java methods by patching the
interpreter's i2i stubs, reads and writes Java objects without JNI, looks
classes up, and reports class loads, exceptions and writes of static fields. It
lives beside threads it does not control: the JIT, the collector, class
unloading, Java threads in the middle of a call, other hookers of the same stub.
The modules here model the parts where that matters and say which promises of
the code's comments, tests and docs hold, and under which conditions.

All line numbers below are of `vmhook.hpp`.

## 1. Inventory

| Component | State | Operations | Talks to |
|---|---|---|---|
| Hook registry (6000–6070, 6511–6597, 7979–8945, 9001–9099) | `g_hooked_methods`, `g_hooked_i2i_entries`, the `Method` fields `_code`, `_i2i_entry`, `_from_interpreted_entry`, `_from_compiled_entry`, `_flags`, `_access_flags`; `hook_handle::method` | `hook`, `scoped_hook`, `hook_handle::stop`, `shutdown_hooks`, `verify_hooks`, `deoptimize_methods_if` | the JVM's methods; trampolines; the watchdog |
| Trampoline (4664–4751, 5339–5809, 8179–8227) | the bytes of a stub, the trampoline's code, `current_chain_resume` | `find_hook_location`, `midi2i_hook`'s constructor and destructor, `verify_and_repair`, `rewrite_chain_resume` | other copies of vmhook and foreign hookers, through the bytes only |
| Lifecycle (5965–6031, 8655–8881) | `g_shutdown_requested`, `g_started`, `g_watchdog_running`, `g_hooked_methods_mutex` | `ensure_started`, `worker_loop`, `wait_for_exit`, `shutdown_hooks`, `common_detour` | clients, the watchdog thread, Java threads |
| Event watchers (16439–16793) | per kind: mutex, install latch, callback list; `watch_handle` | `on_class_loaded`, `on_exception`, `stop`, `reset_watcher_latches`, the detour | the registry (`hook`, `shutdown_hooks`) |
| Field watches (16101–16423, 1047–1083) | `dr_slots`, `dr_armed_count`, `dr_veh_handle`, the debug registers of every thread | `watch_static_field`, `stop`, `dr_exception_handler` | Windows' exception dispatch, all threads |
| Class lookup (4017–4163, 6254–6390, 9534–9850, 10647–10807) | `klass_lookup_cache`, `host_classloader_klass`, per thread `current_java_thread`, `current_jni_env` and the context class loader | `find_class`, `override_class_lookup`, `evict_class_lookup`, `reanchor_classes_via_oop`, `ensure_current_java_thread` | the loader graph, JNI |
| Dispatch frame (4912–5330, 7417–7550, 7610–7955) | interpreter frame, `return_slot` | argument extraction, `set_arg`, `set`, `cancel`, stack traces | detours |
| Adapter detection (2499–2550, 6084–6249) | a cached offset | heuristic scan | the registry's deoptimisation |
| Threads and TLAB (3627–4290, 11188–11360) | thread state, TLAB top and end | attach, allocate objects and arrays | JNI, the collector |
| JNI references (9106–10450, 12591–13420) | local and global references | create, decode, delete | every JNI path |
| Calls (12394–13960) | `method_proxy` | overload choice, call stub, JNI fallback | threads, references |
| Fields (2585–3130, 10977–12290) | field cache | field stream parsing, get, set | compressed oops |
| Compressed oops (4288–4580) | base and shift | encode, decode | all readers of the heap |
| Collections, strings (14597–16085) | none | bounded walks over Java collections | fields |
| Enumeration (6445–7110) | none | `for_each_*`, method listings | loader graph, thread list |
| OS layer (434–1083), VM structure tables (1598–2130) | none | wrappers and look-ups | everything |
| Injector (`injector/src/main.cpp`), example client | none | process injection; demonstrations | — |

What is hard, and makes the properties:

* **addresses that go stale**: `Method*`, `Klass*`, field addresses and
  trampolines are remembered while the JVM, or another hooker, moves or frees
  what they point at;
* **lock-free readers**: `common_detour` iterates over a vector that others
  change, handlers and detours call copies of callbacks after unlocking;
* **two locks in two orders** between watchers and shutdown;
* **steps that fail half way**: an install that throws, a page that cannot be
  unprotected, a thread that cannot be reached;
* **repair that must not stop**: the watchdog and its debounce flag;
* **reversibility**: after `shutdown_hooks()` everything must be installable
  again;
* **memory shared without a lock**: allocation buffers of other threads, Java
  containers and proxies that several threads use while they change;
* **calls that nest**: a hook that calls into Java reaches further hooks, and
  thread state, references, exceptions and caches have to survive that;
* **layout arithmetic**: slots of long and double, widths of characters.

`PROJECT.json` lists the hazards one by one, at the line where each bites, with
the properties that would catch it.

## 2. Modules

Each component has a module with its state, one action per operation and its
properties; `MC<module>` instantiates it for TLC; `<module>Proofs` has the
theorems (`HookThreadsProofs` those of two components that threads enter,
`JavaHeapProofs` those of the two that read and write Java's data). The
operators named `<definition>_<change>` are variants of a definition with a
plausible bug. No run uses them; they show that each property can fail.

| Module | Models | Checked in | Proved in |
|---|---|---|---|
| `HookRegistry` | the registry against the JIT, redefinition and unloading | `MCHookRegistry` | `HookRegistryProofs` |
| `TrampolineChain` | one stub and all its hookers | `MCTrampolineChain` | `TrampolineChainProofs` |
| `HookThreads` | the threads that the next two are about | | |
| `HookTeardown` | clients, watchdogs and Java threads around the registry | `MCHookTeardown` | `HookThreadsProofs` |
| `EventWatchers` | class-load and exception watchers | `MCEventWatchers` | `HookThreadsProofs` |
| `FieldWatch` | hardware breakpoints on static fields | `MCFieldWatch` | `FieldWatchProofs` |
| `ClassLookup` | class cache, overrides, loaders, attachment | `MCClassLookup` | `ClassLookupProofs` |
| `JavaHeap` | allocation of objects, arrays and strings in TLABs | `MCJavaHeap` | `JavaHeapProofs` |
| `ObjectAllocator` | abstract: objects never overlap; implemented by `JavaHeap` | `MCJavaHeap` | `JavaHeapProofs` |
| `MethodCall` | `method_proxy`, `make_unique`, local references, thread state | `MCMethodCall` | `MethodCallProofs` |
| `CollectionWalk` | native walks over Java containers that change | `MCCollectionWalk` | `JavaHeapProofs` |
| `DispatchFrame` | arguments, results and stack traces in a detour | `MCDispatchFrame` | `DispatchFrameProofs` |

### HookRegistry

A `Method*` is an address; `table` says where a Java method is now, `occupant`
what a slot holds, so a redefined, freed and reused address is three different
situations. `hook<T>()` is a resolution (`HookResolve`, before the mutex) and
one action for each outcome of the part under the mutex: installed, already
there, class not linked, stub not patchable. `scoped_hook<T>()` resolves the
`Method*` a second time for its handle (`ScopedHookReturn`). `verify_hooks()` is
one action per entry, because the JVM keeps running during the pass; `vpos` is
the entry it is at and stands for the mutex. The check of the patch bytes that
`verify_hooks()` also does is `TrampolineChain!VerifyAndRepair`.

A deoptimisation is three stores, `_from_compiled_entry`,
`_from_interpreted_entry` and `_code`, and one action each: `deopt` has the
fields that are still to be stored, for the thread that holds the mutex
(`hook<T>()` and `verify_hooks()`, which store the entry points in opposite
orders) and for `deoptimize_methods_if()`, which takes no lock. Where no c2i
adapter is recovered (`AdapterKnown`) the first two leave `_from_compiled_entry`
out and go on, the last one leaves the method alone. `HookReturn` is the end of
`hook<T>()` after its last store. The JIT may store into the Method between any
two stores; `torn` is a history variable of the Methods where it did, in which
half of its stores are then undone.

Entry points are abstracted to what they lead to (`i2i`/`i2c`,
`c2i`/`nmethod`), identity strings to the Java method they were taken from.
`claimed` is a history variable: the methods a client has been told are hooked.

### TrampolineChain

The stub has `NSites` places that the pattern of `find_hook_location()` matches;
a place holds the original instruction or a JMP. `Walk` follows a call: through
the copied bytes (a copied relative JMP jumps wild), the detour, and the resume
JMP. Copies of vmhook share no lock, so finding the place, looking for a JMP and
writing the patch are three steps. What a foreign hooker does is not in the
repository; it is what `verify_and_repair()` is written to cope with: it
overwrites a site and resumes in the stub or at what it displaced.

`mishap` is a history variable. It records what has gone wrong so far, and every
property names the mishaps that break it; all others it survives:

| Mishap | What it is | Broken by it |
|---|---|---|
| `raced` | a hooker writes to a site that a copy of vmhook has chosen and not yet patched | all |
| `chained` | a foreign hooker resumes at the trampoline that it displaced: the repair closes a circle | `ReturnsToStub` |
| `left` | a foreign hooker goes away with its trampoline, which others may resume at | all but `StubRestored` |
| `rewrite` | `rewrite_chain_resume()` cannot unprotect the trampoline; the JMP is written all the same | `Coexist` |
| `repair` | `verify_and_repair()` cannot unprotect the stub | `Coexist`, `StompRepaired` |
| `destroy` | `~midi2i_hook()` cannot unprotect the stub: the JMP stays and the trampoline behind it is released | `ReturnsToStub`, `StubRestored` |

### HookTeardown

The registry is a counter; what matters is who is where. A watchdog thread that
the scheduler has not run yet, the bounded spin of `wait_for_exit()`, a
`std::thread` that throws and two shutdowns at a time all happen in the model;
`mishap` records `late`, `timeout`, `nospawn`, `overlap` and `inflight` (a
shutdown began while a Java thread was past the flag check). Shutdowns are
`Orderly` until one of them was late, timed out or overlapped another. The
condition variable only shortens a wait that ends by its timeout anyway.

A client may call `hook<T>()` through the registration of a watch, with the
mutex of the watchers held (`WatchLock`, `WatchHook`, `WatchUnlock`);
`shutdown_hooks()` ends with `reset_watcher_latches()`, which takes that mutex
while it holds `g_hooked_methods_mutex` (`ResetWatchers`). `Embraced` is the
state in which the two wait for each other; `ShutdownReturns` says that it is
the only way in which `shutdown_hooks()` does not come back.

### EventWatchers

The two watchers are the same code over two sets of globals, so they are one
component indexed by `Kind`; `reset_watcher_latches()` goes through the kinds in
order. Registration holds the mutex of its kind while it calls `hook<T>()`,
which needs `g_hooked_methods_mutex`; `shutdown_hooks()` holds that one while it
resets the kinds. The definitions that every module has are called `WatchInit`,
`WatchNext`, ... here, so that one module can extend this one and
`HookTeardown`. A `hook<T>()` that fails may have pushed its entry (`detour` is
`leftover`): until the next shutdown every retry finds it and returns true, the
latch is set, and the watch runs and never fires. That another hook patches the
same stub later, which would bring the leftover to life, is left out.
`overtaken` is a history variable: watches registered before the end of some
shutdown. `Embrace` is the state in which a registration and a shutdown each
hold the mutex that the other one needs.

### FieldWatch

`watch_static_field()` reads the address of the field first, without a lock
(`FindField`); arming and stopping hold `dr_mutex` throughout and are one action
each. The mirror may move between the two. Arming may throw, with the count
taken and no slot (`ArmThrows`) or, when there is no memory for the handle, with
the slot taken as well and nobody to give it back (a `lost` watch); and
`AddVectoredExceptionHandler` may refuse, which nobody looks at (`veh` is
`failed`). A write traps when a register of the writing thread holds the field's
address; the trap's context record is a copy of the registers, and is loaded
again when the handler returns. `owed` is a history variable: the watches that
must hear of the write. `Late` threads exist only after some watch was armed:
the README of the library says that they are not covered, and `reach` accounts
for that. `calm` is a history variable: so far every call found no thread in a
trap, reached all threads and concerned a field without another watch, every
watch was armed with a handler and at the address that its field still had, and
no field moved under its watch.

### ClassLookup

`find_class()` is a look into the cache, a walk of the loader graph, the JNI
fallback with its chain of loaders, the insertion, and the capture of the host's
loader. The walk may meet any loaded copy of the name first. A klass is an
address whose memory keeps its bytes after unloading until it is reused. Reading
the loader of a freed klass, or using the dead loader's oop, is undefined and
not modelled: `content` keeps its last value, and loaders in use as context or
anchor are not unloaded.

### JavaHeap and ObjectAllocator

`allocate_tlab()` is three steps, the read of `_top`, the read of `_end` and the
write of `_top`, on the buffer of the calling thread and then, in the order of
the two thread lists, on those of others. Java's `new` is the same three steps
on the thread's own buffer; refills and collections are the JVM's. A string is a
String object, then its array, then the link between them; what
`read_java_string()` makes of the lengths and the coder is `ReadJavaString`. A
Java thread in a detour holds collections up, an attached native thread does
not, nor does a Java thread that looks `char[]` up through JNI between a String
and its array (JDK 8, `AtLookup`).

`mishap` becomes `raced` when `_top` is written although it, or the buffer, has
changed since it was read, and `stopped` when a collection overtakes a thread in
an allocation. Both can happen in the code, and what follows is undefined:
nothing is claimed after one, and the run does not explore further (`CONSTRAINT
Defined`). `ObjectAllocator` says the same in one sentence, and
`ImplementsAllocator` maps the placed blocks to its objects.

### MethodCall

A thread has a stack of calls in progress; between two steps of a call, hooks in
the callee may begin others on the same thread, and other threads use the same
proxy. `call_jni()` is resolution (`CallJni`), class and method id
(`LookupClass`, `LookupNoClass`), `Dispatch`, the callee's end, `Check` and
`DescribeThrowable` for exceptions, and `Decode`. Local references are slots
that are used again; each belongs to a block that the JVM frees when the native
method around it returns. `stub` chooses `call()`'s other path at the beginning.
Descriptors are types, not strings; of the wrappers' class hierarchy there are
the class, its superclass and a class that is not registered.

### CollectionWalk

The walk reads one field or array element at a time. Between two reads Java code
does an operation of `java.util`: `add(E)` and `add(int, E)`, a removal, a
`put()`, a resize that empties the old table, a rotation. Where elements of an
`ArrayList` are shifted (`ArrayInsert`, `ArrayRemove`), the walk also reads
between any two stores of the operation: `ShiftOne` moves one element,
`ShiftEnd` stores the new one, or nulls the last place, and sets `size`.
`to_vector()` and `to_entries()` differ in what they copy out of a node and not
in how they go on, so they are one walk. The removal of a `TreeMap` key (which
copies entries between nodes) and the order of the single stores within the
other operations are not modelled.

`ever` is a history variable: the elements that were in the container when the
walk began and those added since, in the order in which they came. That order
matters to the proofs only. For a tree the order in `content` matters to nothing
either, so `MCView` has TLC tell neither apart. The definitions that every
module has are called `InitWalk`, `NextWalk`, ... here, so that one module can
extend this one and `JavaHeap`.

### DispatchFrame

One interpreted call: the interpreter lays out the locals, the detour is entered
with its typed arguments, calls what it likes (`get_arguments`, `set_arg`,
`set`, `cancel`, `caller`, `stack_trace`), returns (`LeaveDetour`) or throws
(`DetourThrows`), and the trampoline runs the body or returns the slot. A word
has a value and the bits above it: `set_arg()` copies `sizeof` its value into a
zeroed word (`Cell`), and the body reads as much of it as its parameter has
(`ReadAs`), so that a negative value of a narrower type arrives without its sign
(`narrow`, `Delivered`). A word and a long have 8 bits here, an int 3 and a byte
2; a short is like a byte, only wider. A value of another width than a two-slot
parameter is outside of the model. A reference is an address or, where the code
tests for it, a compressed one. Saved frame pointers above an interpreted frame
lead to the next frame; above a compiled one they lead anywhere. `SlotOf` says
how the interpreter numbers the locals, by counting the words before one;
`JavaSlotOffset` and the loops of `get_arguments()` and `stack_trace()` are
recursive functions, as the code accumulates them, and the proofs show that they
agree with it.

## 3. Runs

| Run | Question | Bounds | States |
|---|---|---|---|
| `HookRegistry_jit` | do claimed hooks fire, does `stop()` hit its own hook only, are inhibitors returned, is a drift repaired? | 2 methods on 1 stub, one without an adapter, 2 callers, 1 handle, 2 drifts | 1.14M |
| `HookRegistry_hostile` | does a hook follow its class when the `Method` is freed, does anything but a removal silence a hook, is a Method ever left half deoptimised? | 2 methods, 3 addresses, one without an adapter, 1 caller, 1 redefinition or unloading, unlinked classes, unpatchable stubs | 1.27M |
| `TrampolineChain_stub` | do all hookers of a stub fire, is a stomp repaired, is the stub restored? | 2 copies, 1 foreign hooker, 3 trampolines, 2 sites, 2 stomps, 1 kind of mishap | 70k |
| `HookTeardown_lifecycle` | one watchdog, none during a teardown, the flag keeps detours out, hooks work again after it, shutdown returns | 2 clients that both shut down, 2 watchdog identities, 1 Java thread, 4 calls, registrations among them | 129k |
| `EventWatchers_watchers` | do calls return, can watches be armed again after a shutdown, does a list keep a dead watch? | 3 watches of 2 kinds, 2 shutdowns | 159k |
| `FieldWatch_traps` | is every write reported to its watch only, does every trap find the handler, do slots and handler balance? | 3 watches on 2 fields, 2 slots, 2 late threads, 1 move | 6.1M |
| `ClassLookup_shared` | do overrides stick, is a reanchoring complete, does an attached thread see the host's classes? | 2 names, 3 klasses, 3 loaders, 2 threads, 1 unloading | 3.0M |
| `JavaHeap_tlabs` | do objects overlap, does a thread write into another's object, does a string read back? | 1 Java and 1 native thread, both lists, 3 requests, buffers of 5 words, heap of 11 | 383k |
| `MethodCall_calls` | are references, exceptions and thread states settled, does the right overload run, is its result decoded as its own? | 2 threads, 1 proxy, 5 methods of which 4 overloads in 2 classes, 2 calls in progress, 7 references | 1.5M |
| `CollectionWalk_relinked` | is anything lost, invented or repeated, does the walk end? | 6 layouts, 4 elements, tables of 2, guards of 3 and 2 nodes | 1.15M |
| `DispatchFrame_calls` | do arguments, results and traces arrive as asked? | 4 methods, 2 narrow and 2 wide numbers, one of each negative, 2 objects, 2 shifts, 4 frames, 2 calls of the detour | 1.25M |

Two slots instead of four, two sites, two names and three addresses are the
least numbers at which slots run out, a site is passed over, a list has a next
element and an address is reused. A buffer of 5 words holds one String with its
array and not two, so that threads borrow and fail; a heap of 11 words has two
buffers. Two calls in progress are a nested call, or two threads in one proxy.
Four elements fill a table, make it resize, and give a tree that can be rotated
on the path of the walk. The object addresses 4 and 9 lie on both sides of
`NarrowMax`. The bounds `MaxDrift`, `MaxRedefine`, `MaxStomp`, `MaxCalls`,
`MaxShutdowns`, `MaxMoves` and `MaxUnloads` cut off behaviours that would
otherwise repeat; each is large enough for the step to happen before, during and
after the operations it races with; two drifts are one that is repaired and one
that meets the marked entry. `MaxMishap` is 1: each kind of mishap happens at
any moment and as often as the steps allow, but two kinds do not meet (the
properties were also checked once with 2, which takes longer than a run should).
Deadlock checking is off where a bounded number of calls, watches or moves may
be used up.

`EventWatchers_lock_order` checks one promise that a comment makes and that the
code does not keep: `reset_watcher_latches()` "clears both watcher install
latches", but `on_class_loaded()` and `shutdown_hooks()` take the two mutexes in
opposite orders, each can wait for the other for ever, and the latches are never
reset.

### Known deviations

Other places where the code does not do what a comment, a doc or a test says.
Where the last column names a condition of a property or a configuration, TLC
gives the trace once it is changed as described.

| Lines | What happens | How to see it |
|---|---|---|
| 8500 | the second JIT drift of a method is never repaired, `drift_logged` stays set (8565: "we log once per drift event") | `HookRegistry_jit`: `DriftRepaired` without its condition on `drift_logged` fails |
| 8158 | a `hook()` that failed leaves its entry, and the retry returns true without a trampoline (7979: "false on failure") | `HookRegistry_hostile` with `MaxRedefine = 0` and `INVARIANT ClaimFires` |
| 8267 | `hook()` clears `_code` without a c2i adapter too and leaves `_from_compiled_entry` (the comment at 8246 says that it skips the deoptimisation) | `HookRegistry_hostile`: `NoHalfDeopt` without its condition on `AdapterKnown` fails |
| 8258 | the JIT stores between two stores of a deoptimisation: the hook does not fire although `_code` is null, and no pass of `verify_hooks()` sees it | `torn` in `ClaimFires` and `DriftRepaired` |
| 8880 | `shutdown_hooks()` may block for ever against a registration | `Embraced` in `ShutdownReturns` |
| 8702 | a watchdog that has not set its flag survives the shutdown and gets a sibling (8865: "guarantees the old watchdog is gone first") | `HookTeardown_lifecycle` with `INVARIANT OneWatchdog` |
| 6002 | the vector is cleared under an iterating `common_detour` (5968: "bails before iterating") | `FlagKeepsOut` without its condition on `inflight` |
| 7939 | `set_arg()` with a raw oop takes the slot after the argument's | mishap `pointer` of `DispatchFrame` |
| 5162 | `get_arguments()` without types starts at slot 0 for instance methods and takes `[[` for two parameters | the conditions of `ArgsDecoded` |
| 5291, 7479 | an object at a low address is taken for a compressed pointer | `Unambiguous` in `ArgsDecoded` |
| 5061 | an index of the locals of 0x1000 or more is not recovered, and the detour gets defaults | `LocalsFound` in `ArgsDecoded` |
| 7610 | `caller()` does not ask that the chain goes up, `stack_trace()` does (1290 says that they agree) | the last conjunct of `TraceSound` |
| 7832 | `set_arg()` accepts any index up to 0xFFFF, beyond the method's locals too | action `SetArgBeyond` |
| 7933 | `set_arg()` zero-extends a negative value of a type narrower than the parameter: `int8_t{-1}` arrives as 255 (`audit/findings/return_value_set_primitives.md:141`) | `Delivered` in `CallAnswered` |
| 5909, 6009, 6014 | a detour that cancels and then throws has cancelled, though the log says that the original body will run | action `DetourThrows` |
| 3824 | the comment calls a TLAB private and needs no lock; buffers of other threads are used as well | mishap `raced` of `JavaHeap` |
| 12661 | a proxy used for two overloads keeps the method id of the first | the condition of `RightMethod` |
| 12706 | a cached jclass is used after its block, or on another thread | the condition of `RefsOwned` |
| 16259 | `dr_arm_one()` does not look at what `AddVectoredExceptionHandler` answers: with a refused handler the first trap ends the process | `veh` in `calm` |
| 16379, 16408 | an exception while a watch is armed keeps the count, or the slot too | action `ArmThrows`, state `lost` |
| 15763 | `read_java_string()` answers nothing for an array of more than 4096 elements, 2048 wide characters (the comment at 15721 says it truncates) | `ReadLimit` in `StringsWhole` |

### The conditions of the properties

Where a property carries a condition, TLC found a behaviour without it. These
are consequences of the code as it is, several of them documented limits:

* `HookRegistry`: a handle keeps the address of a `Method` that a redefinition
  moved, so `stop()` may remove nothing, or a hook that took the address since
  (the exactness of `stop()` is checked without redefinitions); a class that is
  unloaded when the watchdog looks, and an entry that is already marked, are not
  re-hooked (the conditions of `DriftRepaired` and `FreedReanchored`); without a
  recoverable c2i adapter `_code` is cleared and `_from_compiled_entry` stays
  (`AdapterKnown` in `NoHalfDeopt`); of a Method into which the JIT stored
  during a deoptimisation (`torn`) nothing is said until the JIT compiles it
  again.
* `TrampolineChain`: nothing is claimed of the hook of a foreign hooker when a
  copy of vmhook leaves: the copy puts its saved bytes back whoever's JMP is at
  the site.
* `HookTeardown`: `push_back` and `erase` under an iterating `common_detour`
  race in the same way as `clear`, and a trampoline may be released under a
  thread that executes in it; `shutdown_hooks()` may not come back (`Embraced`).
* `EventWatchers`: a failed `hook<T>()` leaves an entry that later installs
  trust (`RearmedFires` excludes it).
* `EventWatchers`, `FieldWatch`: a copied callback may run after `stop()`; after
  a shutdown an old watch still says `running()`.
* `FieldWatch`: two watches on one field share a status word of which the
  handler serves the lowest bit; a slot that is reused, or a handler that is
  removed, between a trap and its dispatch; a watch armed while a thread is in a
  trap is lost on that thread; a mirror that moves leaves its registers behind,
  and one that moves before the arming has them set at an address where another
  field may be; a handler that was refused catches nothing.
* `ClassLookup`: two threads may get two copies of a class; a null override does
  not survive the next lookup; an unloaded klass that still shows its name is
  answered; an adopted `JavaThread` comes without a `JNIEnv`.
* `MethodCall`: an exception that was pending before a call is taken for one of
  its callee; the stub does not look for exceptions of the callee at all.
* `CollectionWalk`: an insertion in front of an element, a removal, the growth
  of a table or a rotation under the walk may hide elements that stay
  (`NothingLost` is about appends, and puts without resize or rotation); a
  rotation, or elements of an `ArrayList` that are shifted up or down, may make
  some come out twice.

### Fairness

* `HookRegistry`: strong fairness of the beginning of a verification pass: the
  watchdog wakes by timeout for as long as it lives, and gets a mutex that is
  released again and again. Weak fairness of the next step of whoever holds the
  mutex (`OwnerStep`): a pass, a deoptimisation and the end of `hook<T>()` do
  not wait.
* `TrampolineChain`: weak fairness of each copy's `verify_and_repair()`, for the
  same reason.
* `HookTeardown`, `EventWatchers`: strong fairness of a thread inside a call, of
  the worker loop and of a thread inside a detour. The operating system
  schedules these threads, and a mutex that is released again and again is
  eventually obtained. No fairness is assumed of new calls, events or the JVM.
* `CollectionWalk`: weak fairness of the walk, a loop without waiting.

## 4. Proofs

For every value of the constants that satisfies the module's assumption. No
proof uses the bounds.

* **HookRegistry** — `TypeCorrect`. `DeoptConsistent` (`NoHalfDeopt`), without
  further assumptions: whichever adapters are known, no store of a
  deoptimisation leaves a Method without `_code` behind an entry point that was
  to be redirected, except one into which the JIT stored in between (`torn`).
  `DeoptOrdered` makes it inductive: a deoptimisation under way has `_code`
  still to store, and what it has stored already is still so; two that run at
  the same time, with and without the mutex, help each other. `HooksFire`,
  `OneEntry` and `StopExact` hold without redefinitions and failing installs
  (TLC shows that both conditions are needed). They rest on `StableInv`: the
  method table is injective and agrees with the occupants; every entry, every
  call under way and every handle is anchored at the address its method has;
  `NoHalfDeopt` and `DeoptOrdered`; every claim and every call that is about to
  return has an entry; every entry has a trampoline. The anchoring of *calls* is
  what makes it inductive: `hook()` installs at an address it resolved earlier,
  and returns after a deoptimisation during which the JIT goes on.
  `InhibitorsReleased` adds the condition that only linked classes are hooked;
  beside `StableInv` its `InhibitorsOwned` is inductive as it stands.
  `RepairsKeepHooks` (`OnlyRemovalSilences`) needs none of these conditions: it
  is a property of single steps, and follows from `TypeOK` and from what a step
  can do to the list, the trampolines and the entry points.
* **TrampolineChain** — `TypeCorrect`, `CallsComeBack` (`ReturnsToStub`),
  `StubComesBack` (`StubRestored`), `OthersSurvive` (`DestroyKeepsOthers`) and
  `HooksCoexist` (`Coexist`), for any number of copies, sites and trampolines.
  Each action is first shown to be one write to one hook, one trampoline and one
  site (`Touch`), so that the invariant is proved about `Touch` and not about
  seven actions. `ChainInv` has a part that always holds (a trampoline in use is
  that of an installed hook) and two regimes; a third one has an invariant of
  its own. In the regime of `CallsComeBack`, only `rewrite` and `repair` have
  gone wrong: an unraced copy of vmhook finds its site unpatched (`Unraced`), a
  JMP leads to the trampoline of a hook on that site (`Patched`), two copies
  never share a site, and a copy resumes in the stub or at a foreign trampoline,
  which resumes in the stub (`Straight`). `Walk`'s recursive function is then
  the function that hops twice; that the two agree is an induction over the
  hops. In the regime of `StubComesBack` foreign hookers also chain and leave,
  and `Behind` says that what a foreign hooker puts back when it leaves is the
  JMP of a copy of vmhook that is still there. This needs the hypothesis that
  there is at most one foreign hooker: two of them that chain to each other and
  leave in the wrong order leave a JMP behind without any copy of vmhook taking
  part, which says nothing about this code. In the third regime, that of
  `OthersSurvive` and `HooksCoexist`, chains may be closed to a circle and
  removals fail, so that `Walk` has no bound. `LastInv` replaces the bound by a
  closed set: for every installed hook there is a set of trampolines that
  control does not leave once it has come to the hook's site, and which holds no
  other copy's trampoline (`Within`, `Enclosed`). What a write to that site or
  that trampoline changes is confined to the set, so every walk outside of it
  meets the same hooks as before (`StillFires`). `HooksCoexist` has the
  hypothesis of at most one foreign hooker: TLC shows that where one foreign
  hooker chained to another one's trampoline, a repair, which leaves the first
  one in the chain, can cut off the second.
* **HookTeardown** — `TypeCorrect`, which says that the mutex is held exactly
  inside the critical sections, and that of the watchers by registrations only.
  `WatchdogUnique` and `DispatchKeptOut`, without further assumptions: the
  condition `Orderly` is part of the properties. `DogInv` adds that the flag is
  up from the request to the reset, that a living watchdog is known to
  `g_watchdog_running` and `g_started`, and that none is left after the wait.
  `HooksComeBack` (`Reversible`) holds for shutdowns that are not orderly too.
  `RevInv` adds where the flag is down, that `g_started` stands for a watchdog,
  one that is being started or one that could not be, and that a shutdown which
  is about to reset has emptied the registry.
* **EventWatchers** — `WatchTypeCorrect`, `Rearmed`, `ListsClean`, without
  further assumptions. `WatchInv` adds that a latch is true only with an entry
  of its detour, a leftover one perhaps, unless a shutdown has still to reset
  that kind, that a shutdown resets kinds in order, and which callbacks are
  listed.
* **FieldWatch** — `TypeCorrect` and `Balanced` (slots and armed watches
  correspond, the count is a cardinality, so arming adds and stopping removes
  exactly one, also where an exception keeps the count); `NoStray`, `Reported`,
  `Handled` and `OwnField` from `calm => CalmInv`, which ties every register to
  its slot, every slot to the address that its field has, every thread in a trap
  to the watch it owes, and a slot in use to a registered handler.
* **ClassLookup** — `TypeCorrect` and `Sticks`, without further assumptions:
  with insert instead of assign, no interleaving of lookups, loads, unloads and
  reuse of addresses displaces an override. The strengthening is that a reanchor
  about to write holds a loaded klass of its name. `AttachedSeesHost`
  (`HostVisible`) rests on the host klass never being the boot loader's.
  `Reanchored` (`ReanchorComplete`) has the hypothesis that at most one client
  overrides the cache: two that reanchor to different loaders undo each other's
  work by design. `ListInv` says that the classes already done stay done while
  other threads look up, load and unload between two classes of the list.
* **JavaHeap** — `TypeCorrect`, `WritesOwnAlways`, `OwnBufferFirst` and
  `Refinement`: `JavaHeap` implements `ObjectAllocator`, for any threads, lists,
  sizes and requests. `HeapInv` is needed for all of them: the free parts of the
  buffers are disjoint from each other and from every object and lie below
  `eden`; what a thread is about to write fits what it read; and a thread that
  looks at another's buffer has found its own too full, which stays so because
  only `_top` grows until the owner refills, and the owner is in a call. A
  `Bump` without a mishap maps to `Allocate`, a first mishap to `Void`, a
  collection to `Collect`, everything else to a stutter. `StringsAlwaysWhole`
  (`StringsWhole`) uses `StringInv`: no two Strings share an array, and a call
  between the String and its array holds both, with the lengths its request
  gives them.
* **MethodCall** — `TypeCorrect`, `StateSettled` (`ThreadSettled`),
  `ReferencesOwned` (`RefsOwned`), `RightOverload` (`RightMethod`) and
  `RightResult` (`ResultRight`), without further assumptions, for any classes,
  overloads, threads and depth of nesting. There are three invariants, each
  about the whole stack of calls and not only about the innermost one.
  `SettledInv`: every call but the innermost waits in a hook, and the thread
  state follows from the innermost one. `OwnedInv`: the calls of a stack own
  disjoint sets of references; those of call *i* are in the block of the JNI
  calls below it, so that freeing a block frees references of no other call; a
  cached jclass is live unless it is another thread's or its block is gone.
  `CacheInv`: what a proxy remembers is about the overload that its uses select,
  and what a call copied from it is about the method that the call selected.
* **DispatchFrame** — `ArgumentsArrive` (`ArgsDecoded`), `AnsweredAsAsked`
  (`CallAnswered`) and `TracesSound` (`TraceSound`), for any signatures, values,
  heap shift, frames and gaps between them. `ArgsKept` says that each local
  holds the word of the argument that is wanted there, which needs that the
  slots of different arguments differ (a long or a double takes two);
  `AnswerKept` that cancel flag and return slot are what the detour asked for
  last. That a word reads back as the value that was put into it, or without its
  sign if its type was too narrow, is arithmetic on the widths (`PassedExact`,
  `CopiedExact`). From them `CallInv` and `DecodeInv` follow the call from its
  entry to its return. `TraceInv` says that what `stack_trace()` collected is
  the climb from the hooked frame, each step of which is a live frame above the
  one before, and that an interpreted caller within `MaxGap` is always found.
  The loops are recursive functions; that the recursion follows the code's loop
  step for step goes through the first index where the two could differ
  (`LoopRuns`, `ClimbRuns`).
* **CollectionWalk** — `WalkDeliversOnce` (`NoStrangers`) and `WalkLosesNothing`
  (`NothingLost`), for any elements, layouts, lengths of tables and bounds of
  the walks. `WalkInv` has a part for each layout. In an array nothing that was
  delivered is found behind the index, in the first array or in the second one,
  because appends, stores and whole removals only bring elements forward
  (`Later`); once elements were shifted only their membership is claimed. Chains
  have no bound, so their nodes are told apart by their place in `ever`, where
  an insertion puts a node between its neighbours: a link always leads to a
  later node (`Forward`), also one out of a node that was removed, and a walk
  that follows links meets nothing twice. In a hash map links stay moreover
  within a bucket of the first table (`Grouped`), also when the second table
  splits the bucket, and the walk does not come back to a bucket. In a tree each
  node has two ancestors that bound its keys (`lo` and `hi`, which the invariant
  says exist); the walk delivered what is smaller than its stack, in ascending
  order. `LossInv` adds, while elements are only appended or put: a walk of a
  list has copied the first elements of it and is below the size that it read
  (`Counted`); every element of a bucket is reached from its head, and from
  every older node of it (`Headed`, `Chained`), so what is not yet delivered is
  ahead of the node of the walk (`Visited`). For trees `WalkInv` says this
  already. A walk is cut short only by its guards, which `Uncut` excludes.

Where an argument needs an induction over numbers (the first match of a walk,
the hops of a call), it goes through the least element of a set of numbers,
which the library's `WFMin` gives.

Only model-checked: all liveness (`DriftRepaired`, `FreedReanchored`,
`StompRepaired`, `ShutdownReturns`, `CallsReturn`, `LatchesReset`, `WalkEnds`),
which needs reasoning about fairness. Every invariant of the runs is stated by a
theorem, some with hypotheses, which are named above.

## 5. Not modelled

* **Operating system layer, VM structure tables**: wrappers and reads without
  state of their own; their failures are actions or constants of the modules.
* **Adapter detection**: a heuristic over the bytes of the JVM's memory. Its
  outcome is the constant `AdapterKnown`.
* **Fields**: HotSpot's field streams are decoded once per class into a cache
  under one mutex. The decoder depends on data of the JVM that is not in the
  repository.
* **Enumeration**: read-only walks with bounds over lists that other modules
  use.
* **Global references** (`jni::global_ref`): one owner, one handle.
* **The call stub's arguments**: how `call()` lays two-slot parameters out for
  the stub, and its limit of eight (13270–13329).
* **`write_java_string()` and the bytes of strings**: lengths are modelled,
  contents are not.
* **Injector, example client, speed test, Java fixtures**: sequential drivers.

Further work: the composition of `HookTeardown` with the entries of
`HookRegistry`; the UNSIGNED5 decoder against a reference.
