---------------------------- MODULE ClassLookup ----------------------------
(***************************************************************************)
(* find_class() and its cache, the overrides of the cache, the host class  *)
(* loader that attached threads inherit, and the attachment of a thread to *)
(* the JVM as far as these depend on it.                                   *)
(*                                                                         *)
(* find_class() holds klass_lookup_cache_mutex for the look into the cache *)
(* and again for the insertion; the walk of the ClassLoaderDataGraph and   *)
(* the JNI calls in between are steps of their own.  The JVM (external)    *)
(* loads classes, several of one name in different loaders, and unloads    *)
(* loaders nobody uses; a klass is an address that is used again.          *)
(***************************************************************************)
EXTENDS Integers, FiniteSets

CONSTANTS
    NNames,      \* class names, 1..NNames in the order of a reanchor list
    Klass,       \* addresses of klasses
    Loader,      \* class loaders
    Boot,        \* the bootstrap loader, for which the loader oop is null
    System,      \* the system loader, context loader of a thread that was attached
    Launch,      \* the loader in net.minecraft.launchwrapper.Launch, or System
    Defines,     \* the names each loader can load
    Initial,     \* the (name, loader) pairs loaded at the start, with their klass
    Client,      \* threads that use the library
    JavaThread,  \* those of them that the JVM created
    Overrider,   \* those of them that override, evict and reanchor
    NoKlass,     \* null
    Absent,      \* no entry in the cache
    MaxUnloads   \* bound: loaders unloaded

Name == 1..NNames

ASSUME LookupAssumption ==
    /\ NNames \in Nat \ {0}
    /\ Boot \in Loader /\ System \in Loader /\ Launch \in Loader /\ System # Boot
    /\ Defines \in [Loader -> SUBSET Name]
    /\ Initial \in SUBSET [klass : Klass, name : Name, loader : Loader]
    /\ \A p, q \in Initial : p.klass = q.klass => p = q
    /\ JavaThread \subseteq Client /\ Overrider \subseteq Client
    /\ NoKlass \notin Klass /\ Absent \notin Klass /\ Absent # NoKlass
    /\ MaxUnloads \in Nat

VARIABLES
    cache,     \* klass_lookup_cache
    live,      \* the klasses that are loaded
    content,   \* the name and the loader that the memory of a klass shows
    host,      \* host_classloader_klass
    thread,    \* current_java_thread, current_jni_env and the context loader
    call,      \* the call each client is in
    pinned,    \* the klass a name was last overridden with, until evicted (history)
    unloads    \* loaders unloaded so far

vars == <<cache, live, content, host, thread, call, pinned, unloads>>

Idle == [pc |-> "idle", name |-> 1, klass |-> NoKlass, loader |-> Boot, ok |-> TRUE]

\* Type invariant: the calls of one client keep their place, and a thread with a
\* cached JNIEnv is known to the JVM.
TypeOK ==
    /\ cache \in [Name -> Klass \cup {NoKlass, Absent}]
    /\ live \in SUBSET Klass
    /\ content \in [Klass -> [name : Name \cup {0}, loader : Loader]]
    /\ host \in Klass \cup {NoKlass}
    /\ thread \in [Client -> [java : BOOLEAN, env : BOOLEAN, known : BOOLEAN, context : Loader]]
    /\ \A c \in Client : thread[c].java \/ thread[c].env => thread[c].known
    /\ call \in [Client -> [pc : {"idle", "walk", "jni", "insert", "capture", "resolve", "override"},
                            name : Name, klass : Klass \cup {NoKlass}, loader : Loader, ok : BOOLEAN]]
    /\ \A c \in Client : call[c].pc \in {"insert", "capture", "override"} => call[c].klass \in Klass
    /\ pinned \in [Name -> Klass \cup {NoKlass}]
    /\ unloads \in Nat

Init ==
    /\ cache = [n \in Name |-> Absent]
    /\ live = {p.klass : p \in Initial}
    /\ content = [k \in Klass |->
                    IF \E p \in Initial : p.klass = k
                    THEN LET p == CHOOSE q \in Initial : q.klass = k IN
                         [name |-> p.name, loader |-> p.loader]
                    ELSE [name |-> 0, loader |-> Boot]]
    /\ host = NoKlass
    /\ thread = [c \in Client |-> [java |-> FALSE, env |-> FALSE, known |-> c \in JavaThread,
                                   context |-> System]]
    /\ call = [c \in Client |-> Idle]
    /\ pinned = [n \in Name |-> NoKlass]
    /\ unloads = 0

Copies(n) == {k \in live : content[k].name = n}

-----------------------------------------------------------------------------
(* Threads.                                                                *)

\* klass_to_class_loader_oop() of the host klass: null when there is none yet.
LoaderOfHost == IF host = NoKlass THEN Boot ELSE content[host].loader

\* inherit_host_context_classloader_for_current_thread(): the context loader that a
\* thread with loader l is left with.
Inherited(l) == IF LoaderOfHost = Boot THEN l ELSE LoaderOfHost

\* attach_current_native_thread(): the JNIEnv, then the host's loader.
Attached(th) == [th EXCEPT !.env = TRUE, !.known = TRUE, !.context = Inherited(th.context)]

\* find_java_thread_by_os_thread_id() finds a thread as soon as the JVM knows it.
Listed(th) == th.known

\* ensure_current_java_thread(): the cached JavaThread; or a JavaThread of the
\* list, which is adopted without its JNIEnv; or an attachment.
Ensured(th) ==
    IF th.java THEN IF th.env THEN th ELSE Attached(th)
    ELSE IF Listed(th) THEN [th EXCEPT !.java = TRUE]
    ELSE [Attached(th) EXCEPT !.java = TRUE]

\* Any other use of the library that needs JNI, make_java_object() for one.
EnsureCurrentJavaThread(c) ==
    /\ call[c].pc = "idle"
    /\ ~thread[c].env
    /\ thread' = [thread EXCEPT ![c] = Ensured(@)]
    /\ UNCHANGED <<cache, live, content, host, call, pinned, unloads>>

-----------------------------------------------------------------------------
(* find_class().                                                           *)

\* The klass in the cache still shows the name that it is cached for: find_class()
\* answers it and changes nothing.
Hit(n) == cache[n] \in Klass /\ content[cache[n]].name = n

\* No entry, or one that is null or stale, which is erased.
FindMiss(c, n) ==
    /\ call[c].pc = "idle"
    /\ ~Hit(n)
    /\ cache' = [cache EXCEPT ![n] = Absent]
    /\ call' = [call EXCEPT ![c] = [Idle EXCEPT !.pc = "walk", !.name = n]]
    /\ UNCHANGED <<live, content, host, thread, pinned, unloads>>

\* class_loader_data_graph::find_klass(): whichever copy the walk meets first.
Walk(c) ==
    /\ call[c].pc = "walk"
    /\ \/ \E k \in Copies(call[c].name) :
             call' = [call EXCEPT ![c] = [@ EXCEPT !.pc = "insert", !.klass = k]]
       \/ /\ Copies(call[c].name) = {}
          /\ call' = [call EXCEPT ![c].pc = "jni"]
    /\ UNCHANGED <<cache, live, content, host, thread, pinned, unloads>>

\* loadClass(n) of loader l answers klass k, which it may have to define.
LoadClass(n, l, k) ==
    /\ l # Boot /\ n \in Defines[l]
    /\ \/ k \in live /\ content[k] = [name |-> n, loader |-> l] /\ UNCHANGED <<live, content>>
       \/ /\ \A j \in live : content[j] # [name |-> n, loader |-> l]
          /\ k \notin live /\ live' = live \cup {k}
          /\ content' = [content EXCEPT ![k] = [name |-> n, loader |-> l]]

LoaderChain_NoContext(th) == <<System, System, Launch>>

\* The loaders jni_find_class_with_context_loader() asks, in this order.
LoaderChain(th) == <<th.context, System, Launch>>

\* jni_find_class_with_context_loader(), which makes sure of the thread once
\* itself and again with its first JNI call.
JniFind(c) ==
    LET n == call[c].name
        th == Ensured(Ensured(thread[c])) IN
    /\ call[c].pc = "jni"
    /\ thread' = [thread EXCEPT ![c] = th]
    /\ \/ \E i \in 1..3, k \in Klass :
             /\ LoadClass(n, LoaderChain(th)[i], k)
             /\ \A j \in 1..(i - 1) : LoaderChain(th)[j] = Boot \/ n \notin Defines[LoaderChain(th)[j]]
             /\ call' = [call EXCEPT ![c] = [@ EXCEPT !.pc = "insert", !.klass = k]]
       \/ /\ \A i \in 1..3 : LoaderChain(th)[i] = Boot \/ n \notin Defines[LoaderChain(th)[i]]
          /\ call' = [call EXCEPT ![c] = Idle]
          /\ UNCHANGED <<live, content>>
    /\ UNCHANGED <<cache, host, pinned, unloads>>

Insert_Assign(c) ==
    /\ call[c].pc = "insert"
    /\ cache' = [cache EXCEPT ![call[c].name] = call[c].klass]
    /\ call' = [call EXCEPT ![c].pc = "capture"]
    /\ UNCHANGED <<live, content, host, thread, pinned, unloads>>

\* insert, not assign: an entry that is there by now stays.
Insert(c) ==
    /\ call[c].pc = "insert"
    /\ cache' = [cache EXCEPT ![call[c].name] = IF @ = Absent THEN call[c].klass ELSE @]
    /\ call' = [call EXCEPT ![c].pc = "capture"]
    /\ UNCHANGED <<live, content, host, thread, pinned, unloads>>

\* capture_host_classloader_klass(): the first klass of a loader other than the
\* bootstrap loader is published, and its loader installed on this thread if it
\* has a JNIEnv.  Then the call answers the klass it found.
Capture(c) ==
    LET k == call[c].klass
        first == host = NoKlass /\ content[k].loader # Boot IN
    /\ call[c].pc = "capture"
    /\ host' = IF first THEN k ELSE host
    /\ thread' = IF first /\ thread[c].env THEN [thread EXCEPT ![c].context = content[k].loader]
                                           ELSE thread
    /\ call' = [call EXCEPT ![c] = Idle]
    /\ UNCHANGED <<cache, live, content, pinned, unloads>>

-----------------------------------------------------------------------------
(* override_class_lookup(), evict_class_lookup(), reanchor_classes_via_    *)
(* oop().                                                                  *)

Pin(n, k) ==
    /\ cache' = [cache EXCEPT ![n] = k]
    /\ pinned' = [pinned EXCEPT ![n] = k]

\* The caller passes a klass of that name, or null.
OverrideClassLookup(c, n, k) ==
    /\ call[c].pc = "idle"
    /\ k \in Copies(n) \/ k = NoKlass
    /\ Pin(n, k)
    /\ UNCHANGED <<live, content, host, thread, call, unloads>>

EvictClassLookup(c, n) ==
    /\ call[c].pc = "idle"
    /\ cache' = [cache EXCEPT ![n] = Absent]
    /\ pinned' = [pinned EXCEPT ![n] = NoKlass]
    /\ UNCHANGED <<live, content, host, thread, call, unloads>>

\* reanchor_classes_via_oop(), anchored at an object whose class loader l defined.
ReanchorBegin(c, l) ==
    /\ call[c].pc = "idle"
    /\ \E k \in live : content[k].loader = l
    /\ call' = [call EXCEPT ![c] = [Idle EXCEPT !.pc = "resolve", !.loader = l]]
    /\ UNCHANGED <<cache, live, content, host, thread, pinned, unloads>>

ReanchorNext_ForgetFailure(c, ok) ==
    call' = [call EXCEPT ![c] = IF @.name = NNames THEN Idle
                                ELSE [@ EXCEPT !.pc = "resolve", !.name = call[c].name + 1, !.klass = NoKlass]]

\* The next name of the list, or the end of the call.
ReanchorNext(c, ok) ==
    call' = [call EXCEPT ![c] = IF @.name = NNames THEN Idle
                                ELSE [@ EXCEPT !.pc = "resolve", !.name = call[c].name + 1, !.klass = NoKlass,
                                               !.ok = ok]]

\* find_class_via_oop() makes sure of the thread once; without a JNIEnv every
\* JNI call in it answers null.
ReanchorResolve(c) ==
    LET n == call[c].name
        l == call[c].loader
        th == Ensured(thread[c]) IN
    /\ call[c].pc = "resolve"
    /\ thread' = [thread EXCEPT ![c] = th]
    /\ \/ /\ th.env
          /\ \E k \in Klass :
                /\ LoadClass(n, l, k)
                /\ call' = [call EXCEPT ![c] = [@ EXCEPT !.pc = "override", !.klass = k]]
       \/ /\ ~th.env \/ l = Boot \/ n \notin Defines[l]
          /\ ReanchorNext(c, FALSE)
          /\ UNCHANGED <<live, content>>
    /\ UNCHANGED <<cache, host, pinned, unloads>>

ReanchorOverride(c) ==
    /\ call[c].pc = "override"
    /\ Pin(call[c].name, call[c].klass)
    /\ ReanchorNext(c, call[c].ok)
    /\ UNCHANGED <<live, content, host, thread, unloads>>

-----------------------------------------------------------------------------
(* The JVM.                                                                *)

JvmLoad(n, l, k) ==
    /\ LoadClass(n, l, k)
    /\ live' # live
    /\ UNCHANGED <<cache, host, thread, call, pinned, unloads>>

\* A loader that is no thread's context loader and anchors no call is unloaded
\* with its classes; their memory keeps its bytes until it is used again.
JvmUnload(l) ==
    LET gone == {k \in live : content[k].loader = l} IN
    /\ unloads < MaxUnloads /\ unloads' = unloads + 1
    /\ l \notin {Boot, System, Launch}
    /\ \A c \in Client : thread[c].context # l /\ call[c].loader # l
    /\ gone # {}
    /\ live' = live \ gone
    /\ pinned' = [n \in Name |-> IF pinned[n] \in gone THEN NoKlass ELSE pinned[n]]
    /\ UNCHANGED <<cache, content, host, thread, call>>

Find(c) == Walk(c) \/ JniFind(c) \/ Insert(c) \/ Capture(c)

Next ==
    \/ \E c \in Client :
          \/ EnsureCurrentJavaThread(c)
          \/ \E n \in Name : FindMiss(c, n)
          \/ Find(c)
    \/ \E c \in Overrider :
          \/ \E n \in Name : EvictClassLookup(c, n) \/ \E k \in Klass \cup {NoKlass} :
                                                          OverrideClassLookup(c, n, k)
          \/ \E l \in Loader : ReanchorBegin(c, l)
          \/ ReanchorResolve(c)
          \/ ReanchorOverride(c)
    \/ \E l \in Loader : JvmUnload(l) \/ \E n \in Name, k \in Klass : JvmLoad(n, l, k)

Spec == Init /\ [][Next]_vars

-----------------------------------------------------------------------------
(* Properties.                                                             *)

\* An override sticks: until it is evicted, overridden again or its class is
\* unloaded, every find_class(n) that begins is answered from the cache with the
\* klass given, also when another lookup of the name was under way.
OverrideSticks ==
    \A n \in Name : pinned[n] # NoKlass =>
        cache[n] = pinned[n] /\ Hit(n) /\ pinned[n] \in live

\* When reanchor_classes_via_oop() returns true, every name of the list is
\* answered with the copy of the anchor's loader.
ReanchorComplete ==
    [][\A c \in Overrider :
          ReanchorOverride(c) /\ call'[c].pc = "idle" /\ call[c].ok =>
             \A n \in Name : /\ cache'[n] \in live'
                             /\ content'[cache'[n]] = [name |-> n, loader |-> call[c].loader]]_vars

\* Once a host loader is known, a thread that attaches while it is loaded finds
\* every class that loader can load: find_class() does not answer null for one.
HostVisible ==
    [][\A c \in Client :
          JniFind(c) /\ call'[c].pc = "idle" /\ ~thread[c].env /\ host \in live =>
             call[c].name \notin Defines[content[host].loader]]_vars
=============================================================================
