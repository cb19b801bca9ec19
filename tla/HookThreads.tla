---------------------------- MODULE HookThreads -----------------------------
(* The threads that HookTeardown and EventWatchers are about.              *)

CONSTANTS
    Client,    \* threads that call hook<T>(), on_class_loaded(), on_exception() and stop()
    Closer,    \* those of them that also call shutdown_hooks()
    Java,      \* Java threads: in hooked methods, defining classes, constructing Throwables
    NoThread   \* nobody holds the mutex
=============================================================================
