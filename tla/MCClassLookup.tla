--------------------------- MODULE MCClassLookup ---------------------------
(* The instance of ClassLookup for TLC. The host application has a loader of *)
(* its own; name 1 is defined by it and by the system loader, name 2 by it *)
(* alone.                                                                  *)
EXTENDS ClassLookup, TLC

CONSTANTS k1, k2, k3, HostLoader

MCDefines == (Boot :> {}) @@ (System :> {1}) @@ (HostLoader :> {1, 2})
MCInitial == {[klass |-> k1, name |-> 1, loader |-> HostLoader]}
=============================================================================
