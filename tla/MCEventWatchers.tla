-------------------------- MODULE MCEventWatchers --------------------------
(* Instances of EventWatchers for TLC: two watches for class loads and one *)
(* for exceptions.                                                         *)
EXTENDS EventWatchers, TLC

CONSTANTS w1, w2, w3

MCWatch == {w1, w2, w3}
MCKindOf == (w1 :> 1) @@ (w2 :> 1) @@ (w3 :> 2)
=============================================================================
