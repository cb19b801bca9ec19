--------------------------- MODULE MCHookTeardown ---------------------------
(* Instances of HookTeardown for TLC.                                      *)
EXTENDS HookTeardown
=============================================================================
