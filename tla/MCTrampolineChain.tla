------------------------- MODULE MCTrampolineChain -------------------------
(* The instance of TrampolineChain for TLC.                                *)
EXTENDS TrampolineChain
=============================================================================
