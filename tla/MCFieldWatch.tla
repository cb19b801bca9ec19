---------------------------- MODULE MCFieldWatch ----------------------------
(* The instance of FieldWatch for TLC: two fields, one address more than   *)
(* fields, two watches on the first field.                                 *)
EXTENDS FieldWatch, TLC

CONSTANTS w1, w2, w3, f1, f2, a1, a2

MCFieldOf == (w1 :> f1) @@ (w2 :> f1) @@ (w3 :> f2)
MCHome == (f1 :> a1) @@ (f2 :> a2)

\* Threads are interchangeable, and so are the two watches on the first field.
MCSymmetry == Permutations(Thread) \cup Permutations({w1, w2})
=============================================================================
