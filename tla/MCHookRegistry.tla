--------------------------- MODULE MCHookRegistry ---------------------------
(* Instances of HookRegistry for TLC: two Java methods that share an i2i   *)
(* stub, at two or three addresses.                                        *)
EXTENDS HookRegistry, TLC

CONSTANTS a, b, m1, m2, m3, s1, s2

MCMethods2 == {m1, m2}
MCMethods3 == {m1, m2, m3}
MCJava2 == {a, b}
MCStubOf2 == (a :> s1) @@ (b :> s1)
MCNameOf2 == (a :> "a") @@ (b :> "b")
MCSignatureOf2 == (a :> "()V") @@ (b :> "(I)V")
MCTable2 == (a :> m1) @@ (b :> m2)
=============================================================================
