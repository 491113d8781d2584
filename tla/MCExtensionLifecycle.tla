------------------------- MODULE MCExtensionLifecycle -------------------------
(* Values for TLC. *)
EXTENDS ExtensionLifecycle, TLC

CONSTANTS o1, o2, o3, o4, c1, c2, w1, w2

MCWorker == (c1 :> w1) @@ (c2 :> w2)

LifecycleSymmetry == Permutations(Operations)
=============================================================================
