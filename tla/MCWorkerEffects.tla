---------------------------- MODULE MCWorkerEffects ----------------------------
(* Model values for checking WorkerEffects. *)
EXTENDS WorkerEffects

CONSTANTS g1, g2, e1, r1, r2, x1, x2
=============================================================================
