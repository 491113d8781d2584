------------------------ MODULE MCRevisionConvergence ------------------------
(* Values for TLC: p1 starts, stops and starts again, p2 starts once.       *)
EXTENDS RevisionConvergence, TLC

CONSTANTS p1, p2, b1

MCMaxLifecycle == p1 :> 3 @@ p2 :> 1
=============================================================================
