------------------------- MODULE MCSourceConvergence -------------------------
(* Model values for TLC: two executions, so that an abandoned one may still *)
(* answer.                                                                  *)
EXTENDS SourceConvergence

CONSTANTS r1, r2
=============================================================================
