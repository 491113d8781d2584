----------------------- MODULE MCHotApplicationTraffic -----------------------
(* Values for TLC. *)
EXTENDS HotApplicationTraffic, TLC

CONSTANTS r1, r2, p1

MCRequests == {r1, r2}
MCRunner == [r \in MCRequests |-> p1]
MCConcurrency == (1 :> 1) @@ (2 :> 2)
MCExpected == (r1 :> 0) @@ (r2 :> 2)
=============================================================================
