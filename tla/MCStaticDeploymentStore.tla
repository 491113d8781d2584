----------------------- MODULE MCStaticDeploymentStore -----------------------
(***************************************************************************)
(* TLC instance of StaticDeploymentStore: blue and two greens, two hosts   *)
(* whose clocks disagree, two reservation identities.                      *)
(***************************************************************************)
EXTENDS StaticDeploymentStore, TLC

(* Hosts and reservation identities are interchangeable. *)
Symmetry == Permutations(Hosts) \cup Permutations(ReservationIds)

=============================================================================
