------------------------ MODULE MCDeploymentSupervisor ------------------------
(***************************************************************************)
(* TLC instances of DeploymentSupervisor.  Supervisor processes are        *)
(* interchangeable; reservation identities are taken by CHOOSE and are not *)
(* listed as symmetric.                                                    *)
(***************************************************************************)
EXTENDS DeploymentSupervisor, TLC

Symmetry == Permutations(Hosts)

=============================================================================
