---------------------------- MODULE MCCatalogRefresh ----------------------------
(* Values for TLC: the second catalog condemns a generation the first does  *)
(* not, and clears one that the first condemned.                            *)
EXTENDS CatalogRefresh, TLC

CONSTANTS r1, r2, c1, c2, x1, x2

MCCondemned == 1 :> {<<x1, 2>>} @@ 2 :> {<<x1, 1>>, <<x2, 1>>}

MCInstalled == x1 :> 1 @@ x2 :> 1
=============================================================================
