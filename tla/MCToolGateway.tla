----------------------------- MODULE MCToolGateway -----------------------------
(* Values for TLC: requests that share keys, inputs and approvals in all ways. *)
EXTENDS ToolGateway, TLC

CONSTANTS c1, c2, k1, k2, i1, i2, a1, a2

=============================================================================
