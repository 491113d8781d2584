---------------------------- MODULE EffectDelivery ----------------------------
(***************************************************************************)
(* What the worker effect protocol promises for one application: an effect *)
(* happens at most once, with one result, and is acknowledged as completed *)
(* only after it happened, with the result it had.                         *)
(***************************************************************************)
CONSTANTS
    Effects,    \* effect identities
    Results,    \* result digests
    NoResult    \* an effect that has not happened

VARIABLES
    happened,       \* the result of each effect in the outside world
    acknowledged    \* the result each effect is recorded with

deliveryVars == <<happened, acknowledged>>

DeliveryInit ==
    /\ happened = [e \in Effects |-> NoResult]
    /\ acknowledged = [e \in Effects |-> NoResult]

Happen(e, r) ==
    /\ happened[e] = NoResult
    /\ happened' = [happened EXCEPT ![e] = r]
    /\ UNCHANGED acknowledged

Acknowledge(e) ==
    /\ happened[e] # NoResult
    /\ acknowledged[e] = NoResult
    /\ acknowledged' = [acknowledged EXCEPT ![e] = happened[e]]
    /\ UNCHANGED happened

DeliveryNext == \E e \in Effects : (\E r \in Results : Happen(e, r)) \/ Acknowledge(e)

DeliverySpec == DeliveryInit /\ [][DeliveryNext]_deliveryVars
=============================================================================
