----------------------------- MODULE Executions_proofs -----------------------------
(***************************************************************************)
(* Proofs about the two components that have an effect executed once: the  *)
(* release workers (WorkerEffects) and the tool gateway (ToolGateway).     *)
(*                                                                         *)
(* WorkerEffects: an effect happens once and is recorded with the result   *)
(* it had (EffectDelivery is implemented), and a live claim stays within   *)
(* the authority it was taken under.                                       *)
(*                                                                         *)
(* ToolGateway, for any calls, keys, inputs, approvals and limits:         *)
(* GatewayInv is the inductive invariant: an approval that is being used   *)
(* has one user and one that was used stays used; as long as no claims     *)
(* have raced, a claim that is yet to be dispatched owns its entry; and an *)
(* entry belongs to a call of its key and input.                           *)
(***************************************************************************)
EXTENDS WorkerEffects, ToolGateway, FiniteSetTheorems, TLAPS

-----------------------------------------------------------------------------
(* Release workers and their effects. *)

(* Executions about to complete an effect have delivered their result. *)
DeliveredBeforeCompletion ==
    \A x \in Runs : run[x].pc = "complete" => external[run[x].effect] = run[x].result

(* A row carries a result exactly when it is completed. *)
ResultWhenCompleted ==
    \A e \in Effects : (row[e].result = NoResult) <=> (row[e].state # "completed")

(* No claim was taken under a token that has not been issued. *)
ClaimsUnderIssuedTokens == \A e \in Effects : row[e].token <= fence.token

(* Completion is the only step that writes row.result, and only after the  *)
(* delivery it follows in its own execution; a handover cannot match an    *)
(* old claim because tokens grow.                                          *)
EffectsInv ==
    /\ EffectsTypeOK
    /\ CompletedEffectsDelivered
    /\ DeliveredBeforeCompletion
    /\ ResultWhenCompleted
    /\ ClaimsUnderIssuedTokens
    /\ ClaimWithinAuthority

-----------------------------------------------------------------------------
(* Ending an execution leaves an idle one. *)
LEMMA EndRunTypes ==
    ASSUME run \in [Runs -> Executions], NEW x \in Runs, EndRun(x)
    PROVE  /\ run' \in [Runs -> Executions]
           /\ \A y \in Runs : run'[y].pc = "complete" => run'[y] = run[y]
<1> DEFINE idle == IdleRun(run[x].generation, run[x].effect, run[x].result)
<1>1. idle \in Executions /\ idle.pc = "idle"
  BY DEF Executions, IdleRun
<1> QED BY <1>1 DEF EndRun

(* Moving an execution on keeps what it executes. *)
LEMMA GotoTypes ==
    ASSUME run \in [Runs -> Executions], NEW x \in Runs,
           NEW pc \in {"idle", "renew", "claim", "deliver", "complete"}, RunTo(x, pc)
    PROVE  /\ run' \in [Runs -> Executions]
           /\ run'[x].pc = pc
           /\ run'[x].effect = run[x].effect
           /\ run'[x].result = run[x].result
           /\ \A y \in Runs : y # x => run'[y] = run[y]
<1> DEFINE next == [run[x] EXCEPT !.pc = pc]
<1>1. next \in Executions
  BY DEF Executions
<1>2. run' = [run EXCEPT ![x] = next]
  BY DEF RunTo
<1> QED BY <1>1, <1>2 DEF Executions

(* Taking time from a row touches its lease alone. *)
LEMMA TickRowTypes ==
    ASSUME NEW r \in Rows, NEW n \in Nat, NEW q, q = [r EXCEPT !.left = n]
    PROVE  /\ q \in Rows
           /\ q.state = r.state /\ q.token = r.token /\ q.result = r.result
           /\ q.left = n
BY DEF Rows

(* The row and the executions every state starts from have their types. *)
LEMMA InitialEffects == ASSUME EffectsInit PROVE EffectsInv
BY EffectsAssumption, SMTT(30)
DEF EffectsInit, EffectsInv, EffectsTypeOK, CompletedEffectsDelivered,
    DeliveredBeforeCompletion, ResultWhenCompleted, ClaimsUnderIssuedTokens,
    ClaimWithinAuthority, LiveClaim, NoRow, IdleRun, PassiveWorker, Authority,
    Rows, Executions

(* Handing the fence over keeps the invariant: the new token matches no row. *)
LEMMA HandOverKeeps ==
    ASSUME NEW g \in Generations, EffectsInv, HandOver(g), faults' \in 0..MaxFaults
    PROVE  EffectsInv'
BY EffectsAssumption, SMTT(30)
DEF HandOver, EffectsInv, EffectsTypeOK, CompletedEffectsDelivered,
    DeliveredBeforeCompletion, ResultWhenCompleted, ClaimsUnderIssuedTokens,
    ClaimWithinAuthority, LiveClaim, Rows, Executions

(* A renewal only lengthens the lease, so claims stay within it. *)
LEMMA RenewalKeeps ==
    ASSUME NEW d \in Nat, EffectsInv, RenewFence(d), UNCHANGED <<row, external>>,
           worker' \in [Generations -> Authority], UNCHANGED faults,
           UNCHANGED run
    PROVE  EffectsInv'
BY EffectsAssumption, SMTT(30)
DEF RenewFence, Renewed, EffectsInv, EffectsTypeOK, CompletedEffectsDelivered,
    DeliveredBeforeCompletion, ResultWhenCompleted, ClaimsUnderIssuedTokens,
    ClaimWithinAuthority, LiveClaim, Authority, Rows, Executions

(* A step that leaves the row, the outside world and the fence alone, and   *)
(* brings no execution to completion.                                       *)
LEMMA QuietStepKeeps ==
    ASSUME EffectsInv, EffectsTypeOK', UNCHANGED <<fence, row, external>>,
           \A x \in Runs : run'[x].pc = "complete" => run'[x] = run[x]
    PROVE  EffectsInv'
BY DEF EffectsInv, CompletedEffectsDelivered, DeliveredBeforeCompletion,
       ResultWhenCompleted, ClaimsUnderIssuedTokens, ClaimWithinAuthority, LiveClaim

-----------------------------------------------------------------------------
(* EffectsInv is preserved by every step. *)
LEMMA StepKeeps == ASSUME EffectsInv, [EffectsNext]_effectsVars PROVE EffectsInv'
<1> USE EffectsAssumption
<1>1. ASSUME NEW g \in Generations, Transfer(g) PROVE EffectsInv'
  BY <1>1, HandOverKeeps DEF Transfer, EffectsInv, EffectsTypeOK, Rows, Executions
<1>2. CASE Recover
  <2>1. fence.generation \in Generations
    BY DEF EffectsInv, EffectsTypeOK, Rows, Executions
  <2>2. faults' \in 0..MaxFaults
    BY <1>2 DEF Recover, Strike, EffectsInv, EffectsTypeOK, Rows, Executions
  <2> QED BY <1>2, <2>1, <2>2, HandOverKeeps DEF Recover
<1>3. CASE Settle
  BY <1>3 DEF Settle, EffectsInv, EffectsTypeOK, CompletedEffectsDelivered,
     DeliveredBeforeCompletion, ResultWhenCompleted, ClaimsUnderIssuedTokens,
     ClaimWithinAuthority, LiveClaim, Rows, Executions
<1>4. CASE Activate
  <2>1. worker' \in [Generations -> Authority]
    BY <1>4 DEF Activate, EffectsInv, EffectsTypeOK, Authority, Rows, Executions
  <2> QED BY <1>4, <2>1, RenewalKeeps DEF Activate
<1>5. ASSUME NEW g \in Generations, Heartbeat(g) PROVE EffectsInv'
  <2>1. worker' \in [Generations -> Authority]
    <3>1. worker' = worker \/ worker' = [worker EXCEPT ![g].active = FALSE]
      BY <1>5 DEF Heartbeat
    <3>2. worker \in [Generations -> Authority]
      BY DEF EffectsInv, EffectsTypeOK
    <3>3. [worker[g] EXCEPT !.active = FALSE] \in Authority
      BY <3>2 DEF Authority
    <3> QED BY <3>1, <3>2, <3>3
  <2>2. CASE HoldsFence(g, worker[g].token)
    BY <1>5, <2>1, <2>2, RenewalKeeps DEF Heartbeat
  <2>3. CASE ~HoldsFence(g, worker[g].token)
    <3>1. EffectsTypeOK'
      BY <1>5, <2>1, <2>3 DEF Heartbeat, EffectsInv, EffectsTypeOK, Rows, Executions
    <3> QED BY <1>5, <2>3, <3>1, QuietStepKeeps DEF Heartbeat
  <2> QED BY <2>2, <2>3
<1>6. ASSUME NEW g \in Generations, Drain(g) PROVE EffectsInv'
  <2>1. EffectsTypeOK'
    BY <1>6 DEF Drain, EffectsInv, EffectsTypeOK, Authority, Rows, Executions
  <2> QED BY <1>6, <2>1, QuietStepKeeps DEF Drain
<1>7. ASSUME NEW g \in Generations, Crash(g) PROVE EffectsInv'
  <2>1. EffectsTypeOK'
    BY <1>7 DEF Crash, Strike, PassiveWorker, IdleRun, EffectsInv, EffectsTypeOK,
       Authority, Rows, Executions
  <2>2. \A x \in Runs : run'[x].pc = "complete" => run'[x] = run[x]
    BY <1>7 DEF Crash, IdleRun
  <2> QED BY <1>7, <2>1, <2>2, QuietStepKeeps DEF Crash
<1>8. ASSUME NEW x \in Runs, NEW g \in Generations, NEW e \in Effects,
             NEW r \in Results, NEW d \in ClaimDurations, ExecuteEffect(x, g, e, r, d)
      PROVE  EffectsInv'
  <2>1. EffectsTypeOK'
    BY <1>8 DEF ExecuteEffect, EffectsInv, EffectsTypeOK, Authority, Rows, Executions
  <2>2. \A y \in Runs : run'[y].pc = "complete" => run'[y] = run[y]
    BY <1>8 DEF ExecuteEffect, EffectsInv, EffectsTypeOK, Rows, Executions
  <2> QED BY <1>8, <2>1, <2>2, QuietStepKeeps DEF ExecuteEffect
<1>9. ASSUME NEW x \in Runs, Renew(x) PROVE EffectsInv'
  <2>1. run[x].duration + 1 \in Nat /\ run' \in [Runs -> Executions]
    BY <1>9, EndRunTypes, GotoTypes DEF Renew, EffectsInv, EffectsTypeOK, Executions
  <2>2. \A y \in Runs : run'[y].pc = "complete" => run'[y] = run[y]
    BY <1>9, EndRunTypes, GotoTypes DEF Renew, EffectsInv, EffectsTypeOK
  <2>3. fence' = fence \/ RenewFence(LongerOf(LeaseDuration, run[x].duration + 1))
    BY <1>9 DEF Renew
  <2>4. fence' = fence \/ fence' = [fence EXCEPT !.left = fence'.left]
    BY <2>3 DEF RenewFence, EffectsInv, EffectsTypeOK, Rows, Executions
  <2>5. fence'.left \in Nat /\ fence'.left >= fence.left
    BY <2>1, <2>3
       DEF RenewFence, Renewed, LongerOf, EffectsInv, EffectsTypeOK, Rows,
           Executions
  <2>6. EffectsTypeOK'
    BY <1>9, <2>1, <2>4, <2>5 DEF Renew, EffectsInv, EffectsTypeOK, Executions, Rows
  <2>7. ClaimsUnderIssuedTokens' /\ ClaimWithinAuthority'
    BY <1>9, <2>4, <2>5
       DEF Renew, EffectsInv, EffectsTypeOK, ClaimsUnderIssuedTokens,
       ClaimWithinAuthority, LiveClaim, Rows, Executions
  <2> QED
    BY <1>9, <2>2, <2>6, <2>7 DEF Renew, EffectsInv, CompletedEffectsDelivered,
       DeliveredBeforeCompletion, ResultWhenCompleted
<1>10. ASSUME NEW x \in Runs, Claim(x) PROVE EffectsInv'
  <2>1. CASE MayClaim(x)
    <3> DEFINE e == run[x].effect
    <3>1. /\ e \in Effects
          /\ row[e].state # "completed"
          /\ run[x].duration <= fence.left
          /\ worker[run[x].generation].token = fence.token
          /\ row[e].attempts + 1 \in 1..MaxAttempts
      BY <2>1 DEF MayClaim, HoldsFence, FitsLease, Claimable, LiveClaim, EffectsInv,
         EffectsTypeOK, Authority, Rows, Executions
    <3>2. row' = [row EXCEPT ![e] =
                     [state |-> "pending", generation |-> run[x].generation,
                      token |-> fence.token, attempts |-> row[e].attempts + 1,
                      left |-> run[x].duration, result |-> NoResult]]
      BY <1>10, <2>1, <3>1 DEF Claim
    <3>3. /\ run' = [run EXCEPT ![x].pc = "deliver", ![x].claim = row[e].attempts + 1]
          /\ UNCHANGED <<fence, external, worker, faults>>
      BY <1>10, <2>1 DEF Claim
    <3>4. row' \in [Effects -> Rows]
      BY <3>1, <3>2 DEF EffectsInv, EffectsTypeOK, Rows, Executions
    <3>5. run' \in [Runs -> Executions] /\ run'[x].pc = "deliver"
      <4> DEFINE next == [run[x] EXCEPT !.pc = "deliver",
      !.claim = row[e].attempts + 1]
      <4>1. next \in Executions /\ next.pc = "deliver"
        <5>1. run[x] \in Executions /\ row[e].attempts + 1 \in Nat
          BY <3>1 DEF EffectsInv, EffectsTypeOK
        <5> QED BY <5>1 DEF Executions
      <4>2. run' = [run EXCEPT ![x] = next]
        BY <3>3
      <4> QED BY <4>1, <4>2 DEF EffectsInv, EffectsTypeOK
    <3>6. EffectsTypeOK'
      BY <3>3, <3>4, <3>5 DEF EffectsInv, EffectsTypeOK, Rows, Executions
    <3>7. CompletedEffectsDelivered' /\ ResultWhenCompleted'
      BY <3>1, <3>2, <3>3 DEF EffectsInv, EffectsTypeOK, CompletedEffectsDelivered,
         ResultWhenCompleted, Rows, Executions
    <3>8. ClaimsUnderIssuedTokens' /\ ClaimWithinAuthority'
      BY <3>1, <3>2, <3>3 DEF EffectsInv, EffectsTypeOK, ClaimsUnderIssuedTokens,
         ClaimWithinAuthority, LiveClaim, Rows, Executions
    <3>9. DeliveredBeforeCompletion'
      BY <3>3, <3>5
         DEF EffectsInv, EffectsTypeOK, DeliveredBeforeCompletion, Rows,
             Executions
    <3> QED BY <3>6, <3>7, <3>8, <3>9 DEF EffectsInv
  <2>2. CASE ~MayClaim(x)
    <3>1. EffectsTypeOK' /\ \A y \in Runs : run'[y].pc = "complete" => run'[y] = run[y]
      BY <1>10, <2>2, EndRunTypes DEF Claim, EffectsInv, EffectsTypeOK
    <3> QED BY <1>10, <2>2, <3>1, QuietStepKeeps DEF Claim
  <2> QED BY <2>1, <2>2
<1>11. ASSUME NEW x \in Runs, Deliver(x) PROVE EffectsInv'
  <2> DEFINE e == run[x].effect
  <2>1. e \in Effects /\ run[x].result \in Results
    BY DEF EffectsInv, EffectsTypeOK, Rows, Executions
  <2>2. UNCHANGED <<fence, row, worker, faults>>
    BY <1>11 DEF Deliver
  <2>3. external' \in [Effects -> Results \cup {NoResult}]
    BY <1>11, <2>1 DEF Deliver, Record, EffectsInv, EffectsTypeOK, Rows, Executions
  <2>4. \A f \in Effects : external[f] # NoResult => external'[f] = external[f]
    BY <1>11, <2>1 DEF Deliver, Record, EffectsInv, EffectsTypeOK, Rows, Executions
  <2>5. run' \in [Runs -> Executions]
    BY <1>11, EndRunTypes, GotoTypes DEF Deliver, EffectsInv, EffectsTypeOK
  <2>6. EffectsTypeOK'
    BY <2>2, <2>3, <2>5 DEF EffectsInv, EffectsTypeOK, Executions, Rows
  <2>7. CompletedEffectsDelivered'
    BY <2>2, <2>4 DEF EffectsInv, CompletedEffectsDelivered, ResultWhenCompleted
  <2>8. DeliveredBeforeCompletion'
    <3>1. ASSUME NEW y \in Runs, run'[y].pc = "complete"
          PROVE  external'[run'[y].effect] = run'[y].result
      <4>1. CASE y = x
        <5>1. CASE external'[e] = run[x].result
          BY <1>11, <4>1, <5>1, GotoTypes DEF Deliver, EffectsInv, EffectsTypeOK
        <5>2. CASE external'[e] # run[x].result
          <6>1. EndRun(x) /\ run[x].pc # "complete"
            BY <1>11, <5>2 DEF Deliver
          <6> QED BY <3>1, <4>1, <6>1, EndRunTypes DEF EffectsInv, EffectsTypeOK
        <5> QED BY <5>1, <5>2
      <4>2. CASE y # x
        <5>1. run'[y] = run[y]
          BY <1>11, <4>2
             DEF Deliver, RunTo, EndRun, EffectsInv, EffectsTypeOK, Rows,
                 Executions
        <5>2. external[run[y].effect] = run[y].result
          BY <3>1, <5>1 DEF EffectsInv, DeliveredBeforeCompletion
        <5>3. run[y].effect \in Effects /\ run[y].result # NoResult
          BY DEF EffectsInv, EffectsTypeOK, Rows, Executions
        <5> QED BY <2>4, <5>1, <5>2, <5>3
      <4> QED BY <4>1, <4>2
    <3> QED BY <3>1 DEF DeliveredBeforeCompletion
  <2> QED
    BY <2>2, <2>6, <2>7, <2>8 DEF EffectsInv, ResultWhenCompleted,
       ClaimsUnderIssuedTokens, ClaimWithinAuthority, LiveClaim
<1>12. ASSUME NEW x \in Runs, CompleteEffect(x) PROVE EffectsInv'
  <2> DEFINE e == run[x].effect
  <2>1. e \in Effects /\ run[x].result \in Results
    BY DEF EffectsInv, EffectsTypeOK, Rows, Executions
  <2>2. run[x].pc = "complete" /\ UNCHANGED <<fence, external, worker, faults>>
    BY <1>12 DEF CompleteEffect
  <2>3. run' \in [Runs -> Executions]
    BY <1>12, EndRunTypes DEF CompleteEffect, EffectsInv, EffectsTypeOK
  <2>4. \A y \in Runs : run'[y].pc = "complete" => run'[y] = run[y]
    BY <1>12, EndRunTypes DEF CompleteEffect, EffectsInv, EffectsTypeOK
  <2>5. CASE row' = row
    <3>1. EffectsTypeOK'
      BY <2>2, <2>3, <2>5 DEF EffectsInv, EffectsTypeOK, Executions, Rows
    <3> QED BY <2>2, <2>4, <2>5, <3>1, QuietStepKeeps
  <2>6. CASE row' = [row EXCEPT ![e].state = "completed",
  ![e].result = run[x].result,
                                ![e].left = 0]
    <3>1. EffectsTypeOK'
      <4>1. row' \in [Effects -> Rows]
        BY <2>1, <2>6 DEF EffectsInv, EffectsTypeOK, Rows, Executions
      <4> QED BY <2>2, <2>3, <4>1 DEF EffectsInv, EffectsTypeOK, Executions, Rows
    <3>2. CompletedEffectsDelivered'
      BY <2>1, <2>2, <2>6 DEF EffectsInv, EffectsTypeOK, CompletedEffectsDelivered,
         DeliveredBeforeCompletion, Rows, Executions
    <3>3. DeliveredBeforeCompletion'
      BY <2>2, <2>4 DEF EffectsInv, DeliveredBeforeCompletion
    <3>4. ResultWhenCompleted'
      BY <2>1, <2>6
         DEF EffectsInv, EffectsTypeOK, ResultWhenCompleted, Rows, Executions
    <3>5. ClaimsUnderIssuedTokens' /\ ClaimWithinAuthority'
      BY <2>1, <2>2, <2>6 DEF EffectsInv, EffectsTypeOK, ClaimsUnderIssuedTokens,
         ClaimWithinAuthority, LiveClaim, Rows, Executions
    <3> QED BY <3>1, <3>2, <3>3, <3>4, <3>5 DEF EffectsInv
  <2> QED BY <1>12, <2>5, <2>6 DEF CompleteEffect
<1>13. CASE Tick
  <2>1. fence' = [fence EXCEPT !.left = fence'.left] /\ fence'.left = Less(fence.left)
    BY <1>13 DEF Tick, EffectsInv, EffectsTypeOK, Rows, Executions
  <2>2. \A e \in Effects : row'[e] = [row[e] EXCEPT !.left = Less(row[e].left)]
    BY <1>13 DEF Tick
  <2> DEFINE SameBut(e) ==
        /\ row'[e] \in Rows
        /\ row'[e].state = row[e].state /\ row'[e].token = row[e].token
        /\ row'[e].result = row[e].result /\ row'[e].left = Less(row[e].left)
  <2>3. \A n \in Nat : Less(n) \in Nat /\ (Less(n) > 0 => Less(n) = n - 1 /\ n > 0)
    BY DEF Less
  <2>4. ASSUME NEW e \in Effects PROVE SameBut(e)
    <3>1. row[e] \in Rows /\ row[e].left \in Nat
      BY DEF EffectsInv, EffectsTypeOK, Rows, Executions
    <3>2. Less(row[e].left) \in Nat /\ row'[e] = [row[e] EXCEPT !.left = Less(row[e].left)]
      BY <2>2, <2>3, <3>1
    <3> QED BY <3>1, <3>2, TickRowTypes
  <2>10. row' \in [Effects -> Rows]
    BY <1>13, <2>4 DEF Tick
  <2>5. faults' \in 0..MaxFaults /\ UNCHANGED <<external, worker, run>>
    BY <1>13 DEF Tick, Strike, EffectsInv, EffectsTypeOK, Rows, Executions
  <2>6. EffectsTypeOK'
    BY <2>1, <2>3, <2>5, <2>10 DEF EffectsInv, EffectsTypeOK, Rows, Executions
  <2>7. CompletedEffectsDelivered' /\ DeliveredBeforeCompletion' /\ ResultWhenCompleted'
    BY <2>4, <2>5 DEF EffectsInv, CompletedEffectsDelivered,
       DeliveredBeforeCompletion, ResultWhenCompleted
  <2>8. ClaimsUnderIssuedTokens'
    BY <2>1, <2>4
       DEF EffectsInv, EffectsTypeOK, ClaimsUnderIssuedTokens, Rows, Executions
  <2>9. ClaimWithinAuthority'
    <3>1. ASSUME NEW e \in Effects, LiveClaim(e)', row'[e].token = fence'.token
          PROVE  row'[e].left <= fence'.left
      <4>1. /\ row[e].left \in Nat /\ fence.left \in Nat
            /\ row'[e].left = row[e].left - 1 /\ row[e].left > 0
        BY <2>3, <2>4, <3>1
           DEF LiveClaim, EffectsInv, EffectsTypeOK, Rows, Executions
      <4>2. row[e].left <= fence.left
        BY <2>1, <2>4, <3>1, <4>1
           DEF LiveClaim, EffectsInv, EffectsTypeOK, ClaimWithinAuthority, Rows,
               Executions
      <4> QED BY <2>1, <4>1, <4>2 DEF Less
    <3> QED BY <3>1 DEF ClaimWithinAuthority
  <2> QED BY <2>6, <2>7, <2>8, <2>9 DEF EffectsInv
<1>14. CASE UNCHANGED effectsVars
  BY <1>14 DEF effectsVars, EffectsInv, EffectsTypeOK, CompletedEffectsDelivered,
     DeliveredBeforeCompletion, ResultWhenCompleted, ClaimsUnderIssuedTokens,
     ClaimWithinAuthority, LiveClaim, Rows, Executions
<1> QED
  BY <1>1, <1>2, <1>3, <1>4, <1>5, <1>6, <1>7, <1>8, <1>9, <1>10, <1>11, <1>12,
     <1>13, <1>14 DEF EffectsNext, RunStep

(* EffectsInv holds in every reachable state. *)
LEMMA EffectsInvariant == EffectsSpec => []EffectsInv
BY InitialEffects, StepKeeps, PTL DEF EffectsSpec

-----------------------------------------------------------------------------
(* Every variable keeps its shape and rows their attempts bound, for any   *)
(* number of generations, effects and executions.                          *)
THEOREM EffectsTypeCorrect == EffectsSpec => []EffectsTypeOK
<1>1. EffectsInv => EffectsTypeOK
  BY DEF EffectsInv
<1> QED BY <1>1, EffectsInvariant, PTL

(* completeEffect() never records an effect that did not happen, or another *)
(* result than it had.                                                      *)
THEOREM CompletionFollowsDelivery == EffectsSpec => []CompletedEffectsDelivered
<1>1. EffectsInv => CompletedEffectsDelivered
  BY DEF EffectsInv
<1> QED BY <1>1, EffectsInvariant, PTL

(* No renewal, handover or passage of time lets a live claim of the present *)
(* token outlive the fence lease.                                           *)
THEOREM ClaimsStayWithinAuthority == EffectsSpec => []ClaimWithinAuthority
<1>1. EffectsInv => ClaimWithinAuthority
  BY DEF EffectsInv
<1> QED BY <1>1, EffectsInvariant, PTL

(* A live claim keeps its attempt and its generation through every step. *)
LEMMA LiveClaimsStay == EffectsSpec => LiveClaimNotReassigned
<1> DEFINE Keeps == \A e \in Effects : LiveClaim(e) =>
                        /\ row'[e].attempts = row[e].attempts
                        /\ row'[e].generation = row[e].generation
<1>1. ASSUME EffectsInv, [EffectsNext]_effectsVars PROVE Keeps
  <2> SUFFICES ASSUME NEW e \in Effects, LiveClaim(e)
               PROVE  /\ row'[e].attempts = row[e].attempts
                      /\ row'[e].generation = row[e].generation
    OBVIOUS
  <2>1. ASSUME NEW x \in Runs, Claim(x) PROVE row'[e] = row[e]
    BY <1>1, <2>1
       DEF Claim, MayClaim, Claimable, LiveClaim, EffectsInv, EffectsTypeOK,
           Rows, Executions
  <2>2. ASSUME NEW x \in Runs, CompleteEffect(x)
        PROVE  row'[e].attempts = row[e].attempts /\ row'[e].generation = row[e].generation
    BY <1>1, <2>2 DEF CompleteEffect, EffectsInv, EffectsTypeOK, Rows, Executions
  <2>3. ASSUME Tick
        PROVE  row'[e].attempts = row[e].attempts /\ row'[e].generation = row[e].generation
    BY <1>1, <2>3 DEF Tick, EffectsInv, EffectsTypeOK, Rows, Executions
  <2> QED
    BY <1>1, <2>1, <2>2, <2>3
    DEF EffectsNext, RunStep, Transfer, Recover, HandOver, Settle, Activate,
        Heartbeat,
        Drain, Crash, ExecuteEffect, Renew, Deliver, effectsVars
<1>2. ASSUME EffectsInv, [EffectsNext]_effectsVars PROVE [Keeps]_effectsVars
  BY <1>1, <1>2
<1> HIDE DEF Keeps
<1>3. EffectsSpec => [][Keeps]_effectsVars
  BY <1>2, EffectsInvariant, PTL DEF EffectsSpec
<1> QED BY <1>3 DEF Keeps, LiveClaimNotReassigned

(* The fence is what completion depends on: the row completed in a step is  *)
(* one claimed under the token and generation in authority at that step.    *)
LEMMA OnlyAuthorityCompletes == EffectsSpec => CompletionsUnderAuthority
<1> DEFINE Current == \A e \in Effects :
          row[e].state # "completed" /\ row'[e].state = "completed" =>
              /\ row[e].generation = fence.generation
              /\ row[e].token = fence.token
              /\ fence.left > 0
<1>1. ASSUME EffectsInv, [EffectsNext]_effectsVars PROVE Current
  <2> SUFFICES ASSUME NEW e \in Effects, row[e].state # "completed",
                      row'[e].state = "completed"
               PROVE  /\ row[e].generation = fence.generation
                      /\ row[e].token = fence.token
                      /\ fence.left > 0
    OBVIOUS
  <2>1. ASSUME NEW x \in Runs, Claim(x) PROVE FALSE
    BY <1>1, <2>1 DEF Claim, EffectsInv, EffectsTypeOK, Rows, Executions
  <2>2. ASSUME NEW x \in Runs, CompleteEffect(x)
        PROVE  row[e].generation = fence.generation /\ row[e].token = fence.token
               /\ fence.left > 0
    BY <1>1, <2>2
       DEF CompleteEffect, MayComplete, HoldsFence, EffectsInv, EffectsTypeOK, Rows,
           Executions
  <2>3. ASSUME Tick PROVE FALSE
    BY <1>1, <2>3 DEF Tick, EffectsInv, EffectsTypeOK, Rows, Executions
  <2> QED
    BY <1>1, <2>1, <2>2, <2>3
    DEF EffectsNext, RunStep, Transfer, Recover, HandOver, Settle, Activate,
        Heartbeat,
        Drain, Crash, ExecuteEffect, Renew, Deliver, effectsVars
<1>2. ASSUME EffectsInv, [EffectsNext]_effectsVars PROVE [Current]_effectsVars
  BY <1>1, <1>2
<1> HIDE DEF Current
<1>3. EffectsSpec => [][Current]_effectsVars
  BY <1>2, EffectsInvariant, PTL DEF EffectsSpec
<1> QED BY <1>3 DEF Current, CompletionsUnderAuthority

-----------------------------------------------------------------------------
(* A delivery is the abstract Happen or a stutter, a completion the abstract *)
(* Acknowledge, and no other step is visible.                                *)
LEMMA StepDelivers ==
    ASSUME EffectsInv, [EffectsNext]_effectsVars
    PROVE  [Delivery!DeliveryNext]_(Delivery!deliveryVars)
<1> DEFINE ack == [e \in Effects |-> row[e].result]
<1> DEFINE Hidden == external' = external /\ \A e \in Effects : row'[e].result = row[e].result
<1>1. ASSUME Hidden PROVE [Delivery!DeliveryNext]_(Delivery!deliveryVars)
  BY <1>1 DEF Delivery!deliveryVars
<1>2. ASSUME NEW x \in Runs, Deliver(x)
      PROVE  [Delivery!DeliveryNext]_(Delivery!deliveryVars)
  <2>1. run[x].effect \in Effects /\ run[x].result \in Results
    BY DEF EffectsInv, EffectsTypeOK, Rows, Executions
  <2>2. CASE external[run[x].effect] = NoResult
    <3>1. Delivery!Happen(run[x].effect, run[x].result)
      BY <1>2, <2>2 DEF Deliver, Record, Delivery!Happen
    <3> QED BY <2>1, <3>1 DEF Delivery!DeliveryNext
  <2>3. CASE external[run[x].effect] # NoResult
    BY <1>1, <1>2, <2>3
       DEF Deliver, Record, EffectsInv, EffectsTypeOK, Rows, Executions
  <2> QED BY <2>2, <2>3
<1>3. ASSUME NEW x \in Runs, CompleteEffect(x)
      PROVE  [Delivery!DeliveryNext]_(Delivery!deliveryVars)
  <2>1. CASE MayComplete(x)
    <3> DEFINE e == run[x].effect
    <3>1. e \in Effects /\ run[x].result \in Results
      BY DEF EffectsInv, EffectsTypeOK, Rows, Executions
    <3>2. row[e].result = NoResult /\ external[e] = run[x].result
      BY <1>3, <2>1, <3>1 DEF CompleteEffect, MayComplete, LiveClaim, EffectsInv,
         ResultWhenCompleted, DeliveredBeforeCompletion
    <3>3. [f \in Effects |-> row'[f].result]
            = [[f \in Effects |-> row[f].result] EXCEPT ![e] = external[e]]
      <4>1. row = [f \in Effects |-> row[f]]
        BY <3>1 DEF EffectsInv, EffectsTypeOK, Rows
      <4>2. row' = [row EXCEPT ![e] = [row[e] EXCEPT !.state = "completed",
                                                     !.result = run[x].result,
                                                     !.left = 0]]
        BY <1>3, <2>1, <3>1, <4>1, Zenon DEF CompleteEffect
      <4>3. ASSUME NEW f \in Effects, f # e PROVE row'[f].result = row[f].result
        BY <4>1, <4>2, <4>3
      <4>4. row'[e].result = external[e]
        BY <3>1, <3>2, <4>1, <4>2 DEF EffectsInv, EffectsTypeOK, Rows
      <4> QED BY <3>1, <4>3, <4>4
    <3>4. Delivery!Acknowledge(e)
      BY <1>3, <3>1, <3>2, <3>3, EffectsAssumption
         DEF CompleteEffect, Delivery!Acknowledge
    <3>5. Delivery!DeliveryNext
      BY <3>1, <3>4 DEF Delivery!DeliveryNext, Delivery!Acknowledge
    <3> QED BY <3>5
  <2>2. CASE ~MayComplete(x)
    BY <1>1, <1>3, <2>2 DEF CompleteEffect
  <2> QED BY <2>1, <2>2
<1>4. ASSUME NEW x \in Runs, Claim(x) PROVE Hidden
  BY <1>4 DEF Claim, MayClaim, Claimable, LiveClaim, EffectsInv, EffectsTypeOK,
     ResultWhenCompleted, Rows, Executions
<1>5. ASSUME Tick PROVE Hidden
  BY <1>5 DEF Tick, EffectsInv, EffectsTypeOK, Rows, Executions
<1> QED
  BY <1>1, <1>2, <1>3, <1>4, <1>5
  DEF EffectsNext, RunStep, Transfer, Recover, HandOver, Settle, Activate,
      Heartbeat,
      Drain, Crash, ExecuteEffect, Renew, effectsVars

(* Both ends of a claim: nobody takes a live one over, and nobody completes *)
(* under authority that has moved on.                                       *)
THEOREM ClaimsExclusive == EffectsSpec => ClaimsAreExclusive
BY LiveClaimsStay, OnlyAuthorityCompletes DEF ClaimsAreExclusive

(* The effect protocol implements EffectDelivery: the outside world is what *)
(* happened, the completed rows are the acknowledgements.                   *)
THEOREM EffectsRefineDelivery == EffectsSpec => DeliveredOnce
<1>1. ASSUME EffectsInit PROVE Delivery!DeliveryInit
  BY <1>1 DEF EffectsInit, NoRow, Delivery!DeliveryInit
<1> QED
  BY <1>1, StepDelivers, EffectsInvariant, PTL
  DEF EffectsSpec, DeliveredOnce, Delivery!DeliverySpec

-----------------------------------------------------------------------------
(* The tool gateway. *)

(* A handler runs, or has run, only for a call that was dispatched.         *)
HandledWasDispatched ==
    \A c \in Calls :
        call[c].handler # "none" => call[c].pc \in {"waiting", "answered", "refused"}

(* An approval has one user at a time, and no other once it was used.       *)
ApprovalsHaveOneUser ==
    \A c \in Calls :
        /\ call[c].pc = "digest" =>
              /\ approval[call[c].approval].status = "consuming"
              /\ \A d \in Calls : call[d].pc = "digest" /\ call[d].approval = call[c].approval
                                    => d = c
        /\ call[c].spent => approval[call[c].approval].status = "used"

(* Unless claims have raced, one that is yet to be dispatched owns its      *)
(* entry and is the first, and a free key has dispatched nothing.           *)
ClaimsOwn ==
    \A k \in Keys : ~raced[k] =>
        /\ \A c \in Undispatched(k) :
              /\ entry[k].owner = c /\ entry[k].state = "pending"
              /\ dispatched[k] = {}
        /\ entry[k].state = "none" => dispatched[k] = {}

EntriesAreOwned ==
    \A k \in Keys :
        /\ entry[k].state = "none" => entry[k].owner = Nobody
        /\ entry[k].state # "none" =>
              /\ entry[k].owner \in Calls
              /\ call[entry[k].owner].key = k
              /\ call[entry[k].owner].input = entry[k].input
        /\ entry[k].state = "completed" =>
              call[entry[k].owner].handler \in {"completed", "done", "unaudited"}

GatewayInv ==
    /\ TypeOK
    /\ HandledWasDispatched
    /\ ApprovalSpentOnce
    /\ ApprovalsHaveOneUser
    /\ OnceUnlessRaced
    /\ ClaimsOwn
    /\ EntriesAreOwned
    /\ ReplaysAreResults

Stages == {"idle", "approve", "digest", "claim", "lookup", "register", "claimed", "replay",
           "audit", "waiting", "answered", "refused"}

HandlerStages == {"none", "running", "settled", "completed", "done", "failed", "unaudited"}

-----------------------------------------------------------------------------
(* How a step changes the variables. *)

(* Call c becomes r, another state of the same request.                     *)
Becomes(c, r) ==
    /\ call' = [call EXCEPT ![c] = r]
    /\ r \in Requests
    /\ r.key = call[c].key /\ r.input = call[c].input /\ r.approval = call[c].approval

LEMMA BecomesOnly ==
    ASSUME TypeOK, NEW c \in Calls, NEW r, Becomes(c, r)
    PROVE  /\ call'[c] = r
           /\ \A d \in Calls \ {c} : call'[d] = call[d]
           /\ call' \in [Calls -> Requests]
           /\ \A d \in Calls : /\ call'[d].key = call[d].key
                               /\ call'[d].input = call[d].input
                               /\ call'[d].approval = call[d].approval
BY DEF TypeOK, Becomes

LEMMA GotoBecomes ==
    ASSUME TypeOK, NEW c \in Calls, NEW pc \in Stages, Goto(c, pc)
    PROVE  \E r : /\ Becomes(c, r)
                  /\ r.pc = pc /\ r.handler = call[c].handler /\ r.result = call[c].result
                  /\ r.spent = call[c].spent
<1> DEFINE r == [call[c] EXCEPT !.pc = pc]
<1>1. call[c] \in Requests
  BY DEF TypeOK
<1>2. /\ r \in Requests /\ r.key = call[c].key /\ r.input = call[c].input
      /\ r.approval = call[c].approval
      /\ r.pc = pc /\ r.handler = call[c].handler /\ r.result = call[c].result
      /\ r.spent = call[c].spent
  BY <1>1 DEF Requests, Stages
<1>3. call' = [call EXCEPT ![c] = r]
  BY DEF Goto
<1> HIDE DEF r
<1> QED BY <1>2, <1>3 DEF Becomes

LEMMA HandlerBecomes ==
    ASSUME TypeOK, NEW c \in Calls, NEW to \in HandlerStages, HandlerGoes(c, to)
    PROVE  \E r : /\ Becomes(c, r)
                  /\ r.pc = call[c].pc /\ r.handler = to /\ r.result = call[c].result
                  /\ r.spent = call[c].spent
<1> DEFINE r == [call[c] EXCEPT !.handler = to]
<1>1. call[c] \in Requests
  BY DEF TypeOK
<1>2. /\ r \in Requests /\ r.key = call[c].key /\ r.input = call[c].input
      /\ r.approval = call[c].approval
      /\ r.pc = call[c].pc /\ r.handler = to /\ r.result = call[c].result
      /\ r.spent = call[c].spent
  BY <1>1 DEF Requests, HandlerStages
<1>3. call' = [call EXCEPT ![c] = r]
  BY DEF HandlerGoes
<1> HIDE DEF r
<1> QED BY <1>2, <1>3 DEF Becomes

LEMMA BlankRecords == NoEntry \in Claimed /\ NoRecord \in Records
<1>1. (CHOOSE i \in Inputs : TRUE) \in Inputs
  BY GatewayAssumption
<1> QED BY <1>1 DEF NoEntry, NoRecord, Claimed, Records

(* Entries are changed by their owners.                                     *)
LEMMA SetEntryOnly ==
    ASSUME TypeOK, NEW c \in Calls, NEW value \in Claimed, SetEntry(c, value)
    PROVE  /\ entry' \in [Keys -> Claimed]
           /\ \A k \in Keys :
                 entry'[k] = IF k = call[c].key /\ entry[k].owner = c /\ entry[k].state = "pending"
                             THEN value ELSE entry[k]
BY DEF TypeOK, SetEntry, Owns

LEMMA PurgedTypes ==
    ASSUME TypeOK
    PROVE  /\ PurgedRecords \in [Approvals -> Records]
           /\ \A a \in Approvals :
                 approval[a].status # "held" => PurgedRecords[a] = approval[a]
BY BlankRecords DEF TypeOK, PurgedRecords

Finished == {"completed", "done", "unaudited"}

(* Calls stay the same requests.                                            *)
SameRequests ==
    \A c \in Calls : /\ call'[c].key = call[c].key
                     /\ call'[c].input = call[c].input
                     /\ call'[c].approval = call[c].approval

(* A step that lets no call use an approval.                                *)
LEMMA ApprovalsKept ==
    ASSUME GatewayInv, SameRequests,
           \A c \in Calls : /\ call'[c].spent = call[c].spent
                            /\ call'[c].pc = "digest" => call[c].pc = "digest",
           \A a \in Approvals : approval[a].status \in {"consuming", "used"}
               => approval'[a].status = approval[a].status
    PROVE  ApprovalSpentOnce' /\ ApprovalsHaveOneUser'
<1> USE DEF GatewayInv, SameRequests
<1>1. ApprovalSpentOnce'
  BY DEF ApprovalSpentOnce
<1>2. ApprovalsHaveOneUser'
  <2>1. \A c \in Calls : call[c].approval \in Approvals
    BY DEF TypeOK, Requests
  <2> QED BY <2>1 DEF ApprovalsHaveOneUser
<1> QED BY <1>1, <1>2

(* A step that claims, dispatches and forgets nothing.                      *)
LEMMA ClaimsKept ==
    ASSUME GatewayInv, SameRequests,
           UNCHANGED <<entry, dispatched, raced>>,
           \A c \in Calls : call'[c].pc \in {"claimed", "audit"} => call[c].pc \in {"claimed", "audit"}
    PROVE  OnceUnlessRaced' /\ ClaimsOwn'
<1> USE DEF GatewayInv, SameRequests
<1>1. \A k \in Keys : Undispatched(k)' \subseteq Undispatched(k)
  BY DEF Undispatched
<1>2. OnceUnlessRaced'
  BY DEF OnceUnlessRaced
<1>3. ClaimsOwn'
  BY <1>1 DEF ClaimsOwn
<1> QED BY <1>2, <1>3

(* A step that registers and replays nothing.                               *)
LEMMA EntriesKept ==
    ASSUME GatewayInv, TypeOK', SameRequests,
           \A c \in Calls :
               /\ call[c].handler \in Finished => call'[c].handler \in Finished
               /\ call'[c].result = call[c].result,
           \A k \in Keys :
               \/ entry'[k].state = "none" /\ entry'[k].owner = Nobody
               \/ /\ entry[k].state # "none" /\ entry'[k].state # "none"
                  /\ entry'[k].owner = entry[k].owner /\ entry'[k].input = entry[k].input
                  /\ entry'[k].state = "completed" =>
                        \/ entry[k].state = "completed"
                        \/ call'[entry[k].owner].handler \in Finished
    PROVE  EntriesAreOwned' /\ ReplaysAreResults'
<1> USE DEF GatewayInv, SameRequests, Finished
<1>1. EntriesAreOwned'
  BY DEF EntriesAreOwned
<1>2. ReplaysAreResults'
  <2>1. \A c \in Calls : call[c].result # Nobody => call[c].result \in Calls
    BY DEF TypeOK, Requests
  <2> QED BY <2>1 DEF ReplaysAreResults
<1> QED BY <1>1, <1>2

-----------------------------------------------------------------------------
(* Steps. *)

LEMMA InvInit == Init => GatewayInv
<1> SUFFICES ASSUME Init PROVE GatewayInv
  OBVIOUS
<1>1. \A c \in Calls : \E k \in Keys, i \in Inputs, a \in Approvals : call[c] = NewCall(k, i, a)
  BY DEF Init
<1>2. \A k \in Keys, i \in Inputs, a \in Approvals :
         /\ NewCall(k, i, a) \in Requests /\ NewCall(k, i, a).pc = "idle"
         /\ NewCall(k, i, a).handler = "none" /\ NewCall(k, i, a).result = Nobody
         /\ NewCall(k, i, a).spent = FALSE
  BY DEF NewCall, Requests
<1>3. \A c \in Calls : /\ call[c] \in Requests /\ call[c].pc = "idle" /\ call[c].handler = "none"
                       /\ call[c].result = Nobody /\ call[c].spent = FALSE
  BY <1>1, <1>2
<1>4. call \in [Calls -> Requests]
  BY <1>3 DEF Init
<1>5. TypeOK
  BY <1>4, BlankRecords DEF Init, TypeOK
<1>6. HandledWasDispatched /\ ApprovalSpentOnce /\ ApprovalsHaveOneUser /\ ReplaysAreResults
  BY <1>3 DEF HandledWasDispatched, ApprovalSpentOnce, ApprovalsHaveOneUser, ReplaysAreResults
<1>7. OnceUnlessRaced /\ ClaimsOwn
  BY <1>3 DEF Init, OnceUnlessRaced, ClaimsOwn, Undispatched
<1>8. EntriesAreOwned
  BY DEF Init, EntriesAreOwned, NoEntry
<1> QED BY <1>5, <1>6, <1>7, <1>8 DEF GatewayInv

(* A step of c that changes only how far it is, before or after its claim.  *)
LEMMA CallProceeds ==
    ASSUME GatewayInv, NEW c \in Calls, NEW pc \in Stages, Goto(c, pc),
           call[c].handler = "none" \/ pc \in {"waiting", "answered", "refused"},
           pc # "digest",
           pc \in {"claimed", "audit"} => call[c].pc \in {"claimed", "audit"},
           UNCHANGED <<entry, dispatched, raced>>,
           approval' \in [Approvals -> Records],
           active' \in Int,
           \A a \in Approvals : approval[a].status \in {"consuming", "used"}
               => approval'[a].status = approval[a].status
    PROVE  GatewayInv'
<1> USE DEF GatewayInv
<1>1. PICK r : /\ Becomes(c, r) /\ r.pc = pc /\ r.handler = call[c].handler
               /\ r.result = call[c].result /\ r.spent = call[c].spent
  BY GotoBecomes
<1>2. /\ call'[c] = r /\ \A d \in Calls \ {c} : call'[d] = call[d]
      /\ call' \in [Calls -> Requests] /\ SameRequests
  BY <1>1, BecomesOnly DEF SameRequests
<1>3. TypeOK'
  BY <1>2 DEF TypeOK
<1>4. HandledWasDispatched'
  BY <1>1, <1>2 DEF HandledWasDispatched
<1>5. ApprovalSpentOnce' /\ ApprovalsHaveOneUser'
  BY <1>1, <1>2, ApprovalsKept
<1>6. OnceUnlessRaced' /\ ClaimsOwn'
  BY <1>1, <1>2, ClaimsKept
<1>7. EntriesAreOwned' /\ ReplaysAreResults'
  <2>1. \A k \in Keys : \/ entry'[k].state = "none" /\ entry'[k].owner = Nobody
                        \/ entry[k].state # "none" /\ entry'[k] = entry[k]
    BY DEF EntriesAreOwned
  <2> QED BY <1>1, <1>2, <1>3, <2>1, EntriesKept
<1> QED BY <1>3, <1>4, <1>5, <1>6, <1>7

(* A step of the handler of c that changes at most the entry c owns.        *)
LEMMA HandlerProceeds ==
    ASSUME GatewayInv, NEW c \in Calls, NEW to \in HandlerStages, HandlerGoes(c, to),
           call[c].handler # "none",
           call[c].handler \in Finished => to \in Finished,
           \/ UNCHANGED entry
           \/ /\ SetEntry(c, [entry[call[c].key] EXCEPT !.state = "uncertain"])
           \/ /\ SetEntry(c, [entry[call[c].key] EXCEPT !.state = "completed"])
              /\ to \in Finished,
           UNCHANGED <<approval, dispatched, raced>>,
           active' \in Int
    PROVE  GatewayInv'
<1> USE DEF GatewayInv
<1>1. PICK r : /\ Becomes(c, r) /\ r.pc = call[c].pc /\ r.handler = to
               /\ r.result = call[c].result /\ r.spent = call[c].spent
  BY HandlerBecomes
<1>2. /\ call'[c] = r /\ \A d \in Calls \ {c} : call'[d] = call[d]
      /\ call' \in [Calls -> Requests] /\ SameRequests
  BY <1>1, BecomesOnly DEF SameRequests
<1>3. call[c].pc \in {"waiting", "answered", "refused"} /\ call[c].key \in Keys
  BY DEF HandledWasDispatched, TypeOK, Requests
<1>4. /\ entry' \in [Keys -> Claimed]
      /\ \A k \in Keys :
            \/ entry'[k] = entry[k]
            \/ /\ k = call[c].key /\ entry[k].owner = c /\ entry[k].state = "pending"
               /\ entry'[k].owner = c /\ entry'[k].input = entry[k].input
               /\ entry'[k].state \in {"uncertain", "completed"}
               /\ entry'[k].state = "completed" => to \in Finished
  <2> DEFINE e == entry[call[c].key]
  <2>1. e \in Claimed
    BY <1>3 DEF TypeOK
  <2>2. CASE UNCHANGED entry
    BY <2>2 DEF TypeOK
  <2>3. CASE SetEntry(c, [e EXCEPT !.state = "uncertain"])
    <3> DEFINE u == [e EXCEPT !.state = "uncertain"]
    <3>1. u \in Claimed /\ u.owner = e.owner /\ u.input = e.input /\ u.state = "uncertain"
      BY <2>1 DEF Claimed
    <3> HIDE DEF u
    <3>2. /\ entry' \in [Keys -> Claimed]
          /\ \A k \in Keys :
                entry'[k] = IF k = call[c].key /\ entry[k].owner = c /\ entry[k].state = "pending"
                            THEN u ELSE entry[k]
      BY <2>3, <3>1, SetEntryOnly DEF u
    <3> QED BY <3>1, <3>2
  <2>4. CASE SetEntry(c, [e EXCEPT !.state = "completed"]) /\ to \in Finished
    <3> DEFINE u == [e EXCEPT !.state = "completed"]
    <3>1. u \in Claimed /\ u.owner = e.owner /\ u.input = e.input /\ u.state = "completed"
      BY <2>1 DEF Claimed
    <3> HIDE DEF u
    <3>2. /\ entry' \in [Keys -> Claimed]
          /\ \A k \in Keys :
                entry'[k] = IF k = call[c].key /\ entry[k].owner = c /\ entry[k].state = "pending"
                            THEN u ELSE entry[k]
      BY <2>4, <3>1, SetEntryOnly DEF u
    <3> QED BY <2>4, <3>1, <3>2
  <2> QED BY <2>2, <2>3, <2>4
<1>5. TypeOK'
  BY <1>2, <1>4 DEF TypeOK
<1>6. HandledWasDispatched'
  BY <1>1, <1>2, <1>3 DEF HandledWasDispatched
<1>7. ApprovalSpentOnce' /\ ApprovalsHaveOneUser'
  BY <1>1, <1>2, ApprovalsKept
<1>8. OnceUnlessRaced'
  BY DEF OnceUnlessRaced
<1>9. ClaimsOwn'
  <2> SUFFICES ASSUME NEW k \in Keys, ~raced[k]
               PROVE  /\ \A d \in Undispatched(k)' :
                            /\ entry'[k].owner = d /\ entry'[k].state = "pending"
                            /\ dispatched[k] = {}
                      /\ entry'[k].state = "none" => dispatched[k] = {}
    BY DEF ClaimsOwn
  <2>1. Undispatched(k)' = Undispatched(k)
    BY <1>1, <1>2, <1>3 DEF Undispatched, SameRequests
  <2>2. c \notin Undispatched(k)
    BY <1>3 DEF Undispatched
  <2> QED BY <1>4, <2>1, <2>2 DEF ClaimsOwn
<1>10. EntriesAreOwned' /\ ReplaysAreResults'
  <2>1. \A k \in Keys :
           \/ entry'[k].state = "none" /\ entry'[k].owner = Nobody
           \/ /\ entry[k].state # "none" /\ entry'[k].state # "none"
              /\ entry'[k].owner = entry[k].owner /\ entry'[k].input = entry[k].input
              /\ entry'[k].state = "completed" =>
                    \/ entry[k].state = "completed"
                    \/ call'[entry[k].owner].handler \in Finished
    BY <1>1, <1>2, <1>4 DEF EntriesAreOwned
  <2>2. \A d \in Calls : /\ call[d].handler \in Finished => call'[d].handler \in Finished
                         /\ call'[d].result = call[d].result
    BY <1>1, <1>2
  <2> QED BY <1>2, <1>5, <2>1, <2>2, EntriesKept
<1> QED BY <1>5, <1>6, <1>7, <1>8, <1>9, <1>10

LEMMA ApprovalStep ==
    ASSUME GatewayInv, NEW c \in Calls, Evaluate(c) \/ Consume(c)
    PROVE  GatewayInv'
<1> USE DEF GatewayInv
<1> DEFINE a == call[c].approval
<1>1. call[c] \in Requests /\ a \in Approvals /\ active \in Int /\ active - 1 \in Int
  BY DEF TypeOK, Requests
<1>2. /\ PurgedRecords \in [Approvals -> Records]
      /\ \A b \in Approvals : approval[b].status # "held" => PurgedRecords[b] = approval[b]
  BY PurgedTypes
<1>3. call[c].handler = "none" \/ call[c].pc \in {"waiting", "answered", "refused"}
  BY DEF HandledWasDispatched
<1>4. CASE Evaluate(c) /\ ~Available(a)
  <2>1. approval' = PurgedRecords /\ Goto(c, "refused") /\ active' = active - 1
        /\ UNCHANGED <<entry, dispatched, raced>>
    BY <1>4 DEF Evaluate, Refuse, Release
  <2> QED BY <1>1, <1>2, <2>1, CallProceeds DEF Stages
<1>5. CASE Evaluate(c) /\ Available(a)
  <2>1. /\ approval' = [PurgedRecords EXCEPT ![a].status = "consuming"] /\ Goto(c, "digest")
        /\ UNCHANGED <<entry, active, dispatched, raced>> /\ call[c].pc = "approve"
        /\ PurgedRecords[a].status = "held"
    BY <1>5 DEF Evaluate, Available
  <2>2. PICK r : /\ Becomes(c, r) /\ r.pc = "digest" /\ r.handler = call[c].handler
                 /\ r.result = call[c].result /\ r.spent = call[c].spent
    BY <2>1, GotoBecomes DEF Stages
  <2>3. /\ call'[c] = r /\ \A d \in Calls \ {c} : call'[d] = call[d]
        /\ call' \in [Calls -> Requests] /\ SameRequests
    BY <2>2, BecomesOnly DEF SameRequests
  <2>4. /\ [PurgedRecords[a] EXCEPT !.status = "consuming"] \in Records
        /\ [PurgedRecords[a] EXCEPT !.status = "consuming"].status = "consuming"
    BY <1>1, <1>2 DEF Records
  <2>5. /\ approval' \in [Approvals -> Records] /\ approval'[a].status = "consuming"
        /\ \A b \in Approvals \ {a} : approval'[b] = PurgedRecords[b]
    BY <1>1, <1>2, <2>1, <2>4
  <2>6. TypeOK'
    BY <2>1, <2>3, <2>5 DEF TypeOK
  <2>7. approval[a].status = "held"
    BY <1>1, <1>2, <2>1 DEF PurgedRecords, NoRecord
  <2>8. /\ \A d \in Calls : call[d].approval = a => call[d].pc # "digest" /\ ~call[d].spent
        /\ ~call[c].spent
    BY <2>7 DEF ApprovalsHaveOneUser
  <2>9. ApprovalSpentOnce'
    BY <2>2, <2>3 DEF ApprovalSpentOnce, SameRequests
  <2>10. ApprovalsHaveOneUser'
    <3> SUFFICES ASSUME NEW d \in Calls
                 PROVE  /\ call'[d].pc = "digest" =>
                              /\ approval'[call'[d].approval].status = "consuming"
                              /\ \A x \in Calls : call'[x].pc = "digest" /\ call'[x].approval = call'[d].approval
                                    => x = d
                        /\ call'[d].spent => approval'[call'[d].approval].status = "used"
      BY DEF ApprovalsHaveOneUser
    <3>1. call[d].approval \in Approvals /\ call'[d].approval = call[d].approval
      BY <2>3 DEF TypeOK, Requests, SameRequests
    <3>2. CASE d = c
      BY <2>2, <2>3, <2>5, <2>8, <3>1, <3>2 DEF SameRequests
    <3>3. CASE d # c
      <4>1. call'[d] = call[d]
        BY <2>3, <3>3
      <4>2. call[d].pc = "digest" \/ call[d].spent
               => call[d].approval # a /\ approval'[call[d].approval] = approval[call[d].approval]
        BY <1>2, <2>5, <2>8, <3>1 DEF ApprovalsHaveOneUser
      <4> QED BY <2>3, <3>1, <4>1, <4>2 DEF ApprovalsHaveOneUser, SameRequests
    <3> QED BY <3>2, <3>3
  <2>11. OnceUnlessRaced' /\ ClaimsOwn'
    BY <2>1, <2>2, <2>3, ClaimsKept
  <2>12. EntriesAreOwned' /\ ReplaysAreResults'
    <3>1. \A k \in Keys : \/ entry'[k].state = "none" /\ entry'[k].owner = Nobody
                          \/ entry[k].state # "none" /\ entry'[k] = entry[k]
      BY <2>1 DEF EntriesAreOwned
    <3> QED BY <2>2, <2>3, <2>6, <3>1, EntriesKept
  <2>13. HandledWasDispatched'
    BY <1>3, <2>1, <2>2, <2>3 DEF HandledWasDispatched
  <2> QED BY <2>6, <2>9, <2>10, <2>11, <2>12, <2>13
<1>6. CASE Consume(c)
  <2> DEFINE status == IF approval[a].input = call[c].input THEN "used" ELSE "held"
             r == [call[c] EXCEPT !.pc = IF approval[a].input = call[c].input THEN "claim" ELSE "refused",
                                  !.spent = IF approval[a].input = call[c].input THEN TRUE ELSE @]
  <2>1. /\ approval' = [approval EXCEPT ![a].status = status]
        /\ call' = [call EXCEPT ![c] = r]
        /\ active' \in Int
        /\ UNCHANGED <<entry, dispatched, raced>> /\ call[c].pc = "digest"
    <3>1. CASE approval[a].input = call[c].input
      BY <1>1, <1>6, <3>1 DEF Consume, TypeOK, Requests
    <3>2. CASE approval[a].input # call[c].input
      BY <1>1, <1>6, <3>2 DEF Consume, TypeOK, Requests, Refuse, Release, Goto
    <3> QED BY <3>1, <3>2
  <2>2. /\ r \in Requests /\ r.key = call[c].key /\ r.input = call[c].input
        /\ r.approval = a /\ r.pc \in {"claim", "refused"} /\ r.handler = call[c].handler
        /\ r.result = call[c].result
    BY <1>1 DEF Requests
  <2>3. r.spent => call[c].spent \/ status = "used"
    BY <1>1 DEF Requests
  <2>4. [approval[a] EXCEPT !.status = status] \in Records
        /\ [approval[a] EXCEPT !.status = status].status = status
    BY <1>1 DEF TypeOK, Records
  <2> HIDE DEF r, status
  <2>5. /\ approval' \in [Approvals -> Records] /\ approval'[a].status = status
        /\ \A b \in Approvals \ {a} : approval'[b] = approval[b]
    BY <1>1, <2>1, <2>4 DEF TypeOK
  <2>6. /\ call'[c] = r /\ \A d \in Calls \ {c} : call'[d] = call[d]
        /\ call' \in [Calls -> Requests] /\ SameRequests
    <3>1. Becomes(c, r)
      BY <2>1, <2>2 DEF Becomes
    <3> QED BY <3>1, BecomesOnly DEF SameRequests
  <2>7. TypeOK'
    BY <2>1, <2>5, <2>6 DEF TypeOK
  <2>8. /\ \A d \in Calls \ {c} : call[d].approval = a => call[d].pc # "digest" /\ ~call[d].spent
        /\ ~call[c].spent
    BY <2>1 DEF ApprovalsHaveOneUser
  <2>9. ApprovalSpentOnce'
    BY <2>2, <2>6, <2>8 DEF ApprovalSpentOnce, SameRequests
  <2>10. ApprovalsHaveOneUser'
    <3> SUFFICES ASSUME NEW d \in Calls
                 PROVE  /\ call'[d].pc = "digest" =>
                              /\ approval'[call'[d].approval].status = "consuming"
                              /\ \A x \in Calls : call'[x].pc = "digest" /\ call'[x].approval = call'[d].approval
                                    => x = d
                        /\ call'[d].spent => approval'[call'[d].approval].status = "used"
      BY DEF ApprovalsHaveOneUser
    <3>1. call[d].approval \in Approvals /\ call'[d].approval = call[d].approval
      BY <2>6 DEF TypeOK, Requests, SameRequests
    <3>2. CASE d = c
      BY <2>2, <2>3, <2>5, <2>6, <2>8, <3>1, <3>2
    <3>3. CASE d # c
      <4>1. call'[d] = call[d]
        BY <2>6, <3>3
      <4>2. call[d].pc = "digest" \/ call[d].spent
               => call[d].approval # a /\ approval'[call[d].approval] = approval[call[d].approval]
        BY <2>5, <2>8, <3>1, <3>3
      <4> QED BY <2>2, <2>6, <3>1, <4>1, <4>2 DEF ApprovalsHaveOneUser, SameRequests
    <3> QED BY <3>2, <3>3
  <2>11. OnceUnlessRaced' /\ ClaimsOwn'
    BY <2>1, <2>2, <2>6, ClaimsKept
  <2>12. EntriesAreOwned' /\ ReplaysAreResults'
    <3>1. \A k \in Keys : \/ entry'[k].state = "none" /\ entry'[k].owner = Nobody
                          \/ entry[k].state # "none" /\ entry'[k] = entry[k]
      BY <2>1 DEF EntriesAreOwned
    <3> QED BY <2>2, <2>6, <2>7, <3>1, EntriesKept
  <2>13. HandledWasDispatched'
    BY <1>3, <2>1, <2>2, <2>6 DEF HandledWasDispatched
  <2> QED BY <2>7, <2>9, <2>10, <2>11, <2>12, <2>13
<1> QED BY <1>4, <1>5, <1>6

(* A step that drops at most the entry c owns and lets c go no further.     *)
LEMMA CallDrops ==
    ASSUME GatewayInv, NEW c \in Calls, call[c].pc \in {"claimed", "audit"},
           Drop(c), Refuse(c), UNCHANGED <<approval, dispatched, raced>>
    PROVE  GatewayInv'
<1> USE DEF GatewayInv
<1>1. PICK r : /\ Becomes(c, r) /\ r.pc = "refused" /\ r.handler = call[c].handler
               /\ r.result = call[c].result /\ r.spent = call[c].spent
  BY GotoBecomes DEF Refuse, Stages
<1>2. /\ call'[c] = r /\ \A d \in Calls \ {c} : call'[d] = call[d]
      /\ call' \in [Calls -> Requests] /\ SameRequests
  BY <1>1, BecomesOnly DEF SameRequests
<1>3. /\ entry' \in [Keys -> Claimed]
      /\ \A k \in Keys :
            entry'[k] = IF k = call[c].key /\ entry[k].owner = c /\ entry[k].state = "pending"
                        THEN NoEntry ELSE entry[k]
  BY BlankRecords, SetEntryOnly DEF Drop
<1>4. TypeOK'
  BY <1>2, <1>3 DEF TypeOK, Refuse, Release
<1>5. HandledWasDispatched'
  BY <1>1, <1>2 DEF HandledWasDispatched
<1>6. ApprovalSpentOnce' /\ ApprovalsHaveOneUser'
  BY <1>1, <1>2, ApprovalsKept
<1>7. OnceUnlessRaced'
  BY DEF OnceUnlessRaced
<1>8. ClaimsOwn'
  <2> SUFFICES ASSUME NEW k \in Keys, ~raced[k]
               PROVE  /\ \A d \in Undispatched(k)' :
                            /\ entry'[k].owner = d /\ entry'[k].state = "pending"
                            /\ dispatched[k] = {}
                      /\ entry'[k].state = "none" => dispatched[k] = {}
    BY DEF ClaimsOwn
  <2>1. Undispatched(k)' = Undispatched(k) \ {c}
    BY <1>1, <1>2 DEF Undispatched, SameRequests
  <2>2. CASE entry'[k] = entry[k]
    BY <2>1, <2>2 DEF ClaimsOwn
  <2>3. CASE k = call[c].key /\ entry[k].owner = c /\ entry[k].state = "pending"
    <3>1. c \in Undispatched(k)
      BY <2>3 DEF Undispatched
    <3>2. dispatched[k] = {} /\ \A d \in Undispatched(k) : d = c
      BY <2>3, <3>1 DEF ClaimsOwn
    <3> QED BY <2>1, <3>2
  <2> QED BY <1>3, <2>2, <2>3
<1>9. EntriesAreOwned' /\ ReplaysAreResults'
  <2>1. NoEntry.state = "none" /\ NoEntry.owner = Nobody
    BY DEF NoEntry
  <2>2. \A k \in Keys :
           \/ entry'[k].state = "none" /\ entry'[k].owner = Nobody
           \/ entry[k].state # "none" /\ entry'[k] = entry[k]
    BY <1>3, <2>1 DEF EntriesAreOwned
  <2>3. \A d \in Calls : /\ call[d].handler \in Finished => call'[d].handler \in Finished
                         /\ call'[d].result = call[d].result
    BY <1>1, <1>2
  <2> QED BY <1>2, <1>4, <2>2, <2>3, EntriesKept
<1> QED BY <1>4, <1>5, <1>6, <1>7, <1>8, <1>9

LEMMA PurgeStep ==
    ASSUME GatewayInv, NEW c \in Calls, Purge(c)
    PROVE  GatewayInv'
<1> USE DEF GatewayInv
<1> DEFINE gone == {k \in Keys : entry[k].state # "pending" /\ entry[k].expired}
<1>1. PICK r : /\ Becomes(c, r) /\ r.pc = "lookup" /\ r.handler = call[c].handler
               /\ r.result = call[c].result /\ r.spent = call[c].spent
  BY GotoBecomes DEF Purge, Stages
<1>2. /\ call'[c] = r /\ \A d \in Calls \ {c} : call'[d] = call[d]
      /\ call' \in [Calls -> Requests] /\ SameRequests
  BY <1>1, BecomesOnly DEF SameRequests
<1>3. /\ entry' = [k \in Keys |-> IF k \in gone THEN NoEntry ELSE entry[k]]
      /\ dispatched' = [k \in Keys |-> IF k \in gone THEN {} ELSE dispatched[k]]
      /\ raced' = [k \in Keys |-> raced[k] /\ (k \in gone => Undispatched(k) # {})]
      /\ UNCHANGED <<approval, active>> /\ call[c].pc = "claim"
  BY DEF Purge
<1>4. TypeOK'
  BY <1>2, <1>3, BlankRecords DEF TypeOK
<1>5. HandledWasDispatched'
  BY <1>1, <1>2, <1>3 DEF HandledWasDispatched
<1>6. ApprovalSpentOnce' /\ ApprovalsHaveOneUser'
  BY <1>1, <1>2, <1>3, ApprovalsKept
<1>7. \A k \in Keys : ~raced'[k] => ~raced[k] \/ (k \in gone /\ Undispatched(k) = {})
  BY <1>3
<1>8. OnceUnlessRaced'
  BY <1>3, <1>7 DEF OnceUnlessRaced
<1>9. ClaimsOwn'
  <2> SUFFICES ASSUME NEW k \in Keys, ~raced'[k]
               PROVE  /\ \A d \in Undispatched(k)' :
                            /\ entry'[k].owner = d /\ entry'[k].state = "pending"
                            /\ dispatched'[k] = {}
                      /\ entry'[k].state = "none" => dispatched'[k] = {}
    BY DEF ClaimsOwn
  <2>1. Undispatched(k)' = Undispatched(k)
    BY <1>1, <1>2, <1>3 DEF Undispatched, SameRequests
  <2>2. CASE k \in gone
    <3>1. Undispatched(k) = {}
      BY <1>7, <2>2 DEF ClaimsOwn
    <3> QED BY <1>3, <2>1, <2>2, <3>1
  <2>3. CASE k \notin gone
    BY <1>3, <1>7, <2>1, <2>3 DEF ClaimsOwn
  <2> QED BY <2>2, <2>3
<1>10. EntriesAreOwned' /\ ReplaysAreResults'
  <2>1. NoEntry.state = "none" /\ NoEntry.owner = Nobody
    BY DEF NoEntry
  <2>2. \A k \in Keys :
           \/ entry'[k].state = "none" /\ entry'[k].owner = Nobody
           \/ entry[k].state # "none" /\ entry'[k] = entry[k]
    BY <1>3, <2>1 DEF EntriesAreOwned
  <2>3. \A d \in Calls : /\ call[d].handler \in Finished => call'[d].handler \in Finished
                         /\ call'[d].result = call[d].result
    BY <1>1, <1>2
  <2> QED BY <1>2, <1>4, <2>2, <2>3, EntriesKept
<1> QED BY <1>4, <1>5, <1>6, <1>8, <1>9, <1>10

LEMMA LookupStep ==
    ASSUME GatewayInv, NEW c \in Calls, Lookup(c)
    PROVE  GatewayInv'
<1> USE DEF GatewayInv
<1> DEFINE e == entry[call[c].key]
<1>1. call[c] \in Requests /\ call[c].key \in Keys /\ active - 1 \in Int /\ call[c].pc = "lookup"
      /\ e \in Claimed
  BY DEF TypeOK, Requests, Lookup
<1>2. call[c].handler = "none"
  BY <1>1 DEF HandledWasDispatched
<1>3. CASE Refuse(c)
  <2>1. UNCHANGED <<entry, approval, dispatched, raced>> /\ active' = active - 1
        /\ Goto(c, "refused")
    BY <1>3 DEF Lookup, Refuse, Release
  <2> QED BY <1>1, <1>2, <2>1, CallProceeds DEF Stages, TypeOK
<1>4. CASE ~Refuse(c)
  <2> DEFINE r == [call[c] EXCEPT !.pc = IF e.state = "none" THEN "register" ELSE "replay",
                                  !.result = e.owner]
  <2>1. /\ call' = [call EXCEPT ![c] = r] /\ ~LookupFails(c)
        /\ UNCHANGED <<entry, approval, active, dispatched, raced>>
    BY <1>1, <1>4 DEF Lookup, TypeOK, Requests
  <2>2. /\ r \in Requests /\ r.key = call[c].key /\ r.input = call[c].input
        /\ r.approval = call[c].approval /\ r.pc \in {"register", "replay"}
        /\ r.handler = call[c].handler /\ r.result = e.owner /\ r.spent = call[c].spent
    BY <1>1 DEF Requests, Claimed
  <2> HIDE DEF r
  <2>3. /\ call'[c] = r /\ \A d \in Calls \ {c} : call'[d] = call[d]
        /\ call' \in [Calls -> Requests] /\ SameRequests
    <3>1. Becomes(c, r)
      BY <2>1, <2>2 DEF Becomes
    <3> QED BY <3>1, BecomesOnly DEF SameRequests
  <2>4. TypeOK'
    BY <2>1, <2>3 DEF TypeOK
  <2>5. HandledWasDispatched'
    BY <1>2, <2>2, <2>3 DEF HandledWasDispatched
  <2>6. ApprovalSpentOnce' /\ ApprovalsHaveOneUser'
    BY <2>1, <2>2, <2>3, ApprovalsKept
  <2>7. OnceUnlessRaced' /\ ClaimsOwn'
    BY <2>1, <2>2, <2>3, ClaimsKept
  <2>8. EntriesAreOwned'
    BY <2>1, <2>2, <2>3 DEF EntriesAreOwned, SameRequests
  <2>9. ReplaysAreResults'
    <3> SUFFICES ASSUME NEW d \in Calls, call'[d].result # Nobody
                 PROVE  /\ call'[call'[d].result].key = call'[d].key
                        /\ call'[call'[d].result].input = call'[d].input
                        /\ call'[call'[d].result].handler \in Finished
      BY DEF ReplaysAreResults, Finished
    <3>1. CASE d = c
      <4>1. call'[d].result = e.owner
        BY <2>2, <2>3, <3>1
      <4>2. e.state # "none"
        BY <1>1, <4>1 DEF EntriesAreOwned
      <4>3. e.state = "completed" /\ e.input = call[c].input
        BY <2>1, <4>2 DEF LookupFails
      <4>4. /\ e.owner \in Calls /\ call[e.owner].key = call[c].key
            /\ call[e.owner].input = call[c].input /\ call[e.owner].handler \in Finished
        BY <1>1, <4>3 DEF EntriesAreOwned, Finished
      <4>5. call'[e.owner].handler = call[e.owner].handler
        BY <2>2, <2>3, <4>4
      <4> QED BY <2>3, <3>1, <4>1, <4>4, <4>5 DEF SameRequests
    <3>2. CASE d # c
      <4>1. call'[d] = call[d] /\ call[d].result \in Calls
        BY <2>3, <3>2 DEF TypeOK, Requests
      <4>2. /\ call[call[d].result].key = call[d].key
            /\ call[call[d].result].input = call[d].input
            /\ call[call[d].result].handler \in Finished
        BY <4>1 DEF ReplaysAreResults, Finished
      <4>3. call'[call[d].result].handler = call[call[d].result].handler
        BY <2>2, <2>3, <4>1
      <4> QED BY <2>3, <4>1, <4>2, <4>3 DEF SameRequests
    <3> QED BY <3>1, <3>2
  <2> QED BY <2>4, <2>5, <2>6, <2>7, <2>8, <2>9
<1> QED BY <1>3, <1>4

LEMMA RegisterStep ==
    ASSUME GatewayInv, NEW c \in Calls, Register(c)
    PROVE  GatewayInv'
<1> USE DEF GatewayInv
<1> DEFINE key == call[c].key
           e == [owner |-> c, state |-> "pending", input |-> call[c].input, expired |-> FALSE]
<1>1. PICK r : /\ Becomes(c, r) /\ r.pc = "claimed" /\ r.handler = call[c].handler
               /\ r.result = call[c].result /\ r.spent = call[c].spent
  BY GotoBecomes DEF Register, Stages
<1>2. /\ call'[c] = r /\ \A d \in Calls \ {c} : call'[d] = call[d]
      /\ call' \in [Calls -> Requests] /\ SameRequests
  BY <1>1, BecomesOnly DEF SameRequests
<1>3. /\ entry' = [entry EXCEPT ![key] = e]
      /\ raced' = [raced EXCEPT ![key] = @ \/ entry[key].state # "none"]
      /\ UNCHANGED <<approval, active, dispatched>> /\ call[c].pc = "register"
  BY DEF Register
<1>4. key \in Keys /\ e \in Claimed
  BY DEF TypeOK, Requests, Claimed
<1>5. /\ entry'[key] = e /\ \A k \in Keys \ {key} : entry'[k] = entry[k] /\ raced'[k] = raced[k]
      /\ ~raced'[key] => ~raced[key] /\ entry[key].state = "none"
      /\ entry' \in [Keys -> Claimed] /\ raced' \in [Keys -> BOOLEAN]
  BY <1>3, <1>4 DEF TypeOK
<1>6. TypeOK'
  BY <1>2, <1>3, <1>5 DEF TypeOK
<1>7. HandledWasDispatched'
  BY <1>1, <1>2, <1>3 DEF HandledWasDispatched
<1>8. ApprovalSpentOnce' /\ ApprovalsHaveOneUser'
  BY <1>1, <1>2, <1>3, ApprovalsKept
<1>9. OnceUnlessRaced'
  BY <1>3, <1>4, <1>5 DEF OnceUnlessRaced
<1>10. ClaimsOwn'
  <2> SUFFICES ASSUME NEW k \in Keys, ~raced'[k]
               PROVE  /\ \A d \in Undispatched(k)' :
                            /\ entry'[k].owner = d /\ entry'[k].state = "pending"
                            /\ dispatched'[k] = {}
                      /\ entry'[k].state = "none" => dispatched'[k] = {}
    BY DEF ClaimsOwn
  <2>1. CASE k = key
    <3>1. ~raced[k] /\ entry[k].state = "none"
      BY <1>5, <2>1
    <3>2. Undispatched(k) = {} /\ dispatched[k] = {}
      BY <3>1 DEF ClaimsOwn
    <3>3. Undispatched(k)' \subseteq {c}
      BY <1>1, <1>2, <3>2 DEF Undispatched, SameRequests
    <3> QED BY <1>3, <1>5, <2>1, <3>2, <3>3
  <2>2. CASE k # key
    <3>1. Undispatched(k)' = Undispatched(k)
      BY <1>1, <1>2, <2>2 DEF Undispatched, SameRequests
    <3> QED BY <1>3, <1>5, <2>2, <3>1 DEF ClaimsOwn
  <2> QED BY <2>1, <2>2
<1>11. EntriesAreOwned'
  <2>1. ASSUME NEW k \in Keys, k # key
        PROVE  /\ entry'[k] = entry[k]
               /\ entry[k].state = "completed" => call'[entry[k].owner].handler = call[entry[k].owner].handler
    BY <1>1, <1>2, <1>5, <2>1 DEF EntriesAreOwned
  <2> QED BY <1>2, <1>5, <2>1 DEF EntriesAreOwned, SameRequests
<1>12. ReplaysAreResults'
  <2>1. \A d \in Calls : call'[d].handler = call[d].handler /\ call'[d].result = call[d].result
    BY <1>1, <1>2
  <2>2. \A d \in Calls : call[d].result # Nobody => call[d].result \in Calls
    BY DEF TypeOK, Requests
  <2> QED BY <1>2, <2>1, <2>2 DEF ReplaysAreResults, SameRequests
<1> QED BY <1>6, <1>7, <1>8, <1>9, <1>10, <1>11, <1>12

LEMMA DispatchStep ==
    ASSUME GatewayInv, NEW c \in Calls, Dispatch(c)
    PROVE  GatewayInv'
<1> USE DEF GatewayInv
<1> DEFINE key == call[c].key
           r == [call[c] EXCEPT !.pc = "waiting", !.handler = "running"]
<1>1. call[c] \in Requests /\ key \in Keys /\ call[c].pc = "audit" /\ call[c].handler = "none"
  BY DEF TypeOK, Requests, Dispatch, HandledWasDispatched
<1>2. /\ call' = [call EXCEPT ![c] = r]
      /\ dispatched' = [dispatched EXCEPT ![key] = @ \cup {c}]
      /\ UNCHANGED <<entry, approval, active, raced>>
  BY <1>1 DEF Dispatch, TypeOK, Requests
<1>3. /\ r \in Requests /\ r.key = key /\ r.input = call[c].input /\ r.approval = call[c].approval
      /\ r.pc = "waiting" /\ r.handler = "running" /\ r.result = call[c].result
      /\ r.spent = call[c].spent
  BY <1>1 DEF Requests
<1> HIDE DEF r
<1>4. /\ call'[c] = r /\ \A d \in Calls \ {c} : call'[d] = call[d]
      /\ call' \in [Calls -> Requests] /\ SameRequests
  <2>1. Becomes(c, r)
    BY <1>2, <1>3 DEF Becomes
  <2> QED BY <2>1, BecomesOnly DEF SameRequests
<1>5. /\ dispatched' \in [Keys -> SUBSET Calls] /\ dispatched'[key] = dispatched[key] \cup {c}
      /\ \A k \in Keys \ {key} : dispatched'[k] = dispatched[k]
  BY <1>1, <1>2 DEF TypeOK
<1>6. TypeOK'
  BY <1>2, <1>4, <1>5 DEF TypeOK
<1>7. HandledWasDispatched'
  BY <1>3, <1>4 DEF HandledWasDispatched
<1>8. ApprovalSpentOnce' /\ ApprovalsHaveOneUser'
  BY <1>2, <1>3, <1>4, ApprovalsKept
<1>9. ~raced[key] => /\ dispatched[key] = {} /\ entry[key].state = "pending"
                     /\ \A d \in Undispatched(key) : d = c
  <2>1. c \in Undispatched(key)
    BY <1>1 DEF Undispatched
  <2> QED BY <1>1, <2>1 DEF ClaimsOwn
<1>10. OnceUnlessRaced'
  <2> SUFFICES ASSUME NEW k \in Keys, ~raced[k] PROVE \A x, y \in dispatched'[k] : x = y
    BY <1>2 DEF OnceUnlessRaced
  <2>1. CASE k = key
    BY <1>5, <1>9, <2>1
  <2>2. CASE k # key
    BY <1>5, <2>2 DEF OnceUnlessRaced
  <2> QED BY <2>1, <2>2
<1>11. ClaimsOwn'
  <2> SUFFICES ASSUME NEW k \in Keys, ~raced[k]
               PROVE  /\ \A d \in Undispatched(k)' :
                            /\ entry[k].owner = d /\ entry[k].state = "pending"
                            /\ dispatched'[k] = {}
                      /\ entry[k].state = "none" => dispatched'[k] = {}
    BY <1>2 DEF ClaimsOwn
  <2>1. Undispatched(k)' = Undispatched(k) \ {c}
    BY <1>3, <1>4 DEF Undispatched, SameRequests
  <2>2. CASE k = key
    BY <1>9, <2>1, <2>2
  <2>3. CASE k # key
    BY <1>5, <2>1, <2>3 DEF ClaimsOwn
  <2> QED BY <2>2, <2>3
<1>12. EntriesAreOwned' /\ ReplaysAreResults'
  <2>1. \A k \in Keys : \/ entry'[k].state = "none" /\ entry'[k].owner = Nobody
                        \/ entry[k].state # "none" /\ entry'[k] = entry[k]
    BY <1>2 DEF EntriesAreOwned
  <2>2. \A d \in Calls : /\ call[d].handler \in Finished => call'[d].handler \in Finished
                         /\ call'[d].result = call[d].result
    BY <1>1, <1>3, <1>4 DEF Finished
  <2> QED BY <1>4, <1>6, <2>1, <2>2, EntriesKept
<1> QED BY <1>6, <1>7, <1>8, <1>10, <1>11, <1>12

LEMMA AbortStep ==
    ASSUME GatewayInv, NEW c \in Calls, Abort(c)
    PROVE  GatewayInv'
<1> USE DEF GatewayInv
<1> DEFINE r == [call[c] EXCEPT !.aborted = TRUE]
<1>1. call[c] \in Requests
  BY DEF TypeOK
<1>2. call' = [call EXCEPT ![c] = r] /\ UNCHANGED <<entry, approval, active, dispatched, raced>>
  BY DEF Abort
<1>3. /\ r \in Requests /\ r.key = call[c].key /\ r.input = call[c].input
      /\ r.approval = call[c].approval /\ r.pc = call[c].pc /\ r.handler = call[c].handler
      /\ r.result = call[c].result /\ r.spent = call[c].spent
  BY <1>1 DEF Requests
<1> HIDE DEF r
<1>4. /\ call'[c] = r /\ \A d \in Calls \ {c} : call'[d] = call[d]
      /\ call' \in [Calls -> Requests] /\ SameRequests
  <2>1. Becomes(c, r)
    BY <1>2, <1>3 DEF Becomes
  <2> QED BY <2>1, BecomesOnly DEF SameRequests
<1>5. TypeOK'
  BY <1>2, <1>4 DEF TypeOK
<1>6. HandledWasDispatched'
  BY <1>3, <1>4 DEF HandledWasDispatched
<1>7. ApprovalSpentOnce' /\ ApprovalsHaveOneUser'
  BY <1>2, <1>3, <1>4, ApprovalsKept
<1>8. OnceUnlessRaced' /\ ClaimsOwn'
  BY <1>2, <1>3, <1>4, ClaimsKept
<1>9. EntriesAreOwned' /\ ReplaysAreResults'
  <2>1. \A k \in Keys : \/ entry'[k].state = "none" /\ entry'[k].owner = Nobody
                        \/ entry[k].state # "none" /\ entry'[k] = entry[k]
    BY <1>2 DEF EntriesAreOwned
  <2> QED BY <1>3, <1>4, <1>5, <2>1, EntriesKept
<1> QED BY <1>5, <1>6, <1>7, <1>8, <1>9

(* A step that leaves the calls alone.                                      *)
LEMMA OthersStep ==
    ASSUME GatewayInv, UNCHANGED <<call, dispatched, raced>>,
           approval' \in [Approvals -> Records], active' \in Int,
           \A a \in Approvals : approval[a].status \in {"consuming", "used"}
               => approval'[a].status = approval[a].status,
           entry' \in [Keys -> Claimed],
           \A k \in Keys : /\ entry'[k].owner = entry[k].owner
                           /\ entry'[k].state = entry[k].state
                           /\ entry'[k].input = entry[k].input
    PROVE  GatewayInv'
<1> USE DEF GatewayInv
<1>1. TypeOK'
  BY DEF TypeOK
<1>2. SameRequests
  BY DEF SameRequests
<1>3. HandledWasDispatched' /\ OnceUnlessRaced'
  BY DEF HandledWasDispatched, OnceUnlessRaced
<1>4. ApprovalSpentOnce' /\ ApprovalsHaveOneUser'
  BY <1>2, ApprovalsKept
<1>5. ClaimsOwn'
  <2>1. \A k \in Keys : Undispatched(k)' = Undispatched(k)
    BY DEF Undispatched
  <2> QED BY <2>1 DEF ClaimsOwn
<1>6. EntriesAreOwned' /\ ReplaysAreResults'
  BY DEF EntriesAreOwned, ReplaysAreResults
<1> QED BY <1>1, <1>3, <1>4, <1>5, <1>6

LEMMA InvStep == GatewayInv /\ [Next]_vars => GatewayInv'
<1> SUFFICES ASSUME GatewayInv, [Next]_vars PROVE GatewayInv'
  OBVIOUS
<1> USE DEF GatewayInv
<1>1. /\ approval \in [Approvals -> Records] /\ entry \in [Keys -> Claimed]
      /\ active \in Int /\ active + 1 \in Int /\ active - 1 \in Int
  BY DEF TypeOK
<1>2. ASSUME NEW c \in Calls, Admit(c) PROVE GatewayInv'
  <2>1. PICK pc \in {"approve", "refused"} : Goto(c, pc)
    BY <1>2 DEF Admit
  <2>2. active' \in Int /\ UNCHANGED <<entry, approval, dispatched, raced>> /\ call[c].pc = "idle"
    BY <1>1, <1>2 DEF Admit
  <2>3. call[c].handler = "none"
    BY <2>2 DEF HandledWasDispatched
  <2> QED BY <1>1, <2>1, <2>2, <2>3, CallProceeds DEF Stages
<1>3. ASSUME NEW c \in Calls, Execute(c) PROVE GatewayInv'
  <2>1. CASE Replay(c)
    <3>1. PICK pc \in {"answered", "refused"} : Goto(c, pc)
      BY <2>1 DEF Replay
    <3>2. active' \in Int /\ UNCHANGED <<entry, approval, dispatched, raced>>
      BY <1>1, <2>1 DEF Replay, Release
    <3> QED BY <1>1, <3>1, <3>2, CallProceeds DEF Stages
  <2>2. CASE CheckAbort(c)
    <3>1. CASE call[c].aborted
      BY <2>2, <3>1, CallDrops DEF CheckAbort
    <3>2. CASE ~call[c].aborted
      <4>1. Goto(c, "audit") /\ UNCHANGED <<entry, approval, active, dispatched, raced>>
            /\ call[c].pc = "claimed"
        BY <2>2, <3>2 DEF CheckAbort
      <4>2. call[c].handler = "none"
        BY <4>1 DEF HandledWasDispatched
      <4> QED BY <1>1, <4>1, <4>2, CallProceeds DEF Stages
    <3> QED BY <3>1, <3>2
  <2>3. CASE AuditUnavailable(c)
    BY <2>3, CallDrops DEF AuditUnavailable
  <2>4. CASE Answer(c)
    <3>1. PICK pc \in {"answered", "refused"} : Goto(c, pc)
      BY <2>4 DEF Answer
    <3>2. UNCHANGED <<entry, approval, active, dispatched, raced>>
      BY <2>4 DEF Answer
    <3> QED BY <1>1, <3>1, <3>2, CallProceeds DEF Stages
  <2> QED BY <1>3, <2>1, <2>2, <2>3, <2>4, ApprovalStep, PurgeStep, LookupStep, RegisterStep,
          DispatchStep DEF Execute
<1>4. ASSUME NEW c \in Calls, Handle(c) PROVE GatewayInv'
  <2>1. CASE Settles(c)
    <3>1. /\ call[c].handler = "running" /\ active' \in Int
          /\ UNCHANGED <<approval, dispatched, raced>>
      BY <1>1, <2>1 DEF Settles, Release
    <3>2. CASE HandlerGoes(c, "settled") /\ UNCHANGED entry
      BY <3>1, <3>2, HandlerProceeds DEF HandlerStages, Finished
    <3>3. CASE HandlerGoes(c, "failed") /\ Retain(c)
      BY <3>1, <3>3, HandlerProceeds DEF HandlerStages, Finished, Retain
    <3> QED BY <2>1, <3>2, <3>3 DEF Settles
  <2>2. CASE Reconcile(c)
    <3>1. /\ call[c].handler = "settled" /\ active' \in Int
          /\ UNCHANGED <<approval, dispatched, raced>>
      BY <1>1, <2>2 DEF Reconcile
    <3>2. CASE HandlerGoes(c, "completed") /\ Complete(c)
      BY <3>1, <3>2, HandlerProceeds DEF HandlerStages, Finished, Complete
    <3>3. CASE HandlerGoes(c, "failed") /\ Retain(c)
      BY <3>1, <3>3, HandlerProceeds DEF HandlerStages, Finished, Retain
    <3> QED BY <2>2, <3>2, <3>3 DEF Reconcile
  <2>3. CASE AuditCompletion(c)
    <3>1. /\ call[c].handler = "completed" /\ active' \in Int
          /\ UNCHANGED <<entry, approval, dispatched, raced>>
      BY <1>1, <2>3 DEF AuditCompletion
    <3>2. PICK to \in {"done", "unaudited"} : HandlerGoes(c, to)
      BY <2>3 DEF AuditCompletion
    <3> QED BY <3>1, <3>2, HandlerProceeds DEF HandlerStages, Finished
  <2> QED BY <1>4, <2>1, <2>2, <2>3 DEF Handle
<1>5. ASSUME NEW a \in Approvals, NEW i \in Inputs, Submit(a, i) PROVE GatewayInv'
  <2>1. /\ PurgedRecords \in [Approvals -> Records]
        /\ \A b \in Approvals : approval[b].status # "held" => PurgedRecords[b] = approval[b]
    BY PurgedTypes
  <2>2. [NoRecord EXCEPT !.status = "pending", !.input = i] \in Records
    BY DEF NoRecord, Records
  <2>3. /\ approval' = [PurgedRecords EXCEPT
                           ![a] = [NoRecord EXCEPT !.status = "pending", !.input = i]]
        /\ PurgedRecords[a].status = "none" /\ active' = active + 1
        /\ UNCHANGED <<call, entry, dispatched, raced>>
    BY <1>5 DEF Submit
  <2>4. approval' \in [Approvals -> Records]
    BY <2>1, <2>2, <2>3
  <2>5. \A b \in Approvals : approval[b].status \in {"consuming", "used"}
           => approval'[b].status = approval[b].status
    BY <2>1, <2>3
  <2> QED BY <1>1, <2>3, <2>4, <2>5, OthersStep
<1>6. ASSUME NEW a \in Approvals, IssuerAnswers(a) PROVE GatewayInv'
  <2>1. approval[a].status = "pending" /\ active' = active - 1
        /\ UNCHANGED <<call, entry, dispatched, raced>>
    BY <1>6 DEF IssuerAnswers, Release
  <2>2. [approval[a] EXCEPT !.status = "held"] \in Records
    BY <1>1 DEF Records
  <2>3. PICK x \in Records : approval' = [approval EXCEPT ![a] = x]
    BY <1>6, <2>2, BlankRecords DEF IssuerAnswers
  <2>4. approval' \in [Approvals -> Records]
    BY <1>1, <2>3
  <2>5. \A b \in Approvals : approval[b].status \in {"consuming", "used"}
           => approval'[b].status = approval[b].status
    BY <1>1, <2>1, <2>3
  <2> QED BY <1>1, <2>1, <2>4, <2>5, OthersStep
<1>7. ASSUME NEW a \in Approvals, ApprovalExpires(a) PROVE GatewayInv'
  <2> DEFINE x == [approval[a] EXCEPT !.expired = TRUE]
  <2>1. approval' = [approval EXCEPT ![a] = x] /\ UNCHANGED <<call, entry, active, dispatched, raced>>
    BY <1>7 DEF ApprovalExpires
  <2>2. x \in Records /\ x.status = approval[a].status
    BY <1>1 DEF Records
  <2> HIDE DEF x
  <2>3. approval' \in [Approvals -> Records]
    BY <1>1, <2>1, <2>2
  <2>4. \A b \in Approvals : approval'[b].status = approval[b].status
    BY <1>1, <2>1, <2>2
  <2> QED BY <1>1, <2>1, <2>3, <2>4, OthersStep
<1>8. ASSUME NEW k \in Keys, RetentionEnds(k) PROVE GatewayInv'
  <2> DEFINE x == [entry[k] EXCEPT !.expired = TRUE]
  <2>1. entry' = [entry EXCEPT ![k] = x] /\ UNCHANGED <<call, approval, active, dispatched, raced>>
    BY <1>8 DEF RetentionEnds
  <2>2. x \in Claimed /\ x.owner = entry[k].owner /\ x.state = entry[k].state
        /\ x.input = entry[k].input
    BY <1>1 DEF Claimed
  <2> HIDE DEF x
  <2>3. entry' \in [Keys -> Claimed]
    BY <1>1, <2>1, <2>2
  <2>4. \A j \in Keys : /\ entry'[j].owner = entry[j].owner
                        /\ entry'[j].state = entry[j].state
                        /\ entry'[j].input = entry[j].input
    BY <1>1, <2>1, <2>2
  <2> QED BY <1>1, <2>1, <2>3, <2>4, OthersStep
<1>9. CASE UNCHANGED vars
  BY <1>1, <1>9, OthersStep DEF vars
<1> QED BY <1>2, <1>3, <1>4, <1>5, <1>6, <1>7, <1>8, <1>9, AbortStep DEF Next

LEMMA Invariance == Spec => []GatewayInv
BY InvInit, InvStep, PTL DEF Spec

-----------------------------------------------------------------------------
(* The count of the budget. *)

InExecution == Stages \ {"idle", "waiting", "answered", "refused"}

LEMMA GroupsAreFinite ==
    ASSUME TypeOK
    PROVE  /\ IsFiniteSet(Executing) /\ IsFiniteSet(Handling) /\ IsFiniteSet(Submitting)
           /\ Cardinality(Executing) \in Nat /\ Cardinality(Handling) \in Nat
           /\ Cardinality(Submitting) \in Nat
<1>1. Executing \subseteq Calls /\ Handling \subseteq Calls /\ Submitting \subseteq Approvals
  BY DEF Executing, Handling, Submitting
<1>2. IsFiniteSet(Executing) /\ IsFiniteSet(Handling) /\ IsFiniteSet(Submitting)
  BY <1>1, GatewayAssumption, FS_Subset
<1> QED BY <1>2, FS_CardinalityType

(* A step of c that changes no handler and no submission.                   *)
LEMMA CountOfCall ==
    ASSUME TypeOK, ConcurrencyIsExact, NEW c \in Calls,
           \A d \in Calls : /\ call'[d].handler = call[d].handler
                            /\ d # c => call'[d].pc = call[d].pc,
           Submitting' = Submitting,
           call'[c].pc \in Stages,
           active' = IF c \notin Executing /\ call'[c].pc \in InExecution THEN active + 1
                     ELSE IF c \in Executing /\ call'[c].pc \notin InExecution THEN active - 1
                     ELSE active,
           c \notin Executing /\ call'[c].pc \in InExecution => active < MaxConcurrency
    PROVE  ConcurrencyIsExact'
<1>1. \A d \in Calls : call[d].pc \in Stages
  BY DEF TypeOK, Requests, Stages
<1>2. Executing' = IF call'[c].pc \in InExecution THEN Executing \cup {c} ELSE Executing \ {c}
  BY <1>1 DEF Executing, InExecution, Stages
<1>3. Handling' = Handling
  BY DEF Handling
<1>4. /\ Cardinality(Executing \cup {c}) = IF c \in Executing THEN Cardinality(Executing)
                                           ELSE Cardinality(Executing) + 1
      /\ Cardinality(Executing \ {c}) = IF c \in Executing THEN Cardinality(Executing) - 1
                                        ELSE Cardinality(Executing)
  BY GroupsAreFinite, FS_AddElement, FS_RemoveElement
<1>5. /\ Cardinality(Executing)' = IF call'[c].pc \in InExecution
                                   THEN Cardinality(Executing \cup {c})
                                   ELSE Cardinality(Executing \ {c})
      /\ Cardinality(Handling)' = Cardinality(Handling)
      /\ Cardinality(Submitting)' = Cardinality(Submitting)
  BY <1>2, <1>3
<1>6. /\ Cardinality(Executing) \in Nat /\ Cardinality(Handling) \in Nat
      /\ Cardinality(Submitting) \in Nat /\ active \in Int /\ MaxConcurrency \in Nat
  BY GroupsAreFinite, GatewayAssumption DEF TypeOK
<1> QED BY <1>4, <1>5, <1>6 DEF ConcurrencyIsExact

(* A step of the handler of c, or of its dispatch.                          *)
LEMMA CountOfHandler ==
    ASSUME TypeOK, ConcurrencyIsExact, NEW c \in Calls,
           \A d \in Calls \ {c} : call'[d] = call[d],
           UNCHANGED approval,
           \/ /\ call'[c].pc = call[c].pc
              /\ call'[c].handler # "running"
              /\ active' = IF c \in Handling THEN active - 1 ELSE active
           \/ /\ c \in Executing /\ c \notin Handling
              /\ call'[c].pc = "waiting" /\ call'[c].handler = "running"
              /\ active' = active
    PROVE  ConcurrencyIsExact'
<1>1. Submitting' = Submitting
  BY DEF Submitting
<1>2. /\ Cardinality(Executing) \in Nat /\ Cardinality(Handling) \in Nat
      /\ Cardinality(Submitting) \in Nat /\ active \in Int /\ MaxConcurrency \in Nat
  BY GroupsAreFinite, GatewayAssumption DEF TypeOK
<1>3. Cardinality(Submitting)' = Cardinality(Submitting)
  BY <1>1
<1>4. CASE /\ call'[c].pc = call[c].pc
           /\ call'[c].handler # "running"
           /\ active' = IF c \in Handling THEN active - 1 ELSE active
  <2>1. Executing' = Executing /\ Handling' = Handling \ {c}
    BY <1>4 DEF Executing, Handling
  <2>2. Cardinality(Handling \ {c}) = IF c \in Handling THEN Cardinality(Handling) - 1
                                      ELSE Cardinality(Handling)
    BY GroupsAreFinite, FS_AddElement, FS_RemoveElement
  <2>3. /\ Cardinality(Executing)' = Cardinality(Executing)
        /\ Cardinality(Handling)' = Cardinality(Handling \ {c})
    BY <2>1
  <2> QED BY <1>2, <1>3, <1>4, <2>2, <2>3 DEF ConcurrencyIsExact
<1>5. CASE /\ c \in Executing /\ c \notin Handling
           /\ call'[c].pc = "waiting" /\ call'[c].handler = "running"
           /\ active' = active
  <2>1. Executing' = Executing \ {c} /\ Handling' = Handling \cup {c}
    BY <1>5 DEF Executing, Handling
  <2>2. /\ Cardinality(Handling \cup {c}) = Cardinality(Handling) + 1
        /\ Cardinality(Executing \ {c}) = Cardinality(Executing) - 1
    BY <1>5, GroupsAreFinite, FS_AddElement, FS_RemoveElement
  <2>3. /\ Cardinality(Executing)' = Cardinality(Executing \ {c})
        /\ Cardinality(Handling)' = Cardinality(Handling \cup {c})
    BY <2>1
  <2> QED BY <1>2, <1>3, <1>5, <2>2, <2>3 DEF ConcurrencyIsExact
<1> QED BY <1>4, <1>5

(* A step of the submission a.                                              *)
LEMMA CountOfSubmission ==
    ASSUME TypeOK, ConcurrencyIsExact, NEW a \in Approvals, UNCHANGED call,
           \/ /\ a \notin Submitting /\ Submitting' = Submitting \cup {a}
              /\ active' = active + 1 /\ active < MaxConcurrency
           \/ /\ a \in Submitting /\ Submitting' = Submitting \ {a}
              /\ active' = active - 1
    PROVE  ConcurrencyIsExact'
<1>1. /\ Cardinality(Executing) \in Nat /\ Cardinality(Handling) \in Nat
      /\ Cardinality(Submitting) \in Nat /\ active \in Int /\ MaxConcurrency \in Nat
  BY GroupsAreFinite, GatewayAssumption DEF TypeOK
<1>2. Executing' = Executing /\ Handling' = Handling
  BY DEF Executing, Handling
<1>3. /\ Cardinality(Executing)' = Cardinality(Executing)
      /\ Cardinality(Handling)' = Cardinality(Handling)
  BY <1>2
<1>4. /\ Cardinality(Submitting \cup {a}) = IF a \in Submitting THEN Cardinality(Submitting)
                                            ELSE Cardinality(Submitting) + 1
      /\ Cardinality(Submitting \ {a}) = IF a \in Submitting THEN Cardinality(Submitting) - 1
                                         ELSE Cardinality(Submitting)
  BY GroupsAreFinite, FS_AddElement, FS_RemoveElement
<1>5. CASE a \notin Submitting /\ Submitting' = Submitting \cup {a} /\ active' = active + 1
           /\ active < MaxConcurrency
  <2>1. Cardinality(Submitting)' = Cardinality(Submitting) + 1
    BY <1>4, <1>5
  <2> QED BY <1>1, <1>3, <1>5, <2>1 DEF ConcurrencyIsExact
<1>6. CASE a \in Submitting /\ Submitting' = Submitting \ {a} /\ active' = active - 1
  <2>1. Cardinality(Submitting)' = Cardinality(Submitting) - 1
    BY <1>4, <1>6
  <2> QED BY <1>1, <1>3, <1>6, <2>1 DEF ConcurrencyIsExact
<1> QED BY <1>5, <1>6

LEMMA GotoOnly ==
    ASSUME TypeOK, NEW c \in Calls, NEW pc \in Stages, Goto(c, pc)
    PROVE  /\ call'[c].pc = pc
           /\ \A d \in Calls : /\ call'[d].handler = call[d].handler
                               /\ d # c => call'[d].pc = call[d].pc
<1>1. PICK r : Becomes(c, r) /\ r.pc = pc /\ r.handler = call[c].handler
  BY GotoBecomes
<1> QED BY <1>1, BecomesOnly

LEMMA HandlerOnly ==
    ASSUME TypeOK, NEW c \in Calls, NEW to \in HandlerStages, HandlerGoes(c, to)
    PROVE  /\ call'[c].pc = call[c].pc /\ call'[c].handler = to
           /\ \A d \in Calls \ {c} : call'[d] = call[d]
<1>1. PICK r : Becomes(c, r) /\ r.pc = call[c].pc /\ r.handler = to
  BY HandlerBecomes
<1> QED BY <1>1, BecomesOnly

(* evaluate() purges and uses records that are not pending.                 *)
LEMMA SubmissionsStay ==
    ASSUME GatewayInv, NEW c \in Calls, Evaluate(c) \/ Consume(c)
    PROVE  Submitting' = Submitting
<1> USE DEF GatewayInv
<1>1. /\ \A a \in Approvals : /\ approval[a].status # "held" => PurgedRecords[a] = approval[a]
                              /\ approval[a].status = "held" => PurgedRecords[a].status # "pending"
      /\ PurgedRecords \in [Approvals -> Records]
  BY PurgedTypes DEF PurgedRecords, NoRecord, TypeOK
<1>2. call[c].approval \in Approvals /\ approval \in [Approvals -> Records]
  BY DEF TypeOK, Requests
<1> DEFINE a == call[c].approval
<1>3. CASE Evaluate(c)
  <2>1. CASE approval' = PurgedRecords
    BY <1>1, <2>1 DEF Submitting
  <2>2. CASE approval' = [PurgedRecords EXCEPT ![a].status = "consuming"] /\ Available(a)
    <3>1. [PurgedRecords[a] EXCEPT !.status = "consuming"].status = "consuming"
      BY <1>1, <1>2 DEF Records
    <3>2. PurgedRecords[a].status # "pending" /\ approval[a].status # "pending"
      BY <1>1, <1>2, <2>2 DEF Available
    <3>3. approval'[a].status = "consuming" /\ \A b \in Approvals \ {a} : approval'[b] = PurgedRecords[b]
      BY <1>1, <1>2, <2>2, <3>1
    <3>4. \A b \in Approvals : approval'[b].status = "pending" <=> approval[b].status = "pending"
      BY <1>1, <3>2, <3>3
    <3> QED BY <3>4 DEF Submitting
  <2> QED BY <1>3, <2>1, <2>2 DEF Evaluate
<1>4. CASE Consume(c) /\ approval[a].status = "consuming"
  <2>1. PICK status \in {"used", "held"} : approval' = [approval EXCEPT ![a].status = status]
    BY <1>4 DEF Consume
  <2>2. [approval[a] EXCEPT !.status = status].status = status
    BY <1>2 DEF Records
  <2>3. approval'[a].status = status /\ \A b \in Approvals \ {a} : approval'[b] = approval[b]
    BY <1>2, <2>1, <2>2
  <2>4. \A b \in Approvals : approval'[b].status = "pending" <=> approval[b].status = "pending"
    BY <1>4, <2>3
  <2> QED BY <2>4 DEF Submitting
<1>5. Consume(c) => approval[a].status = "consuming"
  BY DEF Consume, ApprovalsHaveOneUser
<1> QED BY <1>3, <1>4, <1>5

LEMMA CountInit == Init => ConcurrencyIsExact
<1> SUFFICES ASSUME Init PROVE ConcurrencyIsExact
  OBVIOUS
<1>1. Executing = {} /\ Handling = {} /\ Submitting = {}
  <2>1. \A c \in Calls : call[c].pc = "idle" /\ call[c].handler = "none"
    BY DEF Init, NewCall
  <2> QED BY <2>1 DEF Init, Executing, Handling, Submitting, NoRecord
<1> QED BY <1>1, FS_EmptySet, GatewayAssumption DEF Init, ConcurrencyIsExact

LEMMA CountStep == GatewayInv /\ ConcurrencyIsExact /\ [Next]_vars => ConcurrencyIsExact'
<1> SUFFICES ASSUME GatewayInv, ConcurrencyIsExact, [Next]_vars PROVE ConcurrencyIsExact'
  OBVIOUS
<1> USE DEF GatewayInv
<1>1. /\ active \in Int /\ MaxConcurrency \in Nat
      /\ \A c \in Calls : call[c] \in Requests /\ call[c].pc \in Stages
  BY GatewayAssumption DEF TypeOK, Requests, Stages
<1>2. \A c \in Calls : c \in Executing <=> call[c].pc \in InExecution
  BY <1>1 DEF Executing, InExecution
<1>3. ASSUME UNCHANGED approval PROVE Submitting' = Submitting
  BY <1>3 DEF Submitting
<1>4. ASSUME NEW c \in Calls, NEW pc \in Stages, Goto(c, pc), Submitting' = Submitting,
             active' = IF c \notin Executing /\ pc \in InExecution THEN active + 1
                       ELSE IF c \in Executing /\ pc \notin InExecution THEN active - 1
                       ELSE active,
             c \notin Executing /\ pc \in InExecution => active < MaxConcurrency
      PROVE  ConcurrencyIsExact'
  BY <1>4, GotoOnly, CountOfCall
<1>5. ASSUME NEW c \in Calls, Refuse(c), c \in Executing, Submitting' = Submitting
      PROVE  ConcurrencyIsExact'
  <2>1. Goto(c, "refused") /\ active' = active - 1 /\ "refused" \in Stages
        /\ "refused" \notin InExecution
    BY <1>5 DEF Refuse, Release, Stages, InExecution
  <2> QED BY <1>4, <1>5, <2>1
<1>6. ASSUME NEW c \in Calls, Admit(c) PROVE ConcurrencyIsExact'
  <2>1. c \notin Executing /\ Submitting' = Submitting
    BY <1>3, <1>6 DEF Admit, Executing
  <2>2. "approve" \in InExecution /\ "approve" \in Stages /\ "refused" \in Stages
        /\ "refused" \notin InExecution
    BY DEF Stages, InExecution
  <2>3. CASE active < MaxConcurrency
    <3>1. Goto(c, "approve") /\ active' = active + 1
      BY <1>6, <2>3 DEF Admit
    <3> QED BY <1>4, <2>1, <2>2, <2>3, <3>1
  <2>4. CASE ~(active < MaxConcurrency)
    <3>1. Goto(c, "refused") /\ active' = active
      BY <1>6, <2>4 DEF Admit
    <3> QED BY <1>4, <2>1, <2>2, <3>1
  <2> QED BY <2>3, <2>4
<1>7. ASSUME NEW c \in Calls, Abort(c) PROVE ConcurrencyIsExact'
  <2>1. \A d \in Calls : call'[d].pc = call[d].pc /\ call'[d].handler = call[d].handler
    BY <1>1, <1>7 DEF Abort, Requests, TypeOK
  <2>2. Executing' = Executing /\ Handling' = Handling /\ Submitting' = Submitting
        /\ active' = active
    BY <1>3, <1>7, <2>1 DEF Abort, Executing, Handling
  <2> QED BY <2>2 DEF ConcurrencyIsExact
<1>8. ASSUME NEW c \in Calls, NEW pc \in InExecution, Goto(c, pc), c \in Executing,
             Submitting' = Submitting, active' = active
      PROVE  ConcurrencyIsExact'
  BY <1>4, <1>8 DEF InExecution
<1>9. ASSUME NEW c \in Calls, Execute(c) PROVE ConcurrencyIsExact'
  <2>1. CASE Evaluate(c)
    <3>1. c \in Executing /\ Submitting' = Submitting /\ "digest" \in InExecution
      BY <1>2, <2>1, SubmissionsStay DEF Evaluate, InExecution, Stages
    <3> QED BY <1>5, <1>8, <2>1, <3>1 DEF Evaluate
  <2>2. CASE Consume(c)
    <3>1. c \in Executing /\ Submitting' = Submitting
      BY <1>2, <2>2, SubmissionsStay DEF Consume, InExecution, Stages
    <3>2. CASE Refuse(c)
      BY <1>5, <3>1, <3>2
    <3>3. CASE call' = [call EXCEPT ![c].pc = "claim", ![c].spent = TRUE] /\ UNCHANGED active
      <4>1. \A d \in Calls : /\ call'[d].handler = call[d].handler
                             /\ d # c => call'[d].pc = call[d].pc
        BY <1>1, <3>3 DEF Requests, TypeOK
      <4>2. call'[c].pc = "claim"
        BY <1>1, <3>3 DEF Requests, TypeOK
      <4>3. "claim" \in InExecution /\ "claim" \in Stages
        BY DEF InExecution, Stages
      <4> QED BY <3>1, <3>3, <4>1, <4>2, <4>3, CountOfCall
    <3> QED BY <2>2, <3>2, <3>3 DEF Consume
  <2>3. CASE Purge(c)
    <3>1. c \in Executing /\ Submitting' = Submitting /\ "lookup" \in InExecution
      BY <1>2, <1>3, <2>3 DEF Purge, InExecution, Stages
    <3> QED BY <1>8, <2>3, <3>1 DEF Purge
  <2>4. CASE Lookup(c)
    <3>1. c \in Executing /\ Submitting' = Submitting
      BY <1>2, <1>3, <2>4 DEF Lookup, InExecution, Stages
    <3>2. CASE Refuse(c)
      BY <1>5, <3>1, <3>2
    <3>3. CASE ~Refuse(c)
      <4> DEFINE e == entry[call[c].key]
                 pc == IF e.state = "none" THEN "register" ELSE "replay"
      <4>1. call' = [call EXCEPT ![c].pc = pc, ![c].result = e.owner] /\ UNCHANGED active
        BY <2>4, <3>3 DEF Lookup
      <4>2. pc \in InExecution /\ pc \in Stages
        BY DEF InExecution, Stages
      <4> HIDE DEF e, pc
      <4>3. \A d \in Calls : /\ call'[d].handler = call[d].handler
                             /\ d # c => call'[d].pc = call[d].pc
        BY <1>1, <4>1 DEF Requests, TypeOK
      <4>4. call'[c].pc = pc
        BY <1>1, <4>1 DEF Requests, TypeOK
      <4> QED BY <3>1, <4>1, <4>2, <4>3, <4>4, CountOfCall
    <3> QED BY <3>2, <3>3
  <2>5. CASE Register(c)
    <3>1. c \in Executing /\ Submitting' = Submitting /\ "claimed" \in InExecution
      BY <1>2, <1>3, <2>5 DEF Register, InExecution, Stages
    <3> QED BY <1>8, <2>5, <3>1 DEF Register
  <2>6. CASE Replay(c)
    <3>1. c \in Executing /\ Submitting' = Submitting /\ active' = active - 1
      BY <1>2, <1>3, <2>6 DEF Replay, Release, InExecution, Stages
    <3>2. PICK pc \in {"answered", "refused"} : Goto(c, pc)
      BY <2>6 DEF Replay
    <3>3. pc \in Stages /\ pc \notin InExecution
      BY DEF Stages, InExecution
    <3> QED BY <1>4, <3>1, <3>2, <3>3
  <2>7. CASE CheckAbort(c)
    <3>1. c \in Executing /\ Submitting' = Submitting /\ "audit" \in InExecution
      BY <1>2, <1>3, <2>7 DEF CheckAbort, InExecution, Stages
    <3> QED BY <1>5, <1>8, <2>7, <3>1 DEF CheckAbort
  <2>8. CASE AuditUnavailable(c)
    <3>1. c \in Executing /\ Submitting' = Submitting
      BY <1>2, <1>3, <2>8 DEF AuditUnavailable, InExecution, Stages
    <3> QED BY <1>5, <2>8, <3>1 DEF AuditUnavailable
  <2>9. CASE Dispatch(c)
    <3>1. call[c].pc = "audit" /\ call[c].handler = "none"
      BY <2>9 DEF Dispatch, HandledWasDispatched
    <3>2. c \in Executing /\ c \notin Handling
      BY <3>1 DEF Executing, Handling
    <3>3. /\ call'[c].pc = "waiting" /\ call'[c].handler = "running"
          /\ \A d \in Calls \ {c} : call'[d] = call[d]
          /\ UNCHANGED <<approval, active>>
      BY <1>1, <2>9 DEF Dispatch, Requests, TypeOK
    <3> QED BY <3>2, <3>3, CountOfHandler
  <2>10. CASE Answer(c)
    <3>1. c \notin Executing /\ Submitting' = Submitting /\ active' = active
      BY <1>3, <2>10 DEF Answer, Executing
    <3>2. PICK pc \in {"answered", "refused"} : Goto(c, pc)
      BY <2>10 DEF Answer
    <3>3. pc \in Stages /\ pc \notin InExecution
      BY DEF Stages, InExecution
    <3> QED BY <1>4, <3>1, <3>2, <3>3
  <2> QED BY <1>9, <2>1, <2>2, <2>3, <2>4, <2>5, <2>6, <2>7, <2>8, <2>9, <2>10 DEF Execute
<1>10. ASSUME NEW c \in Calls, Handle(c) PROVE ConcurrencyIsExact'
  <2>1. PICK to \in HandlerStages \ {"running"} : HandlerGoes(c, to)
    BY <1>10 DEF Handle, Settles, Reconcile, AuditCompletion, HandlerStages
  <2>2. UNCHANGED approval /\ active' = IF c \in Handling THEN active - 1 ELSE active
    BY <1>10 DEF Handle, Settles, Reconcile, AuditCompletion, Handling, Release
  <2> QED BY <2>1, <2>2, HandlerOnly, CountOfHandler
<1>11. ASSUME NEW a \in Approvals, NEW i \in Inputs, Submit(a, i) PROVE ConcurrencyIsExact'
  <2>1. /\ PurgedRecords \in [Approvals -> Records]
        /\ \A b \in Approvals : /\ approval[b].status # "held" => PurgedRecords[b] = approval[b]
                                /\ approval[b].status = "held" => PurgedRecords[b].status # "pending"
    BY PurgedTypes DEF PurgedRecords, NoRecord, TypeOK
  <2>2. /\ active < MaxConcurrency /\ active' = active + 1 /\ UNCHANGED call
        /\ PurgedRecords[a].status = "none"
        /\ approval' = [PurgedRecords EXCEPT ![a] = [NoRecord EXCEPT !.status = "pending", !.input = i]]
    BY <1>11 DEF Submit
  <2>3. [NoRecord EXCEPT !.status = "pending", !.input = i].status = "pending"
    BY DEF NoRecord
  <2>4. approval'[a].status = "pending" /\ \A b \in Approvals \ {a} : approval'[b] = PurgedRecords[b]
    BY <2>1, <2>2, <2>3
  <2>5. a \notin Submitting /\ Submitting' = Submitting \cup {a}
    BY <2>1, <2>2, <2>4 DEF Submitting
  <2> QED BY <2>2, <2>5, CountOfSubmission
<1>12. ASSUME NEW a \in Approvals, IssuerAnswers(a) PROVE ConcurrencyIsExact'
  <2>1. approval \in [Approvals -> Records] /\ approval[a].status = "pending"
        /\ active' = active - 1 /\ UNCHANGED call
    BY <1>12 DEF TypeOK, IssuerAnswers, Release
  <2>2. [approval[a] EXCEPT !.status = "held"].status = "held" /\ NoRecord.status = "none"
    BY <2>1 DEF Records, NoRecord
  <2>3. approval'[a].status # "pending" /\ \A b \in Approvals \ {a} : approval'[b] = approval[b]
    BY <1>12, <2>1, <2>2 DEF IssuerAnswers
  <2>4. a \in Submitting /\ Submitting' = Submitting \ {a}
    BY <2>1, <2>3 DEF Submitting
  <2> QED BY <2>1, <2>4, CountOfSubmission
<1>13. ASSUME UNCHANGED <<call, active>>,
              \A a \in Approvals : approval'[a].status = approval[a].status
       PROVE  ConcurrencyIsExact'
  <2>1. Executing' = Executing /\ Handling' = Handling /\ Submitting' = Submitting
    BY <1>13 DEF Executing, Handling, Submitting
  <2> QED BY <1>13, <2>1 DEF ConcurrencyIsExact
<1>14. ASSUME NEW a \in Approvals, ApprovalExpires(a) PROVE ConcurrencyIsExact'
  <2>1. \A b \in Approvals : approval'[b].status = approval[b].status
    BY <1>14 DEF ApprovalExpires, TypeOK, Records
  <2> QED BY <1>13, <1>14, <2>1 DEF ApprovalExpires
<1>15. ASSUME NEW k \in Keys, RetentionEnds(k) PROVE ConcurrencyIsExact'
  BY <1>13, <1>15 DEF RetentionEnds
<1>16. CASE UNCHANGED vars
  BY <1>13, <1>16 DEF vars
<1> QED BY <1>6, <1>7, <1>9, <1>10, <1>11, <1>12, <1>14, <1>15, <1>16 DEF Next

(* The variables of ToolGateway keep their types. *)
THEOREM TypeCorrect == Spec => []TypeOK
<1>1. GatewayInv => TypeOK
  BY DEF GatewayInv
<1> QED BY Invariance, <1>1, PTL

(* InMemoryToolApprovalEvaluator lets an approval through for one call,     *)
(* however many present it while its input is digested.                     *)
THEOREM ApprovalsAreSpentOnce == Spec => []ApprovalSpentOnce
<1>1. GatewayInv => ApprovalSpentOnce
  BY DEF GatewayInv
<1> QED BY Invariance, <1>1, PTL

(* A call repeated under its key is refused, or answered with what the one  *)
(* that InMemoryToolIdempotencyCoordinator let through returned, unless     *)
(* claims of the key have raced past its lookup.                            *)
THEOREM RepeatsSafe == Spec => []RepeatsAreSafe
<1>1. GatewayInv => RepeatsAreSafe
  BY DEF GatewayInv, RepeatsAreSafe
<1> QED BY Invariance, <1>1, PTL

(* active of BoundedToolRiskBudgetEvaluator counts the calls, handlers and  *)
(* submissions under way exactly, whichever way each of them ends.          *)
THEOREM ConcurrencyExact == Spec => []ConcurrencyIsExact
BY CountInit, CountStep, Invariance, PTL DEF Spec
=============================================================================
