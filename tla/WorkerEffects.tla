----------------------------- MODULE WorkerEffects -----------------------------
(***************************************************************************)
(* External effects of release workers under the worker generation fence:  *)
(* PostgresStaticDeploymentStore's renewWorkerFence, claimEffect and       *)
(* completeEffect, and release-worker.mjs, whose executeEffect calls them. *)
(*                                                                         *)
(* Deployment moves the fence between generations under a growing token    *)
(* (StaticDeploymentStore models how); workers of both generations execute *)
(* at the same time, crash, and outlive their authority.                   *)
(*                                                                         *)
(* Leases are judged by the database clock.  A lease is kept as the time   *)
(* it has left, and Tick takes one unit from every lease, so time has no   *)
(* end.  A claim token is a UUID no other claim of the row has; here it is *)
(* the attempt number, which has that property.                            *)
(***************************************************************************)
EXTENDS Naturals

CONSTANTS
    Generations,
    InitialGeneration,
    Effects,          \* effect identities
    Results,          \* digests of the payloads an effect is executed with
    NoResult,         \* result_digest of a pending effect
    Runs,             \* executions in flight (the inFlight sets)
    LeaseDuration,    \* the lease a heartbeat asks for
    ClaimDurations,   \* the claim leases effects are executed with
    LastHandover,     \* promotions and rollbacks issue tokens up to this one
    MaxToken,         \* recoveries up to this one
    MaxAttempts,      \* the CHECK on runtime_worker_effects.attempts (1_000_000)
    MaxFaults         \* how many crashes and late steps there are

ASSUME EffectsAssumption ==
    /\ InitialGeneration \in Generations
    /\ NoResult \notin Results
    /\ LeaseDuration \in Nat \ {0}
    /\ ClaimDurations \subseteq Nat \ {0}
    /\ LastHandover \in Nat
    /\ MaxToken \in Nat \ {0}
    /\ MaxAttempts \in Nat \ {0}
    /\ MaxFaults \in Nat

VARIABLES
    fence,      \* the runtime_worker_generation_fences row; ticket: an activation of
                \* its holder is reserved (transition step or worker recovery)
    row,        \* runtime_worker_effects, by effect
    external,   \* p9_static_external_effects: the outside world, by effect
    worker,     \* mode and fencingToken of each generation's worker process
    run,        \* the executions in flight
    faults

effectsVars == <<fence, row, external, worker, run, faults>>

-----------------------------------------------------------------------------
NoRow == [state |-> "none", generation |-> InitialGeneration, token |-> 0,
          attempts |-> 0, left |-> 0, result |-> NoResult]

IdleRun(generation, effect, result) ==
    [pc |-> "idle", generation |-> generation, effect |-> effect, result |-> result,
     duration |-> 0, authority |-> 0, claim |-> 0]

EndRun(x) ==
    run' = [run EXCEPT ![x] = IdleRun(@.generation, @.effect, @.result)]

RunTo(x, pc) == run' = [run EXCEPT ![x].pc = pc]

PassiveWorker == [active |-> FALSE, token |-> 0]

EffectsInit ==
    /\ fence = [generation |-> InitialGeneration, token |-> 1, left |-> LeaseDuration,
                ticket |-> TRUE]
    /\ row = [e \in Effects |-> NoRow]
    /\ external = [e \in Effects |-> NoResult]
    /\ worker = [g \in Generations |-> PassiveWorker]
    /\ \E e \in Effects, r \in Results :
           run = [x \in Runs |-> IdleRun(InitialGeneration, e, r)]
    /\ faults = 0

-----------------------------------------------------------------------------
(* The fence. *)

(* assertActiveFence(): the caller's generation and token, unexpired. *)
HoldsFence(generation, token) ==
    /\ fence.generation = generation
    /\ fence.token = token
    /\ fence.left > 0

(* renewWorkerFence(): a renewal never brings the expiry forward. *)
LastRequest(left, duration) == duration    \* mutant: the latest renewal wins

Renewed(left, duration) == IF duration <= left THEN left ELSE duration

RenewFence(duration) == fence' = [fence EXCEPT !.left = Renewed(@, duration)]

HandOver(g) ==
    /\ fence' = [generation |-> g, token |-> fence.token + 1, left |-> LeaseDuration,
                 ticket |-> TRUE]
    /\ UNCHANGED <<row, external, worker, run>>

Strike == faults < MaxFaults /\ faults' = faults + 1

(* A promotion or a rollback: another generation takes the next token.      *)
Transfer(g) ==
    /\ g # fence.generation
    /\ fence.token < LastHandover
    /\ HandOver(g)
    /\ UNCHANGED faults

Healthy == worker[fence.generation] = [active |-> TRUE, token |-> fence.token]

(* reserveWorkerRecoveryActivation(): the same generation under the next    *)
(* token, once its worker is found unhealthy or its lease lapsed.  Finding  *)
(* a healthy worker unhealthy (a failed probe) is a fault.                  *)
Recover ==
    /\ fence.token < MaxToken
    /\ fence.ticket => fence.left = 0
    /\ HandOver(fence.generation)
    /\ IF Healthy /\ fence.left > 0 THEN Strike ELSE UNCHANGED faults

(* completeTransitionStep("activate-worker"), completeWorkerRecovery...()   *)
Settle ==
    /\ fence.ticket
    /\ Healthy
    /\ fence' = [fence EXCEPT !.ticket = FALSE]
    /\ UNCHANGED <<row, external, worker, run, faults>>

-----------------------------------------------------------------------------
(* The worker process. *)

(* /activate and /activate-recovery: the ticket's authority is renewed and  *)
(* adopted.                                                                 *)
Activate ==
    LET g == fence.generation
    IN  /\ fence.ticket
        /\ HoldsFence(g, fence.token)
        /\ ~Healthy
        /\ RenewFence(LeaseDuration)
        /\ worker' = [worker EXCEPT ![g] = [active |-> TRUE, token |-> fence.token]]
        /\ UNCHANGED <<row, external, run, faults>>

Heartbeat(g) ==
    /\ worker[g].active
    /\ IF HoldsFence(g, worker[g].token)
       THEN RenewFence(LeaseDuration) /\ UNCHANGED worker
       ELSE worker' = [worker EXCEPT ![g].active = FALSE] /\ UNCHANGED fence
    /\ UNCHANGED <<row, external, run, faults>>

(* /drain of the generation the fence left: no new executions, those in     *)
(* flight go on.                                                            *)
Drain(g) ==
    /\ worker[g].active
    /\ fence.generation # g
    /\ worker' = [worker EXCEPT ![g].active = FALSE]
    /\ UNCHANGED <<fence, row, external, run, faults>>

-----------------------------------------------------------------------------
(* executeEffect(): renew, claim, deliver, complete, each awaited.  A       *)
(* renewal uses the authority the execution started with; the claim and the *)
(* completion use the worker's fencingToken at that moment.                 *)

ExecuteEffect(x, g, e, r, duration) ==
    /\ run[x].pc = "idle"
    /\ worker[g].active
    /\ run' = [run EXCEPT ![x] = [pc |-> "renew", generation |-> g, effect |-> e,
                                  result |-> r, duration |-> duration,
                                  authority |-> worker[g].token, claim |-> 0]]
    /\ UNCHANGED <<fence, row, external, worker, faults>>

LongerOf(a, b) == IF a < b THEN b ELSE a

(* The lease asked for is a heartbeat's, or covers the claim and one unit.  *)
Renew(x) ==
    /\ run[x].pc = "renew"
    /\ IF HoldsFence(run[x].generation, run[x].authority)
       THEN RenewFence(LongerOf(LeaseDuration, run[x].duration + 1)) /\ RunTo(x, "claim")
       ELSE EndRun(x) /\ UNCHANGED fence
    /\ UNCHANGED <<row, external, worker, faults>>

(* claimEffect() *)
FitsLease(duration) == duration <= fence.left      \* effectClaimExpiresAt

LiveClaim(e) == row[e].state = "pending" /\ row[e].left > 0

ClaimsAnyPending(e) == row[e].state # "completed"  \* mutant: live claims are taken

ClaimsOnce(e) == row[e].state = "none"             \* mutant: expired claims are kept

Claimable(e) == row[e].state # "completed" /\ ~LiveClaim(e)

ClaimsForever(x) ==            \* mutant: attempts are not bounded
    LET p == run[x]
    IN  /\ HoldsFence(p.generation, worker[p.generation].token)
        /\ FitsLease(p.duration)
        /\ Claimable(p.effect)

MayClaim(x) ==
    LET p == run[x]
    IN  /\ HoldsFence(p.generation, worker[p.generation].token)
        /\ FitsLease(p.duration)
        /\ Claimable(p.effect)
        /\ row[p.effect].attempts < MaxAttempts

Claim(x) ==
    LET p == run[x]
        attempt == row[p.effect].attempts + 1
    IN  /\ p.pc = "claim"
        /\ IF MayClaim(x)
           THEN /\ row' = [row EXCEPT ![p.effect] =
                       [state |-> "pending", generation |-> p.generation,
                        token |-> worker[p.generation].token, attempts |-> attempt,
                        left |-> p.duration, result |-> NoResult]]
                /\ run' = [run EXCEPT ![x].pc = "deliver", ![x].claim = attempt]
           ELSE EndRun(x) /\ UNCHANGED row
        /\ UNCHANGED <<fence, external, worker, faults>>

(* The external effect under the claim's idempotency key: the first one     *)
(* stays, and one with another result is an error.                          *)
Overwrites(e, r) == external' = [external EXCEPT ![e] = r]    \* mutant: no idempotency key

Record(e, r) ==
    external' = [external EXCEPT ![e] = IF @ = NoResult THEN r ELSE @]

Deliver(x) ==
    LET p == run[x]
    IN  /\ p.pc = "deliver"
        /\ Record(p.effect, p.result)
        /\ IF external'[p.effect] = p.result THEN RunTo(x, "complete") ELSE EndRun(x)
        /\ UNCHANGED <<fence, row, worker, faults>>

(* completeEffect() *)
ForgetsFence(x) ==            \* mutant: the claim alone is checked
    LET p == run[x]
    IN  /\ LiveClaim(p.effect)
        /\ row[p.effect].attempts = p.claim

MayComplete(x) ==
    LET p == run[x]
        r == row[p.effect]
    IN  /\ HoldsFence(p.generation, worker[p.generation].token)
        /\ r.generation = p.generation
        /\ r.token = worker[p.generation].token
        /\ LiveClaim(p.effect)
        /\ r.attempts = p.claim

CompleteEffect(x) ==
    /\ run[x].pc = "complete"
    /\ IF MayComplete(x)
       THEN row' = [row EXCEPT ![run[x].effect].state = "completed",
                               ![run[x].effect].result = run[x].result,
                               ![run[x].effect].left = 0]
       ELSE UNCHANGED row
    /\ EndRun(x)
    /\ UNCHANGED <<fence, external, worker, faults>>

-----------------------------------------------------------------------------
(* Faults and time. *)

(* A worker container is lost with its executions, and starts passive. *)
Crash(g) ==
    /\ Strike
    /\ worker[g] # PassiveWorker
    /\ worker' = [worker EXCEPT ![g] = PassiveWorker]
    /\ run' = [x \in Runs |-> IF run[x].generation = g
                              THEN IdleRun(g, run[x].effect, run[x].result) ELSE run[x]]
    /\ UNCHANGED <<fence, row, external>>

(* Time passes on time when no execution is under way and neither a         *)
(* heartbeat nor a reserved activation is overdue; anything later than that *)
(* is a fault.                                                              *)
AtRest == \A x \in Runs : run[x].pc = "idle"

OnTime ==
    /\ AtRest
    /\ (Healthy \/ fence.ticket) => fence.left # 1

Less(left) == IF left = 0 THEN 0 ELSE left - 1

Tick ==
    /\ fence.left > 0 \/ \E e \in Effects : row[e].left > 0
    /\ IF OnTime THEN UNCHANGED faults ELSE Strike
    /\ fence' = [fence EXCEPT !.left = Less(@)]
    /\ row' = [e \in Effects |-> [row[e] EXCEPT !.left = Less(@)]]
    /\ UNCHANGED <<external, worker, run>>

-----------------------------------------------------------------------------
RunStep(x) == Renew(x) \/ Claim(x) \/ Deliver(x) \/ CompleteEffect(x)

EffectsNext ==
    \/ \E g \in Generations : Transfer(g) \/ Heartbeat(g) \/ Drain(g) \/ Crash(g)
    \/ Recover \/ Activate \/ Settle \/ Tick
    \/ \E x \in Runs :
          \/ \E g \in Generations, e \in Effects, r \in Results, d \in ClaimDurations :
                 ExecuteEffect(x, g, e, r, d)
          \/ RunStep(x)

EffectsSpec == EffectsInit /\ [][EffectsNext]_effectsVars

(* The caller asks again for an effect that is pending and not held by a    *)
(* live claim, of the worker in authority and with the payload it had.      *)
Retry(e) ==
    /\ row[e].state = "pending"
    /\ ~LiveClaim(e)
    /\ Healthy
    /\ \E x \in Runs, r \in Results, d \in ClaimDurations :
          /\ external[e] \in {NoResult, r}
          /\ ExecuteEffect(x, fence.generation, e, r, d)

(* Executions and heartbeats go on, supervisors keep recovering the worker, *)
(* callers ask again, time diverges whatever is asked of the workers, and   *)
(* executions do not overlap one another for ever.                          *)
EffectsFairness ==
    /\ \A x \in Runs : WF_effectsVars(RunStep(x))
    /\ \A g \in Generations : WF_effectsVars(fence.left <= 1 /\ Heartbeat(g))
    /\ WF_effectsVars(Activate)
    /\ WF_effectsVars(Settle)
    /\ WF_effectsVars(~Healthy /\ Recover)
    /\ WF_effectsVars(fence.left = 0 /\ Recover)
    /\ SF_effectsVars(OnTime /\ Tick)
    /\ \A e \in Effects : SF_effectsVars(Retry(e))
    /\ []<>AtRest

FairEffectsSpec == EffectsSpec /\ EffectsFairness

-----------------------------------------------------------------------------
(* Properties. *)

Authority == [active : BOOLEAN, token : Nat]

Rows ==
    [state : {"none", "pending", "completed"}, generation : Generations, token : Nat,
     attempts : 0..MaxAttempts, left : Nat, result : Results \cup {NoResult}]

Executions ==
    [pc : {"idle", "renew", "claim", "deliver", "complete"}, generation : Generations,
     effect : Effects, result : Results, duration : Nat, authority : Nat, claim : Nat]

(* The shape of every variable, with the CHECK bounds of the effect row: no  *)
(* execution takes an effect past the attempts its row may hold.            *)
EffectsTypeOK ==
    /\ fence \in [generation : Generations, token : Nat, left : Nat, ticket : BOOLEAN]
    /\ row \in [Effects -> Rows]
    /\ external \in [Effects -> Results \cup {NoResult}]
    /\ worker \in [Generations -> Authority]
    /\ run \in [Runs -> Executions]
    /\ faults \in 0..MaxFaults

(* An effect recorded as completed has happened outside, and with the       *)
(* result it is recorded with, however many workers of however many         *)
(* generations delivered it: completeEffect() runs only after the external  *)
(* insert was reconciled.                                                   *)
CompletedEffectsDelivered ==
    \A e \in Effects : row[e].state = "completed" => row[e].result = external[e]

(* A live claim under the present token never outlives the fence lease it   *)
(* was taken under, although heartbeats keep asking for shorter leases:     *)
(* effectClaimExpiresAt() and renewWorkerFence() together.                  *)
ClaimWithinAuthority ==
    \A e \in Effects :
        LiveClaim(e) /\ row[e].token = fence.token => row[e].left <= fence.left

(* "It is never reassigned by a promotion": a live claim leaves its worker  *)
(* only by completion or expiry, whoever holds the fence in between.        *)
LiveClaimNotReassigned ==
    [][\A e \in Effects : LiveClaim(e) =>
          /\ row'[e].attempts = row[e].attempts
          /\ row'[e].generation = row[e].generation]_effectsVars

(* No worker of a superseded token completes an effect, even one whose      *)
(* claim is still live: the delivery then waits for the new authority.      *)
CompletionsUnderAuthority ==
    [][\A e \in Effects :
          row[e].state # "completed" /\ row'[e].state = "completed" =>
              /\ row[e].generation = fence.generation
              /\ row[e].token = fence.token
              /\ fence.left > 0]_effectsVars

(* Authority over an effect: a live claim is kept, a superseded one is of   *)
(* no use.                                                                  *)
ClaimsAreExclusive == LiveClaimNotReassigned /\ CompletionsUnderAuthority

(* Each effect happens once and is acknowledged with the result it had:     *)
(* the external table and the completed rows implement EffectDelivery.      *)
Delivery == INSTANCE EffectDelivery WITH
    happened <- external,
    acknowledged <- [e \in Effects |-> row[e].result]

DeliveredOnce == Delivery!DeliverySpec

(* An effect once claimed is completed in the end, or all its attempts have *)
(* been made: a claim whose worker is lost or superseded expires and is     *)
(* taken again.                                                             *)
EffectsFinish ==
    \A e \in Effects : row[e].state = "pending" ~> (row[e].state = "completed" \/ row[e].attempts = MaxAttempts)
=============================================================================
