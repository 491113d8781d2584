------------------------ MODULE StaticDeploymentStore ------------------------
(***************************************************************************)
(* PostgresStaticDeploymentStore: the durable authority of a static        *)
(* blue/green deployment, for one (application, environment).              *)
(*                                                                         *)
(* Every method of the class is one PostgreSQL transaction that first      *)
(* takes the owner's advisory lock, so each is one atomic action here.     *)
(* A method that fails throws and rolls back: its guard is false and the   *)
(* state is unchanged.  The callers are unrestricted: any host may call    *)
(* any method at any time.                                                 *)
(*                                                                         *)
(* Time is abstracted to what the guards compare.  A lease or a deadline   *)
(* is live until a PassXxx action ends it.  Transition reservations and    *)
(* rollback windows are judged by the clock of the calling host, so they   *)
(* carry the set of hosts that still read them as unexpired (the clocks of *)
(* two hosts may disagree); fence and recovery leases are judged by the    *)
(* database clock and carry one flag.                                      *)
(***************************************************************************)
EXTENDS Naturals, Sequences

CONSTANTS
    Generations,        \* static application generations
    InitialGeneration,  \* the generation initialize() installs
    NoGeneration,       \* SQL NULL in a generation column
    Hosts,              \* processes whose local clock the store is given
    ReservationIds,     \* UUIDs of transition-step reservations
    NoReservation,      \* an absent reservationId
    InitialToken,       \* workerFencingToken passed to initialize()
    MaxRevision,        \* the last revision committed (1_000_000_000 in the code)
    MaxToken            \* the last token issued (MAX_SAFE_INTEGER - 1 in the code)

ASSUME StoreAssumption ==
    /\ InitialGeneration \in Generations
    /\ NoGeneration \notin Generations
    /\ NoReservation \notin ReservationIds
    /\ MaxRevision \in Nat
    /\ MaxToken \in Nat
    /\ InitialToken \in 1..MaxToken

VARIABLES
    revision,    \* runtime_static_deployments.revision
    active,      \* active_generation_id
    rollback,    \* rollback_generation_id, or NoGeneration
    window,      \* rollback_window
    checkpoint,  \* transition_checkpoint
    fence,       \* the runtime_worker_generation_fences row
    retirement,  \* runtime_static_generation_retirements, by generation
    recovery,    \* the latest runtime_static_worker_activations row
    outbox,      \* runtime_static_deployment_outbox, by revision
    converged    \* the runtime and authorization inventory serves `active`

deploymentVars == <<revision, active, rollback, window, checkpoint>>
vars == <<revision, active, rollback, window, checkpoint, fence, retirement,
          recovery, outbox, converged>>

-----------------------------------------------------------------------------
(* Transition checkpoints: which external steps a committed transition owes. *)

SwitchSteps == <<"activate-worker", "converge-gateway", "reconnect-realtime",
                 "drain-previous">>

StepsOf(kind) ==
    CASE kind = "retire-rollback" -> <<"drain-retained", "retire-retained">>
      [] kind = "promote-retire-previous" -> Append(SwitchSteps, "retire-retained")
      [] OTHER -> SwitchSteps

Kinds == {"promote", "rollback", "retire-rollback", "promote-retire-previous"}
Steps == {"activate-worker", "converge-gateway", "reconnect-realtime",
          "drain-previous", "drain-retained", "retire-retained"}
TowardActive == {"activate-worker", "converge-gateway", "reconnect-realtime"}

NoCheckpoint ==
    [kind |-> "null", revision |-> 0, active |-> NoGeneration,
     previous |-> NoGeneration, completed |-> 0, reservedStep |-> "none",
     reservationId |-> NoReservation, liveAt |-> {}]

(* JSON.stringify(null) written to the jsonb column is the JSON scalar null, *)
(* which is not SQL NULL.                                                    *)
JsonNull == [NoCheckpoint EXCEPT !.kind = "json-null"]

(* CONSTRAINT runtime_static_deployments_transition_checkpoint_check. *)
UncheckedColumn(c) == TRUE    \* mutant: the column has no CHECK

CheckpointColumnCheck(c) == c.kind # "json-null"

NewCheckpoint(kind, rev, act, prev) ==
    [kind |-> kind, revision |-> rev, active |-> act, previous |-> prev,
     completed |-> 0, reservedStep |-> "none", reservationId |-> NoReservation,
     liveAt |-> {}]

HasCheckpoint == checkpoint.kind # "null"

ExpiredIsUnreserved ==        \* mutant: an expired reservation counts as none
    checkpoint.reservedStep = "none" \/ checkpoint.liveAt = {}

NoReservedStep == checkpoint.reservedStep = "none"

CompletedCheckpoint ==
    HasCheckpoint => checkpoint.completed = Len(StepsOf(checkpoint.kind))

NextStep == StepsOf(checkpoint.kind)[checkpoint.completed + 1]

HasNextStep == /\ HasCheckpoint
               /\ checkpoint.completed < Len(StepsOf(checkpoint.kind))

CompletedSteps ==
    IF HasCheckpoint
    THEN {StepsOf(checkpoint.kind)[i] : i \in 1..checkpoint.completed}
    ELSE {}

KeepsReservationId(c) ==      \* mutant: the reservation's id is not deleted
    [c EXCEPT !.reservedStep = "none", !.liveAt = {}]

Unreserved(c) == [c EXCEPT !.reservedStep = "none",
                           !.reservationId = NoReservation, !.liveAt = {}]

(* What reserveTransitionStep returns for the checkpoint and fence it reads. *)
TicketFor(step, id) ==
    [generation |-> IF step \in TowardActive THEN checkpoint.active
                                             ELSE checkpoint.previous,
     active |-> checkpoint.active, revision |-> checkpoint.revision,
     token |-> fence.token, promotionRevision |-> fence.promotionRevision,
     owner |-> fence.owner, kind |-> checkpoint.kind, step |-> step,
     reservationId |-> id]

(* assertTransitionTicketValue, with the revision test of its callers. *)
TicketMatches(host, ticket) ==
    /\ HasCheckpoint
    /\ ticket.revision = revision
    /\ ticket = TicketFor(ticket.step, checkpoint.reservationId)
    /\ fence.generation = checkpoint.active
    /\ checkpoint.reservedStep = ticket.step
    /\ host \in checkpoint.liveAt

(* assertNoLiveWorkerRecovery: an expired reservation does not block. *)
LiveRecovery == recovery.state = "reserved" /\ recovery.live

SwappedReceipt(op, rev, act, prev, token) ==    \* mutant: generations exchanged
    [operation |-> op, revision |-> rev, active |-> prev, previous |-> act,
     token |-> token]

RevisionBefore(op, rev, act, prev, token) ==    \* mutant: revisionBefore recorded
    [operation |-> op, revision |-> rev - 1, active |-> act, previous |-> prev,
     token |-> token]

Receipt(op, rev, act, prev, token) ==
    [operation |-> op, revision |-> rev, active |-> act, previous |-> prev,
     token |-> token]

NoRecovery ==
    [state |-> "none", live |-> FALSE, generation |-> InitialGeneration,
     revision |-> 0, token |-> 0, promotionRevision |-> 0]

-----------------------------------------------------------------------------
(* initialize(): one deployment row and one fence row, both on conflict do *)
(* nothing, so every later call with the same authority reads them back.   *)
Init ==
    /\ revision = 0
    /\ active = InitialGeneration
    /\ rollback = NoGeneration
    /\ window = [state |-> "not-applicable", openAt |-> {},
                 retired |-> NoGeneration, cleanup |-> "blocked"]
    /\ checkpoint = NoCheckpoint
    /\ fence = [generation |-> InitialGeneration, token |-> InitialToken,
                owner |-> "supplied", live |-> TRUE, promotionRevision |-> 0]
    /\ retirement = [g \in Generations |-> "none"]
    /\ recovery = NoRecovery
    /\ outbox = <<>>
    /\ converged = TRUE

(* k_nex_static_serving_generation falls back to the generation the last   *)
(* promote or rollback receipt replaced until the inventory has converged. *)
ServesActive == revision = 0 \/ converged

ServingGeneration ==
    IF ServesActive THEN active ELSE outbox[fence.promotionRevision].previous

AnyGeneration(g) == TRUE      \* mutant: tombstones are not looked up

NotRetired(g) == retirement[g] = "none"

Tombstoned(g) == retirement[g] # "none"    \* mutant: a reservation is enough

Retired(g) == retirement[g] = "completed"

(* nextFenceToken() *)
SameToken == fence.token      \* mutant: the fence is handed over as it is

NextToken == fence.token + 1

(* commitTransition: pointer, checkpoint, fence transfer and receipt.  The *)
(* previous generation is the one that was active.                         *)
MayCommit == revision < MaxRevision /\ fence.token < MaxToken

CommitTransition(op, kind, target, retained, newWindow) ==
    /\ MayCommit
    /\ revision' = revision + 1
    /\ active' = target
    /\ rollback' = retained
    /\ window' = newWindow
    /\ checkpoint' = NewCheckpoint(kind, revision + 1, target, active)
    /\ fence' = [generation |-> target, token |-> NextToken,
                 owner |-> "supplied", live |-> TRUE,
                 promotionRevision |-> revision + 1]
    /\ outbox' = Append(outbox, Receipt(op, revision + 1, target, active, NextToken))
    /\ converged' = FALSE

(* promote(): `base` and `target` identify the verified build; a static    *)
(* composition change never targets the source it starts from.             *)
MayPromote(expectedRevision, expectedToken, base, target, quarantine) ==
    /\ revision = expectedRevision
    /\ ServesActive
    /\ ~LiveRecovery
    /\ NoReservedStep
    /\ CompletedCheckpoint
    /\ NotRetired(target)
    /\ window.state # "retirement-reserved"
    /\ active = base
    /\ fence.token = expectedToken
    /\ fence.generation = active
    /\ quarantine => NotRetired(active)
    /\ MayCommit

Promote(expectedRevision, expectedToken, base, target, quarantine) ==
    /\ MayPromote(expectedRevision, expectedToken, base, target, quarantine)
    /\ IF quarantine
       THEN /\ retirement' = [retirement EXCEPT ![active] = "reserved"]
            /\ CommitTransition("promote", "promote-retire-previous", target, NoGeneration,
                   [state |-> "closed", openAt |-> {}, retired |-> active,
                    cleanup |-> "blocked"])
       ELSE /\ retirement' = retirement
            /\ CommitTransition("promote", "promote", target, active,
                   [state |-> "open", openAt |-> Hosts, retired |-> NoGeneration,
                    cleanup |-> "blocked"])
    /\ UNCHANGED recovery

OnlyUnexpired(host) == host \in window.openAt    \* mutant: the state is not read

WindowOpenAt(host) == window.state = "open" /\ host \in window.openAt

MayRollback(host, expectedRevision, expectedToken) ==
    /\ revision = expectedRevision
    /\ ~LiveRecovery
    /\ NoReservedStep
    /\ CompletedCheckpoint
    /\ rollback # NoGeneration
    /\ WindowOpenAt(host)
    /\ fence.token = expectedToken
    /\ fence.generation = active
    /\ MayCommit

Rollback(host, expectedRevision, expectedToken) ==
    /\ MayRollback(host, expectedRevision, expectedToken)
    /\ CommitTransition("rollback", "rollback", rollback, active, window)
    /\ UNCHANGED <<retirement, recovery>>

(* closeRollback(): on a window that is already closed it only reads back  *)
(* the close receipt, so that call is not a step.                          *)
MayCloseRollback(expectedRevision, retired) ==
    /\ window.state # "closed"
    /\ ~LiveRecovery
    /\ revision = expectedRevision
    /\ revision < MaxRevision
    /\ NoReservedStep
    /\ CompletedCheckpoint
    /\ rollback # NoGeneration
    /\ rollback = retired
    /\ window.state = "retirement-reserved"
    /\ {"drain-retained", "retire-retained"} \subseteq CompletedSteps
    /\ Retired(retired)

CloseRollback(expectedRevision, retired) ==
    /\ MayCloseRollback(expectedRevision, retired)
    /\ revision' = revision + 1
    /\ rollback' = NoGeneration
    /\ window' = [state |-> "closed", openAt |-> {}, retired |-> retired,
                  cleanup |-> "eligible"]
    /\ checkpoint' = NoCheckpoint
    /\ outbox' = Append(outbox,
                    Receipt("close-rollback", revision + 1, active, retired, fence.token))
    /\ UNCHANGED <<active, fence, retirement, recovery, converged>>

(* reserveRollbackRetirement(): a repeated call returns the tombstone it   *)
(* made before and is not a step.                                          *)
MayReserveRollbackRetirement(expectedRevision, retired) ==
    /\ ~LiveRecovery
    /\ revision = expectedRevision
    /\ revision < MaxRevision
    /\ NoReservedStep
    /\ CompletedCheckpoint
    /\ rollback # NoGeneration
    /\ rollback = retired
    /\ window.state = "open"
    /\ active # retired
    /\ NotRetired(retired)

ReserveRollbackRetirement(expectedRevision, retired) ==
    /\ MayReserveRollbackRetirement(expectedRevision, retired)
    /\ retirement' = [retirement EXCEPT ![retired] = "reserved"]
    /\ revision' = revision + 1
    /\ window' = [window EXCEPT !.state = "retirement-reserved", !.cleanup = "blocked"]
    /\ checkpoint' = NewCheckpoint("retire-rollback", revision + 1, active, retired)
    /\ outbox' = Append(outbox,
                    Receipt("reserve-rollback-retirement", revision + 1, active, retired, fence.token))
    /\ UNCHANGED <<active, rollback, fence, recovery, converged>>

(* A generation the deployment still needs: reserveGenerationRetirement()  *)
(* returns undefined for it instead of a reservation.                      *)
ProtectsActiveOnly(g) == g = active    \* mutant: retained generations forgotten

Protected(g) ==
    \/ g = active
    \/ g = rollback
    \/ checkpoint.kind = "promote-retire-previous" /\ g = checkpoint.previous

ReservesAgain(g) ==           \* mutant: an upsert instead of on conflict
    /\ ~Protected(g)
    /\ retirement' = [retirement EXCEPT ![g] = "reserved"]
    /\ UNCHANGED <<revision, active, rollback, window, checkpoint, fence,
                   recovery, outbox, converged>>

ReserveGenerationRetirement(g) ==
    /\ ~Protected(g)
    /\ retirement[g] = "none"
    /\ retirement' = [retirement EXCEPT ![g] = "reserved"]
    /\ UNCHANGED <<revision, active, rollback, window, checkpoint, fence,
                   recovery, outbox, converged>>

(* listPendingGenerationRetirements(): what recover() finds to finish. *)
PendingRetirements ==
    {g \in Generations : /\ retirement[g] = "reserved"
                         /\ g \notin {active, rollback, checkpoint.previous}}

(* The retire-retained step of a checkpoint of this kind is reserved for g. *)
RetiringUnder(kind, g) ==
    /\ checkpoint.kind = kind
    /\ checkpoint.previous = g
    /\ checkpoint.reservedStep = "retire-retained"

MayCompleteRetirement(g) ==
    /\ retirement[g] # "none"
    /\ active # g
    /\ rollback = g => /\ window.state = "retirement-reserved"
                       /\ RetiringUnder("retire-rollback", g)
    /\ checkpoint.kind = "promote-retire-previous" =>
           RetiringUnder("promote-retire-previous", g)

CompleteGenerationRetirement(g) ==
    /\ MayCompleteRetirement(g)
    /\ retirement' = [retirement EXCEPT ![g] = "completed"]
    /\ UNCHANGED <<revision, active, rollback, window, checkpoint, fence,
                   recovery, outbox, converged>>

-----------------------------------------------------------------------------
(* reserveTransitionStep(): the step after the completed ones, unless      *)
(* another reservation of it is still live on the caller's clock.  The     *)
(* same reservationId keeps its expiry.                                    *)
MayReserveTransitionStep(host, expectedRevision, step, id) ==
    /\ revision = expectedRevision
    /\ ~LiveRecovery
    /\ HasNextStep
    /\ step = NextStep
    /\ \/ checkpoint.reservedStep = "none"
       \/ host \notin checkpoint.liveAt
       \/ checkpoint.reservedStep = step /\ checkpoint.reservationId = id

ReserveTransitionStep(host, expectedRevision, step, id) ==
    /\ MayReserveTransitionStep(host, expectedRevision, step, id)
    /\ checkpoint' =
           IF checkpoint.reservedStep = step /\ checkpoint.reservationId = id
           THEN checkpoint
           ELSE [checkpoint EXCEPT !.reservedStep = step, !.reservationId = id,
                                   !.liveAt = Hosts]
    /\ UNCHANGED <<revision, active, rollback, window, fence, retirement,
                   recovery, outbox, converged>>

ReleaseTransitionStep(host, ticket) ==
    /\ TicketMatches(host, ticket)
    /\ checkpoint' = Unreserved(checkpoint)
    /\ UNCHANGED <<revision, active, rollback, window, fence, retirement,
                   recovery, outbox, converged>>

(* completeTransitionStep(): the last step of a quarantine recovery writes *)
(* JSON null over the checkpoint; every other step appends itself to       *)
(* completedSteps.  PostgreSQL evaluates the column's CHECK on the result. *)
RecoveryRetired(ticket) ==
    checkpoint.kind = "promote-retire-previous" /\ ticket.step = "retire-retained"

WithStepCompleted(ticket) ==
    IF RecoveryRetired(ticket)
    THEN JsonNull
    ELSE [Unreserved(checkpoint) EXCEPT !.completed = checkpoint.completed + 1]

MayCompleteTransitionStep(host, ticket) ==
    /\ TicketMatches(host, ticket)
    /\ ticket.step = NextStep
    /\ CheckpointColumnCheck(WithStepCompleted(ticket))

CompleteTransitionStep(host, ticket) ==
    /\ MayCompleteTransitionStep(host, ticket)
    /\ checkpoint' = WithStepCompleted(ticket)
    /\ window' = IF RecoveryRetired(ticket)
                 THEN [window EXCEPT !.cleanup = "eligible"] ELSE window
    /\ UNCHANGED <<revision, active, rollback, fence, retirement, recovery,
                   outbox, converged>>

(* assertTransitionTicket(): the unlocked read an external boundary makes  *)
(* immediately before it acts on a ticket.                                 *)
TicketAuthorised(host, ticket) ==
    /\ TicketMatches(host, ticket)
    /\ ticket.step \notin TowardActive =>
           ticket.generation # active /\ checkpoint.previous = ticket.generation
    /\ ticket.step = "retire-retained" =>
           /\ retirement[ticket.generation] # "none"
           /\ \/ rollback = ticket.generation /\ window.state = "retirement-reserved"
              \/ /\ rollback = NoGeneration
                 /\ window.state = "closed"
                 /\ checkpoint.kind = "promote-retire-previous"

-----------------------------------------------------------------------------
(* Worker recovery: a new fencing epoch for the settled active generation. *)

(* assertWorkerRecoveryCheckpoint, after assertNoReservedStep. *)
RecoversMidStep ==            \* mutant: assertNoReservedStep is not called
    ~HasCheckpoint \/ checkpoint.kind = "retire-rollback"
                   \/ "activate-worker" \in CompletedSteps

RecoversWithoutCheckpoint == ~HasCheckpoint    \* mutant: finished ones block too

RecoveryAllowed ==
    /\ NoReservedStep
    /\ \/ ~HasCheckpoint
       \/ checkpoint.kind = "retire-rollback"
       \/ "activate-worker" \in CompletedSteps

(* assertRecoveryAuthority: the row still names the active deployment.  A  *)
(* recovery row is identified by its token: its owner is                   *)
(* static-recovery:<its own id>.                                           *)
RecoveryMatches(r) ==
    /\ r.generation = active
    /\ r.revision = revision
    /\ r.token = fence.token
    /\ r.promotionRevision = fence.promotionRevision
    /\ fence.owner = "recovery"
    /\ fence.generation = active

KeepsAnyToken(initial) == initial /\ fence.live    \* mutant: at any revision

KeepsToken(initial) ==
    /\ initial
    /\ revision = 0
    /\ fence.token = 1
    /\ fence.live
    /\ recovery.state = "none"

MayReserveRecovery(expected, token, promotion, generation, initial) ==
    /\ RecoveryAllowed
    /\ ~LiveRecovery      \* a live one of this deployment is returned as it is
    /\ revision = expected
    /\ active = generation
    /\ fence.promotionRevision = promotion
    /\ fence.token = token
    /\ KeepsToken(initial) \/ fence.token < MaxToken

ReserveWorkerRecoveryActivation(expected, token, promotion, generation, initial) ==
    LET next == IF KeepsToken(initial) THEN fence.token ELSE NextToken
    IN  /\ MayReserveRecovery(expected, token, promotion, generation, initial)
        /\ fence' = [fence EXCEPT !.token = next, !.owner = "recovery",
                                  !.live = TRUE]
        /\ recovery' = [state |-> "reserved", live |-> TRUE, generation |-> active,
                        revision |-> revision, token |-> next,
                        promotionRevision |-> fence.promotionRevision]
        /\ UNCHANGED <<revision, active, rollback, window, checkpoint,
                       retirement, outbox, converged>>

(* completeWorkerRecoveryActivation(): repeating it on the completed row   *)
(* returns without a write.                                                *)
CompleteWorkerRecoveryActivation(token) ==
    /\ LiveRecovery
    /\ recovery.token = token
    /\ RecoveryMatches(recovery)
    /\ fence.live
    /\ recovery' = [recovery EXCEPT !.state = "completed"]
    /\ UNCHANGED <<revision, active, rollback, window, checkpoint, fence,
                   retirement, outbox, converged>>

ExpireWorkerRecoveryActivation ==
    /\ recovery.state = "reserved"
    /\ ~recovery.live
    /\ recovery' = [recovery EXCEPT !.state = "expired"]
    /\ UNCHANGED <<revision, active, rollback, window, checkpoint, fence,
                   retirement, outbox, converged>>

-----------------------------------------------------------------------------
(* The world: inventory convergence and the passing of deadlines. *)

(* The extension runtime consumes the promotion receipt and rebinds every  *)
(* plugin and its authorization generation to the active static generation. *)
ConvergeInventory ==
    /\ ~converged
    /\ converged' = TRUE
    /\ UNCHANGED <<revision, active, rollback, window, checkpoint, fence,
                   retirement, recovery, outbox>>

PassReservationDeadline(host) ==
    /\ host \in checkpoint.liveAt
    /\ checkpoint' = [checkpoint EXCEPT !.liveAt = @ \ {host}]
    /\ UNCHANGED <<revision, active, rollback, window, fence, retirement,
                   recovery, outbox, converged>>

PassWindowDeadline(host) ==
    /\ host \in window.openAt
    /\ window' = [window EXCEPT !.openAt = @ \ {host}]
    /\ UNCHANGED <<revision, active, rollback, checkpoint, fence, retirement,
                   recovery, outbox, converged>>

(* A recovery grants its execution lease no earlier an expiry than its own. *)
PassFenceLease ==
    /\ fence.live
    /\ ~LiveRecovery
    /\ fence' = [fence EXCEPT !.live = FALSE]
    /\ UNCHANGED <<revision, active, rollback, window, checkpoint, retirement,
                   recovery, outbox, converged>>

PassRecoveryDeadline ==
    /\ LiveRecovery
    /\ recovery' = [recovery EXCEPT !.live = FALSE]
    /\ UNCHANGED <<revision, active, rollback, window, checkpoint, fence,
                   retirement, outbox, converged>>

-----------------------------------------------------------------------------
(* A stale expected revision, token or ticket is an early return, so the   *)
(* unrestricted callers pass the current ones here; DeploymentSupervisor   *)
(* passes what its processes read earlier.                                 *)
PointerStep ==
    \/ \E base, target \in Generations, quarantine \in BOOLEAN :
           base # target /\ Promote(revision, fence.token, base, target, quarantine)
    \/ \E host \in Hosts : Rollback(host, revision, fence.token)
    \/ \E g \in Generations : ReserveRollbackRetirement(revision, g)
    \/ \E g \in Generations : CloseRollback(revision, g)

RetirementStep ==
    \/ \E g \in Generations : ReserveGenerationRetirement(g)
    \/ \E g \in Generations : CompleteGenerationRetirement(g)

CheckpointStep ==
    \E host \in Hosts :
        \/ \E step \in Steps, id \in ReservationIds :
               ReserveTransitionStep(host, revision, step, id)
        \/ \E step \in Steps :
               ReleaseTransitionStep(host, TicketFor(step, checkpoint.reservationId))
        \/ \E step \in Steps :
               CompleteTransitionStep(host, TicketFor(step, checkpoint.reservationId))

RecoveryStep ==
    \/ \E initial \in BOOLEAN :
           ReserveWorkerRecoveryActivation(revision, fence.token,
               fence.promotionRevision, active, initial)
    \/ CompleteWorkerRecoveryActivation(recovery.token)
    \/ ExpireWorkerRecoveryActivation

WorldStep ==
    \/ ConvergeInventory
    \/ \E host \in Hosts : PassReservationDeadline(host)
    \/ \E host \in Hosts : PassWindowDeadline(host)
    \/ PassFenceLease
    \/ PassRecoveryDeadline

Next == PointerStep \/ RetirementStep \/ CheckpointStep \/ RecoveryStep \/ WorldStep

Spec == Init /\ [][Next]_vars

-----------------------------------------------------------------------------
(* Types. *)

CheckpointType ==
    [kind : Kinds \cup {"null"}, revision : Nat,
     active : Generations \cup {NoGeneration},
     previous : Generations \cup {NoGeneration}, completed : Nat,
     reservedStep : Steps \cup {"none"},
     reservationId : ReservationIds \cup {NoReservation}, liveAt : SUBSET Hosts]

WindowType ==
    [state : {"not-applicable", "open", "retirement-reserved", "closed"},
     openAt : SUBSET Hosts, retired : Generations \cup {NoGeneration},
     cleanup : {"blocked", "eligible"}]

FenceType ==
    [generation : Generations, token : 1..MaxToken, owner : {"supplied", "recovery"},
     live : BOOLEAN, promotionRevision : Nat]

RecoveryType ==
    [state : {"none", "reserved", "completed", "expired"}, live : BOOLEAN,
     generation : Generations, revision : Nat, token : Nat, promotionRevision : Nat]

ReceiptType ==
    [operation : {"promote", "rollback", "close-rollback", "reserve-rollback-retirement"},
     revision : Nat, active : Generations, previous : Generations, token : Nat]

(* The rows hold values of the columns' types. *)
TypeOK ==
    /\ revision \in 0..MaxRevision
    /\ active \in Generations
    /\ rollback \in Generations \cup {NoGeneration}
    /\ window \in WindowType
    /\ checkpoint \in CheckpointType
    /\ fence \in FenceType
    /\ retirement \in [Generations -> {"none", "reserved", "completed"}]
    /\ recovery \in RecoveryType
    /\ outbox \in Seq(ReceiptType)
    /\ converged \in BOOLEAN

-----------------------------------------------------------------------------
(* Safety. *)

(* The validator checkpoint() accepts every row the transactions can write *)
(* (it throws INPUT_INVALID from every later read otherwise): the persisted *)
(* checkpoint belongs to this revision and pointer, its completed steps are *)
(* a prefix of its kind, and only the next step can be reserved.            *)
CheckpointReadable ==
    HasCheckpoint =>
        /\ checkpoint.revision = revision
        /\ checkpoint.active = active
        /\ checkpoint.previous \in Generations
        /\ IF checkpoint.kind = "promote-retire-previous"
           THEN rollback = NoGeneration
           ELSE checkpoint.previous = rollback
        /\ checkpoint.completed <= Len(StepsOf(checkpoint.kind))
        /\ checkpoint.reservedStep # "none" =>
               HasNextStep /\ checkpoint.reservedStep = NextStep
        /\ (checkpoint.reservedStep = "none") <=> (checkpoint.reservationId = NoReservation)

(* Execution authority never parts from the deployment pointer: the fence   *)
(* names the active generation through every promotion, rollback, closure   *)
(* and recovery, and its promotion revision is that of the last receipt     *)
(* that moved the pointer.                                                  *)
FenceFollowsPointer ==
    /\ fence.generation = active
    /\ fence.promotionRevision <= revision
    /\ fence.promotionRevision > 0 =>
           LET r == outbox[fence.promotionRevision]
           IN  /\ r.operation \in {"promote", "rollback"}
               /\ r.active = active
               /\ r.token <= fence.token
    /\ \A i \in (fence.promotionRevision + 1)..revision :
           outbox[i].operation \notin {"promote", "rollback"}

(* A tombstone is permanent, so it never covers a generation the deployment *)
(* may still run: not the active one, and the rollback generation only from *)
(* the moment its window is reserved for retirement (and then it always     *)
(* has one).                                                                *)
TombstonesSpareLiveGenerations ==
    /\ retirement[active] = "none"
    /\ rollback # NoGeneration =>
           /\ rollback # active
           /\ (retirement[rollback] # "none") <=> (window.state = "retirement-reserved")
    /\ checkpoint.kind = "promote-retire-previous" => retirement[checkpoint.previous] # "none"

(* The rollback window and the pointer agree about whether a generation is  *)
(* retained, and a window under retirement owns the checkpoint.             *)
WindowMatchesPointer ==
    /\ (window.state = "not-applicable") <=> (revision = 0)
    /\ (window.state \in {"open", "retirement-reserved"}) <=> (rollback # NoGeneration)
    /\ (window.state = "retirement-reserved") <=> (checkpoint.kind = "retire-rollback")
    /\ checkpoint.kind = "promote-retire-previous" =>
           window.state = "closed" /\ window.retired = checkpoint.previous

(* Contract migrations (assertContractCleanup) become eligible only once    *)
(* the generation whose data they break has a completed tombstone, and they *)
(* stay blocked while any generation is retained for rollback.              *)
CleanupOnlyAfterRetirement ==
    window.cleanup = "eligible" =>
        /\ window.state = "closed"
        /\ rollback = NoGeneration
        /\ window.retired # active
        /\ retirement[window.retired] = "completed"

(* A live worker recovery always matches the deployment it was reserved     *)
(* for, so assertRecoveryAuthority cannot reject it: no promotion, rollback, *)
(* closure or transition step gets between its reservation and its          *)
(* completion, and an external step and a live recovery never coexist.      *)
LiveRecoveryIsCurrent ==
    LiveRecovery =>
        /\ RecoveryMatches(recovery)
        /\ checkpoint.reservedStep = "none"
        /\ fence.live

(* Every committed revision has exactly its receipt, and a receipt's token  *)
(* grows whenever the receipt moved the pointer: a consumer that applies    *)
(* receipts in revision order never sees authority go backwards.            *)
ReceiptsOrderAuthority ==
    /\ Len(outbox) = revision
    /\ \A i \in 1..revision : outbox[i].revision = i
    /\ \A i, j \in 1..revision :
           i < j => IF outbox[j].operation \in {"promote", "rollback"}
                    THEN outbox[i].token < outbox[j].token
                    ELSE outbox[i].token <= outbox[j].token

(* Pointer, fence, window, receipts and recovery tell one story, whichever  *)
(* transactions wrote them in which order.                                  *)
AuthorityIsConsistent ==
    /\ FenceFollowsPointer
    /\ WindowMatchesPointer
    /\ LiveRecoveryIsCurrent
    /\ ReceiptsOrderAuthority

(* What is destroyed is never live, and what destroys the data of a         *)
(* generation waits until it is.                                            *)
RetirementIsOrdered ==
    /\ TombstonesSpareLiveGenerations
    /\ CleanupOnlyAfterRetirement

-----------------------------------------------------------------------------
(* Action properties. *)

AuthorityVars == <<revision, active, rollback, fence.token, fence.generation,
                   fence.owner, fence.promotionRevision>>

(* While an external step is reserved nothing the ticket names can move,    *)
(* even after the reservation has expired: only completing, releasing or    *)
(* taking over that step can follow.                                        *)
ReservedStepFreezesAuthority ==
    [][checkpoint.reservedStep # "none" =>
          /\ AuthorityVars' = AuthorityVars
          /\ checkpoint'.kind = checkpoint.kind
          /\ \/ checkpoint'.reservedStep = checkpoint.reservedStep
             \/ checkpoint'.reservedStep = "none"]_vars

(* A holder of execution authority is displaced only by a larger token; the *)
(* bootstrap activation alone renames the owner of token 1 in place, once.  *)
AuthorityChangesTakeNewToken ==
    [][/\ fence'.token >= fence.token
       /\ (fence'.generation # fence.generation \/
           fence'.promotionRevision # fence.promotionRevision \/
           (fence'.owner # fence.owner /\ ~(revision = 0 /\ recovery.state = "none")))
             => fence'.token > fence.token]_vars

(* Steps are never undone: a checkpoint loses completed steps only by being *)
(* replaced at a later revision, and a completed tombstone stays completed. *)
ProgressIsDurable ==
    [][/\ checkpoint'.revision = checkpoint.revision =>
             checkpoint'.completed >= checkpoint.completed
       /\ \A g \in Generations :
             /\ retirement[g] # "none" => retirement'[g] # "none"
             /\ retirement[g] = "completed" => retirement'[g] = "completed"]_vars

(* Neither authority nor progress goes back, at any transaction. *)
NothingGoesBack == AuthorityChangesTakeNewToken /\ ProgressIsDurable
=============================================================================
