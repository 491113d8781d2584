---------------------------- MODULE Deployment_proofs ----------------------------
(***************************************************************************)
(* Proofs about StaticDeploymentStore and DeploymentSupervisor, for every  *)
(* number of generations, hosts, revisions, tokens, commands and faults.   *)
(*                                                                         *)
(* The store first.  Its invariants lean on one another (a tombstone is    *)
(* judged by the window, the window by the checkpoint, a live recovery by  *)
(* the fence), so IInv is their conjunction, strengthened by the bound of  *)
(* every receipt's token by the token of the fence.                        *)
(*                                                                         *)
(* Then the supervisors.  Each of their steps is one of a few kinds        *)
(* (SupervisorKind: a process moves on, sends, replaces a container; a     *)
(* worker verifies, acts, is demoted or lost), and SupInv says of every    *)
(* process and message what still holds of the store however long ago they *)
(* read it: what a ticket matches, when a retirement or a drain was        *)
(* authorised, and that this cannot be undone while they are under way.    *)
(***************************************************************************)
EXTENDS DeploymentSupervisor, TLAPS, SequenceTheorems

-----------------------------------------------------------------------------
(* The store. *)

ReceiptsBelowFence == \A i \in 1..revision : outbox[i].token <= fence.token

IInv ==
    /\ TypeOK
    /\ CheckpointReadable
    /\ FenceFollowsPointer
    /\ TombstonesSpareLiveGenerations
    /\ WindowMatchesPointer
    /\ CleanupOnlyAfterRetirement
    /\ LiveRecoveryIsCurrent
    /\ ReceiptsOrderAuthority
    /\ ReceiptsBelowFence

-----------------------------------------------------------------------------
(* Appending a receipt keeps every earlier one in its place. *)
LEMMA AppendReceipt ==
    ASSUME NEW s \in Seq(ReceiptType), NEW r \in ReceiptType
    PROVE  /\ Append(s, r) \in Seq(ReceiptType)
           /\ Len(Append(s, r)) = Len(s) + 1
           /\ \A i \in 1..Len(s) : Append(s, r)[i] = s[i]
           /\ Append(s, r)[Len(s) + 1] = r
  BY AppendProperties

(* Every kind of checkpoint owes a finite number of steps. *)
LEMMA StepsOfLen ==
    ASSUME NEW kind
    PROVE  Len(StepsOf(kind)) \in Nat
  BY DEF StepsOf, SwitchSteps

(* Both the absent checkpoint and a new one of any kind are well typed. *)
LEMMA CheckpointTypes ==
    /\ NoCheckpoint \in CheckpointType
    /\ \A kind \in Kinds, rev \in Nat, act, prev \in Generations :
          NewCheckpoint(kind, rev, act, prev) \in CheckpointType
  BY DEF NoCheckpoint, NewCheckpoint, CheckpointType

(* Reserving, releasing, completing or expiring a step changes fields of a *)
(* checkpoint one at a time. *)
LEMMA CheckpointUpdates ==
    ASSUME NEW c \in CheckpointType
    PROVE  /\ Unreserved(c) \in CheckpointType
           /\ \A n \in Nat : [Unreserved(c) EXCEPT !.completed = n] \in CheckpointType
           /\ \A step \in Steps, id \in ReservationIds :
                 [c EXCEPT !.reservedStep = step, !.reservationId = id,
                           !.liveAt = Hosts] \in CheckpointType
  BY DEF Unreserved, CheckpointType

(* The rows keep the types of their columns through every transaction. *)
LEMMA TypeStep ==
    ASSUME TypeOK, [Next]_vars
    PROVE  TypeOK'
  <1> USE StoreAssumption
  <1>1. ASSUME NEW base \in Generations, NEW target \in Generations, base # target,
               NEW quarantine \in BOOLEAN,
               Promote(revision, fence.token, base, target, quarantine)
        PROVE  TypeOK'
    <2>1. \E kind \in Kinds : checkpoint' = NewCheckpoint(kind, revision + 1, target, active)
      BY <1>1
         DEF Promote, MayPromote, NotRetired, MayCommit, CommitTransition,
             NextToken, Kinds
    <2>2. outbox' = Append(outbox, Receipt("promote", revision + 1, target, active,
                                           fence.token + 1))
      BY <1>1
         DEF Promote, MayPromote, NotRetired, MayCommit, CommitTransition,
             NextToken
    <2>3. revision' = revision + 1 /\ revision' \in 0..MaxRevision
      BY <1>1
         DEF Promote, MayPromote, NotRetired, MayCommit, CommitTransition,
             NextToken, TypeOK
    <2>4. fence' \in FenceType
      <3>1. /\ fence.token < MaxToken
            /\ fence' = [generation |-> target, token |-> fence.token + 1,
                         owner |-> "supplied", live |-> TRUE,
                         promotionRevision |-> revision + 1]
        BY <1>1
           DEF Promote, MayPromote, NotRetired, MayCommit, CommitTransition,
               NextToken
      <3>2. QED BY <3>1 DEF TypeOK, FenceType
    <2>5. window' \in WindowType /\ rollback' \in Generations \cup {NoGeneration}
      BY <1>1
         DEF Promote, MayPromote, NotRetired, MayCommit, CommitTransition,
             NextToken, TypeOK, WindowType
    <2>6. retirement' \in [Generations -> {"none", "reserved", "completed"}]
      BY <1>1 DEF Promote, MayPromote, NotRetired, MayCommit, TypeOK
    <2>7. checkpoint' \in CheckpointType
      BY <2>1, CheckpointTypes DEF TypeOK
    <2>8. outbox' \in Seq(ReceiptType)
      <3>1. Receipt("promote", revision + 1, target, active, fence.token + 1) \in ReceiptType
        BY DEF TypeOK, Receipt, ReceiptType, FenceType
      <3>2. QED BY <2>2, <3>1, AppendReceipt DEF TypeOK
    <2>9. QED BY <1>1, <2>3, <2>4, <2>5, <2>6, <2>7, <2>8
              DEF Promote, MayPromote, NotRetired, MayCommit, CommitTransition,
                  NextToken, TypeOK
  <1>2. ASSUME NEW host \in Hosts, Rollback(host, revision, fence.token)
        PROVE  TypeOK'
    <2>0. rollback \in Generations
      BY <1>2 DEF Rollback, MayRollback, WindowOpenAt, MayCommit, TypeOK
    <2>1. checkpoint' = NewCheckpoint("rollback", revision + 1, rollback, active)
      BY <1>2
         DEF Rollback, MayRollback, WindowOpenAt, MayCommit, CommitTransition,
             NextToken
    <2>2. outbox' = Append(outbox, Receipt("rollback", revision + 1,
                                           rollback, active, fence.token + 1))
      BY <1>2
         DEF Rollback, MayRollback, WindowOpenAt, MayCommit, CommitTransition,
             NextToken
    <2>3. revision' = revision + 1 /\ revision' \in 0..MaxRevision
      BY <1>2
         DEF Rollback, MayRollback, WindowOpenAt, MayCommit, CommitTransition,
             NextToken, TypeOK
    <2>4. fence' \in FenceType
      BY <1>2, <2>0, <2>3
         DEF Rollback, MayRollback, WindowOpenAt, MayCommit, CommitTransition,
             NextToken, TypeOK, FenceType
    <2>5. checkpoint' \in CheckpointType
      BY <2>0, <2>1, CheckpointTypes DEF TypeOK, Kinds
    <2>6. outbox' \in Seq(ReceiptType)
      <3>1. Receipt("rollback", revision + 1, rollback, active, fence.token + 1) \in ReceiptType
        BY <2>0 DEF TypeOK, Receipt, ReceiptType, FenceType
      <3>2. QED BY <2>2, <3>1, AppendReceipt DEF TypeOK
    <2>7. QED BY <1>2, <2>0, <2>3, <2>4, <2>5, <2>6
        DEF Rollback, MayRollback, WindowOpenAt, MayCommit, CommitTransition,
            NextToken, TypeOK
  <1>3. ASSUME NEW g \in Generations, ReserveRollbackRetirement(revision, g)
        PROVE  TypeOK'
    <2>1. Receipt("reserve-rollback-retirement", revision + 1, active, g, fence.token)
              \in ReceiptType
      BY DEF TypeOK, Receipt, ReceiptType, FenceType
    <2>2. outbox' \in Seq(ReceiptType)
      BY <1>3, <2>1, AppendReceipt
         DEF ReserveRollbackRetirement, MayReserveRollbackRetirement,
             NotRetired, TypeOK
    <2>3. checkpoint' \in CheckpointType
      <3>1. checkpoint' = NewCheckpoint("retire-rollback", revision + 1, active, g)
        BY <1>3
           DEF ReserveRollbackRetirement, MayReserveRollbackRetirement,
               NotRetired
      <3>2. QED BY <3>1, CheckpointTypes DEF TypeOK, Kinds
    <2>4. window' \in WindowType
      BY <1>3
         DEF ReserveRollbackRetirement, MayReserveRollbackRetirement,
             NotRetired, TypeOK, WindowType
    <2>5. QED BY <1>3, <2>2, <2>3, <2>4
        DEF ReserveRollbackRetirement, MayReserveRollbackRetirement, NotRetired,
            TypeOK
  <1>4. ASSUME NEW g \in Generations, CloseRollback(revision, g)
        PROVE  TypeOK'
    <2>1. Receipt("close-rollback", revision + 1, active, g, fence.token) \in ReceiptType
      BY DEF TypeOK, Receipt, ReceiptType, FenceType
    <2>2. outbox' \in Seq(ReceiptType)
      BY <1>4, <2>1, AppendReceipt
         DEF CloseRollback, MayCloseRollback, Retired, TypeOK
    <2>3. checkpoint' \in CheckpointType
      BY <1>4, CheckpointTypes DEF CloseRollback, MayCloseRollback, Retired
    <2>4. window' \in WindowType
      BY <1>4 DEF CloseRollback, MayCloseRollback, Retired, WindowType
    <2>5. QED BY <1>4, <2>2, <2>3, <2>4
        DEF CloseRollback, MayCloseRollback, Retired, TypeOK
  <1>5. ASSUME NEW g \in Generations,
               ReserveGenerationRetirement(g) \/ CompleteGenerationRetirement(g)
        PROVE  TypeOK'
    BY <1>5 DEF ReserveGenerationRetirement, CompleteGenerationRetirement, TypeOK
  <1>6. ASSUME NEW host \in Hosts, NEW step \in Steps, NEW id \in ReservationIds,
               ReserveTransitionStep(host, revision, step, id)
        PROVE  TypeOK'
    <2>1. checkpoint' \in CheckpointType
      BY <1>6, CheckpointUpdates
         DEF ReserveTransitionStep, MayReserveTransitionStep, TypeOK
    <2>2. QED BY <1>6, <2>1
        DEF ReserveTransitionStep, MayReserveTransitionStep, TypeOK
  <1>7. ASSUME NEW host \in Hosts, NEW step \in Steps,
               ReleaseTransitionStep(host,
                                     TicketFor(step, checkpoint.reservationId))
        PROVE  TypeOK'
    <2>1. checkpoint' \in CheckpointType
      BY <1>7, CheckpointUpdates DEF ReleaseTransitionStep, TypeOK
    <2>2. QED BY <1>7, <2>1 DEF ReleaseTransitionStep, TypeOK
  <1>8. ASSUME NEW host \in Hosts, NEW step \in Steps,
               CompleteTransitionStep(host,
                                      TicketFor(step, checkpoint.reservationId))
        PROVE  TypeOK'
    <2>1. checkpoint' = [Unreserved(checkpoint) EXCEPT !.completed = checkpoint.completed + 1]
      BY <1>8
         DEF CompleteTransitionStep, MayCompleteTransitionStep,
             WithStepCompleted, RecoveryRetired, CheckpointColumnCheck,
             JsonNull, NoCheckpoint
    <2>2. checkpoint' \in CheckpointType
      <3>1. checkpoint.completed + 1 \in Nat
        BY DEF TypeOK, CheckpointType
      <3>2. QED BY <2>1, <3>1, CheckpointUpdates DEF TypeOK
    <2>3. window' \in WindowType
      BY <1>8
         DEF CompleteTransitionStep, MayCompleteTransitionStep,
             WithStepCompleted, RecoveryRetired, TypeOK, WindowType
    <2>4. QED BY <1>8, <2>2, <2>3
        DEF CompleteTransitionStep, MayCompleteTransitionStep,
            WithStepCompleted, RecoveryRetired, TypeOK
  <1>9. ASSUME NEW initial \in BOOLEAN,
               ReserveWorkerRecoveryActivation(revision, fence.token,
                   fence.promotionRevision, active, initial)
        PROVE  TypeOK'
    <2>1. PICK token \in 1..MaxToken :
             /\ fence' = [fence EXCEPT !.token = token, !.owner = "recovery", !.live = TRUE]
             /\ recovery' = [state |-> "reserved", live |-> TRUE, generation |-> active,
                             revision |-> revision, token |-> token,
                             promotionRevision |-> fence.promotionRevision]
      <3>1. fence.token \in 1..MaxToken /\ (fence.token < MaxToken => fence.token + 1 \in 1..MaxToken)
        BY DEF TypeOK, FenceType
      <3> DEFINE keeps == /\ initial
                          /\ revision = 0
                          /\ fence.token = 1
                          /\ fence.live
                          /\ recovery.state = "none"
                 t == IF keeps THEN fence.token ELSE fence.token + 1
      <3>2. /\ keeps \/ fence.token < MaxToken
            /\ fence' = [fence EXCEPT !.token = t, !.owner = "recovery", !.live = TRUE]
            /\ recovery' = [state |-> "reserved", live |-> TRUE, generation |-> active,
                            revision |-> revision, token |-> t,
                            promotionRevision |-> fence.promotionRevision]
        BY <1>9, Zenon
           DEF ReserveWorkerRecoveryActivation, MayReserveRecovery, NextToken,
               KeepsToken
      <3>3. t \in 1..MaxToken
        BY <3>1, <3>2
      <3>4. QED BY <3>2, <3>3, Zenon
    <2>2. fence' \in FenceType
      BY <2>1 DEF TypeOK, FenceType
    <2>3. recovery' \in RecoveryType
      BY <2>1 DEF TypeOK, FenceType, RecoveryType
    <2>4. QED BY <1>9, <2>2, <2>3
        DEF ReserveWorkerRecoveryActivation, MayReserveRecovery, NextToken,
            KeepsToken, TypeOK
  <1>10. CASE CompleteWorkerRecoveryActivation(recovery.token) \/ ExpireWorkerRecoveryActivation
    <2>1. recovery' \in RecoveryType
      BY <1>10 DEF CompleteWorkerRecoveryActivation, ExpireWorkerRecoveryActivation,
         TypeOK, RecoveryType
    <2>2. QED BY <1>10, <2>1 DEF CompleteWorkerRecoveryActivation,
              ExpireWorkerRecoveryActivation, TypeOK
  <1>11. CASE WorldStep
    <2>1. ASSUME NEW host \in Hosts, PassReservationDeadline(host)
          PROVE  TypeOK'
      <3>1. checkpoint' \in CheckpointType
        <4>1. checkpoint.liveAt \ {host} \in SUBSET Hosts
          BY DEF TypeOK, CheckpointType
        <4>2. QED BY <2>1, <4>1 DEF PassReservationDeadline, TypeOK, CheckpointType
      <3>2. QED BY <2>1, <3>1 DEF PassReservationDeadline, TypeOK
    <2>2. ASSUME NEW host \in Hosts, PassWindowDeadline(host)
          PROVE  TypeOK'
      <3>1. window' \in WindowType
        BY <2>2 DEF PassWindowDeadline, TypeOK, WindowType
      <3>2. QED BY <2>2, <3>1 DEF PassWindowDeadline, TypeOK
    <2>3. CASE ConvergeInventory
      BY <2>3 DEF ConvergeInventory, TypeOK
    <2>4. CASE PassFenceLease
      BY <2>4 DEF PassFenceLease, TypeOK, FenceType
    <2>5. CASE PassRecoveryDeadline
      BY <2>5 DEF PassRecoveryDeadline, TypeOK, RecoveryType
    <2>6. QED BY <1>11, <2>1, <2>2, <2>3, <2>4, <2>5 DEF WorldStep
  <1>12. CASE UNCHANGED vars
    BY <1>12 DEF vars, TypeOK
  <1>13. QED
    BY <1>1, <1>2, <1>3, <1>4, <1>5, <1>6, <1>7, <1>8, <1>9, <1>10, <1>11, <1>12
    DEF Next, PointerStep, RetirementStep, CheckpointStep, RecoveryStep

(* The tables hold typed rows in every state the store can reach. *)
THEOREM TypeCorrect == Spec => []TypeOK
  <1>1. Init => TypeOK
    BY StoreAssumption, CheckpointTypes
    DEF Init, TypeOK, WindowType, FenceType, RecoveryType, NoRecovery
  <1>2. TypeOK /\ [Next]_vars => TypeOK'
    BY TypeStep
  <1>3. QED BY <1>1, <1>2, PTL DEF Spec

-----------------------------------------------------------------------------
(* The inductive invariant, one conjunct at a time. *)

(* No transaction leaves a checkpoint that checkpoint() would reject. *)
LEMMA CheckpointReadableStep ==
    ASSUME TypeOK, CheckpointReadable, [Next]_vars
    PROVE  CheckpointReadable'
  <1> USE StoreAssumption
  <1> DEFINE dependsOn == <<revision, active, rollback, checkpoint>>
  <1>0. ASSUME NEW kind \in Kinds, NEW act \in Generations,
               NEW prev \in Generations,
               checkpoint' = NewCheckpoint(kind, revision', act, prev),
               active' = act,
               IF kind = "promote-retire-previous" THEN rollback' = NoGeneration
                                                   ELSE rollback' = prev
        PROVE  CheckpointReadable'
    BY <1>0, StepsOfLen DEF CheckpointReadable, NewCheckpoint, HasCheckpoint
  <1>1. ASSUME NEW base \in Generations, NEW target \in Generations, base # target,
               NEW quarantine \in BOOLEAN,
               Promote(revision, fence.token, base, target, quarantine)
        PROVE  CheckpointReadable'
    <2>1. base = active /\ active' = target
      BY <1>1
         DEF Promote, MayPromote, NotRetired, MayCommit, CommitTransition,
             NextToken
    <2>2. CASE quarantine
      <3>1. /\ checkpoint' = NewCheckpoint("promote-retire-previous", revision', target, base)
            /\ rollback' = NoGeneration
        BY <1>1, <2>2
           DEF Promote, MayPromote, NotRetired, MayCommit, CommitTransition,
               NextToken
      <3>2. QED BY <1>0, <2>1, <3>1 DEF Kinds
    <2>3. CASE ~quarantine
      <3>1. checkpoint' = NewCheckpoint("promote", revision', target, base) /\ rollback' = base
        BY <1>1, <2>3
           DEF Promote, MayPromote, NotRetired, MayCommit, CommitTransition,
               NextToken
      <3>2. QED BY <1>0, <2>1, <3>1 DEF Kinds
    <2>4. QED BY <2>2, <2>3
  <1>2. ASSUME NEW host \in Hosts, Rollback(host, revision, fence.token)
        PROVE  CheckpointReadable'
    <2>1. PICK act \in Generations, prev \in Generations : act = rollback /\ prev = active
      BY <1>2 DEF Rollback, MayRollback, WindowOpenAt, MayCommit, TypeOK
    <2>2. /\ checkpoint' = NewCheckpoint("rollback", revision', act, prev)
          /\ active' = act /\ rollback' = prev
      BY <1>2, <2>1
         DEF Rollback, MayRollback, WindowOpenAt, MayCommit, CommitTransition,
             NextToken
    <2>3. QED BY <1>0, <2>2 DEF Kinds
  <1>3. ASSUME NEW g \in Generations, ReserveRollbackRetirement(revision, g)
        PROVE  CheckpointReadable'
    <2>1. PICK act \in Generations : act = active
      BY DEF TypeOK
    <2>2. /\ checkpoint' = NewCheckpoint("retire-rollback", revision', act, g)
          /\ active' = act /\ rollback' = g
      BY <1>3, <2>1
         DEF ReserveRollbackRetirement, MayReserveRollbackRetirement, NotRetired
    <2>3. QED BY <1>0, <2>2 DEF Kinds
  <1>4. ASSUME NEW g \in Generations, CloseRollback(revision, g)
        PROVE  CheckpointReadable'
    BY <1>4
       DEF CloseRollback, MayCloseRollback, Retired, CheckpointReadable,
           HasCheckpoint, NoCheckpoint
  <1>5. ASSUME NEW g \in Generations,
               ReserveGenerationRetirement(g) \/ CompleteGenerationRetirement(g)
        PROVE  UNCHANGED dependsOn
    BY <1>5 DEF ReserveGenerationRetirement, CompleteGenerationRetirement
  <1>6. ASSUME NEW host \in Hosts, NEW step \in Steps, NEW id \in ReservationIds,
               ReserveTransitionStep(host, revision, step, id)
        PROVE  CheckpointReadable'
    <2>1. /\ checkpoint'.reservedStep = step /\ checkpoint'.reservationId = id
          /\ checkpoint'.kind = checkpoint.kind
          /\ checkpoint'.revision = checkpoint.revision
          /\ checkpoint'.active = checkpoint.active
          /\ checkpoint'.previous = checkpoint.previous
          /\ checkpoint'.completed = checkpoint.completed
      BY <1>6
         DEF ReserveTransitionStep, MayReserveTransitionStep, TypeOK,
             CheckpointType
    <2>2. HasNextStep /\ step = NextStep /\ id # NoReservation /\ step # "none"
      BY <1>6 DEF ReserveTransitionStep, MayReserveTransitionStep, Steps
    <2>3. UNCHANGED <<revision, active, rollback>>
      BY <1>6 DEF ReserveTransitionStep, MayReserveTransitionStep
    <2>4. QED BY <2>1, <2>2, <2>3
              DEF CheckpointReadable, HasCheckpoint, HasNextStep, NextStep
  <1>7. ASSUME NEW host \in Hosts, NEW step \in Steps,
               ReleaseTransitionStep(host,
                                     TicketFor(step, checkpoint.reservationId))
        PROVE  CheckpointReadable'
    <2>1. /\ checkpoint'.reservedStep = "none"
          /\ checkpoint'.reservationId = NoReservation
          /\ checkpoint'.kind = checkpoint.kind
          /\ checkpoint'.revision = checkpoint.revision
          /\ checkpoint'.active = checkpoint.active
          /\ checkpoint'.previous = checkpoint.previous
          /\ checkpoint'.completed = checkpoint.completed
      BY <1>7 DEF ReleaseTransitionStep, Unreserved, TypeOK, CheckpointType
    <2>2. UNCHANGED <<revision, active, rollback>>
      BY <1>7 DEF ReleaseTransitionStep
    <2>3. QED BY <2>1, <2>2
        DEF CheckpointReadable, HasCheckpoint, HasNextStep, NextStep
  <1>8. ASSUME NEW host \in Hosts, NEW step \in Steps,
               CompleteTransitionStep(host,
                                      TicketFor(step, checkpoint.reservationId))
        PROVE  CheckpointReadable'
    <2>1. checkpoint' = [Unreserved(checkpoint) EXCEPT !.completed = checkpoint.completed + 1]
      BY <1>8
         DEF CompleteTransitionStep, MayCompleteTransitionStep,
             WithStepCompleted, RecoveryRetired, CheckpointColumnCheck,
             JsonNull, NoCheckpoint
    <2>2. /\ checkpoint'.reservedStep = "none"
          /\ checkpoint'.reservationId = NoReservation
          /\ checkpoint'.kind = checkpoint.kind
          /\ checkpoint'.revision = checkpoint.revision
          /\ checkpoint'.active = checkpoint.active
          /\ checkpoint'.previous = checkpoint.previous
          /\ checkpoint'.completed = checkpoint.completed + 1
      BY <2>1 DEF Unreserved, TypeOK, CheckpointType
    <2>3. HasNextStep
      <3>1. HasCheckpoint /\ checkpoint.reservedStep = step
        BY <1>8
           DEF CompleteTransitionStep, MayCompleteTransitionStep,
               WithStepCompleted, RecoveryRetired, TicketMatches, TicketFor
      <3>2. step # "none"
        BY DEF Steps
      <3>3. QED BY <3>1, <3>2 DEF CheckpointReadable
    <2>4. checkpoint.completed + 1 <= Len(StepsOf(checkpoint.kind))
      BY <2>3, StepsOfLen DEF HasNextStep, TypeOK, CheckpointType
    <2>5. UNCHANGED <<revision, active, rollback>>
      BY <1>8
         DEF CompleteTransitionStep, MayCompleteTransitionStep,
             WithStepCompleted, RecoveryRetired
    <2>6. QED BY <2>2, <2>4, <2>5 DEF CheckpointReadable, HasCheckpoint
  <1>9. ASSUME NEW host \in Hosts, PassReservationDeadline(host)
        PROVE  CheckpointReadable'
    <2>1. /\ checkpoint'.reservedStep = checkpoint.reservedStep
          /\ checkpoint'.reservationId = checkpoint.reservationId
          /\ checkpoint'.kind = checkpoint.kind
          /\ checkpoint'.revision = checkpoint.revision
          /\ checkpoint'.active = checkpoint.active
          /\ checkpoint'.previous = checkpoint.previous
          /\ checkpoint'.completed = checkpoint.completed
      BY <1>9 DEF PassReservationDeadline, TypeOK, CheckpointType
    <2>2. UNCHANGED <<revision, active, rollback>>
      BY <1>9 DEF PassReservationDeadline
    <2>3. QED BY <2>1, <2>2
        DEF CheckpointReadable, HasCheckpoint, HasNextStep, NextStep
  <1>10. CASE UNCHANGED dependsOn
    BY <1>10 DEF CheckpointReadable, HasCheckpoint, HasNextStep, NextStep
  <1>11. CASE RecoveryStep
    BY <1>10, <1>11
       DEF RecoveryStep, ReserveWorkerRecoveryActivation, MayReserveRecovery,
           NextToken, KeepsToken,
       CompleteWorkerRecoveryActivation, ExpireWorkerRecoveryActivation
  <1>12. CASE WorldStep
    BY <1>9, <1>10, <1>12 DEF WorldStep, ConvergeInventory, PassWindowDeadline,
       PassFenceLease, PassRecoveryDeadline
  <1>13. CASE UNCHANGED vars
    BY <1>10, <1>13 DEF vars
  <1>14. QED
    BY <1>1, <1>2, <1>3, <1>4, <1>5, <1>6, <1>7, <1>8, <1>10, <1>11, <1>12, <1>13
    DEF Next, PointerStep, RetirementStep, CheckpointStep

(* What one transaction can do to execution authority: nothing but raise   *)
(* the token; move the pointer under the next token, with its receipt; or  *)
(* advance the revision with a receipt that carries the current token.     *)
AuthorityKept ==
    /\ UNCHANGED <<revision, outbox, active, rollback>>
    /\ fence'.generation = fence.generation
    /\ fence'.promotionRevision = fence.promotionRevision
    /\ fence'.token >= fence.token

PointerMoved(r) ==
    /\ outbox' = Append(outbox, r)
    /\ revision' = revision + 1
    /\ r.operation \in {"promote", "rollback"}
    /\ r.revision = revision'
    /\ r.active = active'
    /\ r.token = fence'.token
    /\ fence'.token = fence.token + 1
    /\ fence'.generation = active'
    /\ fence'.promotionRevision = revision'

RetirementAdvanced(r) ==
    /\ outbox' = Append(outbox, r)
    /\ revision' = revision + 1
    /\ r.operation \in {"close-rollback", "reserve-rollback-retirement"}
    /\ r.revision = revision'
    /\ r.token = fence.token
    /\ UNCHANGED <<active, fence>>

(* Every step keeps the authority, moves the pointer under the next token, *)
(* or advances a retirement under the present one.                         *)
LEMMA AuthorityEffect ==
    ASSUME TypeOK, [Next]_vars
    PROVE  \/ AuthorityKept
           \/ \E r \in ReceiptType : PointerMoved(r) \/ RetirementAdvanced(r)
  <1> USE StoreAssumption
  <1>1. ASSUME NEW base \in Generations, NEW target \in Generations, base # target,
               NEW quarantine \in BOOLEAN,
               Promote(revision, fence.token, base, target, quarantine)
        PROVE  \E r \in ReceiptType : PointerMoved(r)
    <2>1. PICK r : r = Receipt("promote", revision + 1, target, active, fence.token + 1)
      OBVIOUS
    <2>2. r \in ReceiptType
      BY <2>1 DEF TypeOK, Receipt, ReceiptType, FenceType
    <2>3. PointerMoved(r)
      BY <1>1, <2>1
         DEF Promote, MayPromote, NotRetired, MayCommit, CommitTransition,
             NextToken, PointerMoved, Receipt
    <2>4. QED BY <2>2, <2>3
  <1>2. ASSUME NEW host \in Hosts, Rollback(host, revision, fence.token)
        PROVE  \E r \in ReceiptType : PointerMoved(r)
    <2>1. PICK r : r = Receipt("rollback", revision + 1, rollback, active, fence.token + 1)
      OBVIOUS
    <2>2. r \in ReceiptType
      BY <1>2, <2>1
         DEF Rollback, MayRollback, WindowOpenAt, MayCommit, TypeOK, Receipt,
             ReceiptType, FenceType
    <2>3. PointerMoved(r)
      BY <1>2, <2>1
         DEF Rollback, MayRollback, WindowOpenAt, MayCommit, CommitTransition,
             NextToken, PointerMoved, Receipt
    <2>4. QED BY <2>2, <2>3
  <1>3. ASSUME NEW g \in Generations, ReserveRollbackRetirement(revision, g)
        PROVE  \E r \in ReceiptType : RetirementAdvanced(r)
    <2>1. PICK r : r = Receipt("reserve-rollback-retirement", revision + 1,
                               active, g, fence.token)
      OBVIOUS
    <2>2. r \in ReceiptType
      BY <2>1 DEF TypeOK, Receipt, ReceiptType, FenceType
    <2>3. RetirementAdvanced(r)
      BY <1>3, <2>1
         DEF ReserveRollbackRetirement, MayReserveRollbackRetirement,
             NotRetired, RetirementAdvanced, Receipt
    <2>4. QED BY <2>2, <2>3
  <1>4. ASSUME NEW g \in Generations, CloseRollback(revision, g)
        PROVE  \E r \in ReceiptType : RetirementAdvanced(r)
    <2>1. PICK r : r = Receipt("close-rollback", revision + 1, active, g, fence.token)
      OBVIOUS
    <2>2. r \in ReceiptType
      BY <2>1 DEF TypeOK, Receipt, ReceiptType, FenceType
    <2>3. RetirementAdvanced(r)
      BY <1>4, <2>1
         DEF CloseRollback, MayCloseRollback, Retired, RetirementAdvanced,
             Receipt
    <2>4. QED BY <2>2, <2>3
  <1>5. CASE RetirementStep
    BY <1>5 DEF RetirementStep, ReserveGenerationRetirement,
       CompleteGenerationRetirement, AuthorityKept, TypeOK, FenceType
  <1>6. CASE CheckpointStep
    <2>1. UNCHANGED <<revision, outbox, active, rollback, fence>>
      BY <1>6
         DEF CheckpointStep, ReserveTransitionStep, MayReserveTransitionStep,
             ReleaseTransitionStep,
         CompleteTransitionStep, MayCompleteTransitionStep, WithStepCompleted,
         RecoveryRetired
    <2>2. QED BY <2>1 DEF AuthorityKept, TypeOK, FenceType
  <1>7. CASE RecoveryStep
    <2>1. ASSUME NEW initial \in BOOLEAN,
                 ReserveWorkerRecoveryActivation(revision, fence.token,
                     fence.promotionRevision, active, initial)
          PROVE  AuthorityKept
      BY <2>1
         DEF ReserveWorkerRecoveryActivation, MayReserveRecovery, NextToken,
             KeepsToken, AuthorityKept, TypeOK, FenceType
    <2>2. QED BY <1>7, <2>1 DEF RecoveryStep, CompleteWorkerRecoveryActivation,
              ExpireWorkerRecoveryActivation, AuthorityKept, TypeOK, FenceType
  <1>8. CASE WorldStep
    BY <1>8 DEF WorldStep, ConvergeInventory, PassReservationDeadline,
       PassWindowDeadline, PassFenceLease, PassRecoveryDeadline, AuthorityKept,
       TypeOK, FenceType
  <1>9. CASE UNCHANGED vars
    BY <1>9 DEF vars, AuthorityKept, TypeOK, FenceType
  <1>10. QED
    BY <1>1, <1>2, <1>3, <1>4, <1>5, <1>6, <1>7, <1>8, <1>9 DEF Next, PointerStep

(* The fence and the receipts: what authority says and what was announced. *)
LEMMA AuthorityStep ==
    ASSUME TypeOK, TypeOK', FenceFollowsPointer, ReceiptsOrderAuthority,
           ReceiptsBelowFence, [Next]_vars
    PROVE  FenceFollowsPointer' /\ ReceiptsOrderAuthority' /\ ReceiptsBelowFence'
  <1>0. /\ revision \in Nat /\ fence.token \in Nat /\ fence.promotionRevision \in Nat
        /\ fence'.token \in Nat /\ Len(outbox) = revision
        /\ \A i \in 1..revision : outbox[i].token \in Nat /\ outbox[i] \in ReceiptType
    <2>1. \A i \in 1..Len(outbox) : outbox[i] \in ReceiptType
      BY DEF TypeOK
    <2>2. QED BY <2>1, StoreAssumption
              DEF TypeOK, FenceType, ReceiptType, ReceiptsOrderAuthority
  <1>1. CASE AuthorityKept
    BY <1>0, <1>1 DEF AuthorityKept, FenceFollowsPointer, ReceiptsOrderAuthority,
       ReceiptsBelowFence
  <1>2. ASSUME NEW r \in ReceiptType, outbox' = Append(outbox, r),
               revision' = revision + 1
        PROVE  /\ Len(outbox') = revision'
               /\ \A i \in 1..revision : outbox'[i] = outbox[i]
               /\ outbox'[revision + 1] = r
               /\ 1..revision' = (1..revision) \cup {revision + 1}
    <2>1. outbox \in Seq(ReceiptType)
      BY DEF TypeOK
    <2>2. /\ Len(outbox') = Len(outbox) + 1
          /\ \A i \in 1..Len(outbox) : outbox'[i] = outbox[i]
          /\ outbox'[Len(outbox) + 1] = r
      BY <1>2, <2>1, AppendReceipt
    <2>3. 1..revision' = (1..revision) \cup {revision + 1}
      BY <1>0, <1>2
    <2>4. QED BY <1>0, <1>2, <2>2, <2>3
  <1>3. ASSUME NEW r \in ReceiptType, PointerMoved(r)
        PROVE  FenceFollowsPointer' /\ ReceiptsOrderAuthority' /\ ReceiptsBelowFence'
    <2>1. /\ Len(outbox') = revision'
          /\ \A i \in 1..revision : outbox'[i] = outbox[i]
          /\ outbox'[revision'] = r
          /\ 1..revision' = (1..revision) \cup {revision'}
          /\ revision' = revision + 1
      BY <1>2, <1>3 DEF PointerMoved
    <2>2. FenceFollowsPointer'
      BY <1>0, <1>3, <2>1 DEF PointerMoved, FenceFollowsPointer
    <2>3. ReceiptsBelowFence'
      BY <1>0, <1>3, <2>1 DEF PointerMoved, ReceiptsBelowFence
    <2>4. ReceiptsOrderAuthority'
      BY <1>0, <1>3, <2>1
         DEF PointerMoved, ReceiptsBelowFence, ReceiptsOrderAuthority
    <2>5. QED BY <2>2, <2>3, <2>4
  <1>4. ASSUME NEW r \in ReceiptType, RetirementAdvanced(r)
        PROVE  FenceFollowsPointer' /\ ReceiptsOrderAuthority' /\ ReceiptsBelowFence'
    <2>1. /\ Len(outbox') = revision'
          /\ \A i \in 1..revision : outbox'[i] = outbox[i]
          /\ outbox'[revision'] = r
          /\ 1..revision' = (1..revision) \cup {revision'}
          /\ revision' = revision + 1
      BY <1>2, <1>4 DEF RetirementAdvanced
    <2>2. FenceFollowsPointer'
      BY <1>0, <1>4, <2>1 DEF RetirementAdvanced, FenceFollowsPointer
    <2>3. ReceiptsBelowFence'
      BY <1>0, <1>4, <2>1 DEF RetirementAdvanced, ReceiptsBelowFence
    <2>4. ReceiptsOrderAuthority'
      BY <1>0, <1>4, <2>1
         DEF RetirementAdvanced, ReceiptsBelowFence, ReceiptsOrderAuthority
    <2>5. QED BY <2>2, <2>3, <2>4
  <1>5. QED BY <1>1, <1>3, <1>4, AuthorityEffect

(* Reserving, releasing, completing and expiring steps move no pointer and  *)
(* leave the identity of the checkpoint alone. *)
LEMMA CheckpointStepFrame ==
    ASSUME TypeOK,
    CheckpointStep \/ (\E host \in Hosts : PassReservationDeadline(host))
    PROVE  /\ UNCHANGED <<revision, active, rollback, window, fence, retirement,
                          recovery, outbox, converged>>
           /\ checkpoint'.kind = checkpoint.kind
           /\ checkpoint'.revision = checkpoint.revision
           /\ checkpoint'.previous = checkpoint.previous
           /\ checkpoint'.active = checkpoint.active
           /\ checkpoint'.completed >= checkpoint.completed
  <1>1. ASSUME NEW host \in Hosts, NEW step \in Steps,
               CompleteTransitionStep(host,
                                      TicketFor(step, checkpoint.reservationId))
        PROVE  /\ UNCHANGED <<revision, active, rollback, window, fence, retirement,
                              recovery, outbox, converged>>
               /\ checkpoint' = [Unreserved(checkpoint) EXCEPT
                                    !.completed = checkpoint.completed + 1]
    BY <1>1
       DEF CompleteTransitionStep, MayCompleteTransitionStep, WithStepCompleted,
           RecoveryRetired, CheckpointColumnCheck, JsonNull, NoCheckpoint
  <1>2. checkpoint.completed \in Nat
    BY DEF TypeOK, CheckpointType
  <1>3. ASSUME NEW host \in Hosts, NEW step \in Steps,
               CompleteTransitionStep(host,
                                      TicketFor(step, checkpoint.reservationId))
        PROVE  /\ checkpoint'.kind = checkpoint.kind
               /\ checkpoint'.revision = checkpoint.revision
               /\ checkpoint'.previous = checkpoint.previous
               /\ checkpoint'.active = checkpoint.active
               /\ checkpoint'.completed = checkpoint.completed + 1
    BY <1>1, <1>3 DEF Unreserved, TypeOK, CheckpointType
  <1>4. ASSUME NEW host \in Hosts,
               \/ \E step \in Steps, id \in ReservationIds :
                      ReserveTransitionStep(host, revision, step, id)
               \/ \E step \in Steps :
                      ReleaseTransitionStep(host,
                                            TicketFor(step, checkpoint.reservationId))
               \/ PassReservationDeadline(host)
        PROVE  /\ UNCHANGED <<revision, active, rollback, window, fence, retirement,
                              recovery, outbox, converged>>
               /\ checkpoint'.kind = checkpoint.kind
               /\ checkpoint'.revision = checkpoint.revision
               /\ checkpoint'.previous = checkpoint.previous
               /\ checkpoint'.active = checkpoint.active
               /\ checkpoint'.completed = checkpoint.completed
    <2>1. ASSUME NEW step \in Steps, NEW id \in ReservationIds,
                 ReserveTransitionStep(host, revision, step, id)
          PROVE  /\ checkpoint'.kind = checkpoint.kind
               /\ checkpoint'.revision = checkpoint.revision
               /\ checkpoint'.previous = checkpoint.previous
               /\ checkpoint'.active = checkpoint.active
               /\ checkpoint'.completed = checkpoint.completed
      BY <2>1
         DEF ReserveTransitionStep, MayReserveTransitionStep, TypeOK,
             CheckpointType
    <2>2. ASSUME NEW step \in Steps,
                 ReleaseTransitionStep(host,
                                       TicketFor(step, checkpoint.reservationId))
          PROVE  /\ checkpoint'.kind = checkpoint.kind
               /\ checkpoint'.revision = checkpoint.revision
               /\ checkpoint'.previous = checkpoint.previous
               /\ checkpoint'.active = checkpoint.active
               /\ checkpoint'.completed = checkpoint.completed
      BY <2>2 DEF ReleaseTransitionStep, Unreserved, TypeOK, CheckpointType
    <2>3. ASSUME PassReservationDeadline(host)
          PROVE  /\ checkpoint'.kind = checkpoint.kind
               /\ checkpoint'.revision = checkpoint.revision
               /\ checkpoint'.previous = checkpoint.previous
               /\ checkpoint'.active = checkpoint.active
               /\ checkpoint'.completed = checkpoint.completed
      BY <2>3 DEF PassReservationDeadline, TypeOK, CheckpointType
    <2>4. UNCHANGED <<revision, active, rollback, window, fence, retirement,
                      recovery, outbox, converged>>
      BY <1>4
         DEF ReserveTransitionStep, MayReserveTransitionStep,
             ReleaseTransitionStep, PassReservationDeadline
    <2>5. QED BY <1>4, <2>1, <2>2, <2>3, <2>4
  <1>5. QED BY <1>1, <1>2, <1>3, <1>4 DEF CheckpointStep

(* The window tells whether a generation is retained. *)
LEMMA WindowStep ==
    ASSUME TypeOK, WindowMatchesPointer, [Next]_vars
    PROVE  WindowMatchesPointer'
  <1> USE StoreAssumption
  <1>1. ASSUME NEW base \in Generations, NEW target \in Generations, base # target,
               NEW quarantine \in BOOLEAN,
               Promote(revision, fence.token, base, target, quarantine)
        PROVE  WindowMatchesPointer'
    <2>1. revision' = revision + 1 /\ checkpoint'.previous = active /\ active # NoGeneration
      BY <1>1
         DEF Promote, MayPromote, NotRetired, MayCommit, CommitTransition,
             NextToken, NewCheckpoint, TypeOK
    <2>2. CASE quarantine
      <3>1. /\ window'.state = "closed" /\ window'.retired = active
            /\ rollback' = NoGeneration /\ checkpoint'.kind = "promote-retire-previous"
        BY <1>1, <2>2
           DEF Promote, MayPromote, NotRetired, MayCommit, CommitTransition,
               NextToken, NewCheckpoint
      <3>2. QED BY <2>1, <3>1 DEF TypeOK, WindowMatchesPointer
    <2>3. CASE ~quarantine
      <3>1. /\ window'.state = "open" /\ rollback' = active /\ checkpoint'.kind = "promote"
        BY <1>1, <2>3
           DEF Promote, MayPromote, NotRetired, MayCommit, CommitTransition,
               NextToken, NewCheckpoint
      <3>2. QED BY <2>1, <3>1 DEF TypeOK, WindowMatchesPointer
    <2>4. QED BY <2>2, <2>3
  <1>2. ASSUME NEW host \in Hosts, Rollback(host, revision, fence.token)
        PROVE  WindowMatchesPointer'
    BY <1>2
       DEF Rollback, MayRollback, WindowOpenAt, MayCommit, CommitTransition,
           NextToken, NewCheckpoint, TypeOK, WindowMatchesPointer
  <1>3. ASSUME NEW g \in Generations, ReserveRollbackRetirement(revision, g)
        PROVE  WindowMatchesPointer'
    <2>1. /\ window'.state = "retirement-reserved"
          /\ checkpoint'.kind = "retire-rollback"
          /\ rollback' = rollback /\ rollback # NoGeneration
          /\ revision' = revision + 1
      BY <1>3
         DEF ReserveRollbackRetirement, MayReserveRollbackRetirement,
             NotRetired, NewCheckpoint, TypeOK, WindowType
    <2>2. QED BY <2>1 DEF TypeOK, WindowMatchesPointer
  <1>4. ASSUME NEW g \in Generations, CloseRollback(revision, g)
        PROVE  WindowMatchesPointer'
    <2>1. /\ window'.state = "closed" /\ rollback' = NoGeneration
          /\ checkpoint'.kind = "null" /\ revision' = revision + 1
      BY <1>4 DEF CloseRollback, MayCloseRollback, Retired, NoCheckpoint
    <2>2. QED BY <2>1 DEF TypeOK, WindowMatchesPointer
  <1>5. CASE CheckpointStep \/ (\E host \in Hosts : PassReservationDeadline(host))
    BY <1>5, CheckpointStepFrame DEF WindowMatchesPointer
  <1>6. ASSUME NEW host \in Hosts, PassWindowDeadline(host)
        PROVE  WindowMatchesPointer'
    <2>1. /\ window'.state = window.state /\ window'.retired = window.retired
          /\ UNCHANGED <<revision, rollback, checkpoint>>
      BY <1>6 DEF PassWindowDeadline, TypeOK, WindowType
    <2>2. QED BY <2>1 DEF WindowMatchesPointer
  <1>7. CASE UNCHANGED <<revision, rollback, window, checkpoint>>
    BY <1>7 DEF WindowMatchesPointer
  <1>8. CASE RetirementStep
    BY <1>7, <1>8 DEF RetirementStep, ReserveGenerationRetirement,
       CompleteGenerationRetirement
  <1>9. CASE RecoveryStep
    BY <1>7, <1>9
       DEF RecoveryStep, ReserveWorkerRecoveryActivation, MayReserveRecovery,
           NextToken, KeepsToken,
       CompleteWorkerRecoveryActivation, ExpireWorkerRecoveryActivation
  <1>10. CASE WorldStep
    BY <1>5, <1>6, <1>7, <1>10 DEF WorldStep, ConvergeInventory, PassFenceLease,
       PassRecoveryDeadline
  <1>11. CASE UNCHANGED vars
    BY <1>7, <1>11 DEF vars
  <1>12. QED
    BY <1>1, <1>2, <1>3, <1>4, <1>5, <1>8, <1>9, <1>10, <1>11 DEF Next, PointerStep

(* Tombstones and contract cleanup: what may already be destroyed. *)
LEMMA RetirementSafetyStep ==
    ASSUME TypeOK, CheckpointReadable, WindowMatchesPointer,
           TombstonesSpareLiveGenerations, CleanupOnlyAfterRetirement, [Next]_vars
    PROVE  TombstonesSpareLiveGenerations' /\ CleanupOnlyAfterRetirement'
  <1> USE StoreAssumption
  <1> DEFINE safe == TombstonesSpareLiveGenerations /\ CleanupOnlyAfterRetirement
  <1>1. ASSUME NEW base \in Generations, NEW target \in Generations, base # target,
               NEW quarantine \in BOOLEAN,
               Promote(revision, fence.token, base, target, quarantine)
        PROVE  safe'
    <2>1. /\ active = base /\ active' = target /\ retirement[target] = "none"
          /\ retirement[base] = "none"
          /\ checkpoint'.previous = base
          /\ window'.cleanup = "blocked"
      BY <1>1
         DEF Promote, MayPromote, NotRetired, MayCommit, CommitTransition,
             NextToken, NewCheckpoint, TombstonesSpareLiveGenerations
    <2>2. CASE quarantine
      BY <1>1, <2>1, <2>2
         DEF Promote, MayPromote, NotRetired, MayCommit, CommitTransition,
             NextToken, NewCheckpoint, TypeOK,
         TombstonesSpareLiveGenerations, CleanupOnlyAfterRetirement
    <2>3. CASE ~quarantine
      BY <1>1, <2>1, <2>3
         DEF Promote, MayPromote, NotRetired, MayCommit, CommitTransition,
             NextToken, NewCheckpoint, TypeOK,
         TombstonesSpareLiveGenerations, CleanupOnlyAfterRetirement
    <2>4. QED BY <2>2, <2>3
  <1>2. ASSUME NEW host \in Hosts, Rollback(host, revision, fence.token)
        PROVE  safe'
    BY <1>2
       DEF Rollback, MayRollback, WindowOpenAt, MayCommit, CommitTransition,
           NextToken, NewCheckpoint, TypeOK,
       TombstonesSpareLiveGenerations, CleanupOnlyAfterRetirement
  <1>3. ASSUME NEW g \in Generations, ReserveRollbackRetirement(revision, g)
        PROVE  safe'
    <2>1. /\ window'.state = "retirement-reserved" /\ window'.cleanup = "blocked"
          /\ checkpoint'.kind = "retire-rollback"
          /\ rollback = g /\ active # g /\ UNCHANGED <<active, rollback>>
          /\ retirement' = [retirement EXCEPT ![g] = "reserved"]
      BY <1>3
         DEF ReserveRollbackRetirement, MayReserveRollbackRetirement,
             NotRetired, NewCheckpoint, TypeOK, WindowType
    <2>2. QED BY <2>1
        DEF TypeOK, TombstonesSpareLiveGenerations, CleanupOnlyAfterRetirement
  <1>4. ASSUME NEW g \in Generations, CloseRollback(revision, g)
        PROVE  safe'
    BY <1>4
       DEF CloseRollback, MayCloseRollback, Retired, NoCheckpoint, TypeOK,
           TombstonesSpareLiveGenerations,
       CleanupOnlyAfterRetirement
  <1>5. CASE CheckpointStep \/ (\E host \in Hosts : PassReservationDeadline(host))
    BY <1>5, CheckpointStepFrame
    DEF TombstonesSpareLiveGenerations, CleanupOnlyAfterRetirement
  <1>6. ASSUME NEW host \in Hosts, PassWindowDeadline(host)
        PROVE  safe'
    <2>1. /\ window'.state = window.state /\ window'.retired = window.retired
          /\ window'.cleanup = window.cleanup
          /\ UNCHANGED <<active, rollback, checkpoint, retirement>>
      BY <1>6 DEF PassWindowDeadline, TypeOK, WindowType
    <2>2. QED BY <2>1 DEF TombstonesSpareLiveGenerations, CleanupOnlyAfterRetirement
  <1>7. CASE UNCHANGED <<active, rollback, window, checkpoint, retirement>>
    BY <1>7 DEF TombstonesSpareLiveGenerations, CleanupOnlyAfterRetirement
  <1>8. ASSUME NEW g \in Generations, ReserveGenerationRetirement(g)
        PROVE  safe'
    BY <1>8 DEF ReserveGenerationRetirement, Protected, TypeOK,
       TombstonesSpareLiveGenerations, CleanupOnlyAfterRetirement
  <1>9. ASSUME NEW g \in Generations, CompleteGenerationRetirement(g)
        PROVE  safe'
    BY <1>9 DEF CompleteGenerationRetirement, MayCompleteRetirement, TypeOK,
       TombstonesSpareLiveGenerations, CleanupOnlyAfterRetirement
  <1>10. CASE RecoveryStep
    BY <1>7, <1>10
       DEF RecoveryStep, ReserveWorkerRecoveryActivation, MayReserveRecovery,
           NextToken, KeepsToken,
       CompleteWorkerRecoveryActivation, ExpireWorkerRecoveryActivation
  <1>11. CASE WorldStep
    BY <1>5, <1>6, <1>7, <1>11 DEF WorldStep, ConvergeInventory, PassFenceLease,
       PassRecoveryDeadline
  <1>12. CASE UNCHANGED vars
    BY <1>7, <1>12 DEF vars
  <1>13. QED
    BY <1>1, <1>2, <1>3, <1>4, <1>5, <1>8, <1>9, <1>10, <1>11, <1>12
    DEF Next, PointerStep, RetirementStep

(* Nothing that a live recovery was granted for can move under it. *)
LEMMA LiveRecoveryStep ==
    ASSUME TypeOK, CheckpointReadable, FenceFollowsPointer, LiveRecoveryIsCurrent,
           [Next]_vars
    PROVE  LiveRecoveryIsCurrent'
  <1> USE StoreAssumption
  <1> DEFINE dependsOn == <<revision, active, fence, recovery, checkpoint>>
  <1>1. ASSUME ~LiveRecovery, UNCHANGED recovery
        PROVE  LiveRecoveryIsCurrent'
    BY <1>1 DEF LiveRecovery, LiveRecoveryIsCurrent
  <1>2. CASE PointerStep
    BY <1>1, <1>2
       DEF PointerStep, Promote, MayPromote, NotRetired, MayCommit, Rollback,
           MayRollback, WindowOpenAt, ReserveRollbackRetirement,
           MayReserveRollbackRetirement, NotRetired,
       CloseRollback, MayCloseRollback, Retired
  <1>3. CASE UNCHANGED dependsOn
    BY <1>3 DEF LiveRecoveryIsCurrent, LiveRecovery, RecoveryMatches
  <1>4. CASE RetirementStep
    BY <1>3, <1>4 DEF RetirementStep, ReserveGenerationRetirement,
       CompleteGenerationRetirement
  <1>5. ASSUME NEW host \in Hosts, NEW step \in Steps, NEW id \in ReservationIds,
               ReserveTransitionStep(host, revision, step, id)
        PROVE  LiveRecoveryIsCurrent'
    BY <1>1, <1>5 DEF ReserveTransitionStep, MayReserveTransitionStep
  <1>6. ASSUME NEW host \in Hosts, NEW step \in Steps,
               TicketMatches(host, TicketFor(step, checkpoint.reservationId))
        PROVE  ~LiveRecovery
    <2>1. checkpoint.reservedStep = step /\ step # "none"
      BY <1>6 DEF TicketMatches, TicketFor, Steps
    <2>2. QED BY <2>1 DEF LiveRecoveryIsCurrent
  <1>7. ASSUME NEW host \in Hosts, NEW step \in Steps,
               \/ ReleaseTransitionStep(host,
                                        TicketFor(step, checkpoint.reservationId))
               \/ CompleteTransitionStep(host,
                                         TicketFor(step, checkpoint.reservationId))
        PROVE  LiveRecoveryIsCurrent'
    <2>1. UNCHANGED recovery /\ TicketMatches(host, TicketFor(step, checkpoint.reservationId))
      BY <1>7
         DEF ReleaseTransitionStep, CompleteTransitionStep,
             MayCompleteTransitionStep, WithStepCompleted, RecoveryRetired
    <2>2. QED BY <1>1, <1>6, <2>1
  <1>8. ASSUME NEW initial \in BOOLEAN,
               ReserveWorkerRecoveryActivation(revision, fence.token,
                   fence.promotionRevision, active, initial)
        PROVE  LiveRecoveryIsCurrent'
    <2>1. /\ checkpoint'.reservedStep = "none"
          /\ UNCHANGED <<revision, active>>
      BY <1>8
         DEF ReserveWorkerRecoveryActivation, MayReserveRecovery, NextToken,
             KeepsToken, RecoveryAllowed, NoReservedStep
    <2>2. /\ fence'.token = recovery'.token /\ fence'.owner = "recovery" /\ fence'.live
          /\ fence'.generation = fence.generation
          /\ fence'.promotionRevision = fence.promotionRevision
          /\ recovery'.generation = active /\ recovery'.revision = revision
          /\ recovery'.promotionRevision = fence.promotionRevision
      BY <1>8
         DEF ReserveWorkerRecoveryActivation, MayReserveRecovery, NextToken,
             KeepsToken, TypeOK, FenceType
    <2>3. fence.generation = active
      BY DEF FenceFollowsPointer
    <2>4. QED BY <2>1, <2>2, <2>3 DEF LiveRecoveryIsCurrent, RecoveryMatches
  <1>9. CASE CompleteWorkerRecoveryActivation(recovery.token) \/ ExpireWorkerRecoveryActivation
    <2>1. ~LiveRecovery'
      BY <1>9 DEF CompleteWorkerRecoveryActivation, ExpireWorkerRecoveryActivation,
         LiveRecovery, TypeOK, RecoveryType
    <2>2. QED BY <2>1 DEF LiveRecoveryIsCurrent
  <1>10. ASSUME NEW host \in Hosts, PassReservationDeadline(host)
         PROVE  LiveRecoveryIsCurrent'
    <2>1. /\ UNCHANGED <<revision, active, fence, recovery>>
          /\ checkpoint'.reservedStep = checkpoint.reservedStep
      BY <1>10 DEF PassReservationDeadline, TypeOK, CheckpointType
    <2>2. QED BY <2>1 DEF LiveRecoveryIsCurrent, LiveRecovery, RecoveryMatches
  <1>11. CASE PassFenceLease
    BY <1>1, <1>11 DEF PassFenceLease
  <1>12. CASE PassRecoveryDeadline
    BY <1>12 DEF PassRecoveryDeadline, LiveRecoveryIsCurrent, LiveRecovery, TypeOK,
       RecoveryType
  <1>13. CASE ConvergeInventory \/ (\E host \in Hosts : PassWindowDeadline(host))
    BY <1>3, <1>13 DEF ConvergeInventory, PassWindowDeadline
  <1>14. CASE UNCHANGED vars
    BY <1>3, <1>14 DEF vars
  <1>15. QED
    BY <1>2, <1>4, <1>5, <1>7, <1>8, <1>9, <1>10, <1>11, <1>12, <1>13, <1>14
    DEF Next, CheckpointStep, RecoveryStep, WorldStep

-----------------------------------------------------------------------------
(* The initial row satisfies the invariant. *)
LEMMA StoreInit == Init => IInv
  <1> SUFFICES ASSUME Init PROVE IInv
    OBVIOUS
  <1>1. TypeOK
    BY StoreAssumption, CheckpointTypes
    DEF Init, TypeOK, WindowType, FenceType, RecoveryType, NoRecovery
  <1>2. CheckpointReadable /\ TombstonesSpareLiveGenerations /\ CleanupOnlyAfterRetirement
    BY StoreAssumption DEF Init, CheckpointReadable, HasCheckpoint, NoCheckpoint,
       TombstonesSpareLiveGenerations, CleanupOnlyAfterRetirement
  <1>3. WindowMatchesPointer
    BY StoreAssumption DEF Init, WindowMatchesPointer, NoCheckpoint
  <1>4. FenceFollowsPointer /\ ReceiptsOrderAuthority /\ ReceiptsBelowFence
    BY DEF Init, FenceFollowsPointer, ReceiptsOrderAuthority, ReceiptsBelowFence
  <1>5. LiveRecoveryIsCurrent
    BY DEF Init, LiveRecoveryIsCurrent, LiveRecovery, NoRecovery
  <1>6. QED BY <1>1, <1>2, <1>3, <1>4, <1>5 DEF IInv

(* Every transaction preserves it. *)
LEMMA StoreStep == IInv /\ [Next]_vars => IInv'
  BY TypeStep, CheckpointReadableStep, AuthorityStep, WindowStep,
     RetirementSafetyStep, LiveRecoveryStep DEF IInv

(* The inductive invariant holds in every reachable state. *)
THEOREM InductiveInvariant == Spec => []IInv
  <1>1. Init => IInv
    BY StoreInit
  <1>2. IInv /\ [Next]_vars => IInv'
    BY StoreStep
  <1>3. QED BY <1>1, <1>2, PTL DEF Spec

(* The tombstone of a retired generation, and the contract migrations it    *)
(* unlocks, never reach a generation that is active or still retained.      *)
THEOREM RetirementIsSafe ==
    Spec => []RetirementIsOrdered
  <1>1. IInv => RetirementIsOrdered
    BY DEF IInv, RetirementIsOrdered
  <1>2. QED BY <1>1, InductiveInvariant, PTL

(* The fence names the active generation, the window the retained one, the  *)
(* receipts order authority, and a live worker recovery can be completed.   *)
THEOREM AuthorityIsOrdered == Spec => []AuthorityIsConsistent
  <1>1. IInv => AuthorityIsConsistent
    BY DEF IInv, AuthorityIsConsistent
  <1>2. QED BY <1>1, InductiveInvariant, PTL

(* Every checkpoint the transactions write is one their validator accepts. *)
THEOREM CheckpointsStayReadable == Spec => []CheckpointReadable
  <1>1. IInv => CheckpointReadable
    BY DEF IInv
  <1>2. QED BY <1>1, InductiveInvariant, PTL

(* While an external step is reserved, the authority its ticket names is    *)
(* frozen, whether or not the reservation has expired.                      *)
THEOREM ReservationFreezes == Spec => ReservedStepFreezesAuthority
  <1> DEFINE frozen == checkpoint.reservedStep # "none" =>
                 /\ AuthorityVars' = AuthorityVars
                 /\ checkpoint'.kind = checkpoint.kind
                 /\ \/ checkpoint'.reservedStep = checkpoint.reservedStep
                    \/ checkpoint'.reservedStep = "none"
  <1>1. IInv /\ [Next]_vars => [frozen]_vars
    <2> SUFFICES ASSUME IInv, Next, checkpoint.reservedStep # "none"
                 PROVE  /\ AuthorityVars' = AuthorityVars
                        /\ checkpoint'.kind = checkpoint.kind
                        /\ \/ checkpoint'.reservedStep = checkpoint.reservedStep
                           \/ checkpoint'.reservedStep = "none"
      OBVIOUS
    <2>1. TypeOK /\ CheckpointReadable
      BY DEF IInv
    <2>2. ~PointerStep
      BY DEF PointerStep, Promote, MayPromote, NotRetired, MayCommit, Rollback,
             MayRollback, WindowOpenAt, ReserveRollbackRetirement,
             MayReserveRollbackRetirement, NotRetired, CloseRollback,
             MayCloseRollback, Retired,
         NoReservedStep
    <2>3. CASE UNCHANGED <<revision, active, rollback, fence, checkpoint>>
      BY <2>3 DEF AuthorityVars
    <2>4. CASE RetirementStep
      BY <2>3, <2>4 DEF RetirementStep, ReserveGenerationRetirement,
         CompleteGenerationRetirement
    <2>5. ASSUME CheckpointStep \/ (\E host \in Hosts : PassReservationDeadline(host))
          PROVE  AuthorityVars' = AuthorityVars /\ checkpoint'.kind = checkpoint.kind
      BY <2>1, <2>5, CheckpointStepFrame DEF AuthorityVars
    <2>6. ASSUME NEW host \in Hosts, NEW step \in Steps, NEW id \in ReservationIds,
                 ReserveTransitionStep(host, revision, step, id)
          PROVE  checkpoint'.reservedStep = checkpoint.reservedStep
      <3>1. checkpoint'.reservedStep = step /\ step = NextStep
        BY <2>1, <2>6
           DEF ReserveTransitionStep, MayReserveTransitionStep, TypeOK,
               CheckpointType
      <3>2. checkpoint.reservedStep = NextStep
        BY <2>1, <2>6
           DEF CheckpointReadable, ReserveTransitionStep,
               MayReserveTransitionStep, HasNextStep
      <3>3. QED BY <3>1, <3>2
    <2>7. ASSUME NEW host \in Hosts, NEW step \in Steps,
                 \/ ReleaseTransitionStep(host,
                                          TicketFor(step, checkpoint.reservationId))
                 \/ CompleteTransitionStep(host,
                                           TicketFor(step, checkpoint.reservationId))
          PROVE  checkpoint'.reservedStep = "none"
      <3>1. \/ checkpoint' = Unreserved(checkpoint)
            \/ checkpoint' = [Unreserved(checkpoint) EXCEPT
                                 !.completed = checkpoint.completed + 1]
        BY <2>7
           DEF ReleaseTransitionStep, CompleteTransitionStep,
               MayCompleteTransitionStep, WithStepCompleted, RecoveryRetired,
               CheckpointColumnCheck,
           JsonNull, NoCheckpoint
      <3>2. QED BY <2>1, <3>1 DEF Unreserved, TypeOK, CheckpointType
    <2>8. ASSUME NEW host \in Hosts, PassReservationDeadline(host)
          PROVE  checkpoint'.reservedStep = checkpoint.reservedStep
      BY <2>1, <2>8 DEF PassReservationDeadline, TypeOK, CheckpointType
    <2>9. CASE CheckpointStep
      BY <2>5, <2>6, <2>7, <2>9 DEF CheckpointStep
    <2>10. ASSUME NEW initial \in BOOLEAN,
                  ReserveWorkerRecoveryActivation(revision, fence.token,
                      fence.promotionRevision, active, initial)
           PROVE  FALSE
      BY <2>10
         DEF ReserveWorkerRecoveryActivation, MayReserveRecovery, NextToken,
             KeepsToken, RecoveryAllowed, NoReservedStep
    <2>11. CASE RecoveryStep
      BY <2>3, <2>10, <2>11 DEF RecoveryStep, CompleteWorkerRecoveryActivation,
         ExpireWorkerRecoveryActivation
    <2>12. CASE PassFenceLease
      BY <2>1, <2>12 DEF PassFenceLease, AuthorityVars, TypeOK, FenceType
    <2>13. CASE WorldStep
      BY <2>3, <2>5, <2>8, <2>12, <2>13 DEF WorldStep, ConvergeInventory,
         PassWindowDeadline, PassRecoveryDeadline
    <2>14. QED BY <2>2, <2>4, <2>9, <2>11, <2>13 DEF Next
  <1>2. QED BY <1>1, InductiveInvariant, PTL DEF Spec, ReservedStepFreezesAuthority

-----------------------------------------------------------------------------
(* Nothing goes back.                                                       *)

(* A tombstone is never taken back, and a completed one stays completed. *)
TombstonesKept ==
    \A g \in Generations : /\ retirement[g] # "none" => retirement'[g] # "none"
                           /\ retirement[g] = "completed" => retirement'[g] = "completed"

LEMMA TombstonesStay ==
    ASSUME TypeOK, [Next]_vars
    PROVE  TombstonesKept
  <1>1. retirement \in [Generations -> {"none", "reserved", "completed"}]
    BY DEF TypeOK
  <1>2. CASE UNCHANGED retirement
    BY <1>2 DEF TombstonesKept
  <1>3. ASSUME NEW g \in Generations, retirement[g] = "none",
               retirement' = [retirement EXCEPT ![g] = "reserved"]
        PROVE  TombstonesKept
    BY <1>1, <1>3 DEF TombstonesKept
  <1>4. CASE PointerStep
    <2>1. ASSUME NEW base \in Generations, NEW target \in Generations,
                 NEW quarantine \in BOOLEAN,
                 Promote(revision, fence.token, base, target, quarantine)
          PROVE  TombstonesKept
      <3>1. \/ UNCHANGED retirement
            \/ /\ retirement[active] = "none" /\ active \in Generations
               /\ retirement' = [retirement EXCEPT ![active] = "reserved"]
        BY <2>1 DEF Promote, MayPromote, NotRetired, TypeOK
      <3>2. QED BY <1>2, <1>3, <3>1
    <2>2. QED
      BY <1>2, <1>3, <1>4, <2>1
      DEF PointerStep, Rollback, ReserveRollbackRetirement, MayReserveRollbackRetirement,
          NotRetired, CloseRollback
  <1>5. CASE RetirementStep
    <2>1. ASSUME NEW g \in Generations, CompleteGenerationRetirement(g)
          PROVE  TombstonesKept
      BY <1>1, <2>1 DEF CompleteGenerationRetirement, TombstonesKept
    <2>2. QED BY <1>3, <1>5, <2>1 DEF RetirementStep, ReserveGenerationRetirement
  <1>6. CASE CheckpointStep \/ (\E host \in Hosts : PassReservationDeadline(host))
    BY <1>2, <1>6, CheckpointStepFrame
  <1>7. CASE RecoveryStep
    BY <1>2, <1>7
    DEF RecoveryStep, ReserveWorkerRecoveryActivation, CompleteWorkerRecoveryActivation,
        ExpireWorkerRecoveryActivation
  <1>8. CASE \/ ConvergeInventory \/ PassFenceLease \/ PassRecoveryDeadline
             \/ (\E host \in Hosts : PassWindowDeadline(host)) \/ UNCHANGED vars
    BY <1>2, <1>8
    DEF ConvergeInventory, PassFenceLease, PassRecoveryDeadline, PassWindowDeadline, vars
  <1>9. QED BY <1>4, <1>5, <1>6, <1>7, <1>8 DEF Next, WorldStep

(* The fence changes hands under the next token; the activation that        *)
(* bootstraps the deployment alone keeps it. *)
LEMMA OwnerStep ==
    ASSUME TypeOK, [Next]_vars
    PROVE  \/ fence'.owner = fence.owner
           \/ fence'.token = fence.token + 1
           \/ revision = 0 /\ recovery.state = "none"
  <1>1. fence \in FenceType
    BY DEF TypeOK
  <1>2. CASE PointerStep
    <2>1. ASSUME NEW op, NEW kind, NEW target, NEW retained, NEW newWindow,
                 CommitTransition(op, kind, target, retained, newWindow)
          PROVE  fence'.token = fence.token + 1
      BY <2>1 DEF CommitTransition, NextToken
    <2>2. QED
      BY <1>2, <2>1 DEF PointerStep, Promote, Rollback, ReserveRollbackRetirement, CloseRollback
  <1>3. CASE RecoveryStep
    <2>1. ASSUME NEW initial \in BOOLEAN,
                 ReserveWorkerRecoveryActivation(revision, fence.token,
                     fence.promotionRevision, active, initial)
          PROVE  fence'.token = fence.token + 1 \/ (revision = 0 /\ recovery.state = "none")
      BY <1>1, <2>1
      DEF ReserveWorkerRecoveryActivation, KeepsToken, NextToken, FenceType
    <2>2. QED
      BY <1>3, <2>1
      DEF RecoveryStep, CompleteWorkerRecoveryActivation, ExpireWorkerRecoveryActivation
  <1>4. CASE RetirementStep
    BY <1>4 DEF RetirementStep, ReserveGenerationRetirement, CompleteGenerationRetirement
  <1>5. CASE CheckpointStep \/ (\E host \in Hosts : PassReservationDeadline(host))
    BY <1>5, CheckpointStepFrame
  <1>6. CASE PassFenceLease
    BY <1>1, <1>6 DEF PassFenceLease, FenceType
  <1>7. CASE \/ ConvergeInventory \/ PassRecoveryDeadline
             \/ (\E host \in Hosts : PassWindowDeadline(host)) \/ UNCHANGED vars
    BY <1>7 DEF ConvergeInventory, PassRecoveryDeadline, PassWindowDeadline, vars
  <1>8. QED BY <1>2, <1>3, <1>4, <1>5, <1>6, <1>7 DEF Next, WorldStep

(* What a step does to the checkpoint: the steps of one are completed, it   *)
(* is replaced at the next revision, or a closed window removes it. *)
CheckpointEffect ==
    \/ UNCHANGED checkpoint
    \/ /\ checkpoint'.kind = checkpoint.kind
       /\ checkpoint'.revision = checkpoint.revision
       /\ checkpoint'.completed >= checkpoint.completed
       /\ HasCheckpoint
    \/ \E kind \in Kinds : \E act, prev :
          checkpoint' = NewCheckpoint(kind, revision + 1, act, prev)
    \/ checkpoint.kind = "retire-rollback" /\ checkpoint' = NoCheckpoint

(* Where there is no checkpoint the column is empty. *)
EmptyCheckpoint == HasCheckpoint \/ checkpoint = NoCheckpoint

LEMMA CheckpointEffectStep ==
    ASSUME IInv, EmptyCheckpoint, [Next]_vars
    PROVE  CheckpointEffect
  <1>1. TypeOK
    BY DEF IInv
  <1>2. CASE UNCHANGED checkpoint
    BY <1>2 DEF CheckpointEffect
  <1>3. CASE PointerStep
    <2>1. ASSUME NEW op, NEW kind \in Kinds, NEW target, NEW retained, NEW newWindow,
                 CommitTransition(op, kind, target, retained, newWindow)
          PROVE  CheckpointEffect
      BY <2>1 DEF CommitTransition, CheckpointEffect
    <2>2. ASSUME NEW g, CloseRollback(revision, g)
          PROVE  CheckpointEffect
      BY <2>2
      DEF CloseRollback, MayCloseRollback, CheckpointEffect, IInv, WindowMatchesPointer
    <2>3. ASSUME NEW g, ReserveRollbackRetirement(revision, g)
          PROVE  CheckpointEffect
      BY <2>3 DEF ReserveRollbackRetirement, CheckpointEffect, Kinds
    <2>4. QED
      BY <1>3, <2>1, <2>2, <2>3 DEF PointerStep, Promote, Rollback, Kinds
  <1>4. CASE CheckpointStep \/ (\E host \in Hosts : PassReservationDeadline(host))
    <2>1. HasCheckpoint
      <3>1. CASE CheckpointStep
        BY <3>1
        DEF CheckpointStep, ReserveTransitionStep, MayReserveTransitionStep, HasNextStep,
            ReleaseTransitionStep, TicketMatches, CompleteTransitionStep,
            MayCompleteTransitionStep
      <3>2. ASSUME NEW host \in Hosts, PassReservationDeadline(host)
            PROVE  HasCheckpoint
        BY <3>2 DEF PassReservationDeadline, EmptyCheckpoint, NoCheckpoint
      <3>3. QED BY <1>4, <3>1, <3>2
    <2>2. QED BY <1>1, <1>4, <2>1, CheckpointStepFrame DEF CheckpointEffect
  <1>5. CASE RetirementStep \/ RecoveryStep
    BY <1>2, <1>5
    DEF RetirementStep, ReserveGenerationRetirement, CompleteGenerationRetirement, RecoveryStep,
        ReserveWorkerRecoveryActivation, CompleteWorkerRecoveryActivation,
        ExpireWorkerRecoveryActivation
  <1>6. CASE \/ ConvergeInventory \/ PassFenceLease \/ PassRecoveryDeadline
             \/ (\E host \in Hosts : PassWindowDeadline(host)) \/ UNCHANGED vars
    BY <1>2, <1>6
    DEF ConvergeInventory, PassFenceLease, PassRecoveryDeadline, PassWindowDeadline, vars
  <1>7. QED BY <1>3, <1>4, <1>5, <1>6 DEF Next, WorldStep

LEMMA CheckpointIsEmpty == Spec => []EmptyCheckpoint
  <1>1. Init => EmptyCheckpoint
    BY DEF Init, EmptyCheckpoint
  <1>2. ASSUME IInv, EmptyCheckpoint, [Next]_vars
        PROVE  EmptyCheckpoint'
    <2>1. CheckpointEffect
      BY <1>2, CheckpointEffectStep
    <2>2. QED
      BY <1>2, <2>1
      DEF CheckpointEffect, EmptyCheckpoint, HasCheckpoint, NewCheckpoint, Kinds
  <1>3. QED BY <1>1, <1>2, InductiveInvariant, PTL DEF Spec

(* Authority passes only to a larger token, completed steps are lost only   *)
(* with their checkpoint, at a later revision, and tombstones are for good. *)
THEOREM NeitherAuthorityNorProgressGoesBack == Spec => NothingGoesBack
  <1> DEFINE Larger ==
                /\ fence'.token >= fence.token
                /\ (\/ fence'.generation # fence.generation
                    \/ fence'.promotionRevision # fence.promotionRevision
                    \/ fence'.owner # fence.owner
                           /\ ~(revision = 0 /\ recovery.state = "none"))
                       => fence'.token > fence.token
             Later ==
                /\ checkpoint'.revision = checkpoint.revision =>
                       checkpoint'.completed >= checkpoint.completed
                /\ TombstonesKept
  <1>1. ASSUME IInv, [Next]_vars
        PROVE  Larger
    <2>1. /\ TypeOK /\ fence.token \in Nat
      BY <1>1, StoreAssumption DEF IInv, TypeOK, FenceType
    <2>2. \/ fence'.owner = fence.owner
          \/ fence'.token = fence.token + 1
          \/ revision = 0 /\ recovery.state = "none"
      BY <1>1, <2>1, OwnerStep
    <2>3. AuthorityKept \/ \E r \in ReceiptType : PointerMoved(r) \/ RetirementAdvanced(r)
      BY <1>1, <2>1, AuthorityEffect
    <2>4. CASE AuthorityKept
      BY <2>1, <2>2, <2>4 DEF AuthorityKept
    <2>5. ASSUME NEW r \in ReceiptType, PointerMoved(r)
          PROVE  Larger
      BY <2>1, <2>5 DEF PointerMoved
    <2>6. ASSUME NEW r \in ReceiptType, RetirementAdvanced(r)
          PROVE  Larger
      BY <2>1, <2>6 DEF RetirementAdvanced
    <2>7. QED BY <2>3, <2>4, <2>5, <2>6
  <1>2. ASSUME IInv, EmptyCheckpoint, [Next]_vars
        PROVE  Later
    <2>1. TypeOK /\ checkpoint.completed \in Nat /\ revision \in Nat
      BY <1>2 DEF IInv, TypeOK, CheckpointType
    <2>2. TombstonesKept
      BY <1>2, <2>1, TombstonesStay
    <2>3. checkpoint.revision \in {0, revision} /\ (HasCheckpoint => checkpoint.revision = revision)
      BY <1>2 DEF EmptyCheckpoint, IInv, CheckpointReadable, NoCheckpoint
    <2>4. CASE \E kind \in Kinds : \E act, prev :
                  checkpoint' = NewCheckpoint(kind, revision + 1, act, prev)
      BY <2>1, <2>2, <2>3, <2>4 DEF NewCheckpoint
    <2>5. CASE checkpoint.kind = "retire-rollback" /\ checkpoint' = NoCheckpoint
      <3>1. checkpoint.revision = revision /\ revision # 0
        BY <1>2, <2>3, <2>5 DEF HasCheckpoint, IInv, WindowMatchesPointer
      <3>2. QED BY <2>2, <2>5, <3>1 DEF NoCheckpoint
    <2>6. QED
      BY <1>2, <2>1, <2>2, <2>4, <2>5, CheckpointEffectStep DEF CheckpointEffect
  <1>3. QED
    BY <1>1, <1>2, InductiveInvariant, CheckpointIsEmpty, PTL
    DEF Spec, NothingGoesBack, AuthorityChangesTakeNewToken, ProgressIsDurable, TombstonesKept

-----------------------------------------------------------------------------
(* What a process, a message and a container can hold. *)

TransitionTickets ==
    [generation : Generations, active : Generations, revision : Nat, token : Nat \ {0},
     promotionRevision : Nat, owner : {"supplied", "recovery"}, kind : Kinds,
     step : Steps, reservationId : ReservationIds]

RecoveryTickets ==
    [generation : Generations, revision : Nat, token : Nat \ {0}, promotionRevision : Nat]

Tickets == TransitionTickets \cup RecoveryTickets \cup {NoTicket}

Calls == {"idle", "start", "readiness", "commit", "reject", "retire", "remove",
          "tombstone", "pending", "worker", "recovered", "reactivate",
          "replace", "send", "await", "step", "waiting", "effect", "release", "complete", "close", "finish"}

Processes ==
    [pc : Calls,
     command : {"none", "bootstrap", "recover", "recover-again", "deploy",
                "deploy-quarantine", "rollback", "close", "closing", "restart"},
     revision : Nat, token : Nat, base : Generations \cup {NoGeneration},
     target : Generations \cup {NoGeneration}, step : Steps \cup {"none"},
     ticket : Tickets]

Messages == [path : {"none", "/activate", "/drain"}, verified : BOOLEAN, ticket : Tickets]

Containers == [mode : {"absent", "passive", "active", "drained"}, token : Nat]

(* A ticket under which a worker may be activated, a drain, a retirement. *)
Activating(t) ==
    t \in RecoveryTickets \/ (t \in TransitionTickets /\ t.step = "activate-worker")

Draining(t) == t \in TransitionTickets /\ t.step \in {"drain-previous", "drain-retained"}

Retires(t, g) ==
    t \in TransitionTickets /\ t.step = "retire-retained" /\ t.generation = g

Starting == {"start", "readiness", "commit"}
Retiring == {"retire", "remove", "tombstone"}
Ticketless == Starting \cup {"idle", "reject", "pending", "worker", "step", "waiting",
                             "close", "finish"}

(* What a process carries fits the call it makes next. *)
ProcessShape(p) ==
    /\ p \in Processes
    /\ p.pc \in Starting \cup Retiring \cup {"reject"} => p.target \in Generations
    /\ p.pc \in Starting /\ p.command \in {"deploy", "deploy-quarantine"}
           => p.target # p.base
    /\ p.command = "restart" => p.pc \in {"remove", "start", "readiness"}
    /\ p.pc \in {"step", "waiting"} \/ p.ticket \in TransitionTickets
           => p.command \in {"recover-again", "close", "closing"}
    /\ p.pc \in Ticketless => p.ticket = NoTicket
    /\ p.pc \in Retiring => p.ticket = NoTicket \/ Retires(p.ticket, p.target)
    /\ p.pc \in {"reactivate", "replace", "send"} => Activating(p.ticket)
    /\ p.pc = "start" => p.command \in {"deploy", "deploy-quarantine", "rollback", "restart"}
    /\ p.pc = "effect" => p.ticket \in TransitionTickets

MessageShape(m) ==
    /\ m \in Messages
    /\ m.path = "none" => m = NoMessage
    /\ m.path = "/activate" => Activating(m.ticket)
    /\ m.path = "/drain" => Draining(m.ticket)

ContainerShape(w) == w \in Containers /\ (w.mode = "active" => w.token # 0)

Shapes ==
    /\ process \in [Hosts -> Processes]
    /\ \A h \in Hosts : ProcessShape(process[h])
    /\ wire \in [Hosts -> Messages]
    /\ \A h \in Hosts : MessageShape(wire[h])
    /\ worker \in [Generations -> Containers]
    /\ \A g \in Generations : ContainerShape(worker[g])

(* A process has no message under way unless it waits for the answer (or    *)
(* has crashed since). *)
Correspondence ==
    \A h \in Hosts :
        /\ process[h].pc \notin {"idle", "await"} => wire[h] = NoMessage
        /\ process[h].pc = "await" => wire[h].ticket = process[h].ticket

(* No ticket names a token the fence has not issued, and a ticket under the *)
(* current token that lets a worker execute names the active generation.    *)
TicketSound(t, token, act) ==
    t \in TransitionTickets \cup RecoveryTickets =>
        /\ t.token <= token
        /\ t.token = token /\ Activating(t) => t.generation = act

TicketsSound ==
    \A h \in Hosts : /\ TicketSound(process[h].ticket, fence.token, active)
                     /\ TicketSound(wire[h].ticket, fence.token, active)

(* Two processes never hold the same reservation. *)
Apart(t, u) ==
    t \in TransitionTickets /\ u \in TransitionTickets => t.reservationId # u.reservationId

ReservationsApart ==
    \A h, k \in Hosts : h # k =>
        /\ Apart(process[h].ticket, process[k].ticket)
        /\ Apart(process[h].ticket, wire[k].ticket)
        /\ Apart(wire[h].ticket, wire[k].ticket)

(* A generation whose containers may go: it has its tombstone, and no drain *)
(* of it is owed any more. *)
DrainPending(g) == HasNextStep /\ checkpoint.previous = g /\ NextStep # "retire-retained"

DrainOver(g) == retirement[g] # "none" /\ g # active /\ ~DrainPending(g)

VerifiedDrain(h, g) ==
    wire[h].verified /\ wire[h].path = "/drain" /\ wire[h].ticket.generation = g

(* Its containers have gone: nothing that was verified is still under way.  *)
Gone(g) ==
    /\ worker[g].mode \in {"absent", "passive"}
    /\ \A h \in Hosts : wire[h].verified => wire[h].ticket.generation # g

RetirementsInOrder ==
    /\ \A h \in Hosts :
          /\ process[h].pc = "retire" =>
                 process[h].ticket \in TransitionTickets \/ DrainOver(process[h].target)
          /\ process[h].pc = "remove" =>
                 process[h].command = "restart" \/ DrainOver(process[h].target)
          /\ process[h].pc = "tombstone" =>
                 DrainOver(process[h].target) /\ Gone(process[h].target)
    /\ \A g \in Generations : retirement[g] = "completed" => DrainOver(g) /\ Gone(g)

(* A verified drain that is still under way finds its worker drained (or    *)
(* replaced, which cuts it off) by the time the step counts as done.        *)
DrainsInOrder ==
    \A k \in Hosts, g \in Generations : VerifiedDrain(k, g) =>
        /\ FreshPassive(g) => DrainPending(g)
        /\ \A h \in Hosts :
              process[h].pc = "complete" /\ Draining(process[h].ticket)
              /\ process[h].ticket.generation = g
              /\ process[h].ticket.reservationId = checkpoint.reservationId
                  => ~FreshPassive(g)
        /\ g = active =>
              /\ ~HealthyActive(g, fence.token)
              /\ \A h \in Hosts :
                    wire[h].path = "/activate" => wire[h].ticket.token # fence.token

(* The inductive invariant: the store's, and what the supervisors hold. *)
SupInv ==
    /\ IInv
    /\ Shapes
    /\ Correspondence
    /\ TicketsSound
    /\ ReservationsApart
    /\ OneAuthorisedWorker
    /\ RetirementsInOrder
    /\ DrainsInOrder

-----------------------------------------------------------------------------
(* Tickets. *)

(* The three sorts of tickets are told apart by whether they have a step. *)
LEMMA TicketSorts ==
    ASSUME NEW t \in Tickets
    PROVE  /\ t \in TransitionTickets <=> IsTransitionTicket(t)
           /\ t \in TransitionTickets => t \notin RecoveryTickets \cup {NoTicket}
           /\ t \in RecoveryTickets => t # NoTicket
  <1>1. \A u \in TransitionTickets : DOMAIN u = {"generation", "active", "revision",
            "token", "promotionRevision", "owner", "kind", "step", "reservationId"}
    BY DEF TransitionTickets
  <1>2. \A u \in RecoveryTickets : DOMAIN u = {"generation", "revision", "token",
                                               "promotionRevision"}
    BY DEF RecoveryTickets
  <1>3. DOMAIN NoTicket = {"generation"}
    BY DEF NoTicket
  <1>4. QED BY <1>1, <1>2, <1>3 DEF Tickets, IsTransitionTicket

(* The step a checkpoint owes next is one of the steps. *)
LEMMA OwedStep ==
    ASSUME TypeOK, HasNextStep
    PROVE  NextStep \in Steps
  <1>1. checkpoint.completed \in Nat /\ checkpoint.kind \in Kinds
    BY DEF TypeOK, CheckpointType, HasNextStep, HasCheckpoint
  <1>2. CASE checkpoint.kind = "retire-rollback"
    BY <1>1, <1>2 DEF NextStep, HasNextStep, StepsOf, Steps
  <1>3. CASE checkpoint.kind = "promote-retire-previous"
    BY <1>1, <1>3 DEF NextStep, HasNextStep, StepsOf, SwitchSteps, Steps
  <1>4. CASE checkpoint.kind \in {"promote", "rollback"}
    BY <1>1, <1>4 DEF NextStep, HasNextStep, StepsOf, SwitchSteps, Steps
  <1>5. QED BY <1>1, <1>2, <1>3, <1>4 DEF Kinds

(* A reserved step's ticket has the type of one, and it names the token of  *)
(* the fence; if it is a step toward the active generation, it names that.  *)
LEMMA NewTicket ==
    ASSUME IInv, HasCheckpoint, NEW step \in Steps, NEW id \in ReservationIds
    PROVE  /\ TicketFor(step, id) \in TransitionTickets
           /\ TicketSound(TicketFor(step, id), fence.token, active)
  <1>1. /\ checkpoint.active = active /\ checkpoint.previous \in Generations
        /\ active \in Generations /\ checkpoint.kind \in Kinds /\ checkpoint.revision \in Nat
        /\ fence.token \in Nat \ {0} /\ fence.owner \in {"supplied", "recovery"}
        /\ fence.promotionRevision \in Nat
    BY StoreAssumption DEF IInv, CheckpointReadable, TypeOK, FenceType, CheckpointType, HasCheckpoint
  <1> DEFINE t == TicketFor(step, id)
  <1>2. t \in TransitionTickets
    BY <1>1 DEF TicketFor, TransitionTickets
  <1>3. t.token = fence.token /\ t.step = step
        /\ (step \in TowardActive => t.generation = active)
    BY <1>1 DEF TicketFor
  <1>4. t \notin RecoveryTickets
    BY <1>2, TicketSorts DEF Tickets
  <1>5. QED BY <1>1, <1>2, <1>3, <1>4 DEF TicketSound, Activating, TowardActive

(* A recovery's ticket names the row's own token and generation. *)
LEMMA RecoveryTicketType ==
    ASSUME NEW r \in RecoveryType, r.token # 0
    PROVE  /\ RecoveryTicket(r) \in RecoveryTickets
           /\ RecoveryTicket(r).token = r.token
           /\ RecoveryTicket(r).generation = r.generation
  BY DEF RecoveryTicket, RecoveryTickets, RecoveryType

(* Only the ticket of a transition matches a checkpoint. *)
LEMMA MatchingTicket ==
    ASSUME TypeOK, NEW host, NEW t \in Tickets, TicketMatches(host, t)
    PROVE  /\ t \in TransitionTickets
           /\ t = TicketFor(t.step, checkpoint.reservationId)
  <1>1. t = TicketFor(t.step, checkpoint.reservationId)
    BY DEF TicketMatches
  <1>2. IsTransitionTicket(t)
    BY <1>1 DEF TicketFor, IsTransitionTicket
  <1>3. QED BY <1>1, <1>2, TicketSorts

-----------------------------------------------------------------------------
(* What supervisors do to the store is done by its transactions. *)

(* What a process read before only decides whether the transaction it asks  *)
(* for happens: one that does is a transaction of an up-to-date caller.     *)
LEMMA CommitsUseStore ==
    ASSUME TypeOK, Shapes, NEW h \in Hosts,
           \/ CommitDeploy(h) \/ CommitRollback(h) \/ RejectPromotion(h)
           \/ CompleteTombstone(h) \/ DecideClose(h) \/ FinishClose(h)
    PROVE  [Next]_vars
  <1> DEFINE p == process[h]
  <1>1. CASE CommitDeploy(h)
    <2>1. /\ p.target \in Generations /\ p.target # p.base
      BY <1>1 DEF Shapes, ProcessShape, CommitDeploy, IsDeploy, Starting
    <2>2. ASSUME NEW quarantine \in BOOLEAN,
                 Promote(p.revision, p.token, p.base, p.target, quarantine)
          PROVE  Next
      <3>1. p.revision = revision /\ p.token = fence.token /\ p.base = active
        BY <2>2 DEF Promote, MayPromote
      <3>2. Promote(revision, fence.token, p.base, p.target, quarantine)
        BY <2>2, <3>1
      <3>3. p.base \in Generations
        BY <3>1 DEF TypeOK
      <3>4. QED BY <2>1, <3>2, <3>3 DEF Next, PointerStep
    <2>3. QED BY <1>1, <2>2 DEF CommitDeploy
  <1>2. CASE CommitRollback(h)
    <2>1. ASSUME Rollback(h, p.revision, p.token)
          PROVE  Next
      <3>1. p.revision = revision /\ p.token = fence.token
        BY <2>1 DEF Rollback, MayRollback
      <3>2. Rollback(h, revision, fence.token)
        BY <2>1, <3>1
      <3>3. QED BY <3>2 DEF Next, PointerStep
    <2>2. QED BY <1>2, <2>1 DEF CommitRollback
  <1>3. CASE RejectPromotion(h)
    <2>1. p.target \in Generations
      BY <1>3 DEF Shapes, ProcessShape, RejectPromotion, Retiring
    <2>2. QED BY <1>3, <2>1 DEF RejectPromotion, Next, RetirementStep
  <1>4. CASE CompleteTombstone(h)
    <2>1. p.target \in Generations
      BY <1>4 DEF Shapes, ProcessShape, CompleteTombstone, Retiring
    <2>2. QED BY <1>4, <2>1 DEF CompleteTombstone, Next, RetirementStep
  <1>5. CASE DecideClose(h)
    <2>1. ReserveRollbackRetirement(revision, rollback) => rollback \in Generations
      BY DEF ReserveRollbackRetirement, MayReserveRollbackRetirement, TypeOK
    <2>2. ReserveRollbackRetirement(revision, rollback) \/ UNCHANGED vars
      BY <1>5 DEF DecideClose
    <2>3. QED BY <2>1, <2>2 DEF Next, PointerStep
  <1>6. CASE FinishClose(h)
    <2>1. ASSUME CloseRollback(p.revision, p.target)
          PROVE  Next
      <3>1. p.revision = revision /\ p.target = rollback /\ rollback # NoGeneration
        BY <2>1 DEF CloseRollback, MayCloseRollback
      <3>2. CloseRollback(revision, rollback) /\ rollback \in Generations
        BY <2>1, <3>1 DEF TypeOK
      <3>3. QED BY <3>2 DEF Next, PointerStep
    <2>2. QED BY <1>6, <2>1 DEF FinishClose
  <1>7. QED BY <1>1, <1>2, <1>3, <1>4, <1>5, <1>6

(* Recovering the worker. *)
LEMMA RecoveriesUseStore ==
    ASSUME NEW h \in Hosts, InspectWorker(h) \/ RecoverySettled(h)
    PROVE  [Next]_vars
  <1>1. ASSUME ReserveWorkerRecoveryActivation(revision, fence.token,
                   fence.promotionRevision, active, process[h].command = "bootstrap")
        PROVE  Next
    BY <1>1 DEF Next, RecoveryStep
  <1>2. ASSUME CompleteWorkerRecoveryActivation(process[h].ticket.token)
        PROVE  Next
    <2>1. recovery.token = process[h].ticket.token
      BY <1>2 DEF CompleteWorkerRecoveryActivation
    <2>2. QED BY <1>2, <2>1 DEF Next, RecoveryStep
  <1>3. QED BY <1>1, <1>2 DEF InspectWorker, RecoverySettled, Next, RecoveryStep

(* Reserving, releasing and completing the steps a transition owes. *)
LEMMA StepsUseStore ==
    ASSUME TypeOK, Shapes, NEW h \in Hosts,
           ReserveStep(h) \/ AwaitStep(h) \/ ReleaseStep(h) \/ CompleteStep(h)
    PROVE  [Next]_vars
  <1> DEFINE p == process[h]
  <1>1. ASSUME NEW rev, NEW step, Reserve(h, rev, step)
        PROVE  Next
    <2>1. /\ rev = revision /\ step = NextStep /\ HasNextStep
          /\ FreshReservation \in ReservationIds
          /\ ReserveTransitionStep(h, rev, step, FreshReservation)
      BY <1>1 DEF Reserve, MayReserveTransitionStep
    <2>2. step \in Steps
      BY <2>1, OwedStep
    <2>3. ReserveTransitionStep(h, revision, step, FreshReservation)
      BY <2>1
    <2>4. QED BY <2>1, <2>2, <2>3 DEF Next, CheckpointStep
  <1>2. p.ticket \in Tickets
    BY DEF Shapes, Processes
  <1>3. ASSUME ReleaseTransitionStep(h, p.ticket)
        PROVE  Next
    <2>1. TicketMatches(h, p.ticket)
      BY <1>3 DEF ReleaseTransitionStep
    <2>2. /\ p.ticket.step \in Steps
          /\ p.ticket = TicketFor(p.ticket.step, checkpoint.reservationId)
      BY <1>2, <2>1, MatchingTicket DEF TransitionTickets
    <2>3. ReleaseTransitionStep(h, TicketFor(p.ticket.step, checkpoint.reservationId))
      BY <1>3, <2>2
    <2>4. QED BY <2>2, <2>3 DEF Next, CheckpointStep
  <1>4. ASSUME CompleteTransitionStep(h, p.ticket)
        PROVE  Next
    <2>1. TicketMatches(h, p.ticket)
      BY <1>4 DEF CompleteTransitionStep, MayCompleteTransitionStep
    <2>2. /\ p.ticket.step \in Steps
          /\ p.ticket = TicketFor(p.ticket.step, checkpoint.reservationId)
      BY <1>2, <2>1, MatchingTicket DEF TransitionTickets
    <2>3. CompleteTransitionStep(h, TicketFor(p.ticket.step, checkpoint.reservationId))
      BY <1>4, <2>2
    <2>4. QED BY <2>2, <2>3 DEF Next, CheckpointStep
  <1>5. CASE ReserveStep(h)
    BY <1>1, <1>5 DEF ReserveStep
  <1>6. CASE AwaitStep(h)
    BY <1>1, <1>6 DEF AwaitStep
  <1>7. CASE ReleaseStep(h)
    BY <1>3, <1>7 DEF ReleaseStep
  <1>8. CASE CompleteStep(h)
    BY <1>4, <1>8 DEF CompleteStep
  <1>9. QED BY <1>5, <1>6, <1>7, <1>8

(* Everything else leaves the store alone or is the passing of a deadline. *)
LEMMA SupervisorsUseStore ==
    ASSUME TypeOK, Shapes, [DeploymentNext]_allVars
    PROVE  [Next]_vars
  <1>1. ASSUME NEW h \in Hosts, Operator(h)
        PROVE  UNCHANGED vars
    BY <1>1 DEF Operator, Bootstrap, BeginRecover, BeginDeploy, BeginRestart, BeginRollback,
       BeginClose, Issue
  <1>2. ASSUME NEW h \in Hosts,
               \/ Start(h) \/ Readiness(h) \/ VerifyRetirement(h) \/ RemoveGeneration(h)
               \/ NextPending(h) \/ PrepareWorker(h) \/ ReplaceWorker(h)
               \/ SendActivation(h) \/ Effect(h)
        PROVE  UNCHANGED vars
    BY <1>2 DEF Start, Readiness, VerifyRetirement, RemoveGeneration, NextPending,
       PrepareWorker, ReplaceWorker, SendActivation, Effect
  <1>3. ASSUME NEW h \in Hosts, Transition(h)
        PROVE  [Next]_vars
    BY <1>2, <1>3, CommitsUseStore, RecoveriesUseStore, StepsUseStore DEF Transition
  <1>4. ASSUME NEW h \in Hosts, WorkerStep(h)
        PROVE  UNCHANGED vars
    BY <1>4 DEF WorkerStep, WorkerVerify, WorkerAct
  <1>5. CASE Environment
    BY <1>5 DEF Environment, Crash, ReservationExpires, LoseWorker, Heartbeat, LapseFence,
       RecoveryExpires, WindowExpires, InventoryConverges, Next, WorldStep
  <1>6. CASE UNCHANGED allVars
    BY <1>6 DEF allVars, vars
  <1>7. QED BY <1>1, <1>3, <1>4, <1>5, <1>6 DEF DeploymentNext

-----------------------------------------------------------------------------
(* Shapes: what processes, messages and containers hold fits. *)

LEMMA IdleShape == ProcessShape(Idle) /\ MessageShape(NoMessage)
                   /\ ContainerShape(FreshWorker) /\ ContainerShape(Absent)
  <1>1. NoTicket \in Tickets
    BY DEF Tickets
  <1>2. NoTicket \notin TransitionTickets
    BY <1>1, TicketSorts
  <1>3. QED
    BY <1>1, <1>2 DEF ProcessShape, Idle, Processes, Calls, Starting, Retiring, Ticketless,
       MessageShape, NoMessage, Messages, ContainerShape, FreshWorker, Absent, Containers

(* One process moves on. *)
LEMMA MoveShape ==
    ASSUME Shapes, NEW h \in Hosts, NEW q, ProcessShape(q),
           process' = [process EXCEPT ![h] = q]
    PROVE  process' \in [Hosts -> Processes] /\ \A x \in Hosts : ProcessShape(process'[x])
  BY DEF Shapes, ProcessShape

LEMMA MoveOnly ==
    ASSUME Shapes, NEW h \in Hosts, NEW q, ProcessShape(q),
           process' = [process EXCEPT ![h] = q], UNCHANGED <<wire, worker>>
    PROVE  Shapes'
  BY MoveShape DEF Shapes

(* A container is replaced, which cuts off what was sent to its worker. *)
LEMMA ReplaceShape ==
    ASSUME Shapes, NEW h \in Hosts, NEW g \in Generations, NEW q, ProcessShape(q),
           NEW new \in {FreshWorker, Absent}, ReplaceContainer(h, g, new, q)
    PROVE  Shapes'
  <1>1. \A x \in Hosts : process'[x] \in {q, Idle, process[x]}
    BY DEF ReplaceContainer
  <1>2. \A x \in Hosts : ProcessShape(process'[x])
    BY <1>1, IdleShape DEF Shapes
  <1>3. process' \in [Hosts -> Processes]
    BY <1>2 DEF ReplaceContainer, ProcessShape
  <1>4. \A x \in Hosts : MessageShape(wire'[x])
    BY IdleShape DEF ReplaceContainer, Shapes
  <1>5. wire' \in [Hosts -> Messages]
    BY <1>4 DEF ReplaceContainer, MessageShape
  <1>6. worker' \in [Generations -> Containers] /\ \A x \in Generations : ContainerShape(worker'[x])
    BY IdleShape DEF ReplaceContainer, Shapes, ContainerShape
  <1>7. QED BY <1>2, <1>3, <1>4, <1>5, <1>6 DEF Shapes

LEMMA StartShape ==
    ASSUME Shapes, NEW h \in Hosts, NEW g \in Generations, NEW q, ProcessShape(q),
           StartPassive(h, g, q)
    PROVE  Shapes'
  BY MoveOnly, ReplaceShape DEF StartPassive

(* Commands begin. *)
LEMMA BeginShapes ==
    ASSUME IInv, Shapes, NEW h \in Hosts, Operator(h)
    PROVE  Shapes'
  <1>1. NoTicket \in Tickets /\ NoTicket \notin TransitionTickets
    BY TicketSorts DEF Tickets
  <1>2. /\ active \in Generations /\ rollback \in Generations \cup {NoGeneration}
        /\ revision \in Nat /\ fence.token \in Nat
    BY StoreAssumption DEF IInv, TypeOK, FenceType
  <1> USE <1>1, <1>2 DEF ProcessShape, Idle, Processes, Calls, Starting, Retiring, Ticketless
  <1>3. CASE Bootstrap(h)
    <2>1. ProcessShape([Idle EXCEPT !.pc = "readiness", !.command = "bootstrap",
                                    !.target = InitialGeneration])
      BY StoreAssumption
    <2>2. StartPassive(h, InitialGeneration,
                       [Idle EXCEPT !.pc = "readiness", !.command = "bootstrap",
                                    !.target = InitialGeneration])
      BY <1>3 DEF Bootstrap
    <2>3. QED BY <2>1, <2>2, StartShape, StoreAssumption
  <1>4. CASE BeginRecover(h)
    <2>1. ProcessShape([Idle EXCEPT !.pc = "pending", !.command = "recover"])
      OBVIOUS
    <2>2. QED BY <1>4, <2>1, MoveOnly DEF BeginRecover
  <1>5. ASSUME NEW g \in Generations, BeginDeploy(h, g)
        PROVE  Shapes'
    <2>1. PICK command \in {"deploy", "deploy-quarantine"} :
              /\ g # active
              /\ UNCHANGED <<wire, worker>>
              /\ process' = [process EXCEPT ![h] =
                          [Idle EXCEPT !.pc = "start", !.command = command,
                                       !.revision = revision, !.token = fence.token,
                                       !.base = active, !.target = g]]
      BY <1>5 DEF BeginDeploy, Issue
    <2>2. ProcessShape([Idle EXCEPT !.pc = "start", !.command = command,
                                    !.revision = revision, !.token = fence.token,
                                    !.base = active, !.target = g])
      BY <2>1
    <2>3. QED BY <2>1, <2>2, MoveOnly
  <1>6. CASE BeginRollback(h)
    <2>1. ProcessShape([Idle EXCEPT !.pc = "start", !.command = "rollback",
                                    !.revision = revision, !.token = fence.token,
                                    !.target = rollback])
      BY <1>6 DEF BeginRollback
    <2>2. QED BY <1>6, <2>1, MoveOnly DEF BeginRollback, Issue
  <1>7. CASE BeginClose(h)
    <2>1. ProcessShape([Idle EXCEPT !.pc = "step", !.command = "close"])
      OBVIOUS
    <2>2. QED BY <1>7, <2>1, MoveOnly DEF BeginClose, Issue
  <1>8. ASSUME NEW g \in Generations, BeginRestart(h, g)
        PROVE  Shapes'
    <2>1. ProcessShape([Idle EXCEPT !.pc = "remove", !.command = "restart", !.target = g])
      OBVIOUS
    <2>2. QED BY <1>8, <2>1, MoveOnly DEF BeginRestart, Issue
  <1>9. QED BY <1>3, <1>4, <1>5, <1>6, <1>7, <1>8 DEF Operator

(* The steps of deploy(), rollback() and of a retirement. *)
LEMMA TransitionShapes ==
    ASSUME IInv, Shapes, NEW h \in Hosts,
           \/ Start(h) \/ Readiness(h) \/ CommitDeploy(h) \/ CommitRollback(h)
           \/ RejectPromotion(h) \/ VerifyRetirement(h) \/ RemoveGeneration(h)
           \/ CompleteTombstone(h) \/ NextPending(h)
    PROVE  Shapes'
  <1> DEFINE p == process[h]
             at(c) == [p EXCEPT !.pc = c]
             booted == [Idle EXCEPT !.pc = "pending", !.command = "bootstrap"]
  <1>1. ProcessShape(p) /\ p \in Processes
    BY DEF Shapes, ProcessShape
  <1>2. ASSUME p.pc = "start"
        PROVE  p.target \in Generations /\ ProcessShape(at("readiness"))
    BY <1>1, <1>2 DEF ProcessShape, Processes, Calls, Starting, Retiring, Ticketless
  <1>3. CASE Start(h)
    <2>1. p.pc = "start" /\ StartPassive(h, p.target, at("readiness"))
      BY <1>3 DEF Start
    <2>2. QED BY <1>2, <2>1, StartShape
  <1>4. CASE Readiness(h) \/ CommitDeploy(h) \/ CommitRollback(h)
    <2>1. p.pc \in {"readiness", "commit"} /\ UNCHANGED <<wire, worker>>
      BY <1>4 DEF Readiness, CommitDeploy, CommitRollback
    <2>2. /\ p.pc = "readiness" /\ p.command # "restart" => ProcessShape(at("commit"))
          /\ IsDeploy(h) => ProcessShape(at("reject"))
      BY <1>1, <2>1 DEF ProcessShape, Processes, Calls, Starting, Retiring, Ticketless, IsDeploy
    <2>3. \/ End(h)
          \/ IsDeploy(h) /\ Goto(h, "reject")
          \/ p.pc = "readiness" /\ p.command # "restart" /\ Goto(h, "commit")
          \/ process' = [process EXCEPT ![h] = booted]
      BY <1>4 DEF Readiness, CommitDeploy, CommitRollback, Ready, Reject
    <2>4. ProcessShape(booted)
      BY IdleShape DEF ProcessShape, Idle, Processes, Calls, Starting, Retiring, Ticketless
    <2>5. \E q : ProcessShape(q) /\ process' = [process EXCEPT ![h] = q]
      BY <2>2, <2>3, <2>4, IdleShape DEF End, Goto
    <2>6. QED BY <2>1, <2>5, MoveOnly
  <1>5. CASE RejectPromotion(h) \/ VerifyRetirement(h)
    <2>1. p.pc \in {"reject", "retire"} /\ UNCHANGED <<wire, worker>>
      BY <1>5 DEF RejectPromotion, VerifyRetirement
    <2>2. /\ p.pc = "reject" => ProcessShape(at("retire"))
          /\ p.pc = "retire" => ProcessShape(at("remove"))
      BY <1>1, <2>1 DEF ProcessShape, Processes, Calls, Starting, Retiring, Ticketless
    <2>3. \/ End(h)
          \/ p.pc = "reject" /\ Goto(h, "retire")
          \/ p.pc = "retire" /\ Goto(h, "remove")
      BY <1>5 DEF RejectPromotion, VerifyRetirement
    <2>4. \E q : ProcessShape(q) /\ process' = [process EXCEPT ![h] = q]
      BY <2>2, <2>3, IdleShape DEF End, Goto
    <2>5. QED BY <2>1, <2>4, MoveOnly
  <1>6. CASE RemoveGeneration(h)
    <2> DEFINE next == IF p.command = "restart" THEN "start" ELSE "tombstone"
    <2>1. p.pc = "remove" /\ ReplaceContainer(h, p.target, Absent, at(next))
      BY <1>6 DEF RemoveGeneration
    <2>2. p.target \in Generations /\ ProcessShape(at(next))
      BY <1>1, <2>1, TicketSorts
      DEF ProcessShape, Processes, Calls, Starting, Retiring, Ticketless, Retires
    <2>3. QED BY <2>1, <2>2, ReplaceShape
  <1>7. CASE CompleteTombstone(h)
    <2>1. p.pc = "tombstone" /\ UNCHANGED <<wire, worker>>
      BY <1>7 DEF CompleteTombstone
    <2>2. p.ticket \in Tickets
      BY <1>1 DEF Processes
    <2>3. ProcessShape(at("complete"))
      BY <1>1, <2>1
      DEF ProcessShape, Processes, Calls, Starting, Retiring, Ticketless
    <2>4. ASSUME ~IsTransitionTicket(p.ticket)
          PROVE  ProcessShape([p EXCEPT !.pc = "pending", !.target = NoGeneration])
      <3>1. p.ticket = NoTicket
        BY <1>1, <2>1, <2>2, <2>4, TicketSorts DEF ProcessShape, Retiring, Retires
      <3>2. [p EXCEPT !.pc = "pending", !.target = NoGeneration] \in Processes
        BY <1>1 DEF Processes, Calls
      <3>3. QED
        BY <1>1, <2>1, <3>1, <3>2
        DEF ProcessShape, Processes, Starting, Retiring, Ticketless
    <2>5. \/ End(h)
          \/ IsTransitionTicket(p.ticket) /\ Goto(h, "complete")
          \/ /\ ~IsTransitionTicket(p.ticket)
             /\ process' = [process EXCEPT ![h] =
                                [p EXCEPT !.pc = "pending", !.target = NoGeneration]]
      BY <1>7 DEF CompleteTombstone
    <2>6. \E q : ProcessShape(q) /\ process' = [process EXCEPT ![h] = q]
      BY <2>3, <2>4, <2>5, IdleShape DEF End, Goto
    <2>7. QED BY <2>1, <2>6, MoveOnly
  <1>8. CASE NextPending(h)
    <2>1. p.pc = "pending" /\ UNCHANGED <<wire, worker>>
      BY <1>8 DEF NextPending
    <2>2. ProcessShape(at("worker"))
      BY <1>1, <2>1 DEF ProcessShape, Processes, Calls, Starting, Retiring, Ticketless
    <2>3. ASSUME NEW g \in Generations
          PROVE  ProcessShape([p EXCEPT !.pc = "retire", !.target = g])
      <3>1. [p EXCEPT !.pc = "retire", !.target = g] \in Processes
        BY <1>1 DEF Processes, Calls
      <3>2. QED
        BY <1>1, <2>1, <3>1 DEF ProcessShape, Processes, Starting, Retiring, Ticketless
    <2>4. \/ End(h) \/ Goto(h, "worker")
          \/ \E g \in Generations :
                process' = [process EXCEPT ![h] = [p EXCEPT !.pc = "retire", !.target = g]]
      BY <1>8 DEF NextPending, PendingRetirements
    <2>5. \E q : ProcessShape(q) /\ process' = [process EXCEPT ![h] = q]
      BY <2>2, <2>3, <2>4, IdleShape DEF End, Goto
    <2>6. QED BY <2>1, <2>5, MoveOnly
  <1>9. QED BY <1>3, <1>4, <1>5, <1>6, <1>7, <1>8

(* A live recovery's ticket names the token of the fence and the active     *)
(* generation. *)
LEMMA LiveTicket ==
    ASSUME IInv, LiveRecovery
    PROVE  /\ RecoveryTicket(recovery) \in RecoveryTickets
           /\ RecoveryTicket(recovery).token = fence.token
           /\ RecoveryTicket(recovery).generation = active
  <1>1. /\ recovery \in RecoveryType /\ recovery.token = fence.token
        /\ recovery.generation = active
    BY DEF IInv, TypeOK, LiveRecoveryIsCurrent, RecoveryMatches
  <1>2. fence.token # 0
    BY StoreAssumption DEF IInv, TypeOK, FenceType
  <1>3. QED BY <1>1, <1>2, RecoveryTicketType

LEMMA ReservedRecovery ==
    ASSUME IInv, IInv', NEW initial \in BOOLEAN,
           ReserveWorkerRecoveryActivation(revision, fence.token,
               fence.promotionRevision, active, initial)
    PROVE  /\ RecoveryTicket(recovery') \in RecoveryTickets
           /\ RecoveryTicket(recovery').token = fence'.token
           /\ RecoveryTicket(recovery').generation = active'
           /\ active' = active
  <1>1. /\ recovery'.token = fence'.token /\ recovery'.generation = active /\ active' = active
    BY DEF ReserveWorkerRecoveryActivation, IInv, TypeOK, FenceType
  <1>2. recovery' \in RecoveryType /\ fence'.token # 0
    BY StoreAssumption DEF IInv, TypeOK, FenceType
  <1>3. QED BY <1>1, <1>2, RecoveryTicketType

(* The steps of recover() up to the transition's. *)
LEMMA RecoveryShapes ==
    ASSUME IInv, IInv', Shapes, NEW h \in Hosts,
           \/ InspectWorker(h) \/ RecoverySettled(h) \/ PrepareWorker(h) \/ ReplaceWorker(h)
           \/ SendActivation(h)
    PROVE  Shapes'
  <1> DEFINE p == process[h]
             at(c) == [p EXCEPT !.pc = c]
             again == [Idle EXCEPT !.pc = "step", !.command = "recover-again"]
             with(c, t) == [p EXCEPT !.pc = c, !.ticket = t]
  <1>1. ProcessShape(p) /\ p \in Processes
    BY DEF Shapes, ProcessShape
  <1>2. ProcessShape(again)
    BY IdleShape DEF ProcessShape, Processes, Idle, Calls, Starting, Retiring, Ticketless
  <1>3. WorkerSettled(h) => \E q : ProcessShape(q) /\ process' = [process EXCEPT ![h] = q]
    BY <1>2, IdleShape DEF WorkerSettled, End
  <1>4. CASE InspectWorker(h)
    <2>1. p.pc = "worker" /\ UNCHANGED <<wire, worker>>
      BY <1>4 DEF InspectWorker
    <2>2. ASSUME NEW t \in RecoveryTickets, NEW c \in {"recovered", "reactivate"}
          PROVE  ProcessShape(with(c, t))
      <3>1. t \in Tickets /\ t \notin TransitionTickets
        BY TicketSorts DEF Tickets
      <3>2. with(c, t) \in Processes
        BY <1>1, <3>1 DEF Processes, Calls
      <3>3. with(c, t).pc = c /\ with(c, t).ticket = t /\ with(c, t).command = p.command
        BY <1>1 DEF Processes
      <3>4. p.command # "restart"
        BY <1>1, <2>1 DEF ProcessShape
      <3>5. QED
        BY <3>1, <3>2, <3>3, <3>4 DEF ProcessShape, Starting, Retiring, Ticketless, Activating
    <2>3. \/ WorkerSettled(h)
          \/ \E c \in {"recovered", "reactivate"} :
                LiveRecovery /\ process' = [process EXCEPT ![h] = with(c, RecoveryTicket(recovery))]
          \/ process' = process
          \/ /\ ReserveWorkerRecoveryActivation(revision, fence.token,
                       fence.promotionRevision, active, p.command = "bootstrap")
             /\ process' = [process EXCEPT ![h] = with("reactivate", RecoveryTicket(recovery'))]
          \/ End(h)
      BY <1>4 DEF InspectWorker, WithRecovery
    <2>4. CASE process' = process
      BY <2>1, <2>4 DEF Shapes
    <2>5. CASE process' # process
      <3>1. \E q : ProcessShape(q) /\ process' = [process EXCEPT ![h] = q]
        BY <1>3, <2>2, <2>3, <2>5, LiveTicket, ReservedRecovery, IdleShape DEF End
      <3>2. QED BY <2>1, <3>1, MoveOnly
    <2>6. QED BY <2>4, <2>5
  <1>5. CASE RecoverySettled(h)
    <2>1. UNCHANGED <<wire, worker>> /\ (WorkerSettled(h) \/ End(h))
      BY <1>5 DEF RecoverySettled
    <2>2. \E q : ProcessShape(q) /\ process' = [process EXCEPT ![h] = q]
      BY <1>3, <2>1, IdleShape DEF End
    <2>3. QED BY <2>1, <2>2, MoveOnly
  <1>6. ASSUME p.pc \in {"reactivate", "replace", "send"}
        PROVE  /\ Activating(p.ticket) /\ p.ticket \in Tickets
               /\ p.ticket.generation \in Generations
               /\ \A c \in {"complete", "recovered", "replace", "send", "await"} :
                     ProcessShape(at(c))
    <2>1. Activating(p.ticket) /\ p.ticket \in Tickets /\ p.command # "restart"
      BY <1>1, <1>6 DEF ProcessShape, Processes
    <2>2. p.ticket.generation \in Generations
      BY <2>1 DEF Activating, TransitionTickets, RecoveryTickets
    <2>3. ASSUME NEW c \in {"complete", "recovered", "replace", "send", "await"}
          PROVE  ProcessShape(at(c))
      <3>1. at(c) \in Processes
        BY <1>1 DEF Processes, Calls
      <3>2. at(c).pc = c /\ at(c).ticket = p.ticket /\ at(c).command = p.command
        BY <1>1 DEF Processes
      <3>3. QED BY <1>1, <2>1, <3>1, <3>2 DEF ProcessShape, Starting, Retiring, Ticketless
    <2>4. QED BY <2>1, <2>2, <2>3
  <1>7. CASE PrepareWorker(h)
    <2>1. p.pc = "reactivate" /\ UNCHANGED <<wire, worker>>
      BY <1>7 DEF PrepareWorker
    <2>2. \/ End(h)
          \/ \E c \in {"complete", "recovered", "replace", "send"} : Goto(h, c)
      BY <1>7 DEF PrepareWorker, AfterActivation
    <2>3. \E q : ProcessShape(q) /\ process' = [process EXCEPT ![h] = q]
      BY <1>6, <2>1, <2>2, IdleShape DEF End, Goto
    <2>4. QED BY <2>1, <2>3, MoveOnly
  <1>8. CASE ReplaceWorker(h)
    <2>1. p.pc = "replace" /\ StartPassive(h, p.ticket.generation, at("send"))
      BY <1>8 DEF ReplaceWorker
    <2>2. QED BY <1>6, <2>1, StartShape
  <1>9. CASE SendActivation(h)
    <2>1. p.pc = "send" /\ UNCHANGED worker
      BY <1>9 DEF SendActivation
    <2>2. CASE End(h) /\ UNCHANGED wire
      BY <2>1, <2>2, MoveOnly, IdleShape DEF End
    <2>3. CASE Send(h, "/activate")
      <3> DEFINE m == [path |-> "/activate", verified |-> FALSE, ticket |-> p.ticket]
      <3>1. wire' = [wire EXCEPT ![h] = m] /\ process' = [process EXCEPT ![h] = at("await")]
        BY <2>3 DEF Send, Goto
      <3>2. MessageShape(m)
        BY <1>6, <2>1 DEF MessageShape, Messages
      <3>3. wire' \in [Hosts -> Messages] /\ \A x \in Hosts : MessageShape(wire'[x])
        BY <3>1, <3>2 DEF Shapes, MessageShape
      <3>4. ProcessShape(at("await"))
        BY <1>6, <2>1
      <3>5. QED BY <2>1, <3>1, <3>3, <3>4, MoveShape DEF Shapes
    <2>4. QED BY <1>9, <2>2, <2>3 DEF SendActivation
  <1>10. QED BY <1>4, <1>5, <1>7, <1>8, <1>9

(* Reserving a step gives the process the ticket of a fresh reservation. *)
LEMMA ReservedTicket ==
    ASSUME IInv, NEW h \in Hosts, NEW rev, NEW step, Reserve(h, rev, step)
    PROVE  \E id \in ReservationIds \ HeldReservations :
              /\ step \in Steps
              /\ TicketFor(step, id) \in TransitionTickets
              /\ TicketSound(TicketFor(step, id), fence.token, active)
              /\ process' = [process EXCEPT ![h] =
                     [process[h] EXCEPT !.pc = "effect", !.step = "none",
                                        !.ticket = TicketFor(step, id)]]
              /\ ReserveTransitionStep(h, revision, step, id)
  <1>1. PICK id \in ReservationIds \ HeldReservations :
            /\ MayReserveTransitionStep(h, rev, step, id)
            /\ ReserveTransitionStep(h, rev, step, id)
            /\ process' = [process EXCEPT ![h].pc = "effect", ![h].step = "none",
                                          ![h].ticket = TicketFor(step, id)]
    BY DEF Reserve
  <1>2. HasCheckpoint /\ HasNextStep /\ step = NextStep /\ rev = revision
    BY <1>1 DEF MayReserveTransitionStep, HasNextStep
  <1>3. step \in Steps
    BY <1>2, OwedStep DEF IInv
  <1>4. /\ TicketFor(step, id) \in TransitionTickets
        /\ TicketSound(TicketFor(step, id), fence.token, active)
    BY <1>2, <1>3, NewTicket
  <1>5. ReserveTransitionStep(h, revision, step, id)
    BY <1>1, <1>2
  <1>6. process' = [process EXCEPT ![h] =
                       [process[h] EXCEPT !.pc = "effect", !.step = "none",
                                          !.ticket = TicketFor(step, id)]]
    BY <1>1
  <1>7. QED BY <1>3, <1>4, <1>5, <1>6

(* The steps a committed transition owes. *)
LEMMA StepShapes ==
    ASSUME IInv, IInv', Shapes, NEW h \in Hosts,
           \/ ReserveStep(h) \/ AwaitStep(h) \/ Effect(h) \/ ReleaseStep(h)
           \/ CompleteStep(h) \/ DecideClose(h) \/ FinishClose(h)
    PROVE  Shapes'
  <1> DEFINE p == process[h]
             at(c) == [p EXCEPT !.pc = c]
  <1>1. ProcessShape(p) /\ p \in Processes /\ p.ticket \in Tickets
    BY DEF Shapes, ProcessShape, Processes
  <1>2. ASSUME NEW rev, NEW step, Reserve(h, rev, step), p.pc \in {"step", "waiting"}
        PROVE  \E q : ProcessShape(q) /\ process' = [process EXCEPT ![h] = q]
    <2>1. PICK t \in TransitionTickets :
              process' = [process EXCEPT ![h] =
                     [p EXCEPT !.pc = "effect", !.step = "none", !.ticket = t]]
      BY <1>2, ReservedTicket
    <2> DEFINE q == [p EXCEPT !.pc = "effect", !.step = "none", !.ticket = t]
    <2>2. q \in Processes
      BY <1>1 DEF Processes, Calls, Tickets
    <2>3. q.pc = "effect" /\ q.ticket = t /\ q.command = p.command
      BY <1>1 DEF Processes
    <2>4. p.command \in {"recover-again", "close", "closing"}
      BY <1>1, <1>2 DEF ProcessShape
    <2>5. ProcessShape(q)
      BY <2>2, <2>3, <2>4 DEF ProcessShape, Starting, Retiring, Ticketless
    <2>6. QED BY <2>1, <2>5
  <1>3. CASE ReserveStep(h)
    <2>1. p.pc = "step" /\ UNCHANGED <<wire, worker>>
      BY <1>3 DEF ReserveStep
    <2>2. /\ p.command \in {"recover-again", "close", "closing"} /\ p.ticket = NoTicket
          /\ p.command # "restart"
      BY <1>1, <2>1 DEF ProcessShape, Ticketless
    <2>3. ASSUME NEW c \in {"worker", "close", "finish"}
          PROVE  ProcessShape(at(c))
      BY <1>1, <2>1, <2>2 DEF ProcessShape, Processes, Calls, Starting, Retiring, Ticketless
    <2>4. StepsFinished(h) => \E c \in {"worker", "close", "finish"} : Goto(h, c)
      BY <2>2 DEF StepsFinished
    <2>5. ASSUME NEW s \in Steps
          PROVE  ProcessShape([p EXCEPT !.pc = "waiting", !.step = s, !.revision = revision])
      <3>1. revision \in Nat
        BY StoreAssumption DEF IInv, TypeOK
      <3>2. [p EXCEPT !.pc = "waiting", !.step = s, !.revision = revision] \in Processes
        BY <1>1, <3>1 DEF Processes, Calls
      <3>3. QED
        BY <1>1, <2>1, <2>2, <3>2 DEF ProcessShape, Processes, Starting, Retiring, Ticketless
    <2>6. \/ StepsFinished(h)
          \/ Reserve(h, revision, NextStep)
          \/ /\ HasNextStep
             /\ process' = [process EXCEPT ![h] =
                    [p EXCEPT !.pc = "waiting", !.step = NextStep, !.revision = revision]]
          \/ End(h)
      BY <1>3 DEF ReserveStep
    <2>7. HasNextStep => NextStep \in Steps
      BY OwedStep DEF IInv
    <2>8. \E q : ProcessShape(q) /\ process' = [process EXCEPT ![h] = q]
      BY <1>2, <2>1, <2>3, <2>4, <2>5, <2>6, <2>7, IdleShape DEF Goto, End
    <2>9. QED BY <2>1, <2>8, MoveOnly
  <1>4. CASE AwaitStep(h)
    <2>1. /\ p.pc = "waiting" /\ UNCHANGED <<wire, worker>>
          /\ Reserve(h, p.revision, p.step) \/ End(h)
      BY <1>4 DEF AwaitStep
    <2>2. \E q : ProcessShape(q) /\ process' = [process EXCEPT ![h] = q]
      BY <1>2, <2>1, IdleShape DEF End
    <2>3. QED BY <2>1, <2>2, MoveOnly
  <1>5. CASE Effect(h)
    <2>1. /\ p.pc = "effect" /\ UNCHANGED worker /\ p.ticket \in TransitionTickets
          /\ p.ticket.step \in Steps /\ p.ticket.generation \in Generations
          /\ p.command \in {"recover-again", "close", "closing"}
      BY <1>1, <1>5 DEF Effect, ProcessShape, TransitionTickets
    <2>2. p.ticket.step = "activate-worker" => ProcessShape(at("reactivate"))
      BY <1>1, <2>1 DEF ProcessShape, Processes, Calls, Starting, Retiring, Ticketless, Activating
    <2>3. ASSUME NEW c \in {"complete", "release", "await"}
          PROVE  ProcessShape(at(c))
      BY <1>1, <2>1 DEF ProcessShape, Processes, Calls, Starting, Retiring, Ticketless
    <2>4. p.ticket.step = "retire-retained" =>
              ProcessShape([p EXCEPT !.pc = "retire", !.target = p.ticket.generation])
      <3>1. [p EXCEPT !.pc = "retire", !.target = p.ticket.generation] \in Processes
        BY <1>1, <2>1 DEF Processes, Calls
      <3>2. QED
        BY <1>1, <2>1, <3>1 DEF ProcessShape, Processes, Starting, Retiring, Ticketless, Retires
    <2>5. \/ /\ UNCHANGED wire
             /\ \/ p.ticket.step = "activate-worker" /\ Goto(h, "reactivate")
                \/ \E c \in {"complete", "release"} : Goto(h, c)
                \/ /\ p.ticket.step = "retire-retained"
                   /\ process' = [process EXCEPT ![h] =
                          [p EXCEPT !.pc = "retire", !.target = p.ticket.generation]]
                \/ End(h)
          \/ /\ p.ticket.step \in {"drain-previous", "drain-retained"}
             /\ Send(h, "/drain")
      BY <1>5, <2>1 DEF Effect, Steps
    <2>6. CASE UNCHANGED wire
      <3>1. CASE process' = [process EXCEPT ![h] = at("await")]
        BY <2>1, <2>3, <2>6, <3>1, MoveOnly
      <3>2. Send(h, "/drain") => process' = [process EXCEPT ![h] = at("await")]
        BY DEF Send, Goto
      <3>3. CASE process' # [process EXCEPT ![h] = at("await")]
        <4>1. \E q : ProcessShape(q) /\ process' = [process EXCEPT ![h] = q]
          BY <2>2, <2>3, <2>4, <2>5, <3>2, <3>3, IdleShape DEF Goto, End
        <4>2. QED BY <2>1, <2>6, <4>1, MoveOnly
      <3>4. QED BY <3>1, <3>3
    <2>7. CASE Send(h, "/drain") /\ p.ticket.step \in {"drain-previous", "drain-retained"}
      <3> DEFINE m == [path |-> "/drain", verified |-> FALSE, ticket |-> p.ticket]
      <3>1. wire' = [wire EXCEPT ![h] = m] /\ process' = [process EXCEPT ![h] = at("await")]
        BY <2>7 DEF Send, Goto
      <3>2. MessageShape(m)
        BY <1>1, <2>1, <2>7 DEF MessageShape, Messages, Draining
      <3>3. wire' \in [Hosts -> Messages] /\ \A x \in Hosts : MessageShape(wire'[x])
        BY <3>1, <3>2 DEF Shapes, MessageShape
      <3>4. QED BY <2>1, <2>3, <3>1, <3>3, MoveShape DEF Shapes
    <2>8. QED BY <2>5, <2>6, <2>7
  <1>6. CASE ReleaseStep(h)
    BY <1>6, MoveOnly, IdleShape DEF ReleaseStep, End
  <1>7. CASE CompleteStep(h)
    <2> DEFINE q == [p EXCEPT !.pc = "step", !.ticket = NoTicket,
                              !.target = IF p.command = "closing" THEN @ ELSE NoGeneration]
    <2>1. UNCHANGED <<wire, worker>>
      BY <1>7 DEF CompleteStep
    <2>2. CASE MayCompleteTransitionStep(h, p.ticket)
      <3>1. p.ticket \in TransitionTickets
        BY <1>1, <2>2, MatchingTicket DEF IInv, MayCompleteTransitionStep
      <3>2. p.command \in {"recover-again", "close", "closing"}
        BY <1>1, <3>1 DEF ProcessShape
      <3>3. q \in Processes
        BY <1>1 DEF Processes, Calls, Tickets
      <3>4. q.pc = "step" /\ q.ticket = NoTicket /\ q.command = p.command
        BY <1>1 DEF Processes
      <3>5. ProcessShape(q)
        BY <3>2, <3>3, <3>4 DEF ProcessShape, Starting, Retiring, Ticketless
      <3>6. process' = [process EXCEPT ![h] = q]
        BY <1>7, <2>2 DEF CompleteStep
      <3>7. QED BY <2>1, <3>5, <3>6, MoveOnly
    <2>3. CASE ~MayCompleteTransitionStep(h, p.ticket)
      BY <1>7, <2>1, <2>3, MoveOnly, IdleShape DEF CompleteStep, End
    <2>4. QED BY <2>2, <2>3
  <1>8. CASE DecideClose(h)
    <2> DEFINE q == [Idle EXCEPT !.pc = "step", !.command = "closing",
                                 !.revision = revision', !.target = rollback]
    <2>1. UNCHANGED <<wire, worker>> /\ (End(h) \/ process' = [process EXCEPT ![h] = q])
      BY <1>8 DEF DecideClose
    <2>2. revision' \in Nat /\ rollback \in Generations \cup {NoGeneration}
      BY StoreAssumption DEF IInv, TypeOK
    <2>3. ProcessShape(q)
      BY <2>2, IdleShape DEF ProcessShape, Processes, Idle, Calls, Starting, Retiring, Ticketless
    <2>4. QED BY <2>1, <2>3, MoveOnly, IdleShape DEF End
  <1>9. CASE FinishClose(h)
    BY <1>9, MoveOnly, IdleShape DEF FinishClose, End
  <1>10. QED BY <1>3, <1>4, <1>5, <1>6, <1>7, <1>8, <1>9

(* The worker answers only the process that waits for it. *)
LEMMA AnswerShape ==
    ASSUME Shapes, Correspondence, NEW h \in Hosts,
           NEW c, c = "idle" \/ c = AfterActivation(wire[h].ticket),
           Answer(h, c)
    PROVE  process' \in [Hosts -> Processes] /\ \A x \in Hosts : ProcessShape(process'[x])
  <1> DEFINE p == process[h]
  <1>1. ProcessShape(p) /\ p \in Processes /\ p.ticket \in Tickets
    BY DEF Shapes, ProcessShape, Processes
  <1>2. CASE p.pc # "await"
    BY <1>2 DEF Answer, Shapes
  <1>3. CASE p.pc = "await" /\ c = "idle"
    BY <1>3, MoveShape, IdleShape DEF Answer
  <1>4. CASE p.pc = "await" /\ c # "idle"
    <2>1. c \in {"complete", "recovered"}
      BY <1>4 DEF AfterActivation
    <2>2. process' = [process EXCEPT ![h] = [p EXCEPT !.pc = c]]
      BY <1>4 DEF Answer
    <2>3. ProcessShape([p EXCEPT !.pc = c])
      BY <1>1, <1>4, <2>1 DEF ProcessShape, Processes, Calls, Starting, Retiring, Ticketless
    <2>4. QED BY <2>2, <2>3, MoveShape
  <1>5. QED BY <1>2, <1>3, <1>4

LEMMA WorkerShapes ==
    ASSUME Shapes, Correspondence, NEW h \in Hosts, WorkerVerify(h) \/ WorkerAct(h)
    PROVE  Shapes'
  <1> DEFINE m == wire[h]
  <1>1. MessageShape(m) /\ m \in Messages /\ m.ticket \in Tickets
    BY DEF Shapes, MessageShape, Messages
  <1>2. CASE WorkerVerify(h)
    <2>1. MessageShape([m EXCEPT !.verified = TRUE]) \/ m.path = "none"
      BY <1>1 DEF MessageShape, Messages
    <2>2. /\ UNCHANGED worker
          /\ m.path # "none"
          /\ \/ wire' = [wire EXCEPT ![h] = [m EXCEPT !.verified = TRUE]] /\ process' = process
             \/ wire' = [wire EXCEPT ![h] = NoMessage] /\ Answer(h, "idle")
      BY <1>2 DEF WorkerVerify
    <2>3. wire' \in [Hosts -> Messages] /\ \A x \in Hosts : MessageShape(wire'[x])
      BY <2>1, <2>2, IdleShape DEF Shapes, MessageShape
    <2>4. process' \in [Hosts -> Processes] /\ \A x \in Hosts : ProcessShape(process'[x])
      BY <2>2, AnswerShape DEF Shapes
    <2>5. QED BY <2>2, <2>3, <2>4 DEF Shapes
  <1>3. CASE WorkerAct(h)
    <2> DEFINE g == m.ticket.generation
    <2>1. /\ m.verified
          /\ wire' = [wire EXCEPT ![h] = NoMessage]
          /\ worker' = [worker EXCEPT ![g] =
                 IF m.path = "/drain" THEN [worker[g] EXCEPT !.mode = "drained"]
                 ELSE [mode |-> "active", token |-> m.ticket.token]]
          /\ Answer(h, AfterActivation(m.ticket))
      BY <1>3 DEF WorkerAct
    <2>2. m.path # "none"
      BY <1>1, <2>1 DEF MessageShape, NoMessage
    <2>3. m.ticket \in TransitionTickets \cup RecoveryTickets
      BY <1>1, <2>2 DEF MessageShape, Messages, Activating, Draining
    <2>4. g \in Generations /\ m.ticket.token \in Nat \ {0}
      BY <2>3 DEF TransitionTickets, RecoveryTickets
    <2>5. ContainerShape(worker[g])
      BY <2>4 DEF Shapes
    <2>6. /\ ContainerShape([worker[g] EXCEPT !.mode = "drained"])
          /\ ContainerShape([mode |-> "active", token |-> m.ticket.token])
      BY <2>4, <2>5 DEF ContainerShape, Containers
    <2>7. worker' \in [Generations -> Containers] /\ \A x \in Generations : ContainerShape(worker'[x])
      BY <2>1, <2>4, <2>6 DEF Shapes, ContainerShape
    <2>8. wire' \in [Hosts -> Messages] /\ \A x \in Hosts : MessageShape(wire'[x])
      BY <2>1, IdleShape DEF Shapes, MessageShape
    <2>9. process' \in [Hosts -> Processes] /\ \A x \in Hosts : ProcessShape(process'[x])
      BY <2>1, AnswerShape
    <2>10. QED BY <2>7, <2>8, <2>9 DEF Shapes
  <1>4. QED BY <1>2, <1>3

LEMMA EnvironmentShapes ==
    ASSUME Shapes, Environment
    PROVE  Shapes'
  <1>1. ASSUME NEW h \in Hosts, Crash(h)
        PROVE  Shapes'
    BY <1>1, MoveOnly, IdleShape DEF Crash, End
  <1>2. ASSUME NEW g \in Generations, Heartbeat(g)
        PROVE  Shapes'
    <2>1. UNCHANGED <<process, wire>> /\ worker' = [worker EXCEPT ![g].mode = "passive"]
      BY <1>2 DEF Heartbeat
    <2>2. ContainerShape([worker[g] EXCEPT !.mode = "passive"])
      BY DEF Shapes, ContainerShape, Containers
    <2>3. QED BY <2>1, <2>2 DEF Shapes, ContainerShape
  <1>3. ASSUME NEW g \in Generations, LoseWorker(g)
        PROVE  Shapes'
    <2>1. \A x \in Hosts : ProcessShape(process'[x])
      BY <1>3, IdleShape DEF LoseWorker, Shapes
    <2>2. process' \in [Hosts -> Processes]
      BY <1>3, <2>1 DEF LoseWorker, ProcessShape
    <2>3. \A x \in Hosts : MessageShape(wire'[x])
      BY <1>3, IdleShape DEF LoseWorker, Shapes
    <2>4. wire' \in [Hosts -> Messages]
      BY <1>3, <2>3 DEF LoseWorker, MessageShape
    <2>5. worker' \in [Generations -> Containers] /\ \A x \in Generations : ContainerShape(worker'[x])
      BY <1>3, IdleShape DEF LoseWorker, Shapes, ContainerShape
    <2>6. QED BY <2>1, <2>2, <2>3, <2>4, <2>5 DEF Shapes
  <1>4. CASE UNCHANGED <<process, wire, worker>>
    BY <1>4 DEF Shapes
  <1>5. QED
    BY <1>1, <1>2, <1>3, <1>4
    DEF Environment, ReservationExpires, LapseFence, RecoveryExpires, WindowExpires,
        InventoryConverges, supervisorVars

LEMMA ShapesStep ==
    ASSUME IInv, IInv', Shapes, Correspondence, [DeploymentNext]_allVars
    PROVE  Shapes'
  <1>1. CASE UNCHANGED allVars
    BY <1>1 DEF allVars, Shapes
  <1>2. QED
    BY <1>1, BeginShapes, TransitionShapes, RecoveryShapes, StepShapes, WorkerShapes,
       EnvironmentShapes
    DEF DeploymentNext, Transition, WorkerStep

-----------------------------------------------------------------------------
(* Checkpoints: which drain is owed, and who reserved the step.             *)

(* The steps a checkpoint owes, in their order: every drain comes before    *)
(* the retirement of what was drained, and after the steps toward the       *)
(* active generation. *)
LEMMA OwedOrder ==
    ASSUME TypeOK, HasNextStep
    PROVE  /\ checkpoint.completed \in Nat
           /\ NextStep = "retire-retained" =>
                  checkpoint.completed = Len(StepsOf(checkpoint.kind)) - 1
           /\ NextStep \in TowardActive =>
                  /\ checkpoint.completed + 1 < Len(StepsOf(checkpoint.kind))
                  /\ StepsOf(checkpoint.kind)[checkpoint.completed + 2] # "retire-retained"
           /\ \A n \in Nat : n < checkpoint.completed =>
                  StepsOf(checkpoint.kind)[n + 1] # "retire-retained"
  <1>1. checkpoint.completed \in Nat /\ checkpoint.kind \in Kinds
    BY DEF TypeOK, CheckpointType, HasNextStep, HasCheckpoint
  <1>2. CASE checkpoint.kind = "retire-rollback"
    BY <1>1, <1>2 DEF NextStep, HasNextStep, StepsOf, TowardActive
  <1>3. CASE checkpoint.kind = "promote-retire-previous"
    BY <1>1, <1>3 DEF NextStep, HasNextStep, StepsOf, SwitchSteps, TowardActive
  <1>4. CASE checkpoint.kind \in {"promote", "rollback"}
    BY <1>1, <1>4 DEF NextStep, HasNextStep, StepsOf, SwitchSteps, TowardActive
  <1>5. QED BY <1>1, <1>2, <1>3, <1>4 DEF Kinds

(* What is to be drained is not active. *)
LEMMA DrainedIsNotActive ==
    ASSUME IInv, NEW g, DrainPending(g)
    PROVE  g # active
  <1>1. HasCheckpoint /\ checkpoint.previous = g
    BY DEF DrainPending, HasNextStep
  <1>2. CASE checkpoint.kind = "promote-retire-previous"
    BY <1>1, <1>2 DEF IInv, TombstonesSpareLiveGenerations
  <1>3. CASE checkpoint.kind # "promote-retire-previous"
    BY <1>1, <1>3, StoreAssumption
    DEF IInv, CheckpointReadable, TombstonesSpareLiveGenerations, TypeOK
  <1>4. QED BY <1>2, <1>3

(* A tombstone that no drain stands in the way of stays so: a later         *)
(* checkpoint drains what was active or retained until then. *)
LEMMA DrainOverStep ==
    ASSUME IInv, [Next]_vars, NEW g \in Generations, DrainOver(g)
    PROVE  DrainOver(g)'
  <1>1. /\ TypeOK /\ CheckpointReadable /\ TombstonesSpareLiveGenerations
        /\ retirement[g] # "none" /\ g # active /\ ~DrainPending(g)
        /\ retirement \in [Generations -> {"none", "reserved", "completed"}]
    BY DEF IInv, TypeOK, DrainOver
  <1>2. ASSUME retirement'[g] # "none", g # active',
               ~HasCheckpoint' \/ checkpoint'.previous # g
        PROVE  DrainOver(g)'
    BY <1>2 DEF DrainOver, DrainPending, HasNextStep
  <1>3. ASSUME retirement'[g] # "none", UNCHANGED <<active, checkpoint>>
        PROVE  DrainOver(g)'
    BY <1>1, <1>3 DEF DrainOver, DrainPending, HasNextStep, HasCheckpoint, NextStep
  <1>4. ASSUME NEW base \in Generations, NEW target \in Generations, NEW quarantine \in BOOLEAN,
               Promote(revision, fence.token, base, target, quarantine)
        PROVE  DrainOver(g)'
    <2>1. active' = target /\ retirement[target] = "none"
      BY <1>4 DEF Promote, MayPromote, NotRetired, CommitTransition
    <2>2. checkpoint'.previous = active
      BY <1>4 DEF Promote, CommitTransition, NewCheckpoint
    <2>3. retirement'[g] # "none"
      BY <1>1, <1>4 DEF Promote, CommitTransition
    <2>4. QED BY <1>1, <1>2, <2>1, <2>2, <2>3
  <1>5. ASSUME NEW host \in Hosts, Rollback(host, revision, fence.token)
        PROVE  DrainOver(g)'
    <2>1. /\ active' = rollback /\ rollback # NoGeneration /\ window.state = "open"
          /\ UNCHANGED retirement
      BY <1>5 DEF Rollback, MayRollback, WindowOpenAt, CommitTransition
    <2>2. rollback # g
      BY <1>1, <2>1 DEF TombstonesSpareLiveGenerations
    <2>3. checkpoint'.previous = active
      BY <1>5 DEF Rollback, CommitTransition, NewCheckpoint
    <2>4. QED BY <1>1, <1>2, <2>1, <2>2, <2>3
  <1>6. ASSUME NEW r \in Generations, ReserveRollbackRetirement(revision, r)
        PROVE  DrainOver(g)'
    <2>1. /\ active' = active /\ retirement[r] = "none"
          /\ retirement' = [retirement EXCEPT ![r] = "reserved"]
      BY <1>6 DEF ReserveRollbackRetirement, MayReserveRollbackRetirement, NotRetired
    <2>2. checkpoint'.previous = r
      BY <1>6 DEF ReserveRollbackRetirement, NewCheckpoint
    <2>3. QED BY <1>1, <1>2, <2>1, <2>2
  <1>7. ASSUME NEW r \in Generations, CloseRollback(revision, r)
        PROVE  DrainOver(g)'
    BY <1>1, <1>2, <1>7 DEF CloseRollback, HasCheckpoint, NoCheckpoint
  <1>8. CASE RetirementStep
    BY <1>1, <1>3, <1>8
    DEF RetirementStep, ReserveGenerationRetirement, CompleteGenerationRetirement
  <1>9. CASE CheckpointStep \/ (\E host \in Hosts : PassReservationDeadline(host))
    <2>1. /\ UNCHANGED <<active, retirement>>
          /\ checkpoint'.kind = checkpoint.kind
          /\ checkpoint'.previous = checkpoint.previous
          /\ checkpoint'.completed >= checkpoint.completed
      BY <1>1, <1>9, CheckpointStepFrame
    <2>2. checkpoint'.completed \in Nat
      BY <1>1, TypeStep DEF TypeOK, CheckpointType
    <2>3. ASSUME DrainPending(g)'
          PROVE  FALSE
      <3>1. /\ HasCheckpoint /\ checkpoint.previous = g
            /\ checkpoint'.completed < Len(StepsOf(checkpoint.kind))
            /\ StepsOf(checkpoint.kind)[checkpoint'.completed + 1] # "retire-retained"
        BY <2>1, <2>3 DEF DrainPending, HasNextStep, HasCheckpoint, NextStep
      <3>2. checkpoint.completed \in Nat /\ Len(StepsOf(checkpoint.kind)) \in Nat
        BY <1>1, StepsOfLen DEF TypeOK, CheckpointType
      <3>3. HasNextStep /\ NextStep = "retire-retained"
        BY <1>1, <2>1, <2>2, <3>1, <3>2 DEF DrainPending, HasNextStep
      <3>4. checkpoint.completed = Len(StepsOf(checkpoint.kind)) - 1
        BY <1>1, <3>3, OwedOrder
      <3>5. checkpoint'.completed = checkpoint.completed
        BY <2>1, <2>2, <3>1, <3>2, <3>4
      <3>6. QED BY <3>1, <3>3, <3>5 DEF NextStep
    <2>4. QED BY <1>1, <2>1, <2>3 DEF DrainOver
  <1>10. CASE RecoveryStep
    BY <1>1, <1>3, <1>10
    DEF RecoveryStep, ReserveWorkerRecoveryActivation, CompleteWorkerRecoveryActivation,
        ExpireWorkerRecoveryActivation
  <1>11. CASE \/ ConvergeInventory \/ PassFenceLease \/ PassRecoveryDeadline
              \/ (\E host \in Hosts : PassWindowDeadline(host)) \/ UNCHANGED vars
    BY <1>1, <1>3, <1>11
    DEF ConvergeInventory, PassFenceLease, PassRecoveryDeadline, PassWindowDeadline, vars
  <1>12. QED
    BY <1>4, <1>5, <1>6, <1>7, <1>8, <1>9, <1>10, <1>11 DEF Next, PointerStep, WorldStep

(* A drain that is owed stays so until it is completed.                     *)
LEMMA DrainPendingStep ==
    ASSUME IInv, [Next]_vars, NEW g, DrainPending(g), UNCHANGED checkpoint.completed
    PROVE  DrainPending(g)'
  <1>1. /\ TypeOK /\ HasNextStep /\ HasCheckpoint /\ checkpoint.previous = g
        /\ ~CompletedCheckpoint
    <2>1. Len(StepsOf(checkpoint.kind)) \in Nat /\ checkpoint.completed \in Nat
      BY StepsOfLen DEF IInv, TypeOK, CheckpointType
    <2>2. QED BY <2>1 DEF IInv, DrainPending, HasNextStep, HasCheckpoint, CompletedCheckpoint
  <1>2. ~PointerStep
    BY <1>1
    DEF PointerStep, Promote, MayPromote, Rollback, MayRollback, ReserveRollbackRetirement,
        MayReserveRollbackRetirement, CloseRollback, MayCloseRollback
  <1>3. CASE UNCHANGED checkpoint
    BY <1>3 DEF DrainPending, HasNextStep, HasCheckpoint, NextStep
  <1>4. CASE CheckpointStep \/ (\E host \in Hosts : PassReservationDeadline(host))
    <2>1. checkpoint'.kind = checkpoint.kind /\ checkpoint'.previous = checkpoint.previous
      BY <1>1, <1>4, CheckpointStepFrame
    <2>2. QED BY <2>1 DEF DrainPending, HasNextStep, HasCheckpoint, NextStep
  <1>5. CASE RetirementStep \/ RecoveryStep
    BY <1>3, <1>5
    DEF RetirementStep, ReserveGenerationRetirement, CompleteGenerationRetirement, RecoveryStep,
        ReserveWorkerRecoveryActivation, CompleteWorkerRecoveryActivation,
        ExpireWorkerRecoveryActivation
  <1>6. CASE \/ ConvergeInventory \/ PassFenceLease \/ PassRecoveryDeadline
             \/ (\E host \in Hosts : PassWindowDeadline(host)) \/ UNCHANGED vars
    BY <1>3, <1>6
    DEF ConvergeInventory, PassFenceLease, PassRecoveryDeadline, PassWindowDeadline, vars
  <1>7. QED BY <1>2, <1>4, <1>5, <1>6 DEF Next, WorldStep

(* Who completes a step, reserves one, or completes a tombstone.            *)
CompletesStep(h) ==
    process[h].pc = "complete" /\ CompleteTransitionStep(h, process[h].ticket)

StoreCalls ==
    /\ \/ checkpoint'.completed = checkpoint.completed
       \/ CompletedCheckpoint
       \/ \E h \in Hosts : CompletesStep(h)
    /\ \/ checkpoint'.reservationId \in {checkpoint.reservationId, NoReservation}
       \/ checkpoint'.reservationId \notin HeldReservations
    /\ \A g \in Generations :
          retirement'[g] = "completed" =>
              \/ retirement[g] = "completed"
              \/ \E h \in Hosts : process[h].pc = "tombstone" /\ process[h].target = g

LEMMA StoreCallsStep ==
    ASSUME IInv, Shapes, [DeploymentNext]_allVars
    PROVE  StoreCalls
  <1>1. TypeOK /\ checkpoint \in CheckpointType
        /\ retirement \in [Generations -> {"none", "reserved", "completed"}]
    BY DEF IInv, TypeOK
  <1>2. ASSUME UNCHANGED <<checkpoint, retirement>>
        PROVE  StoreCalls
    BY <1>2 DEF StoreCalls
  <1>3. ASSUME NEW op, NEW kind, NEW target, NEW retained, NEW newWindow,
               CommitTransition(op, kind, target, retained, newWindow)
        PROVE  checkpoint'.reservationId = NoReservation
    BY <1>3 DEF CommitTransition, NewCheckpoint
  <1>4. ASSUME NEW h \in Hosts, CommitDeploy(h) \/ CommitRollback(h)
        PROVE  StoreCalls
    <2>1. CASE UNCHANGED vars
      BY <1>2, <2>1 DEF vars
    <2>2. ASSUME NEW rev, NEW token, NEW base, NEW target, NEW quarantine,
                 Promote(rev, token, base, target, quarantine)
          PROVE  StoreCalls
      <3>1. checkpoint'.reservationId = NoReservation /\ CompletedCheckpoint
        BY <1>3, <2>2 DEF Promote, MayPromote
      <3>2. \A g \in Generations : retirement'[g] = "completed" => retirement[g] = "completed"
        BY <1>1, <2>2 DEF Promote
      <3>3. QED BY <3>1, <3>2 DEF StoreCalls
    <2>3. ASSUME NEW rev, NEW token, Rollback(h, rev, token)
          PROVE  StoreCalls
      BY <1>3, <2>3 DEF Rollback, MayRollback, StoreCalls
    <2>4. QED BY <1>4, <2>1, <2>2, <2>3 DEF CommitDeploy, CommitRollback
  <1>5. ASSUME NEW h \in Hosts, RejectPromotion(h)
        PROVE  StoreCalls
    <2>1. \/ UNCHANGED vars
          \/ \E g \in Generations : ReserveGenerationRetirement(g)
      BY <1>5 DEF RejectPromotion, Shapes, ProcessShape
    <2>2. QED BY <1>1, <1>2, <2>1 DEF ReserveGenerationRetirement, vars, StoreCalls
  <1>6. ASSUME NEW h \in Hosts, CompleteTombstone(h)
        PROVE  StoreCalls
    BY <1>1, <1>2, <1>6 DEF CompleteTombstone, CompleteGenerationRetirement, vars, StoreCalls
  <1>7. ASSUME NEW h \in Hosts, DecideClose(h) \/ FinishClose(h)
        PROVE  StoreCalls
    <2>1. CASE UNCHANGED vars
      BY <1>2, <2>1 DEF vars
    <2>2. ASSUME NEW rev, NEW g, ReserveRollbackRetirement(rev, g)
          PROVE  StoreCalls
      <3>1. checkpoint'.reservationId = NoReservation /\ CompletedCheckpoint
        BY <2>2 DEF ReserveRollbackRetirement, MayReserveRollbackRetirement, NewCheckpoint
      <3>2. \A x \in Generations : retirement'[x] = "completed" => retirement[x] = "completed"
        BY <1>1, <2>2 DEF ReserveRollbackRetirement
      <3>3. QED BY <3>1, <3>2 DEF StoreCalls
    <2>3. ASSUME NEW rev, NEW g, CloseRollback(rev, g)
          PROVE  StoreCalls
      BY <2>3 DEF CloseRollback, MayCloseRollback, NoCheckpoint, StoreCalls
    <2>4. QED BY <1>7, <2>1, <2>2, <2>3 DEF DecideClose, FinishClose
  <1>8. ASSUME NEW h \in Hosts, InspectWorker(h) \/ RecoverySettled(h)
        PROVE  StoreCalls
    BY <1>2, <1>8
    DEF InspectWorker, RecoverySettled, ReserveWorkerRecoveryActivation,
        CompleteWorkerRecoveryActivation, ExpireWorkerRecoveryActivation, vars
  <1>9. ASSUME NEW h \in Hosts, ReserveStep(h) \/ AwaitStep(h)
        PROVE  StoreCalls
    <2>1. \/ UNCHANGED vars
          \/ \E rev, step : Reserve(h, rev, step)
      BY <1>9 DEF ReserveStep, AwaitStep
    <2>2. ASSUME NEW rev, NEW step, Reserve(h, rev, step)
          PROVE  StoreCalls
      <3>1. PICK id \in ReservationIds \ HeldReservations :
                ReserveTransitionStep(h, revision, step, id)
        BY <2>2, ReservedTicket
      <3>2. /\ UNCHANGED retirement
            /\ checkpoint' \in {checkpoint, [checkpoint EXCEPT !.reservedStep = step,
                                    !.reservationId = id, !.liveAt = Hosts]}
        BY <3>1 DEF ReserveTransitionStep
      <3>3. checkpoint'.completed = checkpoint.completed
            /\ checkpoint'.reservationId \in {checkpoint.reservationId, id}
        BY <1>1, <3>2 DEF CheckpointType
      <3>4. QED BY <3>1, <3>2, <3>3 DEF StoreCalls
    <2>3. QED BY <1>2, <2>1, <2>2 DEF vars
  <1>10. ASSUME NEW h \in Hosts, ReleaseStep(h)
         PROVE  StoreCalls
    <2>1. UNCHANGED retirement /\ checkpoint' \in {checkpoint, Unreserved(checkpoint)}
      BY <1>10 DEF ReleaseStep, ReleaseTransitionStep, vars
    <2>2. checkpoint'.completed = checkpoint.completed
          /\ checkpoint'.reservationId \in {checkpoint.reservationId, NoReservation}
      BY <1>1, <2>1 DEF Unreserved, CheckpointType
    <2>3. QED BY <2>1, <2>2 DEF StoreCalls
  <1>11. ASSUME NEW h \in Hosts, CompleteStep(h)
         PROVE  StoreCalls
    <2>1. CASE UNCHANGED vars
      BY <1>2, <2>1 DEF vars
    <2>2. CASE CompleteTransitionStep(h, process[h].ticket)
      <3>1. UNCHANGED retirement /\ CompletesStep(h)
        BY <1>11, <2>2 DEF CompleteTransitionStep, CompletesStep, CompleteStep
      <3>2. checkpoint' = [Unreserved(checkpoint) EXCEPT !.completed = checkpoint.completed + 1]
        BY <2>2
        DEF CompleteTransitionStep, MayCompleteTransitionStep, WithStepCompleted,
            RecoveryRetired, CheckpointColumnCheck, JsonNull, NoCheckpoint
      <3>3. checkpoint'.reservationId = NoReservation
        BY <1>1, <3>2 DEF Unreserved, CheckpointType
      <3>4. QED BY <3>1, <3>3 DEF StoreCalls
    <2>3. QED BY <1>11, <2>1, <2>2 DEF CompleteStep
  <1>12. ASSUME NEW h \in Hosts, ReservationExpires(h)
         PROVE  StoreCalls
    BY <1>1, <1>12 DEF ReservationExpires, PassReservationDeadline, CheckpointType, StoreCalls
  <1>13. ASSUME NEW h \in Hosts, Operator(h) \/ WorkerStep(h)
         PROVE  StoreCalls
    BY <1>2, <1>13
    DEF Operator, Bootstrap, BeginRecover, BeginDeploy, BeginRestart, BeginRollback, BeginClose,
        Issue, WorkerStep, WorkerVerify, WorkerAct, vars
  <1>14. ASSUME NEW h \in Hosts,
                \/ Start(h) \/ Readiness(h) \/ VerifyRetirement(h) \/ RemoveGeneration(h)
                \/ NextPending(h) \/ PrepareWorker(h) \/ ReplaceWorker(h)
                \/ SendActivation(h) \/ Effect(h)
         PROVE  StoreCalls
    BY <1>2, <1>14
    DEF Start, Readiness, VerifyRetirement, RemoveGeneration, NextPending, PrepareWorker,
        ReplaceWorker, SendActivation, Effect, vars
  <1>15. CASE Environment
    BY <1>2, <1>12, <1>15
    DEF Environment, Crash, LoseWorker, Heartbeat, LapseFence, PassFenceLease, RecoveryExpires,
        PassRecoveryDeadline, WindowExpires, PassWindowDeadline, InventoryConverges,
        ConvergeInventory, vars
  <1>16. CASE UNCHANGED allVars
    BY <1>2, <1>16 DEF allVars, vars
  <1>17. QED
    BY <1>4, <1>5, <1>6, <1>7, <1>8, <1>9, <1>10, <1>11, <1>13, <1>14, <1>15, <1>16
    DEF DeploymentNext, Transition

-----------------------------------------------------------------------------
(* What one step of a supervisor, a worker or the world can be.             *)

(* A ticket that is handed out names the token it was handed out under; a   *)
(* reservation is nobody else's. *)
Given(t) ==
    \/ t \in RecoveryTickets /\ t.token = fence'.token /\ t.generation = active'
    \/ /\ t \in TransitionTickets
       /\ TicketSound(t, fence'.token, active')
       /\ t.reservationId \notin HeldReservations

(* What a process holds next when it alone moves. *)
Follows(h, q) ==
    /\ q.pc # "await" /\ q.pc # "tombstone"
    /\ process[h].pc = "await" => q = Idle
    /\ process[h].pc = "idle" /\ q.pc # "idle" => wire[h] = NoMessage
    /\ q.ticket \in {process[h].ticket, NoTicket} \/ Given(q.ticket)
    /\ q.pc = "retire" => q.ticket \in TransitionTickets \/ DrainOver(q.target)'
    /\ q.pc = "remove" => q.command = "restart" \/ DrainOver(q.target)'
    /\ q.pc = "complete" => ~Draining(q.ticket)

Moves(h) ==
    /\ \E q : process' = [process EXCEPT ![h] = q] /\ Follows(h, q)
    /\ UNCHANGED <<wire, worker>>

(* What a container is run anew for.                                        *)
StartsAnew(h, g, q) ==
    \/ process[h].pc = "start" /\ process[h].target = g
    \/ process[h].pc = "replace" /\ process[h].ticket.generation = g
    \/ process[h].pc = "idle" /\ q.command = "bootstrap" /\ g = InitialGeneration

Replaces(h, g) ==
    /\ process[h].pc # "await"
    /\ process[h].pc = "idle" => wire[h] = NoMessage
    /\ \/ \E q : /\ ReplaceContainer(h, g, FreshWorker, q)
                 /\ StartsAnew(h, g, q)
                 /\ q.pc \in {"readiness", "send"}
                 /\ q.ticket \in {process[h].ticket, NoTicket}
       \/ /\ process[h].pc = "remove"
          /\ g = process[h].target
          /\ ReplaceContainer(h, g, Absent,
                 [process[h] EXCEPT !.pc = IF process[h].command = "restart"
                                           THEN "start" ELSE "tombstone"])
    /\ UNCHANGED vars

Sends(h) ==
    /\ process[h].pc \in {"send", "effect"}
    /\ \/ Send(h, "/drain")
       \/ /\ Send(h, "/activate")
          /\ Activating(process[h].ticket)
          /\ FreshPassive(process[h].ticket.generation)
          /\ Authorised(h, process[h].ticket)
    /\ UNCHANGED <<vars, worker>>

LEMMA OperatorKinds ==
    ASSUME IInv, NEW h \in Hosts, Operator(h)
    PROVE  Moves(h) \/ \E g \in Generations : Replaces(h, g)
  <1> DEFINE boot == [Idle EXCEPT !.pc = "readiness", !.command = "bootstrap",
                                  !.target = InitialGeneration]
  <1>1. boot.pc = "readiness" /\ boot.ticket = NoTicket /\ boot.command = "bootstrap"
    BY DEF Idle
  <1>2. CASE Bootstrap(h)
    <2>1. /\ StartPassive(h, InitialGeneration, boot) /\ UNCHANGED vars
          /\ process[h].pc = "idle" /\ wire[h] = NoMessage
      BY <1>2 DEF Bootstrap, Begin
    <2>2. CASE ReplaceContainer(h, InitialGeneration, FreshWorker, boot)
      BY <1>1, <2>1, <2>2, StoreAssumption DEF Replaces, StartsAnew
    <2>3. CASE process' = [process EXCEPT ![h] = boot] /\ UNCHANGED <<wire, worker>>
      <3>1. Follows(h, boot)
        BY <1>1, <2>1 DEF Follows
      <3>2. QED BY <2>3, <3>1 DEF Moves
    <2>4. QED BY <2>1, <2>2, <2>3 DEF StartPassive
  <1>3. ASSUME NEW q, process' = [process EXCEPT ![h] = q], UNCHANGED <<wire, worker>>,
               process[h].pc = "idle", wire[h] = NoMessage, q.ticket = NoTicket,
               q.pc \in {"pending", "start", "step", "remove"},
               q.pc = "remove" => q.command = "restart"
        PROVE  Moves(h)
    <2>1. Follows(h, q)
      BY <1>3 DEF Follows
    <2>2. QED BY <1>3, <2>1 DEF Moves
  <1>4. CASE BeginRecover(h)
    <2>1. [Idle EXCEPT !.pc = "pending", !.command = "recover"].pc = "pending"
          /\ [Idle EXCEPT !.pc = "pending", !.command = "recover"].ticket = NoTicket
      BY DEF Idle
    <2>2. QED BY <1>3, <1>4, <2>1 DEF BeginRecover, Begin
  <1>5. ASSUME NEW g \in Generations, BeginDeploy(h, g)
        PROVE  Moves(h)
    <2>1. PICK command \in {"deploy", "deploy-quarantine"} :
              process' = [process EXCEPT ![h] =
                          [Idle EXCEPT !.pc = "start", !.command = command,
                                       !.revision = revision, !.token = fence.token,
                                       !.base = active, !.target = g]]
      BY <1>5 DEF BeginDeploy
    <2> DEFINE q == [Idle EXCEPT !.pc = "start", !.command = command,
                                 !.revision = revision, !.token = fence.token,
                                 !.base = active, !.target = g]
    <2>2. q.pc = "start" /\ q.ticket = NoTicket
      BY DEF Idle
    <2>3. QED BY <1>3, <1>5, <2>1, <2>2 DEF BeginDeploy, Issue, Begin
  <1>6. CASE BeginRollback(h)
    <2> DEFINE q == [Idle EXCEPT !.pc = "start", !.command = "rollback",
                                 !.revision = revision, !.token = fence.token,
                                 !.target = rollback]
    <2>1. q.pc = "start" /\ q.ticket = NoTicket
      BY DEF Idle
    <2>2. process' = [process EXCEPT ![h] = q]
      BY <1>6 DEF BeginRollback
    <2>3. QED BY <1>3, <1>6, <2>1, <2>2 DEF BeginRollback, Issue, Begin
  <1>7. CASE BeginClose(h)
    <2> DEFINE q == [Idle EXCEPT !.pc = "step", !.command = "close"]
    <2>1. q.pc = "step" /\ q.ticket = NoTicket
      BY DEF Idle
    <2>2. process' = [process EXCEPT ![h] = q]
      BY <1>7 DEF BeginClose
    <2>3. QED BY <1>3, <1>7, <2>1, <2>2 DEF BeginClose, Issue, Begin
  <1>8. ASSUME NEW g \in Generations, BeginRestart(h, g)
        PROVE  Moves(h)
    <2> DEFINE q == [Idle EXCEPT !.pc = "remove", !.command = "restart", !.target = g]
    <2>1. q.pc = "remove" /\ q.ticket = NoTicket /\ q.command = "restart"
      BY DEF Idle
    <2>2. process' = [process EXCEPT ![h] = q]
      BY <1>8 DEF BeginRestart
    <2>3. QED BY <1>3, <1>8, <2>1, <2>2 DEF BeginRestart, Issue, Begin
  <1>9. QED BY <1>2, <1>4, <1>5, <1>6, <1>7, <1>8 DEF Operator

LEMMA EndMoves ==
    ASSUME NEW h \in Hosts, End(h), UNCHANGED <<wire, worker>>
    PROVE  Moves(h)
  <1>1. Idle.pc = "idle" /\ Idle.ticket = NoTicket
    BY DEF Idle
  <1>2. QED BY <1>1 DEF End, Moves, Follows

LEMMA StepMoves ==
    ASSUME Shapes, NEW h \in Hosts, NEW q, process' = [process EXCEPT ![h] = q],
           UNCHANGED <<wire, worker>>, process[h].pc \notin {"idle", "await"},
           q.pc \notin {"await", "tombstone"},
           q.ticket \in {process[h].ticket, NoTicket} \/ Given(q.ticket),
           q.pc = "retire" => q.ticket \in TransitionTickets \/ DrainOver(q.target)',
           q.pc = "remove" => q.command = "restart" \/ DrainOver(q.target)',
           q.pc = "complete" => ~Draining(q.ticket)
    PROVE  Moves(h)
  BY DEF Moves, Follows

LEMMA GotoMoves ==
    ASSUME Shapes, NEW h \in Hosts, NEW c \in Calls, Goto(h, c), UNCHANGED <<wire, worker>>,
           process[h].pc \notin {"idle", "await"},
           c \notin {"await", "tombstone"},
           NEW g, g = process[h].target,
           c \in {"retire", "remove"} => DrainOver(g)',
           c = "complete" => ~Draining(process[h].ticket)
    PROVE  Moves(h)
  <1>1. PICK q : q = [process[h] EXCEPT !.pc = c]
    OBVIOUS
  <1>2. q.pc = c /\ q.ticket = process[h].ticket /\ q.target = g
    BY <1>1 DEF Shapes, Processes
  <1>3. process' = [process EXCEPT ![h] = q]
    BY <1>1 DEF Goto
  <1>4. QED BY <1>3, <1>2, StepMoves

(* Starting a worker leaves a fresh one alone and replaces any other. *)
LEMMA StartKinds ==
    ASSUME Shapes, NEW h \in Hosts, NEW g \in Generations, NEW c \in {"readiness", "send"},
           StartPassive(h, g, [process[h] EXCEPT !.pc = c]), UNCHANGED vars,
           \/ process[h].pc = "start" /\ process[h].target = g
           \/ process[h].pc = "replace" /\ process[h].ticket.generation = g
    PROVE  Moves(h) \/ Replaces(h, g)
  <1> DEFINE q == [process[h] EXCEPT !.pc = c]
  <1>1. q.pc = c /\ q.ticket = process[h].ticket
    BY DEF Shapes, Processes
  <1>2. CASE ReplaceContainer(h, g, FreshWorker, q)
    BY <1>1, <1>2 DEF Replaces, StartsAnew
  <1>3. CASE process' = [process EXCEPT ![h] = q] /\ UNCHANGED <<wire, worker>>
    BY <1>1, <1>3, StepMoves
  <1>4. QED BY <1>2, <1>3 DEF StartPassive

(* A generation that is neither active nor retained, and whose quarantine   *)
(* is not under way, owes no drain. *)
LEMMA UnprotectedOwesNoDrain ==
    ASSUME IInv, NEW g \in Generations, g # active, g # rollback,
           ~(checkpoint.kind = "promote-retire-previous" /\ g = checkpoint.previous)
    PROVE  ~DrainPending(g)
  BY DEF IInv, CheckpointReadable, DrainPending, HasNextStep

LEMMA TransitionKinds ==
    ASSUME IInv, IInv', Shapes, RetirementsInOrder, NEW h \in Hosts,
           \/ Start(h) \/ Readiness(h) \/ CommitDeploy(h) \/ CommitRollback(h)
           \/ RejectPromotion(h) \/ VerifyRetirement(h) \/ RemoveGeneration(h)
           \/ CompleteTombstone(h) \/ NextPending(h)
    PROVE  Moves(h) \/ \E g \in Generations : Replaces(h, g)
  <1> DEFINE p == process[h]
             booted == [Idle EXCEPT !.pc = "pending", !.command = "bootstrap"]
  <1>1. ProcessShape(p) /\ p \in Processes /\ p.ticket \in Tickets
    BY DEF Shapes, ProcessShape, Processes
  <1>2. CASE Start(h)
    <2>1. /\ p.pc = "start" /\ StartPassive(h, p.target, [p EXCEPT !.pc = "readiness"])
          /\ UNCHANGED vars
      BY <1>2 DEF Start
    <2>2. p.target \in Generations
      BY <1>1, <2>1 DEF ProcessShape, Starting
    <2>3. QED BY <2>1, <2>2, StartKinds
  <1>3. CASE Readiness(h) \/ CommitDeploy(h) \/ CommitRollback(h)
    <2>1. /\ p.pc \in {"readiness", "commit"} /\ UNCHANGED <<wire, worker>>
          /\ \/ End(h) \/ Goto(h, "reject") \/ Goto(h, "commit")
             \/ process' = [process EXCEPT ![h] = booted]
      BY <1>3 DEF Readiness, CommitDeploy, CommitRollback, Ready, Reject
    <2>2. booted.pc = "pending" /\ booted.ticket = NoTicket
      BY DEF Idle
    <2>3. CASE process' = [process EXCEPT ![h] = booted]
      BY <2>1, <2>2, <2>3, StepMoves
    <2>4. QED BY <2>1, <2>3, EndMoves, GotoMoves DEF Calls
  <1>4. CASE RejectPromotion(h)
    <2>1. p.pc = "reject" /\ UNCHANGED <<wire, worker>>
      BY <1>4 DEF RejectPromotion
    <2>2. PICK g \in Generations : g = p.target
      BY <1>1, <2>1 DEF ProcessShape
    <2>3. CASE End(h)
      BY <2>1, <2>3, EndMoves
    <2>4. CASE ~Protected(g)
      <3>1. /\ Goto(h, "retire")
            /\ \/ ReserveGenerationRetirement(g)
               \/ retirement[g] # "none" /\ UNCHANGED vars
        BY <1>4, <2>2, <2>4 DEF RejectPromotion
      <3>2. g # active /\ ~DrainPending(g)
        BY <2>4, UnprotectedOwesNoDrain DEF Protected
      <3>3. UNCHANGED <<active, checkpoint>>
        BY <3>1 DEF ReserveGenerationRetirement, vars
      <3>4. retirement'[g] # "none"
        BY <3>1 DEF ReserveGenerationRetirement, vars, IInv, TypeOK
      <3>5. DrainOver(g)'
        BY <3>2, <3>3, <3>4 DEF DrainOver, DrainPending, HasNextStep, HasCheckpoint, NextStep
      <3>6. QED BY <2>1, <2>2, <3>1, <3>5, GotoMoves DEF Calls
    <2>5. QED BY <1>4, <2>2, <2>3, <2>4 DEF RejectPromotion
  <1>5. CASE VerifyRetirement(h)
    <2>1. p.pc = "retire" /\ UNCHANGED <<wire, worker>> /\ UNCHANGED vars
      BY <1>5 DEF VerifyRetirement
    <2>2. PICK g \in Generations : g = p.target
      BY <1>1, <2>1 DEF ProcessShape, Retiring
    <2>3. CASE End(h)
      BY <2>1, <2>3, EndMoves
    <2>4. ASSUME Goto(h, "remove"),
                 IsTransitionTicket(p.ticket) => TicketAuthorised(h, p.ticket),
                 RetirementAuthorised(g, p.ticket)
          PROVE  Moves(h)
      <3>1. ASSUME p.ticket \in TransitionTickets
            PROVE  DrainOver(g)
        <4>1. Retires(p.ticket, g) /\ TicketMatches(h, p.ticket)
          BY <1>1, <2>1, <2>2, <2>4, <3>1, TicketSorts
          DEF ProcessShape, Retiring, TicketAuthorised
        <4>2. checkpoint.reservedStep = "retire-retained"
          BY <4>1 DEF Retires, TicketMatches
        <4>3. NextStep = "retire-retained"
          BY <4>1, <4>2 DEF IInv, CheckpointReadable, TicketMatches
        <4>4. QED BY <2>4, <4>3 DEF DrainOver, DrainPending, RetirementAuthorised
      <3>2. DrainOver(g)
        BY <2>1, <2>2, <3>1 DEF RetirementsInOrder
      <3>3. DrainOver(g)'
        BY <2>1, <3>2, DrainOverStep
      <3>4. QED BY <2>1, <2>2, <2>4, <3>3, GotoMoves DEF Calls
    <2>5. QED BY <1>5, <2>2, <2>3, <2>4 DEF VerifyRetirement
  <1>6. CASE RemoveGeneration(h)
    <2>1. p.pc = "remove"
      BY <1>6 DEF RemoveGeneration
    <2>2. p.target \in Generations
      BY <1>1, <2>1 DEF ProcessShape, Retiring
    <2>3. Replaces(h, p.target)
      BY <1>6, <2>1 DEF RemoveGeneration, Replaces
    <2>4. QED BY <2>2, <2>3
  <1>7. CASE CompleteTombstone(h)
    <2>1. p.pc = "tombstone" /\ UNCHANGED <<wire, worker>>
      BY <1>7 DEF CompleteTombstone
    <2>2. ~Draining(p.ticket)
      BY <1>1, <2>1, TicketSorts DEF ProcessShape, Retiring, Retires, Draining, Tickets
    <2>3. CASE process' = [process EXCEPT ![h] =
                              [p EXCEPT !.pc = "pending", !.target = NoGeneration]]
      <3>1. [p EXCEPT !.pc = "pending", !.target = NoGeneration].pc = "pending"
            /\ [p EXCEPT !.pc = "pending", !.target = NoGeneration].ticket = p.ticket
        BY <1>1 DEF Processes
      <3>2. QED BY <2>1, <2>3, <3>1, StepMoves
    <2>4. CASE Goto(h, "complete")
      BY <2>1, <2>2, <2>4, GotoMoves DEF Calls
    <2>5. CASE End(h)
      BY <2>1, <2>5, EndMoves
    <2>6. QED BY <1>7, <2>3, <2>4, <2>5 DEF CompleteTombstone
  <1>8. CASE NextPending(h)
    <2>1. p.pc = "pending" /\ UNCHANGED <<wire, worker>> /\ UNCHANGED vars
      BY <1>8 DEF NextPending
    <2>2. CASE Goto(h, "worker") \/ End(h)
      BY <2>1, <2>2, EndMoves, GotoMoves DEF Calls
    <2>3. ASSUME NEW g \in PendingRetirements,
                 process' = [process EXCEPT ![h] = [p EXCEPT !.pc = "retire", !.target = g]]
          PROVE  Moves(h)
      <3>1. /\ g \in Generations /\ retirement[g] # "none" /\ g # active
            /\ g # checkpoint.previous
        BY <2>3 DEF PendingRetirements
      <3>2. DrainOver(g)
        BY <3>1 DEF DrainOver, DrainPending
      <3>3. DrainOver(g)'
        BY <2>1, <3>1, <3>2, DrainOverStep
      <3>4. PICK q : q = [p EXCEPT !.pc = "retire", !.target = g]
        OBVIOUS
      <3>5. q.pc = "retire" /\ q.target = g /\ q.ticket = p.ticket
        BY <1>1, <3>4 DEF Processes
      <3>6. QED BY <2>1, <2>3, <3>3, <3>4, <3>5, StepMoves
    <2>4. QED BY <1>8, <2>2, <2>3 DEF NextPending
  <1>9. QED BY <1>2, <1>3, <1>4, <1>5, <1>6, <1>7, <1>8

LEMMA RecoveryKinds ==
    ASSUME IInv, IInv', Shapes, NEW h \in Hosts,
           \/ InspectWorker(h) \/ RecoverySettled(h) \/ PrepareWorker(h) \/ ReplaceWorker(h)
           \/ SendActivation(h)
    PROVE  Moves(h) \/ Sends(h) \/ \E g \in Generations : Replaces(h, g)
  <1> DEFINE p == process[h]
             with(c, t) == [p EXCEPT !.pc = c, !.ticket = t]
  <1>1. ProcessShape(p) /\ p \in Processes /\ p.ticket \in Tickets
    BY DEF Shapes, ProcessShape, Processes
  <1>2. ASSUME WorkerSettled(h), UNCHANGED <<wire, worker>>, p.pc \notin {"idle", "await"}
        PROVE  Moves(h)
    <2>1. CASE End(h)
      BY <1>2, <2>1, EndMoves
    <2> DEFINE q == [Idle EXCEPT !.pc = "step", !.command = "recover-again"]
    <2>2. q.pc = "step" /\ q.ticket = NoTicket
      BY DEF Idle
    <2>3. CASE process' = [process EXCEPT ![h] = q]
      BY <1>2, <2>2, <2>3, StepMoves
    <2>4. QED BY <1>2, <2>1, <2>3 DEF WorkerSettled
  <1>3. CASE InspectWorker(h)
    <2>1. p.pc = "worker" /\ UNCHANGED <<wire, worker>>
      BY <1>3 DEF InspectWorker
    <2>2. ASSUME NEW t, Given(t), NEW c \in {"recovered", "reactivate"},
                 process' = [process EXCEPT ![h] = with(c, t)]
          PROVE  Moves(h)
      <3>1. PICK q : q = with(c, t)
        OBVIOUS
      <3>2. q.pc = c /\ q.ticket = t
        BY <1>1, <3>1 DEF Processes
      <3>3. QED BY <2>1, <2>2, <3>1, <3>2, StepMoves
    <2>3. ASSUME LiveRecovery, UNCHANGED vars,
                 NEW c \in {"recovered", "reactivate"},
                 process' = [process EXCEPT ![h] = with(c, RecoveryTicket(recovery))]
          PROVE  Moves(h)
      <3>1. PICK t : t = RecoveryTicket(recovery)
        OBVIOUS
      <3>2. Given(t)
        BY <2>3, <3>1, LiveTicket DEF Given, vars
      <3>3. QED BY <2>2, <2>3, <3>1, <3>2
    <2>4. ASSUME ReserveWorkerRecoveryActivation(revision, fence.token,
                     fence.promotionRevision, active, p.command = "bootstrap"),
                 process' = [process EXCEPT ![h] = with("reactivate", RecoveryTicket(recovery'))]
          PROVE  Moves(h)
      <3>1. PICK t : t = RecoveryTicket(recovery')
        OBVIOUS
      <3>2. Given(t)
        BY <2>4, <3>1, ReservedRecovery DEF Given
      <3>3. QED BY <2>2, <2>4, <3>1, <3>2
    <2>5. CASE process' = process
      <3>1. process' = [process EXCEPT ![h] = p]
        BY <2>5 DEF Shapes
      <3>2. QED BY <2>1, <3>1, StepMoves
    <2>6. CASE End(h)
      BY <2>1, <2>6, EndMoves
    <2>7. CASE WorkerSettled(h)
      BY <1>2, <2>1, <2>7
    <2>8. QED
      BY <1>3, <2>3, <2>4, <2>5, <2>6, <2>7 DEF InspectWorker, WithRecovery
  <1>4. CASE RecoverySettled(h)
    <2>1. p.pc = "recovered" /\ UNCHANGED <<wire, worker>> /\ (WorkerSettled(h) \/ End(h))
      BY <1>4 DEF RecoverySettled
    <2>2. QED BY <1>2, <2>1, EndMoves
  <1>5. ASSUME p.pc \in {"reactivate", "replace", "send"}
        PROVE  /\ Activating(p.ticket) /\ p.ticket.generation \in Generations
               /\ ~Draining(p.ticket)
    <2>1. Activating(p.ticket)
      BY <1>1, <1>5 DEF ProcessShape
    <2>2. QED
      BY <1>1, <2>1, TicketSorts DEF Activating, Draining, TransitionTickets, RecoveryTickets
  <1>6. CASE PrepareWorker(h)
    <2>1. p.pc = "reactivate" /\ UNCHANGED <<wire, worker>>
      BY <1>6 DEF PrepareWorker
    <2>2. \/ End(h)
          \/ \E c \in {"complete", "recovered", "replace", "send"} : Goto(h, c)
      BY <1>6 DEF PrepareWorker, AfterActivation
    <2>3. QED BY <1>5, <2>1, <2>2, EndMoves, GotoMoves DEF Calls
  <1>7. CASE ReplaceWorker(h)
    <2>1. /\ p.pc = "replace" /\ UNCHANGED vars
          /\ StartPassive(h, p.ticket.generation, [p EXCEPT !.pc = "send"])
      BY <1>7 DEF ReplaceWorker
    <2>2. QED BY <1>5, <2>1, StartKinds
  <1>8. CASE SendActivation(h)
    <2>1. p.pc = "send" /\ UNCHANGED <<vars, worker>>
      BY <1>8 DEF SendActivation
    <2>2. CASE End(h) /\ UNCHANGED wire
      BY <2>1, <2>2, EndMoves
    <2>3. CASE /\ Send(h, "/activate")
               /\ FreshPassive(p.ticket.generation) /\ Authorised(h, p.ticket)
      BY <1>5, <2>1, <2>3 DEF Sends
    <2>4. QED BY <1>8, <2>2, <2>3 DEF SendActivation
  <1>9. QED BY <1>3, <1>4, <1>6, <1>7, <1>8

LEMMA StepKinds ==
    ASSUME IInv, IInv', Shapes, NEW h \in Hosts,
           \/ ReserveStep(h) \/ AwaitStep(h) \/ Effect(h) \/ ReleaseStep(h)
           \/ CompleteStep(h) \/ DecideClose(h) \/ FinishClose(h)
    PROVE  Moves(h) \/ Sends(h)
  <1> DEFINE p == process[h]
  <1>1. ProcessShape(p) /\ p \in Processes /\ p.ticket \in Tickets
    BY DEF Shapes, ProcessShape, Processes
  <1>2. ASSUME NEW rev, NEW step, Reserve(h, rev, step), UNCHANGED <<wire, worker>>,
               p.pc \notin {"idle", "await"}
        PROVE  Moves(h)
    <2>1. PICK id \in ReservationIds \ HeldReservations :
              /\ TicketFor(step, id) \in TransitionTickets
              /\ TicketSound(TicketFor(step, id), fence.token, active)
              /\ process' = [process EXCEPT ![h] =
                     [p EXCEPT !.pc = "effect", !.step = "none", !.ticket = TicketFor(step, id)]]
              /\ ReserveTransitionStep(h, revision, step, id)
      BY <1>2, ReservedTicket
    <2>2. UNCHANGED <<fence, active>>
      BY <2>1 DEF ReserveTransitionStep
    <2>3. PICK t : t = TicketFor(step, id)
      OBVIOUS
    <2>4. t.reservationId = id
      BY <2>3 DEF TicketFor
    <2>5. Given(t)
      BY <2>1, <2>2, <2>3, <2>4 DEF Given
    <2>6. PICK q : q = [p EXCEPT !.pc = "effect", !.step = "none", !.ticket = t]
      OBVIOUS
    <2>7. q.pc = "effect" /\ q.ticket = t
      BY <1>1, <2>6 DEF Processes
    <2>8. process' = [process EXCEPT ![h] = q]
      BY <2>1, <2>3, <2>6
    <2>9. QED BY <1>2, <2>5, <2>7, <2>8, StepMoves
  <1>3. CASE ReserveStep(h)
    <2>1. p.pc = "step" /\ UNCHANGED <<wire, worker>>
      BY <1>3 DEF ReserveStep
    <2>2. CASE StepsFinished(h)
      <3>1. p.command \in {"recover-again", "close", "closing"}
        BY <1>1, <2>1 DEF ProcessShape
      <3>2. \E c \in {"worker", "close", "finish"} : Goto(h, c)
        BY <2>2, <3>1 DEF StepsFinished
      <3>3. QED BY <2>1, <3>2, GotoMoves DEF Calls
    <2>3. CASE process' = [process EXCEPT ![h] =
                  [p EXCEPT !.pc = "waiting", !.step = NextStep, !.revision = revision]]
      <3>1. PICK q : q = [p EXCEPT !.pc = "waiting", !.step = NextStep, !.revision = revision]
        OBVIOUS
      <3>2. q.pc = "waiting" /\ q.ticket = p.ticket
        BY <1>1, <3>1 DEF Processes
      <3>3. QED BY <2>1, <2>3, <3>1, <3>2, StepMoves
    <2>4. CASE End(h)
      BY <2>1, <2>4, EndMoves
    <2>5. CASE Reserve(h, revision, NextStep)
      BY <1>2, <2>1, <2>5
    <2>6. QED BY <1>3, <2>2, <2>3, <2>4, <2>5 DEF ReserveStep
  <1>4. CASE AwaitStep(h)
    BY <1>2, <1>4, EndMoves DEF AwaitStep
  <1>5. CASE Effect(h)
    <2>1. /\ p.pc = "effect" /\ UNCHANGED <<vars, worker>> /\ p.ticket \in TransitionTickets
          /\ p.ticket.step \in Steps
      BY <1>1, <1>5 DEF Effect, ProcessShape, TransitionTickets
    <2>2. CASE p.ticket.step \in {"converge-gateway", "reconnect-realtime"}
      <3>1. UNCHANGED wire /\ (End(h) \/ Goto(h, "complete") \/ Goto(h, "release"))
        BY <1>5, <2>2 DEF Effect
      <3>2. QED BY <2>1, <2>2, <3>1, EndMoves, GotoMoves DEF Calls, Draining
    <2>3. CASE p.ticket.step = "activate-worker"
      BY <1>5, <2>1, <2>3, GotoMoves DEF Effect, Calls
    <2>4. CASE p.ticket.step = "retire-retained"
      <3>1. PICK q : q = [p EXCEPT !.pc = "retire", !.target = p.ticket.generation]
        OBVIOUS
      <3>2. q.pc = "retire" /\ q.ticket = p.ticket
        BY <1>1, <3>1 DEF Processes
      <3>3. UNCHANGED wire /\ (End(h) \/ process' = [process EXCEPT ![h] = q])
        BY <1>5, <2>4, <3>1 DEF Effect
      <3>4. QED BY <2>1, <3>2, <3>3, EndMoves, StepMoves
    <2>5. CASE p.ticket.step \in {"drain-previous", "drain-retained"}
      <3>1. (End(h) /\ UNCHANGED wire) \/ Send(h, "/drain")
        BY <1>5, <2>5 DEF Effect
      <3>2. QED BY <2>1, <3>1, EndMoves DEF Sends
    <2>6. QED BY <2>1, <2>2, <2>3, <2>4, <2>5 DEF Steps
  <1>6. CASE ReleaseStep(h) \/ FinishClose(h)
    BY <1>6, EndMoves DEF ReleaseStep, FinishClose
  <1>7. CASE CompleteStep(h)
    <2>1. p.pc = "complete" /\ UNCHANGED <<wire, worker>>
      BY <1>7 DEF CompleteStep
    <2>2. PICK q : q = [p EXCEPT !.pc = "step", !.ticket = NoTicket,
                            !.target = IF p.command = "closing" THEN @ ELSE NoGeneration]
      OBVIOUS
    <2>3. q.pc = "step" /\ q.ticket = NoTicket
      BY <1>1, <2>2 DEF Processes
    <2>4. End(h) \/ process' = [process EXCEPT ![h] = q]
      BY <1>7, <2>2 DEF CompleteStep
    <2>5. QED BY <2>1, <2>3, <2>4, EndMoves, StepMoves
  <1>8. CASE DecideClose(h)
    <2>1. p.pc = "close" /\ UNCHANGED <<wire, worker>>
      BY <1>8 DEF DecideClose
    <2>2. PICK q : q = [Idle EXCEPT !.pc = "step", !.command = "closing",
                                    !.revision = revision', !.target = rollback]
      OBVIOUS
    <2>3. q.pc = "step" /\ q.ticket = NoTicket
      BY <2>2 DEF Idle
    <2>4. End(h) \/ process' = [process EXCEPT ![h] = q]
      BY <1>8, <2>2 DEF DecideClose
    <2>5. QED BY <2>1, <2>3, <2>4, EndMoves, StepMoves
  <1>9. QED BY <1>3, <1>4, <1>5, <1>6, <1>7, <1>8

(* Every step moves one process, replaces a container, sends a command, is  *)
(* a step of a worker or its loss, or leaves all of them alone. *)
SupervisorKind ==
    \/ \E h \in Hosts :
          \/ Moves(h) \/ Sends(h) \/ WorkerVerify(h) \/ WorkerAct(h)
          \/ \E g \in Generations : Replaces(h, g)
    \/ \E g \in Generations : Heartbeat(g) \/ LoseWorker(g)
    \/ UNCHANGED <<process, wire, worker>>

LEMMA SupervisorKinds ==
    ASSUME IInv, IInv', Shapes, RetirementsInOrder, [DeploymentNext]_allVars
    PROVE  SupervisorKind
  <1>1. ASSUME NEW h \in Hosts, Crash(h)
        PROVE  Moves(h)
    BY <1>1, EndMoves DEF Crash
  <1>2. ASSUME Environment
        PROVE  \/ \E h \in Hosts : Moves(h)
               \/ \E g \in Generations : Heartbeat(g) \/ LoseWorker(g)
               \/ UNCHANGED <<process, wire, worker>>
    BY <1>1, <1>2
    DEF Environment, ReservationExpires, LapseFence, RecoveryExpires, WindowExpires,
        InventoryConverges, supervisorVars
  <1>3. ASSUME NEW h \in Hosts, Transition(h)
        PROVE  Moves(h) \/ Sends(h) \/ \E g \in Generations : Replaces(h, g)
    BY <1>3, TransitionKinds, RecoveryKinds, StepKinds DEF Transition
  <1>4. QED
    BY <1>2, <1>3, OperatorKinds DEF DeploymentNext, WorkerStep, allVars, SupervisorKind

-----------------------------------------------------------------------------
(* What the kinds of steps do to each process and message.                  *)

(* A process that moves leaves the others alone. *)
LEMMA MovesEffect ==
    ASSUME Shapes, NEW h \in Hosts, Moves(h)
    PROVE  /\ \E q : process'[h] = q /\ Follows(h, q)
           /\ \A x \in Hosts : x # h => process'[x] = process[x]
           /\ UNCHANGED <<wire, worker>>
  BY DEF Moves, Shapes

(* Nobody is left waiting for an answer from a container that is gone. *)
Cut(x, g) ==
    IF x \in CutOff(g)
    THEN /\ wire'[x] = NoMessage
         /\ process'[x] = IF process[x].pc = "await" THEN Idle ELSE process[x]
    ELSE wire'[x] = wire[x] /\ process'[x] = process[x]

LEMMA ReplacesEffect ==
    ASSUME Shapes, NEW h \in Hosts, NEW g \in Generations, Replaces(h, g)
    PROVE  /\ \A x \in Hosts : wire'[x] = IF x \in CutOff(g) THEN NoMessage ELSE wire[x]
           /\ \A x \in Hosts : x # h => Cut(x, g)
           /\ process'[h].pc \notin {"await", "idle", "retire", "complete", "remove"}
           /\ process'[h].ticket \in {process[h].ticket, NoTicket}
           /\ process[h].pc # "await" /\ (process[h].pc = "idle" => wire[h] = NoMessage)
           /\ UNCHANGED vars
           /\ worker'[g] \in {Absent, FreshWorker}
           /\ \A x \in Generations : x # g => worker'[x] = worker[x]
           /\ process'[h].pc = "tombstone" =>
                 /\ process[h].pc = "remove" /\ process[h].command # "restart"
                 /\ process'[h].target = g /\ process[h].target = g
                 /\ worker'[g] = Absent
  <1>1. PICK new, q :
            /\ new \in {Absent, FreshWorker}
            /\ ReplaceContainer(h, g, new, q)
            /\ q.pc \notin {"await", "idle", "retire", "complete", "remove"}
            /\ q.ticket \in {process[h].ticket, NoTicket}
            /\ q.pc = "tombstone" =>
                 /\ process[h].pc = "remove" /\ process[h].command # "restart"
                 /\ q.target = g /\ process[h].target = g /\ new = Absent
    <2>1. CASE \E q : /\ ReplaceContainer(h, g, FreshWorker, q)
                      /\ q.pc \in {"readiness", "send"}
                      /\ q.ticket \in {process[h].ticket, NoTicket}
      BY <2>1
    <2>2. CASE /\ process[h].pc = "remove"
               /\ g = process[h].target
               /\ ReplaceContainer(h, g, Absent,
                     [process[h] EXCEPT !.pc = IF process[h].command = "restart"
                                               THEN "start" ELSE "tombstone"])
      <3>1. PICK q : q = [process[h] EXCEPT !.pc = IF process[h].command = "restart"
                                                   THEN "start" ELSE "tombstone"]
        OBVIOUS
      <3>2. /\ q.pc = IF process[h].command = "restart" THEN "start" ELSE "tombstone"
            /\ q.ticket = process[h].ticket /\ q.target = process[h].target
        BY <3>1 DEF Shapes, Processes
      <3>3. ReplaceContainer(h, g, Absent, q)
        BY <2>2, <3>1
      <3>4. /\ q.pc \notin {"await", "idle", "retire", "complete", "remove"}
            /\ q.pc = "tombstone" => process[h].command # "restart"
        BY <3>2
      <3>5. QED BY <2>2, <3>2, <3>3, <3>4
    <2>3. QED BY <2>1, <2>2 DEF Replaces
  <1>2. /\ \A x \in Hosts : wire'[x] = IF x \in CutOff(g) THEN NoMessage ELSE wire[x]
        /\ \A x \in Hosts : process'[x] =
              IF x = h THEN q
              ELSE IF x \in CutOff(g) /\ process[x].pc = "await" THEN Idle ELSE process[x]
        /\ worker'[g] = new
        /\ \A x \in Generations : x # g => worker'[x] = worker[x]
    BY <1>1 DEF ReplaceContainer, Shapes
  <1>3. process'[h] = q
    BY <1>2
  <1>4. /\ process[h].pc # "await" /\ (process[h].pc = "idle" => wire[h] = NoMessage)
        /\ UNCHANGED vars
    BY DEF Replaces
  <1>5. QED BY <1>1, <1>2, <1>3, <1>4 DEF Cut

LEMMA LossEffect ==
    ASSUME Shapes, NEW g \in Generations, LoseWorker(g)
    PROVE  /\ \A x \in Hosts : Cut(x, g)
           /\ worker'[g] = Absent
           /\ \A x \in Generations : x # g => worker'[x] = worker[x]
  BY DEF LoseWorker, Cut, Shapes

(* A command that is sent is on its way unverified. *)
LEMMA SendsEffect ==
    ASSUME Shapes, NEW h \in Hosts, Sends(h)
    PROVE  /\ process'[h].pc = "await" /\ process'[h].ticket = process[h].ticket
           /\ wire'[h].ticket = process[h].ticket /\ ~wire'[h].verified
           /\ \A x \in Hosts : x # h => process'[x] = process[x] /\ wire'[x] = wire[x]
           /\ UNCHANGED <<vars, worker>>
  <1>1. PICK path : Send(h, path)
    BY DEF Sends
  <1>2. process' = [process EXCEPT ![h] = [process[h] EXCEPT !.pc = "await"]]
    BY <1>1 DEF Send, Goto, Shapes
  <1>3. process'[h] = [process[h] EXCEPT !.pc = "await"]
        /\ \A x \in Hosts : x # h => process'[x] = process[x]
    BY <1>2 DEF Shapes
  <1>4. process'[h].pc = "await" /\ process'[h].ticket = process[h].ticket
    BY <1>3 DEF Shapes, Processes
  <1>5. wire'[h] = [path |-> path, verified |-> FALSE, ticket |-> process[h].ticket]
        /\ \A x \in Hosts : x # h => wire'[x] = wire[x]
    BY <1>1 DEF Send, Shapes
  <1>6. QED BY <1>3, <1>4, <1>5 DEF Sends

(* An answer ends the wait of the process that sent the command, if it is   *)
(* still there. *)
LEMMA AnswerEffect ==
    ASSUME Shapes, NEW h \in Hosts, NEW pc \in Calls, Answer(h, pc), pc # "await"
    PROVE  /\ process'[h].pc # "await"
           /\ process[h].pc # "await" => process'[h] = process[h]
           /\ process[h].pc = "await" => process'[h].pc = pc
           /\ process'[h].ticket \in {process[h].ticket, NoTicket}
           /\ \A x \in Hosts : x # h => process'[x] = process[x]
  <1>1. /\ process'[h] = IF process[h].pc # "await" THEN process[h]
                         ELSE IF pc = "idle" THEN Idle ELSE [process[h] EXCEPT !.pc = pc]
        /\ \A x \in Hosts : x # h => process'[x] = process[x]
    BY DEF Answer, Shapes
  <1>2. Idle.pc = "idle" /\ Idle.ticket = NoTicket
    BY DEF Idle
  <1>3. [process[h] EXCEPT !.pc = pc].pc = pc
        /\ [process[h] EXCEPT !.pc = pc].ticket = process[h].ticket
    BY DEF Shapes, Processes
  <1>4. QED BY <1>1, <1>2, <1>3

(* A worker accepts a command or answers it with a refusal. *)
LEMMA VerifyEffect ==
    ASSUME Shapes, NEW h \in Hosts, WorkerVerify(h)
    PROVE  /\ wire[h].path # "none" /\ ~wire[h].verified
           /\ \A x \in Hosts : x # h => wire'[x] = wire[x] /\ process'[x] = process[x]
           /\ UNCHANGED <<vars, worker>>
           /\ \/ /\ \E clock \in Hosts : Accepts(wire[h], clock)
                 /\ wire'[h].verified /\ wire'[h].path = wire[h].path
                 /\ wire'[h].ticket = wire[h].ticket
                 /\ process'[h] = process[h]
              \/ /\ wire'[h] = NoMessage
                 /\ process[h].pc # "await" => process'[h] = process[h]
                 /\ process[h].pc = "await" => process'[h].pc = "idle"
                 /\ process'[h].ticket \in {process[h].ticket, NoTicket}
  <1>1. /\ wire[h].path # "none" /\ ~wire[h].verified /\ UNCHANGED <<vars, worker>>
    BY DEF WorkerVerify
  <1>2. CASE /\ \E clock \in Hosts : Accepts(wire[h], clock)
             /\ wire' = [wire EXCEPT ![h].verified = TRUE]
             /\ process' = process
    <2>1. PICK m : m = [wire[h] EXCEPT !.verified = TRUE]
      OBVIOUS
    <2>2. m.verified /\ m.path = wire[h].path /\ m.ticket = wire[h].ticket
      BY <2>1 DEF Shapes, Messages
    <2>3. wire' = [wire EXCEPT ![h] = m]
      BY <1>2, <2>1
    <2>4. wire'[h] = m /\ \A x \in Hosts : x # h => wire'[x] = wire[x]
      BY <2>3 DEF Shapes
    <2>5. QED BY <1>1, <1>2, <2>2, <2>4
  <1>3. CASE wire' = [wire EXCEPT ![h] = NoMessage] /\ Answer(h, "idle")
    <2>1. wire'[h] = NoMessage /\ \A x \in Hosts : x # h => wire'[x] = wire[x]
      BY <1>3 DEF Shapes
    <2>2. QED BY <1>1, <1>3, <2>1, AnswerEffect DEF Calls
  <1>4. QED BY <1>2, <1>3 DEF WorkerVerify

(* A worker that acts changes its own mode, and answers. *)
LEMMA ActEffect ==
    ASSUME Shapes, NEW h \in Hosts, WorkerAct(h)
    PROVE  /\ wire[h].verified /\ wire'[h] = NoMessage
           /\ \A x \in Hosts : x # h => wire'[x] = wire[x] /\ process'[x] = process[x]
           /\ process[h].pc # "await" => process'[h] = process[h]
           /\ process[h].pc = "await" => process'[h].pc = AfterActivation(wire[h].ticket)
           /\ process'[h].pc # "await"
           /\ process'[h].ticket \in {process[h].ticket, NoTicket}
           /\ \A g \in Generations :
                 worker'[g] = IF g # wire[h].ticket.generation THEN worker[g]
                              ELSE IF wire[h].path = "/drain"
                              THEN [worker[g] EXCEPT !.mode = "drained"]
                              ELSE [mode |-> "active", token |-> wire[h].ticket.token]
           /\ UNCHANGED vars
  <1>1. wire'[h] = NoMessage /\ \A x \in Hosts : x # h => wire'[x] = wire[x]
    BY DEF WorkerAct, Shapes
  <1>2. AfterActivation(wire[h].ticket) \in Calls \ {"await"}
    BY DEF AfterActivation, Calls
  <1>3. Answer(h, AfterActivation(wire[h].ticket)) /\ wire[h].verified /\ UNCHANGED vars
    BY DEF WorkerAct
  <1>4. \A g \in Generations :
            worker'[g] = IF g # wire[h].ticket.generation THEN worker[g]
                         ELSE IF wire[h].path = "/drain"
                         THEN [worker[g] EXCEPT !.mode = "drained"]
                         ELSE [mode |-> "active", token |-> wire[h].ticket.token]
    BY DEF WorkerAct, Shapes
  <1>5. /\ process'[h].pc # "await"
        /\ process[h].pc # "await" => process'[h] = process[h]
        /\ process[h].pc = "await" => process'[h].pc = AfterActivation(wire[h].ticket)
        /\ process'[h].ticket \in {process[h].ticket, NoTicket}
        /\ \A x \in Hosts : x # h => process'[x] = process[x]
    BY <1>2, <1>3, AnswerEffect
  <1>6. QED BY <1>1, <1>3, <1>4, <1>5

(* Messages belong to processes that wait (or have crashed). *)
LEMMA CorrespondenceStep ==
    ASSUME Shapes, Correspondence, SupervisorKind
    PROVE  Correspondence'
  <1> DEFINE Match(x) == /\ process'[x].pc \notin {"idle", "await"} => wire'[x] = NoMessage
                         /\ process'[x].pc = "await" => wire'[x].ticket = process'[x].ticket
  <1> SUFFICES ASSUME NEW x \in Hosts
               PROVE  Match(x)
    BY DEF Correspondence
  <1>1. /\ process[x].pc \notin {"idle", "await"} => wire[x] = NoMessage
        /\ process[x].pc = "await" => wire[x].ticket = process[x].ticket
    BY DEF Correspondence
  <1>2. ASSUME process'[x] = process[x], wire'[x] = wire[x]
        PROVE  Match(x)
    BY <1>1, <1>2
  <1>3. ASSUME NEW g, Cut(x, g)
        PROVE  Match(x)
    BY <1>1, <1>3 DEF Cut, Idle
  <1>4. ASSUME NEW h \in Hosts, Moves(h)
        PROVE  Match(x)
    <2>1. CASE x # h
      BY <1>2, <1>4, <2>1, MovesEffect
    <2>2. CASE x = h
      BY <1>1, <1>4, <2>2, MovesEffect DEF Follows, Idle
    <2>3. QED BY <2>1, <2>2
  <1>5. ASSUME NEW h \in Hosts, Sends(h)
        PROVE  Match(x)
    BY <1>2, <1>5, SendsEffect
  <1>6. ASSUME NEW h \in Hosts, WorkerVerify(h)
        PROVE  Match(x)
    <2>1. wire[h] # NoMessage
      BY <1>6 DEF WorkerVerify, NoMessage
    <2>2. QED BY <1>1, <1>2, <1>6, <2>1, VerifyEffect
  <1>7. ASSUME NEW h \in Hosts, WorkerAct(h)
        PROVE  Match(x)
    BY <1>1, <1>2, <1>7, ActEffect
  <1>8. ASSUME NEW h \in Hosts, NEW g \in Generations, Replaces(h, g)
        PROVE  Match(x)
    BY <1>1, <1>3, <1>8, ReplacesEffect
  <1>9. ASSUME NEW g \in Generations, Heartbeat(g)
        PROVE  Match(x)
    BY <1>2, <1>9 DEF Heartbeat
  <1>10. ASSUME NEW g \in Generations, LoseWorker(g)
         PROVE  Match(x)
    BY <1>3, <1>10, LossEffect
  <1>11. QED
    BY <1>2, <1>4, <1>5, <1>6, <1>7, <1>8, <1>9, <1>10 DEF SupervisorKind

(* Tickets are handed on, given up, or handed out one at a time. *)
LEMMA TicketsPass ==
    ASSUME Shapes, SupervisorKind
    PROVE  /\ \A x \in Hosts :
                 wire'[x].ticket \in {wire[x].ticket, process[x].ticket, NoTicket}
           /\ \A x \in Hosts :
                 \/ process'[x].ticket \in {process[x].ticket, NoTicket}
                 \/ /\ Given(process'[x].ticket)
                    /\ \A y \in Hosts : y # x => process'[y].ticket = process[y].ticket
  <1> DEFINE Sent(x) == wire'[x].ticket \in {wire[x].ticket, process[x].ticket, NoTicket}
             Kept(x) == process'[x].ticket \in {process[x].ticket, NoTicket}
  <1>1. Idle.ticket = NoTicket /\ NoMessage.ticket = NoTicket
    BY DEF Idle, NoMessage
  <1>2. ASSUME NEW h \in Hosts, Moves(h)
        PROVE  /\ \A x \in Hosts : Sent(x)
               /\ \A x \in Hosts :
                     \/ Kept(x)
                     \/ /\ Given(process'[x].ticket)
                        /\ \A y \in Hosts : y # x => process'[y].ticket = process[y].ticket
    BY <1>2, MovesEffect DEF Follows
  <1>3. ASSUME NEW x \in Hosts, NEW g, Cut(x, g)
        PROVE  Sent(x) /\ Kept(x)
    BY <1>1, <1>3 DEF Cut
  <1>4. ASSUME NEW h \in Hosts, Sends(h) \/ WorkerVerify(h) \/ WorkerAct(h)
        PROVE  \A x \in Hosts : Sent(x) /\ Kept(x)
    BY <1>1, <1>4, SendsEffect, VerifyEffect, ActEffect
  <1>5. ASSUME NEW h \in Hosts, NEW g \in Generations, Replaces(h, g)
        PROVE  \A x \in Hosts : Sent(x) /\ Kept(x)
    BY <1>1, <1>3, <1>5, ReplacesEffect
  <1>6. ASSUME NEW g \in Generations, Heartbeat(g) \/ LoseWorker(g)
        PROVE  \A x \in Hosts : Sent(x) /\ Kept(x)
    BY <1>3, <1>6, LossEffect DEF Heartbeat
  <1>7. QED BY <1>2, <1>4, <1>5, <1>6 DEF SupervisorKind

-----------------------------------------------------------------------------
(* Execution authority.                                                     *)

(* The active generation changes only under a new token. *)
LEMMA TokenDecides ==
    ASSUME IInv, IInv', [Next]_vars
    PROVE  /\ fence.token \in Nat /\ fence'.token \in Nat
           /\ fence'.token >= fence.token
           /\ fence'.token = fence.token => active' = active
  <1>1. TypeOK /\ fence.token \in Nat /\ fence'.token \in Nat
    BY StoreAssumption DEF IInv, TypeOK, FenceType
  <1>2. AuthorityKept \/ \E r \in ReceiptType : PointerMoved(r) \/ RetirementAdvanced(r)
    BY <1>1, AuthorityEffect
  <1>3. QED BY <1>1, <1>2 DEF AuthorityKept, PointerMoved, RetirementAdvanced

(* What a ticket authorises does not change while it is held. *)
LEMMA TicketsSoundStep ==
    ASSUME IInv, IInv', [Next]_vars, Shapes, TicketsSound, SupervisorKind
    PROVE  TicketsSound'
  <1>1. \A t \in TransitionTickets \cup RecoveryTickets : t.token \in Nat
    BY DEF TransitionTickets, RecoveryTickets
  <1>2. ASSUME NEW t, TicketSound(t, fence.token, active)
        PROVE  TicketSound(t, fence'.token, active')
    BY <1>1, <1>2, TokenDecides DEF TicketSound
  <1>3. TicketSound(NoTicket, fence'.token, active')
    BY TicketSorts DEF TicketSound, Tickets
  <1>4. ASSUME NEW t, Given(t)
        PROVE  TicketSound(t, fence'.token, active')
    <2>1. CASE t \in TransitionTickets
      BY <1>4, <2>1, TicketSorts DEF Given, Tickets
    <2>2. CASE t \in RecoveryTickets /\ t.token = fence'.token /\ t.generation = active'
      BY <1>1, <2>2 DEF TicketSound
    <2>3. QED BY <1>4, <2>1, <2>2 DEF Given
  <1>5. \A x \in Hosts : /\ TicketSound(process[x].ticket, fence.token, active)
                         /\ TicketSound(wire[x].ticket, fence.token, active)
    BY DEF TicketsSound
  <1>6. \A x \in Hosts : TicketSound(process'[x].ticket, fence'.token, active')
    BY <1>2, <1>3, <1>4, <1>5, TicketsPass
  <1>7. \A x \in Hosts : TicketSound(wire'[x].ticket, fence'.token, active')
    BY <1>2, <1>3, <1>5, TicketsPass
  <1>8. QED BY <1>6, <1>7 DEF TicketsSound

(* A reservation handed out is nobody else's. *)
LEMMA ReservationsApartStep ==
    ASSUME Shapes, ReservationsApart, SupervisorKind
    PROVE  ReservationsApart'
  <1>1. NoTicket \notin TransitionTickets
    BY TicketSorts DEF Tickets
  <1>2. ASSUME NEW t \in TransitionTickets, NEW x \in Hosts,
               t \in {process[x].ticket, wire[x].ticket}
        PROVE  t.reservationId \in HeldReservations
    <2>1. IsTransitionTicket(t)
      BY TicketSorts DEF Tickets
    <2>2. t \in {process[k].ticket : k \in Hosts} \cup {wire[k].ticket : k \in Hosts}
      BY <1>2
    <2>3. QED BY <2>1, <2>2 DEF HeldReservations
  <1>3. ASSUME NEW t, Given(t), NEW u, NEW x \in Hosts,
               u \in {process[x].ticket, wire[x].ticket, NoTicket}
        PROVE  Apart(t, u) /\ Apart(u, t)
    BY <1>1, <1>2, <1>3, TicketSorts DEF Given, Apart, Tickets
  <1>4. ASSUME NEW h \in Hosts, NEW k \in Hosts, h # k,
               NEW t \in {process[h].ticket, wire[h].ticket, NoTicket},
               NEW u \in {process[k].ticket, wire[k].ticket, NoTicket}
        PROVE  Apart(t, u)
    BY <1>1, <1>4 DEF ReservationsApart, Apart
  <1>5. \A x \in Hosts : wire'[x].ticket \in {wire[x].ticket, process[x].ticket, NoTicket}
    BY TicketsPass
  <1>6. \A x \in Hosts :
           \/ process'[x].ticket \in {process[x].ticket, NoTicket}
           \/ /\ Given(process'[x].ticket)
              /\ \A y \in Hosts : y # x => process'[y].ticket = process[y].ticket
    BY TicketsPass
  <1>7. ASSUME NEW h \in Hosts, NEW k \in Hosts, h # k
        PROVE  /\ Apart(process'[h].ticket, process'[k].ticket)
               /\ Apart(process'[h].ticket, wire'[k].ticket)
               /\ Apart(wire'[h].ticket, wire'[k].ticket)
    <2>1. CASE process'[h].ticket \in {process[h].ticket, NoTicket}
               /\ process'[k].ticket \in {process[k].ticket, NoTicket}
      BY <1>4, <1>5, <1>7, <2>1
    <2>2. CASE Given(process'[h].ticket) /\ process'[k].ticket = process[k].ticket
      BY <1>3, <1>4, <1>5, <1>7, <2>2
    <2>3. CASE Given(process'[k].ticket) /\ process'[h].ticket = process[h].ticket
      BY <1>3, <1>4, <1>5, <1>7, <2>3
    <2>4. QED BY <1>6, <1>7, <2>1, <2>2, <2>3
  <1>8. QED BY <1>7 DEF ReservationsApart

(* A worker becomes active only under a ticket for the active generation or *)
(* under a token that is no longer the current one. *)
LEMMA OneAuthorisedStep ==
    ASSUME IInv, IInv', [Next]_vars, Shapes, TicketsSound, OneAuthorisedWorker,
           SupervisorKind
    PROVE  OneAuthorisedWorker'
  <1> DEFINE Sound(w, g) == /\ w.token <= fence.token
                            /\ w = [mode |-> "active", token |-> fence.token] => g = active
  <1>1. \A g \in Generations : worker[g] \in Containers /\ Sound(worker[g], g)
    BY DEF Shapes, OneAuthorisedWorker, HealthyActive
  <1>2. ASSUME NEW g \in Generations, NEW w \in Containers, Sound(w, g)
        PROVE  /\ w.token <= fence'.token
               /\ w = [mode |-> "active", token |-> fence'.token] => g = active'
    BY <1>2, TokenDecides DEF Containers
  <1>3. SUFFICES ASSUME NEW g \in Generations
                 PROVE  worker'[g] \in Containers /\ Sound(worker'[g], g)
    BY <1>2 DEF OneAuthorisedWorker, HealthyActive
  <1>4. CASE worker'[g] = worker[g]
    BY <1>1, <1>4
  <1>5. CASE worker'[g] \in {Absent, FreshWorker}
    <2>1. fence.token \in Nat
      BY TokenDecides
    <2>2. QED BY <1>5, <2>1 DEF Absent, FreshWorker, Containers
  <1>6. ASSUME NEW h \in Hosts, WorkerAct(h), g = wire[h].ticket.generation
        PROVE  worker'[g] \in Containers /\ Sound(worker'[g], g)
    <2>1. MessageShape(wire[h]) /\ wire[h] \in Messages /\ wire[h].verified
      BY <1>6, ActEffect DEF Shapes, MessageShape
    <2>2. worker'[g] = IF g # wire[h].ticket.generation THEN worker[g]
                       ELSE IF wire[h].path = "/drain"
                       THEN [worker[g] EXCEPT !.mode = "drained"]
                       ELSE [mode |-> "active", token |-> wire[h].ticket.token]
      BY <1>6, ActEffect
    <2>3. CASE wire[h].path = "/drain"
      <3>1. worker'[g] = [worker[g] EXCEPT !.mode = "drained"]
        BY <1>6, <2>3, <2>2
      <3>2. QED BY <1>1, <3>1 DEF Containers
    <2>4. CASE wire[h].path # "/drain"
      <3>1. wire[h].path = "/activate"
        BY <2>1, <2>4 DEF MessageShape, Messages, NoMessage
      <3>2. Activating(wire[h].ticket)
        BY <2>1, <3>1 DEF MessageShape
      <3>3. wire[h].ticket.token \in Nat /\ TicketSound(wire[h].ticket, fence.token, active)
        BY <3>2 DEF Activating, TransitionTickets, RecoveryTickets, TicketsSound
      <3>4. worker'[g] = [mode |-> "active", token |-> wire[h].ticket.token]
        BY <1>6, <2>4, <2>2
      <3>5. wire[h].ticket \in TransitionTickets \cup RecoveryTickets
        BY <3>2 DEF Activating
      <3>6. QED BY <1>6, <3>2, <3>3, <3>4, <3>5 DEF TicketSound, Containers
    <2>5. QED BY <2>3, <2>4
  <1>7. ASSUME NEW x \in Generations, Heartbeat(x)
        PROVE  worker'[g] \in Containers /\ Sound(worker'[g], g)
    <2>1. worker'[g] \in {worker[g], [worker[g] EXCEPT !.mode = "passive"]}
      BY <1>7 DEF Heartbeat, Shapes
    <2>2. [worker[g] EXCEPT !.mode = "passive"] \in Containers
          /\ Sound([worker[g] EXCEPT !.mode = "passive"], g)
      BY <1>1 DEF Containers
    <2>3. QED BY <1>1, <2>1, <2>2
  <1>8. ASSUME NEW h \in Hosts, Moves(h) \/ Sends(h) \/ WorkerVerify(h)
        PROVE  worker'[g] = worker[g]
    BY <1>8, MovesEffect, SendsEffect, VerifyEffect
  <1>9. ASSUME NEW h \in Hosts, WorkerAct(h), g # wire[h].ticket.generation
        PROVE  worker'[g] = worker[g]
    BY <1>9, ActEffect
  <1>10. ASSUME NEW x \in Generations,
                LoseWorker(x) \/ \E h \in Hosts : Replaces(h, x)
         PROVE  worker'[g] \in {Absent, FreshWorker, worker[g]}
    BY <1>10, LossEffect, ReplacesEffect
  <1>11. QED
    BY <1>4, <1>5, <1>6, <1>7, <1>8, <1>9, <1>10 DEF SupervisorKind

-----------------------------------------------------------------------------
(* Retirements.                                                             *)

(* A worker accepts only an activation of the active generation, or the     *)
(* drain that is owed. *)
LEMMA Acceptance ==
    ASSUME IInv, Shapes, NEW h \in Hosts, NEW clock \in Hosts, wire[h].path # "none",
           Accepts(wire[h], clock)
    PROVE  \/ wire[h].path = "/activate" /\ wire[h].ticket.generation = active
           \/ /\ wire[h].path = "/drain" /\ wire[h].ticket.generation # active
              /\ DrainPending(wire[h].ticket.generation)
              /\ TicketMatches(clock, wire[h].ticket)
  <1> DEFINE t == wire[h].ticket
  <1>1. MessageShape(wire[h]) /\ t \in Tickets
    BY DEF Shapes, MessageShape, Messages
  <1>2. CASE wire[h].path = "/activate"
    BY <1>2 DEF Accepts, MayRenewFence, IInv, FenceFollowsPointer
  <1>3. CASE wire[h].path = "/drain"
    <2>1. Draining(t) /\ IsTransitionTicket(t)
      BY <1>1, <1>3, TicketSorts DEF MessageShape, Draining
    <2>2. TicketAuthorised(clock, t) /\ t.step \notin TowardActive
          /\ t.step # "retire-retained" /\ t.step # "none"
      BY <2>1 DEF Accepts, Authorised, Draining, TowardActive
    <2>3. /\ TicketMatches(clock, t) /\ t.generation # active
          /\ checkpoint.previous = t.generation
      BY <2>2 DEF TicketAuthorised
    <2>4. HasNextStep /\ NextStep = t.step
      BY <2>2, <2>3 DEF TicketMatches, IInv, CheckpointReadable
    <2>5. QED BY <1>3, <2>2, <2>3, <2>4 DEF DrainPending
  <1>4. QED BY <1>1, <1>2, <1>3 DEF MessageShape, Shapes, Messages

(* What has gone does not come back: a late start leaves a passive worker,  *)
(* and nothing that would activate or drain it is accepted any more. *)
LEMMA GoneStep ==
    ASSUME IInv, Shapes, SupervisorKind, NEW g \in Generations, DrainOver(g), Gone(g)
    PROVE  Gone(g)'
  <1> DEFINE Quiet(m) == m.verified => m.ticket.generation # g
             Left(w) == w.mode \in {"absent", "passive"}
  <1>1. Left(worker[g]) /\ \A x \in Hosts : Quiet(wire[x])
    BY DEF Gone
  <1>2. Left(Absent) /\ Left(FreshWorker) /\ Quiet(NoMessage)
    BY DEF Absent, FreshWorker, NoMessage
  <1>3. SUFFICES Left(worker'[g]) /\ \A x \in Hosts : Quiet(wire'[x])
    BY DEF Gone
  <1>4. ASSUME NEW h \in Hosts, Moves(h)
        PROVE  Left(worker'[g]) /\ \A x \in Hosts : Quiet(wire'[x])
    BY <1>1, <1>4, MovesEffect
  <1>5. ASSUME NEW h \in Hosts, Sends(h)
        PROVE  Left(worker'[g]) /\ \A x \in Hosts : Quiet(wire'[x])
    BY <1>1, <1>5, SendsEffect
  <1>6. ASSUME NEW h \in Hosts, WorkerVerify(h)
        PROVE  Left(worker'[g]) /\ \A x \in Hosts : Quiet(wire'[x])
    <2>1. worker'[g] = worker[g] /\ \A x \in Hosts : x # h => wire'[x] = wire[x]
      BY <1>6, VerifyEffect
    <2>2. CASE wire'[h] = NoMessage
      BY <1>1, <1>2, <2>1, <2>2
    <2>3. CASE /\ \E clock \in Hosts : Accepts(wire[h], clock)
               /\ wire'[h].ticket = wire[h].ticket
      <3>1. wire[h].path # "none"
        BY <1>6, VerifyEffect
      <3>2. wire[h].ticket.generation # g
        BY <2>3, <3>1, Acceptance DEF DrainOver
      <3>3. QED BY <1>1, <2>1, <2>3, <3>2
    <2>4. QED BY <1>6, <2>2, <2>3, VerifyEffect
  <1>7. ASSUME NEW h \in Hosts, WorkerAct(h)
        PROVE  Left(worker'[g]) /\ \A x \in Hosts : Quiet(wire'[x])
    <2>1. wire[h].ticket.generation # g
      BY <1>1, <1>7, ActEffect
    <2>2. worker'[g] = worker[g]
      BY <1>7, <2>1, ActEffect
    <2>3. wire'[h] = NoMessage /\ \A x \in Hosts : x # h => wire'[x] = wire[x]
      BY <1>7, ActEffect
    <2>4. QED BY <1>1, <1>2, <2>2, <2>3
  <1>8. ASSUME NEW h \in Hosts, NEW x \in Generations, Replaces(h, x)
        PROVE  Left(worker'[g]) /\ \A k \in Hosts : Quiet(wire'[k])
    BY <1>1, <1>2, <1>8, ReplacesEffect
  <1>9. ASSUME NEW x \in Generations, LoseWorker(x)
        PROVE  Left(worker'[g]) /\ \A k \in Hosts : Quiet(wire'[k])
    BY <1>1, <1>2, <1>9, LossEffect DEF Cut
  <1>10. ASSUME NEW x \in Generations, Heartbeat(x)
         PROVE  Left(worker'[g]) /\ \A k \in Hosts : Quiet(wire'[k])
    <2>1. worker'[g] = worker[g] \/ worker'[g].mode = "passive"
      BY <1>10 DEF Heartbeat, Shapes, Containers
    <2>2. QED BY <1>1, <1>10, <2>1 DEF Heartbeat
  <1>11. QED
    BY <1>1, <1>4, <1>5, <1>6, <1>7, <1>8, <1>9, <1>10 DEF SupervisorKind

(* A retirement's calls are reached one after the other. *)
LEMMA RetiringCalls ==
    ASSUME Shapes, SupervisorKind, NEW x \in Hosts, process'[x].pc \in Retiring
    PROVE  \/ process'[x] = process[x]
           \/ \E q : process'[x] = q /\ q.pc # "tombstone" /\ Follows(x, q)
           \/ \E g \in Generations : Replaces(x, g) /\ process'[x].pc = "tombstone"
  <1>1. Idle.pc \notin Retiring /\ "complete" \notin Retiring /\ "recovered" \notin Retiring
        /\ "await" \notin Retiring /\ "idle" \notin Retiring
    BY DEF Idle, Retiring
  <1>2. ASSUME NEW g, Cut(x, g)
        PROVE  process'[x] = process[x]
    BY <1>1, <1>2 DEF Cut
  <1>3. ASSUME NEW h \in Hosts, Moves(h), process'[x] # process[x]
        PROVE  \E q : process'[x] = q /\ q.pc # "tombstone" /\ Follows(x, q)
    BY <1>3, MovesEffect DEF Follows
  <1>4. ASSUME NEW h \in Hosts, Sends(h) \/ WorkerVerify(h) \/ WorkerAct(h)
        PROVE  process'[x] = process[x]
    BY <1>1, <1>4, SendsEffect, VerifyEffect, ActEffect DEF AfterActivation
  <1>5. ASSUME NEW h \in Hosts, NEW g \in Generations, Replaces(h, g),
               process'[x] # process[x]
        PROVE  Replaces(x, g) /\ process'[x].pc = "tombstone"
    BY <1>2, <1>5, ReplacesEffect DEF Retiring
  <1>6. ASSUME NEW g \in Generations, Heartbeat(g) \/ LoseWorker(g)
        PROVE  process'[x] = process[x]
    BY <1>2, <1>6, LossEffect DEF Heartbeat
  <1>7. QED BY <1>3, <1>4, <1>5, <1>6 DEF SupervisorKind

LEMMA RetirementsInOrderStep ==
    ASSUME IInv, IInv', [Next]_vars, Shapes, Shapes', RetirementsInOrder, StoreCalls,
           SupervisorKind
    PROVE  RetirementsInOrder'
  <1>1. ASSUME NEW g \in Generations, DrainOver(g)
        PROVE  DrainOver(g)' /\ (Gone(g) => Gone(g)')
    BY <1>1, DrainOverStep, GoneStep
  <1>2. ASSUME NEW x \in Hosts, NEW g, process'[x].target = g, process'[x].pc \in Retiring
        PROVE  /\ process'[x].pc = "retire" =>
                      process'[x].ticket \in TransitionTickets \/ DrainOver(g)'
               /\ process'[x].pc = "remove" =>
                      process'[x].command = "restart" \/ DrainOver(g)'
               /\ process'[x].pc = "tombstone" => DrainOver(g)' /\ Gone(g)'
    <2>1. g \in Generations
      BY <1>2 DEF Shapes, ProcessShape
    <2>2. CASE process'[x] = process[x]
      BY <1>1, <1>2, <2>1, <2>2 DEF RetirementsInOrder
    <2>3. ASSUME NEW q, process'[x] = q, q.pc # "tombstone", Follows(x, q)
          PROVE  /\ q.pc = "retire" => q.ticket \in TransitionTickets \/ DrainOver(g)'
                 /\ q.pc = "remove" => q.command = "restart" \/ DrainOver(g)'
      <3>1. q.target = g
        BY <1>2, <2>3
      <3>2. QED BY <2>3, <3>1 DEF Follows
    <2>4. ASSUME NEW r \in Generations, Replaces(x, r), process'[x].pc = "tombstone"
          PROVE  DrainOver(g)' /\ Gone(g)'
      <3>1. /\ g = r /\ process[x].target = g /\ process[x].pc = "remove"
            /\ process[x].command # "restart" /\ worker'[g] = Absent
        BY <1>2, <2>4, ReplacesEffect
      <3>2. DrainOver(g)
        BY <3>1 DEF RetirementsInOrder
      <3>3. \A k \in Hosts : wire'[k] = IF k \in CutOff(g) THEN NoMessage ELSE wire[k]
        BY <2>4, <3>1, ReplacesEffect
      <3>4. \A k \in Hosts : wire'[k].verified => wire'[k].ticket.generation # g
        BY <3>3 DEF CutOff, NoMessage
      <3>5. Gone(g)'
        BY <3>1, <3>4 DEF Gone, Absent
      <3>6. QED BY <1>1, <2>1, <3>2, <3>5
    <2>5. QED BY <1>2, <2>2, <2>3, <2>4, RetiringCalls
  <1>3. ASSUME NEW g \in Generations, retirement'[g] = "completed"
        PROVE  DrainOver(g)' /\ Gone(g)'
    <2>1. DrainOver(g) /\ Gone(g)
      BY <1>3 DEF StoreCalls, RetirementsInOrder
    <2>2. QED BY <1>1, <2>1
  <1>4. QED BY <1>2, <1>3 DEF RetirementsInOrder, Retiring

-----------------------------------------------------------------------------
(* Drains.                                                                  *)

(* Whoever changes the store leaves the workers and their commands alone. *)
LEMMA StoreOrWorkers ==
    ASSUME Shapes, SupervisorKind
    PROVE  UNCHANGED vars \/ UNCHANGED <<wire, worker>>
  <1>1. ASSUME NEW h \in Hosts,
               \/ Sends(h) \/ WorkerVerify(h) \/ WorkerAct(h)
               \/ \E g \in Generations : Replaces(h, g)
        PROVE  UNCHANGED vars
    BY <1>1, SendsEffect, VerifyEffect, ActEffect, ReplacesEffect
  <1>2. ASSUME NEW g \in Generations, Heartbeat(g) \/ LoseWorker(g)
        PROVE  UNCHANGED vars
    BY <1>2 DEF Heartbeat, LoseWorker, vars
  <1>3. ASSUME NEW h \in Hosts, Moves(h)
        PROVE  UNCHANGED <<wire, worker>>
    BY <1>3, MovesEffect
  <1>4. QED BY <1>1, <1>2, <1>3 DEF SupervisorKind

(* A verified drain was so before, or has just been accepted. *)
LEMMA DrainOnItsWay ==
    ASSUME IInv, Shapes, SupervisorKind, NEW k \in Hosts, NEW g \in Generations,
           VerifiedDrain(k, g)'
    PROVE  \/ VerifiedDrain(k, g) /\ k \notin {x \in CutOff(g) : wire'[x] = NoMessage}
           \/ /\ DrainPending(g) /\ g # active /\ WorkerVerify(k)
              /\ wire[k].path # "none"
              /\ \E clock \in Hosts : TicketMatches(clock, wire[k].ticket)
              /\ UNCHANGED <<vars, worker>>
  <1>1. wire'[k].verified /\ wire'[k].path = "/drain" /\ wire'[k].ticket.generation = g
    BY DEF VerifiedDrain
  <1>2. wire'[k] # NoMessage
    BY <1>1 DEF NoMessage
  <1>3. ASSUME wire'[k] = wire[k]
        PROVE  VerifiedDrain(k, g)
    BY <1>1, <1>3 DEF VerifiedDrain
  <1>4. ASSUME NEW h \in Hosts, Moves(h) \/ Sends(h) \/ WorkerAct(h)
        PROVE  wire'[k] = wire[k]
    BY <1>1, <1>2, <1>4, MovesEffect, SendsEffect, ActEffect
  <1>5. ASSUME NEW h \in Hosts, NEW x \in Generations, Replaces(h, x)
        PROVE  wire'[k] = wire[k]
    BY <1>2, <1>5, ReplacesEffect
  <1>6. ASSUME NEW x \in Generations, Heartbeat(x) \/ LoseWorker(x)
        PROVE  wire'[k] = wire[k]
    BY <1>2, <1>6, LossEffect DEF Heartbeat, Cut
  <1>7. ASSUME NEW h \in Hosts, WorkerVerify(h)
        PROVE  \/ wire'[k] = wire[k]
               \/ /\ DrainPending(g) /\ g # active /\ WorkerVerify(k)
                  /\ wire[k].path # "none"
                  /\ \E clock \in Hosts : TicketMatches(clock, wire[k].ticket)
                  /\ UNCHANGED <<vars, worker>>
    <2>1. CASE h # k
      BY <1>7, <2>1, VerifyEffect
    <2>2. CASE h = k
      <3>1. /\ wire[k].path # "none" /\ UNCHANGED <<vars, worker>>
            /\ \E clock \in Hosts : Accepts(wire[k], clock)
            /\ wire'[k].path = wire[k].path /\ wire'[k].ticket = wire[k].ticket
        BY <1>2, <1>7, <2>2, VerifyEffect
      <3>2. wire[k].path = "/drain" /\ wire[k].ticket.generation = g
        BY <1>1, <3>1
      <3>3. QED BY <1>7, <2>2, <3>1, <3>2, Acceptance
    <2>3. QED BY <2>1, <2>2
  <1>8. QED
    BY <1>2, <1>3, <1>4, <1>5, <1>6, <1>7 DEF SupervisorKind

(* While a verified drain is on its way to a container, only a worker that  *)
(* acts changes it: it does not become fresh. *)
LEMMA NotFreshAgain ==
    ASSUME Shapes, SupervisorKind, NEW k \in Hosts, NEW g \in Generations,
           VerifiedDrain(k, g), VerifiedDrain(k, g)'
    PROVE  /\ FreshPassive(g)' => FreshPassive(g)
           /\ \/ worker'[g] = worker[g]
              \/ worker'[g].mode # "active"
              \/ \E h \in Hosts : /\ wire[h].path = "/activate"
                                  /\ worker'[g].token = wire[h].ticket.token
  <1>1. ASSUME worker'[g] = worker[g]
        PROVE  FreshPassive(g)' => FreshPassive(g)
    BY <1>1 DEF FreshPassive
  <1>2. k \in CutOff(g) /\ wire'[k] # NoMessage
    BY DEF VerifiedDrain, CutOff, NoMessage
  <1>3. ASSUME NEW h \in Hosts, Moves(h) \/ Sends(h) \/ WorkerVerify(h)
        PROVE  worker'[g] = worker[g]
    BY <1>3, MovesEffect, SendsEffect, VerifyEffect
  <1>4. ASSUME NEW x \in Generations, LoseWorker(x) \/ \E h \in Hosts : Replaces(h, x)
        PROVE  worker'[g] = worker[g]
    BY <1>2, <1>4, LossEffect, ReplacesEffect DEF Cut
  <1>5. ASSUME NEW x \in Generations, Heartbeat(x)
        PROVE  /\ FreshPassive(g)' => FreshPassive(g)
               /\ worker'[g] = worker[g] \/ worker'[g].mode # "active"
    <2>1. CASE x # g
      BY <1>1, <1>5, <2>1 DEF Heartbeat, Shapes
    <2>2. CASE x = g
      <3>1. worker[g].mode = "active" /\ worker'[g] = [worker[g] EXCEPT !.mode = "passive"]
            /\ worker[g] \in Containers
        BY <1>5, <2>2 DEF Heartbeat, Shapes
      <3>2. worker'[g].mode = "passive" /\ worker'[g].token = worker[g].token
        BY <3>1 DEF Containers
      <3>3. worker[g].token # 0
        BY <3>1 DEF Shapes, ContainerShape
      <3>4. QED BY <3>2, <3>3 DEF FreshPassive, FreshWorker
    <2>3. QED BY <2>1, <2>2
  <1>6. ASSUME NEW h \in Hosts, WorkerAct(h)
        PROVE  /\ FreshPassive(g)' => FreshPassive(g)
               /\ \/ worker'[g] = worker[g]
                  \/ worker'[g].mode # "active"
                  \/ \E y \in Hosts : /\ wire[y].path = "/activate"
                                      /\ worker'[g].token = wire[y].ticket.token
    <2>1. /\ wire[h].verified
          /\ worker'[g] = IF g # wire[h].ticket.generation THEN worker[g]
                          ELSE IF wire[h].path = "/drain"
                          THEN [worker[g] EXCEPT !.mode = "drained"]
                          ELSE [mode |-> "active", token |-> wire[h].ticket.token]
      BY <1>6, ActEffect
    <2>2. CASE g # wire[h].ticket.generation
      BY <1>1, <2>1, <2>2
    <2>3. CASE g = wire[h].ticket.generation /\ wire[h].path = "/drain"
      <3>1. worker'[g].mode = "drained"
        BY <2>1, <2>3 DEF Shapes, Containers
      <3>2. QED BY <3>1 DEF FreshPassive, FreshWorker
    <2>4. CASE g = wire[h].ticket.generation /\ wire[h].path # "/drain"
      <3>1. worker'[g] = [mode |-> "active", token |-> wire[h].ticket.token]
        BY <2>1, <2>4
      <3>2. wire[h].path = "/activate"
        BY <2>1, <2>4 DEF Shapes, Messages, MessageShape, NoMessage
      <3>3. QED BY <3>1, <3>2 DEF FreshPassive, FreshWorker
    <2>5. QED BY <2>2, <2>3, <2>4
  <1>7. QED
    BY <1>1, <1>3, <1>4, <1>5, <1>6 DEF SupervisorKind

(* A process that could complete the drain of g. *)
Drained(h, g) ==
    /\ process[h].pc = "complete" /\ Draining(process[h].ticket)
    /\ process[h].ticket.generation = g
    /\ process[h].ticket.reservationId = checkpoint.reservationId

(* The drain that is owed stays owed unless somebody completes it. *)
LEMMA OwedDrainStays ==
    ASSUME IInv, [Next]_vars, Shapes, StoreCalls, NEW g \in Generations, DrainPending(g),
           \A h \in Hosts : ~Drained(h, g)
    PROVE  DrainPending(g)'
  <1>1. /\ TypeOK /\ HasNextStep /\ HasCheckpoint /\ checkpoint.previous = g
        /\ NextStep # "retire-retained" /\ NextStep \in Steps
        /\ checkpoint.completed \in Nat /\ Len(StepsOf(checkpoint.kind)) \in Nat
    BY OwedStep, StepsOfLen
    DEF IInv, DrainPending, HasNextStep, TypeOK, CheckpointType
  <1>2. CASE checkpoint'.completed = checkpoint.completed
    BY <1>2, DrainPendingStep
  <1>3. CASE CompletedCheckpoint
    BY <1>1, <1>3 DEF CompletedCheckpoint, HasNextStep
  <1>4. ASSUME NEW h \in Hosts, CompletesStep(h)
        PROVE  DrainPending(g)'
    <2>1. PICK t : t = process[h].ticket
      OBVIOUS
    <2>2. /\ TicketMatches(h, t) /\ t.step = NextStep /\ t \in Tickets
          /\ process[h].pc = "complete"
      BY <1>4, <2>1
      DEF CompletesStep, CompleteTransitionStep, MayCompleteTransitionStep, Shapes, Processes
    <2>3. t \in TransitionTickets /\ t = TicketFor(t.step, checkpoint.reservationId)
      BY <1>1, <2>2, MatchingTicket
    <2>4. t.reservationId = checkpoint.reservationId
          /\ (t.step \notin TowardActive => t.generation = g)
      BY <1>1, <2>3 DEF TicketFor
    <2>5. t.step \in TowardActive
      <3>1. SUFFICES ASSUME t.step \notin TowardActive
                     PROVE  FALSE
        OBVIOUS
      <3>2. Draining(t)
        BY <1>1, <2>2, <2>3, <3>1 DEF Draining, Steps, TowardActive
      <3>3. QED BY <2>1, <2>2, <2>4, <3>1, <3>2 DEF Drained
    <2>6. checkpoint' = [Unreserved(checkpoint) EXCEPT !.completed = checkpoint.completed + 1]
      BY <1>4
      DEF CompletesStep, CompleteTransitionStep, MayCompleteTransitionStep, WithStepCompleted,
          RecoveryRetired, CheckpointColumnCheck, JsonNull, NoCheckpoint
    <2>7. /\ checkpoint'.kind = checkpoint.kind /\ checkpoint'.previous = g
          /\ checkpoint'.completed = checkpoint.completed + 1
      BY <1>1, <2>6 DEF Unreserved, TypeOK, CheckpointType
    <2>8. /\ checkpoint.completed + 1 < Len(StepsOf(checkpoint.kind))
          /\ StepsOf(checkpoint.kind)[checkpoint.completed + 2] # "retire-retained"
      BY <1>1, <2>2, <2>5, OwedOrder
    <2>9. checkpoint'.completed + 1 = checkpoint.completed + 2
      BY <1>1, <2>7
    <2>10. QED
      BY <1>1, <2>7, <2>8, <2>9 DEF DrainPending, HasNextStep, HasCheckpoint, NextStep
  <1>5. QED BY <1>2, <1>3, <1>4 DEF StoreCalls

(* Who is about to complete a drain after a step was so before it, or its   *)
(* worker has just drained. *)
LEMMA CompletesDrain ==
    ASSUME Shapes, Correspondence, SupervisorKind, NEW h \in Hosts, NEW g \in Generations,
           process'[h].pc = "complete", Draining(process'[h].ticket),
           process'[h].ticket.generation = g
    PROVE  process'[h] = process[h] \/ ~FreshPassive(g)'
  <1>1. NoTicket \notin TransitionTickets /\ Idle.pc = "idle"
    BY TicketSorts DEF Tickets, Idle
  <1>2. ASSUME NEW x, Cut(h, x)
        PROVE  process'[h] = process[h]
    BY <1>1, <1>2 DEF Cut
  <1>3. ASSUME NEW k \in Hosts, Moves(k)
        PROVE  process'[h] = process[h]
    BY <1>3, MovesEffect DEF Follows
  <1>4. ASSUME NEW k \in Hosts, Sends(k) \/ WorkerVerify(k)
        PROVE  process'[h] = process[h]
    BY <1>4, SendsEffect, VerifyEffect
  <1>5. ASSUME NEW k \in Hosts, NEW x \in Generations, Replaces(k, x)
        PROVE  process'[h] = process[h]
    BY <1>2, <1>5, ReplacesEffect
  <1>6. ASSUME NEW x \in Generations, Heartbeat(x) \/ LoseWorker(x)
        PROVE  process'[h] = process[h]
    BY <1>2, <1>6, LossEffect DEF Heartbeat
  <1>7. ASSUME NEW k \in Hosts, WorkerAct(k)
        PROVE  process'[h] = process[h] \/ ~FreshPassive(g)'
    <2>1. CASE k # h \/ process[h].pc # "await"
      BY <1>7, <2>1, ActEffect
    <2>2. CASE k = h /\ process[h].pc = "await"
      <3>1. /\ wire[h].verified /\ process'[h].ticket \in {process[h].ticket, NoTicket}
            /\ wire[h].ticket = process[h].ticket
        BY <1>7, <2>2, ActEffect DEF Correspondence
      <3>2. Draining(wire[h].ticket) /\ wire[h].ticket.generation = g
        BY <1>1, <3>1 DEF Draining
      <3>3. wire[h].path = "/drain"
        <4>1. ~Activating(wire[h].ticket)
          BY <3>2, TicketSorts DEF Activating, Draining, Tickets
        <4>2. QED BY <3>1, <4>1 DEF Shapes, Messages, MessageShape, NoMessage
      <3>4. worker'[g] = [worker[g] EXCEPT !.mode = "drained"]
        <4>1. worker'[g] = IF g # wire[h].ticket.generation THEN worker[g]
                           ELSE IF wire[h].path = "/drain"
                           THEN [worker[g] EXCEPT !.mode = "drained"]
                           ELSE [mode |-> "active", token |-> wire[h].ticket.token]
          BY <1>7, <2>2, ActEffect
        <4>2. QED BY <3>2, <3>3, <4>1
      <3>5. worker'[g].mode = "drained"
        BY <3>4 DEF Shapes, Containers
      <3>6. QED BY <3>5 DEF FreshPassive, FreshWorker
    <2>3. QED BY <2>1, <2>2
  <1>8. QED BY <1>3, <1>4, <1>5, <1>6, <1>7 DEF SupervisorKind

(* A reservation that is held cannot be handed out again. *)
LEMMA HeldReservation ==
    ASSUME Shapes, StoreCalls, NEW h \in Hosts, process[h].ticket \in TransitionTickets,
           process[h].ticket.reservationId = checkpoint'.reservationId
    PROVE  process[h].ticket.reservationId = checkpoint.reservationId
  <1> DEFINE t == process[h].ticket
  <1>1. t.reservationId \in ReservationIds
    BY DEF TransitionTickets
  <1>2. t.reservationId \in HeldReservations
    <2>1. IsTransitionTicket(t) /\ t \in {process[k].ticket : k \in Hosts}
      BY TicketSorts DEF Tickets
    <2>2. QED BY <2>1 DEF HeldReservations
  <1>3. QED BY <1>1, <1>2, StoreAssumption DEF StoreCalls

LEMMA DrainsInOrderStep ==
    ASSUME IInv, IInv', [Next]_vars, Shapes, Correspondence, TicketsSound,
           ReservationsApart, OneAuthorisedWorker, DrainsInOrder, StoreCalls,
           SupervisorKind
    PROVE  DrainsInOrder'
  <1> SUFFICES ASSUME NEW k \in Hosts, NEW g \in Generations, VerifiedDrain(k, g)'
               PROVE  /\ FreshPassive(g)' => DrainPending(g)'
                      /\ \A h \in Hosts : Drained(h, g)' => ~FreshPassive(g)'
                      /\ g = active' =>
                            /\ ~HealthyActive(g, fence.token)'
                            /\ \A h \in Hosts : wire'[h].path = "/activate"
                                                    => wire'[h].ticket.token # fence'.token
    BY DEF DrainsInOrder, Drained
  <1> DEFINE Accepted == /\ DrainPending(g) /\ g # active /\ WorkerVerify(k)
                         /\ wire[k].path # "none"
                         /\ \E clock \in Hosts : TicketMatches(clock, wire[k].ticket)
                         /\ UNCHANGED <<vars, worker>>
  <1>1. \/ VerifiedDrain(k, g) /\ ~(k \in CutOff(g) /\ wire'[k] = NoMessage)
        \/ Accepted
    BY DrainOnItsWay
  <1>2. VerifiedDrain(k, g) =>
            /\ FreshPassive(g) => DrainPending(g)
            /\ \A h \in Hosts : Drained(h, g) => ~FreshPassive(g)
            /\ g = active =>
                  /\ ~HealthyActive(g, fence.token)
                  /\ \A h \in Hosts : wire[h].path = "/activate"
                                          => wire[h].ticket.token # fence.token
    BY DEF DrainsInOrder, Drained
  <1>3. FreshPassive(g)' => DrainPending(g)'
    <2>1. CASE VerifiedDrain(k, g)
      <3>1. FreshPassive(g)' => FreshPassive(g)
        BY <2>1, NotFreshAgain
      <3>2. ASSUME FreshPassive(g)
            PROVE  DrainPending(g)'
        BY <1>2, <2>1, <3>2, OwedDrainStays
      <3>3. QED BY <3>1, <3>2
    <2>2. CASE Accepted
      BY <2>2 DEF vars, DrainPending, HasNextStep, HasCheckpoint, NextStep
    <2>3. QED BY <1>1, <2>1, <2>2
  <1>4. ASSUME NEW h \in Hosts, Drained(h, g)'
        PROVE  ~FreshPassive(g)'
    <2>1. /\ process'[h].pc = "complete" /\ Draining(process'[h].ticket)
          /\ process'[h].ticket.generation = g
          /\ process'[h].ticket.reservationId = checkpoint'.reservationId
      BY <1>4 DEF Drained, Draining
    <2>2. SUFFICES ASSUME process'[h] = process[h]
                   PROVE  ~FreshPassive(g)'
      BY <2>1, CompletesDrain
    <2>3. process[h].ticket \in TransitionTickets
      BY <2>1, <2>2 DEF Draining
    <2>4. process[h].ticket.reservationId = checkpoint.reservationId
      BY <2>1, <2>2, <2>3, HeldReservation
    <2>5. Drained(h, g)
      BY <2>1, <2>2, <2>4 DEF Drained
    <2>6. CASE VerifiedDrain(k, g)
      BY <1>2, <2>5, <2>6, NotFreshAgain
    <2>7. CASE Accepted
      <3>1. wire[k].ticket \in TransitionTickets
            /\ wire[k].ticket.reservationId = checkpoint.reservationId
        <4>1. wire[k].ticket \in Tickets
          BY DEF Shapes, Messages
        <4>2. PICK clock \in Hosts : TicketMatches(clock, wire[k].ticket)
          BY <2>7
        <4>3. /\ wire[k].ticket \in TransitionTickets
              /\ wire[k].ticket
                     = TicketFor(wire[k].ticket.step, checkpoint.reservationId)
          BY <4>1, <4>2, MatchingTicket DEF IInv
        <4>4. QED BY <4>3 DEF TicketFor
      <3>2. h = k
        BY <2>3, <2>4, <3>1 DEF ReservationsApart, Apart
      <3>3. wire[k] = NoMessage
        BY <2>1, <2>2, <3>2 DEF Correspondence
      <3>4. QED BY <2>7, <3>3 DEF NoMessage
    <2>8. QED BY <1>1, <2>6, <2>7
  <1>5. ASSUME g = active'
        PROVE  /\ ~HealthyActive(g, fence.token)'
               /\ \A h \in Hosts : wire'[h].path = "/activate"
                                       => wire'[h].ticket.token # fence'.token
    <2>1. /\ VerifiedDrain(k, g)
          /\ fence.token \in Nat /\ fence'.token \in Nat /\ fence'.token >= fence.token
          /\ fence'.token = fence.token => active' = active
          /\ fence'.token # fence.token => UNCHANGED <<wire, worker>>
      BY <1>1, <1>5, TokenDecides, StoreOrWorkers DEF vars
    <2>2. \A h \in Hosts : wire[h].path = "/activate" =>
              /\ wire[h].ticket \in TransitionTickets \cup RecoveryTickets
              /\ wire[h].ticket.token \in Nat /\ wire[h].ticket.token <= fence.token
      <3>1. \A t \in TransitionTickets \cup RecoveryTickets : t.token \in Nat
        BY DEF TransitionTickets, RecoveryTickets
      <3>2. QED
        BY <3>1 DEF Shapes, MessageShape, Activating, TicketsSound, TicketSound
    <2>3. CASE fence'.token # fence.token
      <3>1. worker[g].token <= fence.token /\ worker[g].token \in Nat
        BY DEF OneAuthorisedWorker, Shapes, Containers
      <3>2. ~HealthyActive(g, fence.token)'
        BY <2>1, <2>3, <3>1 DEF HealthyActive
      <3>3. QED BY <2>1, <2>2, <2>3, <3>2
    <2>4. CASE fence'.token = fence.token
      <3>1. /\ g = active /\ ~HealthyActive(g, fence.token)
            /\ \A h \in Hosts : wire[h].path = "/activate"
                                    => wire[h].ticket.token # fence.token
        BY <1>2, <1>5, <2>1, <2>4
      <3>2. ~HealthyActive(g, fence.token)'
        <4>1. \/ worker'[g] = worker[g]
              \/ worker'[g].mode # "active"
              \/ \E h \in Hosts : /\ wire[h].path = "/activate"
                                  /\ worker'[g].token = wire[h].ticket.token
          BY <2>1, NotFreshAgain
        <4>2. QED BY <2>4, <3>1, <4>1 DEF HealthyActive
      <3>3. ~FreshPassive(g)
        BY <1>2, <2>1, <3>1, DrainedIsNotActive
      <3>4. ASSUME NEW h \in Hosts, wire'[h].path = "/activate"
            PROVE  \/ wire[h].path = "/activate" /\ wire'[h].ticket = wire[h].ticket
                   \/ wire'[h].ticket.token # fence.token
        <4>1. wire'[h] # NoMessage
          BY <3>4 DEF NoMessage
        <4>2. ASSUME NEW x \in Hosts, Sends(x)
              PROVE  wire'[h] = wire[h] \/ wire'[h].ticket.token # fence.token
          <5>1. CASE x # h
            BY <4>2, <5>1, SendsEffect
          <5>2. CASE x = h
            <6>1. /\ Activating(process[h].ticket)
                  /\ FreshPassive(process[h].ticket.generation)
              BY <3>4, <4>2, <5>2 DEF Sends, Send, Shapes
            <6>2. process[h].ticket \in TransitionTickets \cup RecoveryTickets
              BY <6>1 DEF Activating
            <6>3. TicketSound(process[h].ticket, fence.token, active)
              BY DEF TicketsSound
            <6>4. process[h].ticket.token # fence.token
              BY <3>1, <3>3, <6>1, <6>2, <6>3 DEF TicketSound
            <6>5. QED BY <4>2, <5>2, <6>4, SendsEffect
          <5>3. QED BY <5>1, <5>2
        <4>3. ASSUME NEW x \in Hosts, Moves(x) \/ WorkerAct(x)
              PROVE  wire'[h] = wire[h]
          BY <4>1, <4>3, MovesEffect, ActEffect
        <4>4. ASSUME NEW x \in Hosts, WorkerVerify(x)
              PROVE  wire'[h].path = wire[h].path /\ wire'[h].ticket = wire[h].ticket
          BY <4>1, <4>4, VerifyEffect
        <4>5. ASSUME NEW x \in Hosts, NEW y \in Generations, Replaces(x, y)
              PROVE  wire'[h] = wire[h]
          BY <4>1, <4>5, ReplacesEffect
        <4>6. ASSUME NEW x \in Generations, Heartbeat(x) \/ LoseWorker(x)
              PROVE  wire'[h] = wire[h]
          BY <4>1, <4>6, LossEffect DEF Heartbeat, Cut
        <4>7. QED
          BY <3>4, <4>2, <4>3, <4>4, <4>5, <4>6 DEF SupervisorKind
      <3>5. QED BY <2>4, <3>1, <3>2, <3>4
    <2>5. QED BY <2>3, <2>4
  <1>6. QED BY <1>3, <1>4, <1>5

-----------------------------------------------------------------------------
(* The invariant of the composition.                                        *)

LEMMA SupInit == DeploymentInit => SupInv
  <1> SUFFICES ASSUME DeploymentInit
               PROVE  SupInv
    OBVIOUS
  <1>1. IInv
    BY StoreInit DEF DeploymentInit
  <1>2. /\ process = [h \in Hosts |-> Idle] /\ wire = [h \in Hosts |-> NoMessage]
        /\ worker = [g \in Generations |-> Absent]
    BY DEF DeploymentInit
  <1>3. Idle \in Processes /\ NoMessage \in Messages
    BY IdleShape DEF ProcessShape, MessageShape
  <1>4. Absent \in Containers /\ ContainerShape(Absent)
    BY DEF Absent, Containers, ContainerShape
  <1>5. Shapes
    BY <1>2, <1>3, <1>4, IdleShape DEF Shapes
  <1>6. Idle.pc = "idle" /\ Idle.ticket = NoTicket /\ ~NoMessage.verified
        /\ NoMessage.ticket = NoTicket
    BY DEF Idle, NoMessage
  <1>7. NoTicket \notin TransitionTickets \cup RecoveryTickets
    BY TicketSorts DEF Tickets
  <1>8. Correspondence /\ TicketsSound /\ ReservationsApart
    BY <1>2, <1>6, <1>7 DEF Correspondence, TicketsSound, TicketSound, ReservationsApart, Apart
  <1>9. OneAuthorisedWorker
    <2>1. fence.token \in Nat
      BY <1>1, StoreAssumption DEF IInv, TypeOK, FenceType
    <2>2. \A g \in Generations : worker[g].mode = "absent" /\ worker[g].token = 0
      BY <1>2 DEF Absent
    <2>3. ASSUME NEW g \in Generations, HealthyActive(g, fence.token)
          PROVE  FALSE
      <3>1. worker[g].mode = "active"
        BY <2>3 DEF HealthyActive
      <3>2. QED BY <2>2, <3>1
    <2>4. ASSUME NEW g \in Generations
          PROVE  worker[g].token <= fence.token
      <3>1. PICK t \in Nat : t = fence.token
        BY <2>1
      <3>2. 0 <= t
        OBVIOUS
      <3>3. QED BY <2>2, <3>1, <3>2
    <2>5. QED BY <2>3, <2>4 DEF OneAuthorisedWorker
  <1>10. \A g \in Generations : retirement[g] = "none"
    BY DEF DeploymentInit, Init
  <1>11. RetirementsInOrder
    BY <1>2, <1>6, <1>10 DEF RetirementsInOrder
  <1>12. DrainsInOrder
    BY <1>2, <1>6 DEF DrainsInOrder, VerifiedDrain
  <1>13. QED BY <1>1, <1>5, <1>8, <1>9, <1>11, <1>12 DEF SupInv

LEMMA SupStep == SupInv /\ [DeploymentNext]_allVars => SupInv'
  <1> SUFFICES ASSUME SupInv, [DeploymentNext]_allVars
               PROVE  SupInv'
    OBVIOUS
  <1>1. /\ IInv /\ Shapes /\ Correspondence /\ TicketsSound /\ ReservationsApart
        /\ OneAuthorisedWorker /\ RetirementsInOrder /\ DrainsInOrder
    BY DEF SupInv
  <1>2. [Next]_vars
    BY <1>1, SupervisorsUseStore DEF IInv
  <1>3. IInv'
    BY <1>1, <1>2, StoreStep
  <1>4. Shapes'
    BY <1>1, <1>3, ShapesStep
  <1>5. SupervisorKind /\ StoreCalls
    BY <1>1, <1>3, SupervisorKinds, StoreCallsStep
  <1>6. Correspondence' /\ TicketsSound' /\ ReservationsApart' /\ OneAuthorisedWorker'
    BY <1>1, <1>2, <1>3, <1>5, CorrespondenceStep, TicketsSoundStep, ReservationsApartStep,
       OneAuthorisedStep
  <1>7. RetirementsInOrder' /\ DrainsInOrder'
    BY <1>1, <1>2, <1>3, <1>4, <1>5, RetirementsInOrderStep, DrainsInOrderStep
  <1>8. QED BY <1>3, <1>4, <1>6, <1>7 DEF SupInv

(* The store's invariants survive its supervisors, and what these hold fits *)
(* the authority in the store, however their steps interleave, whatever     *)
(* crashes, and however late a command is delivered. *)
THEOREM SupervisorInvariant == DeploymentSpec => []SupInv
  BY SupInit, SupStep, PTL DEF DeploymentSpec

-----------------------------------------------------------------------------
(* Theorems.                                                                *)

(* The supervisors drive the store only through its transactions: whatever  *)
(* they read before, and whoever moved in between. *)
THEOREM SupervisorsImplementStore == DeploymentSpec => UsesStore
  <1>1. DeploymentInit => Init
    BY DEF DeploymentInit
  <1>2. SupInv /\ [DeploymentNext]_allVars => [Next]_vars
    BY SupervisorsUseStore DEF SupInv, IInv
  <1>3. [Next]_vars => [vars' # vars => Next]_vars
    OBVIOUS
  <1>4. QED
    BY <1>1, <1>2, <1>3, SupervisorInvariant, PTL DEF DeploymentSpec, UsesStore

(* At most one worker executes: one that is active under the current token  *)
(* is the worker of the active generation, and no worker holds a token that *)
(* was not issued. *)
THEOREM OneWorkerExecutes == DeploymentSpec => []OneAuthorisedWorker
  <1>1. SupInv => OneAuthorisedWorker
    BY DEF SupInv
  <1>2. QED BY <1>1, SupervisorInvariant, PTL

(* Once a tombstone is completed the containers of its generation are gone, *)
(* or a late start has left one that never executes. *)
THEOREM TheRetiredAreGone == DeploymentSpec => []RetiredGenerationIsGone
  <1>1. SupInv => RetiredGenerationIsGone
    BY DEF SupInv, RetirementsInOrder, Gone, RetiredGenerationIsGone
  <1>2. QED BY <1>1, SupervisorInvariant, PTL

(* A drain never reaches the worker that executes under the current token.  *)
THEOREM DrainsSpareTheExecutor == DeploymentSpec => DrainSparesExecutor
  <1> DEFINE Spared == \A g \in Generations :
                          HealthyActive(g, fence.token) => worker'[g].mode # "drained"
  <1>1. ASSUME SupInv, [DeploymentNext]_allVars
        PROVE  Spared
    <2>1. /\ IInv /\ Shapes /\ OneAuthorisedWorker /\ RetirementsInOrder /\ DrainsInOrder
          /\ SupervisorKind
      <3>1. IInv'
        BY <1>1, SupStep DEF SupInv
      <3>2. QED BY <1>1, <3>1, SupervisorKinds DEF SupInv
    <2>2. SUFFICES ASSUME NEW g \in Generations, HealthyActive(g, fence.token),
                          worker'[g].mode = "drained"
                   PROVE  FALSE
      OBVIOUS
    <2>3. g = active /\ worker[g].mode = "active"
      BY <2>1, <2>2 DEF OneAuthorisedWorker, HealthyActive
    <2>4. ASSUME NEW h \in Hosts, WorkerAct(h)
          PROVE  FALSE
      <3>1. /\ wire[h].verified
            /\ worker'[g] = IF g # wire[h].ticket.generation THEN worker[g]
                            ELSE IF wire[h].path = "/drain"
                            THEN [worker[g] EXCEPT !.mode = "drained"]
                            ELSE [mode |-> "active", token |-> wire[h].ticket.token]
        BY <2>1, <2>4, ActEffect
      <3>2. VerifiedDrain(h, g)
        BY <2>2, <2>3, <3>1 DEF VerifiedDrain
      <3>3. QED BY <2>1, <2>2, <2>3, <3>2 DEF DrainsInOrder
    <2>5. ASSUME NEW h \in Hosts, Moves(h) \/ Sends(h) \/ WorkerVerify(h)
          PROVE  FALSE
      BY <2>1, <2>2, <2>3, <2>5, MovesEffect, SendsEffect, VerifyEffect
    <2>6. ASSUME NEW x \in Generations, LoseWorker(x) \/ \E h \in Hosts : Replaces(h, x)
          PROVE  FALSE
      BY <2>1, <2>2, <2>3, <2>6, LossEffect, ReplacesEffect DEF Absent, FreshWorker
    <2>7. ASSUME NEW x \in Generations, Heartbeat(x)
          PROVE  FALSE
      <3>1. worker'[g] = worker[g] \/ worker'[g].mode = "passive"
        BY <2>1, <2>7 DEF Heartbeat, Shapes, Containers
      <3>2. QED BY <2>2, <2>3, <3>1
    <2>8. QED BY <2>1, <2>2, <2>3, <2>4, <2>5, <2>6, <2>7 DEF SupervisorKind
  <1>2. QED
    BY <1>1, SupervisorInvariant, PTL DEF DeploymentSpec, DrainSparesExecutor

(* Faults are counted. *)
FaultCount == faults \in Nat

LEMMA FaultsStep ==
    ASSUME [DeploymentNext]_allVars
    PROVE  faults' \in {faults, faults + 1}
  <1>1. ASSUME NEW h \in Hosts, Operator(h)
        PROVE  faults' = faults
    BY <1>1 DEF Operator, Bootstrap, BeginRecover, BeginDeploy, BeginRestart,
       BeginRollback, BeginClose, Issue
  <1>2. ASSUME NEW h \in Hosts, Transition(h)
        PROVE  faults' \in {faults, faults + 1}
    BY <1>2 DEF Transition, Start, Readiness, CommitDeploy, CommitRollback,
       RejectPromotion, VerifyRetirement, RemoveGeneration, CompleteTombstone,
       NextPending, InspectWorker, RecoverySettled, PrepareWorker, ReplaceWorker,
       SendActivation, ReserveStep, AwaitStep, Effect, ReleaseStep, CompleteStep, DecideClose,
       FinishClose
  <1>3. ASSUME NEW h \in Hosts, WorkerStep(h)
        PROVE  faults' = faults
    BY <1>3 DEF WorkerStep, WorkerVerify, WorkerAct
  <1>4. ASSUME Environment
        PROVE  faults' \in {faults, faults + 1}
    BY <1>4 DEF Environment, Crash, ReservationExpires, LoseWorker, Heartbeat,
       LapseFence, RecoveryExpires, WindowExpires, InventoryConverges, supervisorVars,
       Strike, TimeUnlessHeld
  <1>5. QED BY <1>1, <1>2, <1>3, <1>4 DEF DeploymentNext, allVars

LEMMA FaultsAreCounted == DeploymentSpec => []FaultCount
  <1>1. DeploymentInit => FaultCount
    BY DEF DeploymentInit, FaultCount
  <1>2. FaultCount /\ [DeploymentNext]_allVars => FaultCount'
    BY FaultsStep DEF FaultCount
  <1>3. QED BY <1>1, <1>2, PTL DEF DeploymentSpec

(* No retirement, however long ago it was authorised, removes containers    *)
(* of the active generation, or of the retained one while its window is     *)
(* open. *)
THEOREM RetirementsSpareTheLive == DeploymentSpec => RetirementSparesLiveGenerations
  <1> DEFINE Spared == \A g \in Generations :
                          Removed(g) => /\ g # active
                                        /\ g = rollback => window.state = "retirement-reserved"
  <1>1. ASSUME SupInv, FaultCount, [DeploymentNext]_allVars
        PROVE  Spared
    <2>1. IInv /\ Shapes /\ RetirementsInOrder /\ SupervisorKind
      <3>1. IInv'
        BY <1>1, SupStep DEF SupInv
      <3>2. QED BY <1>1, <3>1, SupervisorKinds DEF SupInv
    <2>2. SUFFICES ASSUME NEW g \in Generations, Removed(g)
                   PROVE  DrainOver(g)
      BY <2>1, StoreAssumption DEF DrainOver, IInv, TombstonesSpareLiveGenerations
    <2>3. /\ worker[g].mode # "absent" /\ worker'[g].mode = "absent" /\ faults' = faults
          /\ ~Restarting(g)
      BY <2>2 DEF Removed
    <2>4. ASSUME NEW h \in Hosts, Replaces(h, g), worker'[g] # FreshWorker
          PROVE  DrainOver(g)
      <3>1. process[h].pc = "remove" /\ process[h].target = g
        BY <2>1, <2>4 DEF Replaces, ReplaceContainer, Shapes
      <3>2. QED BY <2>1, <2>3, <3>1 DEF RetirementsInOrder, Restarting
    <2>5. ASSUME NEW h \in Hosts, NEW x \in Generations, Replaces(h, x)
          PROVE  DrainOver(g)
      BY <2>1, <2>3, <2>4, <2>5, ReplacesEffect DEF FreshWorker
    <2>6. ASSUME NEW h \in Hosts, WorkerAct(h)
          PROVE  FALSE
      <3>1. worker'[g] = IF g # wire[h].ticket.generation THEN worker[g]
                         ELSE IF wire[h].path = "/drain"
                         THEN [worker[g] EXCEPT !.mode = "drained"]
                         ELSE [mode |-> "active", token |-> wire[h].ticket.token]
        BY <2>1, <2>6, ActEffect
      <3>2. [worker[g] EXCEPT !.mode = "drained"].mode = "drained"
        BY <2>1 DEF Shapes, Containers
      <3>3. QED BY <2>3, <3>1, <3>2
    <2>7. ASSUME NEW h \in Hosts, Moves(h) \/ Sends(h) \/ WorkerVerify(h)
          PROVE  FALSE
      BY <2>1, <2>3, <2>7, MovesEffect, SendsEffect, VerifyEffect
    <2>8. ASSUME NEW x \in Generations, Heartbeat(x)
          PROVE  FALSE
      <3>1. worker'[g] = worker[g] \/ worker'[g].mode = "passive"
        BY <2>1, <2>8 DEF Heartbeat, Shapes, Containers
      <3>2. QED BY <2>3, <3>1
    <2>9. ASSUME NEW x \in Generations, LoseWorker(x)
          PROVE  FALSE
      BY <1>1, <2>3, <2>9 DEF LoseWorker, Strike, FaultCount
    <2>10. QED
      BY <2>1, <2>3, <2>5, <2>6, <2>7, <2>8, <2>9 DEF SupervisorKind
  <1>2. QED
    BY <1>1, SupervisorInvariant, FaultsAreCounted, PTL
    DEF DeploymentSpec, RetirementSparesLiveGenerations

-----------------------------------------------------------------------------
(* What is committed exists, where containers are not restarted by hand.    *)

(* What a process started and checked is there when it commits, unless it   *)
(* has been retired meanwhile; a rollback that is still current goes to the *)
(* generation that is retained. *)
CommitReady ==
    \A h \in Hosts :
        /\ process[h].command # "restart"
        /\ faults = 0 /\ process[h].pc = "commit" =>
               worker[process[h].target].mode # "absent" \/ retirement[process[h].target] # "none"
        /\ process[h].command = "rollback" /\ process[h].pc \in Starting =>
               /\ process[h].revision <= revision
               /\ process[h].revision = revision => process[h].target = rollback

(* How a process comes to start, check or commit a generation, or to remove *)
(* one: its command has begun, or goes on with the generation it began.     *)
Begun(x, q) ==
    \/ q.command = "bootstrap" /\ q.pc = "readiness"
    \/ /\ q.command \in {"deploy", "deploy-quarantine"} /\ q.pc = "start"
       /\ q.revision = revision /\ q.target # active
    \/ /\ q.command = "rollback" /\ q.pc = "start"
       /\ q.revision = revision /\ q.target = rollback
    \/ q.command = "restart" /\ "restart" \in Commands

Continued(x, q) ==
    /\ q.command = process[x].command
    /\ q.target = process[x].target
    /\ q.revision = process[x].revision
    /\ q.pc \in Starting => process[x].pc \in Starting \/ q.command = "restart"
    /\ q.pc = "commit" => worker[q.target].mode = "passive"

StartingCall(x, q) ==
    q.pc \in Starting \cup {"remove"} => q = process[x] \/ Begun(x, q) \/ Continued(x, q)

(* The steps that leave a process with another call, one kind at a time.    *)
LEMMA StartingFrame ==
    ASSUME Shapes, NEW h \in Hosts, NEW q, StartingCall(h, q),
           \/ process' = [process EXCEPT ![h] = q]
           \/ \E g, new : ReplaceContainer(h, g, new, q)
    PROVE  \A x \in Hosts : StartingCall(x, process'[x])
  <1>1. Idle.pc \notin Starting \cup {"remove"}
    BY DEF Idle, Starting
  <1>2. /\ process'[h] = q
        /\ \A x \in Hosts : x # h => process'[x] \in {process[x], Idle}
    BY DEF Shapes, ReplaceContainer
  <1>3. QED BY <1>1, <1>2 DEF StartingCall

LEMMA StartingGoto ==
    ASSUME Shapes, NEW h \in Hosts, NEW c \in Calls, Goto(h, c),
           /\ c \in Starting => process[h].pc \in Starting
           /\ c = "commit" => worker[process[h].target].mode = "passive"
    PROVE  \A x \in Hosts : StartingCall(x, process'[x])
  <1>1. PICK q : q = [process[h] EXCEPT !.pc = c]
    OBVIOUS
  <1>2. q.pc = c /\ q.command = process[h].command /\ q.target = process[h].target
        /\ q.revision = process[h].revision
    BY <1>1 DEF Shapes, Processes
  <1>3. StartingCall(h, q)
    BY <1>2 DEF StartingCall, Continued
  <1>4. process' = [process EXCEPT ![h] = q]
    BY <1>1 DEF Goto
  <1>5. QED BY <1>3, <1>4, StartingFrame

LEMMA StartingEnd ==
    ASSUME Shapes, NEW h \in Hosts, End(h)
    PROVE  \A x \in Hosts : StartingCall(x, process'[x])
  <1>1. StartingCall(h, Idle)
    BY DEF StartingCall, Starting, Idle
  <1>2. QED BY <1>1, StartingFrame DEF End

(* A call that starts nothing. *)
LEMMA StartingOther ==
    ASSUME Shapes, NEW h \in Hosts, NEW q, q.pc \notin Starting \cup {"remove"},
           \/ process' = [process EXCEPT ![h] = q]
           \/ \E g, new : ReplaceContainer(h, g, new, q)
    PROVE  \A x \in Hosts : StartingCall(x, process'[x])
  BY StartingFrame DEF StartingCall

LEMMA StartingKept ==
    ASSUME process' = process
    PROVE  \A x \in Hosts : StartingCall(x, process'[x])
  BY DEF StartingCall

(* The operator's commands. *)
LEMMA OperatorStarts ==
    ASSUME Shapes, NEW h \in Hosts, Operator(h)
    PROVE  \A x \in Hosts : StartingCall(x, process'[x])
  <1> DEFINE Goal == \A x \in Hosts : StartingCall(x, process'[x])
  <1>1. ASSUME NEW c \in {"pending", "step"}, NEW command
        PROVE  [Idle EXCEPT !.pc = c, !.command = command].pc \notin Starting \cup {"remove"}
    BY DEF Idle, Starting
  <1>2. CASE Bootstrap(h)
    <2>1. PICK q : q = [Idle EXCEPT !.pc = "readiness", !.command = "bootstrap",
                                    !.target = InitialGeneration]
      OBVIOUS
    <2>2. q.pc = "readiness" /\ q.command = "bootstrap"
      BY <2>1 DEF Idle
    <2>3. StartingCall(h, q)
      BY <2>2 DEF StartingCall, Begun
    <2>4. \/ process' = [process EXCEPT ![h] = q]
          \/ ReplaceContainer(h, InitialGeneration, FreshWorker, q)
      BY <1>2, <2>1 DEF Bootstrap, StartPassive
    <2>5. QED BY <2>3, <2>4, StartingFrame
  <1>3. CASE BeginRecover(h)
    BY <1>1, <1>3, StartingOther DEF BeginRecover
  <1>4. ASSUME NEW g \in Generations, BeginDeploy(h, g)
        PROVE  Goal
    <2>1. PICK command \in {"deploy", "deploy-quarantine"} :
              process' = [process EXCEPT ![h] =
                          [Idle EXCEPT !.pc = "start", !.command = command,
                                       !.revision = revision, !.token = fence.token,
                                       !.base = active, !.target = g]]
      BY <1>4 DEF BeginDeploy
    <2>2. PICK q : q = [Idle EXCEPT !.pc = "start", !.command = command,
                                    !.revision = revision, !.token = fence.token,
                                    !.base = active, !.target = g]
      OBVIOUS
    <2>3. /\ q.pc = "start" /\ q.command = command
          /\ q.revision = revision /\ q.target # active
      BY <1>4, <2>2 DEF Idle, BeginDeploy
    <2>4. QED BY <2>1, <2>2, <2>3, StartingFrame DEF StartingCall, Begun
  <1>5. CASE BeginRollback(h)
    <2>1. PICK q : q = [Idle EXCEPT !.pc = "start", !.command = "rollback",
                                    !.revision = revision, !.token = fence.token,
                                    !.target = rollback]
      OBVIOUS
    <2>2. q.pc = "start" /\ q.command = "rollback" /\ q.revision = revision
          /\ q.target = rollback
      BY <2>1 DEF Idle
    <2>3. process' = [process EXCEPT ![h] = q]
      BY <1>5, <2>1 DEF BeginRollback
    <2>4. QED BY <2>2, <2>3, StartingFrame DEF StartingCall, Begun
  <1>6. CASE BeginClose(h)
    BY <1>1, <1>6, StartingOther DEF BeginClose
  <1>7. ASSUME NEW g \in Generations, BeginRestart(h, g)
        PROVE  Goal
    <2>1. PICK q : q = [Idle EXCEPT !.pc = "remove", !.command = "restart", !.target = g]
      OBVIOUS
    <2>2. q.command = "restart" /\ "restart" \in Commands
      BY <1>7, <2>1 DEF Idle, BeginRestart, Issue
    <2>3. process' = [process EXCEPT ![h] = q]
      BY <1>7, <2>1 DEF BeginRestart
    <2>4. QED BY <2>2, <2>3, StartingFrame DEF StartingCall, Begun
  <1>8. QED BY <1>2, <1>3, <1>4, <1>5, <1>6, <1>7 DEF Operator

(* Starting, checking, committing, and retiring. *)
LEMMA TransitionStarts ==
    ASSUME Shapes, NEW h \in Hosts,
           \/ Start(h) \/ Readiness(h) \/ CommitDeploy(h) \/ CommitRollback(h)
           \/ RejectPromotion(h) \/ VerifyRetirement(h) \/ RemoveGeneration(h)
           \/ CompleteTombstone(h) \/ NextPending(h)
    PROVE  \A x \in Hosts : StartingCall(x, process'[x])
  <1> DEFINE p == process[h]
             booted == [Idle EXCEPT !.pc = "pending", !.command = "bootstrap"]
             Goal == \A x \in Hosts : StartingCall(x, process'[x])
  <1>1. p \in Processes /\ \A c \in Calls : c \in Starting <=> c \in {"start", "readiness", "commit"}
    BY DEF Shapes, Starting
  <1>2. CASE Start(h)
    <2>1. p.pc = "start" /\ StartPassive(h, p.target, [p EXCEPT !.pc = "readiness"])
      BY <1>2 DEF Start
    <2>2. PICK q : q = [p EXCEPT !.pc = "readiness"]
      OBVIOUS
    <2>3. /\ q.pc = "readiness" /\ q.command = p.command /\ q.target = p.target
          /\ q.revision = p.revision
      BY <1>1, <2>2 DEF Processes
    <2>4. StartingCall(h, q)
      BY <2>1, <2>3 DEF StartingCall, Continued, Starting
    <2>5. \/ process' = [process EXCEPT ![h] = q]
          \/ ReplaceContainer(h, p.target, FreshWorker, q)
      BY <2>1, <2>2 DEF StartPassive
    <2>6. QED BY <2>4, <2>5, StartingFrame
  <1>3. CASE Readiness(h)
    <2>1. /\ p.pc = "readiness"
          /\ \/ worker[p.target].mode = "passive" /\ Goto(h, "commit")
             \/ End(h) \/ Goto(h, "reject")
             \/ process' = [process EXCEPT ![h] = booted]
      BY <1>3 DEF Readiness, Ready, Reject
    <2>2. booted.pc \notin Starting \cup {"remove"}
      BY DEF Idle, Starting
    <2>3. CASE process' = [process EXCEPT ![h] = booted]
      BY <2>2, <2>3, StartingOther
    <2>4. QED BY <2>1, <2>3, StartingGoto, StartingEnd DEF Calls, Starting
  <1>4. CASE CommitDeploy(h) \/ CommitRollback(h)
    <2>1. End(h) \/ Goto(h, "reject")
      BY <1>4 DEF CommitDeploy, CommitRollback, Reject
    <2>2. QED BY <2>1, StartingGoto, StartingEnd DEF Calls, Starting
  <1>5. CASE RejectPromotion(h) \/ VerifyRetirement(h)
    <2>1. End(h) \/ Goto(h, "retire") \/ Goto(h, "remove")
      BY <1>5 DEF RejectPromotion, VerifyRetirement
    <2>2. QED BY <2>1, StartingGoto, StartingEnd DEF Calls, Starting
  <1>6. CASE RemoveGeneration(h)
    <2>1. PICK q : q = [p EXCEPT !.pc = IF p.command = "restart" THEN "start" ELSE "tombstone"]
      OBVIOUS
    <2>2. /\ q.pc = IF p.command = "restart" THEN "start" ELSE "tombstone"
          /\ q.command = p.command /\ q.target = p.target /\ q.revision = p.revision
      BY <1>1, <2>1 DEF Processes
    <2>3. StartingCall(h, q)
      BY <2>2 DEF StartingCall, Continued, Starting
    <2>4. ReplaceContainer(h, p.target, Absent, q)
      BY <1>6, <2>1 DEF RemoveGeneration
    <2>5. QED BY <2>3, <2>4, StartingFrame
  <1>7. CASE CompleteTombstone(h)
    <2>1. PICK q : q = [p EXCEPT !.pc = "pending", !.target = NoGeneration]
      OBVIOUS
    <2>2. q.pc \notin Starting \cup {"remove"}
      BY <1>1, <2>1 DEF Processes, Starting
    <2>3. End(h) \/ Goto(h, "complete") \/ process' = [process EXCEPT ![h] = q]
      BY <1>7, <2>1 DEF CompleteTombstone
    <2>4. QED BY <2>2, <2>3, StartingGoto, StartingEnd, StartingOther DEF Calls, Starting
  <1>8. CASE NextPending(h)
    <2>1. ASSUME NEW g \in PendingRetirements,
                 process' = [process EXCEPT ![h] = [p EXCEPT !.pc = "retire", !.target = g]]
          PROVE  Goal
      <3>1. PICK q : q = [p EXCEPT !.pc = "retire", !.target = g]
        OBVIOUS
      <3>2. q.pc \notin Starting \cup {"remove"}
        BY <1>1, <3>1 DEF Processes, Starting
      <3>3. QED BY <2>1, <3>1, <3>2, StartingOther
    <2>2. CASE End(h) \/ Goto(h, "worker")
      BY <2>2, StartingGoto, StartingEnd DEF Calls, Starting
    <2>3. QED BY <1>8, <2>1, <2>2 DEF NextPending
  <1>9. QED BY <1>2, <1>3, <1>4, <1>5, <1>6, <1>7, <1>8

(* Recovering the worker, activating it, and the steps of a transition.     *)
LEMMA RecoveryStarts ==
    ASSUME Shapes, NEW h \in Hosts,
           \/ InspectWorker(h) \/ RecoverySettled(h) \/ PrepareWorker(h) \/ ReplaceWorker(h)
           \/ SendActivation(h)
    PROVE  \A x \in Hosts : StartingCall(x, process'[x])
  <1> DEFINE p == process[h]
             Goal == \A x \in Hosts : StartingCall(x, process'[x])
  <1>1. p \in Processes
    BY DEF Shapes
  <1>2. ASSUME WorkerSettled(h)
        PROVE  Goal
    <2>1. PICK q : q = [Idle EXCEPT !.pc = "step", !.command = "recover-again"]
      OBVIOUS
    <2>2. q.pc \notin Starting \cup {"remove"}
      BY <2>1 DEF Idle, Starting
    <2>3. End(h) \/ process' = [process EXCEPT ![h] = q]
      BY <1>2, <2>1 DEF WorkerSettled
    <2>4. QED BY <2>2, <2>3, StartingEnd, StartingOther
  <1>3. ASSUME NEW c \in {"recovered", "reactivate"}, NEW t, WithRecovery(h, c, t)
        PROVE  Goal
    <2>1. PICK q : q = [p EXCEPT !.pc = c, !.ticket = t]
      OBVIOUS
    <2>2. q.pc \notin Starting \cup {"remove"}
      BY <1>1, <2>1 DEF Processes, Starting
    <2>3. process' = [process EXCEPT ![h] = q]
      BY <1>3, <2>1 DEF WithRecovery
    <2>4. QED BY <2>2, <2>3, StartingOther
  <1>4. CASE InspectWorker(h)
    <2>1. \/ WorkerSettled(h) \/ End(h) \/ process' = process
          \/ \E c \in {"recovered", "reactivate"} : \E t : WithRecovery(h, c, t)
      BY <1>4 DEF InspectWorker
    <2>2. QED BY <1>2, <1>3, <2>1, StartingEnd, StartingKept
  <1>5. CASE RecoverySettled(h)
    BY <1>2, <1>5, StartingEnd DEF RecoverySettled
  <1>6. CASE PrepareWorker(h)
    <2>1. End(h) \/ \E c \in {"complete", "recovered", "replace", "send"} : Goto(h, c)
      BY <1>6 DEF PrepareWorker, AfterActivation
    <2>2. QED BY <2>1, StartingGoto, StartingEnd DEF Calls, Starting
  <1>7. CASE ReplaceWorker(h)
    <2>1. PICK q : q = [p EXCEPT !.pc = "send"]
      OBVIOUS
    <2>2. q.pc \notin Starting \cup {"remove"}
      BY <1>1, <2>1 DEF Processes, Starting
    <2>3. \/ process' = [process EXCEPT ![h] = q]
          \/ ReplaceContainer(h, p.ticket.generation, FreshWorker, q)
      BY <1>7, <2>1 DEF ReplaceWorker, StartPassive
    <2>4. QED BY <2>2, <2>3, StartingOther
  <1>8. CASE SendActivation(h)
    <2>1. End(h) \/ Goto(h, "await")
      BY <1>8 DEF SendActivation, Send
    <2>2. QED BY <2>1, StartingGoto, StartingEnd DEF Calls, Starting
  <1>9. QED BY <1>4, <1>5, <1>6, <1>7, <1>8

LEMMA StepStarts ==
    ASSUME Shapes, NEW h \in Hosts,
           \/ ReserveStep(h) \/ AwaitStep(h) \/ Effect(h) \/ ReleaseStep(h)
           \/ CompleteStep(h) \/ DecideClose(h) \/ FinishClose(h)
    PROVE  \A x \in Hosts : StartingCall(x, process'[x])
  <1> DEFINE p == process[h]
             Goal == \A x \in Hosts : StartingCall(x, process'[x])
  <1>1. p \in Processes
    BY DEF Shapes
  <1>2. ASSUME NEW rev, NEW step, Reserve(h, rev, step)
        PROVE  Goal
    <2>1. PICK q : q = [p EXCEPT !.pc = "effect", !.step = "none",
                                 !.ticket = TicketFor(step, FreshReservation)]
      OBVIOUS
    <2>2. q.pc \notin Starting \cup {"remove"}
      BY <1>1, <2>1 DEF Processes, Starting
    <2>3. process' = [process EXCEPT ![h] = q]
      BY <1>2, <2>1 DEF Reserve
    <2>4. QED BY <2>2, <2>3, StartingOther
  <1>3. CASE ReserveStep(h)
    <2>1. CASE StepsFinished(h)
      <3>1. p.command \in {"recover-again", "close", "closing"}
        BY <1>3 DEF ReserveStep, Shapes, ProcessShape
      <3>2. \E c \in {"worker", "close", "finish"} : Goto(h, c)
        BY <2>1, <3>1 DEF StepsFinished
      <3>3. QED BY <3>2, StartingGoto DEF Calls, Starting
    <2>2. CASE process' = [process EXCEPT ![h] =
                  [p EXCEPT !.pc = "waiting", !.step = NextStep, !.revision = revision]]
      <3>1. PICK q : q = [p EXCEPT !.pc = "waiting", !.step = NextStep, !.revision = revision]
        OBVIOUS
      <3>2. q.pc \notin Starting \cup {"remove"}
        BY <1>1, <3>1 DEF Processes, Starting
      <3>3. QED BY <2>2, <3>1, <3>2, StartingOther
    <2>3. QED BY <1>2, <1>3, <2>1, <2>2, StartingEnd DEF ReserveStep
  <1>4. CASE AwaitStep(h)
    BY <1>2, <1>4, StartingEnd DEF AwaitStep
  <1>5. CASE Effect(h)
    <2>1. PICK q : q = [p EXCEPT !.pc = "retire", !.target = p.ticket.generation]
      OBVIOUS
    <2>2. q.pc \notin Starting \cup {"remove"}
      BY <1>1, <2>1 DEF Processes, Starting
    <2>3. \/ End(h) \/ process' = [process EXCEPT ![h] = q]
          \/ \E c \in {"reactivate", "complete", "release", "await"} : Goto(h, c)
      BY <1>5, <2>1 DEF Effect, Send
    <2>4. QED BY <2>2, <2>3, StartingGoto, StartingEnd, StartingOther DEF Calls, Starting
  <1>6. CASE ReleaseStep(h) \/ FinishClose(h)
    BY <1>6, StartingEnd DEF ReleaseStep, FinishClose
  <1>7. CASE CompleteStep(h)
    <2>1. PICK q : q = [p EXCEPT !.pc = "step", !.ticket = NoTicket,
                            !.target = IF p.command = "closing" THEN @ ELSE NoGeneration]
      OBVIOUS
    <2>2. q.pc \notin Starting \cup {"remove"}
      BY <1>1, <2>1 DEF Processes, Starting
    <2>3. End(h) \/ process' = [process EXCEPT ![h] = q]
      BY <1>7, <2>1 DEF CompleteStep
    <2>4. QED BY <2>2, <2>3, StartingEnd, StartingOther
  <1>8. CASE DecideClose(h)
    <2>1. PICK q : q = [Idle EXCEPT !.pc = "step", !.command = "closing",
                                    !.revision = revision', !.target = rollback]
      OBVIOUS
    <2>2. q.pc \notin Starting \cup {"remove"}
      BY <2>1 DEF Idle, Starting
    <2>3. End(h) \/ process' = [process EXCEPT ![h] = q]
      BY <1>8, <2>1 DEF DecideClose
    <2>4. QED BY <2>2, <2>3, StartingEnd, StartingOther
  <1>9. QED BY <1>3, <1>4, <1>5, <1>6, <1>7, <1>8

LEMMA StartingCalls ==
    ASSUME Shapes, [DeploymentNext]_allVars
    PROVE  \A x \in Hosts : StartingCall(x, process'[x])
  <1> DEFINE Goal == \A x \in Hosts : StartingCall(x, process'[x])
  <1>1. ASSUME NEW h \in Hosts, WorkerStep(h)
        PROVE  Goal
    <2>1. ASSUME NEW x \in Hosts, process'[x].pc \in {"idle", "complete", "recovered"}
          PROVE  StartingCall(x, process'[x])
      BY <2>1 DEF StartingCall, Starting
    <2>2. CASE WorkerVerify(h)
      BY <2>1, <2>2, VerifyEffect DEF StartingCall
    <2>3. CASE WorkerAct(h)
      BY <2>1, <2>3, ActEffect DEF StartingCall, AfterActivation
    <2>4. QED BY <1>1, <2>2, <2>3 DEF WorkerStep
  <1>2. ASSUME NEW g \in Generations, LoseWorker(g)
        PROVE  Goal
    <2>1. Idle.pc \notin Starting \cup {"remove"}
      BY DEF Idle, Starting
    <2>2. QED BY <1>2, <2>1, LossEffect DEF Cut, StartingCall
  <1>3. ASSUME NEW h \in Hosts, Crash(h)
        PROVE  Goal
    BY <1>3, StartingEnd DEF Crash
  <1>4. ASSUME process' = process
        PROVE  Goal
    BY <1>4, StartingKept
  <1>5. CASE Environment
    BY <1>2, <1>3, <1>4, <1>5
    DEF Environment, ReservationExpires, Heartbeat, LapseFence, RecoveryExpires, WindowExpires,
        InventoryConverges, supervisorVars
  <1>6. ASSUME NEW h \in Hosts, Transition(h)
        PROVE  Goal
    BY <1>6, TransitionStarts, RecoveryStarts, StepStarts DEF Transition
  <1>7. QED
    BY <1>1, <1>4, <1>5, <1>6, OperatorStarts DEF DeploymentNext, allVars

(* A container disappears only by a loss, or when its generation is being   *)
(* retired (or restarted). *)
LEMMA ContainersStay ==
    ASSUME Shapes, SupervisorKind, RetirementsInOrder, FaultCount,
           NEW g \in Generations, worker[g].mode # "absent", faults' = 0,
           \A h \in Hosts : process[h].command # "restart"
    PROVE  worker'[g].mode # "absent" \/ retirement[g] # "none"
  <1> SUFFICES ASSUME worker'[g].mode = "absent"
               PROVE  retirement[g] # "none"
    OBVIOUS
  <1>1. ASSUME NEW h \in Hosts, NEW x \in Generations, Replaces(h, x)
        PROVE  retirement[g] # "none"
    <2>1. x = g /\ worker'[g] # FreshWorker
      BY <1>1, ReplacesEffect DEF FreshWorker
    <2>2. process[h].pc = "remove" /\ process[h].target = g
      BY <1>1, <2>1 DEF Replaces, ReplaceContainer, Shapes
    <2>3. QED BY <2>2 DEF RetirementsInOrder, DrainOver
  <1>2. ASSUME NEW h \in Hosts, WorkerAct(h)
        PROVE  FALSE
    <2>1. worker'[g] = IF g # wire[h].ticket.generation THEN worker[g]
                       ELSE IF wire[h].path = "/drain"
                       THEN [worker[g] EXCEPT !.mode = "drained"]
                       ELSE [mode |-> "active", token |-> wire[h].ticket.token]
      BY <1>2, ActEffect
    <2>2. [worker[g] EXCEPT !.mode = "drained"].mode = "drained"
      BY DEF Shapes, Containers
    <2>3. QED BY <2>1, <2>2
  <1>3. ASSUME NEW h \in Hosts, Moves(h) \/ Sends(h) \/ WorkerVerify(h)
        PROVE  FALSE
    BY <1>3, MovesEffect, SendsEffect, VerifyEffect
  <1>4. ASSUME NEW x \in Generations, Heartbeat(x)
        PROVE  FALSE
    <2>1. worker'[g] = worker[g] \/ worker'[g].mode = "passive"
      BY <1>4 DEF Heartbeat, Shapes, Containers
    <2>2. QED BY <2>1
  <1>5. ASSUME NEW x \in Generations, LoseWorker(x)
        PROVE  FALSE
    BY <1>5 DEF LoseWorker, Strike, FaultCount
  <1>6. QED BY <1>1, <1>2, <1>3, <1>4, <1>5 DEF SupervisorKind

(* What is active or retained changes only with the revision. *)
LEMMA PointersFollowRevision ==
    ASSUME TypeOK, [Next]_vars
    PROVE  /\ revision \in Nat /\ revision' \in {revision, revision + 1}
           /\ revision' = revision => active' = active /\ rollback' = rollback
  <1>1. revision \in Nat
    BY DEF TypeOK
  <1>2. AuthorityKept \/ \E r \in ReceiptType : PointerMoved(r) \/ RetirementAdvanced(r)
    BY AuthorityEffect
  <1>3. QED BY <1>1, <1>2 DEF AuthorityKept, PointerMoved, RetirementAdvanced

LEMMA CommitReadyStep ==
    ASSUME "restart" \notin Commands, SupInv, FaultCount, FaultCount', CommitReady,
           [DeploymentNext]_allVars
    PROVE  CommitReady'
  <1>1. /\ IInv /\ Shapes /\ RetirementsInOrder /\ SupervisorKind /\ Shapes'
        /\ faults' = 0 => faults = 0
        /\ [Next]_vars
    <2>1. IInv' /\ Shapes' /\ [Next]_vars
      BY SupStep, SupervisorsUseStore DEF SupInv, IInv
    <2>2. faults' \in {faults, faults + 1}
      BY FaultsStep
    <2>3. QED BY <2>1, <2>2, SupervisorKinds DEF SupInv, FaultCount
  <1>2. /\ TombstonesKept
        /\ revision \in Nat /\ revision' \in {revision, revision + 1}
        /\ revision' = revision => rollback' = rollback
    BY <1>1, TombstonesStay, PointersFollowRevision DEF IInv
  <1>3. SUFFICES ASSUME NEW x \in Hosts, NEW q, q = process'[x]
                 PROVE  /\ q.command # "restart"
                        /\ faults' = 0 /\ q.pc = "commit" =>
                              worker'[q.target].mode # "absent" \/ retirement'[q.target] # "none"
                        /\ q.command = "rollback" /\ q.pc \in Starting =>
                              /\ q.revision <= revision'
                              /\ q.revision = revision' => q.target = rollback'
    BY DEF CommitReady
  <1>4. /\ ProcessShape(q) /\ StartingCall(x, q)
        /\ process[x] \in Processes /\ ProcessShape(process[x])
    BY <1>1, <1>3, StartingCalls DEF Shapes
  <1>5. /\ process[x].command # "restart"
        /\ faults = 0 /\ process[x].pc = "commit" =>
              \/ worker[process[x].target].mode # "absent"
              \/ retirement[process[x].target] # "none"
        /\ process[x].command = "rollback" /\ process[x].pc \in Starting =>
              /\ process[x].revision <= revision
              /\ process[x].revision = revision => process[x].target = rollback
    BY DEF CommitReady
  <1>6. q.command # "restart"
    BY <1>4, <1>5 DEF ProcessShape, StartingCall, Begun, Continued, Starting
  <1>7. ASSUME faults' = 0, q.pc = "commit"
        PROVE  worker'[q.target].mode # "absent" \/ retirement'[q.target] # "none"
    <2>1. q.target \in Generations
      BY <1>4, <1>7 DEF ProcessShape, Starting
    <2>2. worker[q.target].mode # "absent" \/ retirement[q.target] # "none"
      BY <1>1, <1>4, <1>5, <1>6, <1>7 DEF StartingCall, Begun, Continued, Starting
    <2>3. QED BY <1>1, <1>2, <1>7, <2>1, <2>2, ContainersStay DEF CommitReady, TombstonesKept
  <1>8. ASSUME q.command = "rollback", q.pc \in Starting
        PROVE  q.revision <= revision' /\ (q.revision = revision' => q.target = rollback')
    <2>1. q.revision <= revision /\ (q.revision = revision => q.target = rollback)
      BY <1>2, <1>4, <1>5, <1>8 DEF StartingCall, Begun, Continued
    <2>2. q.revision \in Nat
      BY <1>4 DEF ProcessShape, Processes
    <2>3. QED BY <1>2, <2>1, <2>2
  <1>9. QED BY <1>6, <1>7, <1>8

-----------------------------------------------------------------------------
(* What executes is interrupted only in the cases named.                    *)

(* A promotion or a rollback that is still current starts a generation      *)
(* other than the active one. *)
StartsAside ==
    \A h \in Hosts :
        /\ process[h].command \in {"deploy", "deploy-quarantine", "rollback"}
        /\ process[h].pc \in Starting
        => /\ process[h].revision <= revision
           /\ process[h].revision = revision => process[h].target # active

LEMMA StartsAsideStep ==
    ASSUME SupInv, StartsAside, [DeploymentNext]_allVars
    PROVE  StartsAside'
  <1>1. /\ IInv /\ Shapes /\ Shapes' /\ [Next]_vars
    BY SupStep, SupervisorsUseStore DEF SupInv, IInv
  <1>2. /\ revision \in Nat /\ revision' \in {revision, revision + 1}
        /\ revision' = revision => active' = active
    BY <1>1, PointersFollowRevision DEF IInv
  <1>3. SUFFICES ASSUME NEW x \in Hosts, NEW q, q = process'[x],
                        q.command \in {"deploy", "deploy-quarantine", "rollback"},
                        q.pc \in Starting
                 PROVE  /\ q.revision <= revision'
                        /\ q.revision = revision' => q.target # active'
    BY DEF StartsAside
  <1>4. /\ ProcessShape(q) /\ StartingCall(x, q)
        /\ process[x] \in Processes
    BY <1>1, <1>3, StartingCalls DEF Shapes
  <1>5. rollback # active
    BY <1>1, StoreAssumption DEF IInv, TypeOK, TombstonesSpareLiveGenerations
  <1>6. q.revision <= revision /\ (q.revision = revision => q.target # active)
    <2>1. CASE q = process[x]
      BY <1>3, <2>1 DEF StartsAside
    <2>2. CASE Begun(x, q)
      BY <1>2, <1>3, <1>5, <2>2 DEF Begun
    <2>3. CASE Continued(x, q)
      BY <1>3, <2>3 DEF StartsAside, Continued
    <2>4. QED BY <1>3, <1>4, <2>1, <2>2, <2>3 DEF StartingCall
  <1>7. q.revision \in Nat
    BY <1>4 DEF ProcessShape, Processes
  <1>8. QED BY <1>2, <1>6, <1>7

(* One step, one kind at a time. *)
LEMMA InterruptionStep ==
    ASSUME SupInv, FaultCount, StartsAside, [DeploymentNext]_allVars,
           NEW g \in Generations, Interrupted(g)
    PROVE  \/ ~fence.live
           \/ Restarting(g)
           \/ \E h \in Hosts : \/ OvertakenStart(h, g) \/ Reactivates(h, g)
                              \/ Reboots(h, g) \/ LateActivation(h, g)
  <1> DEFINE Goal == \/ ~fence.live
                     \/ Restarting(g)
                     \/ \E h \in Hosts : \/ OvertakenStart(h, g) \/ Reactivates(h, g)
                                        \/ Reboots(h, g) \/ LateActivation(h, g)
  <1>1. /\ IInv /\ Shapes /\ OneAuthorisedWorker /\ RetirementsInOrder /\ DrainsInOrder
        /\ SupervisorKind
    <2>1. IInv'
      BY SupStep DEF SupInv
    <2>2. QED BY <2>1, SupervisorKinds DEF SupInv
  <1>2. /\ worker[g] = [mode |-> "active", token |-> fence.token] /\ g = active
        /\ worker'[g] # worker[g] /\ faults' = faults
    BY <1>1 DEF Interrupted, HealthyActive, OneAuthorisedWorker
  <1>3. ASSUME NEW h \in Hosts, NEW q, ReplaceContainer(h, g, FreshWorker, q),
               StartsAnew(h, g, q)
        PROVE  Goal
    <2>1. CASE process[h].pc = "start" /\ process[h].target = g
      <3>1. ProcessShape(process[h])
        BY <1>1 DEF Shapes
      <3>2. process[h].command \in {"deploy", "deploy-quarantine", "rollback", "restart"}
        BY <2>1, <3>1 DEF ProcessShape
      <3>3. process[h].command # "restart" => process[h].revision # revision
        BY <1>2, <2>1, <3>2 DEF StartsAside, Starting
      <3>4. QED BY <2>1, <3>3 DEF Restarting, OvertakenStart
    <2>2. CASE process[h].pc = "replace" /\ process[h].ticket.generation = g
      BY <2>2 DEF Reactivates
    <2>3. CASE process[h].pc = "idle" /\ q.command = "bootstrap" /\ g = InitialGeneration
      <3>1. process'[h] = q
        BY <1>1, <1>3 DEF ReplaceContainer, Shapes
      <3>2. QED BY <2>3, <3>1 DEF Reboots
    <2>4. QED BY <1>3, <2>1, <2>2, <2>3 DEF StartsAnew
  <1>4. ASSUME NEW h \in Hosts, process[h].pc = "remove", process[h].target = g
        PROVE  Goal
    BY <1>1, <1>2, <1>4 DEF RetirementsInOrder, DrainOver, Restarting
  <1>5. ASSUME NEW h \in Hosts, NEW x \in Generations, Replaces(h, x)
        PROVE  Goal
    <2>1. x = g
      BY <1>1, <1>2, <1>5, ReplacesEffect
    <2>2. QED BY <1>3, <1>4, <1>5, <2>1 DEF Replaces
  <1>6. ASSUME NEW h \in Hosts, WorkerAct(h)
        PROVE  Goal
    <2>1. /\ wire[h].verified
          /\ worker'[g] = IF g # wire[h].ticket.generation THEN worker[g]
                          ELSE IF wire[h].path = "/drain"
                          THEN [worker[g] EXCEPT !.mode = "drained"]
                          ELSE [mode |-> "active", token |-> wire[h].ticket.token]
      BY <1>1, <1>6, ActEffect
    <2>2. g = wire[h].ticket.generation
      BY <1>2, <2>1
    <2>3. wire[h].path # "/drain"
      BY <1>1, <1>2, <2>1, <2>2 DEF DrainsInOrder, VerifiedDrain, HealthyActive
    <2>4. wire[h].path = "/activate"
      BY <1>1, <2>1, <2>3 DEF Shapes, MessageShape, Messages, NoMessage
    <2>5. wire[h].ticket.token # fence.token
      BY <1>2, <2>1, <2>2, <2>3
    <2>6. QED BY <2>1, <2>2, <2>4, <2>5 DEF LateActivation
  <1>7. ASSUME NEW h \in Hosts, Moves(h) \/ Sends(h) \/ WorkerVerify(h)
        PROVE  FALSE
    BY <1>1, <1>2, <1>7, MovesEffect, SendsEffect, VerifyEffect
  <1>8. ASSUME NEW x \in Generations, Heartbeat(x)
        PROVE  Goal
    <2>1. x = g
      BY <1>1, <1>2, <1>8 DEF Heartbeat, Shapes
    <2>2. fence.generation = g
      BY <1>1, <1>2 DEF IInv, FenceFollowsPointer
    <2>3. QED BY <1>2, <1>8, <2>1, <2>2 DEF Heartbeat
  <1>9. ASSUME NEW x \in Generations, LoseWorker(x)
        PROVE  FALSE
    BY <1>2, <1>9 DEF LoseWorker, Strike, FaultCount
  <1>10. QED
    BY <1>1, <1>2, <1>5, <1>6, <1>7, <1>8, <1>9 DEF SupervisorKind

(* The worker that executes under the current token is interrupted only by  *)
(* the end of its lease, an activation verified under an earlier token, and *)
(* the starts named: in particular no promotion or rollback whose revision  *)
(* is current replaces it, and no retirement removes it. *)
THEOREM ExecutorYields == DeploymentSpec => ExecutorYieldsToStarts
  <1> DEFINE Yields ==
          \A g \in Generations :
              Interrupted(g) =>
                  \/ ~fence.live
                  \/ Restarting(g)
                  \/ \E h \in Hosts : \/ OvertakenStart(h, g) \/ Reactivates(h, g)
                                     \/ Reboots(h, g) \/ LateActivation(h, g)
  <1>1. DeploymentInit => StartsAside
    <2>1. Idle.command = "none"
      BY DEF Idle
    <2>2. QED BY <2>1 DEF DeploymentInit, StartsAside
  <1>2. SupInv /\ StartsAside /\ [DeploymentNext]_allVars => StartsAside'
    BY StartsAsideStep
  <1>3. SupInv /\ FaultCount /\ StartsAside /\ [DeploymentNext]_allVars => Yields
    BY InterruptionStep
  <1>4. QED
    BY <1>1, <1>2, <1>3, SupervisorInvariant, FaultsAreCounted, PTL
    DEF DeploymentSpec, ExecutorYieldsToStarts

-----------------------------------------------------------------------------
(* The pointer moves only in the two commits. *)
PointerCommit(h) ==
    \/ CommitDeploy(h) /\ active' = process[h].target /\ retirement[process[h].target] = "none"
    \/ CommitRollback(h) /\ active' = rollback /\ rollback # NoGeneration
                         /\ process[h].revision = revision /\ window.state = "open"

LEMMA PointerCommits ==
    ASSUME [DeploymentNext]_allVars, active' # active
    PROVE  \E h \in Hosts : PointerCommit(h)
  <1>1. ASSUME NEW h \in Hosts, Operator(h)
        PROVE  FALSE
    BY <1>1 DEF Operator, Bootstrap, BeginRecover, BeginDeploy, BeginRestart, BeginRollback,
       BeginClose, Issue, vars
  <1>2. ASSUME NEW h \in Hosts, WorkerStep(h)
        PROVE  FALSE
    BY <1>2 DEF WorkerStep, WorkerVerify, WorkerAct, vars
  <1>3. CASE Environment
    BY <1>3
    DEF Environment, Crash, ReservationExpires, LoseWorker, Heartbeat, LapseFence,
        RecoveryExpires, WindowExpires, InventoryConverges, PassReservationDeadline,
        PassWindowDeadline, PassFenceLease, PassRecoveryDeadline, ConvergeInventory, vars
  <1>4. ASSUME NEW h \in Hosts, Transition(h)
        PROVE  PointerCommit(h)
    <2>1. CASE CommitDeploy(h)
      BY <2>1
      DEF PointerCommit, CommitDeploy, Promote, MayPromote, NotRetired, CommitTransition, vars
    <2>2. CASE CommitRollback(h)
      BY <2>2
      DEF PointerCommit, CommitRollback, Rollback, MayRollback, WindowOpenAt,
          CommitTransition, vars
    <2>3. CASE \/ Start(h) \/ Readiness(h) \/ VerifyRetirement(h) \/ RemoveGeneration(h)
               \/ NextPending(h) \/ PrepareWorker(h) \/ ReplaceWorker(h)
               \/ SendActivation(h) \/ Effect(h)
      BY <2>3 DEF Start, Readiness, VerifyRetirement, RemoveGeneration, NextPending,
         PrepareWorker, ReplaceWorker, SendActivation, Effect, vars
    <2>4. CASE RejectPromotion(h) \/ CompleteTombstone(h)
      BY <2>4 DEF RejectPromotion, CompleteTombstone, ReserveGenerationRetirement,
         CompleteGenerationRetirement, vars
    <2>5. CASE InspectWorker(h) \/ RecoverySettled(h)
      BY <2>5 DEF InspectWorker, RecoverySettled, ExpireWorkerRecoveryActivation,
         ReserveWorkerRecoveryActivation, CompleteWorkerRecoveryActivation, vars
    <2>6. CASE ReserveStep(h) \/ AwaitStep(h) \/ ReleaseStep(h) \/ CompleteStep(h)
      BY <2>6 DEF ReserveStep, AwaitStep, ReleaseStep, CompleteStep, Reserve,
         ReserveTransitionStep, ReleaseTransitionStep, CompleteTransitionStep, vars
    <2>7. CASE DecideClose(h) \/ FinishClose(h)
      BY <2>7 DEF DecideClose, FinishClose, ReserveRollbackRetirement, CloseRollback, vars
    <2>8. QED BY <1>4, <2>1, <2>2, <2>3, <2>4, <2>5, <2>6, <2>7 DEF Transition
  <1>5. QED BY <1>1, <1>2, <1>3, <1>4 DEF DeploymentNext, allVars, vars

(* The pointer never moves to a generation whose containers a supervisor    *)
(* has already removed; what a retirement removes and what is drained is    *)
(* not live; and what executes is interrupted only in the cases named.      *)
(* (The boundary's restart command may remove the retained containers       *)
(* between a rollback's readiness check and its commit, so the statement is *)
(* about deployments that are not restarted by hand.) *)
THEOREM OnlyTheRetiredAreDestroyed ==
    ASSUME "restart" \notin Commands
    PROVE  DeploymentSpec => DestroysTheRetired
  <1> DEFINE Exists == active' # active /\ faults = 0 => worker[active'].mode # "absent"
  <1>1. DeploymentInit => CommitReady
    <2>1. Idle.command = "none" /\ Idle.pc = "idle"
      BY DEF Idle
    <2>2. QED BY <2>1 DEF DeploymentInit, CommitReady, Starting
  <1>2. DeploymentSpec => []CommitReady
    <2>1. SupInv /\ FaultCount /\ FaultCount' /\ CommitReady /\ [DeploymentNext]_allVars
              => CommitReady'
      BY CommitReadyStep
    <2>2. QED
      BY <1>1, <2>1, SupervisorInvariant, FaultsAreCounted, PTL DEF DeploymentSpec
  <1>3. ASSUME SupInv, CommitReady, [DeploymentNext]_allVars
        PROVE  Exists
    <2>1. SUFFICES ASSUME active' # active, faults = 0
                   PROVE  worker[active'].mode # "absent"
      OBVIOUS
    <2>2. \E h \in Hosts : PointerCommit(h)
      BY <1>3, <2>1, PointerCommits
    <2>3. ASSUME NEW h \in Hosts, CommitDeploy(h), active' = process[h].target,
                 retirement[process[h].target] = "none"
          PROVE  worker[active'].mode # "absent"
      BY <2>1, <1>3, <2>3 DEF CommitDeploy, CommitReady
    <2>4. ASSUME NEW h \in Hosts, CommitRollback(h), active' = rollback,
                 rollback # NoGeneration, process[h].revision = revision,
                 window.state = "open"
          PROVE  worker[active'].mode # "absent"
      <3>1. process[h].pc = "commit" /\ process[h].command = "rollback"
        BY <2>4 DEF CommitRollback
      <3>2. process[h].target = rollback
        BY <1>3, <2>4, <3>1 DEF CommitReady, Starting
      <3>3. retirement[rollback] = "none"
        BY <1>3, <2>4, StoreAssumption DEF SupInv, IInv, TombstonesSpareLiveGenerations, TypeOK
      <3>4. QED BY <1>3, <2>1, <2>4, <3>1, <3>2, <3>3 DEF CommitReady
    <2>5. QED BY <2>2, <2>3, <2>4 DEF PointerCommit
  <1>4. DeploymentSpec => CommittedGenerationExists
    BY <1>2, <1>3, SupervisorInvariant, PTL DEF DeploymentSpec, CommittedGenerationExists
  <1>5. QED
    BY <1>4, RetirementsSpareTheLive, DrainsSpareTheExecutor, TheRetiredAreGone, ExecutorYields,
       PTL
    DEF DestroysTheRetired, LiveGenerationsSpared
=============================================================================
