------------------------- MODULE DeploymentSupervisor -------------------------
(***************************************************************************)
(* DeploymentSupervisor and its boundaries: supervisor processes drive a   *)
(* static blue/green deployment through the store's transactions, and act  *)
(* on release workers (one per generation) between them.                   *)
(*                                                                         *)
(* A command is a sequence of awaited calls.  `process[h].pc` names the    *)
(* call a process makes next, each store transaction is one step, and an   *)
(* external effect is split where the code awaits: the authority is read,  *)
(* the command travels to the worker, the worker reads the authority       *)
(* again, and only then acts.  Commands of several processes interleave;   *)
(* a process may crash between any two calls and the command it sent is    *)
(* still delivered.                                                        *)
(*                                                                         *)
(* Two successive reads of the store are one step when a later transaction *)
(* checks again what they returned: a stale read only makes it fail.  What *)
(* start() finds out about a container, its removal and the run of the new *)
(* one are one step too.                                                   *)
(***************************************************************************)
EXTENDS StaticDeploymentStore

CONSTANTS
    ReleaseGeneration, \* the generation whose restart is always authorised
    Commands,      \* operator commands offered besides "bootstrap" and "recover"
    MaxCommands,   \* how many of them are issued
    Faults,        \* the faults that may strike
    MaxFaults      \* how many of them do

ASSUME SupervisorAssumption ==
    /\ ReleaseGeneration \in Generations
    /\ Commands \subseteq {"deploy", "deploy-quarantine", "rollback",
                              "close", "restart"}
    /\ Faults \subseteq {"crash", "worker-lost", "fence-lapse", "slow",
                             "not-ready", "window-ends"}
    /\ MaxCommands \in Nat
    /\ MaxFaults \in Nat

VARIABLES
    process,    \* what each supervisor process is doing
    wire,       \* the worker command a process has sent, until it is answered
    worker,     \* the release worker container of each generation
    commands,   \* operator commands issued
    faults      \* faults suffered

supervisorVars == <<process, wire, worker, commands, faults>>
allVars == <<vars, process, wire, worker, commands, faults>>

-----------------------------------------------------------------------------
NoTicket == [generation |-> NoGeneration]

Idle == [pc |-> "idle", command |-> "none", revision |-> 0, token |-> 0,
         base |-> NoGeneration, target |-> NoGeneration, step |-> "none",
         ticket |-> NoTicket]

NoMessage == [path |-> "none", verified |-> FALSE, ticket |-> NoTicket]

Absent == [mode |-> "absent", token |-> 0]
FreshWorker == [mode |-> "passive", token |-> 0]

DeploymentInit ==
    /\ Init
    /\ process = [h \in Hosts |-> Idle]
    /\ wire = [h \in Hosts |-> NoMessage]
    /\ worker = [g \in Generations |-> Absent]
    /\ commands = 0
    /\ faults = 0

(* The process moves on to its next call, or its command ends (returns or  *)
(* throws). *)
Goto(h, pc) == process' = [process EXCEPT ![h].pc = pc]
End(h) == process' = [process EXCEPT ![h] = Idle]

(* hasExactWorker(probe, "active", token) and hasExactWorker(probe,        *)
(* "passive"): a demoted worker still reports its token and is neither.    *)
HealthyActive(g, token) == worker[g] = [mode |-> "active", token |-> token]
FreshPassive(g) == worker[g] = FreshWorker

(* Replacing or removing a container cuts off the commands on their way to  *)
(* its worker: the process that waits for the answer gets an error.         *)
CutOff(g) == {h \in Hosts : wire[h].ticket.generation = g}

ReplaceContainer(h, g, new, next) ==
    /\ worker' = [worker EXCEPT ![g] = new]
    /\ wire' = [x \in Hosts |-> IF x \in CutOff(g) THEN NoMessage ELSE wire[x]]
    /\ process' = [x \in Hosts |->
                      IF x = h THEN next
                      ELSE IF x \in CutOff(g) /\ process[x].pc = "await" THEN Idle
                      ELSE process[x]]

(* DockerGenerationHost.start(): anything but a fresh passive worker is     *)
(* removed and run anew.                                                    *)
StartPassive(h, g, next) ==
    IF FreshPassive(g)
    THEN process' = [process EXCEPT ![h] = next] /\ UNCHANGED <<wire, worker>>
    ELSE ReplaceContainer(h, g, FreshWorker, next)

(* assertWorkerRecoveryActivation(): the live row, unchanged authority and  *)
(* a live execution lease.                                                  *)
RecoveryAuthorised(ticket) ==
    /\ LiveRecovery
    /\ RecoveryMatches(recovery)
    /\ recovery.token = ticket.token
    /\ fence.live

RecoveryTicket(r) ==
    [generation |-> r.generation, revision |-> r.revision, token |-> r.token,
     promotionRevision |-> r.promotionRevision]

IsTransitionTicket(ticket) == "step" \in DOMAIN ticket

(* renewWorkerFence(): only the exact holder of an unexpired lease renews. *)
MayRenewFence(ticket) ==
    /\ fence.generation = ticket.generation
    /\ fence.token = ticket.token
    /\ fence.promotionRevision = ticket.promotionRevision
    /\ fence.live
    /\ IsTransitionTicket(ticket) => fence.owner = ticket.owner

-----------------------------------------------------------------------------
(* Commands begin.  A process takes its next command when its last message  *)
(* is answered.                                                             *)
Begin(h) ==
    /\ process[h].pc = "idle"
    /\ wire[h] = NoMessage

(* bootstrap: start and check the initial generation, then recover() with   *)
(* initialActivation.  initialize() accepts a repetition while the          *)
(* deployment still has its first authority.                                *)
Bootstrap(h) ==
    /\ Begin(h)
    /\ active = InitialGeneration
    /\ fence.generation = InitialGeneration
    /\ fence.token = InitialToken
    /\ StartPassive(h, InitialGeneration,
                    [Idle EXCEPT !.pc = "readiness", !.command = "bootstrap",
                                 !.target = InitialGeneration])
    /\ UNCHANGED <<vars, commands, faults>>

(* Every start of a supervisor recovers, whatever has been activated yet.   *)
BeginRecover(h) ==
    /\ Begin(h)
    /\ process' = [process EXCEPT ![h] = [Idle EXCEPT !.pc = "pending", !.command = "recover"]]
    /\ UNCHANGED <<vars, wire, worker, commands, faults>>

Issue(h, command) ==
    /\ Begin(h)
    /\ command \in Commands
    /\ commands < MaxCommands
    /\ commands' = commands + 1
    /\ UNCHANGED <<vars, wire, worker, faults>>

(* deploy() up to the passive start: state, rollback window, tombstone and  *)
(* fence are read; a target with a tombstone is refused.                    *)
BeginDeploy(h, target) ==
    \E command \in {"deploy", "deploy-quarantine"} :
        /\ Issue(h, command)
        /\ target # active
        /\ NotRetired(target)
        /\ process' = [process EXCEPT ![h] =
                          [Idle EXCEPT !.pc = "start", !.command = command,
                                       !.revision = revision, !.token = fence.token,
                                       !.base = active, !.target = target]]

(* rollback() up to the passive start of the retained generation. *)
BeginRollback(h) ==
    /\ Issue(h, "rollback")
    /\ rollback # NoGeneration
    /\ process' = [process EXCEPT ![h] =
                      [Idle EXCEPT !.pc = "start", !.command = "rollback",
                                   !.revision = revision, !.token = fence.token,
                                   !.target = rollback]]

BeginClose(h) ==
    /\ Issue(h, "close")
    /\ ServesActive
    /\ process' = [process EXCEPT ![h] = [Idle EXCEPT !.pc = "step", !.command = "close"]]

(* The boundary's restart command replaces the containers of a generation   *)
(* the deployment uses, or those of the release whatever it is used for; a  *)
(* stale expected revision is rejected.                                     *)
BeginRestart(h, g) ==
    /\ Issue(h, "restart")
    /\ g \in {active, rollback, ReleaseGeneration}
    /\ process' = [process EXCEPT ![h] =
                      [Idle EXCEPT !.pc = "remove", !.command = "restart", !.target = g]]

-----------------------------------------------------------------------------
(* deploy() and rollback(): start, readiness, commit, clean a rejection.    *)

IsDeploy(h) == process[h].command \in {"deploy", "deploy-quarantine"}

(* cleanRejectedPromotion() follows a failed deploy; rollback() only throws. *)
Reject(h) == IF IsDeploy(h) THEN Goto(h, "reject") ELSE End(h)

Start(h) ==
    /\ process[h].pc = "start"
    /\ StartPassive(h, process[h].target, [process[h] EXCEPT !.pc = "readiness"])
    /\ UNCHANGED <<vars, commands, faults>>

(* readiness() requires the passive worker; "not-ready" is every other way  *)
(* to fail it.                                                              *)
Ready(h) ==
    CASE process[h].command = "restart" -> End(h)
      [] process[h].command = "bootstrap" ->
             process' = [process EXCEPT ![h] =
                            [Idle EXCEPT !.pc = "pending", !.command = "bootstrap"]]
      [] OTHER -> Goto(h, "commit")

Readiness(h) ==
    /\ process[h].pc = "readiness"
    /\ \/ worker[process[h].target].mode = "passive" /\ Ready(h) /\ faults' = faults
       \/ worker[process[h].target].mode # "passive" /\ Reject(h) /\ faults' = faults
       \/ /\ "not-ready" \in Faults
          /\ faults < MaxFaults
          /\ faults' = faults + 1
          /\ Reject(h)
    /\ UNCHANGED <<vars, wire, worker, commands>>

CommitDeploy(h) ==
    LET p == process[h]
        quarantine == p.command = "deploy-quarantine"
    IN  /\ p.pc = "commit"
        /\ IsDeploy(h)
        /\ IF MayPromote(p.revision, p.token, p.base, p.target, quarantine)
           THEN Promote(p.revision, p.token, p.base, p.target, quarantine) /\ End(h)
           ELSE Reject(h) /\ UNCHANGED vars
        /\ UNCHANGED <<wire, worker, commands, faults>>

CommitRollback(h) ==
    LET p == process[h]
    IN  /\ p.pc = "commit"
        /\ p.command = "rollback"
        /\ IF MayRollback(h, p.revision, p.token)
           THEN Rollback(h, p.revision, p.token)
           ELSE UNCHANGED vars
        /\ End(h)
        /\ UNCHANGED <<wire, worker, commands, faults>>

(* retireRejectedPromotion(): a generation the deployment needs is left     *)
(* alone, any other gets its tombstone before it is destroyed.              *)
RejectPromotion(h) ==
    LET g == process[h].target
    IN  /\ process[h].pc = "reject"
        /\ IF Protected(g)
           THEN End(h) /\ UNCHANGED vars
           ELSE /\ Goto(h, "retire")
                /\ IF retirement[g] = "none" THEN ReserveGenerationRetirement(g)
                                             ELSE UNCHANGED vars
        /\ UNCHANGED <<wire, worker, commands, faults>>

-----------------------------------------------------------------------------
(* DockerGenerationHost.retire(), for a rejected promotion, a pending       *)
(* tombstone of recover(), or the retire-retained step (which has a ticket).*)

(* assertRetirementReservation() *)
RetirementAuthorised(g, ticket) ==
    /\ retirement[g] # "none"
    /\ active # g
    /\ rollback = g =>
           /\ IsTransitionTicket(ticket)
           /\ window.state = "retirement-reserved"
           /\ RetiringUnder("retire-rollback", g)
           /\ checkpoint.reservationId = ticket.reservationId

VerifyRetirement(h) ==
    LET p == process[h]
    IN  /\ p.pc = "retire"
        /\ IF /\ IsTransitionTicket(p.ticket) => TicketAuthorised(h, p.ticket)
              /\ RetirementAuthorised(p.target, p.ticket)
           THEN Goto(h, "remove")
           ELSE End(h)
        /\ UNCHANGED <<vars, wire, worker, commands, faults>>

(* restart() removes a generation to start it again. *)
RemoveGeneration(h) ==
    LET next == IF process[h].command = "restart" THEN "start" ELSE "tombstone"
    IN  /\ process[h].pc = "remove"
        /\ ReplaceContainer(h, process[h].target, Absent, [process[h] EXCEPT !.pc = next])
        /\ UNCHANGED <<vars, commands, faults>>

CompleteTombstone(h) ==
    LET p == process[h]
    IN  /\ p.pc = "tombstone"
        /\ IF ~MayCompleteRetirement(p.target)
           THEN End(h) /\ UNCHANGED vars
           ELSE /\ CompleteGenerationRetirement(p.target)
                /\ CASE IsTransitionTicket(p.ticket) -> Goto(h, "complete")
                     [] IsDeploy(h) -> End(h)
                     [] OTHER -> process' = [process EXCEPT ![h] =
                                    [p EXCEPT !.pc = "pending", !.target = NoGeneration]]
        /\ UNCHANGED <<wire, worker, commands, faults>>

-----------------------------------------------------------------------------
(* recover(): finish pending tombstones, restore the worker, finish the     *)
(* committed transition, restore the worker again.                          *)

NextPending(h) ==
    /\ process[h].pc = "pending"
    /\ \/ \E g \in PendingRetirements :
              process' = [process EXCEPT ![h] = [@ EXCEPT !.pc = "retire", !.target = g]]
       \/ PendingRetirements = {} /\ ServesActive /\ Goto(h, "worker")
       \/ PendingRetirements = {} /\ ~ServesActive /\ End(h)
    /\ UNCHANGED <<vars, wire, worker, commands, faults>>

(* recoverActiveWorkerIfSafe() is followed by the steps the first time and  *)
(* by the end of the command the second.                                    *)
EndsWithWorker(h) == End(h)   \* mutant: recover() returns once the worker is

WorkerSettled(h) ==
    IF process[h].command = "recover-again"
    THEN End(h)
    ELSE process' = [process EXCEPT ![h] =
                        [Idle EXCEPT !.pc = "step", !.command = "recover-again"]]

WithRecovery(h, pc, ticket) ==
    process' = [process EXCEPT ![h].pc = pc, ![h].ticket = ticket]

InspectWorker(h) ==
    LET initial == process[h].command = "bootstrap"
        healthy == HealthyActive(active, fence.token) /\ fence.live
    IN  /\ process[h].pc = "worker"
        /\ IF ~RecoveryAllowed
           THEN WorkerSettled(h) /\ UNCHANGED vars
           ELSE IF LiveRecovery /\ fence.live
           THEN /\ WithRecovery(h, IF healthy THEN "recovered" ELSE "reactivate",
                                RecoveryTicket(recovery))
                /\ UNCHANGED vars
           ELSE IF recovery.state = "reserved"
           THEN ExpireWorkerRecoveryActivation /\ process' = process
           ELSE IF healthy
           THEN WorkerSettled(h) /\ UNCHANGED vars
           ELSE IF MayReserveRecovery(revision, fence.token, fence.promotionRevision,
                                      active, initial)
           THEN /\ ReserveWorkerRecoveryActivation(revision, fence.token,
                       fence.promotionRevision, active, initial)
                /\ WithRecovery(h, "reactivate", RecoveryTicket(recovery'))
           ELSE End(h) /\ UNCHANGED vars
        /\ UNCHANGED <<wire, worker, commands, faults>>

(* completeWorkerRecoveryActivation(): repeating it after it was completed  *)
(* returns; any other failure throws.                                       *)
RecoverySettled(h) ==
    /\ process[h].pc = "recovered"
    /\ IF RecoveryAuthorised(process[h].ticket)
       THEN CompleteWorkerRecoveryActivation(process[h].ticket.token) /\ WorkerSettled(h)
       ELSE /\ IF recovery.state = "completed" /\ recovery.token = process[h].ticket.token
               THEN WorkerSettled(h) ELSE End(h)
            /\ UNCHANGED vars
    /\ UNCHANGED <<wire, worker, commands, faults>>

-----------------------------------------------------------------------------
(* Activating a worker: activateWorker() on a transition ticket,            *)
(* recoverActiveWorker() on a recovery ticket.                              *)

Authorised(h, ticket) ==
    IF IsTransitionTicket(ticket) THEN TicketAuthorised(h, ticket)
                                  ELSE RecoveryAuthorised(ticket)

(* What follows the activation the ticket stands for. *)
AfterActivation(ticket) == IF IsTransitionTicket(ticket) THEN "complete" ELSE "recovered"

(* An already active worker needs nothing; one that is not fresh and        *)
(* passive is to be replaced.                                               *)
PrepareWorker(h) ==
    LET p == process[h]
        g == p.ticket.generation
    IN  /\ p.pc = "reactivate"
        /\ IF ~Authorised(h, p.ticket) THEN End(h)
           ELSE IF HealthyActive(g, p.ticket.token) THEN Goto(h, AfterActivation(p.ticket))
           ELSE IF FreshPassive(g) THEN Goto(h, "send")
           ELSE Goto(h, "replace")
        /\ UNCHANGED <<vars, wire, worker, commands, faults>>

(* The authority was read before; by now the worker may be another's.       *)
ReplaceWorker(h) ==
    LET p == process[h]
    IN  /\ p.pc = "replace"
        /\ StartPassive(h, p.ticket.generation, [p EXCEPT !.pc = "send"])
        /\ UNCHANGED <<vars, commands, faults>>

Send(h, path) ==
    /\ wire' = [wire EXCEPT ![h] = [path |-> path, verified |-> FALSE,
                                    ticket |-> process[h].ticket]]
    /\ Goto(h, "await")

SendActivation(h) ==
    LET p == process[h]
    IN  /\ p.pc = "send"
        /\ IF FreshPassive(p.ticket.generation) /\ Authorised(h, p.ticket)
           THEN Send(h, "/activate")
           ELSE End(h) /\ UNCHANGED wire
        /\ UNCHANGED <<vars, worker, commands, faults>>

-----------------------------------------------------------------------------
(* finishPostCommit(): the steps the committed transition still owes.       *)

(* A fresh crypto.randomUUID(): no checkpoint, process or message holds it. *)
(* (ReservationIds has to be large enough that there is one.)               *)
HeldReservations ==
    {checkpoint.reservationId} \cup
    {t.reservationId : t \in {u \in {process[h].ticket : h \in Hosts} \cup
                                    {wire[h].ticket : h \in Hosts} : IsTransitionTicket(u)}}

FreshReservation == CHOOSE id \in ReservationIds : id \notin HeldReservations

(* Where the command continues once no step is owed. *)
StepsFinished(h) ==
    CASE process[h].command = "recover-again" -> Goto(h, "worker")
      [] process[h].command = "close" -> Goto(h, "close")
      [] process[h].command = "closing" -> Goto(h, "finish")

(* finishPostCommit() reads the step owed and reserves it.  While someone    *)
(* else's reservation of a step is unexpired it asks again for the same one *)
(* and throws when that was completed meanwhile; any other rejection is     *)
(* thrown at once.                                                          *)
Reserve(h, rev, step) ==
    LET id == FreshReservation
    IN  /\ id \in ReservationIds \ HeldReservations
        /\ MayReserveTransitionStep(h, rev, step, id)
        /\ ReserveTransitionStep(h, rev, step, id)
        /\ process' = [process EXCEPT ![h].pc = "effect", ![h].step = "none",
                                      ![h].ticket = TicketFor(step, id)]

Blocked(h) == checkpoint.reservedStep # "none" /\ h \in checkpoint.liveAt

ReserveStep(h) ==
    /\ process[h].pc = "step"
    /\ \/ ~HasNextStep /\ StepsFinished(h) /\ UNCHANGED vars
       \/ HasNextStep /\ Reserve(h, revision, NextStep)
       \/ /\ HasNextStep
          /\ Blocked(h)
          /\ process' = [process EXCEPT ![h].pc = "waiting", ![h].step = NextStep,
                                        ![h].revision = revision]
          /\ UNCHANGED vars
       \/ /\ HasNextStep
          /\ LiveRecovery
          /\ End(h) /\ UNCHANGED vars
    /\ UNCHANGED <<wire, worker, commands, faults>>

AwaitStep(h) ==
    LET p == process[h]
    IN  /\ p.pc = "waiting"
        /\ ~Blocked(h)
        /\ \/ Reserve(h, p.revision, p.step)
           \/ /\ ~MayReserveTransitionStep(h, p.revision, p.step, FreshReservation)
              /\ End(h) /\ UNCHANGED vars
        /\ UNCHANGED <<wire, worker, commands, faults>>

Effect(h) ==
    LET p == process[h]
        step == p.ticket.step
    IN  /\ p.pc = "effect"
        /\ CASE step = "activate-worker" -> Goto(h, "reactivate") /\ UNCHANGED wire
             [] step = "converge-gateway" ->
                    /\ IF ~TicketAuthorised(h, p.ticket) THEN End(h)
                       ELSE IF ServingGeneration = p.ticket.generation THEN Goto(h, "complete")
                       ELSE Goto(h, "release")
                    /\ UNCHANGED wire
             [] step = "reconnect-realtime" ->
                    /\ IF TicketAuthorised(h, p.ticket) THEN Goto(h, "complete") ELSE End(h)
                    /\ UNCHANGED wire
             [] step = "retire-retained" ->
                    /\ IF retirement[p.ticket.generation] = "none" THEN End(h)
                       ELSE process' = [process EXCEPT ![h] =
                                [p EXCEPT !.pc = "retire", !.target = p.ticket.generation]]
                    /\ UNCHANGED wire
             [] OTHER ->
                    IF worker[p.ticket.generation].mode = "absent"
                    THEN End(h) /\ UNCHANGED wire
                    ELSE Send(h, "/drain")
        /\ UNCHANGED <<vars, worker, commands, faults>>

(* Only an effect that was provably not dispatched gives its claim back. *)
ReleaseStep(h) ==
    /\ process[h].pc = "release"
    /\ IF TicketMatches(h, process[h].ticket)
       THEN ReleaseTransitionStep(h, process[h].ticket)
       ELSE UNCHANGED vars
    /\ End(h)
    /\ UNCHANGED <<wire, worker, commands, faults>>

CompleteStep(h) ==
    LET p == process[h]
    IN  /\ p.pc = "complete"
        /\ IF MayCompleteTransitionStep(h, p.ticket)
           THEN /\ CompleteTransitionStep(h, p.ticket)
                /\ process' = [process EXCEPT ![h] =
                       [p EXCEPT !.pc = "step", !.ticket = NoTicket,
                                 !.target = IF p.command = "closing" THEN @ ELSE NoGeneration]]
           ELSE End(h) /\ UNCHANGED vars
        /\ UNCHANGED <<wire, worker, commands, faults>>

-----------------------------------------------------------------------------
(* closeRollback(), after the steps of the promotion it closes. *)

DecideClose(h) ==
    /\ process[h].pc = "close"
    /\ CASE window.state = "retirement-reserved" -> UNCHANGED vars
         [] MayReserveRollbackRetirement(revision, rollback) ->
                ReserveRollbackRetirement(revision, rollback)
         [] OTHER -> UNCHANGED vars
    /\ IF window'.state = "retirement-reserved"
       THEN process' = [process EXCEPT ![h] =
                [Idle EXCEPT !.pc = "step", !.command = "closing", !.revision = revision',
                             !.target = rollback]]
       ELSE End(h)
    /\ UNCHANGED <<wire, worker, commands, faults>>

WritesWindow(h) ==            \* mutant: the window is written past the store
    /\ process[h].pc = "finish"
    /\ window' = [window EXCEPT !.state = "closed", !.cleanup = "eligible"]
    /\ End(h)
    /\ UNCHANGED <<revision, active, rollback, checkpoint, fence, retirement, recovery,
                   outbox, converged, wire, worker, commands, faults>>

FinishClose(h) ==
    LET p == process[h]
    IN  /\ p.pc = "finish"
        /\ IF MayCloseRollback(p.revision, p.target)
           THEN CloseRollback(p.revision, p.target)
           ELSE UNCHANGED vars
        /\ End(h)
        /\ UNCHANGED <<wire, worker, commands, faults>>

-----------------------------------------------------------------------------
(* The release worker.  Its handler awaits the authority (and renews its    *)
(* lease) and then switches mode; the clock it judges reservations by is    *)
(* one of the hosts'.                                                       *)

Accepts(message, host) ==
    /\ Authorised(host, message.ticket)
    /\ message.path = "/activate" => MayRenewFence(message.ticket)

Answer(h, pc) ==
    process' = [process EXCEPT ![h] =
                   IF @.pc # "await" THEN @ ELSE IF pc = "idle" THEN Idle
                   ELSE [@ EXCEPT !.pc = pc]]

WorkerVerify(h) ==
    /\ wire[h].path # "none"
    /\ ~wire[h].verified
    /\ \/ /\ \E clock \in Hosts : Accepts(wire[h], clock)
          /\ wire' = [wire EXCEPT ![h].verified = TRUE]
          /\ process' = process
       \/ /\ \E clock \in Hosts : ~Accepts(wire[h], clock)
          /\ wire' = [wire EXCEPT ![h] = NoMessage]
          /\ Answer(h, "idle")
    /\ UNCHANGED <<vars, worker, commands, faults>>

WorkerAct(h) ==
    LET ticket == wire[h].ticket
    IN  /\ wire[h].verified
        /\ worker' = [worker EXCEPT ![ticket.generation] =
                IF wire[h].path = "/drain" THEN [@ EXCEPT !.mode = "drained"]
                ELSE [mode |-> "active", token |-> ticket.token]]
        /\ wire' = [wire EXCEPT ![h] = NoMessage]
        /\ Answer(h, AfterActivation(ticket))
        /\ UNCHANGED <<vars, commands, faults>>

(* The heartbeat renews the lease of the active worker; a rejected renewal  *)
(* demotes it.                                                              *)
Heartbeat(g) ==
    /\ worker[g].mode = "active"
    /\ ~(fence.generation = g /\ fence.token = worker[g].token /\ fence.live)
    /\ worker' = [worker EXCEPT ![g].mode = "passive"]
    /\ UNCHANGED <<vars, process, wire, commands, faults>>

-----------------------------------------------------------------------------
(* Faults and time. *)

Strike(fault) ==
    /\ fault \in Faults
    /\ faults < MaxFaults
    /\ faults' = faults + 1

Crash(h) ==
    /\ Strike("crash")
    /\ process[h] # Idle
    /\ End(h)
    /\ UNCHANGED <<vars, wire, worker, commands>>

LoseWorker(g) ==
    /\ Strike("worker-lost")
    /\ worker[g] # Absent
    /\ worker' = [worker EXCEPT ![g] = Absent]
    /\ wire' = [x \in Hosts |-> IF x \in CutOff(g) THEN NoMessage ELSE wire[x]]
    /\ process' = [x \in Hosts |->
                      IF x \in CutOff(g) /\ process[x].pc = "await" THEN Idle ELSE process[x]]
    /\ UNCHANGED <<vars, commands>>

(* The execution lease runs out: five minutes after a promotion that has    *)
(* not activated its worker, or when heartbeats come late.                  *)
LapseFence ==
    /\ Strike("fence-lapse")
    /\ PassFenceLease
    /\ UNCHANGED <<process, wire, worker, commands>>

(* A reservation or recovery lease runs out by itself once nobody works     *)
(* under it; while somebody does, that is a fault ("slow").                 *)
Holds(held) == \E h \in Hosts : process[h].ticket = held \/ wire[h].ticket = held

ReservationHeld ==
    \E h \in Hosts : \E t \in {process[h].ticket, wire[h].ticket} :
        IsTransitionTicket(t) /\ t.reservationId = checkpoint.reservationId

TimeUnlessHeld(held) == IF held THEN Strike("slow") ELSE faults' = faults

ReservationExpires(h) ==
    /\ PassReservationDeadline(h)
    /\ TimeUnlessHeld(ReservationHeld)
    /\ UNCHANGED <<process, wire, worker, commands>>

RecoveryExpires ==
    /\ PassRecoveryDeadline
    /\ TimeUnlessHeld(Holds(RecoveryTicket(recovery)))
    /\ UNCHANGED <<process, wire, worker, commands>>

(* The rollback window ends on a host's clock. *)
WindowExpires ==
    /\ Strike("window-ends")
    /\ \E h \in Hosts : PassWindowDeadline(h)
    /\ UNCHANGED <<process, wire, worker, commands>>

InventoryConverges ==
    /\ ConvergeInventory
    /\ UNCHANGED supervisorVars

-----------------------------------------------------------------------------
Operator(h) ==
    \/ Bootstrap(h)
    \/ BeginRecover(h)
    \/ \E g \in Generations : BeginDeploy(h, g) \/ BeginRestart(h, g)
    \/ BeginRollback(h)
    \/ BeginClose(h)

Transition(h) ==
    \/ Start(h) \/ Readiness(h) \/ CommitDeploy(h) \/ CommitRollback(h)
    \/ RejectPromotion(h)
    \/ VerifyRetirement(h) \/ RemoveGeneration(h) \/ CompleteTombstone(h)
    \/ NextPending(h) \/ InspectWorker(h) \/ RecoverySettled(h)
    \/ PrepareWorker(h) \/ ReplaceWorker(h) \/ SendActivation(h)
    \/ ReserveStep(h) \/ AwaitStep(h) \/ Effect(h) \/ ReleaseStep(h) \/ CompleteStep(h)
    \/ DecideClose(h) \/ FinishClose(h)

WorkerStep(h) == WorkerVerify(h) \/ WorkerAct(h)

Environment ==
    \/ \E h \in Hosts : Crash(h) \/ ReservationExpires(h)
    \/ \E g \in Generations : LoseWorker(g) \/ Heartbeat(g)
    \/ LapseFence
    \/ RecoveryExpires
    \/ WindowExpires
    \/ InventoryConverges

DeploymentNext ==
    \/ \E h \in Hosts : Operator(h) \/ Transition(h) \/ WorkerStep(h)
    \/ Environment

DeploymentSpec == DeploymentInit /\ [][DeploymentNext]_allVars

(* A running process and a running worker take their next step; somebody    *)
(* runs recover() again while a host is idle (every supervisor start does); *)
(* clocks advance; the extension runtime converges.                         *)
Fairness ==
    /\ \A h \in Hosts :
          /\ WF_allVars(Transition(h))
          /\ WF_allVars(WorkerStep(h))
          /\ WF_allVars(Bootstrap(h) \/ BeginRecover(h))
          /\ WF_allVars(ReservationExpires(h) /\ faults' = faults)
    /\ \A g \in Generations : WF_allVars(Heartbeat(g))
    /\ WF_allVars(RecoveryExpires /\ faults' = faults)
    /\ WF_allVars(InventoryConverges)

FairDeploymentSpec == DeploymentSpec /\ Fairness

-----------------------------------------------------------------------------
(* Types. *)

(* Every process, message and container holds a value the code can give it. *)
DeploymentTypeOK ==
    /\ \A h \in Hosts :
          /\ process[h].pc \in {"idle", "start", "readiness", "commit", "reject", "retire",
                 "remove", "tombstone", "pending", "worker", "recovered", "reactivate",
                 "replace", "send", "await", "step", "waiting", "effect", "release", "complete", "close", "finish"}
          /\ process[h].command = "none" <=> process[h] = Idle
          /\ process[h].target \in Generations \cup {NoGeneration}
          /\ wire[h].path \in {"none", "/activate", "/drain"}
          /\ wire[h].path = "none" <=> wire[h] = NoMessage
          /\ process[h].pc = "await" => wire[h].ticket = process[h].ticket
    /\ worker \in [Generations -> [mode : {"absent", "passive", "active", "drained"},
                                   token : 0..MaxToken]]
    /\ commands \in 0..MaxCommands
    /\ faults \in 0..MaxFaults

-----------------------------------------------------------------------------
(* Safety. *)

(* The fencing token decides who executes: a worker that is active under    *)
(* the current token is the worker of the active generation, and no worker  *)
(* ever holds a token the fence has not issued.  So however late an         *)
(* activation is handled, at most one worker can renew and claim effects.   *)
OneAuthorisedWorker ==
    \A g \in Generations :
        /\ worker[g].token <= fence.token
        /\ HealthyActive(g, fence.token) => g = active

(* A completed tombstone means the containers are gone: after it only a     *)
(* start that was already on its way may have left a passive worker, and    *)
(* that one never executes.                                                 *)
RetiredGenerationIsGone ==
    \A g \in Generations :
        retirement[g] = "completed" => worker[g].mode \in {"absent", "passive"}

-----------------------------------------------------------------------------
(* Action properties. *)

Restarting(g) ==
    \E h \in Hosts : process[h].command = "restart" /\ process[h].target = g

Removed(g) ==
    /\ worker[g].mode # "absent"
    /\ worker'[g].mode = "absent"
    /\ faults' = faults    \* not lost
    /\ ~Restarting(g)

(* A retirement (a rejected promotion, a pending tombstone found by         *)
(* recover(), or a closing window) never destroys the containers of a       *)
(* generation that is active, or that is retained with its window still     *)
(* open, however long ago its authority was read.                           *)
RetirementSparesLiveGenerations ==
    [][\A g \in Generations :
          Removed(g) => /\ g # active
                        /\ g = rollback => window.state = "retirement-reserved"]_allVars

(* A drain command, however long ago it was verified, never drains a worker *)
(* that executes under the current token: a generation that has become      *)
(* active since gets its token in a fresh container, and starting that one  *)
(* cuts the old command off.                                                *)
DrainSparesExecutor ==
    [][\A g \in Generations :
          HealthyActive(g, fence.token) => worker'[g].mode # "drained"]_allVars

(* The pointer never moves to a generation whose containers a supervisor    *)
(* has already removed: what one process started and checked, no other      *)
(* process destroys before the commit.                                      *)
CommittedGenerationExists ==
    [][active' # active /\ faults = 0 => worker[active'].mode # "absent"]_allVars

(* start() replaces whatever is not a fresh passive worker, and cannot tell *)
(* that another process has activated it since; nor does a worker compare   *)
(* the token of an activation with the one it has.                          *)
OvertakenStart(h, g) ==       \* of a deploy() or rollback() that will be refused
    process[h].pc = "start" /\ process[h].target = g /\ process[h].revision # revision

Reactivates(h, g) ==          \* found inactive, and activated by another since
    process[h].pc = "replace" /\ process[h].ticket.generation = g

Reboots(h, g) ==
    process[h].pc = "idle" /\ process'[h].command = "bootstrap" /\ g = InitialGeneration

LateActivation(h, g) ==       \* verified before the token was replaced
    /\ wire[h].verified /\ wire[h].path = "/activate"
    /\ wire[h].ticket.generation = g /\ wire[h].ticket.token # fence.token

Interrupted(g) ==
    /\ HealthyActive(g, fence.token)
    /\ worker'[g] # worker[g]
    /\ faults' = faults    \* not lost

(* The worker that executes under the current token is interrupted only by  *)
(* the end of its lease, by an activation verified under an earlier token,  *)
(* and by these starts: a promotion or a rollback that another has          *)
(* overtaken, a second process that activates the same worker, an operator  *)
(* that repeats the bootstrap or restarts it.  A deploy() or rollback()     *)
(* whose revision is current never meets it, and no cleanup does.           *)
ExecutorYieldsToStarts ==
    [][\A g \in Generations :
          Interrupted(g) =>
              \/ ~fence.live
              \/ Restarting(g)
              \/ \E h \in Hosts : \/ OvertakenStart(h, g) \/ Reactivates(h, g)
                                 \/ Reboots(h, g) \/ LateActivation(h, g)]_allVars

(* What the code does not give (StaleStart.cfg): a deploy() that another    *)
(* has overtaken interrupts the worker of the generation it wanted.         *)
ExecutorOutlivesDeploys ==
    [][\A g \in Generations, h \in Hosts :
          Interrupted(g) => ~(OvertakenStart(h, g) /\ IsDeploy(h))]_allVars

(* However long ago a supervisor read or verified what it acts on: what it  *)
(* removes for good or drains is not what another has made live since, what *)
(* it commits has not been removed, and what it starts interrupts no        *)
(* executing worker but in the cases named.                                 *)
LiveGenerationsSpared ==
    /\ RetirementSparesLiveGenerations
    /\ DrainSparesExecutor
    /\ CommittedGenerationExists
    /\ ExecutorYieldsToStarts

(* Both sides of a retirement: nothing live is removed by one, and what is  *)
(* recorded as retired is gone; a start replaces what executes only in the  *)
(* cases named.                                                             *)
DestroysTheRetired == LiveGenerationsSpared /\ []RetiredGenerationIsGone

(* The supervisors drive the store only through its transactions (this is   *)
(* its Spec; TLC tries no transaction where the store stays as it is).      *)
UsesStore == Init /\ [][vars' # vars => Next]_vars

-----------------------------------------------------------------------------
(* Liveness. *)

(* The drain a transition owes has no worker to answer it. *)
StuckAtDrain ==
    /\ HasNextStep
    /\ NextStep \in {"drain-previous", "drain-retained"}
    /\ worker[checkpoint.previous].mode = "absent"

(* A committed promotion, rollback or window closure does not stay half     *)
(* done: whatever was interrupted, the recoveries that follow finish every  *)
(* external step it owes, as long as the worker to drain is there.          *)
CommittedTransitionsFinish == [](HasNextStep => <>(~HasNextStep \/ StuckAtDrain))

(* "closes rollback and retires the quarantined prior generation under the  *)
(* promotion fence": its checkpoint does not stay open.                     *)
QuarantineRecoveryCloses ==
    [](checkpoint.kind = "promote-retire-previous"
          => <>(checkpoint.kind # "promote-retire-previous"))

(* A tombstone is not left half done: its containers are removed and it is  *)
(* completed.                                                               *)
RetirementsFinish ==
    \A g \in Generations : [](retirement[g] = "reserved" => <>(retirement[g] = "completed"))

(* Nothing a supervisor began stays half done. *)
WorkFinishes == CommittedTransitionsFinish /\ RetirementsFinish

(* The active generation gets its worker back: after any crash, loss or     *)
(* demotion it is again active under the current token (a drain that no     *)
(* worker can answer keeps its step reserved and blocks recovery too).      *)
ActiveWorkerReturns ==
    []<>(\/ HealthyActive(active, fence.token) /\ fence.live
         \/ StuckAtDrain)

(* Whatever ends a supervisor or a worker, the recoveries that follow bring *)
(* the deployment to rest and keep its worker at work.                      *)
DeploymentRecovers == WorkFinishes /\ ActiveWorkerReturns
=============================================================================
