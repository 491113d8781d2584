--------------------------- MODULE RevisionConvergence ---------------------------
(***************************************************************************)
(* How a change of authorization reaches the processes: the outbox that is *)
(* written with it (packages/payload-adapter/src/authorization-outbox.ts)  *)
(* hands its revision to one process, and every process polls (packages/   *)
(* runtime/src/authorization-revision-consumer.ts).  The boundaries and    *)
(* the sink are those of CustomerAuthorizationConvergence.                 *)
(*                                                                         *)
(* The authorization and lifecycle revisions of a process only grow and    *)
(* are written together: one number, the place in that sequence, stands    *)
(* for the pair, and 0 for a consumer that has not read any.               *)
(***************************************************************************)
EXTENDS Naturals, FiniteSets

CONSTANTS
    Processes,
    Boundaries,    \* what onAdvance() applies a revision to
    Nobody,        \* claim token of an event nobody holds
    MaxAttempts,   \* maxAttempts of the dispatcher
    MaxRevision,   \* bound on the changes of authorization
    MaxFaults,     \* bound on failures, timeouts and restarts
    MaxLifecycle   \* bound on the calls of start() and stop() of each process

ASSUME ConvergenceAssumption ==
    /\ Nobody \notin Processes
    /\ MaxAttempts \in Nat \ {0}
    /\ MaxRevision \in Nat \ {0}

VARIABLES
    authority,     \* k_nex_authorization_state
    event,         \* k_nex_authorization_outbox, by revision
    worker,        \* the dispatch each AuthorizationOutboxWorker is in
    consumer,      \* the RuntimeAuthorizationRevisionConsumer of each process
    applied,       \* what each boundary of each process has been brought to
    faults

vars == <<authority, event, worker, consumer, applied, faults>>

Revisions == 1 .. MaxRevision

NoEvent == [status |-> "none", attempts |-> 0, token |-> Nobody, live |-> FALSE]

(* A delivered or dead event is not read again.                             *)
Closed(status) == [NoEvent EXCEPT !.status = status]

NewWorker == [pc |-> "idle", rev |-> 0]

(* pc and next are the observe() under way; loops are the calls of          *)
(* pollAndSchedule() that wait for it, by their lifecycle.                  *)
NewConsumer == [current |-> 0, minimum |-> 0, pc |-> "none", next |-> 0,
                running |-> FALSE, lifecycle |-> 0, timer |-> 0, loops |-> {}]

Fault == faults < MaxFaults /\ faults' = faults + 1

-----------------------------------------------------------------------------
(* The outbox. *)

(* writeAuthorizationInvalidationOutbox() in the transaction of the change. *)
Revise ==
    /\ authority < MaxRevision
    /\ authority' = authority + 1
    /\ event' = [event EXCEPT ![authority + 1].status = "pending"]
    /\ UNCHANGED <<worker, consumer, applied, faults>>

Free(v) == event[v].status = "pending" \/ (event[v].status = "processing" /\ ~event[v].live)

DeadLetterExhausted(v) ==
    /\ Free(v) /\ event[v].attempts >= MaxAttempts
    /\ event' = [event EXCEPT ![v] = Closed("dead-letter")]
    /\ UNCHANGED <<authority, worker, consumer, applied, faults>>

Claimable == {v \in Revisions : Free(v) /\ event[v].attempts < MaxAttempts}

Precedes(v, w) ==
    \/ event[v].attempts < event[w].attempts
    \/ event[v].attempts = event[w].attempts /\ v <= w

Claim(p) ==
    /\ worker[p].pc = "idle"
    /\ \E v \in Claimable :
          /\ \A w \in Claimable : Precedes(v, w)
          /\ event' = [event EXCEPT ![v] = [status |-> "processing", attempts |-> @.attempts + 1,
                                            token |-> p, live |-> TRUE]]
          /\ worker' = [worker EXCEPT ![p] = [pc |-> "publish", rev |-> v]]
    /\ UNCHANGED <<authority, consumer, applied, faults>>

(* invalidate() records a floor if it is a rise; Forgetful() does not.      *)
Floor(c) == IF c.minimum # 0 THEN c.minimum ELSE c.current

Forgetful(c, v) == c

Invalidated(c, v) == IF v > Floor(c) THEN [c EXCEPT !.minimum = v] ELSE c

(* poll() joins the observe() that is under way.                            *)
Polled(c) == IF c.pc = "none" THEN [c EXCEPT !.pc = "read"] ELSE c

(* The sink polls the consumers whose floor has risen, and no others.       *)
Publish(p) ==
    LET v == worker[p].rev IN
    /\ worker[p].pc = "publish"
    /\ IF v > Floor(consumer[p])
       THEN /\ consumer' = [consumer EXCEPT ![p] = Polled(Invalidated(@, v))]
            /\ worker' = [worker EXCEPT ![p].pc = "polling"]
       ELSE /\ worker' = [worker EXCEPT ![p].pc = "deliver"]
            /\ UNCHANGED consumer
    /\ UNCHANGED <<authority, event, applied, faults>>

(* publishWithTimeout(): the poll goes on.                                  *)
PublishTimesOut(p) ==
    /\ worker[p].pc = "polling"
    /\ worker' = [worker EXCEPT ![p].pc = "fail"]
    /\ Fault
    /\ UNCHANGED <<authority, event, consumer, applied>>

Claims(p) == event[worker[p].rev].status = "processing" /\ event[worker[p].rev].token = p

Deliver(p) ==
    /\ worker[p].pc = "deliver"
    /\ event' = IF Claims(p) THEN [event EXCEPT ![worker[p].rev] = Closed("delivered")] ELSE event
    /\ worker' = [worker EXCEPT ![p] = NewWorker]
    /\ UNCHANGED <<authority, consumer, applied, faults>>

ReleaseFailedClaim(p) ==
    LET v == worker[p].rev IN
    /\ worker[p].pc = "fail"
    /\ event' = IF ~Claims(p) THEN event
                ELSE [event EXCEPT ![v] = IF @.attempts >= MaxAttempts THEN Closed("dead-letter")
                                          ELSE [@ EXCEPT !.status = "pending", !.token = Nobody, !.live = FALSE]]
    /\ worker' = [worker EXCEPT ![p] = NewWorker]
    /\ UNCHANGED <<authority, consumer, applied, faults>>

LeaseExpires(v) ==
    /\ event[v].live
    /\ event' = [event EXCEPT ![v].live = FALSE]
    /\ UNCHANGED <<authority, worker, consumer, applied, faults>>

-----------------------------------------------------------------------------
(* The consumer. *)

(* Any loop schedules itself anew.                                          *)
EveryLoopResumed(c) ==
    [c EXCEPT !.pc = "none", !.next = 0, !.loops = {},
              !.timer = IF c.loops # {} THEN CHOOSE n \in c.loops : TRUE ELSE @]

(* No loop schedules itself anew.                                           *)
LoopsForgotten(c) == [c EXCEPT !.pc = "none", !.next = 0, !.loops = {}]

(* The promise of the poll settles: a publication and the loops that wait   *)
(* for it go on, and the loop of this lifecycle schedules itself anew.      *)
LoopsResumed(c) ==
    [c EXCEPT !.pc = "none", !.next = 0, !.loops = {},
              !.timer = IF c.running /\ c.lifecycle \in c.loops THEN c.lifecycle ELSE @]

PollEnds(p, c, outcome) ==
    /\ consumer' = [consumer EXCEPT ![p] = LoopsResumed(c)]
    /\ worker' = [worker EXCEPT ![p].pc = IF @ = "polling" THEN outcome ELSE @]

ReadState(p) ==
    /\ consumer[p].pc = "read"
    /\ consumer' = [consumer EXCEPT ![p].pc = "check", ![p].next = authority]
    /\ UNCHANGED <<authority, event, worker, applied, faults>>

ReadFails(p) ==
    /\ consumer[p].pc = "read"
    /\ PollEnds(p, consumer[p], "fail")
    /\ Fault
    /\ UNCHANGED <<authority, event, applied>>

(* What was read may have been overtaken by an invalidation.                *)
Check(p) ==
    LET c == consumer[p] IN
    /\ c.pc = "check"
    /\ IF c.next < c.current \/ c.next < c.minimum \/ (c.next = c.current /\ c.minimum = 0)
       THEN PollEnds(p, c, "deliver")
       ELSE IF c.next = c.current THEN PollEnds(p, [c EXCEPT !.minimum = 0], "deliver")
       ELSE consumer' = [consumer EXCEPT ![p].pc = "apply"] /\ UNCHANGED worker
    /\ UNCHANGED <<authority, event, applied, faults>>

(* onAdvance(): a boundary raises what it requires.                         *)
Apply(p, b) ==
    /\ consumer[p].pc = "apply" /\ applied[p][b] < consumer[p].next
    /\ applied' = [applied EXCEPT ![p][b] = consumer[p].next]
    /\ UNCHANGED <<authority, event, worker, consumer, faults>>

ApplyFails(p) ==
    /\ consumer[p].pc = "apply"
    /\ PollEnds(p, consumer[p], "fail")
    /\ Fault
    /\ UNCHANGED <<authority, event, applied>>

(* The floor is forgotten with every advance.                               *)
Forgets(c) == [c EXCEPT !.current = c.next, !.minimum = 0]

(* The floor is forgotten if the advance covers it.                         *)
Advanced(c) == [c EXCEPT !.current = c.next, !.minimum = IF c.next >= @ THEN 0 ELSE @]

(* onAdvance() is not waited for.                                           *)
Unawaited(p) == consumer[p].pc = "apply"

(* Promise.all() of the boundaries.                                         *)
AllApplied(p) == \A b \in Boundaries : applied[p][b] >= consumer[p].next

Advance(p) ==
    /\ consumer[p].pc = "apply"
    /\ AllApplied(p)
    /\ PollEnds(p, Advanced(consumer[p]), "deliver")
    /\ UNCHANGED <<authority, event, applied, faults>>

(* pollAndSchedule() of lifecycle n awaits the poll.                        *)
Waits(c, n) == [c EXCEPT !.loops = c.loops \cup {n}]

TimerFires(p) ==
    /\ consumer[p].timer # 0
    /\ consumer' = [consumer EXCEPT ![p] = Polled(Waits([consumer[p] EXCEPT !.timer = 0], consumer[p].timer))]
    /\ UNCHANGED <<authority, event, worker, applied, faults>>

Start(p) ==
    LET n == consumer[p].lifecycle + 1 IN
    /\ ~consumer[p].running /\ n <= MaxLifecycle[p]
    /\ consumer' = [consumer EXCEPT ![p] =
                       Polled(Waits([consumer[p] EXCEPT !.running = TRUE, !.lifecycle = n], n))]
    /\ UNCHANGED <<authority, event, worker, applied, faults>>

Stop(p) ==
    LET n == consumer[p].lifecycle + 1 IN
    /\ consumer[p].running /\ n <= MaxLifecycle[p]
    /\ consumer' = [consumer EXCEPT ![p].running = FALSE, ![p].lifecycle = n, ![p].timer = 0]
    /\ UNCHANGED <<authority, event, worker, applied, faults>>

(* A process restarts, its consumer and its boundaries knowing nothing.     *)
Restart(p) ==
    /\ Fault
    /\ consumer' = [consumer EXCEPT ![p] = NewConsumer]
    /\ worker' = [worker EXCEPT ![p] = NewWorker]
    /\ applied' = [applied EXCEPT ![p] = [b \in Boundaries |-> 0]]
    /\ UNCHANGED <<authority, event>>

-----------------------------------------------------------------------------
Init ==
    /\ authority = 1
    /\ event = [v \in Revisions |-> NoEvent]
    /\ worker = [p \in Processes |-> NewWorker]
    /\ consumer = [p \in Processes |-> NewConsumer]
    /\ applied = [p \in Processes |-> [b \in Boundaries |-> 0]]
    /\ faults = 0

Dispatch(p) == Claim(p) \/ Publish(p) \/ Deliver(p) \/ ReleaseFailedClaim(p)

Observe(p) ==
    \/ TimerFires(p) \/ ReadState(p) \/ Check(p)
    \/ (\E b \in Boundaries : Apply(p, b))
    \/ Advance(p)

Fails(p) == PublishTimesOut(p) \/ ReadFails(p) \/ ApplyFails(p) \/ Restart(p)

Next ==
    \/ Revise
    \/ \E v \in Revisions : DeadLetterExhausted(v) \/ LeaseExpires(v)
    \/ \E p \in Processes : Dispatch(p) \/ Observe(p) \/ Start(p) \/ Stop(p) \/ Fails(p)

Spec == Init /\ [][Next]_vars

(* The loops of workers and consumers come round, what they await answers   *)
(* or is counted as a fault, and a lease ends with its time; nobody has to  *)
(* change authorization, to start or to stop a process.                     *)
FairSpec ==
    /\ Spec
    /\ \A p \in Processes : WF_vars(Dispatch(p)) /\ WF_vars(Observe(p))
    /\ \A v \in Revisions : WF_vars(DeadLetterExhausted(v)) /\ WF_vars(LeaseExpires(v))

-----------------------------------------------------------------------------
Events == [status : {"none", "pending", "processing", "delivered", "dead-letter"},
           attempts : 0 .. MaxAttempts, token : Processes \cup {Nobody}, live : BOOLEAN]

Workers == [pc : {"idle", "publish", "polling", "deliver", "fail"}, rev : Nat]

Consumers == [current : Nat, minimum : Nat, pc : {"none", "read", "check", "apply"}, next : Nat,
              running : BOOLEAN, lifecycle : Nat, timer : Nat, loops : SUBSET Nat]

TypeOK ==
    /\ authority \in Nat
    /\ event \in [Revisions -> Events]
    /\ worker \in [Processes -> Workers]
    /\ consumer \in [Processes -> Consumers]
    /\ applied \in [Processes -> [Boundaries -> Nat]]
    /\ faults \in Nat

(* The snapshot a consumer shows has been applied at every boundary, and    *)
(* neither it nor a floor runs ahead of what was committed.                 *)
SnapshotIsApplied ==
    \A p \in Processes :
        /\ \A b \in Boundaries : consumer[p].current <= applied[p][b]
        /\ Floor(consumer[p]) <= authority

(* Started and stopped in whatever order, also while a poll is in flight, a *)
(* running consumer has one recovery loop and a stopped one none that will  *)
(* poll again.                                                              *)
OneRecoveryLoop ==
    \A p \in Processes :
        LET c == consumer[p] IN
        /\ c.running <=> ((c.timer # 0 /\ c.timer = c.lifecycle) \/ c.lifecycle \in c.loops)
        /\ c.timer # 0 => c.timer = c.lifecycle /\ c.lifecycle \notin c.loops

(* What a process has learnt it never unlearns while it runs: the snapshot  *)
(* does not go back, and a floor is dropped only once it is covered, though *)
(* it may be raised at any await of the poll.                               *)
KnowledgeKept ==
    [][\A p \in Processes : consumer'[p] # NewConsumer =>
          /\ consumer'[p].current >= consumer[p].current
          /\ Floor(consumer'[p]) >= Floor(consumer[p])]_vars

(* An event counts as delivered only if the process that took it knows its  *)
(* revision, be it as a floor it has yet to reach.                          *)
DeliveredIsKnown ==
    [][\A v \in Revisions : \A p \in Processes :
          /\ event[v].status = "processing" /\ event'[v].status = "delivered"
          /\ event[v].token = p
          => Floor(consumer[p]) >= v]_vars

(* Nothing a process has learnt, or is said to have learnt, is lost. *)
NothingUnlearnt == KnowledgeKept /\ DeliveredIsKnown

(* Once changes, faults and restarts are over every running consumer comes  *)
(* to the revision of the authority, whichever process took its event and   *)
(* also if all attempts at it failed; and every event is settled.           *)
Converges ==
    <>[](/\ \A p \in Processes : consumer[p].running => consumer[p].current = authority
         /\ \A v \in Revisions : event[v].status \in {"none", "delivered", "dead-letter"})

=============================================================================
