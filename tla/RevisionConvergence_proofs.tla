----------------------- MODULE RevisionConvergence_proofs -----------------------
(***************************************************************************)
(* What RevisionConvergence promises for any processes, boundaries, bounds *)
(* and numbers of attempts.  ConvergenceInv is the inductive invariant:    *)
(* an event and what is read of the authority were committed, what is      *)
(* about to be applied is ahead of the snapshot, a worker that waits for   *)
(* the poll it caused has left its floor there, and the loops that wait    *)
(* are of lifecycles that have begun.                                      *)
(***************************************************************************)
EXTENDS RevisionConvergence, TLAPS

EventsAreCommitted == \A v \in Revisions : event[v].status # "none" => v <= authority

WorkerKnows(p) ==
    /\ worker[p].pc # "idle" => worker[p].rev \in Revisions /\ worker[p].rev <= authority
    /\ worker[p].pc \in {"polling", "deliver"} => Floor(consumer[p]) >= worker[p].rev

ConsumerFollows(p) ==
    /\ consumer[p].current <= authority
    /\ consumer[p].minimum <= authority
    /\ consumer[p].next <= authority
    /\ consumer[p].pc = "apply" => consumer[p].next > consumer[p].current
    /\ \A b \in Boundaries : consumer[p].current <= applied[p][b]

(* OneRecoveryLoop of one consumer, whose loops have begun.                 *)
LoopsSound(c) ==
    /\ c.loops \subseteq 1 .. c.lifecycle
    /\ c.running <=> ((c.timer # 0 /\ c.timer = c.lifecycle) \/ c.lifecycle \in c.loops)
    /\ c.timer # 0 => c.timer = c.lifecycle /\ c.lifecycle \notin c.loops

ProcessSound(p) == WorkerKnows(p) /\ ConsumerFollows(p) /\ LoopsSound(consumer[p])

ConvergenceInv ==
    /\ TypeOK
    /\ EventsAreCommitted
    /\ \A p \in Processes : ProcessSound(p)

(* A step that takes a consumer from c to d keeps its snapshot and floor.   *)
Learns(c, d) == d.current >= c.current /\ Floor(d) >= Floor(c)

Learnt == \A p \in Processes : consumer'[p] # NewConsumer => Learns(consumer[p], consumer'[p])

-----------------------------------------------------------------------------
(* The operators on one consumer. *)

LEMMA FloorIsNumber ==
    ASSUME NEW c \in Consumers
    PROVE  Floor(c) \in Nat /\ Floor(c) \in {c.minimum, c.current}
BY DEF Floor, Consumers

LEMMA PolledKeeps ==
    ASSUME NEW c \in Consumers
    PROVE  /\ Polled(c) \in Consumers
           /\ Polled(c) = [c EXCEPT !.pc = Polled(c).pc]
           /\ Polled(c).pc = "apply" => c.pc = "apply"
BY DEF Polled, Consumers

LEMMA LoopsResumedKeeps ==
    ASSUME NEW c \in Consumers
    PROVE  /\ LoopsResumed(c) \in Consumers
           /\ LoopsResumed(c).current = c.current
           /\ LoopsResumed(c).minimum = c.minimum
           /\ LoopsResumed(c).next = 0
           /\ LoopsResumed(c).pc = "none"
           /\ LoopsResumed(c).lifecycle = c.lifecycle
           /\ LoopsResumed(c).running = c.running
           /\ LoopsResumed(c).loops = {}
           /\ LoopsResumed(c).timer = IF c.running /\ c.lifecycle \in c.loops
                                      THEN c.lifecycle ELSE c.timer
BY DEF LoopsResumed, Consumers

-----------------------------------------------------------------------------
(* Types. *)

LEMMA TypeInit == Init => TypeOK
BY ConvergenceAssumption DEF Init, TypeOK, NoEvent, NewWorker, NewConsumer, Events, Workers,
   Consumers

LEMMA PollEndsTypes ==
    ASSUME TypeOK, NEW p \in Processes, NEW c \in Consumers,
           NEW outcome \in {"deliver", "fail"}, PollEnds(p, c, outcome)
    PROVE  consumer' \in [Processes -> Consumers] /\ worker' \in [Processes -> Workers]
<1>1. LoopsResumed(c) \in Consumers
  BY LoopsResumedKeeps
<1>2. [worker[p] EXCEPT !.pc = IF @ = "polling" THEN outcome ELSE @] \in Workers
  BY DEF TypeOK, Workers
<1> QED BY <1>1, <1>2 DEF PollEnds, TypeOK

LEMMA TypeStep == TypeOK /\ [Next]_vars => TypeOK'
<1> SUFFICES ASSUME TypeOK, [Next]_vars PROVE TypeOK'
  OBVIOUS
<1> USE ConvergenceAssumption
<1>w. \A p \in Processes : worker[p] \in Workers /\ consumer[p] \in Consumers
  BY DEF TypeOK
<1>e. \A v \in Revisions : event[v] \in Events
  BY DEF TypeOK
<1>c. Closed("delivered") \in Events /\ Closed("dead-letter") \in Events /\ NewWorker \in Workers
  <2>1. NoEvent \in Events /\ NewWorker \in Workers
    BY DEF NoEvent, Events, NewWorker, Workers
  <2>2. \A e \in Events : /\ [e EXCEPT !.status = "delivered"] \in Events
                         /\ [e EXCEPT !.status = "dead-letter"] \in Events
    BY DEF Events
  <2> QED BY <2>1, <2>2 DEF Closed
<1>g. \A p \in Processes : \A pc \in {"idle", "publish", "polling", "deliver", "fail"} :
         [worker[p] EXCEPT !.pc = pc] \in Workers
  BY <1>w DEF Workers
<1>1. CASE Revise
  <2>1. \A v \in Revisions : [event[v] EXCEPT !.status = "pending"] \in Events
    BY <1>e DEF Events
  <2>2. event' \in [Revisions -> Events]
    <3> DEFINE v == authority + 1
    <3> HIDE DEF v
    <3>1. event' = [event EXCEPT ![v] = [event[v] EXCEPT !.status = "pending"]]
      BY <1>1 DEF Revise, v
    <3> QED BY <3>1, <2>1 DEF TypeOK
  <2> QED BY <1>1, <2>2 DEF TypeOK, Revise
<1>2. ASSUME NEW v \in Revisions, DeadLetterExhausted(v) PROVE TypeOK'
  BY <1>2, <1>c DEF TypeOK, DeadLetterExhausted
<1>3. ASSUME NEW v \in Revisions, LeaseExpires(v) PROVE TypeOK'
  <2>1. [event[v] EXCEPT !.live = FALSE] \in Events
    BY <1>e DEF Events
  <2> QED BY <1>3, <2>1 DEF TypeOK, LeaseExpires
<1>4. ASSUME NEW p \in Processes, Dispatch(p) PROVE TypeOK'
  <2>1. CASE Claim(p)
    <3>1. PICK v \in Claimable :
             /\ event' = [event EXCEPT ![v] = [status |-> "processing",
                             attempts |-> @.attempts + 1, token |-> p, live |-> TRUE]]
             /\ worker' = [worker EXCEPT ![p] = [pc |-> "publish", rev |-> v]]
      BY <2>1 DEF Claim
    <3>2. v \in Revisions /\ event[v].attempts < MaxAttempts /\ v \in Nat
      BY DEF Claimable, Revisions
    <3>3. /\ [status |-> "processing", attempts |-> event[v].attempts + 1,
              token |-> p, live |-> TRUE] \in Events
          /\ [pc |-> "publish", rev |-> v] \in Workers
      BY <3>2, <1>e DEF Events, Workers
    <3>4. UNCHANGED <<authority, consumer, applied, faults>>
      BY <2>1 DEF Claim
    <3> QED BY <3>1, <3>2, <3>3, <3>4 DEF TypeOK
  <2>2. CASE Publish(p)
    <3>1. worker[p].rev \in Nat
      BY <1>w DEF Workers
    <3>2. Invalidated(consumer[p], worker[p].rev) \in Consumers
      BY <1>w, <3>1 DEF Invalidated, Consumers
    <3>3. Polled(Invalidated(consumer[p], worker[p].rev)) \in Consumers
      BY <3>2, PolledKeeps
    <3> QED BY <2>2, <3>3, <1>g DEF TypeOK, Publish
  <2>3. CASE Deliver(p)
    BY <2>3, <1>c DEF TypeOK, Deliver
  <2>4. CASE ReleaseFailedClaim(p)
    <3>1. \A v \in Revisions :
             [event[v] EXCEPT !.status = "pending", !.token = Nobody, !.live = FALSE] \in Events
      BY <1>e DEF Events
    <3> QED BY <2>4, <3>1, <1>c DEF TypeOK, ReleaseFailedClaim
  <2> QED BY <1>4, <2>1, <2>2, <2>3, <2>4 DEF Dispatch
<1>5. ASSUME NEW p \in Processes, Observe(p) PROVE TypeOK'
  <2>1. CASE TimerFires(p)
    <3> DEFINE c == Waits([consumer[p] EXCEPT !.timer = 0], consumer[p].timer)
    <3>1. c \in Consumers
      BY <1>w DEF Consumers, Waits
    <3>2. Polled(c) \in Consumers
      BY <3>1, PolledKeeps
    <3> QED BY <2>1, <3>2 DEF TypeOK, TimerFires
  <2>2. CASE ReadState(p)
    <3>1. [consumer[p] EXCEPT !.pc = "check", !.next = authority] \in Consumers
      BY <1>w DEF Consumers, TypeOK
    <3>2. consumer' = [consumer EXCEPT ![p] = [consumer[p] EXCEPT !.pc = "check", !.next = authority]]
      BY <2>2, <1>w DEF ReadState, TypeOK, Consumers
    <3> QED BY <2>2, <3>1, <3>2 DEF TypeOK, ReadState
  <2>3. CASE Check(p)
    <3>1. [consumer[p] EXCEPT !.minimum = 0] \in Consumers
      BY <1>w DEF Consumers
    <3>2. [consumer[p] EXCEPT !.pc = "apply"] \in Consumers
      BY <1>w DEF Consumers
    <3>3. \/ PollEnds(p, consumer[p], "deliver")
          \/ PollEnds(p, [consumer[p] EXCEPT !.minimum = 0], "deliver")
          \/ consumer' = [consumer EXCEPT ![p].pc = "apply"] /\ UNCHANGED worker
      BY <2>3 DEF Check
    <3>4. consumer' \in [Processes -> Consumers] /\ worker' \in [Processes -> Workers]
      <4>1. CASE consumer' = [consumer EXCEPT ![p].pc = "apply"] /\ UNCHANGED worker
        BY <4>1, <3>2 DEF TypeOK
      <4>2. CASE PollEnds(p, consumer[p], "deliver")
        BY <4>2, <1>w, PollEndsTypes
      <4>3. CASE PollEnds(p, [consumer[p] EXCEPT !.minimum = 0], "deliver")
        BY <4>3, <3>1, PollEndsTypes
      <4> QED BY <3>3, <4>1, <4>2, <4>3
    <3> QED BY <2>3, <3>4 DEF TypeOK, Check
  <2>4. ASSUME NEW b \in Boundaries, Apply(p, b) PROVE TypeOK'
    <3>1. consumer[p].next \in Nat
      BY <1>w DEF Consumers
    <3> QED BY <2>4, <3>1 DEF TypeOK, Apply
  <2>5. CASE Advance(p)
    <3>1. Advanced(consumer[p]) \in Consumers
      BY <1>w DEF Advanced, Consumers
    <3>2. consumer' \in [Processes -> Consumers] /\ worker' \in [Processes -> Workers]
      BY <2>5, <3>1, PollEndsTypes DEF Advance
    <3> QED BY <2>5, <3>2 DEF TypeOK, Advance
  <2> QED BY <1>5, <2>1, <2>2, <2>3, <2>4, <2>5 DEF Observe
<1>6. ASSUME NEW p \in Processes, Start(p) PROVE TypeOK'
  <2> DEFINE n == consumer[p].lifecycle + 1
             c == Waits([consumer[p] EXCEPT !.running = TRUE, !.lifecycle = n], n)
  <2>0. n \in Nat
    BY <1>w DEF Consumers
  <2> HIDE DEF n
  <2>1. c \in Consumers
    BY <1>w, <2>0 DEF Consumers, Waits
  <2>2. Polled(c) \in Consumers
    BY <2>1, PolledKeeps
  <2> QED BY <1>6, <2>2 DEF TypeOK, Start, n
<1>7. ASSUME NEW p \in Processes, Stop(p) PROVE TypeOK'
  <2> DEFINE n == consumer[p].lifecycle + 1
             c == [consumer[p] EXCEPT !.running = FALSE, !.lifecycle = n, !.timer = 0]
  <2>0. n \in Nat
    BY <1>w DEF Consumers
  <2> HIDE DEF n
  <2>1. c \in Consumers
    BY <1>w, <2>0 DEF Consumers
  <2>2. consumer' = [consumer EXCEPT ![p] = c]
    BY <1>7, <1>w DEF Stop, TypeOK, Consumers, n
  <2>3. UNCHANGED <<authority, event, worker, applied, faults>>
    BY <1>7 DEF Stop
  <2> HIDE DEF c
  <2> QED BY <2>1, <2>2, <2>3 DEF TypeOK
<1>8. ASSUME NEW p \in Processes, Fails(p) PROVE TypeOK'
  <2>1. CASE PublishTimesOut(p)
    <3>1. [worker[p] EXCEPT !.pc = "fail"] \in Workers
      BY <1>g
    <3> QED BY <2>1, <3>1 DEF TypeOK, PublishTimesOut, Fault
  <2>2. CASE ReadFails(p) \/ ApplyFails(p)
    <3>1. consumer' \in [Processes -> Consumers] /\ worker' \in [Processes -> Workers]
      BY <2>2, <1>w, PollEndsTypes DEF ReadFails, ApplyFails
    <3> QED BY <2>2, <3>1 DEF TypeOK, ReadFails, ApplyFails, Fault
  <2>3. CASE Restart(p)
    <3>1. NewConsumer \in Consumers
      BY DEF NewConsumer, Consumers
    <3> QED BY <2>3, <3>1, <1>c DEF TypeOK, Restart, Fault
  <2> QED BY <1>8, <2>1, <2>2, <2>3 DEF Fails
<1>9. CASE UNCHANGED vars
  BY <1>9 DEF TypeOK, vars
<1> QED BY <1>1, <1>2, <1>3, <1>4, <1>5, <1>6, <1>7, <1>8, <1>9 DEF Next

-----------------------------------------------------------------------------
(* Steps. *)

LEMMA InvInit == Init => ConvergenceInv
<1> SUFFICES ASSUME Init PROVE ConvergenceInv
  OBVIOUS
<1>1. TypeOK
  BY TypeInit
<1>2. EventsAreCommitted
  BY DEF Init, NoEvent, EventsAreCommitted
<1>3. \A p \in Processes : ProcessSound(p)
  BY DEF Init, NewWorker, NewConsumer, ProcessSound, WorkerKnows, ConsumerFollows, LoopsSound
<1> QED BY <1>1, <1>2, <1>3 DEF ConvergenceInv

(* A step of one process.                                                   *)
LEMMA OneProcess ==
    ASSUME ConvergenceInv, TypeOK', EventsAreCommitted',
           NEW p \in Processes,
           authority' >= authority,
           \A q \in Processes \ {p} :
               consumer'[q] = consumer[q] /\ worker'[q] = worker[q] /\ applied'[q] = applied[q],
           ProcessSound(p)',
           consumer'[p] = NewConsumer \/ Learns(consumer[p], consumer'[p])
    PROVE  ConvergenceInv' /\ Learnt
<1> USE DEF ConvergenceInv
<1>1. ASSUME NEW q \in Processes PROVE ProcessSound(q)'
  <2>1. CASE q = p
    BY <2>1
  <2>2. CASE q # p
    <3>1. /\ authority \in Nat /\ authority' \in Nat
          /\ worker[q] \in Workers /\ consumer[q] \in Consumers
      BY DEF TypeOK
    <3>2. ProcessSound(q)
      OBVIOUS
    <3> QED BY <2>2, <3>1, <3>2 DEF ProcessSound, WorkerKnows, ConsumerFollows, LoopsSound,
            Workers, Consumers, Floor
  <2> QED BY <2>1, <2>2
<1>2. ASSUME NEW q \in Processes PROVE Learns(consumer[q], consumer[q])
  <2>1. consumer[q] \in Consumers
    BY DEF TypeOK
  <2>2. Floor(consumer[q]) \in Nat
    BY <2>1, FloorIsNumber
  <2> QED BY <2>1, <2>2 DEF Learns, Consumers
<1>3. Learnt
  BY <1>2 DEF Learnt
<1> QED BY <1>1, <1>3

(* The end of a poll by a consumer that has become c.                       *)
LEMMA PollEndsSound ==
    ASSUME ConvergenceInv, TypeOK', NEW p \in Processes, NEW c \in Consumers,
           NEW outcome \in {"deliver", "fail"}, PollEnds(p, c, outcome),
           UNCHANGED <<authority, event, applied>>,
           c.loops = consumer[p].loops, c.timer = consumer[p].timer,
           c.running = consumer[p].running, c.lifecycle = consumer[p].lifecycle,
           Learns(consumer[p], c),
           c.current <= authority, c.minimum <= authority,
           \A b \in Boundaries : c.current <= applied[p][b]
    PROVE  ConvergenceInv' /\ Learnt
<1> USE DEF ConvergenceInv
<1> DEFINE d == LoopsResumed(c)
<1>1. /\ worker[p] \in Workers /\ consumer[p] \in Consumers /\ authority \in Nat
      /\ ProcessSound(p)
  BY DEF TypeOK
<1>2. consumer'[p] = d /\ worker'[p] = [worker[p] EXCEPT !.pc = IF @ = "polling" THEN outcome ELSE @]
  BY DEF PollEnds, TypeOK
<1>3. d.current = c.current /\ d.minimum = c.minimum /\ d.next = 0 /\ d.pc = "none"
  BY LoopsResumedKeeps
<1>4. Floor(d) = Floor(c)
  BY <1>3 DEF Floor
<1>5. LoopsSound(d)
  <2>1. /\ d.lifecycle = c.lifecycle /\ d.running = c.running /\ d.loops = {}
        /\ d.timer = IF c.running /\ c.lifecycle \in c.loops THEN c.lifecycle ELSE c.timer
    BY LoopsResumedKeeps
  <2>2. c.loops \subseteq 1 .. c.lifecycle /\ c.lifecycle \in Nat
    BY <1>1 DEF ProcessSound, LoopsSound, Consumers
  <2> HIDE DEF d
  <2> QED BY <1>1, <2>1, <2>2 DEF ProcessSound, LoopsSound
<1>6. Floor(d) >= Floor(consumer[p]) /\ Floor(d) \in Nat /\ Floor(consumer[p]) \in Nat
  BY <1>1, <1>4, FloorIsNumber DEF Learns
<1> HIDE DEF d
<1>7. WorkerKnows(p)'
  <2>1. worker'[p].rev = worker[p].rev /\ (worker'[p].pc = "idle" <=> worker[p].pc = "idle")
    BY <1>1, <1>2 DEF Workers
  <2>2. worker'[p].pc \in {"polling", "deliver"} => worker[p].pc \in {"polling", "deliver"}
    BY <1>1, <1>2 DEF Workers
  <2>3. Floor(consumer[p])' = Floor(d)
    BY <1>2 DEF Floor
  <2>4. worker[p].rev \in Nat
    BY <1>1 DEF Workers
  <2> QED BY <1>1, <1>6, <2>1, <2>2, <2>3, <2>4 DEF ProcessSound, WorkerKnows
<1>8. ConsumerFollows(p)'
  BY <1>1, <1>2, <1>3 DEF ConsumerFollows
<1>9. ProcessSound(p)'
  BY <1>2, <1>5, <1>7, <1>8 DEF ProcessSound
<1>10. EventsAreCommitted'
  BY DEF EventsAreCommitted
<1>11. Learns(consumer[p], consumer'[p])
  BY <1>2, <1>3, <1>4 DEF Learns
<1>12. \A q \in Processes \ {p} :
          consumer'[q] = consumer[q] /\ worker'[q] = worker[q] /\ applied'[q] = applied[q]
  BY DEF PollEnds, TypeOK
<1> QED BY <1>1, <1>9, <1>10, <1>11, <1>12, OneProcess

LEMMA DispatchStep ==
    ASSUME ConvergenceInv, TypeOK', NEW p \in Processes, Dispatch(p)
    PROVE  ConvergenceInv' /\ Learnt
<1> USE DEF ConvergenceInv
<1>1. /\ worker[p] \in Workers /\ consumer[p] \in Consumers /\ authority \in Nat
      /\ ProcessSound(p) /\ Floor(consumer[p]) \in Nat
  <2>1. consumer[p] \in Consumers
    BY DEF TypeOK
  <2> QED BY <2>1, FloorIsNumber DEF TypeOK
<1>2. Learns(consumer[p], consumer[p])
  BY <1>1 DEF Learns, Consumers
<1>3. CASE Claim(p)
  <2>1. PICK v \in Claimable :
           /\ event' = [event EXCEPT ![v] = [status |-> "processing",
                           attempts |-> @.attempts + 1, token |-> p, live |-> TRUE]]
           /\ worker' = [worker EXCEPT ![p] = [pc |-> "publish", rev |-> v]]
    BY <1>3 DEF Claim
  <2>2. v \in Revisions /\ event[v].status # "none"
    BY DEF Claimable, Free
  <2>3. v <= authority
    BY <2>2 DEF EventsAreCommitted
  <2>4. UNCHANGED <<authority, consumer, applied>>
    BY <1>3 DEF Claim
  <2>5. EventsAreCommitted'
    BY <2>1, <2>2, <2>3, <2>4 DEF EventsAreCommitted, TypeOK
  <2>6. worker'[p] = [pc |-> "publish", rev |-> v]
    BY <2>1 DEF TypeOK
  <2>7. ProcessSound(p)'
    BY <1>1, <2>2, <2>3, <2>4, <2>6 DEF ProcessSound, WorkerKnows, ConsumerFollows, LoopsSound
  <2>8. \A q \in Processes \ {p} : worker'[q] = worker[q]
    BY <2>1 DEF TypeOK
  <2> QED BY <1>1, <1>2, <2>4, <2>5, <2>7, <2>8, OneProcess
<1>4. CASE Publish(p)
  <2> DEFINE v == worker[p].rev
  <2>1. v \in Revisions /\ v <= authority /\ v \in Nat
    BY <1>1, <1>4 DEF Publish, ProcessSound, WorkerKnows, Workers
  <2>2. EventsAreCommitted' /\ UNCHANGED <<authority, applied>>
    BY <1>4 DEF Publish, EventsAreCommitted
  <2>3. CASE v > Floor(consumer[p])
    <3> DEFINE c == [consumer[p] EXCEPT !.minimum = v]
               d == Polled(c)
    <3>1. c \in Consumers /\ Invalidated(consumer[p], v) = c
      BY <1>1, <2>1, <2>3 DEF Consumers, Invalidated
    <3>2. consumer'[p] = d /\ \A q \in Processes \ {p} : consumer'[q] = consumer[q]
      BY <1>4, <2>3, <3>1 DEF Publish, TypeOK
    <3>3. worker' = [worker EXCEPT ![p].pc = "polling"]
      BY <1>4, <2>3 DEF Publish
    <3>4. /\ worker'[p].pc = "polling" /\ worker'[p].rev = v
          /\ \A q \in Processes \ {p} : worker'[q] = worker[q]
      BY <1>1, <3>3 DEF TypeOK, Workers
    <3>5. /\ d \in Consumers /\ d.minimum = v /\ d.current = consumer[p].current
          /\ d.next = consumer[p].next /\ d.running = consumer[p].running
          /\ d.lifecycle = consumer[p].lifecycle /\ d.timer = consumer[p].timer
          /\ d.loops = consumer[p].loops /\ (d.pc = "apply" => consumer[p].pc = "apply")
      BY <1>1, <3>1, PolledKeeps DEF Consumers
    <3> HIDE DEF d
    <3>6. Floor(d) = v
      BY <1>1, <2>1, <2>3, <3>5 DEF Floor
    <3>7. Learns(consumer[p], consumer'[p])
      BY <1>1, <2>1, <2>3, <3>2, <3>5, <3>6 DEF Learns, Consumers
    <3>8. WorkerKnows(p)'
      <4>1. Floor(consumer[p])' = v
        BY <3>2, <3>6 DEF Floor
      <4> QED BY <2>1, <2>2, <3>4, <4>1 DEF WorkerKnows
    <3>9. ConsumerFollows(p)'
      BY <1>1, <2>1, <2>2, <3>2, <3>5 DEF ProcessSound, ConsumerFollows
    <3>10. LoopsSound(d)
      BY <1>1, <3>5 DEF ProcessSound, LoopsSound
    <3>11. ProcessSound(p)'
      BY <3>2, <3>8, <3>9, <3>10 DEF ProcessSound
    <3> HIDE DEF v
    <3> QED BY <1>1, <2>2, <3>2, <3>4, <3>7, <3>11, OneProcess
  <2>4. CASE ~(v > Floor(consumer[p]))
    <3>1. worker' = [worker EXCEPT ![p].pc = "deliver"] /\ UNCHANGED consumer
      BY <1>4, <2>4 DEF Publish
    <3>2. /\ worker'[p].pc = "deliver" /\ worker'[p].rev = v
          /\ \A q \in Processes \ {p} : worker'[q] = worker[q]
      BY <1>1, <3>1 DEF TypeOK, Workers
    <3>3. ProcessSound(p)'
      BY <1>1, <2>1, <2>2, <2>4, <3>1, <3>2
      DEF ProcessSound, WorkerKnows, ConsumerFollows, LoopsSound, Floor
    <3> HIDE DEF v
    <3> QED BY <1>1, <1>2, <2>2, <3>1, <3>2, <3>3, OneProcess
  <2> QED BY <2>3, <2>4
<1>5. CASE Deliver(p) \/ ReleaseFailedClaim(p)
  <2>1. worker' = [worker EXCEPT ![p] = NewWorker] /\ UNCHANGED <<authority, consumer, applied>>
    BY <1>5 DEF Deliver, ReleaseFailedClaim
  <2>2. worker'[p].pc = "idle" /\ \A q \in Processes \ {p} : worker'[q] = worker[q]
    BY <2>1 DEF TypeOK, NewWorker
  <2>3. EventsAreCommitted'
    <3>1. worker[p].rev \in Revisions /\ worker[p].rev <= authority
      BY <1>1, <1>5 DEF Deliver, ReleaseFailedClaim, ProcessSound, WorkerKnows
    <3>2. \A v \in Revisions \ {worker[p].rev} : event'[v] = event[v]
      BY <1>5 DEF Deliver, ReleaseFailedClaim, TypeOK
    <3> QED BY <2>1, <3>1, <3>2 DEF EventsAreCommitted
  <2>4. ProcessSound(p)'
    BY <1>1, <2>1, <2>2 DEF ProcessSound, WorkerKnows, ConsumerFollows, LoopsSound
  <2> QED BY <1>1, <1>2, <2>1, <2>2, <2>3, <2>4, OneProcess
<1> QED BY <1>3, <1>4, <1>5 DEF Dispatch

(* A step of the consumer of p to d that ends no poll.                      *)
LEMMA ConsumerGoes ==
    ASSUME ConvergenceInv, TypeOK', NEW p \in Processes, NEW d \in Consumers,
           consumer' = [consumer EXCEPT ![p] = d],
           UNCHANGED <<authority, event, worker, applied>>,
           d.current = consumer[p].current, d.minimum = consumer[p].minimum,
           d.next <= authority,
           d.pc = "apply" => d.next > d.current,
           LoopsSound(d)
    PROVE  ConvergenceInv' /\ Learnt
<1> USE DEF ConvergenceInv
<1>1. /\ worker[p] \in Workers /\ consumer[p] \in Consumers /\ authority \in Nat
      /\ ProcessSound(p)
  BY DEF TypeOK
<1>2. consumer'[p] = d /\ \A q \in Processes \ {p} : consumer'[q] = consumer[q]
  BY DEF TypeOK
<1>3. Floor(d) = Floor(consumer[p]) /\ Floor(d) \in Nat
  BY FloorIsNumber DEF Floor
<1>4. Learns(consumer[p], consumer'[p])
  BY <1>1, <1>2, <1>3 DEF Learns, Consumers
<1>5. WorkerKnows(p)'
  <2>1. Floor(consumer[p])' = Floor(consumer[p])
    BY <1>2, <1>3 DEF Floor
  <2> QED BY <1>1, <2>1 DEF ProcessSound, WorkerKnows
<1>6. ConsumerFollows(p)'
  BY <1>1, <1>2 DEF ProcessSound, ConsumerFollows
<1>7. ProcessSound(p)'
  BY <1>2, <1>5, <1>6 DEF ProcessSound
<1>8. EventsAreCommitted'
  BY DEF EventsAreCommitted
<1> QED BY <1>1, <1>2, <1>4, <1>7, <1>8, OneProcess

LEMMA ObserveStep ==
    ASSUME ConvergenceInv, TypeOK', NEW p \in Processes, Observe(p)
    PROVE  ConvergenceInv' /\ Learnt
<1> USE DEF ConvergenceInv
<1>1. /\ worker[p] \in Workers /\ consumer[p] \in Consumers /\ authority \in Nat
      /\ ProcessSound(p) /\ Floor(consumer[p]) \in Nat
  <2>1. consumer[p] \in Consumers
    BY DEF TypeOK
  <2> QED BY <2>1, FloorIsNumber DEF TypeOK
<1>2. Learns(consumer[p], consumer[p])
  BY <1>1 DEF Learns, Consumers
<1>3. CASE TimerFires(p)
  <2> DEFINE c == Waits([consumer[p] EXCEPT !.timer = 0], consumer[p].timer)
             d == Polled(c)
  <2>1. /\ c \in Consumers /\ c.timer = 0 /\ c.running = consumer[p].running
        /\ c.lifecycle = consumer[p].lifecycle
        /\ c.loops = consumer[p].loops \cup {consumer[p].timer}
        /\ c.current = consumer[p].current /\ c.minimum = consumer[p].minimum
        /\ c.next = consumer[p].next /\ c.pc = consumer[p].pc
    BY <1>1 DEF Consumers, Waits
  <2>2. consumer[p].timer # 0 /\ consumer' = [consumer EXCEPT ![p] = d]
        /\ UNCHANGED <<authority, event, worker, applied>>
    BY <1>3 DEF TimerFires
  <2>3. consumer[p].timer = consumer[p].lifecycle /\ consumer[p].timer \in Nat
        /\ consumer[p].lifecycle \in Nat
    BY <1>1, <2>2 DEF ProcessSound, LoopsSound, Consumers
  <2> HIDE DEF c
  <2>4. /\ d \in Consumers /\ d.timer = 0 /\ d.running = consumer[p].running
        /\ d.lifecycle = consumer[p].lifecycle
        /\ d.loops = consumer[p].loops \cup {consumer[p].timer}
        /\ d.current = consumer[p].current /\ d.minimum = consumer[p].minimum
        /\ d.next = consumer[p].next /\ (d.pc = "apply" => consumer[p].pc = "apply")
    BY <2>1, PolledKeeps DEF Consumers
  <2> HIDE DEF d
  <2>5. LoopsSound(d)
    <3>1. /\ consumer[p].loops \subseteq 1 .. consumer[p].lifecycle
          /\ consumer[p].running
      BY <1>1, <2>2, <2>3 DEF ProcessSound, LoopsSound
    <3> QED BY <2>2, <2>3, <2>4, <3>1 DEF LoopsSound
  <2>6. d.next <= authority /\ (d.pc = "apply" => d.next > d.current)
    BY <1>1, <2>4 DEF ProcessSound, ConsumerFollows
  <2> QED BY <2>2, <2>4, <2>5, <2>6, ConsumerGoes
<1>4. CASE ReadState(p)
  <2> DEFINE d == [consumer[p] EXCEPT !.pc = "check", !.next = authority]
  <2>1. consumer' = [consumer EXCEPT ![p] = d] /\ UNCHANGED <<authority, event, worker, applied>>
    BY <1>4, <1>1 DEF ReadState, TypeOK, Consumers
  <2>2. d \in Consumers
    BY <1>1 DEF Consumers
  <2>3. /\ d.pc = "check" /\ d.next = authority /\ d.current = consumer[p].current
        /\ d.minimum = consumer[p].minimum /\ d.loops = consumer[p].loops
        /\ d.timer = consumer[p].timer /\ d.running = consumer[p].running
        /\ d.lifecycle = consumer[p].lifecycle
    BY <1>1 DEF Consumers
  <2> HIDE DEF d
  <2>4. LoopsSound(d)
    BY <1>1, <2>3 DEF ProcessSound, LoopsSound
  <2>5. d.next <= authority
    BY <1>1, <2>3
  <2> QED BY <2>1, <2>2, <2>3, <2>4, <2>5, ConsumerGoes
<1>5. CASE Check(p)
  <2> DEFINE c == consumer[p]
  <2>1. UNCHANGED <<authority, event, applied>>
    BY <1>5 DEF Check
  <2>2. /\ c.current <= authority /\ c.minimum <= authority /\ c.next <= authority
        /\ \A b \in Boundaries : c.current <= applied[p][b]
        /\ c.current \in Nat /\ c.minimum \in Nat /\ c.next \in Nat
    BY <1>1 DEF ProcessSound, ConsumerFollows, Consumers
  <2>3. CASE c.next < c.current \/ c.next < c.minimum \/ (c.next = c.current /\ c.minimum = 0)
    <3>1. PollEnds(p, c, "deliver")
      BY <1>5, <2>3 DEF Check
    <3> QED BY <1>1, <1>2, <2>1, <2>2, <3>1, PollEndsSound
  <2>4. CASE ~(c.next < c.current \/ c.next < c.minimum) /\ c.next = c.current /\ c.minimum # 0
    <3> DEFINE d == [c EXCEPT !.minimum = 0]
    <3>1. PollEnds(p, d, "deliver")
      BY <1>5, <2>4 DEF Check
    <3>2. /\ d \in Consumers /\ d.minimum = 0 /\ d.current = c.current
          /\ d.loops = c.loops /\ d.timer = c.timer /\ d.running = c.running
          /\ d.lifecycle = c.lifecycle
      BY <1>1 DEF Consumers
    <3> HIDE DEF d
    <3>3. Floor(d) >= Floor(c)
      BY <2>2, <2>4, <3>2 DEF Floor
    <3>4. Learns(c, d)
      BY <2>2, <3>2, <3>3 DEF Learns
    <3>5. d.minimum <= authority
      BY <1>1, <3>2
    <3> HIDE DEF c
    <3> QED BY <2>1, <2>2, <3>1, <3>2, <3>4, <3>5, PollEndsSound DEF c
  <2>5. CASE ~(c.next < c.current \/ c.next < c.minimum) /\ c.next # c.current
    <3> DEFINE d == [c EXCEPT !.pc = "apply"]
    <3>1. consumer' = [consumer EXCEPT ![p] = d] /\ UNCHANGED worker
      BY <1>5, <2>5 DEF Check
    <3>2. /\ d \in Consumers /\ d.minimum = c.minimum /\ d.current = c.current
          /\ d.next = c.next
          /\ d.loops = c.loops /\ d.timer = c.timer /\ d.running = c.running
          /\ d.lifecycle = c.lifecycle
      BY <1>1 DEF Consumers
    <3> HIDE DEF d
    <3>3. d.next > d.current
      BY <2>2, <2>5, <3>2
    <3>4. LoopsSound(d)
      BY <1>1, <3>2 DEF ProcessSound, LoopsSound
    <3> QED BY <2>1, <2>2, <3>1, <3>2, <3>3, <3>4, ConsumerGoes
  <2> QED BY <2>3, <2>4, <2>5
<1>6. ASSUME NEW b \in Boundaries, Apply(p, b) PROVE ConvergenceInv' /\ Learnt
  <2>1. /\ applied' = [applied EXCEPT ![p][b] = consumer[p].next]
        /\ UNCHANGED <<authority, event, worker, consumer>>
        /\ applied[p][b] < consumer[p].next
    BY <1>6 DEF Apply
  <2>2. /\ \A q \in Processes \ {p} : applied'[q] = applied[q]
        /\ \A a \in Boundaries : applied'[p][a] >= applied[p][a] /\ applied[p][a] \in Nat
                                 /\ applied'[p][a] \in Nat
    <3>1. consumer[p].next \in Nat /\ \A a \in Boundaries : applied[p][a] \in Nat
      BY <1>1 DEF Consumers, TypeOK
    <3> QED BY <2>1, <3>1 DEF TypeOK
  <2>3. consumer[p].current \in Nat
    BY <1>1 DEF Consumers
  <2>4. ConsumerFollows(p)'
    BY <1>1, <2>1, <2>2, <2>3 DEF ProcessSound, ConsumerFollows
  <2>5. ProcessSound(p)'
    BY <1>1, <2>1, <2>4 DEF ProcessSound, WorkerKnows, LoopsSound, Floor
  <2>6. EventsAreCommitted'
    BY <2>1 DEF EventsAreCommitted
  <2> QED BY <1>1, <1>2, <2>1, <2>2, <2>5, <2>6, OneProcess
<1>7. CASE Advance(p)
  <2> DEFINE c == consumer[p]
             d == Advanced(c)
  <2>1. /\ PollEnds(p, d, "deliver") /\ UNCHANGED <<authority, event, applied>>
        /\ c.pc = "apply" /\ \A b \in Boundaries : applied[p][b] >= c.next
    BY <1>7 DEF Advance, AllApplied
  <2>2. /\ c.current < c.next /\ c.next <= authority /\ c.minimum <= authority
        /\ c.current \in Nat /\ c.minimum \in Nat /\ c.next \in Nat
    BY <1>1, <2>1 DEF ProcessSound, ConsumerFollows, Consumers
  <2>3. /\ d \in Consumers /\ d.current = c.next
        /\ d.minimum = (IF c.next >= c.minimum THEN 0 ELSE c.minimum)
        /\ d.loops = c.loops /\ d.timer = c.timer /\ d.running = c.running
        /\ d.lifecycle = c.lifecycle
    BY <1>1 DEF Consumers, Advanced
  <2> HIDE DEF d
  <2>4. Learns(c, d)
    BY <2>2, <2>3 DEF Learns, Floor
  <2>5. d.current <= authority /\ d.minimum <= authority
    BY <1>1, <2>2, <2>3
  <2>6. \A b \in Boundaries : d.current <= applied[p][b]
    BY <2>1, <2>2, <2>3 DEF TypeOK
  <2> QED BY <2>1, <2>3, <2>4, <2>5, <2>6, PollEndsSound
<1> QED BY <1>3, <1>4, <1>5, <1>6, <1>7 DEF Observe

LEMMA LifecycleStep ==
    ASSUME ConvergenceInv, TypeOK', NEW p \in Processes, Start(p) \/ Stop(p)
    PROVE  ConvergenceInv' /\ Learnt
<1> USE DEF ConvergenceInv
<1> DEFINE n == consumer[p].lifecycle + 1
<1>1. /\ consumer[p] \in Consumers /\ ProcessSound(p) /\ n \in Nat
  BY DEF TypeOK, Consumers
<1>2. consumer[p].loops \subseteq 1 .. consumer[p].lifecycle /\ consumer[p].lifecycle \in Nat
  BY <1>1 DEF ProcessSound, LoopsSound, Consumers
<1>3. n \notin consumer[p].loops /\ n # 0 /\ \A m \in consumer[p].loops : m \in 1 .. n
  BY <1>2
<1>4. /\ consumer[p].next <= authority
      /\ consumer[p].pc = "apply" => consumer[p].next > consumer[p].current
  BY <1>1 DEF ProcessSound, ConsumerFollows
<1>5. CASE Start(p)
  <2> DEFINE c == Waits([consumer[p] EXCEPT !.running = TRUE, !.lifecycle = n], n)
             d == Polled(c)
  <2>1. /\ consumer' = [consumer EXCEPT ![p] = d] /\ ~consumer[p].running
        /\ UNCHANGED <<authority, event, worker, applied>>
    BY <1>5 DEF Start
  <2> HIDE DEF n
  <2>2. /\ c \in Consumers /\ c.timer = consumer[p].timer /\ c.running = TRUE
        /\ c.lifecycle = n /\ c.loops = consumer[p].loops \cup {n}
        /\ c.current = consumer[p].current /\ c.minimum = consumer[p].minimum
        /\ c.next = consumer[p].next /\ c.pc = consumer[p].pc
    BY <1>1 DEF Consumers, Waits
  <2> HIDE DEF c
  <2>3. /\ d \in Consumers /\ d.timer = consumer[p].timer /\ d.running = TRUE
        /\ d.lifecycle = n /\ d.loops = consumer[p].loops \cup {n}
        /\ d.current = consumer[p].current /\ d.minimum = consumer[p].minimum
        /\ d.next = consumer[p].next /\ (d.pc = "apply" => consumer[p].pc = "apply")
    BY <2>2, PolledKeeps DEF Consumers
  <2> HIDE DEF d
  <2>4. consumer[p].timer = 0
    BY <1>1, <2>1 DEF ProcessSound, LoopsSound
  <2>5. LoopsSound(d)
    BY <1>1, <1>3, <2>3, <2>4 DEF LoopsSound
  <2>6. d.next <= authority /\ (d.pc = "apply" => d.next > d.current)
    BY <1>4, <2>3
  <2> QED BY <2>1, <2>3, <2>5, <2>6, ConsumerGoes
<1>6. CASE Stop(p)
  <2> DEFINE d == [consumer[p] EXCEPT !.running = FALSE, !.lifecycle = n, !.timer = 0]
  <2>1. consumer' = [consumer EXCEPT ![p] = d] /\ UNCHANGED <<authority, event, worker, applied>>
    BY <1>1, <1>6 DEF Stop, TypeOK, Consumers
  <2> HIDE DEF n
  <2>2. /\ d \in Consumers /\ d.timer = 0 /\ d.running = FALSE
        /\ d.lifecycle = n /\ d.loops = consumer[p].loops
        /\ d.current = consumer[p].current /\ d.minimum = consumer[p].minimum
        /\ d.next = consumer[p].next /\ d.pc = consumer[p].pc
    BY <1>1 DEF Consumers
  <2> HIDE DEF d
  <2>3. LoopsSound(d)
    BY <1>1, <1>3, <2>2 DEF LoopsSound
  <2>4. d.next <= authority /\ (d.pc = "apply" => d.next > d.current)
    BY <1>4, <2>2
  <2> QED BY <2>1, <2>2, <2>3, <2>4, ConsumerGoes
<1> QED BY <1>5, <1>6

LEMMA FaultStep ==
    ASSUME ConvergenceInv, TypeOK', NEW p \in Processes, Fails(p)
    PROVE  ConvergenceInv' /\ Learnt
<1> USE DEF ConvergenceInv
<1>1. /\ worker[p] \in Workers /\ consumer[p] \in Consumers /\ authority \in Nat
      /\ ProcessSound(p) /\ Floor(consumer[p]) \in Nat
  <2>1. consumer[p] \in Consumers
    BY DEF TypeOK
  <2> QED BY <2>1, FloorIsNumber DEF TypeOK
<1>2. Learns(consumer[p], consumer[p])
  BY <1>1 DEF Learns, Consumers
<1>3. CASE PublishTimesOut(p)
  <2>1. worker' = [worker EXCEPT ![p].pc = "fail"] /\ worker[p].pc = "polling"
        /\ UNCHANGED <<authority, event, consumer, applied>>
    BY <1>3 DEF PublishTimesOut
  <2>2. worker'[p].pc = "fail" /\ worker'[p].rev = worker[p].rev
        /\ \A q \in Processes \ {p} : worker'[q] = worker[q]
    BY <1>1, <2>1 DEF TypeOK, Workers
  <2>3. ProcessSound(p)'
    BY <1>1, <2>1, <2>2 DEF ProcessSound, WorkerKnows, ConsumerFollows, LoopsSound
  <2>4. EventsAreCommitted'
    BY <2>1 DEF EventsAreCommitted
  <2> QED BY <1>1, <1>2, <2>1, <2>2, <2>3, <2>4, OneProcess
<1>4. CASE ReadFails(p) \/ ApplyFails(p)
  <2> DEFINE c == consumer[p]
  <2>1. PollEnds(p, c, "fail") /\ UNCHANGED <<authority, event, applied>>
    BY <1>4 DEF ReadFails, ApplyFails
  <2>2. /\ c.current <= authority /\ c.minimum <= authority
        /\ \A b \in Boundaries : c.current <= applied[p][b]
    BY <1>1 DEF ProcessSound, ConsumerFollows
  <2> QED BY <1>1, <1>2, <2>1, <2>2, PollEndsSound
<1>5. CASE Restart(p)
  <2>1. /\ consumer' = [consumer EXCEPT ![p] = NewConsumer]
        /\ worker' = [worker EXCEPT ![p] = NewWorker]
        /\ applied' = [applied EXCEPT ![p] = [b \in Boundaries |-> 0]]
        /\ UNCHANGED <<authority, event>>
    BY <1>5 DEF Restart
  <2>2. /\ consumer'[p] = NewConsumer /\ worker'[p] = NewWorker
        /\ applied'[p] = [b \in Boundaries |-> 0]
        /\ \A q \in Processes \ {p} :
              consumer'[q] = consumer[q] /\ worker'[q] = worker[q] /\ applied'[q] = applied[q]
    BY <2>1 DEF TypeOK
  <2>3. ProcessSound(p)'
    BY <1>1, <2>1, <2>2
    DEF ProcessSound, WorkerKnows, ConsumerFollows, LoopsSound, NewWorker, NewConsumer
  <2>4. EventsAreCommitted'
    BY <2>1 DEF EventsAreCommitted
  <2> QED BY <1>1, <2>1, <2>2, <2>3, <2>4, OneProcess
<1> QED BY <1>3, <1>4, <1>5 DEF Fails

LEMMA InvStep ==
    ASSUME ConvergenceInv, [Next]_vars
    PROVE  ConvergenceInv' /\ Learnt
<1>1. TypeOK'
  BY TypeStep DEF ConvergenceInv
<1>2. ASSUME UNCHANGED <<worker, consumer, applied>>, authority' >= authority, EventsAreCommitted'
      PROVE  ConvergenceInv' /\ Learnt
  <2>1. /\ \A p \in Processes : ProcessSound(p)'
        /\ \A p \in Processes : Learns(consumer[p], consumer'[p])
    <3> SUFFICES ASSUME NEW p \in Processes
                 PROVE  ProcessSound(p)' /\ Learns(consumer[p], consumer'[p])
      OBVIOUS
    <3>1. /\ worker[p] \in Workers /\ consumer[p] \in Consumers
          /\ authority \in Nat /\ authority' \in Nat /\ ProcessSound(p)
      BY <1>1 DEF ConvergenceInv, TypeOK
    <3>2. Floor(consumer[p]) \in Nat
      BY <3>1, FloorIsNumber
    <3>3. ConsumerFollows(p)'
      BY <1>2, <3>1 DEF ProcessSound, ConsumerFollows, Consumers
    <3>4. WorkerKnows(p)'
      BY <1>2, <3>1 DEF ProcessSound, WorkerKnows, Workers, Floor
    <3>5. LoopsSound(consumer'[p])
      BY <1>2, <3>1 DEF ProcessSound
    <3> QED BY <1>2, <3>1, <3>2, <3>3, <3>4, <3>5 DEF ProcessSound, Learns, Consumers
  <2> QED BY <1>1, <1>2, <2>1 DEF ConvergenceInv, Learnt
<1>3. authority \in Nat /\ EventsAreCommitted
  BY DEF ConvergenceInv, TypeOK
<1>4. CASE Revise
  <2>1. authority' = authority + 1 /\ UNCHANGED <<worker, consumer, applied>>
    BY <1>4 DEF Revise
  <2>2. EventsAreCommitted'
    <3>1. \A v \in Revisions \ {authority + 1} : event'[v] = event[v]
      BY <1>4 DEF Revise, ConvergenceInv, TypeOK
    <3>2. \A v \in Revisions : v <= authority => v <= authority'
      BY <1>3, <2>1 DEF Revisions
    <3> QED BY <1>3, <2>1, <3>1, <3>2 DEF EventsAreCommitted, Revisions
  <2> QED BY <1>2, <1>3, <2>1, <2>2
<1>5. ASSUME NEW v \in Revisions, DeadLetterExhausted(v) \/ LeaseExpires(v)
      PROVE  ConvergenceInv' /\ Learnt
  <2>1. UNCHANGED <<authority, worker, consumer, applied>>
    BY <1>5 DEF DeadLetterExhausted, LeaseExpires
  <2>2. EventsAreCommitted'
    <3>1. CASE DeadLetterExhausted(v)
      <4>1. event[v].status # "none"
        BY <3>1 DEF DeadLetterExhausted, Free
      <4>2. \A w \in Revisions \ {v} : event'[w] = event[w]
        BY <3>1 DEF DeadLetterExhausted, ConvergenceInv, TypeOK
      <4> QED BY <1>3, <2>1, <4>1, <4>2 DEF EventsAreCommitted
    <3>2. CASE LeaseExpires(v)
      <4>1. \A w \in Revisions : event'[w].status = event[w].status
        BY <3>2 DEF LeaseExpires, ConvergenceInv, TypeOK, Events
      <4> QED BY <1>3, <2>1, <4>1 DEF EventsAreCommitted
    <3> QED BY <1>5, <3>1, <3>2
  <2> QED BY <1>2, <1>3, <2>1, <2>2
<1>6. CASE UNCHANGED vars
  <2>1. UNCHANGED <<authority, event, worker, consumer, applied>>
    BY <1>6 DEF vars
  <2>2. EventsAreCommitted'
    BY <1>3, <2>1 DEF EventsAreCommitted
  <2> QED BY <1>2, <1>3, <2>1, <2>2
<1>7. ASSUME NEW p \in Processes, Dispatch(p) \/ Observe(p) \/ Start(p) \/ Stop(p) \/ Fails(p)
      PROVE  ConvergenceInv' /\ Learnt
  BY <1>1, <1>7, DispatchStep, ObserveStep, LifecycleStep, FaultStep
<1> QED BY <1>4, <1>5, <1>6, <1>7 DEF Next

LEMMA Invariance == Spec => []ConvergenceInv
<1>1. ConvergenceInv /\ [Next]_vars => ConvergenceInv'
  BY InvStep
<1> QED BY InvInit, <1>1, PTL DEF Spec

(* The variables of RevisionConvergence keep their types. *)
THEOREM TypeCorrect == Spec => []TypeOK
<1>1. TypeOK /\ [Next]_vars => TypeOK'
  BY TypeStep
<1> QED BY TypeInit, <1>1, PTL DEF Spec

(* The snapshot a consumer shows is applied at every boundary and, like its *)
(* floor, was committed: of RuntimeAuthorizationRevisionConsumer, for any    *)
(* number of processes, invalidations and faults.                           *)
THEOREM SnapshotApplied == Spec => []SnapshotIsApplied
<1>1. ConvergenceInv => SnapshotIsApplied
  <2> SUFFICES ASSUME ConvergenceInv, NEW p \in Processes
               PROVE  /\ \A b \in Boundaries : consumer[p].current <= applied[p][b]
                      /\ Floor(consumer[p]) <= authority
    BY DEF SnapshotIsApplied
  <2>1. ConsumerFollows(p)
    BY DEF ConvergenceInv, ProcessSound
  <2> QED BY <2>1 DEF ConsumerFollows, Floor
<1> QED BY Invariance, <1>1, PTL

(* start(), stop() and the polls leave one recovery loop to a running       *)
(* consumer and none to a stopped one, in whatever order they come.         *)
THEOREM RecoveryLoopIsOne == Spec => []OneRecoveryLoop
<1>1. ConvergenceInv => OneRecoveryLoop
  BY DEF ConvergenceInv, ProcessSound, LoopsSound, OneRecoveryLoop
<1> QED BY Invariance, <1>1, PTL

(* observe() and invalidate() never take back what a process has learnt,    *)
(* and deliver() marks only what the process of the claim has learnt.       *)
THEOREM NothingIsUnlearnt == Spec => NothingUnlearnt
<1> DEFINE K == \A p \in Processes : consumer'[p] # NewConsumer =>
                   /\ consumer'[p].current >= consumer[p].current
                   /\ Floor(consumer'[p]) >= Floor(consumer[p])
           D == \A v \in Revisions : \A p \in Processes :
                   /\ event[v].status = "processing" /\ event'[v].status = "delivered"
                   /\ event[v].token = p
                   => Floor(consumer[p]) >= v
<1>1. ConvergenceInv /\ [Next]_vars => [K]_vars
  BY InvStep DEF Learnt, Learns
<1>2. ConvergenceInv /\ [Next]_vars => [D]_vars
  <2> SUFFICES ASSUME ConvergenceInv, Next, NEW v \in Revisions, NEW p \in Processes,
                      event[v].status = "processing", event'[v].status = "delivered",
                      event[v].token = p
               PROVE  Floor(consumer[p]) >= v
    OBVIOUS
  <2>1. PICK q \in Processes : Deliver(q)
    <3> USE DEF ConvergenceInv, TypeOK
    <3>1. ~Revise
      BY DEF Revise, Events
    <3>2. ASSUME NEW w \in Revisions, DeadLetterExhausted(w) \/ LeaseExpires(w) PROVE FALSE
      BY <3>2 DEF DeadLetterExhausted, LeaseExpires, Closed, NoEvent, Events
    <3>3. ASSUME NEW q \in Processes, Observe(q) \/ Start(q) \/ Stop(q) \/ Fails(q) PROVE FALSE
      BY <3>3 DEF Observe, TimerFires, ReadState, Check, Apply, Advance, Start, Stop, Fails,
                  PublishTimesOut, ReadFails, ApplyFails, Restart
    <3>4. ASSUME NEW q \in Processes, Claim(q) \/ Publish(q) \/ ReleaseFailedClaim(q) PROVE FALSE
      <4>1. ~Claim(q) /\ ~Publish(q)
        BY DEF Claim, Publish
      <4>2. ~ReleaseFailedClaim(q)
        <5>1. ASSUME ReleaseFailedClaim(q)
              PROVE  event'[v] \in {event[v], Closed("dead-letter"),
                         [event[v] EXCEPT !.status = "pending", !.token = Nobody, !.live = FALSE]}
          BY <5>1 DEF ReleaseFailedClaim
        <5>2. Closed("dead-letter").status = "dead-letter"
          BY DEF Closed, NoEvent
        <5>3. [event[v] EXCEPT !.status = "pending", !.token = Nobody,
                               !.live = FALSE].status = "pending"
          BY DEF Events
        <5> QED BY <5>1, <5>2, <5>3
      <4> QED BY <3>4, <4>1, <4>2
    <3> QED BY <3>1, <3>2, <3>3, <3>4 DEF Next, Dispatch
  <2>2. Claims(q) /\ v = worker[q].rev /\ worker[q].pc = "deliver"
    BY <2>1 DEF Deliver, ConvergenceInv, TypeOK
  <2>3. q = p
    BY <2>2 DEF Claims
  <2> QED BY <2>2, <2>3 DEF ConvergenceInv, ProcessSound, WorkerKnows
<1> QED BY Invariance, <1>1, <1>2, PTL DEF Spec, NothingUnlearnt, KnowledgeKept, DeliveredIsKnown

=============================================================================
