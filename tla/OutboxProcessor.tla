---------------------------- MODULE OutboxProcessor ----------------------------
(***************************************************************************)
(* processNextPayloadOutboxEvent (packages/payload-adapter/src/            *)
(* outbox-processor.ts) with the realtime relay as its subscriber          *)
(* (outbox-realtime-relay.ts).  Several calls, in several processes, claim  *)
(* the events of k_nex_outbox, publish them and settle their rows.  Every   *)
(* statement is one action: between two of them a call may stall for as    *)
(* long as it likes, and the lease of its claim may end meanwhile.          *)
(*                                                                         *)
(* The partition predicate of a consumer is left out: Events are those of   *)
(* one partition.  Time is the order in which rows become eligible.         *)
(***************************************************************************)
EXTENDS Naturals

CONSTANTS
    Events,      \* events of one partition
    Projected,   \* those the relay has a message for
    Callers,     \* concurrent calls of the processor
    NoCaller,    \* a row is claimed by nobody
    NoEvent,     \* a call has claimed nothing
    Ceilings,    \* values of maxAttempts the callers are configured with
    MaxFaults    \* bound on calls that end early

ASSUME OutboxAssumption ==
    /\ Projected \subseteq Events
    /\ NoCaller \notin Callers
    /\ NoEvent \notin Events
    /\ Ceilings \subseteq Nat \ {0}
    /\ MaxFaults \in Nat

VARIABLES
    row,         \* k_nex_outbox: status, attempt_count, claim_token, checkpoint
    due,         \* rows whose available_at or lease_expires_at has passed
    ahead,       \* for a row that is due, those that were due before it
    call,        \* the calls under way
    published,   \* history: the attempts that published an event
    faults       \* faults so far

vars == <<row, due, ahead, call, published, faults>>

(* claim_token is random for every call: the caller stands for it.  The    *)
(* checkpoint is the attempt that stored it, 0 when there is none.          *)
NewRow == [status |-> "pending", attempts |-> 0, token |-> NoCaller, checkpoint |-> 0]

NoCall == [pc |-> "idle", event |-> NoEvent, attempt |-> 0, ceiling |-> 0, seen |-> FALSE]

Settled(e) == row[e].status \in {"delivered", "dead-letter"}

-----------------------------------------------------------------------------
(* Eligibility: ORDER BY available_at or lease_expires_at. *)

Enters(e) ==
    /\ due' = due \cup {e}
    /\ ahead' = [ahead EXCEPT ![e] = due]

Leaves(e) ==
    /\ due' = due \ {e}
    /\ ahead' = [f \in Events |-> IF f = e THEN {} ELSE ahead[f] \ {e}]

(* What became eligible last is served first.                               *)
Latest(e, rows) == e \in rows /\ \A f \in rows : e \notin ahead[f]

Earliest(e, rows) == e \in rows /\ ahead[e] \cap rows = {}

BecomesDue(e) ==
    /\ row[e].status \in {"pending", "processing"}
    /\ e \notin due
    /\ Enters(e)
    /\ UNCHANGED <<row, call, published, faults>>

(* writeTransactionalOutboxEvent(): the row appears with its transaction.   *)
(* Events arrive for ever: the place of a settled one is taken by another,  *)
(* once no call works on the first.                                         *)
Insert(e) ==
    /\ row[e].status = "absent" \/ Settled(e)
    /\ \A w \in Callers : call[w].event # e
    /\ row' = [row EXCEPT ![e] = NewRow]
    /\ published' = [published EXCEPT ![e] = {}]
    /\ Enters(e)
    /\ UNCHANGED <<call, faults>>

-----------------------------------------------------------------------------
(* deadLetterExhaustedClaim() and claim(), with FOR UPDATE SKIP LOCKED. *)

Exhausted(ceiling) ==
    {e \in Events : /\ row[e].attempts >= ceiling
                    /\ \/ row[e].status = "pending"
                       \/ row[e].status = "processing" /\ e \in due}

DeadLetterExhaustedClaim(w, ceiling) ==
    /\ call[w].pc = "idle"
    /\ IF Exhausted(ceiling) = {}
       THEN /\ call' = [call EXCEPT ![w] = [NoCall EXCEPT !.pc = "claim",
                                                         !.ceiling = ceiling]]
            /\ UNCHANGED <<row, due, ahead>>
       ELSE /\ \E e \in Exhausted(ceiling) :
                  /\ \/ Earliest(e, Exhausted(ceiling) \cap due)
                     \/ Exhausted(ceiling) \cap due = {}
                  /\ row' = [row EXCEPT ![e].status = "dead-letter",
                                        ![e].token = NoCaller]
                  /\ Leaves(e)
            /\ UNCHANGED call
    /\ UNCHANGED <<published, faults>>

(* One attempt more than allowed.                                           *)
AllowsOneMore(ceiling) ==
    {e \in due : /\ row[e].attempts <= ceiling
                 /\ row[e].status \in {"pending", "processing"}}

(* The claim of a row that is taken, whether its lease has ended or not.    *)
IgnoresLeases(ceiling) ==
    {e \in Events : /\ row[e].attempts < ceiling
                    /\ row[e].status \in {"pending", "processing"}}

Claimable(ceiling) ==
    {e \in due : /\ row[e].attempts < ceiling
                 /\ row[e].status \in {"pending", "processing"}}

Claim(w) ==
    /\ call[w].pc = "claim"
    /\ LET rows == Claimable(call[w].ceiling)
       IN  IF rows = {}
           THEN /\ call' = [call EXCEPT ![w] = NoCall]
                /\ UNCHANGED <<row, due, ahead>>
           ELSE \E e \in rows :
                   /\ Earliest(e, rows)
                   /\ row' = [row EXCEPT ![e].status = "processing",
                                         ![e].attempts = @ + 1,
                                         ![e].token = w]
                   /\ call' = [call EXCEPT ![w] =
                                 [pc |-> "subscriber", event |-> e,
                                  attempt |-> row[e].attempts + 1,
                                  ceiling |-> call[w].ceiling,
                                  seen |-> row[e].checkpoint # 0]]
                   /\ Leaves(e)
    /\ UNCHANGED <<published, faults>>

-----------------------------------------------------------------------------
(* The subscriber, and the statements that need the claim. *)

(* The row of a claim is looked up by the event alone ...                   *)
OwnsByEvent(w) == row[call[w].event].status = "processing"

(* ... or by whether it was claimed at all.                                 *)
OwnsOnce(w) == row[call[w].event].attempts > 0

Owns(w) == row[call[w].event].status = "processing" /\ row[call[w].event].token = w

To(w, pc) == call' = [call EXCEPT ![w].pc = pc]

(* A later attempt takes the earlier publication for granted.               *)
SkipsOnRetry(w) ==
    /\ call[w].pc = "subscriber"
    /\ \/ call[w].seen
       \/ call[w].attempt > 1
       \/ call[w].event \notin Projected
    /\ To(w, "deliver")
    /\ UNCHANGED <<row, due, ahead, published, faults>>

(* The relay has nothing to do: it published before, or has no message.     *)
SkipPublication(w) ==
    /\ call[w].pc = "subscriber"
    /\ call[w].seen \/ call[w].event \notin Projected
    /\ To(w, "deliver")
    /\ UNCHANGED <<row, due, ahead, published, faults>>

Publish(w) ==
    /\ call[w].pc = "subscriber"
    /\ ~call[w].seen
    /\ call[w].event \in Projected
    /\ published' = [published EXCEPT ![call[w].event] = @ \cup {call[w].attempt}]
    /\ To(w, "checkpoint")
    /\ UNCHANGED <<row, due, ahead, faults>>

(* The event cannot be read, or the gateway fails, after it published or    *)
(* before.                                                                  *)
SubscriberFails(w) ==
    /\ call[w].pc = "subscriber"
    /\ \/ UNCHANGED published
       \/ /\ ~call[w].seen
          /\ call[w].event \in Projected
          /\ published' = [published EXCEPT ![call[w].event] = @ \cup {call[w].attempt}]
    /\ To(w, "fail")
    /\ UNCHANGED <<row, due, ahead, faults>>

(* saveCheckpoint() also renews the lease; without the claim it throws.     *)
Stores(w) ==
    /\ row' = [row EXCEPT ![call[w].event].checkpoint = call[w].attempt]
    /\ Leaves(call[w].event)

SaveCheckpoint(w) ==
    /\ call[w].pc = "checkpoint"
    /\ IF Owns(w)
       THEN Stores(w) /\ To(w, "deliver")
       ELSE /\ To(w, "fail")
            /\ UNCHANGED <<row, due, ahead>>
    /\ UNCHANGED <<published, faults>>

Delivers(w) ==
    /\ row' = [row EXCEPT ![call[w].event].status = "delivered",
                          ![call[w].event].token = NoCaller]
    /\ Leaves(call[w].event)

Deliver(w) ==
    /\ call[w].pc = "deliver"
    /\ IF Owns(w) THEN Delivers(w) ELSE UNCHANGED <<row, due, ahead>>
    /\ call' = [call EXCEPT ![w] = NoCall]
    /\ UNCHANGED <<published, faults>>

(* The checkpoint or the delivery fails in the try block: before it took    *)
(* effect, or after, when only its answer is lost.                          *)
StatementFails(w) ==
    /\ call[w].pc \in {"checkpoint", "deliver"}
    /\ faults < MaxFaults
    /\ faults' = faults + 1
    /\ \/ UNCHANGED <<row, due, ahead>>
       \/ call[w].pc = "checkpoint" /\ Owns(w) /\ Stores(w)
       \/ call[w].pc = "deliver" /\ Owns(w) /\ Delivers(w)
    /\ To(w, "fail")
    /\ UNCHANGED published

(* The retry is scheduled, or the last attempt is dead-lettered.            *)
Fail(w) ==
    /\ call[w].pc = "fail"
    /\ LET e == call[w].event
           last == call[w].attempt >= call[w].ceiling
       IN  IF Owns(w)
           THEN /\ row' = [row EXCEPT ![e].status = IF last THEN "dead-letter"
                                                            ELSE "pending",
                                      ![e].token = NoCaller]
                /\ Leaves(e)
           ELSE UNCHANGED <<row, due, ahead>>
    /\ call' = [call EXCEPT ![w] = NoCall]
    /\ UNCHANGED <<published, faults>>

(* The process dies, or a statement outside the try block fails.            *)
CallEnds(w) ==
    /\ call[w].pc # "idle"
    /\ faults < MaxFaults
    /\ faults' = faults + 1
    /\ call' = [call EXCEPT ![w] = NoCall]
    /\ UNCHANGED <<row, due, ahead, published>>

-----------------------------------------------------------------------------
Init ==
    /\ row = [e \in Events |-> [NewRow EXCEPT !.status = "absent"]]
    /\ due = {}
    /\ ahead = [e \in Events |-> {}]
    /\ call = [w \in Callers |-> NoCall]
    /\ published = [e \in Events |-> {}]
    /\ faults = 0

Begin(w) == \E ceiling \in Ceilings : DeadLetterExhaustedClaim(w, ceiling)

Proceed(w) ==
    \/ Claim(w)
    \/ SkipPublication(w)
    \/ Publish(w)
    \/ SubscriberFails(w)
    \/ SaveCheckpoint(w)
    \/ Deliver(w)
    \/ Fail(w)

Next ==
    \/ \E e \in Events : Insert(e) \/ BecomesDue(e)
    \/ \E w \in Callers : Begin(w) \/ Proceed(w) \/ StatementFails(w) \/ CallEnds(w)

Spec == Init /\ [][Next]_vars

(* Time passes, the hosts keep calling, and a call proceeds: publication    *)
(* settles, one way or the other.                                           *)
FairSpec ==
    /\ Spec
    /\ \A e \in Events : WF_vars(BecomesDue(e))
    /\ \A w \in Callers : WF_vars(Begin(w)) /\ WF_vars(Proceed(w))

-----------------------------------------------------------------------------
Rows == [status : {"absent", "pending", "processing", "delivered", "dead-letter"},
         attempts : Nat, token : Callers \cup {NoCaller}, checkpoint : Nat]

Calls == [pc : {"idle", "claim", "subscriber", "checkpoint", "deliver", "fail"},
          event : Events \cup {NoEvent}, attempt : Nat, ceiling : Ceilings \cup {0},
          seen : BOOLEAN]

TypeOK ==
    /\ row \in [Events -> Rows]
    /\ \A e \in Events : \E c \in Ceilings \cup {0} : row[e].attempts <= c
    /\ \A e \in Events : row[e].status = "processing" <=> row[e].token # NoCaller
    /\ due \subseteq Events
    /\ ahead \in [Events -> SUBSET Events]
    /\ call \in [Callers -> Calls]
    /\ published \in [Events -> SUBSET Nat]
    /\ faults \in 0..MaxFaults

(* An event that is delivered was published, if there is a message for it:  *)
(* the stored checkpoint that lets a later attempt skip the publication was *)
(* stored by one that published, and never by one that lost its claim.      *)
DeliveredWasPublished ==
    \A e \in Events \cap Projected :
        row[e].status = "delivered" \/ row[e].checkpoint # 0 => published[e] # {}

(* Once a checkpoint is stored no later attempt publishes again: only those *)
(* up to the one that stored it have, however many stale calls still run.   *)
CheckpointStopsPublication ==
    \A e \in Events : row[e].checkpoint # 0 =>
        \A n \in published[e] : n <= row[e].checkpoint

(* No claim publishes twice, and nothing publishes without a claim: no two  *)
(* calls that may publish share an attempt.                                 *)
OneCallPerAttempt ==
    \A w \in Callers : call[w].pc = "subscriber" =>
        /\ call[w].attempt <= row[call[w].event].attempts
        /\ call[w].attempt \notin published[call[w].event]
        /\ \A x \in Callers \ {w} :
              call[x].event = call[w].event => call[x].attempt # call[w].attempt

(* What is published, by whom, how often and when that counts, however      *)
(* calls fail and overlap.                                                  *)
PublicationIsCounted ==
    DeliveredWasPublished /\ CheckpointStopsPublication /\ OneCallPerAttempt

(* Work is given up only when the attempts some caller allows are used up.  *)
DeadLetterIsExhausted ==
    \A e \in Events : row[e].status = "dead-letter" =>
        \E c \in Ceilings : row[e].attempts >= c

(* Only the current token may checkpoint, deliver, retry or dead-letter an  *)
(* event whose lease lives: whatever a stale call does, and whatever the    *)
(* ceilings of others, such a row changes by a step of its holder alone.    *)
LiveClaimIsExclusive ==
    [][\A e \in Events :
          row[e].status = "processing" /\ e \notin due /\ row'[e] # row[e]
             => call[row[e].token].event = e /\ call'[row[e].token] # call[row[e].token]
      ]_vars

(* A settled row stays settled, until a new event takes its place: a late   *)
(* retry does not reopen what another attempt delivered, nor does a late    *)
(* delivery settle what was dead-lettered.                                  *)
SettledStays == [][\A e \in Events : Settled(e) => row'[e] \in {row[e], NewRow}]_vars

(* A live claim and a settled row are out of reach of stale calls. *)
StaleCallsChangeNothing == LiveClaimIsExclusive /\ SettledStays

(* Every event is delivered or dead-lettered although new events keep       *)
(* arriving: an expired lease is delayed only by rows that became eligible  *)
(* before it.                                                               *)
EventsSettle ==
    \A e \in Events : row[e].status \in {"pending", "processing"} ~> Settled(e)

=============================================================================
