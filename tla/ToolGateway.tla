------------------------------- MODULE ToolGateway -------------------------------
(***************************************************************************)
(* ToolExecutionGateway (packages/runtime/src/tool-gateway.ts) with its    *)
(* in-memory stages: the concurrency of the budget (tool-budget.ts), per-  *)
(* call approvals (tool-approval.ts) and idempotency (tool-idempotency.ts).*)
(* They share one process, and every await lets another call in.           *)
(*                                                                         *)
(* One tool that writes and asks for approval, of one principal in one     *)
(* application.  The stages before the budget decide and change nothing    *)
(* here; rate, burst and calls per run are left out.                       *)
(***************************************************************************)
EXTENDS Integers, FiniteSets

CONSTANTS
    Calls,            \* requests to execute()
    Keys,             \* idempotency keys
    Inputs,           \* normalized inputs, by digest
    Approvals,        \* approval ids
    Nobody,
    MaxConcurrency,
    MaxRecords        \* of idempotency

ASSUME GatewayAssumption ==
    /\ Nobody \notin Calls
    /\ IsFiniteSet(Calls) /\ IsFiniteSet(Approvals)
    /\ Inputs # {}
    /\ MaxConcurrency \in Nat \ {0}
    /\ MaxRecords \in Nat \ {0}

VARIABLES
    call,        \* what execute() is at, and what its handler is at
    entry,       \* entries of InMemoryToolIdempotencyCoordinator
    approval,    \* records and pending of InMemoryToolApprovalEvaluator
    active,      \* active of BoundedToolRiskBudgetEvaluator
    dispatched,  \* history: the calls dispatched in the retention of a key
    raced        \* history: an entry was registered over another of that key, and a
                 \* claim of them may still be dispatched

vars == <<call, entry, approval, active, dispatched, raced>>

NewCall(k, i, a) == [pc |-> "idle", key |-> k, input |-> i, approval |-> a, aborted |-> FALSE,
                     handler |-> "none", result |-> Nobody, spent |-> FALSE]

NoEntry == [owner |-> Nobody, state |-> "none", input |-> CHOOSE i \in Inputs : TRUE, expired |-> FALSE]

NoRecord == [status |-> "none", input |-> CHOOSE i \in Inputs : TRUE, expired |-> FALSE]

Goto(c, pc) == call' = [call EXCEPT ![c].pc = pc]

(* Before the dispatch execute() ends with the release of its lease.        *)
Release == active' = active - 1

Refuse(c) == Goto(c, "refused") /\ Release

-----------------------------------------------------------------------------
(* The budget. *)

Admit(c) ==
    /\ call[c].pc = "idle"
    /\ IF active < MaxConcurrency
       THEN Goto(c, "approve") /\ active' = active + 1
       ELSE Goto(c, "refused") /\ UNCHANGED active
    /\ UNCHANGED <<entry, approval, dispatched, raced>>

Abort(c) ==
    /\ call[c].pc \notin {"idle", "refused", "answered"}
    /\ call' = [call EXCEPT ![c].aborted = TRUE]
    /\ UNCHANGED <<entry, approval, active, dispatched, raced>>

-----------------------------------------------------------------------------
(* Approvals. *)

(* purgeExpired(): a record that is being used, or was, stays.              *)
PurgedUsed ==
    [a \in Approvals |-> IF approval[a].status \in {"held", "used"} /\ approval[a].expired
                         THEN NoRecord ELSE approval[a]]

PurgedRecords ==
    [a \in Approvals |-> IF approval[a].status = "held" /\ approval[a].expired
                         THEN NoRecord ELSE approval[a]]

(* submitApproval() holds a lease while the issuer is asked.                *)
Submit(a, i) ==
    /\ active < MaxConcurrency
    /\ PurgedRecords[a].status = "none"
    /\ approval' = [PurgedRecords EXCEPT ![a] = [NoRecord EXCEPT !.status = "pending", !.input = i]]
    /\ active' = active + 1
    /\ UNCHANGED <<call, entry, dispatched, raced>>

IssuerAnswers(a) ==
    /\ approval[a].status = "pending"
    /\ \/ approval' = [approval EXCEPT ![a].status = "held"]
       \/ approval' = [approval EXCEPT ![a] = NoRecord]
    /\ Release
    /\ UNCHANGED <<call, entry, dispatched, raced>>

ApprovalExpires(a) ==
    /\ approval[a].status \in {"held", "consuming", "used"} /\ ~approval[a].expired
    /\ approval' = [approval EXCEPT ![a].expired = TRUE]
    /\ UNCHANGED <<call, entry, active, dispatched, raced>>

(* evaluate(), up to the digest of the input and from there.                *)
Available(a) == PurgedRecords[a].status = "held"

Evaluate(c) ==
    LET a == call[c].approval IN
    /\ call[c].pc = "approve"
    /\ IF Available(a)
       THEN /\ approval' = [PurgedRecords EXCEPT ![a].status = "consuming"]
            /\ Goto(c, "digest") /\ UNCHANGED active
       ELSE approval' = PurgedRecords /\ Refuse(c)
    /\ UNCHANGED <<entry, dispatched, raced>>

Consume(c) ==
    LET a == call[c].approval IN
    /\ call[c].pc = "digest"
    /\ IF approval[a].input = call[c].input
       THEN /\ approval' = [approval EXCEPT ![a].status = "used"]
            /\ call' = [call EXCEPT ![c].pc = "claim", ![c].spent = TRUE]
            /\ UNCHANGED active
       ELSE approval' = [approval EXCEPT ![a].status = "held"] /\ Refuse(c)
    /\ UNCHANGED <<entry, dispatched, raced>>

-----------------------------------------------------------------------------
(* Idempotency: claim() looks its key up after one await and registers its  *)
(* entry after another.                                                     *)

(* The claims that were made under a key and are yet to be dispatched.      *)
Undispatched(k) == {c \in Calls : call[c].key = k /\ call[c].pc \in {"claimed", "audit"}}

Purge(c) ==
    LET gone == {k \in Keys : entry[k].state # "pending" /\ entry[k].expired} IN
    /\ call[c].pc = "claim"
    /\ entry' = [k \in Keys |-> IF k \in gone THEN NoEntry ELSE entry[k]]
    /\ dispatched' = [k \in Keys |-> IF k \in gone THEN {} ELSE dispatched[k]]
    /\ raced' = [k \in Keys |-> raced[k] /\ (k \in gone => Undispatched(k) # {})]
    /\ Goto(c, "lookup")
    /\ UNCHANGED <<approval, active>>

Entries == {k \in Keys : entry[k].state # "none"}

(* An entry that is under way or uncertain is taken for a result.           *)
FailsOnConflict(c) ==
    LET e == entry[call[c].key] IN e.state # "none" /\ e.input # call[c].input

LookupFails(c) ==
    LET e == entry[call[c].key] IN
    IF e.state = "none" THEN Cardinality(Entries) >= MaxRecords
    ELSE e.input # call[c].input \/ e.state # "completed"

Lookup(c) ==
    LET e == entry[call[c].key] IN
    /\ call[c].pc = "lookup"
    /\ IF LookupFails(c) \/ (e.state # "none" /\ call[c].aborted) THEN Refuse(c)
       ELSE /\ call' = [call EXCEPT ![c].pc = IF e.state = "none" THEN "register" ELSE "replay",
                                    ![c].result = e.owner]
            /\ UNCHANGED active
    /\ UNCHANGED <<entry, approval, dispatched, raced>>

Register(c) ==
    LET k == call[c].key IN
    /\ call[c].pc = "register"
    /\ entry' = [entry EXCEPT ![k] = [owner |-> c, state |-> "pending", input |-> call[c].input, expired |-> FALSE]]
    /\ raced' = [raced EXCEPT ![k] = @ \/ entry[k].state # "none"]
    /\ Goto(c, "claimed")
    /\ UNCHANGED <<approval, active, dispatched>>

(* The claim acts on its own entry alone, and while that is pending.        *)
Owns(c) == entry[call[c].key].owner = c /\ entry[call[c].key].state = "pending"

SetEntry(c, value) == entry' = IF Owns(c) THEN [entry EXCEPT ![call[c].key] = value] ELSE entry

(* fail(), fail({ retain: true }) and complete(): the retention starts.     *)
Drop(c) == SetEntry(c, NoEntry)

KeepPending(c) == UNCHANGED entry

Retain(c) == SetEntry(c, [entry[call[c].key] EXCEPT !.state = "uncertain"])

Complete(c) == SetEntry(c, [entry[call[c].key] EXCEPT !.state = "completed"])

RetentionEnds(k) ==
    /\ entry[k].state \in {"completed", "uncertain"} /\ ~entry[k].expired
    /\ entry' = [entry EXCEPT ![k].expired = TRUE]
    /\ UNCHANGED <<call, approval, active, dispatched, raced>>

-----------------------------------------------------------------------------
(* execute(), from the claim on. *)

Replay(c) ==
    /\ call[c].pc = "replay"
    /\ Goto(c, "answered") \/ Goto(c, "refused")      \* without an audit
    /\ Release
    /\ UNCHANGED <<entry, approval, dispatched, raced>>

CheckAbort(c) ==
    /\ call[c].pc = "claimed"
    /\ IF call[c].aborted THEN Drop(c) /\ Refuse(c)
       ELSE Goto(c, "audit") /\ UNCHANGED <<entry, active>>
    /\ UNCHANGED <<approval, dispatched, raced>>

AuditUnavailable(c) ==
    /\ call[c].pc = "audit"
    /\ Drop(c) /\ Refuse(c)
    /\ UNCHANGED <<approval, dispatched, raced>>

(* The handler takes the lease over.                                        *)
Dispatch(c) ==
    /\ call[c].pc = "audit"
    /\ call' = [call EXCEPT ![c].pc = "waiting", ![c].handler = "running"]
    /\ dispatched' = [dispatched EXCEPT ![call[c].key] = @ \cup {c}]
    /\ UNCHANGED <<entry, approval, active, raced>>

HandlerGoes(c, to) == call' = [call EXCEPT ![c].handler = to]

Settles(c) ==
    /\ call[c].handler = "running"
    /\ Release
    /\ \/ HandlerGoes(c, "settled") /\ UNCHANGED entry
       \/ HandlerGoes(c, "failed") /\ Retain(c)
    /\ UNCHANGED <<approval, dispatched, raced>>

(* The output is validated and redacted.                                    *)
Reconcile(c) ==
    /\ call[c].handler = "settled"
    /\ \/ HandlerGoes(c, "completed") /\ Complete(c)
       \/ HandlerGoes(c, "failed") /\ Retain(c)
    /\ UNCHANGED <<approval, active, dispatched, raced>>

AuditCompletion(c) ==
    /\ call[c].handler = "completed"
    /\ HandlerGoes(c, "done") \/ HandlerGoes(c, "unaudited")
    /\ UNCHANGED <<entry, approval, active, dispatched, raced>>

(* The lease goes with the caller that gave up.                             *)
ReleaseEarly(c) ==
    /\ call[c].pc = "waiting" /\ call[c].handler = "running" /\ call[c].aborted
    /\ Refuse(c)
    /\ UNCHANGED <<entry, approval, dispatched, raced>>

(* The caller is answered, at once if it gave up on a running handler.      *)
Answer(c) ==
    /\ call[c].pc = "waiting"
    /\ \/ call[c].handler \in {"done", "failed", "unaudited"}
       \/ call[c].handler = "running" /\ call[c].aborted
    /\ Goto(c, IF call[c].handler = "done" THEN "answered" ELSE "refused")
    /\ UNCHANGED <<entry, approval, active, dispatched, raced>>

-----------------------------------------------------------------------------
Init ==
    /\ call \in [Calls -> {NewCall(k, i, a) : k \in Keys, i \in Inputs, a \in Approvals}]
    /\ entry = [k \in Keys |-> NoEntry]
    /\ approval = [a \in Approvals |-> NoRecord]
    /\ active = 0
    /\ dispatched = [k \in Keys |-> {}]
    /\ raced = [k \in Keys |-> FALSE]

Execute(c) ==
    \/ Evaluate(c) \/ Consume(c)
    \/ Purge(c) \/ Lookup(c) \/ Register(c)
    \/ Replay(c) \/ CheckAbort(c) \/ AuditUnavailable(c) \/ Dispatch(c) \/ Answer(c)

Handle(c) == Settles(c) \/ Reconcile(c) \/ AuditCompletion(c)

Next ==
    \/ \E c \in Calls : Admit(c) \/ Abort(c) \/ Execute(c) \/ Handle(c)
    \/ \E a \in Approvals : IssuerAnswers(a) \/ ApprovalExpires(a) \/ (\E i \in Inputs : Submit(a, i))
    \/ \E k \in Keys : RetentionEnds(k)

Spec == Init /\ [][Next]_vars

(* What execute() awaits comes back, the handlers too, and issuers answer.  *)
FairSpec ==
    /\ Spec
    /\ \A c \in Calls : WF_vars(Execute(c)) /\ WF_vars(Handle(c))
    /\ \A a \in Approvals : WF_vars(IssuerAnswers(a))

-----------------------------------------------------------------------------
Requests == [pc : {"idle", "approve", "digest", "claim", "lookup", "register", "claimed",
                   "replay", "audit", "waiting", "answered", "refused"},
             key : Keys, input : Inputs, approval : Approvals, aborted : BOOLEAN,
             handler : {"none", "running", "settled", "completed", "done", "failed", "unaudited"},
             result : Calls \cup {Nobody}, spent : BOOLEAN]

Claimed == [owner : Calls \cup {Nobody}, state : {"none", "pending", "completed", "uncertain"},
            input : Inputs, expired : BOOLEAN]

Records == [status : {"none", "pending", "held", "consuming", "used"}, input : Inputs,
            expired : BOOLEAN]

TypeOK ==
    /\ call \in [Calls -> Requests]
    /\ entry \in [Keys -> Claimed]
    /\ approval \in [Approvals -> Records]
    /\ active \in Int
    /\ dispatched \in [Keys -> SUBSET Calls]
    /\ raced \in [Keys -> BOOLEAN]

(* An approval lets one call through, although its digest is awaited while  *)
(* other calls present it, it expires meanwhile and its id is submitted     *)
(* again.                                                                   *)
ApprovalSpentOnce ==
    \A c, d \in Calls :
        call[c].spent /\ call[d].spent /\ call[c].approval = call[d].approval => c = d

(* The count is that of the calls, handlers and submissions under way: a    *)
(* handler whose caller was answered early still counts.                    *)
Executing == {c \in Calls : call[c].pc \notin {"idle", "waiting", "answered", "refused"}}

Handling == {c \in Calls : call[c].handler = "running"}

Submitting == {a \in Approvals : approval[a].status = "pending"}

ConcurrencyIsExact ==
    /\ active = Cardinality(Executing) + Cardinality(Handling) + Cardinality(Submitting)
    /\ active <= MaxConcurrency

(* A call is dispatched at most once in the retention of its key, also if   *)
(* its caller left, its outcome is uncertain or its completion could not be *)
(* recorded - unless two claims were past the lookup at once: that excepts  *)
(* the retention, and those that follow until both claims are dispatched.   *)
OnceUnlessRaced ==
    \A k \in Keys : raced[k] \/ \A c, d \in dispatched[k] : c = d

(* What a call is answered from the records is what a handler returned to   *)
(* the same request, validated and redacted.                                *)
ReplaysAreResults ==
    \A c \in Calls :
        call[c].result # Nobody =>
            LET d == call[c].result IN
            /\ call[d].key = call[c].key /\ call[d].input = call[c].input
            /\ call[d].handler \in {"completed", "done", "unaudited"}

(* A repeated call is refused or answered with the result of the one that   *)
(* was dispatched.                                                          *)
RepeatsAreSafe == OnceUnlessRaced /\ ReplaysAreResults

(* In the end no call holds its lease, and no entry is left pending, which  *)
(* would never expire.                                                      *)
NothingHangs == <>[](Executing \cup Handling = {} /\ \A k \in Keys : entry[k].state # "pending")

=============================================================================
