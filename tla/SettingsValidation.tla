--------------------------- MODULE SettingsValidation ---------------------------
(***************************************************************************)
(* Settings that a running generation validates before they take effect:   *)
(* the transactions of PostgresSystemSettingsStore (packages/payload-      *)
(* adapter/src/system-settings-store.ts), the runs of                      *)
(* SettingsValidationCoordinator (settings-validation-coordinator.ts) over *)
(* them, and the lifecycle projection that activates a reserved generation *)
(* once its settings are settled (authorization-lifecycle-projector.ts).   *)
(*                                                                         *)
(* One extension owns the validated descriptors, the platform those whose  *)
(* writes are immediate.  An operation stands for a request with its       *)
(* idempotency key.  The revision of an operation only says whether the    *)
(* row moved since it was read: seen, in every call.                       *)
(***************************************************************************)
EXTENDS Naturals, FiniteSets

CONSTANTS
    Descriptors,     \* descriptors of settings
    Immediate,       \* those with validation "immediate"
    Operations,      \* requests
    Values,          \* contents a document may be given
    Unset,           \* content of a document nobody wrote
    Calls,           \* concurrent calls of run()
    Owners,          \* lease owners, each a host with its clock
    Nobody,          \* owner of a lease nobody holds
    NoDescriptor,
    NoOperation,
    MaxDisturbances  \* bound on what is not the protocol's own doing

ASSUME SettingsAssumption ==
    /\ Immediate \subseteq Descriptors
    /\ Unset \notin Values
    /\ Nobody \notin Owners
    /\ NoDescriptor \notin Descriptors
    /\ NoOperation \notin Operations
    /\ MaxDisturbances \in Nat

VARIABLES
    settings,        \* settings_revision of k_nex_system_settings_state
    document,        \* k_nex_system_settings_documents
    operation,       \* k_nex_system_settings_operations
    receipt,         \* k_nex_system_settings_receipts
    authority,       \* k_nex_authorization_state, and what it allows the requester
    extension,       \* the owning generation: authorization state and runtime generation
    call,            \* the calls of run() under way
    vouched,         \* history: runtime found ready under the last claim, 0 for none
    disturbances

vars == <<settings, document, operation, receipt, authority, extension, call, vouched, disturbances>>

NoDocument == [revision |-> 0, settings |-> 0, values |-> Unset]

(* live are the owners whose clock has not reached lease_expires_at;        *)
(* changed is whether the request digest counts a field as changed.         *)
NoRow == [state |-> "absent", descriptor |-> NoDescriptor, values |-> Unset,
          document |-> 0, settings |-> 0, changed |-> FALSE, owner |-> Nobody, live |-> {}]

NoReceipt == [outcome |-> "none", descriptor |-> NoDescriptor, document |-> 0, settings |-> 0]

NoCall == [pc |-> "idle", op |-> NoOperation, owner |-> Nobody, seen |-> FALSE,
           authority |-> 0, runtime |-> 0, ready |-> FALSE, late |-> FALSE,
           blocked |-> FALSE, changed |-> FALSE]

Unsettled(o) == operation[o].state # "absent"

Disturb == disturbances < MaxDisturbances /\ disturbances' = disturbances + 1

-----------------------------------------------------------------------------
(* The store. *)

(* assertConfigurableGeneration(): active and current, or staged with its   *)
(* operation waiting for configuration.                                     *)
Configurable == extension.state \in {"current", "pending-configuration"}

(* assertChangedFields(), and the changed fields write() derives.           *)
Changes(d, v) == document[d].values # v

(* beginGenerationValidated(), which beginRetainedAdoption() ends in.       *)
Begin(o, d, v) ==
    /\ ~Unsettled(o) /\ receipt[o] = NoReceipt
    /\ d \notin Immediate
    /\ authority.allowed /\ Configurable
    /\ operation' = [operation EXCEPT ![o] =
          [NoRow EXCEPT !.state = "pending-validation", !.descriptor = d, !.values = v,
                        !.document = document[d].revision, !.settings = settings,
                        !.changed = Changes(d, v)]]
    /\ UNCHANGED <<settings, document, receipt, authority, extension, call, vouched, disturbances>>

(* writePromoted(): the document, the revision and the receipt.             *)
Write(o, d, at, n, v) ==
    /\ document' = [document EXCEPT ![d] = [revision |-> at, settings |-> n, values |-> v]]
    /\ settings' = n
    /\ receipt' = [receipt EXCEPT ![o] = [outcome |-> "promoted", descriptor |-> d,
                                          document |-> at, settings |-> n]]

(* writeImmediate() at the revisions it was asked for.                      *)
WriteImmediate(o, d, v) ==
    /\ ~Unsettled(o) /\ receipt[o] = NoReceipt
    /\ d \in Immediate
    /\ authority.allowed
    /\ Write(o, d, document[d].revision + 1, settings + 1, v)
    /\ UNCHANGED <<operation, authority, extension, call, vouched, disturbances>>

-----------------------------------------------------------------------------
(* A call of run(). *)

Goto(c, pc) == call' = [call EXCEPT ![c].pc = pc]

Ends(c) == call' = [call EXCEPT ![c] = NoCall]

(* A revision that a write leaves as it was.                                *)
Unmoved(c, r) == [call EXCEPT ![c] = r]

(* A write of the row gives it another revision: the call that made it      *)
(* holds that one, with r what it learnt, and every other an old one.       *)
Moved(c, r) == [x \in Calls |-> IF x = c THEN r
                                ELSE IF call[x].op = call[c].op THEN [call[x] EXCEPT !.seen = FALSE]
                                ELSE call[x]]

Underway(o) == \E c \in Calls : call[c].pc # "idle" /\ call[c].op = o

(* A run that starts while another is under way counts as a disturbance.    *)
Start(c, o, w) ==
    /\ call[c].pc = "idle" /\ Unsettled(o)
    /\ call' = [call EXCEPT ![c] = [NoCall EXCEPT !.pc = "read", !.op = o, !.owner = w, !.seen = TRUE]]
    /\ IF Underway(o) THEN Disturb ELSE UNCHANGED disturbances
    /\ UNCHANGED <<settings, document, operation, receipt, authority, extension, vouched>>

(* readGenerationValidatedAuthority() after readGenerationValidated().      *)
ReadAuthority(c) ==
    /\ call[c].pc = "read"
    /\ IF call[c].seen THEN Goto(c, "claim-authority") ELSE Ends(c)
    /\ UNCHANGED <<settings, document, operation, receipt, authority, extension, vouched, disturbances>>

(* reauthorize(), for the claim and again for the promotion.  It is         *)
(* undefined without the permission, after an error and when the revision   *)
(* moves between the decisions it takes.                                    *)
Reauthorize(c) ==
    /\ call[c].pc \in {"claim-authority", "promote-authority"}
    /\ \/ /\ authority.allowed
          /\ call' = [call EXCEPT ![c].authority = authority.revision,
                                  ![c].pc = IF @ = "claim-authority" THEN "claim" ELSE "write"]
          /\ UNCHANGED disturbances
       \/ /\ ~authority.allowed
          /\ Goto(c, "observe")
          /\ UNCHANGED disturbances
       \/ /\ authority.allowed
          /\ Goto(c, "observe")
          /\ Disturb
    /\ UNCHANGED <<settings, document, operation, receipt, authority, extension, vouched>>

(* authority(): the state a refused call blocks the operation under.        *)
Observe(c) ==
    /\ call[c].pc = "observe"
    /\ call' = [call EXCEPT ![c].authority = authority.revision, ![c].pc = "block"]
    /\ UNCHANGED <<settings, document, operation, receipt, authority, extension, vouched, disturbances>>

(* Any authority will do.                                                   *)
Unfenced(c) == TRUE

(* assertAuthority().                                                       *)
Admitted(c) == call[c].authority = authority.revision

(* A lease is taken over by its own owner only.                             *)
OwnedOnly(o, w) == operation[o].state = "pending-validation" \/ operation[o].owner = w

Available(o, w) ==
    \/ operation[o].state = "pending-validation"
    \/ operation[o].state = "validating" /\ (operation[o].owner = w \/ w \notin operation[o].live)

(* claimGenerationValidated().                                              *)
Claim(c) ==
    LET o == call[c].op
        w == call[c].owner
    IN
    /\ call[c].pc = "claim"
    /\ IF Admitted(c) /\ call[c].seen /\ Available(o, w) /\ Configurable
       THEN /\ operation' = [operation EXCEPT ![o].state = "validating", ![o].owner = w, ![o].live = Owners]
            /\ call' = Moved(c, [call[c] EXCEPT !.pc = "validate", !.runtime = extension.runtime])
            /\ vouched' = [vouched EXCEPT ![o] = 0]
       ELSE Ends(c) /\ UNCHANGED <<operation, vouched>>
    /\ UNCHANGED <<settings, document, receipt, authority, extension, disturbances>>

(* The validator answers; finishedAt is taken at once.                      *)
Validate(c, ready) ==
    LET o == call[c].op IN
    /\ call[c].pc = "validate"
    /\ call' = [call EXCEPT ![c].ready = ready, ![c].late = call[c].owner \notin operation[o].live,
                            ![c].pc = "promote-authority"]
    /\ vouched' = IF ready /\ call[c].seen THEN [vouched EXCEPT ![o] = call[c].runtime] ELSE vouched
    /\ UNCHANGED <<settings, document, operation, receipt, authority, extension, disturbances>>

(* transitionGenerationValidated() to promotion-blocked.                    *)
Block(c) ==
    LET o == call[c].op IN
    /\ call[c].pc = "block"
    /\ IF Admitted(c) /\ call[c].seen /\ operation[o].state \in {"pending-validation", "validating"}
       THEN /\ operation' = [operation EXCEPT ![o].state = "promotion-blocked", ![o].owner = Nobody, ![o].live = {}]
            /\ call' = Moved(c, [call[c] EXCEPT !.pc = "write", !.blocked = TRUE])
       ELSE Ends(c) /\ UNCHANGED operation
    /\ UNCHANGED <<settings, document, receipt, authority, extension, vouched, disturbances>>

(* write() reads the document for the changed fields of the request; those  *)
(* of an operation that is gone meanwhile are not compared with anything.   *)
ReadDocument(c) ==
    LET r == operation[call[c].op] IN
    /\ call[c].pc = "write"
    /\ call' = [call EXCEPT ![c].pc = "settle",
                            ![c].changed = r # NoRow /\ Changes(r.descriptor, r.values)]
    /\ UNCHANGED <<settings, document, operation, receipt, authority, extension, vouched, disturbances>>

(* The operation is that of the request, at the revision it names.          *)
Matches(c) ==
    LET o == call[c].op IN
    Admitted(c) /\ Unsettled(o) /\ call[c].seen /\ operation[o].changed = call[c].changed

HoldsLease(c) == operation[call[c].op].owner = call[c].owner /\ ~call[c].late

(* The document moved on, or another one did.                               *)
AnyRevision(o) == TRUE

AtExpected(o) == /\ document[operation[o].descriptor].revision = operation[o].document
                 /\ settings = operation[o].settings

(* promoteGenerationValidated().                                            *)
MayPromote(c) == /\ call[c].ready /\ ~call[c].blocked
                 /\ Matches(c) /\ operation[call[c].op].state = "validating" /\ HoldsLease(c)
                 /\ AtExpected(call[c].op) /\ Configurable

(* failGenerationValidated(); what the call blocked needs no lease.         *)
MayFail(c) ==
    /\ Matches(c)
    /\ IF call[c].blocked THEN operation[call[c].op].state = "promotion-blocked"
       ELSE ~call[c].ready /\ operation[call[c].op].state = "validating" /\ HoldsLease(c)

Settles(c, o) == /\ operation' = [operation EXCEPT ![o] = NoRow]
                 /\ call' = Moved(c, NoCall)

Promote(c) ==
    LET o == call[c].op
        r == operation[o]
    IN
    /\ call[c].pc = "settle" /\ MayPromote(c)
    /\ Write(o, r.descriptor, r.document + 1, r.settings + 1, r.values)
    /\ Settles(c, o)
    /\ UNCHANGED <<authority, extension, vouched, disturbances>>

Fail(c) ==
    LET o == call[c].op IN
    /\ call[c].pc = "settle" /\ MayFail(c)
    /\ receipt' = [receipt EXCEPT ![o] =
          [NoReceipt EXCEPT !.descriptor = operation[o].descriptor,
                            !.outcome = IF operation[o].state = "promotion-blocked"
                                        THEN "promotion-invalidated" ELSE "validation-failed"]]
    /\ Settles(c, o)
    /\ UNCHANGED <<settings, document, authority, extension, vouched, disturbances>>

(* A receipt that is there is returned, any other mismatch is thrown.       *)
Refused(c) ==
    /\ call[c].pc = "settle" /\ ~MayPromote(c) /\ ~MayFail(c)
    /\ Ends(c)
    /\ UNCHANGED <<settings, document, operation, receipt, authority, extension, vouched, disturbances>>

(* A call that ends where it stands: a crash or a failed statement.         *)
Abort(c) ==
    /\ call[c].pc # "idle"
    /\ Ends(c)
    /\ Disturb
    /\ UNCHANGED <<settings, document, operation, receipt, authority, extension, vouched>>

-----------------------------------------------------------------------------
(* Clocks, authority and lifecycle. *)

Holder(o) == \E c \in Calls : /\ call[c].op = o /\ call[c].seen /\ ~call[c].blocked
                              /\ call[c].pc \in {"validate", "promote-authority", "write", "settle"}

(* A lease that runs out under its holder counts as a disturbance.          *)
LeaseEnds(o, w) ==
    /\ w \in operation[o].live
    /\ operation' = [operation EXCEPT ![o].live = @ \ {w}]
    /\ IF Holder(o) THEN Disturb ELSE UNCHANGED disturbances
    /\ UNCHANGED <<settings, document, receipt, authority, extension, call, vouched>>

ReviseAuthority(allowed) ==
    /\ authority' = [revision |-> authority.revision + 1, allowed |-> allowed]
    /\ Disturb
    /\ UNCHANGED <<settings, document, operation, receipt, extension, call, vouched>>

(* What project() demands of the reserved generation.                       *)
Terminalized ==
    /\ \E o \in Operations : receipt[o].outcome = "promoted" /\ receipt[o].descriptor \notin Immediate
    /\ \A o \in Operations : ~Unsettled(o)

(* Each transition advances the lifecycle revision.                         *)
Transition(e) ==
    /\ extension' = e
    /\ authority' = [authority EXCEPT !.revision = @ + 1]
    /\ UNCHANGED <<settings, document, operation, receipt, call, vouched>>

Activate ==
    /\ extension.state = "pending-configuration" /\ Terminalized
    /\ Transition([extension EXCEPT !.state = "current"])
    /\ UNCHANGED disturbances

(* A compatible update or a rollback keeps the authorization generation.    *)
Update ==
    /\ extension.state = "current"
    /\ Transition([extension EXCEPT !.runtime = @ + 1])
    /\ Disturb

(* Disabled, or retired by a quarantine, an uninstall or another update.    *)
Withdraw(state) ==
    /\ extension.state = "current"
    /\ Transition([extension EXCEPT !.state = state])
    /\ Disturb

Enable ==
    /\ extension.state = "disabled"
    /\ Transition([extension EXCEPT !.state = "current"])
    /\ UNCHANGED disturbances

(* The operation that waits for configuration fails.                        *)
GiveUp ==
    /\ extension.state = "pending-configuration"
    /\ extension' = [extension EXCEPT !.state = "abandoned"]
    /\ Disturb
    /\ UNCHANGED <<settings, document, operation, receipt, authority, call, vouched>>

-----------------------------------------------------------------------------
Init ==
    /\ settings = 0
    /\ document = [d \in Descriptors |-> NoDocument]
    /\ operation = [o \in Operations |-> NoRow]
    /\ receipt = [o \in Operations |-> NoReceipt]
    /\ authority = [revision |-> 1, allowed |-> TRUE]
    /\ extension = [state |-> "pending-configuration", runtime |-> 1]
    /\ call = [c \in Calls |-> NoCall]
    /\ vouched = [o \in Operations |-> 0]
    /\ disturbances = 0

(* What a call does by itself.                                              *)
Proceed(c) ==
    \/ ReadAuthority(c) \/ Reauthorize(c) \/ Observe(c) \/ Claim(c) \/ Block(c)
    \/ \E ready \in BOOLEAN : Validate(c, ready)
    \/ ReadDocument(c) \/ Promote(c) \/ Fail(c) \/ Refused(c)

Next ==
    \/ \E o \in Operations, d \in Descriptors, v \in Values : Begin(o, d, v) \/ WriteImmediate(o, d, v)
    \/ \E c \in Calls, o \in Operations, w \in Owners : Start(c, o, w)
    \/ \E c \in Calls : Proceed(c) \/ Abort(c)
    \/ \E o \in Operations, w \in Owners : LeaseEnds(o, w)
    \/ \E allowed \in BOOLEAN : ReviseAuthority(allowed)
    \/ Activate \/ Update \/ Enable \/ GiveUp
    \/ \E state \in {"disabled", "retired"} : Withdraw(state)

Spec == Init /\ [][Next]_vars

(* Calls go on and validators answer, somebody runs again an operation      *)
(* that no call is under way for, and the time of a lease passes.           *)
RunAgain(o) == ~Underway(o) /\ \E c \in Calls, w \in Owners : Start(c, o, w)

Fairness ==
    /\ \A c \in Calls : WF_vars(Proceed(c))
    /\ \A o \in Operations : WF_vars(RunAgain(o))
    /\ \A o \in Operations, w \in Owners : WF_vars(~Holder(o) /\ LeaseEnds(o, w))

FairSpec == Spec /\ Fairness

-----------------------------------------------------------------------------
(* Properties. *)

(* Types of the variables.                                                  *)
TypeOK ==
    /\ settings \in Nat
    /\ document \in [Descriptors -> [revision : Nat, settings : Nat, values : Values \cup {Unset}]]
    /\ operation \in [Operations ->
          [state : {"absent", "pending-validation", "validating", "promotion-blocked"},
           descriptor : Descriptors \cup {NoDescriptor}, values : Values \cup {Unset}, document : Nat, settings : Nat,
           changed : BOOLEAN, owner : Owners \cup {Nobody}, live : SUBSET Owners]]
    /\ receipt \in [Operations ->
          [outcome : {"none", "promoted", "validation-failed", "promotion-invalidated"},
           descriptor : Descriptors \cup {NoDescriptor}, document : Nat, settings : Nat]]
    /\ authority \in [revision : Nat, allowed : BOOLEAN]
    /\ extension \in [state : {"pending-configuration", "current", "disabled", "retired", "abandoned"},
                      runtime : Nat]
    /\ call \in [Calls ->
          [pc : {"idle", "read", "claim-authority", "observe", "claim", "validate", "promote-authority",
                 "block", "write", "settle"},
           op : Operations \cup {NoOperation}, owner : Owners \cup {Nobody}, seen : BOOLEAN, authority : Nat, runtime : Nat,
           ready : BOOLEAN, late : BOOLEAN, blocked : BOOLEAN, changed : BOOLEAN]]
    /\ vouched \in [Operations -> Nat]
    /\ disturbances \in 0 .. MaxDisturbances

Promoted(d) == {o \in Operations : receipt[o].outcome = "promoted" /\ receipt[o].descriptor = d}

AllPromoted == UNION {Promoted(d) : d \in Descriptors}

(* No update is lost: every settings revision was given by one promoted     *)
(* receipt, those of a document count its revisions, and the document shows *)
(* the last of them, whichever calls and immediate writes raced for it.     *)
RevisionsFollowReceipts ==
    /\ {receipt[o].settings : o \in AllPromoted} = 1 .. settings
    /\ Cardinality(AllPromoted) = settings
    /\ \A d \in Descriptors :
          /\ {receipt[o].document : o \in Promoted(d)} = 1 .. document[d].revision
          /\ Cardinality(Promoted(d)) = document[d].revision
          /\ \A o \in Promoted(d) : \/ receipt[o].settings < document[d].settings
                                    \/ /\ receipt[o].settings = document[d].settings
                                       /\ receipt[o].document = document[d].revision

(* Validation of an operation ends in this step with its promotion.         *)
Promotes(o) == Unsettled(o) /\ receipt[o] = NoReceipt /\ receipt'[o].outcome = "promoted"

(* What a call read before it awaited the validator does not outlive it:    *)
(* nothing is promoted once the permission is revoked, and nothing that was *)
(* not found ready under the last claim of the operation, whoever claimed   *)
(* it again, with a lease that ran out or as the same owner.                *)
PromotionsAreCurrent ==
    [][\A o \in Operations : Promotes(o) => authority.allowed /\ vouched[o] # 0]_vars

(* Left behind by the call that blocked it, overtaken by another write, or  *)
(* of an owner that is withdrawn.                                           *)
Impeded(o) ==
    \/ /\ operation[o].state = "promotion-blocked"
       /\ ~\E c \in Calls : call[c].op = o /\ call[c].blocked
    \/ ~AtExpected(o)
    \/ ~Configurable

(* An operation whose call crashed, stalled past its lease or was refused   *)
(* is taken up again and settled, except for those that run() cannot settle.*)
OperationsSettle == \A o \in Operations : <>[](~Unsettled(o) \/ Impeded(o))

(* Replay resumes pending work until there is a receipt.                    *)
ReplaySettles == \A o \in Operations : Unsettled(o) ~> ~Unsettled(o)

(* The exact generation that validated the candidate is the one it is       *)
(* promoted for.                                                            *)
PromotedAsValidated == [][\A o \in Operations : Promotes(o) => vouched[o] = extension.runtime]_vars

=============================================================================
