--------------------------- MODULE ExtensionLifecycle ---------------------------
(***************************************************************************)
(* The lifecycle of one Hot Application: the transactions of               *)
(* PostgresRuntimeExtensionStore (packages/payload-adapter/src/            *)
(* runtime-extension-store.ts) and the calls of PluginManager (packages/   *)
(* runtime/src/plugin-manager.ts) that drive an operation through them.    *)
(* A transaction is one action; between two of them a call may stall or    *)
(* end, its lease may expire, another call may take the operation over and *)
(* the active generation may be quarantined.                               *)
(*                                                                         *)
(* A generation is the number that orders its version; 0 stands for none.  *)
(* An operation stands for a request with its idempotency key.  The budget   *)
(* is that of an environment with no other extension in it; the leases of  *)
(* traffic on the generations are in HotApplicationTraffic.                *)
(***************************************************************************)
EXTENDS Naturals, FiniteSets

CONSTANTS
    Generations,   \* generations of the application, ordered by version
    Compatible,    \* those prepared with a rollback compatibility window
    Operations,    \* requests
    Callers,       \* concurrent calls of the manager
    Worker,        \* the worker identity each of them presents
    NoCaller,      \* token of an operation nobody holds
    NoOperation,
    MaxConcurrent  \* max_count of runtime_extension_operation_budget

ASSUME LifecycleAssumption ==
    /\ Generations \subseteq Nat \ {0}
    /\ Compatible \subseteq Generations
    /\ NoCaller \notin Callers
    /\ NoOperation \notin Operations
    /\ MaxConcurrent \in Nat \ {0}

VARIABLES
    ext,           \* the row of runtime_extensions
    gen,           \* the rows of runtime_extension_generations
    op,            \* the rows of runtime_extension_operations
    budget,        \* active_count of runtime_extension_operation_budget
    call,          \* the calls under way
    base,          \* history: the pointers an operation was planned or staged on
    condemned      \* history: generations that were quarantined

vars == <<ext, gen, op, budget, call, base, condemned>>

Kinds == {"install", "update", "disable", "rollback", "uninstall"}

(* advertised is the generation of rollback_generation, the evidence that   *)
(* the inventory shows; rollback is rollback_generation_id.  window is      *)
(* rollback_compatibility_json and whether its closesAt has passed.         *)
NewExtension == [revision |-> 0, disposition |-> "removed", active |-> 0, rollback |-> 0,
                 advertised |-> 0, retained |-> 0, window |-> "none"]

NoRow == [state |-> "none", staged |-> 0, ready |-> FALSE]

NewOperation == [phase |-> "absent", kind |-> "install", target |-> 0, expected |-> 0,
                 planned |-> FALSE, token |-> NoCaller, live |-> FALSE]

NoCall == [pc |-> "idle", op |-> NoOperation, kind |-> "install", target |-> 0, seen |-> 0]

(* Of an operation that ended only its phase and its receipt are read again. *)
Ended(phase) == [NewOperation EXCEPT !.phase = phase]

Unfinished(o) == op[o].phase \notin {"absent", "completed", "failed"}

(* stateCurrentGenerationId().                                              *)
Current == IF ext.active # 0 THEN ext.active ELSE ext.retained

Pointers == <<ext.disposition, ext.active, ext.rollback, ext.retained>>

NoPointers == <<"removed", 0, 0, 0>>

Do(c, step) == call[c].pc = step

Goto(c, pc) == call' = [call EXCEPT ![c].pc = pc]

Return(c) == call' = [call EXCEPT ![c] = NoCall]

-----------------------------------------------------------------------------
(* PluginManager.plan(): inventory, claim, plan. *)

(* An update to the version that is there is taken for one to a newer one.  *)
SameOrNewer == {g \in Generations : g >= Current}

(* assertNoActiveDowngrade().                                               *)
Newer == {g \in Generations : g > Current}

(* operationAdmission, assertRetainedReleaseReenable, assertPlanMatches and *)
(* what the planner may answer for the inventory that was read.             *)
Targets(kind) ==
    IF kind = "install" /\ ext.disposition = "removed" THEN Generations
    ELSE IF kind = "install" /\ ext.disposition = "disabled" THEN {ext.retained}
    ELSE IF kind = "update" /\ ext.disposition \in {"active", "quarantined"}
         THEN Newer \ {ext.advertised}
    ELSE IF kind = "rollback" /\ ext.disposition = "active" THEN {ext.advertised} \ {0}
    ELSE IF \/ kind = "disable" /\ ext.disposition = "active"
            \/ kind = "uninstall" /\ ext.disposition # "removed"
         THEN {Current}
    ELSE {}

ReadInventory(c, o) ==
    /\ Do(c, "idle")
    /\ op[o].phase = "absent" \/ Unfinished(o)
    /\ \E kind \in Kinds : \E g \in Targets(kind) :
          /\ op[o].phase # "absent" => kind = op[o].kind
          /\ call' = [call EXCEPT ![c] = [pc |-> "claim", op |-> o, kind |-> kind,
                                          target |-> g, seen |-> ext.revision]]
    /\ UNCHANGED <<ext, gen, op, budget, base, condemned>>

Expired(o) == Unfinished(o) /\ ~op[o].live

(* Only those with a transition to write.                                   *)
ReclaimedPlanned == Cardinality({o \in Operations : Expired(o) /\ op[o].planned})

Reclaimed == Cardinality({o \in Operations : Expired(o)})

(* reconcileExpiredOperations(), by any call of plan() before it claims:    *)
(* only a planned operation has a transition to write, every one gives its  *)
(* place in the budget back.                                                *)
ReconcileExpired ==
    /\ \E o \in Operations : Expired(o)
    /\ op' = [o \in Operations |-> IF Expired(o) THEN Ended("failed") ELSE op[o]]
    /\ budget' = budget - Reclaimed
    /\ ext' = [ext EXCEPT !.revision =
                 @ + Cardinality({o \in Operations : Expired(o) /\ op[o].planned})]
    /\ base' = [o \in Operations |-> IF Expired(o) THEN NoPointers ELSE base[o]]
    /\ UNCHANGED <<gen, call, condemned>>

Claim(c) ==
    LET o == call[c].op IN
    /\ Do(c, "claim")
    /\ op[o].phase = "absent"
    /\ ext.revision = call[c].seen
    /\ ~\E p \in Operations : Unfinished(p)
    /\ budget < MaxConcurrent
    /\ op' = [op EXCEPT ![o] = [NewOperation EXCEPT
                 !.phase = "planning", !.kind = call[c].kind, !.target = call[c].target,
                 !.expected = call[c].seen, !.token = c, !.live = TRUE]]
    /\ budget' = budget + 1
    /\ Goto(c, "save")
    /\ UNCHANGED <<ext, gen, base, condemned>>

(* resumeOperation(): a live lease yields to its own worker only.           *)
Yields(o, c) == ~op[o].live \/ Worker[op[o].token] = Worker[c]

Takes(c, o) == op' = [op EXCEPT ![o].token = c, ![o].live = TRUE]

(* A request repeated under its key goes on planning, with a token of its   *)
(* own and the inventory it has read itself.                                *)
ResumePlanning(c) ==
    LET o == call[c].op IN
    /\ Do(c, "claim")
    /\ Unfinished(o) /\ ~op[o].planned
    /\ Yields(o, c)
    /\ call[c].kind = op[o].kind /\ call[c].seen = op[o].expected
    /\ op' = [op EXCEPT ![o].token = c, ![o].live = TRUE, ![o].target = call[c].target]
    /\ Goto(c, "save")
    /\ UNCHANGED <<ext, gen, budget, base, condemned>>

(* The token alone, however long ago its lease ended.                       *)
HoldsToken(c) == op[call[c].op].token = c

Holds(c) == op[call[c].op].token = c /\ op[call[c].op].live

(* assertPlanIdentity().                                                    *)
FitsPointers(o) ==
    CASE op[o].kind \in {"install", "update"} -> op[o].target \notin {ext.active, ext.rollback}
      [] op[o].kind = "rollback" -> ext.active # 0 /\ op[o].target = ext.rollback
      [] OTHER -> op[o].target = Current

SavePlan(c) ==
    LET o == call[c].op IN
    /\ Do(c, "save")
    /\ Holds(c)
    /\ ext.revision = op[o].expected
    /\ FitsPointers(o)
    /\ op' = [op EXCEPT ![o].planned = TRUE]
    /\ ext' = [ext EXCEPT !.revision = @ + 1]
    /\ base' = [base EXCEPT ![o] = Pointers]
    /\ Return(c)
    /\ UNCHANGED <<gen, budget, condemned>>

-----------------------------------------------------------------------------
(* stage(), activate(), rollback(), disable() and uninstall() resume the    *)
(* operation and authorize every transaction anew.                          *)

Resume(c, o) ==
    /\ Do(c, "idle")
    /\ Unfinished(o)
    /\ Yields(o, c)
    /\ Takes(c, o)
    /\ call' = [call EXCEPT ![c] = [NoCall EXCEPT
                   !.pc = IF op[o].planned THEN "authorize" ELSE "idle",
                   !.op = IF op[o].planned THEN o ELSE NoOperation]]
    /\ UNCHANGED <<ext, gen, budget, base, condemned>>

Admits(kind) ==
    CASE ext.disposition = "removed" -> kind = "install"
      [] ext.disposition = "active" -> kind # "install"
      [] ext.disposition = "disabled" -> kind \in {"install", "uninstall"}
      [] OTHER -> kind \in {"update", "uninstall"}

(* reauthorize() reads the inventory again, outside of the transaction that *)
(* follows; a warming generation is prepared anew before it is activated.   *)
Reauthorize(c) ==
    /\ Do(c, "authorize")
    /\ Admits(op[call[c].op].kind)
    /\ Goto(c, IF op[call[c].op].phase = "warming" THEN "refresh" ELSE "write")
    /\ UNCHANGED <<ext, gen, op, budget, base, condemned>>

Writes(c) == Do(c, "write") /\ Holds(c)

NextPhase == [planning |-> "downloading", downloading |-> "verified", verified |-> "staged"]

(* transition(): stage() ends with the phase staged.                        *)
Transition(c) ==
    LET o == call[c].op IN
    /\ Writes(c)
    /\ op[o].kind \in {"install", "update"}
    /\ op[o].phase \in DOMAIN NextPhase
    /\ op' = [op EXCEPT ![o].phase = NextPhase[@]]
    /\ ext' = [ext EXCEPT !.revision = @ + 1]
    /\ IF op[o].phase = "verified" THEN Return(c) ELSE Goto(c, "authorize")
    /\ UNCHANGED <<gen, budget, base, condemned>>

StageGeneration(c) ==
    LET o == call[c].op IN
    /\ Writes(c)
    /\ op[o].phase = "staged"
    /\ gen' = [gen EXCEPT ![op[o].target] =
                 [state |-> "warming", staged |-> ext.revision + 1, ready |-> TRUE]]
    /\ op' = [op EXCEPT ![o].phase = "warming"]
    /\ ext' = [ext EXCEPT !.revision = @ + 1]
    /\ base' = [base EXCEPT ![o] = Pointers]
    /\ Goto(c, "activate")
    /\ UNCHANGED <<budget, condemned>>

RefreshGenerationReadiness(c) ==
    LET g == op[call[c].op].target IN
    /\ Do(c, "refresh") /\ Holds(c)
    /\ gen[g].state = "warming"
    /\ gen[g].staged = ext.revision
    /\ gen' = [gen EXCEPT ![g].ready = TRUE]
    /\ Goto(c, "activate")
    /\ UNCHANGED <<ext, op, budget, base, condemned>>

(* completeOperation().                                                     *)
Completes(c) ==
    /\ op' = [op EXCEPT ![call[c].op] = Ended("completed")]
    /\ base' = [base EXCEPT ![call[c].op] = NoPointers]
    /\ budget' = budget - 1
    /\ Return(c)

(* Compatible with whatever generation was there before.                    *)
AvailableAnyway(g) == Current # 0 /\ g \in Compatible

RollbackAvailable(g) ==
    /\ ext.disposition # "quarantined"
    /\ Current # 0
    /\ g \in Compatible

(* The pointer moves on and the previous row stays as it is.                *)
PointsOnly(g, previous) == [gen EXCEPT ![g].state = "active"]

(* The rows of the generation that becomes active and of the previous one.  *)
Swapped(g, previous) ==
    [h \in Generations |->
        IF h = g THEN [gen[h] EXCEPT !.state = "active"]
        ELSE IF h = previous THEN [gen[h] EXCEPT !.state = "rollback"]
        ELSE gen[h]]

(* The previous generation is the active one or, of a disabled application, *)
(* the retained one, whose id is not carried over with its evidence.        *)
ActivateGeneration(c) ==
    LET o == call[c].op
        g == op[o].target
        available == RollbackAvailable(g)
    IN
    /\ Do(c, "activate") /\ Holds(c)
    /\ op[o].phase = "warming"
    /\ gen[g].staged = ext.revision
    /\ gen[g].ready
    /\ ext' = [revision |-> ext.revision + 1, disposition |-> "active", active |-> g,
               rollback |-> IF available THEN ext.active ELSE 0,
               advertised |-> IF available THEN Current ELSE 0,
               retained |-> 0,
               window |-> IF available THEN "open" ELSE "none"]
    /\ gen' = Swapped(g, ext.active)
    /\ Completes(c)
    /\ UNCHANGED <<condemned>>

(* Any state the plan has led to, or a later one.                           *)
AtLeastAsPlanned(o) == ext.revision > op[o].expected

(* Nothing has happened to the application since the plan was saved.        *)
AsPlanned(o) == ext.revision = op[o].expected + 1

RollbackGeneration(c) ==
    LET o == call[c].op IN
    /\ Writes(c)
    /\ op[o].kind = "rollback" /\ op[o].phase = "planning"
    /\ AsPlanned(o)
    /\ FitsPointers(o)
    /\ ext.rollback # 0
    /\ ext.window = "open"
    /\ gen[ext.rollback].state = "rollback"
    /\ gen' = [Swapped(ext.rollback, ext.active)
                  EXCEPT ![ext.rollback].staged = ext.revision, ![ext.rollback].ready = TRUE]
    /\ ext' = [ext EXCEPT !.revision = @ + 1, !.active = ext.rollback,
                          !.rollback = ext.active, !.advertised = ext.active]
    /\ Completes(c)
    /\ UNCHANGED <<condemned>>

(* changeDisposition().                                                     *)
ChangeDisposition(c) ==
    LET o == call[c].op
        disable == op[o].kind = "disable"
    IN
    /\ Writes(c)
    /\ op[o].kind \in {"disable", "uninstall"} /\ op[o].phase = "planning"
    /\ AsPlanned(o)
    /\ disable => ext.disposition = "active"
    /\ ext.disposition # "removed"
    /\ ext' = [NewExtension EXCEPT
                 !.revision = ext.revision + 1,
                 !.disposition = IF disable THEN "disabled" ELSE "removed",
                 !.retained = IF disable THEN ext.active ELSE 0]
    /\ gen' = [g \in Generations |->
                 IF ~disable THEN NoRow
                 ELSE IF gen[g].state \in {"active", "rollback"}
                      THEN [gen[g] EXCEPT !.state = "retired"]
                 ELSE gen[g]]
    /\ condemned' = IF disable THEN condemned ELSE {}
    /\ Completes(c)

(* A call is refused, fails or dies with its process.                       *)
CallEnds(c) ==
    /\ ~Do(c, "idle")
    /\ Return(c)
    /\ UNCHANGED <<ext, gen, op, budget, base, condemned>>

-----------------------------------------------------------------------------
(* What happens around the calls. *)

(* quarantineActiveGeneration() and quarantineRunnerGeneration(): neither   *)
(* touches an operation that is under way, nor older rollback rows.         *)
Quarantine ==
    /\ ext.disposition = "active"
    /\ ext' = [NewExtension EXCEPT !.revision = ext.revision + 1,
                                   !.disposition = "quarantined",
                                   !.retained = ext.active]
    /\ gen' = [gen EXCEPT ![ext.active].state = "retired"]
    /\ condemned' = condemned \cup {ext.active}
    /\ UNCHANGED <<op, budget, call, base>>

LeaseExpires(o) ==
    /\ Unfinished(o) /\ op[o].live
    /\ op' = [op EXCEPT ![o].live = FALSE]
    /\ UNCHANGED <<ext, gen, budget, call, base, condemned>>

ReadinessExpires(g) ==
    /\ gen[g].ready /\ gen[g].state = "warming"
    /\ gen' = [gen EXCEPT ![g].ready = FALSE]
    /\ UNCHANGED <<ext, op, budget, call, base, condemned>>

WindowCloses ==
    /\ ext.window = "open"
    /\ ext' = [ext EXCEPT !.window = "closed"]
    /\ UNCHANGED <<gen, op, budget, call, base, condemned>>

-----------------------------------------------------------------------------
Init ==
    /\ ext = NewExtension
    /\ gen = [g \in Generations |-> NoRow]
    /\ op = [o \in Operations |-> NewOperation]
    /\ budget = 0
    /\ call = [c \in Callers |-> NoCall]
    /\ base = [o \in Operations |-> NoPointers]
    /\ condemned = {}

Plan(c) ==
    \/ \E o \in Operations : ReadInventory(c, o)
    \/ Claim(c)
    \/ ResumePlanning(c)
    \/ SavePlan(c)

Execute(c) ==
    \/ \E o \in Operations : Resume(c, o)
    \/ Reauthorize(c)
    \/ Transition(c)
    \/ StageGeneration(c)
    \/ RefreshGenerationReadiness(c)
    \/ ActivateGeneration(c)
    \/ RollbackGeneration(c)
    \/ ChangeDisposition(c)

Surroundings ==
    \/ ReconcileExpired
    \/ Quarantine
    \/ \E g \in Generations : ReadinessExpires(g)
    \/ \E o \in Operations : LeaseExpires(o)
    \/ WindowCloses

Next == (\E c \in Callers : Plan(c) \/ Execute(c) \/ CallEnds(c)) \/ Surroundings

Spec == Init /\ [][Next]_vars

-----------------------------------------------------------------------------
Extensions == [revision : Nat, disposition : {"removed", "active", "disabled", "quarantined"},
               active : Generations \cup {0}, rollback : Generations \cup {0},
               advertised : Generations \cup {0}, retained : Generations \cup {0},
               window : {"none", "open", "closed"}]

Rows == [state : {"none", "warming", "active", "rollback", "retired"}, staged : Nat,
         ready : BOOLEAN]

Requests == [phase : {"absent", "planning", "downloading", "verified", "staged", "warming",
                      "completed", "failed"},
             kind : Kinds, target : Generations \cup {0}, expected : Nat, planned : BOOLEAN,
             token : Callers \cup {NoCaller}, live : BOOLEAN]

Calls == [pc : {"idle", "claim", "save", "authorize", "refresh", "write", "activate"},
          op : Operations \cup {NoOperation}, kind : Kinds,
          target : Generations \cup {0}, seen : Nat]

TypeOK ==
    /\ ext \in Extensions
    /\ gen \in [Generations -> Rows]
    /\ op \in [Operations -> Requests]
    /\ \A o \in Operations : Unfinished(o) => op[o].token \in Callers
    /\ budget \in Nat
    /\ call \in [Callers -> Calls]
    /\ \A c \in Callers : call[c].pc = "idle" <=> call[c].op = NoOperation
    /\ condemned \subseteq Generations

(* The pointers and the rows agree: one row is active, the one the active   *)
(* pointer names; a rollback pointer names a row rollbackGeneration() would *)
(* take, other than the active one, and the one that is advertised; and     *)
(* exactly a disabled or quarantined application retains a generation.      *)
ActiveRowIsPointed ==
    \A g \in Generations : gen[g].state = "active" <=> g = ext.active

RollbackIsRestorable ==
    ext.rollback # 0 =>
        /\ gen[ext.rollback].state = "rollback"
        /\ ext.rollback # ext.active
        /\ ext.advertised = ext.rollback
        /\ ext.window # "none"

DispositionIsPointed ==
    /\ ext.disposition = "active" <=> ext.active # 0
    /\ ext.disposition \in {"disabled", "quarantined"} <=> ext.retained # 0
    /\ ext.disposition # "active" => ext.rollback = 0 /\ ext.advertised = 0

PointersMatchRows ==
    /\ ActiveRowIsPointed
    /\ RollbackIsRestorable
    /\ DispositionIsPointed

(* Whatever claims, completions, expiries and their reconciliation do in    *)
(* which order, an identity has one unfinished operation and the budget     *)
(* counts exactly those that are: no place leaks and none is used twice.    *)
BudgetIsExact ==
    /\ budget = Cardinality({o \in Operations : Unfinished(o)})
    /\ budget <= MaxConcurrent
    /\ \A o, p \in Operations : Unfinished(o) /\ Unfinished(p) => o = p

(* A quarantined generation is neither active nor one to roll back to until *)
(* the application is uninstalled, although operations that were planned    *)
(* or staged before the quarantine go on after it.                          *)
QuarantineIsFinal == condemned \cap {ext.active, ext.rollback, ext.advertised} = {}

(* What may serve, now or after a rollback, is what the rows say may. *)
PointersAreSound == PointersMatchRows /\ QuarantineIsFinal

(* An operation takes effect on the pointers it was planned on, or, an      *)
(* install or update, was staged on: no quarantine came in between.         *)
CommitsOnItsBase ==
    [][\A o \in Operations :
          op[o].phase # "completed" /\ op'[o].phase = "completed" => Pointers = base[o]]_vars

(* An unfinished operation advances by a step of the call that holds its    *)
(* live token alone, and is given up only once that lease has ended.        *)
HolderAdvances ==
    [][\A o \in Operations :
          Unfinished(o) /\ op'[o].phase # op[o].phase =>
             IF op[o].live
             THEN call[op[o].token].op = o /\ call'[op[o].token] # call[op[o].token]
             ELSE op'[o].phase = "failed"]_vars

(* Operations take their steps and effect in turn, although several calls   *)
(* resume, reconcile and quarantine at once.                                *)
OperationsTakeTurns == CommitsOnItsBase /\ HolderAdvances

Pointer == INSTANCE GenerationPointer WITH
    revision <- ext.revision,
    active <- ext.active,
    quarantined <- IF ext.disposition = "quarantined" THEN ext.retained ELSE 0

(* What traffic is promised about the row holds whatever the operations of  *)
(* several calls do to it: each step is at most one move of the pointer     *)
(* under a new revision, and what leaves quarantine is another generation.  *)
MovesPointer == Pointer!PointerSpec

=============================================================================
