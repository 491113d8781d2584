------------------------ MODULE ExtensionLifecycle_proofs ------------------------
(***************************************************************************)
(* What ExtensionLifecycle promises for any generations, operations, calls *)
(* and workers.  LifecycleInv is the inductive invariant.  Its heart is    *)
(* that one operation of the application is unfinished at a time, so that  *)
(* between a plan and its commit only a quarantine moves the pointers, and *)
(* that the generations that were quarantined are older than whatever is   *)
(* active, advertised or planned.                                          *)
(***************************************************************************)
EXTENDS ExtensionLifecycle, FiniteSetTheorems, TLAPS

Installs(kind) == kind \in {"install", "update"}

OneUnfinished == \A o, p \in Operations : Unfinished(o) /\ Unfinished(p) => o = p

BudgetCounts == budget = IF \E o \in Operations : Unfinished(o) THEN 1 ELSE 0

TokensAreOfUnfinished == \A o \in Operations : op[o].token \in Callers => Unfinished(o)

(* What was quarantined is older than what may serve.                       *)
CondemnedAreOlder ==
    /\ \A h \in condemned :
          /\ ext.active # 0 => h < ext.active
          /\ ext.rollback # 0 => h < ext.rollback
          /\ ext.advertised # 0 => h < ext.advertised
          /\ ext.retained # 0 => h <= ext.retained
          /\ ext.disposition = "disabled" => h < ext.retained
    /\ ext.disposition = "removed" => condemned = {}
    /\ ext.disposition = "quarantined" => ext.retained \in condemned

RowsAreOlder == \A g \in Generations : gen[g].staged <= ext.revision

(* The target of an install or update is newer than what it replaces.       *)
TargetIsNew(kind, g) ==
    Installs(kind) =>
        /\ g \in Generations
        /\ \A h \in condemned : h < g
        /\ ext.active # 0 => ext.active < g

CallIsCurrent(c) ==
    /\ Do(c, "claim") =>
          /\ call[c].seen <= ext.revision
          /\ call[c].seen = ext.revision => TargetIsNew(call[c].kind, call[c].target)
    /\ call[c].pc \in {"authorize", "refresh", "write", "activate"} =>
          /\ op[call[c].op].phase # "absent"
          /\ Unfinished(call[c].op) => op[call[c].op].planned

PlanIsCurrent(o) ==
    /\ op[o].expected <= ext.revision
    /\ op[o].planned => op[o].expected < ext.revision
    /\ ~op[o].planned => op[o].phase = "planning"
    /\ op[o].phase # "planning" => Installs(op[o].kind)
    /\ op[o].planned \/ op[o].expected = ext.revision => TargetIsNew(op[o].kind, op[o].target)
    /\ op[o].planned /\ Installs(op[o].kind) => op[o].target # ext.rollback

BaseIsCurrent(o) ==
    /\ op[o].phase = "planning" /\ op[o].planned /\ AsPlanned(o) => base[o] = Pointers
    /\ op[o].phase = "warming" /\ gen[op[o].target].staged = ext.revision => base[o] = Pointers

BaseOfEach == base = [o \in Operations |-> base[o]]

LifecycleInv ==
    /\ TypeOK /\ BaseOfEach
    /\ OneUnfinished /\ BudgetCounts /\ TokensAreOfUnfinished
    /\ PointersMatchRows /\ CondemnedAreOlder /\ RowsAreOlder
    /\ \A c \in Callers : CallIsCurrent(c)
    /\ \A o \in Operations : Unfinished(o) => PlanIsCurrent(o) /\ BaseIsCurrent(o)

-----------------------------------------------------------------------------
LEMMA Blanks ==
    /\ NewExtension \in Extensions /\ NoRow \in Rows /\ NewOperation \in Requests /\ NoCall \in Calls
    /\ NewExtension = [revision |-> 0, disposition |-> "removed", active |-> 0, rollback |-> 0,
                       advertised |-> 0, retained |-> 0, window |-> "none"]
    /\ NoRow.state = "none" /\ NoRow.staged = 0
    /\ NewOperation.phase = "absent" /\ NewOperation.token = NoCaller
    /\ NoCall.pc = "idle" /\ NoCall.op = NoOperation
    /\ \A phase \in {"completed", "failed"} :
          /\ Ended(phase) \in Requests /\ Ended(phase).phase = phase
          /\ Ended(phase).token = NoCaller /\ ~Ended(phase).planned
<1>1. /\ NewExtension \in Extensions /\ NoRow \in Rows /\ NewOperation \in Requests /\ NoCall \in Calls
  BY DEF NewExtension, Extensions, NoRow, Rows, NewOperation, Requests, Kinds, NoCall, Calls
<1>2. \A phase \in {"completed", "failed"} :
          /\ Ended(phase) \in Requests /\ Ended(phase).phase = phase
          /\ Ended(phase).token = NoCaller /\ ~Ended(phase).planned
  BY DEF Ended, NewOperation, Requests, Kinds
<1> QED BY <1>1, <1>2 DEF NewExtension, NoRow, NewOperation, NoCall

LEMMA GenerationsArePositive == 0 \notin Generations /\ Generations \subseteq Nat
BY LifecycleAssumption

LEMMA InvInit == Init => LifecycleInv
<1> SUFFICES ASSUME Init PROVE LifecycleInv
  OBVIOUS
<1>1. \A o \in Operations : ~Unfinished(o) /\ op[o].token = NoCaller
  BY Blanks DEF Init, Unfinished
<1>2. TypeOK
  BY <1>1, Blanks DEF Init, TypeOK
<1>3. OneUnfinished /\ BudgetCounts /\ TokensAreOfUnfinished
  BY <1>1, LifecycleAssumption DEF OneUnfinished, BudgetCounts, TokensAreOfUnfinished, Init
<1>4. PointersMatchRows
  BY Blanks, GenerationsArePositive DEF Init, PointersMatchRows, ActiveRowIsPointed, RollbackIsRestorable,
     DispositionIsPointed
<1>5. CondemnedAreOlder /\ RowsAreOlder
  BY Blanks DEF Init, CondemnedAreOlder, RowsAreOlder
<1>6. \A c \in Callers : CallIsCurrent(c)
  BY Blanks DEF Init, CallIsCurrent, Do
<1>7. BaseOfEach
  BY DEF Init, BaseOfEach
<1> QED BY <1>1, <1>2, <1>3, <1>4, <1>5, <1>6, <1>7 DEF LifecycleInv

-----------------------------------------------------------------------------
(* What a step leaves alone keeps its part of the invariant. *)

SamePointers ==
    UNCHANGED <<ext.disposition, ext.active, ext.rollback, ext.advertised, ext.retained>>

LEMMA Typed ==
    ASSUME LifecycleInv
    PROVE  /\ ext \in Extensions /\ ext.revision \in Nat
           /\ ext.active \in Generations \cup {0} /\ ext.rollback \in Generations \cup {0}
           /\ ext.advertised \in Generations \cup {0} /\ ext.retained \in Generations \cup {0}
           /\ ext.disposition \in {"removed", "active", "disabled", "quarantined"}
           /\ ext.window \in {"none", "open", "closed"}
           /\ gen \in [Generations -> Rows] /\ \A g \in Generations : gen[g].staged \in Nat
           /\ op \in [Operations -> Requests] /\ \A o \in Operations : op[o].expected \in Nat
           /\ \A o \in Operations : op[o].target \in Generations \cup {0} /\ op[o].planned \in BOOLEAN
           /\ call \in [Callers -> Calls] /\ \A c \in Callers : call[c].seen \in Nat
           /\ \A c \in Callers : call[c].pc # "idle" => call[c].op \in Operations
           /\ condemned \subseteq Generations
<1>1. /\ ext \in Extensions /\ gen \in [Generations -> Rows] /\ op \in [Operations -> Requests]
      /\ call \in [Callers -> Calls] /\ condemned \subseteq Generations
      /\ \A c \in Callers : call[c].pc = "idle" <=> call[c].op = NoOperation
  BY DEF LifecycleInv, TypeOK
<1> QED BY <1>1 DEF Extensions, Rows, Requests, Calls

LEMMA Numbers ==
    ASSUME LifecycleInv
    PROVE  /\ ext.active \in Nat /\ ext.rollback \in Nat /\ ext.advertised \in Nat /\ ext.retained \in Nat
           /\ \A g \in Generations : g \in Nat /\ g # 0
           /\ \A h \in condemned : h \in Nat /\ h \in Generations
<1>1. \A g \in Generations \cup {0} : g \in Nat
  BY GenerationsArePositive
<1> QED BY <1>1, Typed, GenerationsArePositive

LEMMA StoreFrame ==
    ASSUME LifecycleInv, SamePointers, UNCHANGED condemned,
           ext'.window = "none" => ext.window = "none",
           \A g \in Generations : /\ (gen'[g].state = "active") <=> (gen[g].state = "active")
                                  /\ gen'[g].staged <= ext'.revision,
           ext.rollback # 0 => gen'[ext.rollback].state = "rollback"
    PROVE  PointersMatchRows' /\ CondemnedAreOlder' /\ RowsAreOlder'
<1>1. PointersMatchRows'
  BY DEF LifecycleInv, PointersMatchRows, ActiveRowIsPointed, RollbackIsRestorable, DispositionIsPointed,
     SamePointers
<1>2. CondemnedAreOlder' /\ RowsAreOlder'
  BY DEF LifecycleInv, CondemnedAreOlder, RowsAreOlder, SamePointers
<1> QED BY <1>1, <1>2

(* The rows of an application whose operations alone move.                  *)
LEMMA StoreStays ==
    ASSUME LifecycleInv, UNCHANGED <<ext, gen, condemned>>
    PROVE  PointersMatchRows' /\ CondemnedAreOlder' /\ RowsAreOlder'
BY DEF LifecycleInv, PointersMatchRows, ActiveRowIsPointed, RollbackIsRestorable, DispositionIsPointed,
   CondemnedAreOlder, RowsAreOlder

LEMMA OperationsFrame ==
    ASSUME LifecycleInv, UNCHANGED budget,
           \A o \in Operations : Unfinished(o)' <=> Unfinished(o),
           \A o \in Operations : op'[o].token \in Callers => op[o].token \in Callers \/ Unfinished(o)
    PROVE  OneUnfinished' /\ BudgetCounts' /\ TokensAreOfUnfinished'
<1>1. OneUnfinished'
  BY DEF LifecycleInv, OneUnfinished
<1>2. BudgetCounts'
  BY DEF LifecycleInv, BudgetCounts
<1>3. TokensAreOfUnfinished'
  BY DEF LifecycleInv, TokensAreOfUnfinished
<1> QED BY <1>1, <1>2, <1>3

LEMMA CallFrame ==
    ASSUME LifecycleInv, NEW d \in Callers, call'[d] = call[d],
           ext'.revision \in Nat, ext.revision <= ext'.revision,
           ext'.revision = ext.revision => ext'.active = ext.active /\ condemned' = condemned,
           \A o \in Operations : op[o].phase # "absent" =>
              /\ op'[o].phase # "absent"
              /\ Unfinished(o)' => Unfinished(o) /\ (op[o].planned => op'[o].planned)
    PROVE  CallIsCurrent(d)'
<1>0. CallIsCurrent(d) /\ call[d].seen \in Nat /\ ext.revision \in Nat
  BY Typed DEF LifecycleInv
<1>1. Do(d, "claim")' =>
          /\ call'[d].seen <= ext'.revision
          /\ call'[d].seen = ext'.revision => TargetIsNew(call[d].kind, call[d].target)'
  <2> SUFFICES ASSUME call[d].pc = "claim"
               PROVE  /\ call[d].seen <= ext'.revision
                      /\ call[d].seen = ext'.revision => TargetIsNew(call[d].kind, call[d].target)'
    BY DEF Do
  <2>1. call[d].seen <= ext.revision
        /\ (call[d].seen = ext.revision => TargetIsNew(call[d].kind, call[d].target))
    BY <1>0 DEF CallIsCurrent, Do
  <2>2. call[d].seen <= ext'.revision
    BY <1>0, <2>1
  <2>3. ASSUME call[d].seen = ext'.revision
        PROVE  TargetIsNew(call[d].kind, call[d].target)'
    <3>1. ext'.revision = ext.revision /\ call[d].seen = ext.revision
      BY <1>0, <2>1, <2>3
    <3> QED BY <2>1, <3>1 DEF TargetIsNew, Installs
  <2> QED BY <2>2, <2>3
<1>2. call'[d].pc \in {"authorize", "refresh", "write", "activate"} =>
          /\ op'[call'[d].op].phase # "absent"
          /\ Unfinished(call[d].op)' => op'[call'[d].op].planned
  BY Typed DEF LifecycleInv, CallIsCurrent
<1> QED BY <1>1, <1>2 DEF CallIsCurrent, Do, TargetIsNew, Unfinished

LEMMA PlanFrame ==
    ASSUME LifecycleInv, NEW o \in Operations, Unfinished(o),
           UNCHANGED <<op[o].phase, op[o].kind, op[o].target, op[o].expected, op[o].planned, base[o]>>,
           ext'.revision \in Nat, ext.revision <= ext'.revision,
           ext'.revision = ext.revision => /\ Pointers' = Pointers
                                           /\ \A g \in Generations : gen'[g].staged = gen[g].staged,
           ext'.revision # ext.revision => \A g \in Generations : gen'[g].staged <= ext.revision,
           \A g \in Generations : gen'[g].staged \in Nat,
           \/ SamePointers /\ UNCHANGED condemned
           \/ ext'.active = 0 /\ ext'.rollback = 0 /\ ext.active # 0 /\ condemned' = condemned \cup {ext.active}
    PROVE  PlanIsCurrent(o)' /\ BaseIsCurrent(o)'
<1>1. /\ PlanIsCurrent(o) /\ BaseIsCurrent(o) /\ op[o].expected \in Nat /\ ext.revision \in Nat
      /\ op[o].target \in Generations \cup {0} /\ op[o].planned \in BOOLEAN
      /\ op[o].phase # "planning" => Installs(op[o].kind)
  BY Typed DEF LifecycleInv, PlanIsCurrent
<1>2. TargetIsNew(op[o].kind, op[o].target) => TargetIsNew(op[o].kind, op[o].target)'
  BY GenerationsArePositive DEF TargetIsNew, Installs, SamePointers
<1>3. PlanIsCurrent(o)'
  <2>1. /\ op'[o].expected <= ext'.revision
        /\ op'[o].planned => op'[o].expected < ext'.revision
        /\ ~op'[o].planned => op'[o].phase = "planning"
        /\ op'[o].phase # "planning" => Installs(op'[o].kind)
    BY <1>1 DEF PlanIsCurrent, Installs
  <2>2. op'[o].planned \/ op'[o].expected = ext'.revision => TargetIsNew(op[o].kind, op[o].target)'
    BY <1>1, <1>2 DEF PlanIsCurrent
  <2>3. op'[o].planned /\ Installs(op'[o].kind) => op'[o].target # ext'.rollback
    <3>1. TargetIsNew(op[o].kind, op[o].target) /\ Installs(op[o].kind) => op[o].target # 0
      BY GenerationsArePositive DEF TargetIsNew
    <3> QED BY <1>1, <3>1 DEF PlanIsCurrent, SamePointers
  <2> QED BY <2>1, <2>2, <2>3 DEF PlanIsCurrent, TargetIsNew, Installs
<1>4. BaseIsCurrent(o)'
  <2>1. CASE ext'.revision = ext.revision
    <3>1. op[o].phase = "warming" => op[o].target \in Generations
      BY <1>1 DEF PlanIsCurrent, TargetIsNew
    <3> QED BY <1>1, <2>1, <3>1 DEF BaseIsCurrent, AsPlanned
  <2>2. CASE ext'.revision # ext.revision
    <3>1. op[o].phase = "warming" => op[o].target \in Generations
      BY <1>1 DEF PlanIsCurrent, TargetIsNew
    <3>2. ext.revision < ext'.revision
      BY <1>1, <2>2
    <3>3. ~(op'[o].planned /\ AsPlanned(o)')
      BY <1>1, <3>2 DEF PlanIsCurrent, AsPlanned
    <3>4. ~(op'[o].phase = "warming" /\ gen'[op'[o].target].staged = ext'.revision)
      BY <1>1, <2>2, <3>1, <3>2
    <3> QED BY <3>3, <3>4 DEF BaseIsCurrent
  <2> QED BY <2>1, <2>2
<1> QED BY <1>3, <1>4

(* Unfinished operations stay as planned, and none begins.                  *)
OperationsGoOn ==
    \A o \in Operations : op[o].phase # "absent" =>
        /\ op'[o].phase # "absent"
        /\ Unfinished(o)' => Unfinished(o) /\ (op[o].planned => op'[o].planned)

RevisionGoesOn ==
    /\ ext'.revision \in Nat /\ ext.revision <= ext'.revision
    /\ ext'.revision = ext.revision => ext'.active = ext.active /\ condemned' = condemned

CallsTyped ==
    /\ call \in [Callers -> Calls]
    /\ \A c \in Callers : call[c].pc = "idle" <=> call[c].op = NoOperation

Executing == {"authorize", "refresh", "write", "activate"}

LEMMA CallsStep ==
    ASSUME LifecycleInv, RevisionGoesOn, OperationsGoOn, NEW c \in Callers, ~Do(c, "idle"),
           NEW pc \in {"save"} \cup Executing, Return(c) \/ Goto(c, pc),
           pc \in Executing => call[c].pc \in Executing
    PROVE  CallsTyped' /\ \A d \in Callers : CallIsCurrent(d)'
<1>1. call \in [Callers -> Calls] /\ call[c] \in Calls /\ call[c].op \in Operations
      /\ \A d \in Callers : call[d].pc = "idle" <=> call[d].op = NoOperation
  BY Typed DEF LifecycleInv, TypeOK, Do
<1>2. /\ call' \in [Callers -> Calls]
      /\ \A d \in Callers \ {c} : call'[d] = call[d]
      /\ \/ call'[c].pc = "idle" /\ call'[c].op = NoOperation
         \/ call'[c].pc = pc /\ call'[c].op = call[c].op
  <2>1. CASE Return(c)
    BY <1>1, <2>1, Blanks DEF Return
  <2>2. CASE Goto(c, pc)
    <3>1. PICK k : k = [call[c] EXCEPT !.pc = pc]
      OBVIOUS
    <3>2. k \in Calls /\ k.pc = pc /\ k.op = call[c].op
      BY <1>1, <3>1 DEF Calls, Executing
    <3>3. call' = [call EXCEPT ![c] = k]
      BY <1>1, <2>2, <3>1 DEF Goto
    <3> QED BY <1>1, <3>2, <3>3
  <2> QED BY <2>1, <2>2
<1>3. CallsTyped'
  BY <1>1, <1>2, LifecycleAssumption DEF CallsTyped, Executing
<1>4. CallIsCurrent(c)'
  <2>1. call'[c].pc # "claim"
    BY <1>2 DEF Executing
  <2>2. ASSUME call'[c].pc \in Executing
        PROVE  /\ op'[call'[c].op].phase # "absent"
               /\ Unfinished(call[c].op)' => op'[call'[c].op].planned
               /\ call'[c].op = call[c].op
    <3>1. call[c].pc \in Executing /\ call'[c].op = call[c].op
      BY <1>2, <2>2 DEF Executing
    <3>2. /\ op[call[c].op].phase # "absent"
          /\ Unfinished(call[c].op) => op[call[c].op].planned
      BY <3>1 DEF LifecycleInv, CallIsCurrent, Executing
    <3> QED BY <1>1, <3>1, <3>2 DEF OperationsGoOn
  <2> QED BY <2>1, <2>2 DEF CallIsCurrent, Do, Executing, Unfinished
<1>5. \A d \in Callers \ {c} : CallIsCurrent(d)'
  BY <1>2, CallFrame DEF RevisionGoesOn, OperationsGoOn
<1> QED BY <1>3, <1>4, <1>5

LEMMA CallReturns ==
    ASSUME LifecycleInv, RevisionGoesOn, OperationsGoOn, NEW c \in Callers, ~Do(c, "idle"), Return(c)
    PROVE  CallsTyped' /\ \A d \in Callers : CallIsCurrent(d)'
<1>1. "save" \notin Executing
  BY DEF Executing
<1> QED BY <1>1, CallsStep

LEMMA CallsStay ==
    ASSUME LifecycleInv, RevisionGoesOn, OperationsGoOn, UNCHANGED call
    PROVE  CallsTyped' /\ \A d \in Callers : CallIsCurrent(d)'
<1>1. CallsTyped'
  BY DEF LifecycleInv, TypeOK, CallsTyped
<1>2. \A d \in Callers : CallIsCurrent(d)'
  BY CallFrame DEF RevisionGoesOn, OperationsGoOn
<1> QED BY <1>1, <1>2

LEMMA NothingGoesOn ==
    ASSUME LifecycleInv, UNCHANGED <<ext, op, condemned>>
    PROVE  RevisionGoesOn /\ OperationsGoOn
BY Typed DEF RevisionGoesOn, OperationsGoOn, Unfinished

LEMMA OnlyCalls ==
    ASSUME LifecycleInv, UNCHANGED <<ext, gen, op, budget, base, condemned>>,
           CallsTyped', \A d \in Callers : CallIsCurrent(d)'
    PROVE  LifecycleInv'
<1>1. TypeOK'
  BY DEF LifecycleInv, TypeOK, CallsTyped, Unfinished
<1>2. OneUnfinished' /\ BudgetCounts' /\ TokensAreOfUnfinished'
  BY DEF LifecycleInv, OneUnfinished, BudgetCounts, TokensAreOfUnfinished, Unfinished
<1>3. \A o \in Operations : Unfinished(o)' => PlanIsCurrent(o)' /\ BaseIsCurrent(o)'
  BY DEF LifecycleInv, PlanIsCurrent, BaseIsCurrent, Unfinished, AsPlanned, Pointers, TargetIsNew
<1> QED BY <1>1, <1>2, <1>3, StoreStays DEF LifecycleInv, BaseOfEach

LEMMA InvReadInventory ==
    ASSUME LifecycleInv, NEW c \in Callers, NEW o \in Operations, ReadInventory(c, o)
    PROVE  LifecycleInv'
<1>0. PICK kind \in Kinds : \E g \in Targets(kind) :
         call' = [call EXCEPT ![c] = [pc |-> "claim", op |-> o, kind |-> kind,
                                      target |-> g, seen |-> ext.revision]]
  BY DEF ReadInventory
<1>1. PICK g \in Targets(kind) :
         call' = [call EXCEPT ![c] = [pc |-> "claim", op |-> o, kind |-> kind,
                                      target |-> g, seen |-> ext.revision]]
  BY <1>0
<1>2. UNCHANGED <<ext, gen, op, budget, base, condemned>>
  BY DEF ReadInventory
<1>3. g \in Generations \cup {0} /\ TargetIsNew(kind, g)
  <2>1. /\ ext.active # 0 <=> ext.disposition = "active"
        /\ ext.retained # 0 <=> ext.disposition \in {"disabled", "quarantined"}
    BY DEF LifecycleInv, PointersMatchRows, DispositionIsPointed
  <2>2. CondemnedAreOlder
    BY DEF LifecycleInv
  <2>3. CASE kind = "install" /\ ext.disposition = "removed"
    BY <2>1, <2>2, <2>3 DEF Targets, TargetIsNew, CondemnedAreOlder
  <2>4. CASE kind = "install" /\ ext.disposition = "disabled"
    BY <2>1, <2>2, <2>4, Typed DEF Targets, TargetIsNew, CondemnedAreOlder
  <2>5. CASE kind = "update"
    <3>1. ext.disposition \in {"active", "quarantined"} /\ g \in Generations /\ g > Current
      BY <2>5 DEF Targets, Newer
    <3>2. /\ ext.active # 0 => Current = ext.active
          /\ ext.active = 0 => Current = ext.retained
          /\ Current \in Nat /\ g \in Nat
      BY <3>1, Numbers DEF Current
    <3>3. \A h \in condemned : h <= Current /\ h \in Nat
      BY <2>1, <2>2, <3>1, <3>2, Numbers DEF CondemnedAreOlder
    <3> QED BY <3>1, <3>2, <3>3 DEF TargetIsNew
  <2>6. CASE kind \in {"disable", "rollback", "uninstall"}
    BY <2>6, Typed DEF Targets, TargetIsNew, Installs, Current
  <2> QED BY <2>3, <2>4, <2>5, <2>6 DEF Targets, Kinds
<1>4. PICK k : k = [pc |-> "claim", op |-> o, kind |-> kind, target |-> g, seen |-> ext.revision]
  OBVIOUS
<1>5. k \in Calls /\ k.pc = "claim" /\ k.op = o /\ k.kind = kind /\ k.target = g /\ k.seen = ext.revision
  BY <1>3, <1>4, Typed DEF Calls
<1>6. call' = [call EXCEPT ![c] = k] /\ call \in [Callers -> Calls]
  BY <1>1, <1>4, Typed
<1>7. CallsTyped'
  BY <1>5, <1>6, LifecycleAssumption DEF LifecycleInv, TypeOK, CallsTyped
<1>8. CallIsCurrent(c)'
  BY <1>2, <1>3, <1>5, <1>6, Typed DEF CallIsCurrent, Do, TargetIsNew
<1>9. \A d \in Callers \ {c} : CallIsCurrent(d)'
  BY <1>2, <1>6, NothingGoesOn, CallFrame DEF RevisionGoesOn, OperationsGoOn
<1> QED BY <1>2, <1>7, <1>8, <1>9, OnlyCalls

LEMMA InvCalls ==
    ASSUME LifecycleInv, NEW c \in Callers, Reauthorize(c) \/ CallEnds(c)
    PROVE  LifecycleInv'
<1>1. UNCHANGED <<ext, gen, op, budget, base, condemned>> /\ ~Do(c, "idle")
  BY DEF Reauthorize, CallEnds, Do
<1>2. \/ Return(c)
      \/ call[c].pc \in Executing /\ (Goto(c, "refresh") \/ Goto(c, "write"))
  BY DEF Reauthorize, CallEnds, Do, Executing
<1>3. "refresh" \in Executing /\ "write" \in Executing
  BY DEF Executing
<1>4. CallsTyped' /\ \A d \in Callers : CallIsCurrent(d)'
  BY <1>1, <1>2, <1>3, NothingGoesOn, CallsStep, CallReturns
<1> QED BY <1>1, <1>4, OnlyCalls

(* An operation under way gets another lease or, unplanned, another target. *)
LEMMA LeaseStep ==
    ASSUME LifecycleInv, NEW o \in Operations, NEW w \in Requests, op' = [op EXCEPT ![o] = w],
           Unfinished(o), w.phase = op[o].phase, w.kind = op[o].kind, w.expected = op[o].expected,
           w.planned = op[o].planned, w.token \in Callers,
           \/ w.target = op[o].target
           \/ /\ ~op[o].planned
              /\ op[o].expected = ext.revision => TargetIsNew(w.kind, w.target),
           UNCHANGED <<ext, gen, budget, base, condemned>>,
           CallsTyped', \A d \in Callers : CallIsCurrent(d)'
    PROVE  LifecycleInv'
<1>1. /\ op \in [Operations -> Requests] /\ op' \in [Operations -> Requests] /\ op'[o] = w
      /\ \A p \in Operations \ {o} : op'[p] = op[p]
  BY Typed
<1>2. \A p \in Operations : Unfinished(p)' <=> Unfinished(p)
  BY <1>1 DEF Unfinished
<1>3. OneUnfinished' /\ BudgetCounts' /\ TokensAreOfUnfinished'
  BY <1>1, <1>2, OperationsFrame
<1>4. TypeOK'
  BY <1>1, <1>2 DEF LifecycleInv, TypeOK, CallsTyped
<1>5. \A p \in Operations \ {o} : Unfinished(p)' => PlanIsCurrent(p)' /\ BaseIsCurrent(p)'
  BY <1>1, <1>2 DEF LifecycleInv, PlanIsCurrent, BaseIsCurrent, AsPlanned, Pointers, TargetIsNew, Installs
<1>6. PlanIsCurrent(o) /\ BaseIsCurrent(o)
  BY DEF LifecycleInv
<1>7. CASE w.target = op[o].target
  <2>1. PlanIsCurrent(o)' /\ BaseIsCurrent(o)'
    BY <1>1, <1>6, <1>7 DEF PlanIsCurrent, BaseIsCurrent, AsPlanned, Pointers, TargetIsNew, Installs
  <2> QED BY <1>3, <1>4, <1>5, <2>1, StoreStays DEF LifecycleInv, BaseOfEach
<1>8. CASE ~op[o].planned /\ (op[o].expected = ext.revision => TargetIsNew(w.kind, w.target))
  <2>1. PlanIsCurrent(o)'
    BY <1>1, <1>6, <1>8 DEF PlanIsCurrent, TargetIsNew, Installs
  <2>2. BaseIsCurrent(o)'
    BY <1>1, <1>6, <1>8 DEF PlanIsCurrent, BaseIsCurrent
  <2> QED BY <1>3, <1>4, <1>5, <2>1, <2>2, StoreStays DEF LifecycleInv, BaseOfEach
<1> QED BY <1>7, <1>8

LEMMA LeaseGoesOn ==
    ASSUME LifecycleInv, UNCHANGED <<ext, condemned>>, NEW o \in Operations, NEW w,
           op' = [op EXCEPT ![o] = w], w.phase = op[o].phase, w.planned = op[o].planned
    PROVE  RevisionGoesOn /\ OperationsGoOn
BY Typed DEF RevisionGoesOn, OperationsGoOn, Unfinished

LEMMA InvLeaseExpires ==
    ASSUME LifecycleInv, NEW o \in Operations, LeaseExpires(o)
    PROVE  LifecycleInv'
<1>1. PICK w : w = [op[o] EXCEPT !.live = FALSE]
  OBVIOUS
<1>2. op[o] \in Requests /\ op[o].token \in Callers /\ Unfinished(o) /\ op \in [Operations -> Requests]
  BY DEF LifecycleInv, TypeOK, LeaseExpires
<1>3. /\ w \in Requests /\ w.phase = op[o].phase /\ w.kind = op[o].kind /\ w.expected = op[o].expected
      /\ w.planned = op[o].planned /\ w.token = op[o].token /\ w.target = op[o].target
  BY <1>1, <1>2 DEF Requests
<1>4. op' = [op EXCEPT ![o] = w] /\ UNCHANGED <<ext, gen, budget, call, base, condemned>>
  BY <1>1, <1>2 DEF LeaseExpires
<1>5. CallsTyped' /\ \A d \in Callers : CallIsCurrent(d)'
  BY <1>3, <1>4, LeaseGoesOn, CallsStay
<1> QED BY <1>2, <1>3, <1>4, <1>5, LeaseStep

LEMMA InvResume ==
    ASSUME LifecycleInv, NEW c \in Callers, NEW o \in Operations, Resume(c, o)
    PROVE  LifecycleInv'
<1>1. PICK w : w = [op[o] EXCEPT !.token = c, !.live = TRUE]
  OBVIOUS
<1>2. op[o] \in Requests /\ Unfinished(o) /\ op \in [Operations -> Requests] /\ call \in [Callers -> Calls]
      /\ CallsTyped
  BY DEF LifecycleInv, TypeOK, Resume, CallsTyped
<1>3. /\ w \in Requests /\ w.phase = op[o].phase /\ w.kind = op[o].kind /\ w.expected = op[o].expected
      /\ w.planned = op[o].planned /\ w.token = c /\ w.target = op[o].target
  BY <1>1, <1>2 DEF Requests
<1>4. op' = [op EXCEPT ![o] = w] /\ UNCHANGED <<ext, gen, budget, base, condemned>>
  BY <1>1, <1>2 DEF Resume, Takes
<1>5. PICK k : k = [NoCall EXCEPT !.pc = IF op[o].planned THEN "authorize" ELSE "idle",
                                  !.op = IF op[o].planned THEN o ELSE NoOperation]
  OBVIOUS
<1>6. /\ k \in Calls
      /\ op[o].planned => k.pc = "authorize" /\ k.op = o
      /\ ~op[o].planned => k.pc = "idle" /\ k.op = NoOperation
  BY <1>5 DEF Calls, NoCall, Kinds
<1>7. call' = [call EXCEPT ![c] = k]
  BY <1>5 DEF Resume
<1>8. CallsTyped'
  BY <1>2, <1>6, <1>7, LifecycleAssumption DEF CallsTyped
<1>9. op[o].phase # "absent" /\ op[o].planned \in BOOLEAN
  BY <1>2, Typed DEF Unfinished
<1>10. CallIsCurrent(c)'
  BY <1>2, <1>3, <1>4, <1>6, <1>7, <1>9 DEF CallIsCurrent, Do
<1>11. \A d \in Callers \ {c} : CallIsCurrent(d)'
  BY <1>2, <1>3, <1>4, <1>7, LeaseGoesOn, CallFrame DEF RevisionGoesOn, OperationsGoOn
<1> QED BY <1>2, <1>3, <1>4, <1>8, <1>10, <1>11, LeaseStep

LEMMA InvResumePlanning ==
    ASSUME LifecycleInv, NEW c \in Callers, ResumePlanning(c)
    PROVE  LifecycleInv'
<1>1. PICK o \in Operations : o = call[c].op
  BY Typed DEF ResumePlanning, Do
<1>2. /\ Do(c, "claim") /\ Unfinished(o) /\ ~op[o].planned
      /\ call[c].kind = op[o].kind /\ call[c].seen = op[o].expected
      /\ op' = [op EXCEPT ![o].token = c, ![o].live = TRUE, ![o].target = call[c].target]
      /\ Goto(c, "save") /\ UNCHANGED <<ext, gen, budget, base, condemned>>
  BY <1>1 DEF ResumePlanning
<1>3. op[o] \in Requests /\ op \in [Operations -> Requests] /\ call[c] \in Calls
  BY Typed
<1>4. PICK w : w = [op[o] EXCEPT !.token = c, !.live = TRUE, !.target = call[c].target]
  OBVIOUS
<1>5. /\ w \in Requests /\ w.phase = op[o].phase /\ w.kind = op[o].kind /\ w.expected = op[o].expected
      /\ w.planned = op[o].planned /\ w.token = c /\ w.target = call[c].target
  BY <1>3, <1>4 DEF Requests, Calls
<1>6. op' = [op EXCEPT ![o] = w]
  BY <1>2, <1>3, <1>4
<1>7. CallsTyped' /\ \A d \in Callers : CallIsCurrent(d)'
  <2>1. ~Do(c, "idle") /\ "save" \notin Executing
    BY <1>2 DEF Do, Executing
  <2>2. RevisionGoesOn /\ OperationsGoOn
    BY <1>2, <1>5, <1>6, LeaseGoesOn
  <2> QED BY <1>2, <2>1, <2>2, CallsStep
<1>8. op[o].expected = ext.revision => TargetIsNew(w.kind, w.target)
  <2>1. call[c].seen = ext.revision => TargetIsNew(call[c].kind, call[c].target)
    BY <1>2 DEF LifecycleInv, CallIsCurrent
  <2> QED BY <1>2, <1>5, <2>1
<1> QED BY <1>2, <1>5, <1>6, <1>7, <1>8, LeaseStep

-----------------------------------------------------------------------------
(* Steps of the rows alone. *)

LEMMA RowsStep ==
    ASSUME LifecycleInv, UNCHANGED <<op, budget, base>>,
           ext' \in Extensions, gen' \in [Generations -> Rows], condemned' \subseteq Generations,
           ext'.revision \in Nat, ext.revision <= ext'.revision,
           ext'.revision = ext.revision => /\ Pointers' = Pointers
                                           /\ \A g \in Generations : gen'[g].staged = gen[g].staged,
           ext'.revision # ext.revision => \A g \in Generations : gen'[g].staged <= ext.revision,
           \/ SamePointers /\ UNCHANGED condemned
           \/ ext'.active = 0 /\ ext'.rollback = 0 /\ ext.active # 0 /\ condemned' = condemned \cup {ext.active},
           PointersMatchRows', CondemnedAreOlder', RowsAreOlder',
           CallsTyped', \A d \in Callers : CallIsCurrent(d)'
    PROVE  LifecycleInv'
<1>1. TypeOK'
  BY DEF LifecycleInv, TypeOK, CallsTyped, Unfinished
<1>2. OneUnfinished' /\ BudgetCounts' /\ TokensAreOfUnfinished'
  BY DEF LifecycleInv, OneUnfinished, BudgetCounts, TokensAreOfUnfinished, Unfinished
<1>3. \A g \in Generations : gen'[g].staged \in Nat
  BY DEF Rows
<1>4. ASSUME NEW o \in Operations, Unfinished(o)'
      PROVE  PlanIsCurrent(o)' /\ BaseIsCurrent(o)'
  <2>1. Unfinished(o)
    BY <1>4 DEF Unfinished
  <2> QED BY <2>1, <1>3, PlanFrame
<1> QED BY <1>1, <1>2, <1>4 DEF LifecycleInv, BaseOfEach

LEMMA ReadinessStep ==
    ASSUME LifecycleInv, NEW g \in Generations, NEW ready \in BOOLEAN,
           gen' = [gen EXCEPT ![g].ready = ready], UNCHANGED <<ext, op, budget, base, condemned>>,
           CallsTyped', \A d \in Callers : CallIsCurrent(d)'
    PROVE  LifecycleInv'
<1>1. gen \in [Generations -> Rows] /\ gen[g] \in Rows /\ ext \in Extensions /\ ext.revision \in Nat
      /\ condemned \subseteq Generations /\ ext.rollback \in Generations \cup {0}
  BY Typed
<1>2. PICK w : w = [gen[g] EXCEPT !.ready = ready]
  OBVIOUS
<1>3. w \in Rows /\ w.state = gen[g].state /\ w.staged = gen[g].staged
  BY <1>1, <1>2 DEF Rows
<1>4. gen' = [gen EXCEPT ![g] = w]
  BY <1>1, <1>2
<1>5. /\ gen' \in [Generations -> Rows]
      /\ \A h \in Generations : gen'[h].state = gen[h].state /\ gen'[h].staged = gen[h].staged
  BY <1>1, <1>3, <1>4
<1>6. PointersMatchRows' /\ CondemnedAreOlder' /\ RowsAreOlder'
  <2>1. \A h \in Generations : gen[h].staged <= ext.revision
    BY DEF LifecycleInv, RowsAreOlder
  <2>2. ext.rollback # 0 => gen[ext.rollback].state = "rollback"
    BY DEF LifecycleInv, PointersMatchRows, RollbackIsRestorable
  <2> QED BY <1>1, <1>5, <2>1, <2>2, StoreFrame DEF SamePointers
<1>7. UNCHANGED Pointers /\ SamePointers /\ ext.revision <= ext'.revision
  BY <1>1 DEF Pointers, SamePointers
<1> QED BY <1>1, <1>5, <1>6, <1>7, RowsStep

LEMMA InvReadiness ==
    ASSUME LifecycleInv,
           \/ \E g \in Generations : ReadinessExpires(g)
           \/ \E c \in Callers : RefreshGenerationReadiness(c)
    PROVE  LifecycleInv'
<1>1. ASSUME NEW g \in Generations, ReadinessExpires(g)
      PROVE  LifecycleInv'
  <2>1. gen' = [gen EXCEPT ![g].ready = FALSE] /\ UNCHANGED <<ext, op, budget, call, base, condemned>>
    BY <1>1 DEF ReadinessExpires
  <2>2. CallsTyped' /\ \A d \in Callers : CallIsCurrent(d)'
    BY <2>1, NothingGoesOn, CallsStay
  <2> QED BY <2>1, <2>2, ReadinessStep
<1>2. ASSUME NEW c \in Callers, RefreshGenerationReadiness(c)
      PROVE  LifecycleInv'
  <2>1. PICK g : g = op[call[c].op].target
    OBVIOUS
  <2>2. /\ gen' = [gen EXCEPT ![g].ready = TRUE] /\ UNCHANGED <<ext, op, budget, base, condemned>>
        /\ Do(c, "refresh") /\ Holds(c) /\ Goto(c, "activate") /\ gen[g].state = "warming"
    BY <1>2, <2>1 DEF RefreshGenerationReadiness
  <2>3. ~Do(c, "idle") /\ "activate" \in Executing /\ call[c].pc \in Executing
    BY <2>2 DEF Do, Executing
  <2>4. CallsTyped' /\ \A d \in Callers : CallIsCurrent(d)'
    BY <2>2, <2>3, NothingGoesOn, CallsStep
  <2>5. CASE g \in Generations
    BY <2>2, <2>4, <2>5, ReadinessStep
  <2>6. CASE g \notin Generations
    <3>1. gen' = gen
      BY <2>2, <2>6, Typed
    <3> QED BY <2>2, <2>4, <3>1, OnlyCalls
  <2> QED BY <2>5, <2>6
<1> QED BY <1>1, <1>2

LEMMA InvWindowCloses ==
    ASSUME LifecycleInv, WindowCloses
    PROVE  LifecycleInv'
<1>1. ext \in Extensions /\ gen \in [Generations -> Rows] /\ condemned \subseteq Generations
      /\ \A h \in Generations : gen[h].staged <= ext.revision
  BY Typed DEF LifecycleInv, RowsAreOlder
<1>2. ext' = [ext EXCEPT !.window = "closed"] /\ UNCHANGED <<gen, op, budget, call, base, condemned>>
  BY DEF WindowCloses
<1>3. /\ ext' \in Extensions /\ ext'.revision = ext.revision /\ ext.revision \in Nat /\ SamePointers
      /\ ext'.window = "closed"
  BY <1>1, <1>2 DEF Extensions, SamePointers
<1>4. PointersMatchRows' /\ CondemnedAreOlder' /\ RowsAreOlder'
  <2>1. ext.rollback # 0 => gen[ext.rollback].state = "rollback"
    BY DEF LifecycleInv, PointersMatchRows, RollbackIsRestorable
  <2> QED BY <1>1, <1>2, <1>3, <2>1, StoreFrame
<1>5. UNCHANGED Pointers /\ ext.revision <= ext'.revision
  BY <1>3 DEF Pointers, SamePointers
<1>6. RevisionGoesOn /\ OperationsGoOn
  BY <1>2, <1>3, <1>5 DEF RevisionGoesOn, OperationsGoOn, SamePointers, Unfinished
<1>7. CallsTyped' /\ \A d \in Callers : CallIsCurrent(d)'
  BY <1>2, <1>6, CallsStay
<1> QED BY <1>1, <1>2, <1>3, <1>4, <1>5, <1>7, RowsStep

(* The row as a disable, an uninstall or a quarantine writes it.            *)
LEMMA Vacated ==
    ASSUME NEW n \in Nat, NEW d \in {"removed", "disabled", "quarantined"}, NEW g \in Generations \cup {0},
           ext' = [NewExtension EXCEPT !.revision = n, !.disposition = d, !.retained = g]
    PROVE  /\ ext' \in Extensions /\ ext'.revision = n /\ ext'.disposition = d /\ ext'.retained = g
           /\ ext'.active = 0 /\ ext'.rollback = 0 /\ ext'.advertised = 0
<1>1. ext' = [revision |-> n, disposition |-> d, active |-> 0, rollback |-> 0,
              advertised |-> 0, retained |-> g, window |-> "none"]
  BY DEF NewExtension
<1>2. /\ ext'.revision = n /\ ext'.disposition = d /\ ext'.retained = g
      /\ ext'.active = 0 /\ ext'.rollback = 0 /\ ext'.advertised = 0
  BY ONLY <1>1
<1>3. ext' \in Extensions
  BY ONLY <1>1, n \in Nat, d \in {"removed", "disabled", "quarantined"}, g \in Generations \cup {0}
     DEF Extensions
<1> QED BY <1>2, <1>3

LEMMA InvQuarantine ==
    ASSUME LifecycleInv, Quarantine
    PROVE  LifecycleInv'
<1>1. /\ ext \in Extensions /\ gen \in [Generations -> Rows] /\ condemned \subseteq Generations
      /\ \A h \in Generations : gen[h].staged <= ext.revision
      /\ ext.revision \in Nat /\ ext.active \in Generations
  BY Typed DEF LifecycleInv, RowsAreOlder, PointersMatchRows, DispositionIsPointed, Quarantine
<1>2. /\ ext' = [NewExtension EXCEPT !.revision = ext.revision + 1, !.disposition = "quarantined",
                                    !.retained = ext.active]
      /\ gen' = [gen EXCEPT ![ext.active].state = "retired"]
      /\ condemned' = condemned \cup {ext.active} /\ UNCHANGED <<op, budget, call, base>>
  BY DEF Quarantine
<1>3. /\ ext' \in Extensions /\ ext'.revision = ext.revision + 1 /\ ext'.disposition = "quarantined"
      /\ ext'.active = 0 /\ ext'.rollback = 0 /\ ext'.advertised = 0 /\ ext'.retained = ext.active
  <2>1. ext.revision + 1 \in Nat /\ ext.active \in Generations \cup {0}
    BY <1>1
  <2> QED BY ONLY <1>2, <2>1, Vacated
<1>4. /\ gen' \in [Generations -> Rows] /\ gen'[ext.active].state = "retired"
      /\ \A h \in Generations \ {ext.active} : gen'[h] = gen[h]
      /\ \A h \in Generations : gen'[h].staged = gen[h].staged
  <2>1. PICK w : w = [gen[ext.active] EXCEPT !.state = "retired"]
    OBVIOUS
  <2>2. w \in Rows /\ w.state = "retired" /\ w.staged = gen[ext.active].staged
    BY <1>1, <2>1 DEF Rows
  <2>3. gen' = [gen EXCEPT ![ext.active] = w]
    BY <1>1, <1>2, <2>1
  <2> QED BY <1>1, <2>2, <2>3
<1>5. PointersMatchRows'
  BY <1>3, <1>4, Numbers, <1>1 DEF LifecycleInv, PointersMatchRows, ActiveRowIsPointed, RollbackIsRestorable,
     DispositionIsPointed
<1>6. CondemnedAreOlder'
  <2>1. \A h \in condemned : h < ext.active /\ h \in Nat /\ ext.active \in Nat
    BY <1>1, Numbers DEF LifecycleInv, CondemnedAreOlder
  <2> QED BY <1>1, <1>2, <1>3, <2>1, Numbers DEF CondemnedAreOlder
<1>7. /\ ext.revision <= ext'.revision /\ ext'.revision # ext.revision /\ ext'.revision \in Nat
      /\ \A g \in Generations : gen'[g].staged <= ext.revision
  BY <1>1, <1>3, <1>4
<1>8. RowsAreOlder'
  <2>1. \A g \in Generations : gen'[g].staged \in Nat
    BY <1>4 DEF Rows
  <2> QED BY <1>1, <1>7, <2>1 DEF RowsAreOlder
<1>9. RevisionGoesOn /\ OperationsGoOn
  BY <1>2, <1>7 DEF RevisionGoesOn, OperationsGoOn, Unfinished
<1>10. CallsTyped' /\ \A d \in Callers : CallIsCurrent(d)'
  BY <1>2, <1>9, CallsStay
<1>11. condemned' \subseteq Generations /\ ext.active # 0
  BY <1>1, <1>2, Numbers
<1> QED BY <1>2, <1>3, <1>4, <1>5, <1>6, <1>7, <1>8, <1>10, <1>11, RowsStep

-----------------------------------------------------------------------------
(* The end of the unfinished operation. *)

LEMMA FinishGoesOn ==
    ASSUME LifecycleInv, NEW o \in Operations, Unfinished(o), NEW phase \in {"completed", "failed"},
           op' = [op EXCEPT ![o] = Ended(phase)]
    PROVE  /\ OperationsGoOn
           /\ \A p \in Operations : ~Unfinished(p)' /\ (p # o => op'[p] = op[p])
           /\ op' \in [Operations -> Requests] /\ op'[o] = Ended(phase)
<1>1. /\ op \in [Operations -> Requests] /\ op' \in [Operations -> Requests] /\ op'[o] = Ended(phase)
      /\ \A p \in Operations : p # o => op'[p] = op[p]
  BY Typed, Blanks
<1>2. Ended(phase).phase = phase
  BY Blanks
<1>3. \A p \in Operations : ~Unfinished(p)'
  BY <1>1, <1>2 DEF LifecycleInv, OneUnfinished, Unfinished
<1>4. OperationsGoOn
  BY <1>1, <1>2, <1>3 DEF OperationsGoOn
<1> QED BY <1>1, <1>3, <1>4

LEMMA Finishes ==
    ASSUME LifecycleInv, NEW o \in Operations, Unfinished(o), NEW phase \in {"completed", "failed"},
           op' = [op EXCEPT ![o] = Ended(phase)], budget' = budget - 1, BaseOfEach',
           ext' \in Extensions, gen' \in [Generations -> Rows], condemned' \subseteq Generations,
           PointersMatchRows', CondemnedAreOlder', RowsAreOlder',
           CallsTyped', \A d \in Callers : CallIsCurrent(d)'
    PROVE  LifecycleInv'
<1>1. /\ \A p \in Operations : ~Unfinished(p)' /\ (p # o => op'[p] = op[p])
      /\ op' \in [Operations -> Requests] /\ op'[o] = Ended(phase)
  BY FinishGoesOn
<1>2. budget' = 0 /\ BudgetCounts'
  BY <1>1 DEF LifecycleInv, BudgetCounts
<1>3. OneUnfinished'
  BY <1>1 DEF OneUnfinished
<1>4. TokensAreOfUnfinished'
  <2>1. \A p \in Operations : op'[p].token \notin Callers
    <3>1. \A p \in Operations : Unfinished(p) => p = o
      BY DEF LifecycleInv, OneUnfinished
    <3>2. \A p \in Operations : p # o => op[p].token \notin Callers
      BY <3>1 DEF LifecycleInv, TokensAreOfUnfinished
    <3> QED BY <1>1, <3>2, Blanks, LifecycleAssumption
  <2> QED BY <2>1 DEF TokensAreOfUnfinished
<1>5. TypeOK'
  BY <1>1, <1>2 DEF TypeOK, CallsTyped
<1> QED BY <1>1, <1>2, <1>3, <1>4, <1>5 DEF LifecycleInv

(* A new revision of the row and nothing else.                              *)
LEMMA Advances ==
    ASSUME LifecycleInv, NEW n \in Nat, ext' = [ext EXCEPT !.revision = @ + n]
    PROVE  /\ ext' \in Extensions /\ ext'.revision = ext.revision + n /\ ext'.revision \in Nat
           /\ ext.revision <= ext'.revision /\ SamePointers /\ UNCHANGED Pointers
           /\ ext'.window = ext.window
<1>1. ext \in Extensions /\ ext.revision \in Nat
  BY Typed
<1>2. ext' \in Extensions /\ ext'.revision = ext.revision + n /\ SamePointers /\ ext'.window = ext.window
  BY <1>1 DEF Extensions, SamePointers
<1> QED BY <1>1, <1>2 DEF Pointers, SamePointers

LEMMA StoreAdvances ==
    ASSUME LifecycleInv, NEW n \in Nat, ext' = [ext EXCEPT !.revision = @ + n], UNCHANGED <<gen, condemned>>
    PROVE  PointersMatchRows' /\ CondemnedAreOlder' /\ RowsAreOlder' /\ RevisionGoesOn
<1>1. /\ \A g \in Generations : gen[g].staged \in Nat /\ gen[g].staged <= ext.revision
      /\ ext.revision \in Nat
      /\ ext.rollback # 0 => gen[ext.rollback].state = "rollback"
  BY Typed DEF LifecycleInv, RowsAreOlder, PointersMatchRows, RollbackIsRestorable
<1>2. \A g \in Generations : gen[g].staged <= ext'.revision
  BY <1>1, Advances
<1> QED BY <1>1, <1>2, Advances, StoreFrame DEF RevisionGoesOn, SamePointers

LEMMA InvReconcileExpired ==
    ASSUME LifecycleInv, ReconcileExpired
    PROVE  LifecycleInv'
<1>1. PICK o \in Operations : Expired(o)
  BY DEF ReconcileExpired
<1>2. \A p \in Operations : Expired(p) <=> p = o
  BY <1>1 DEF LifecycleInv, OneUnfinished, Expired
<1>3. {p \in Operations : Expired(p)} = {o}
  BY <1>2
<1>4. Reclaimed = 1
  BY <1>3, FS_Singleton DEF Reclaimed
<1>5. PICK n \in Nat : n = Cardinality({p \in Operations : Expired(p) /\ op[p].planned})
  <2> DEFINE P == {p \in Operations : Expired(p) /\ op[p].planned}
  <2>1. P = {} \/ P = {o}
    BY <1>2
  <2>2. Cardinality(P) \in Nat
    <3> HIDE DEF P
    <3> QED BY <2>1, FS_Singleton, FS_EmptySet
  <2> QED BY <2>2
<1>6. /\ ext' = [ext EXCEPT !.revision = @ + n] /\ budget' = budget - 1
      /\ UNCHANGED <<gen, call, condemned>>
  BY <1>4, <1>5 DEF ReconcileExpired
<1>7. op' = [op EXCEPT ![o] = Ended("failed")]
  <2>1. op' = [p \in Operations |-> IF p = o THEN Ended("failed") ELSE op[p]]
    BY <1>2 DEF ReconcileExpired
  <2> QED BY <2>1, Typed
<1>8. Unfinished(o)
  BY <1>1 DEF Expired
<1>9. PointersMatchRows' /\ CondemnedAreOlder' /\ RowsAreOlder' /\ RevisionGoesOn /\ ext' \in Extensions
  BY <1>6, StoreAdvances, Advances
<1>10. CallsTyped' /\ \A d \in Callers : CallIsCurrent(d)'
  BY <1>6, <1>7, <1>8, <1>9, FinishGoesOn, CallsStay
<1>11. BaseOfEach'
  BY DEF ReconcileExpired, BaseOfEach
<1> QED BY <1>6, <1>7, <1>8, <1>9, <1>10, <1>11, Finishes, Typed

-----------------------------------------------------------------------------
(* The steps of an operation under way. *)

LEMMA Holder ==
    ASSUME LifecycleInv, NEW c \in Callers, ~Do(c, "idle"), Holds(c)
    PROVE  /\ call[c].op \in Operations /\ Unfinished(call[c].op)
           /\ PlanIsCurrent(call[c].op) /\ BaseIsCurrent(call[c].op)
           /\ op[call[c].op].token = c /\ op[call[c].op] \in Requests
           /\ call[c].pc \in Executing => op[call[c].op].planned
<1>1. call[c].op \in Operations
  BY Typed DEF Do
<1>2. Unfinished(call[c].op)
  BY <1>1 DEF LifecycleInv, TokensAreOfUnfinished, Holds
<1> QED BY <1>1, <1>2, Typed DEF LifecycleInv, Holds, CallIsCurrent, Executing

LEMMA OperationStep ==
    ASSUME LifecycleInv, NEW o \in Operations, NEW w \in Requests, op' = [op EXCEPT ![o] = w],
           Unfinished(o), w.phase \notin {"absent", "completed", "failed"}, w.token = op[o].token,
           UNCHANGED <<budget, condemned>>, BaseOfEach',
           ext' \in Extensions, gen' \in [Generations -> Rows],
           PointersMatchRows', CondemnedAreOlder', RowsAreOlder',
           PlanIsCurrent(o)', BaseIsCurrent(o)',
           CallsTyped', \A d \in Callers : CallIsCurrent(d)'
    PROVE  LifecycleInv'
<1>1. /\ op \in [Operations -> Requests] /\ op' \in [Operations -> Requests] /\ op'[o] = w
      /\ \A p \in Operations \ {o} : op'[p] = op[p]
  BY Typed
<1>2. \A p \in Operations : Unfinished(p)' <=> Unfinished(p)
  BY <1>1 DEF Unfinished
<1>3. OneUnfinished' /\ BudgetCounts' /\ TokensAreOfUnfinished'
  BY <1>1, <1>2, OperationsFrame
<1>4. TypeOK'
  BY <1>1, <1>2 DEF LifecycleInv, TypeOK, CallsTyped
<1>5. \A p \in Operations : Unfinished(p)' => p = o
  BY <1>2 DEF LifecycleInv, OneUnfinished
<1> QED BY <1>3, <1>4, <1>5 DEF LifecycleInv

LEMMA OperationGoesOn ==
    ASSUME LifecycleInv, NEW o \in Operations, NEW w \in Requests, op' = [op EXCEPT ![o] = w],
           Unfinished(o), w.phase # "absent", op[o].planned => w.planned
    PROVE  OperationsGoOn
BY Typed DEF OperationsGoOn, Unfinished

LEMMA InvClaim ==
    ASSUME LifecycleInv, NEW c \in Callers, Claim(c)
    PROVE  LifecycleInv'
<1>1. PICK o \in Operations : o = call[c].op
  BY Typed DEF Claim, Do
<1>2. /\ Do(c, "claim") /\ op[o].phase = "absent" /\ ext.revision = call[c].seen
      /\ \A p \in Operations : ~Unfinished(p)
      /\ budget' = budget + 1 /\ Goto(c, "save") /\ UNCHANGED <<ext, gen, base, condemned>>
  BY <1>1 DEF Claim
<1>3. PICK w : w = [NewOperation EXCEPT
                 !.phase = "planning", !.kind = call[c].kind, !.target = call[c].target,
                 !.expected = call[c].seen, !.token = c, !.live = TRUE]
  OBVIOUS
<1>4. /\ w \in Requests /\ w.phase = "planning" /\ w.kind = call[c].kind /\ w.target = call[c].target
      /\ w.expected = ext.revision /\ w.token = c /\ ~w.planned
  <2>1. call[c] \in Calls
    BY Typed
  <2> QED BY <1>2, <1>3, <2>1 DEF Requests, Calls, NewOperation
<1>5. op' = [op EXCEPT ![o] = w]
  BY <1>1, <1>3 DEF Claim
<1>6. /\ op \in [Operations -> Requests] /\ op' \in [Operations -> Requests] /\ op'[o] = w
      /\ \A p \in Operations \ {o} : op'[p] = op[p]
  BY <1>4, <1>5, Typed
<1>7. \A p \in Operations : Unfinished(p)' <=> p = o
  BY <1>2, <1>4, <1>6 DEF Unfinished
<1>8. OneUnfinished' /\ TokensAreOfUnfinished'
  BY <1>2, <1>6, <1>7 DEF LifecycleInv, OneUnfinished, TokensAreOfUnfinished
<1>9. BudgetCounts' /\ budget' \in Nat
  BY <1>2, <1>7 DEF LifecycleInv, BudgetCounts
<1>10. CallsTyped' /\ \A d \in Callers : CallIsCurrent(d)'
  <2>1. ~Do(c, "idle") /\ "save" \notin Executing
    BY <1>2 DEF Do, Executing
  <2>2. RevisionGoesOn
    BY <1>2, Typed DEF RevisionGoesOn
  <2>3. OperationsGoOn
    <3>1. \A p \in Operations : op[p].phase # "absent" => op'[p] = op[p] /\ p # o
      BY <1>2, <1>6
    <3> QED BY <1>7, <3>1 DEF OperationsGoOn
  <2> QED BY <1>2, <2>1, <2>2, <2>3, CallsStep
<1>11. TypeOK'
  BY <1>2, <1>4, <1>6, <1>7, <1>9, <1>10 DEF LifecycleInv, TypeOK, CallsTyped
<1>12. PlanIsCurrent(o)' /\ BaseIsCurrent(o)'
  <2>1. TargetIsNew(w.kind, w.target)
    BY <1>2, <1>4 DEF LifecycleInv, CallIsCurrent, Do
  <2>2. ext.revision \in Nat
    BY Typed
  <2> QED BY <1>2, <1>4, <1>6, <2>1, <2>2 DEF PlanIsCurrent, BaseIsCurrent, TargetIsNew, Installs
<1>13. BaseOfEach'
  BY <1>2 DEF LifecycleInv, BaseOfEach
<1> QED BY <1>2, <1>7, <1>8, <1>9, <1>10, <1>11, <1>12, <1>13, StoreStays DEF LifecycleInv

LEMMA InvSavePlan ==
    ASSUME LifecycleInv, NEW c \in Callers, SavePlan(c)
    PROVE  LifecycleInv'
<1>1. PICK o \in Operations : o = call[c].op
  BY Typed DEF SavePlan, Do
<1>2. /\ Do(c, "save") /\ ~Do(c, "idle") /\ Holds(c) /\ ext.revision = op[o].expected /\ FitsPointers(o)
      /\ ext' = [ext EXCEPT !.revision = @ + 1] /\ base' = [base EXCEPT ![o] = Pointers]
      /\ Return(c) /\ UNCHANGED <<gen, budget, condemned>>
  BY <1>1 DEF SavePlan, Do
<1>3. Unfinished(o) /\ PlanIsCurrent(o) /\ op[o] \in Requests /\ op[o].expected \in Nat
  BY <1>1, <1>2, Holder, Typed
<1>4. PICK w : w = [op[o] EXCEPT !.planned = TRUE]
  OBVIOUS
<1>5. /\ w \in Requests /\ w.phase = op[o].phase /\ w.kind = op[o].kind /\ w.target = op[o].target
      /\ w.expected = op[o].expected /\ w.token = op[o].token /\ w.planned
  BY <1>3, <1>4 DEF Requests
<1>6. op' = [op EXCEPT ![o] = w] /\ op'[o] = w
  BY <1>1, <1>4, Typed DEF SavePlan
<1>7. ~op[o].planned /\ op[o].phase = "planning"
  BY <1>2, <1>3 DEF PlanIsCurrent
<1>8. /\ ext' \in Extensions /\ ext'.revision = ext.revision + 1 /\ SamePointers /\ UNCHANGED Pointers
      /\ ext.revision \in Nat
  BY <1>2, Advances, Typed
<1>9. PointersMatchRows' /\ CondemnedAreOlder' /\ RowsAreOlder' /\ RevisionGoesOn
  BY <1>2, StoreAdvances
<1>10. OperationsGoOn
  BY <1>3, <1>5, <1>6, OperationGoesOn DEF Unfinished
<1>11. CallsTyped' /\ \A d \in Callers : CallIsCurrent(d)'
  BY <1>2, <1>9, <1>10, CallReturns
<1>12. base'[o] = Pointers' /\ BaseOfEach'
  <2>1. base = [p \in Operations |-> base[p]]
    BY DEF LifecycleInv, BaseOfEach
  <2> QED BY <1>2, <1>8, <2>1 DEF BaseOfEach
<1>13. PlanIsCurrent(o)'
  <2>1. TargetIsNew(op[o].kind, op[o].target)
    BY <1>2, <1>3 DEF PlanIsCurrent
  <2>2. Installs(op[o].kind) => op[o].target # ext.rollback
    BY <1>2 DEF FitsPointers, Installs
  <2> QED BY <1>2, <1>3, <1>5, <1>6, <1>7, <1>8, <2>1, <2>2
          DEF PlanIsCurrent, TargetIsNew, Installs, SamePointers
<1>14. BaseIsCurrent(o)'
  BY <1>5, <1>6, <1>7, <1>12 DEF BaseIsCurrent, Pointers
<1>15. w.phase \notin {"absent", "completed", "failed"} /\ gen' \in [Generations -> Rows]
  BY <1>2, <1>5, <1>7, Typed
<1> QED BY <1>2, <1>3, <1>5, <1>6, <1>8, <1>9, <1>11, <1>12, <1>13, <1>14, <1>15, OperationStep

LEMMA InvTransition ==
    ASSUME LifecycleInv, NEW c \in Callers, Transition(c)
    PROVE  LifecycleInv'
<1>1. PICK o \in Operations : o = call[c].op
  BY Typed DEF Transition, Writes, Do
<1>2. /\ call[c].pc = "write" /\ ~Do(c, "idle") /\ Holds(c) /\ Installs(op[o].kind)
      /\ ext' = [ext EXCEPT !.revision = @ + 1]
      /\ Return(c) \/ Goto(c, "authorize")
      /\ UNCHANGED <<gen, budget, base, condemned>>
  BY <1>1 DEF Transition, Writes, Do, Installs
<1>3. PICK phase : phase = NextPhase[op[o].phase]
  OBVIOUS
<1>4. phase \in {"downloading", "verified", "staged"}
  BY <1>1, <1>3 DEF Transition, NextPhase
<1>5. Unfinished(o) /\ PlanIsCurrent(o) /\ op[o] \in Requests /\ op[o].expected \in Nat /\ op[o].planned
  BY <1>1, <1>2, Holder, Typed DEF Executing
<1>6. PICK w : w = [op[o] EXCEPT !.phase = phase]
  OBVIOUS
<1>7. /\ w \in Requests /\ w.phase = phase /\ w.kind = op[o].kind /\ w.target = op[o].target
      /\ w.expected = op[o].expected /\ w.token = op[o].token /\ w.planned = op[o].planned
  BY <1>4, <1>5, <1>6 DEF Requests
<1>8. op' = [op EXCEPT ![o] = w] /\ op'[o] = w
  <2>1. op' = [op EXCEPT ![o].phase = phase]
    BY <1>1, <1>3 DEF Transition
  <2> QED BY <1>6, <2>1, Typed
<1>9. /\ ext' \in Extensions /\ ext'.revision = ext.revision + 1 /\ SamePointers /\ ext.revision \in Nat
  BY <1>2, Advances, Typed
<1>10. PointersMatchRows' /\ CondemnedAreOlder' /\ RowsAreOlder' /\ RevisionGoesOn
  BY <1>2, StoreAdvances
<1>11. OperationsGoOn
  BY <1>4, <1>5, <1>7, <1>8, OperationGoesOn
<1>12. CallsTyped' /\ \A d \in Callers : CallIsCurrent(d)'
  BY <1>2, <1>10, <1>11, CallReturns, CallsStep DEF Executing
<1>13. BaseOfEach' /\ gen' \in [Generations -> Rows]
  BY <1>2, Typed DEF LifecycleInv, BaseOfEach
<1>14. PlanIsCurrent(o)'
  <2>1. /\ op[o].expected < ext.revision /\ TargetIsNew(op[o].kind, op[o].target)
        /\ op[o].target # ext.rollback
    BY <1>2, <1>5 DEF PlanIsCurrent
  <2>2. TargetIsNew(w.kind, w.target)'
    BY <1>2, <1>7, <1>9, <2>1 DEF TargetIsNew, Installs, SamePointers
  <2>3. /\ op'[o].expected < ext'.revision /\ op'[o].expected <= ext'.revision
        /\ op'[o].target # ext'.rollback /\ Installs(op'[o].kind)
    BY <1>2, <1>5, <1>7, <1>8, <1>9, <2>1 DEF SamePointers
  <2>4. op'[o].planned
    BY <1>5, <1>7, <1>8
  <2> QED BY <1>8, <2>2, <2>3, <2>4 DEF PlanIsCurrent, TargetIsNew, Installs
<1>15. BaseIsCurrent(o)'
  BY <1>4, <1>7, <1>8 DEF BaseIsCurrent
<1>16. w.phase \notin {"absent", "completed", "failed"}
  BY <1>4, <1>7
<1> QED BY <1>2, <1>5, <1>7, <1>8, <1>9, <1>10, <1>12, <1>13, <1>14, <1>15, <1>16, OperationStep

LEMMA InvStageGeneration ==
    ASSUME LifecycleInv, NEW c \in Callers, StageGeneration(c)
    PROVE  LifecycleInv'
<1>1. PICK o \in Operations : o = call[c].op
  BY Typed DEF StageGeneration, Writes, Do
<1>2. /\ call[c].pc = "write" /\ ~Do(c, "idle") /\ Holds(c) /\ op[o].phase = "staged"
      /\ op' = [op EXCEPT ![o].phase = "warming"]
      /\ gen' = [gen EXCEPT ![op[o].target] = [state |-> "warming", staged |-> ext.revision + 1, ready |-> TRUE]]
      /\ ext' = [ext EXCEPT !.revision = @ + 1] /\ base' = [base EXCEPT ![o] = Pointers]
      /\ Goto(c, "activate") /\ UNCHANGED <<budget, condemned>>
  BY <1>1 DEF StageGeneration, Writes, Do
<1>3. /\ Unfinished(o) /\ PlanIsCurrent(o) /\ op[o] \in Requests /\ op[o].expected \in Nat /\ op[o].planned
      /\ ext.revision \in Nat
  BY <1>1, <1>2, Holder, Typed DEF Executing
<1>4. PICK g : g = op[o].target
  OBVIOUS
<1>5. g \in Generations /\ g # ext.active /\ g # ext.rollback /\ Installs(op[o].kind)
      /\ TargetIsNew(op[o].kind, op[o].target)
  <2>1. Installs(op[o].kind) /\ TargetIsNew(op[o].kind, op[o].target) /\ g # ext.rollback
    BY <1>2, <1>3, <1>4 DEF PlanIsCurrent
  <2> QED BY <1>4, <2>1, Numbers DEF TargetIsNew
<1>6. PICK w : w = [op[o] EXCEPT !.phase = "warming"]
  OBVIOUS
<1>7. /\ w \in Requests /\ w.phase = "warming" /\ w.kind = op[o].kind /\ w.target = op[o].target
      /\ w.expected = op[o].expected /\ w.token = op[o].token /\ w.planned = op[o].planned
  BY <1>3, <1>6 DEF Requests
<1>8. op' = [op EXCEPT ![o] = w] /\ op'[o] = w
  BY <1>2, <1>6, Typed
<1>9. /\ ext' \in Extensions /\ ext'.revision = ext.revision + 1 /\ SamePointers /\ UNCHANGED Pointers
      /\ ext'.window = ext.window /\ ext'.revision \in Nat
  BY <1>2, Advances
<1>10. PICK row : row = [state |-> "warming", staged |-> ext.revision + 1, ready |-> TRUE]
  OBVIOUS
<1>11. row \in Rows /\ row.state = "warming" /\ row.staged = ext'.revision
  BY <1>3, <1>9, <1>10 DEF Rows
<1>12. /\ gen' \in [Generations -> Rows] /\ gen'[g] = row
       /\ \A h \in Generations \ {g} : gen'[h] = gen[h]
  BY <1>2, <1>4, <1>5, <1>10, <1>11, Typed
<1>13. PointersMatchRows' /\ CondemnedAreOlder' /\ RowsAreOlder'
  <2>1. /\ \A h \in Generations : gen[h].staged \in Nat /\ gen[h].staged <= ext.revision
        /\ ext.rollback # 0 => gen[ext.rollback].state = "rollback"
        /\ gen[g].state # "active" /\ ext.rollback \in Generations \cup {0}
    BY <1>5, Typed DEF LifecycleInv, RowsAreOlder, PointersMatchRows, RollbackIsRestorable, ActiveRowIsPointed
  <2>2. \A h \in Generations : gen'[h].staged <= ext'.revision
    BY <1>3, <1>9, <1>11, <1>12, <2>1
  <2>3. \A h \in Generations : (gen'[h].state = "active") <=> (gen[h].state = "active")
    BY <1>11, <1>12, <2>1
  <2>4. ext.rollback # 0 => gen'[ext.rollback].state = "rollback"
    BY <1>5, <1>12, <2>1
  <2> QED BY <1>2, <1>9, <2>2, <2>3, <2>4, StoreFrame
<1>14. RevisionGoesOn /\ OperationsGoOn
  <2>1. OperationsGoOn
    BY <1>3, <1>7, <1>8, OperationGoesOn
  <2> QED BY <1>2, <1>3, <1>9, <2>1 DEF RevisionGoesOn
<1>15. CallsTyped' /\ \A d \in Callers : CallIsCurrent(d)'
  BY <1>2, <1>14, CallsStep DEF Executing
<1>16. base'[o] = Pointers' /\ BaseOfEach'
  <2>1. base = [p \in Operations |-> base[p]]
    BY DEF LifecycleInv, BaseOfEach
  <2> QED BY <1>2, <1>9, <2>1 DEF BaseOfEach
<1>17. PlanIsCurrent(o)'
  BY <1>2, <1>3, <1>4, <1>5, <1>7, <1>8, <1>9 DEF PlanIsCurrent, TargetIsNew, Installs, SamePointers
<1>18. BaseIsCurrent(o)'
  BY <1>7, <1>8, <1>16 DEF BaseIsCurrent, Pointers
<1>19. w.phase \notin {"absent", "completed", "failed"}
  BY <1>7
<1> QED BY <1>2, <1>3, <1>7, <1>8, <1>9, <1>12, <1>13, <1>15, <1>16, <1>17, <1>18, <1>19, OperationStep

-----------------------------------------------------------------------------
(* The steps that complete an operation. *)

LEMMA Completion ==
    ASSUME LifecycleInv, NEW c \in Callers, ~Do(c, "idle"), Holds(c), Completes(c),
           ext' \in Extensions, ext'.revision = ext.revision + 1,
           gen' \in [Generations -> Rows], condemned' \subseteq Generations,
           PointersMatchRows', CondemnedAreOlder', RowsAreOlder'
    PROVE  LifecycleInv'
<1>1. PICK o \in Operations : o = call[c].op
  BY Typed DEF Do
<1>2. /\ op' = [op EXCEPT ![o] = Ended("completed")] /\ base' = [base EXCEPT ![o] = NoPointers]
      /\ budget' = budget - 1 /\ Return(c)
  BY <1>1 DEF Completes
<1>3. Unfinished(o)
  BY <1>1, Holder
<1>4. RevisionGoesOn
  BY Typed DEF RevisionGoesOn
<1>5. OperationsGoOn
  BY <1>2, <1>3, FinishGoesOn
<1>6. CallsTyped' /\ \A d \in Callers : CallIsCurrent(d)'
  BY <1>2, <1>4, <1>5, CallReturns
<1>7. BaseOfEach'
  <2>1. base = [p \in Operations |-> base[p]]
    BY DEF LifecycleInv, BaseOfEach
  <2> QED BY <1>2, <2>1 DEF BaseOfEach
<1> QED BY <1>2, <1>3, <1>6, <1>7, Finishes

LEMMA SwappedRows ==
    ASSUME gen \in [Generations -> Rows], NEW g \in Generations, NEW p
    PROVE  /\ Swapped(g, p) \in [Generations -> Rows] /\ Swapped(g, p)[g].state = "active"
           /\ p \in Generations /\ p # g => Swapped(g, p)[p].state = "rollback"
           /\ \A h \in Generations \ {g, p} : Swapped(g, p)[h] = gen[h]
           /\ \A h \in Generations : Swapped(g, p)[h].staged = gen[h].staged
<1> DEFINE Written(h, state) == [gen[h] EXCEPT !.state = state]
<1>1. \A h \in Generations : \A state \in {"active", "rollback"} :
         /\ Written(h, state) \in Rows /\ Written(h, state).state = state
         /\ Written(h, state).staged = gen[h].staged
  BY DEF Rows
<1>2. Swapped(g, p) = [h \in Generations |-> IF h = g THEN Written(h, "active")
                                            ELSE IF h = p THEN Written(h, "rollback") ELSE gen[h]]
  BY DEF Swapped
<1> HIDE DEF Written
<1> QED BY <1>1, <1>2

LEMMA InvActivateGeneration ==
    ASSUME LifecycleInv, NEW c \in Callers, ActivateGeneration(c)
    PROVE  LifecycleInv'
<1>1. PICK o \in Operations : o = call[c].op
  BY Typed DEF ActivateGeneration, Do
<1>2. PICK g : g = op[o].target
  OBVIOUS
<1>3. PICK available \in BOOLEAN : available = RollbackAvailable(g)
  BY DEF RollbackAvailable
<1>4. /\ call[c].pc = "activate" /\ ~Do(c, "idle") /\ Holds(c) /\ op[o].phase = "warming" /\ Completes(c)
      /\ UNCHANGED condemned
      /\ ext' = [revision |-> ext.revision + 1, disposition |-> "active", active |-> g,
                 rollback |-> IF available THEN ext.active ELSE 0,
                 advertised |-> IF available THEN Current ELSE 0,
                 retained |-> 0, window |-> IF available THEN "open" ELSE "none"]
      /\ gen' = Swapped(g, ext.active)
  BY <1>1, <1>2, <1>3 DEF ActivateGeneration, Do
<1>5. /\ op[o].planned /\ PlanIsCurrent(o) /\ Unfinished(o)
  BY <1>1, <1>4, Holder DEF Executing
<1>6. g \in Generations /\ (\A h \in condemned : h < g) /\ (ext.active # 0 => ext.active < g)
  BY <1>2, <1>4, <1>5 DEF PlanIsCurrent, TargetIsNew
<1>7. Current \in Generations \cup {0} /\ Current = IF ext.active # 0 THEN ext.active ELSE ext.retained
  BY Typed DEF Current
<1>8. /\ ext'.revision = ext.revision + 1 /\ ext'.disposition = "active" /\ ext'.active = g
      /\ ext'.rollback = (IF available THEN ext.active ELSE 0)
      /\ ext'.advertised = (IF available THEN Current ELSE 0)
      /\ ext'.retained = 0 /\ ext'.window = (IF available THEN "open" ELSE "none")
      /\ ext' \in Extensions
  <2>1. ext.revision + 1 \in Nat
    BY Typed
  <2> QED BY <1>4, <1>6, <1>7, <2>1, Typed DEF Extensions
<1>9. /\ gen' \in [Generations -> Rows] /\ gen'[g].state = "active"
      /\ ext.active \in Generations /\ ext.active # g => gen'[ext.active].state = "rollback"
      /\ \A h \in Generations \ {g, ext.active} : gen'[h] = gen[h]
      /\ \A h \in Generations : gen'[h].staged = gen[h].staged
  <2>1. gen \in [Generations -> Rows]
    BY Typed
  <2> QED BY ONLY <1>4, <1>6, <2>1, SwappedRows
<1>10. g # 0 /\ g \in Nat /\ ext.active \in Nat /\ ext.active # g
  BY <1>6, Numbers
<1>11. PointersMatchRows'
  <2>1. ActiveRowIsPointed'
    <3>1. \A h \in Generations : gen[h].state = "active" <=> h = ext.active
      BY DEF LifecycleInv, PointersMatchRows, ActiveRowIsPointed
    <3> QED BY <1>8, <1>9, <1>10, <3>1 DEF ActiveRowIsPointed
  <2>2. RollbackIsRestorable'
    BY <1>7, <1>8, <1>9, <1>10, Typed DEF RollbackIsRestorable
  <2>3. DispositionIsPointed'
    BY <1>8, <1>10 DEF DispositionIsPointed
  <2> QED BY <2>1, <2>2, <2>3 DEF PointersMatchRows
<1>12. CondemnedAreOlder'
  <2>1. /\ \A h \in condemned : /\ ext.active # 0 => h < ext.active
                                /\ ext.disposition = "disabled" => h < ext.retained
        /\ available => ext.disposition # "quarantined" /\ Current # 0
        /\ ext.active = 0 => ext.disposition # "active"
        /\ ext.disposition \in {"disabled", "quarantined"} <=> ext.retained # 0
    BY <1>3 DEF LifecycleInv, CondemnedAreOlder, RollbackAvailable, PointersMatchRows, DispositionIsPointed
  <2>2. \A h \in condemned : ext'.rollback # 0 => h < ext'.rollback
    BY <1>8, <2>1
  <2>3. \A h \in condemned : ext'.advertised # 0 => h < ext'.advertised
    BY <1>7, <1>8, <2>1, Typed
  <2> QED BY <1>4, <1>6, <1>8, <2>2, <2>3 DEF CondemnedAreOlder
<1>13. RowsAreOlder'
  <2>1. ext.revision \in Nat /\ \A h \in Generations : gen[h].staged \in Nat /\ gen[h].staged <= ext.revision
    BY Typed DEF LifecycleInv, RowsAreOlder
  <2> QED BY <1>8, <1>9, <2>1 DEF RowsAreOlder
<1>14. condemned' \subseteq Generations
  BY <1>4, Typed
<1> QED BY <1>4, <1>8, <1>9, <1>11, <1>12, <1>13, <1>14, Completion

LEMMA InvRollbackGeneration ==
    ASSUME LifecycleInv, NEW c \in Callers, RollbackGeneration(c)
    PROVE  LifecycleInv'
<1>1. PICK g : g = ext.rollback
  OBVIOUS
<1>2. PICK previous : previous = ext.active
  OBVIOUS
<1>3. /\ call[c].pc = "write" /\ ~Do(c, "idle") /\ Holds(c) /\ Completes(c) /\ UNCHANGED condemned
      /\ g # 0 /\ ext.window = "open"
      /\ gen' = [Swapped(g, previous) EXCEPT ![g].staged = ext.revision, ![g].ready = TRUE]
      /\ ext' = [ext EXCEPT !.revision = @ + 1, !.active = g, !.rollback = previous, !.advertised = previous]
  BY <1>1, <1>2 DEF RollbackGeneration, Writes, Do
<1>4. previous # 0
  <2>1. FitsPointers(call[c].op) /\ op[call[c].op].kind = "rollback"
    BY DEF RollbackGeneration
  <2> QED BY <1>2, <2>1 DEF FitsPointers
<1>5. /\ g \in Generations /\ previous \in Generations /\ g # previous /\ g \in Nat /\ previous \in Nat
      /\ ext.disposition = "active" /\ ext.retained = 0 /\ ext.revision \in Nat
      /\ \A h \in condemned : h < g /\ h < previous
      /\ \A h \in Generations : gen[h].state = "active" <=> h = previous
      /\ \A h \in Generations : gen[h].staged \in Nat /\ gen[h].staged <= ext.revision
  BY <1>1, <1>2, <1>3, <1>4, Typed, Numbers
     DEF LifecycleInv, PointersMatchRows, RollbackIsRestorable, DispositionIsPointed, ActiveRowIsPointed,
         CondemnedAreOlder, RowsAreOlder
<1>6. /\ ext' \in Extensions /\ ext'.revision = ext.revision + 1 /\ ext'.disposition = "active"
      /\ ext'.active = g /\ ext'.rollback = previous /\ ext'.advertised = previous
      /\ ext'.retained = 0 /\ ext'.window = "open"
  <2>1. PICK n : n = ext.revision + 1
    OBVIOUS
  <2>2. n \in Nat /\ ext \in Extensions
    BY <1>5, <2>1, Typed
  <2>3. ext' = [ext EXCEPT !.revision = n, !.active = g, !.rollback = previous, !.advertised = previous]
    BY <1>3, <2>1, <2>2 DEF Extensions
  <2>4. /\ ext'.revision = n /\ ext'.active = g /\ ext'.rollback = previous /\ ext'.advertised = previous
        /\ ext'.disposition = ext.disposition /\ ext'.retained = ext.retained /\ ext'.window = ext.window
    BY ONLY <2>2, <2>3 DEF Extensions
  <2>5. ext' \in Extensions
    BY ONLY <1>5, <2>2, <2>3 DEF Extensions
  <2> QED BY <1>3, <1>5, <2>1, <2>4, <2>5
<1>7. PICK swapped : swapped = Swapped(g, previous)
  OBVIOUS
<1>8. /\ swapped \in [Generations -> Rows] /\ swapped[g].state = "active"
      /\ swapped[previous].state = "rollback"
      /\ \A h \in Generations \ {g, previous} : swapped[h] = gen[h]
      /\ \A h \in Generations : swapped[h].staged = gen[h].staged
  <2>1. gen \in [Generations -> Rows]
    BY Typed
  <2> QED BY ONLY <1>5, <1>7, <2>1, SwappedRows
<1>9. PICK w : w = [swapped[g] EXCEPT !.staged = ext.revision, !.ready = TRUE]
  OBVIOUS
<1>10. w \in Rows /\ w.state = "active" /\ w.staged = ext.revision
  BY <1>5, <1>8, <1>9 DEF Rows
<1>11. gen' = [swapped EXCEPT ![g] = w]
  BY <1>3, <1>5, <1>7, <1>8, <1>9
<1>12. /\ gen' \in [Generations -> Rows] /\ gen'[g].state = "active" /\ gen'[previous].state = "rollback"
       /\ \A h \in Generations \ {g, previous} : gen'[h] = gen[h]
       /\ \A h \in Generations : gen'[h].staged <= ext.revision
  BY <1>5, <1>8, <1>10, <1>11
<1>13. PointersMatchRows'
  <2>1. ActiveRowIsPointed'
    BY <1>5, <1>6, <1>12 DEF ActiveRowIsPointed
  <2>2. RollbackIsRestorable' /\ DispositionIsPointed'
    BY <1>3, <1>5, <1>6, <1>12 DEF RollbackIsRestorable, DispositionIsPointed
  <2> QED BY <2>1, <2>2 DEF PointersMatchRows
<1>14. CondemnedAreOlder'
  BY <1>3, <1>5, <1>6 DEF CondemnedAreOlder
<1>15. RowsAreOlder'
  <2>1. \A h \in Generations : gen'[h].staged \in Nat
    BY <1>12 DEF Rows
  <2> QED BY <1>5, <1>6, <1>12, <2>1 DEF RowsAreOlder
<1>16. condemned' \subseteq Generations
  BY <1>3, Typed
<1> QED BY <1>3, <1>6, <1>12, <1>13, <1>14, <1>15, <1>16, Completion

LEMMA InvChangeDisposition ==
    ASSUME LifecycleInv, NEW c \in Callers, ChangeDisposition(c)
    PROVE  LifecycleInv'
<1>1. PICK disable \in BOOLEAN : disable = (op[call[c].op].kind = "disable")
  OBVIOUS
<1>2. /\ ~Do(c, "idle") /\ Holds(c) /\ Completes(c)
      /\ disable => ext.disposition = "active"
      /\ ext' = [NewExtension EXCEPT
                   !.revision = ext.revision + 1,
                   !.disposition = IF disable THEN "disabled" ELSE "removed",
                   !.retained = IF disable THEN ext.active ELSE 0]
      /\ gen' = [g \in Generations |->
                   IF ~disable THEN NoRow
                   ELSE IF gen[g].state \in {"active", "rollback"}
                        THEN [gen[g] EXCEPT !.state = "retired"]
                   ELSE gen[g]]
      /\ condemned' = IF disable THEN condemned ELSE {}
  BY <1>1 DEF ChangeDisposition, Writes, Do
<1>3. /\ ext.revision \in Nat /\ ext.active \in Generations \cup {0} /\ condemned \subseteq Generations
      /\ gen \in [Generations -> Rows]
      /\ \A h \in Generations : gen[h].staged \in Nat /\ gen[h].staged <= ext.revision
      /\ disable => ext.active # 0 /\ \A h \in condemned : h < ext.active /\ h \in Nat
      /\ ext.active \in Nat
  BY <1>2, Typed, Numbers
     DEF LifecycleInv, PointersMatchRows, DispositionIsPointed, CondemnedAreOlder, RowsAreOlder
<1>4. PICK d \in {"removed", "disabled", "quarantined"} : d = IF disable THEN "disabled" ELSE "removed"
  OBVIOUS
<1>5. PICK kept \in Generations \cup {0} : kept = IF disable THEN ext.active ELSE 0
  BY <1>3
<1>6. /\ ext' \in Extensions /\ ext'.revision = ext.revision + 1 /\ ext'.disposition = d
      /\ ext'.retained = kept /\ ext'.active = 0 /\ ext'.rollback = 0 /\ ext'.advertised = 0
  <2>1. ext.revision + 1 \in Nat
    BY <1>3
  <2>2. ext' = [NewExtension EXCEPT !.revision = ext.revision + 1, !.disposition = d, !.retained = kept]
    BY <1>2, <1>4, <1>5
  <2> QED BY ONLY <2>1, <2>2, d \in {"removed", "disabled", "quarantined"},
                  kept \in Generations \cup {0}, Vacated
<1>7. /\ gen' \in [Generations -> Rows] /\ \A h \in Generations : gen'[h].state # "active"
      /\ \A h \in Generations : gen'[h].staged <= ext.revision
  <2> DEFINE Retired(h) == [gen[h] EXCEPT !.state = "retired"]
  <2>1. \A h \in Generations : Retired(h) \in Rows /\ Retired(h).state = "retired"
                               /\ Retired(h).staged = gen[h].staged
    BY <1>3 DEF Rows
  <2>2. gen' = [h \in Generations |-> IF ~disable THEN NoRow
                                     ELSE IF gen[h].state \in {"active", "rollback"} THEN Retired(h)
                                     ELSE gen[h]]
    BY <1>2
  <2>3. NoRow \in Rows /\ NoRow.state = "none" /\ NoRow.staged = 0
    BY Blanks
  <2> HIDE DEF Retired
  <2> QED BY <1>3, <2>1, <2>2, <2>3
<1>8. PointersMatchRows'
  BY <1>3, <1>4, <1>5, <1>6, <1>7, GenerationsArePositive
     DEF PointersMatchRows, ActiveRowIsPointed, RollbackIsRestorable, DispositionIsPointed
<1>9. CondemnedAreOlder'
  BY <1>2, <1>3, <1>4, <1>5, <1>6 DEF CondemnedAreOlder
<1>10. RowsAreOlder'
  <2>1. \A h \in Generations : gen'[h].staged \in Nat
    BY <1>7 DEF Rows
  <2> QED BY <1>3, <1>6, <1>7, <2>1 DEF RowsAreOlder
<1>11. condemned' \subseteq Generations
  BY <1>2, <1>3
<1> QED BY <1>2, <1>6, <1>7, <1>8, <1>9, <1>10, <1>11, Completion

-----------------------------------------------------------------------------
LEMMA InvNext == LifecycleInv /\ [Next]_vars => LifecycleInv'
<1> SUFFICES ASSUME LifecycleInv, [Next]_vars PROVE LifecycleInv'
  OBVIOUS
<1>1. ASSUME NEW c \in Callers, Plan(c)
      PROVE  LifecycleInv'
  BY <1>1, InvReadInventory, InvClaim, InvResumePlanning, InvSavePlan DEF Plan
<1>2. ASSUME NEW c \in Callers, Execute(c)
      PROVE  LifecycleInv'
  BY <1>2, InvResume, InvCalls, InvTransition, InvStageGeneration, InvReadiness, InvActivateGeneration,
     InvRollbackGeneration, InvChangeDisposition DEF Execute
<1>3. ASSUME NEW c \in Callers, CallEnds(c)
      PROVE  LifecycleInv'
  BY <1>3, InvCalls
<1>4. CASE Surroundings
  BY <1>4, InvReconcileExpired, InvQuarantine, InvReadiness, InvLeaseExpires, InvWindowCloses DEF Surroundings
<1>5. CASE UNCHANGED vars
  <2>1. CallsTyped' /\ \A d \in Callers : CallIsCurrent(d)'
    BY <1>5, NothingGoesOn, CallsStay DEF vars
  <2> QED BY <1>5, <2>1, OnlyCalls DEF vars
<1> QED BY <1>1, <1>2, <1>3, <1>4, <1>5 DEF Next

-----------------------------------------------------------------------------
(* One operation at a time on pointers that agree with the rows, and        *)
(* nothing serves or is planned that is not newer than every generation     *)
(* that was quarantined.                                                    *)
THEOREM LifecycleInvariant == Spec => []LifecycleInv
BY InvInit, InvNext, PTL DEF Spec

(* Every variable keeps its type, a call under way has an operation and an  *)
(* unfinished operation the token of a call.                                *)
THEOREM TypeCorrect == Spec => []TypeOK
<1>1. LifecycleInv => TypeOK
  BY DEF LifecycleInv
<1> QED BY <1>1, LifecycleInvariant, PTL

(* One row is active, the one the pointer names; a rollback pointer names a *)
(* row rollbackGeneration() takes; and no generation that was quarantined   *)
(* is active or offered for a rollback before the application is removed.   *)
THEOREM PointersStaySound == Spec => []PointersAreSound
<1>1. LifecycleInv => PointersAreSound
  <2> SUFFICES ASSUME LifecycleInv PROVE PointersAreSound
    OBVIOUS
  <2>1. \A h \in condemned : h \in Nat /\ h # 0 /\ h # ext.active /\ h # ext.rollback /\ h # ext.advertised
    BY Numbers, Typed DEF LifecycleInv, CondemnedAreOlder
  <2> QED BY <2>1 DEF LifecycleInv, PointersAreSound, QuarantineIsFinal
<1> QED BY <1>1, LifecycleInvariant, PTL

(* The application has at most one unfinished operation and the budget      *)
(* counts it: claims, completions and reconciliations lose no place.        *)
THEOREM BudgetStaysExact == Spec => []BudgetIsExact
<1>1. LifecycleInv => BudgetIsExact
  <2> SUFFICES ASSUME LifecycleInv PROVE BudgetIsExact
    OBVIOUS
  <2>1. OneUnfinished /\ BudgetCounts
    BY DEF LifecycleInv
  <2> DEFINE S == {o \in Operations : Unfinished(o)}
  <2>2. CASE \E o \in Operations : Unfinished(o)
    <3>1. PICK o \in Operations : Unfinished(o)
      BY <2>2
    <3>2. S = {o}
      BY <2>1, <3>1 DEF OneUnfinished
    <3>3. Cardinality(S) = 1
      BY <3>2, FS_Singleton
    <3> QED BY <2>1, <2>2, <3>3, LifecycleAssumption DEF BudgetIsExact, BudgetCounts, OneUnfinished
  <2>3. CASE ~\E o \in Operations : Unfinished(o)
    <3>1. S = {}
      BY <2>3
    <3>2. Cardinality(S) = 0
      BY <3>1, FS_EmptySet
    <3> QED BY <2>1, <2>3, <3>2, LifecycleAssumption DEF BudgetIsExact, BudgetCounts, OneUnfinished
  <2> QED BY <2>2, <2>3
<1> QED BY <1>1, LifecycleInvariant, PTL

-----------------------------------------------------------------------------
(* Who moves an operation on, and on which pointers it takes effect. *)

LEMMA SamePhase ==
    ASSUME LifecycleInv, NEW o \in Operations,
           \/ UNCHANGED op
           \/ \E c \in Callers : ResumePlanning(c) \/ SavePlan(c) \/ \E p \in Operations : Resume(c, p)
           \/ \E p \in Operations : LeaseExpires(p)
    PROVE  op'[o].phase = op[o].phase
<1>1. op \in [Operations -> Requests]
  BY Typed
<1>2. ASSUME NEW c \in Callers, ResumePlanning(c) PROVE op'[o].phase = op[o].phase
  BY <1>1, <1>2 DEF ResumePlanning, Requests
<1>3. ASSUME NEW c \in Callers, SavePlan(c) PROVE op'[o].phase = op[o].phase
  BY <1>1, <1>3 DEF SavePlan, Requests
<1>4. ASSUME NEW c \in Callers, NEW p \in Operations, Resume(c, p) PROVE op'[o].phase = op[o].phase
  BY <1>1, <1>4 DEF Resume, Takes, Requests
<1>5. ASSUME NEW p \in Operations, LeaseExpires(p) PROVE op'[o].phase = op[o].phase
  BY <1>1, <1>5 DEF LeaseExpires, Requests
<1> QED BY <1>2, <1>3, <1>4, <1>5

(* The call that holds o takes a step for it.                               *)
MovedByHolder(c, o) ==
    /\ call[c].op = o /\ Holds(c) /\ call'[c] # call[c]
    /\ op'[o].phase = "completed" => Pointers = base[o]

LEMMA HolderMoves ==
    ASSUME LifecycleInv, NEW c \in Callers, NEW o \in Operations, op'[o].phase # op[o].phase,
           \/ Transition(c) \/ StageGeneration(c)
           \/ ActivateGeneration(c) \/ RollbackGeneration(c) \/ ChangeDisposition(c)
    PROVE  MovedByHolder(c, o)
<1>1. /\ op \in [Operations -> Requests] /\ call \in [Callers -> Calls] /\ call[c] \in Calls
      /\ NoCall.pc = "idle"
  BY Typed, Blanks
<1>2. Holds(c) /\ ~Do(c, "idle")
  BY DEF Transition, StageGeneration, ActivateGeneration, RollbackGeneration, ChangeDisposition, Writes, Do
<1>3. PICK p \in Operations : p = call[c].op
  BY <1>2, Typed DEF Do
<1>4. PlanIsCurrent(p) /\ BaseIsCurrent(p) /\ (call[c].pc \in Executing => op[p].planned)
  BY <1>2, <1>3, Holder
<1>5. CASE Transition(c)
  <2>1. op' = [op EXCEPT ![p].phase = NextPhase[@]] /\ op[p].phase \in DOMAIN NextPhase
    BY <1>3, <1>5 DEF Transition
  <2>2. op'[p].phase \in {"downloading", "verified", "staged"}
    BY <1>1, <2>1 DEF NextPhase, Requests
  <2>3. o = p
    BY <1>1, <2>1
  <2>4. call[c].pc = "write" /\ (Return(c) \/ Goto(c, "authorize"))
    BY <1>5 DEF Transition, Writes, Do
  <2>5. call'[c].pc # "write"
    BY <1>1, <2>4 DEF Return, Goto, Calls
  <2> QED BY <1>2, <1>3, <2>2, <2>3, <2>4, <2>5 DEF MovedByHolder
<1>6. CASE StageGeneration(c)
  <2>1. op' = [op EXCEPT ![p].phase = "warming"]
    BY <1>3, <1>6 DEF StageGeneration
  <2>2. op'[p].phase = "warming" /\ o = p
    BY <1>1, <2>1 DEF Requests
  <2>3. call[c].pc = "write" /\ Goto(c, "activate")
    BY <1>6 DEF StageGeneration, Writes, Do
  <2>4. call'[c].pc # "write"
    BY <1>1, <2>3 DEF Goto, Calls
  <2> QED BY <1>2, <1>3, <2>2, <2>3, <2>4 DEF MovedByHolder
<1>7. ASSUME Completes(c), Pointers = base[p]
      PROVE  MovedByHolder(c, o)
  <2>1. op' = [op EXCEPT ![p] = Ended("completed")] /\ Return(c)
    BY <1>3, <1>7 DEF Completes
  <2>2. o = p
    BY <1>1, <2>1
  <2>3. call'[c].pc = "idle" /\ call[c].pc # "idle"
    BY <1>1, <1>2, <2>1 DEF Return, Do
  <2> QED BY <1>2, <1>3, <1>7, <2>2, <2>3 DEF MovedByHolder
<1>8. CASE ActivateGeneration(c)
  <2>1. Completes(c) /\ op[p].phase = "warming" /\ gen[op[p].target].staged = ext.revision
    BY <1>3, <1>8 DEF ActivateGeneration
  <2> QED BY <1>4, <1>7, <2>1 DEF BaseIsCurrent
<1>9. CASE RollbackGeneration(c) \/ ChangeDisposition(c)
  <2>1. Completes(c) /\ op[p].phase = "planning" /\ AsPlanned(p) /\ call[c].pc \in Executing
    BY <1>3, <1>9 DEF RollbackGeneration, ChangeDisposition, Writes, Do, Executing
  <2> QED BY <1>4, <1>7, <2>1 DEF BaseIsCurrent
<1> QED BY <1>5, <1>6, <1>8, <1>9

LEMMA WhatMoves ==
    ASSUME LifecycleInv, [Next]_vars, NEW o \in Operations, op'[o].phase # op[o].phase
    PROVE  \/ op[o].phase = "absent" /\ op'[o].phase = "planning"
           \/ Expired(o) /\ op'[o].phase = "failed"
           \/ \E c \in Callers : MovedByHolder(c, o)
<1>1. op \in [Operations -> Requests]
  BY Typed
<1>2. ASSUME NEW c \in Callers, Claim(c)
      PROVE  op[o].phase = "absent" /\ op'[o].phase = "planning"
  <2>1. PICK p : p = call[c].op
    OBVIOUS
  <2>2. PICK w : w = [NewOperation EXCEPT
                 !.phase = "planning", !.kind = call[c].kind, !.target = call[c].target,
                 !.expected = call[c].seen, !.token = c, !.live = TRUE]
    OBVIOUS
  <2>3. w.phase = "planning"
    BY <2>2 DEF NewOperation
  <2>4. op' = [op EXCEPT ![p] = w] /\ op[p].phase = "absent"
    BY <1>2, <2>1, <2>2 DEF Claim
  <2> QED BY <1>1, <2>3, <2>4
<1>3. CASE ReconcileExpired
  <2>1. op'[o] = IF Expired(o) THEN Ended("failed") ELSE op[o]
    BY <1>3 DEF ReconcileExpired
  <2> QED BY <2>1, Blanks
<1>4. ASSUME NEW c \in Callers, Plan(c) \/ Execute(c) \/ CallEnds(c), ~Claim(c)
      PROVE  MovedByHolder(c, o)
  <2>1. CASE UNCHANGED op
    BY <2>1, SamePhase
  <2>2. CASE ResumePlanning(c) \/ SavePlan(c) \/ \E p \in Operations : Resume(c, p)
    BY <2>2, SamePhase
  <2>3. CASE \/ Transition(c) \/ StageGeneration(c)
             \/ ActivateGeneration(c) \/ RollbackGeneration(c) \/ ChangeDisposition(c)
    BY <2>3, HolderMoves
  <2>4. (\E p \in Operations : ReadInventory(c, p)) => UNCHANGED op
    BY DEF ReadInventory
  <2>5. Reauthorize(c) \/ RefreshGenerationReadiness(c) \/ CallEnds(c) => UNCHANGED op
    BY DEF Reauthorize, RefreshGenerationReadiness, CallEnds
  <2> QED BY <1>4, <2>1, <2>2, <2>3, <2>4, <2>5 DEF Plan, Execute
<1>5. ~\E p \in Operations : LeaseExpires(p)
  BY SamePhase
<1>6. ~UNCHANGED op
  OBVIOUS
<1>7. ~Quarantine /\ ~WindowCloses /\ ~\E g \in Generations : ReadinessExpires(g)
  BY <1>6 DEF Quarantine, WindowCloses, ReadinessExpires
<1> QED BY <1>2, <1>3, <1>4, <1>5, <1>6, <1>7 DEF Next, Surroundings, vars

(* An operation takes effect on the pointers it was planned or staged on,   *)
(* and while its lease is live only the call that holds it moves it on.     *)
THEOREM TurnsAreTaken == Spec => OperationsTakeTurns
<1>1. LifecycleInv /\ [Next]_vars =>
        [\A o \in Operations :
            op[o].phase # "completed" /\ op'[o].phase = "completed" => Pointers = base[o]]_vars
  <2> SUFFICES ASSUME LifecycleInv, [Next]_vars, NEW o \in Operations,
                      op[o].phase # "completed", op'[o].phase = "completed"
               PROVE  Pointers = base[o]
    OBVIOUS
  <2> QED BY WhatMoves DEF MovedByHolder
<1>2. LifecycleInv /\ [Next]_vars =>
        [\A o \in Operations :
            Unfinished(o) /\ op'[o].phase # op[o].phase =>
               IF op[o].live
               THEN call[op[o].token].op = o /\ call'[op[o].token] # call[op[o].token]
               ELSE op'[o].phase = "failed"]_vars
  <2> SUFFICES ASSUME LifecycleInv, [Next]_vars, NEW o \in Operations,
                      Unfinished(o), op'[o].phase # op[o].phase
               PROVE  IF op[o].live
                      THEN call[op[o].token].op = o /\ call'[op[o].token] # call[op[o].token]
                      ELSE op'[o].phase = "failed"
    OBVIOUS
  <2>1. op[o].phase # "absent"
    BY DEF Unfinished
  <2>2. CASE Expired(o) /\ op'[o].phase = "failed"
    BY <2>2 DEF Expired
  <2>3. ASSUME NEW c \in Callers, MovedByHolder(c, o)
        PROVE  op[o].live /\ op[o].token = c /\ call[c].op = o /\ call'[c] # call[c]
    BY <2>3 DEF MovedByHolder, Holds
  <2> QED BY <2>1, <2>2, <2>3, WhatMoves
<1> QED BY <1>1, <1>2, LifecycleInvariant, PTL DEF Spec, OperationsTakeTurns, CommitsOnItsBase, HolderAdvances

-----------------------------------------------------------------------------
(* The refinement: what a step does to the pointer that traffic reads. *)

InQuarantine == IF ext.disposition = "quarantined" THEN ext.retained ELSE 0

PointerStays == UNCHANGED <<ext.revision, ext.active, InQuarantine>>

PointerTouched == ext'.revision = ext.revision + 1 /\ UNCHANGED <<ext.active, InQuarantine>>

PointerActivated ==
    /\ ext'.active \in Generations \ {ext.active, InQuarantine}
    /\ InQuarantine' = 0 /\ ext'.revision = ext.revision + 1

PointerWithdrawn ==
    /\ ext.active # 0 \/ InQuarantine # 0
    /\ ext'.active = 0 /\ InQuarantine' = 0 /\ ext'.revision = ext.revision + 1

PointerQuarantined ==
    /\ ext.active # 0
    /\ ext'.active = 0 /\ InQuarantine' = ext.active /\ ext'.revision = ext.revision + 1

PointerMoves ==
    PointerStays \/ PointerTouched \/ PointerActivated \/ PointerWithdrawn \/ PointerQuarantined

LEMMA RevisedOnly ==
    ASSUME LifecycleInv, NEW n \in {0, 1}, ext' = [ext EXCEPT !.revision = @ + n]
    PROVE  PointerStays \/ PointerTouched
<1>1. /\ ext'.revision = ext.revision + n /\ ext.revision \in Nat
      /\ UNCHANGED <<ext.disposition, ext.active, ext.retained>>
  BY Advances, Typed DEF SamePointers
<1> QED BY <1>1 DEF PointerStays, PointerTouched, InQuarantine

LEMMA ReconcileMoves == LifecycleInv /\ ReconcileExpired => PointerStays \/ PointerTouched
<1> SUFFICES ASSUME LifecycleInv, ReconcileExpired PROVE PointerStays \/ PointerTouched
  OBVIOUS
<1>1. PICK o \in Operations : \A p \in Operations : Expired(p) <=> p = o
  BY DEF ReconcileExpired, LifecycleInv, OneUnfinished, Expired
<1> DEFINE P == {p \in Operations : Expired(p) /\ op[p].planned}
<1>2. P = {} \/ P = {o}
  BY <1>1
<1>3. PICK n : n = Cardinality(P)
  OBVIOUS
<1>4. n \in {0, 1}
  <2> HIDE DEF P
  <2> QED BY <1>2, <1>3, FS_Singleton, FS_EmptySet
<1>5. ext' = [ext EXCEPT !.revision = @ + n]
  BY <1>3 DEF ReconcileExpired
<1> QED BY <1>4, <1>5, RevisedOnly

LEMMA ActivationMoves ==
    ASSUME LifecycleInv, NEW c \in Callers, ActivateGeneration(c)
    PROVE  PointerActivated
<1>1. PICK o \in Operations : o = call[c].op
  BY Typed DEF ActivateGeneration, Do
<1>2. PICK g : g = op[o].target
  OBVIOUS
<1>3. /\ call[c].pc = "activate" /\ ~Do(c, "idle") /\ Holds(c) /\ op[o].phase = "warming"
      /\ ext'.revision = ext.revision + 1 /\ ext'.disposition = "active" /\ ext'.active = g
  BY <1>1, <1>2 DEF ActivateGeneration, Do
<1>4. op[o].planned /\ PlanIsCurrent(o) /\ Unfinished(o)
  BY <1>1, <1>3, Holder DEF Executing
<1>5. g \in Generations /\ (\A h \in condemned : h < g) /\ (ext.active # 0 => ext.active < g)
  BY <1>2, <1>3, <1>4 DEF PlanIsCurrent, TargetIsNew
<1>6. ext.disposition = "quarantined" => ext.retained \in condemned
  BY DEF LifecycleInv, CondemnedAreOlder
<1>7. g \in Nat /\ g # 0 /\ ext.active \in Nat /\ \A h \in condemned : h \in Nat
  BY <1>5, Numbers
<1>8. g # ext.active /\ g # InQuarantine
  BY <1>5, <1>6, <1>7 DEF InQuarantine
<1> QED BY <1>3, <1>5, <1>8 DEF PointerActivated, InQuarantine

LEMMA RollbackMoves ==
    ASSUME LifecycleInv, NEW c \in Callers, RollbackGeneration(c)
    PROVE  PointerActivated
<1>1. /\ ext' = [ext EXCEPT !.revision = @ + 1, !.active = ext.rollback,
                            !.rollback = ext.active, !.advertised = ext.active]
      /\ ext.rollback # 0
  BY DEF RollbackGeneration
<1>2. ext.active # 0
  <2>1. FitsPointers(call[c].op) /\ op[call[c].op].kind = "rollback"
    BY DEF RollbackGeneration
  <2> QED BY <2>1 DEF FitsPointers
<1>3. ext.rollback \in Generations /\ ext.rollback # ext.active /\ ext.disposition = "active"
  BY <1>1, <1>2, Typed DEF LifecycleInv, PointersMatchRows, RollbackIsRestorable, DispositionIsPointed
<1>4. PICK n : n = ext.revision + 1
  OBVIOUS
<1>5. ext \in Extensions
  BY Typed
<1>6. ext'.revision = n /\ ext'.active = ext.rollback /\ ext'.disposition = ext.disposition
  <2>1. ext' = [ext EXCEPT !.revision = n, !.active = ext.rollback,
                           !.rollback = ext.active, !.advertised = ext.active]
    BY <1>1, <1>4, <1>5 DEF Extensions
  <2> QED BY ONLY <1>5, <2>1 DEF Extensions
<1>7. ext.rollback # 0
  BY <1>1
<1> QED BY <1>3, <1>4, <1>6, <1>7 DEF PointerActivated, InQuarantine

LEMMA DispositionMoves ==
    ASSUME LifecycleInv, NEW c \in Callers, ChangeDisposition(c)
    PROVE  PointerTouched \/ PointerWithdrawn
<1>1. PICK d \in {"removed", "disabled"} : d = IF op[call[c].op].kind = "disable" THEN "disabled" ELSE "removed"
  OBVIOUS
<1>2. PICK kept : kept = IF op[call[c].op].kind = "disable" THEN ext.active ELSE 0
  OBVIOUS
<1>3. ext' = [NewExtension EXCEPT !.revision = ext.revision + 1, !.disposition = d, !.retained = kept]
  BY <1>1, <1>2 DEF ChangeDisposition
<1>4. ext'.revision = ext.revision + 1 /\ ext'.disposition = d /\ ext'.active = 0
  BY <1>3 DEF NewExtension
<1>5. InQuarantine' = 0
  BY <1>1, <1>4 DEF InQuarantine
<1> QED BY <1>4, <1>5 DEF PointerTouched, PointerWithdrawn

LEMMA QuarantineMoves == LifecycleInv /\ Quarantine => PointerQuarantined
<1> SUFFICES ASSUME LifecycleInv, Quarantine PROVE PointerQuarantined
  OBVIOUS
<1>1. ext' = [NewExtension EXCEPT !.revision = ext.revision + 1, !.disposition = "quarantined",
                                 !.retained = ext.active]
  BY DEF Quarantine
<1>2. /\ ext'.revision = ext.revision + 1 /\ ext'.disposition = "quarantined" /\ ext'.active = 0
      /\ ext'.retained = ext.active
  BY <1>1 DEF NewExtension
<1>3. ext.active # 0
  BY DEF Quarantine, LifecycleInv, PointersMatchRows, DispositionIsPointed
<1> QED BY <1>2, <1>3 DEF PointerQuarantined, InQuarantine

LEMMA StepMoves == LifecycleInv /\ [Next]_vars => PointerMoves
<1> SUFFICES ASSUME LifecycleInv, [Next]_vars PROVE PointerMoves
  OBVIOUS
<1>1. CASE UNCHANGED ext
  BY <1>1 DEF PointerMoves, PointerStays, InQuarantine
<1>2. CASE ext' = [ext EXCEPT !.revision = @ + 1]
  BY <1>2, RevisedOnly DEF PointerMoves
<1>3. ASSUME NEW c \in Callers, Plan(c)
      PROVE  PointerMoves
  <2>1. (\E p \in Operations : ReadInventory(c, p)) \/ Claim(c) \/ ResumePlanning(c) => UNCHANGED ext
    BY DEF ReadInventory, Claim, ResumePlanning
  <2>2. SavePlan(c) => ext' = [ext EXCEPT !.revision = @ + 1]
    BY DEF SavePlan
  <2> QED BY <1>1, <1>2, <1>3, <2>1, <2>2 DEF Plan
<1>4. ASSUME NEW c \in Callers, Execute(c)
      PROVE  PointerMoves
  <2>1. (\E p \in Operations : Resume(c, p)) \/ Reauthorize(c) \/ RefreshGenerationReadiness(c) => UNCHANGED ext
    BY DEF Resume, Reauthorize, RefreshGenerationReadiness
  <2>2. Transition(c) \/ StageGeneration(c) => ext' = [ext EXCEPT !.revision = @ + 1]
    BY DEF Transition, StageGeneration
  <2>3. ActivateGeneration(c) \/ RollbackGeneration(c) \/ ChangeDisposition(c) => PointerMoves
    BY ActivationMoves, RollbackMoves, DispositionMoves DEF PointerMoves
  <2> QED BY <1>1, <1>2, <1>4, <2>1, <2>2, <2>3 DEF Execute
<1>5. ASSUME NEW c \in Callers, CallEnds(c)
      PROVE  PointerMoves
  BY <1>1, <1>5 DEF CallEnds
<1>6. CASE Surroundings
  <2>1. (\E g \in Generations : ReadinessExpires(g)) \/ (\E p \in Operations : LeaseExpires(p)) => UNCHANGED ext
    BY DEF ReadinessExpires, LeaseExpires
  <2>2. WindowCloses => PointerStays
    <3>1. WindowCloses => UNCHANGED <<ext.revision, ext.active, ext.disposition, ext.retained>>
      BY Typed DEF WindowCloses, Extensions
    <3> QED BY <3>1 DEF PointerStays, InQuarantine
  <2> QED BY <1>1, <1>6, <2>1, <2>2, ReconcileMoves, QuarantineMoves DEF Surroundings, PointerMoves
<1>7. CASE UNCHANGED vars
  BY <1>1, <1>7 DEF vars
<1> QED BY <1>3, <1>4, <1>5, <1>6, <1>7 DEF Next

(* ExtensionLifecycle implements GenerationPointer, on which the model of   *)
(* the traffic builds: a step of the store is one move of the pointer under *)
(* a new revision or none, and never puts back what is in quarantine.       *)
THEOREM PointerIsMoved == Spec => MovesPointer
<1>1. Init => Pointer!PointerInit
  BY Blanks DEF Init, Pointer!PointerInit
<1>2. LifecycleInv /\ [Next]_vars => [Pointer!PointerNext]_(Pointer!pointer)
  BY StepMoves DEF PointerMoves, PointerStays, PointerTouched, PointerActivated, PointerWithdrawn,
     PointerQuarantined, InQuarantine, Pointer!PointerNext, Pointer!Touch, Pointer!Activate,
     Pointer!Withdraw, Pointer!Quarantine, Pointer!pointer
<1> QED BY <1>1, <1>2, LifecycleInvariant, PTL DEF Spec, MovesPointer, Pointer!PointerSpec

=============================================================================
