---------------------- MODULE HotApplicationTraffic_proofs ----------------------
(***************************************************************************)
(* What HotApplicationTraffic promises for any requests, generations,      *)
(* limits and bounds.  TrafficInv is the inductive invariant: what is in   *)
(* quarantine was found at fault, an invocation whose application was      *)
(* withdrawn before its last admission has lost its lease for good, what   *)
(* overtook an invocation is still there for the check that comes next,    *)
(* and whoever waits for a durable quarantine has one under way.  The      *)
(* counter of places is proved on top of it, as the size of the set it     *)
(* counts.                                                                 *)
(***************************************************************************)
EXTENDS HotApplicationTraffic, FiniteSetTheorems, TLAPS

(* An invocation under way has a generation, the one its UI expects.        *)
InvocationsHaveGenerations ==
    \A r \in Requests : inv[r].pc \notin {"idle", "done"} =>
        inv[r].gen \in Generations /\ Expected[r] \in {0, inv[r].gen}

(* A local or decided quarantine is of a generation found at fault, and a   *)
(* durable one follows a local one.                                         *)
FaultsAreCondemned ==
    /\ \A p \in Processes : \A g \in Generations :
          /\ state[p][g].quarantined => g \in condemned
          /\ state[p][g].durable # "none" => state[p][g].quarantined
    /\ decision # NoDecision => decision.gen \in condemned

OrphansAreStopped ==
    \A r \in orphaned :
        lease[r] = 0 /\ inv[r].pc \notin {"idle", "lease", "reread", "done", "admitted", "running"}

(* What overtook an invocation still does, and is found before it ends.      *)
OvertakenIsKnown ==
    \A r \in overtaken :
        /\ inv[r].pc \in (Inside \ {"running"}) \cup {"release"}
        /\ inv[r].pc \in Inside => Revoked(r) \/ Here(r).quarantined
        /\ inv[r].pc = "release" => inv[r].outcome # "ok"

TrafficInv ==
    /\ TypeOK
    /\ WithdrawnHoldsNothing
    /\ InvocationsHaveGenerations
    /\ FaultsAreCondemned
    /\ OrphansAreStopped
    /\ OvertakenIsKnown
    /\ WaitersAreServed

Stages == {"idle", "lease", "reread", "enter", "retry", "admission", "stopping", "release", "done"}
              \cup Entered

Outcomes == {"none", "ok", "failed", "terminal"}

-----------------------------------------------------------------------------
LEMMA RunnersAreProcesses == \A r \in Requests : Runner[r] \in Processes
BY DEF Processes

LEMMA Blanks ==
    /\ NewInvocation \in Invocations /\ Done \in Invocations /\ Done.pc = "done"
    /\ Fresh \in GenerationStates
    /\ NoDecision \in [gen : Generations \cup {0}, seen : Nat]
<1>1. NewInvocation \in Invocations /\ Fresh \in GenerationStates
      /\ NoDecision \in [gen : Generations \cup {0}, seen : Nat]
  BY DEF NewInvocation, Invocations, Entered, Fresh, GenerationStates, NoDecision
<1>2. Done = [NewInvocation EXCEPT !.pc = "done"]
  BY DEF Done
<1>3. "done" \in Stages
  BY DEF Stages
<1> QED BY <1>1, <1>2, <1>3 DEF Invocations, Stages

LEMMA InvInit == Init => TrafficInv
<1> SUFFICES ASSUME Init PROVE TrafficInv
  OBVIOUS
<1>1. TypeOK
  BY Blanks DEF Init, PointerInit, TypeOK
<1>2. WithdrawnHoldsNothing
  BY DEF Init, PointerInit, WithdrawnHoldsNothing
<1>3. /\ InvocationsHaveGenerations /\ FaultsAreCondemned
      /\ OrphansAreStopped /\ OvertakenIsKnown /\ WaitersAreServed
  <2>1. \A r \in Requests : inv[r].pc = "idle"
    BY DEF Init, NewInvocation
  <2>2. \A p \in Processes : \A g \in Generations :
           ~state[p][g].quarantined /\ state[p][g].durable = "none"
    BY DEF Init, Fresh
  <2> QED BY <2>1, <2>2 DEF Init, InvocationsHaveGenerations, FaultsAreCondemned,
          OrphansAreStopped, OvertakenIsKnown, WaitersAreServed
<1> QED BY <1>1, <1>2, <1>3 DEF TrafficInv

(* The states of generations only become worse.                             *)
StatesWorsen ==
    /\ condemned \subseteq condemned'
    /\ \A p \in Processes : \A g \in Generations :
          /\ state[p][g].quarantined => state'[p][g].quarantined
          /\ state'[p][g].quarantined => g \in condemned'
          /\ state'[p][g].durable # "none" => state'[p][g].quarantined

DurablesStay ==
    \A p \in Processes : \A g \in Generations :
        state[p][g].durable \in {"read", "write"} => state'[p][g].durable \in {"read", "write"}

(* Invocation r becomes i.                                                  *)
LEMMA InvocationStep ==
    ASSUME TrafficInv, NEW r \in Requests, NEW i \in Invocations,
           inv' = [inv EXCEPT ![r] = i],
           UNCHANGED <<pointer, floor, authority, restarts, decision>>,
           state' \in [Processes -> [Generations -> GenerationStates]],
           StatesWorsen, DurablesStay, condemned' \subseteq Generations,
           i.pc \notin {"idle", "done"} => i.gen \in Generations /\ Expected[r] \in {0, i.gen},
           i.pc \in {"retry", "durable"} => /\ state'[Runner[r]][i.gen].quarantined
                                            /\ state'[Runner[r]][i.gen].durable \in {"read", "write"},
           orphaned' \subseteq orphaned,
           r \in orphaned' => i.pc \notin {"idle", "lease", "reread", "done", "admitted", "running"},
           overtaken' \subseteq overtaken,
           r \in overtaken' =>
              /\ i.pc \in (Inside \ {"running"}) \cup {"release"}
              /\ i.pc \in Inside => i.rev < floor[Runner[r]] \/ state'[Runner[r]][i.gen].quarantined
              /\ i.pc = "release" => i.outcome # "ok",
           NEW l \in Generations \cup {0}, lease' = [lease EXCEPT ![r] = l],
           l # 0 => active # 0 /\ r \notin orphaned'
    PROVE  TrafficInv'
<1> USE DEF TrafficInv
<1>1. /\ inv'[r] = i /\ \A q \in Requests \ {r} : inv'[q] = inv[q]
      /\ inv' \in [Requests -> Invocations]
      /\ lease'[r] = l /\ \A q \in Requests \ {r} : lease'[q] = lease[q]
      /\ lease' \in [Requests -> Generations \cup {0}]
  BY DEF TypeOK
<1>2. TypeOK'
  BY <1>1 DEF TypeOK, pointer
<1>3. WithdrawnHoldsNothing'
  BY <1>1 DEF WithdrawnHoldsNothing, pointer, StatesWorsen
<1>4. InvocationsHaveGenerations'
  BY <1>1 DEF InvocationsHaveGenerations
<1>5. FaultsAreCondemned'
  BY DEF FaultsAreCondemned, StatesWorsen
<1>6. OvertakenIsKnown'
  <2> SUFFICES ASSUME NEW q \in Requests, q \in overtaken'
               PROVE  /\ inv'[q].pc \in (Inside \ {"running"}) \cup {"release"}
                      /\ inv'[q].pc \in Inside => \/ inv'[q].rev < floor'[Runner[q]]
                                                  \/ state'[Runner[q]][inv'[q].gen].quarantined
                      /\ inv'[q].pc = "release" => inv'[q].outcome # "ok"
    BY <1>2 DEF OvertakenIsKnown, TypeOK, Revoked, Here
  <2>1. CASE q = r
    BY <1>1, <2>1
  <2>2. CASE q # r
    <3>1. inv'[q] = inv[q] /\ q \in overtaken
      BY <1>1, <2>2
    <3>2. inv[q].pc \in (Inside \ {"running"}) \cup {"release"}
      BY <3>1 DEF OvertakenIsKnown
    <3>3. inv[q].gen \in Generations
      BY <3>2 DEF InvocationsHaveGenerations, Inside, Entered
    <3> QED BY <3>1, <3>3, RunnersAreProcesses DEF OvertakenIsKnown, Revoked, Here, StatesWorsen
  <2> QED BY <2>1, <2>2
<1>7. OrphansAreStopped'
  BY <1>1 DEF OrphansAreStopped, TypeOK
<1>8. WaitersAreServed'
  <2> SUFFICES ASSUME NEW q \in Requests, inv'[q].pc \in {"retry", "durable"}
               PROVE  /\ state'[Runner[q]][inv'[q].gen].quarantined
                      /\ state'[Runner[q]][inv'[q].gen].durable \in {"read", "write"}
    BY DEF WaitersAreServed, Here
  <2>1. CASE q = r
    BY <1>1, <2>1
  <2>2. CASE q # r
    <3>1. inv'[q] = inv[q] /\ inv[q].gen \in Generations
      BY <1>1, <2>2 DEF InvocationsHaveGenerations
    <3> QED BY <3>1, RunnersAreProcesses DEF WaitersAreServed, Here, StatesWorsen, DurablesStay
  <2> QED BY <2>1, <2>2
<1> QED BY <1>2, <1>3, <1>4, <1>5, <1>6, <1>7, <1>8

(* The state of generation g in process p becomes s.                        *)
LEMMA OneState ==
    ASSUME TrafficInv, NEW p \in Processes, NEW g \in Generations, NEW s \in GenerationStates,
           state' = [state EXCEPT ![p][g] = s],
           condemned \subseteq condemned',
           state[p][g].quarantined => s.quarantined,
           s.quarantined => g \in condemned',
           s.durable # "none" => s.quarantined
    PROVE  /\ state' \in [Processes -> [Generations -> GenerationStates]]
           /\ state'[p][g] = s
           /\ StatesWorsen
           /\ (state[p][g].durable \in {"read", "write"} => s.durable \in {"read", "write"}) => DurablesStay
<1>1. state \in [Processes -> [Generations -> GenerationStates]]
  BY DEF TrafficInv, TypeOK
<1>2. /\ state' \in [Processes -> [Generations -> GenerationStates]]
      /\ state'[p][g] = s
      /\ \A q \in Processes : \A h \in Generations :
            q # p \/ h # g => state'[q][h] = state[q][h]
  BY <1>1
<1>3. StatesWorsen
  BY <1>2 DEF StatesWorsen, TrafficInv, FaultsAreCondemned
<1>4. (state[p][g].durable \in {"read", "write"} => s.durable \in {"read", "write"}) => DurablesStay
  BY <1>2 DEF DurablesStay
<1> QED BY <1>2, <1>3, <1>4

LEMMA NoState ==
    ASSUME TrafficInv, UNCHANGED <<state, condemned>>
    PROVE  /\ state' \in [Processes -> [Generations -> GenerationStates]]
           /\ StatesWorsen /\ DurablesStay /\ condemned' \subseteq Generations
BY DEF TrafficInv, TypeOK, FaultsAreCondemned, StatesWorsen, DurablesStay

(* Invocation r moves on, nothing else but the state of its generation.     *)
LEMMA MoveStep ==
    ASSUME TrafficInv, NEW r \in Requests, NEW pc \in Stages \ {"idle", "done"}, NEW outcome \in Outcomes,
           ~At(r, "idle"), ~At(r, "done"), ~At(r, "release"),
           \/ inv' = [inv EXCEPT ![r].pc = pc] /\ outcome = inv[r].outcome
           \/ inv' = [inv EXCEPT ![r].pc = pc, ![r].outcome = outcome],
           UNCHANGED <<pointer, floor, authority, restarts, decision, lease, orphaned, overtaken>>,
           state' \in [Processes -> [Generations -> GenerationStates]],
           StatesWorsen, DurablesStay, condemned' \subseteq Generations,
           pc \in {"retry", "durable"} => /\ state'[Runner[r]][inv[r].gen].quarantined
                                          /\ state'[Runner[r]][inv[r].gen].durable \in {"read", "write"},
           pc \in {"lease", "reread", "admitted", "running"} => r \notin orphaned,
           pc \in {"lease", "reread", "running"} \/ (pc = "release" /\ outcome = "ok") => r \notin overtaken
    PROVE  TrafficInv'
<1>0. PICK i : i = inv'[r]
  OBVIOUS
<1>1. inv[r] \in Invocations /\ inv \in [Requests -> Invocations]
      /\ lease \in [Requests -> Generations \cup {0}]
  BY DEF TrafficInv, TypeOK
<1>2. i \in Invocations /\ i.pc = pc /\ i.gen = inv[r].gen /\ i.rev = inv[r].rev /\ i.outcome = outcome
  <2>1. \/ i = [inv[r] EXCEPT !.pc = pc] /\ outcome = inv[r].outcome
        \/ i = [inv[r] EXCEPT !.pc = pc, !.outcome = outcome]
    BY <1>0, <1>1
  <2>2. pc \in Stages
    OBVIOUS
  <2> QED BY ONLY <1>1, <2>1, <2>2, outcome \in Outcomes DEF Invocations, Stages, Outcomes
<1>3. inv' = [inv EXCEPT ![r] = i]
  BY <1>0, <1>1
<1>4. inv[r].gen \in Generations /\ Expected[r] \in {0, inv[r].gen}
  BY DEF TrafficInv, InvocationsHaveGenerations, At
<1>5. lease[r] \in Generations \cup {0} /\ lease' = [lease EXCEPT ![r] = lease[r]]
  BY <1>1
<1>6. (lease[r] # 0 => active # 0 /\ r \notin orphaned')
  BY DEF TrafficInv, WithdrawnHoldsNothing, OrphansAreStopped
<1>7. r \in orphaned' => pc \notin {"idle", "lease", "reread", "done", "admitted", "running"}
  OBVIOUS
<1>8. ASSUME r \in overtaken'
      PROVE  /\ i.pc \in (Inside \ {"running"}) \cup {"release"}
             /\ i.pc \in Inside => i.rev < floor[Runner[r]] \/ state'[Runner[r]][i.gen].quarantined
             /\ i.pc = "release" => i.outcome # "ok"
  <2>1. r \in overtaken /\ inv[r].pc \in Inside
    BY <1>8 DEF TrafficInv, OvertakenIsKnown, At
  <2>2. inv[r].rev < floor[Runner[r]] \/ state'[Runner[r]][inv[r].gen].quarantined
    BY <1>4, <2>1, RunnersAreProcesses DEF TrafficInv, OvertakenIsKnown, Revoked, Here, StatesWorsen
  <2>3. pc \in (Inside \ {"running"}) \cup {"release"}
    BY <2>1 DEF Stages, Inside
  <2> QED BY <1>2, <2>1, <2>2, <2>3
<1>9. overtaken' \subseteq overtaken
  OBVIOUS
<1> QED BY <1>2, <1>3, <1>4, <1>5, <1>6, <1>7, <1>8, <1>9, InvocationStep

-----------------------------------------------------------------------------
(* invokeTrusted(). *)

LEMMA InvReadInventory ==
    ASSUME TrafficInv, NEW r \in Requests, ReadInventory(r)
    PROVE  TrafficInv'
<1>1. PICK i : i = inv'[r]
  OBVIOUS
<1>2. /\ inv[r] \in Invocations /\ inv \in [Requests -> Invocations]
      /\ lease \in [Requests -> Generations \cup {0}] /\ lease[r] \in Generations \cup {0}
      /\ active \in Generations \cup {0} /\ authority \in Nat
  BY DEF TrafficInv, TypeOK
<1>3. \/ i = Done
      \/ /\ active # 0 /\ Expected[r] \in {0, active}
         /\ i = [inv[r] EXCEPT !.pc = "lease", !.gen = active, !.rev = authority]
  BY <1>1, <1>2 DEF ReadInventory
<1>4. i \in Invocations
      /\ (i.pc \notin {"idle", "done"} => i.gen \in Generations /\ Expected[r] \in {0, i.gen})
      /\ i.pc \notin {"reaping", "retry", "durable"}
  <2>1. CASE i = Done
    BY <2>1, Blanks
  <2>2. CASE active # 0 /\ Expected[r] \in {0, active}
             /\ i = [inv[r] EXCEPT !.pc = "lease", !.gen = active, !.rev = authority]
    <3>1. i \in Invocations /\ i.pc = "lease" /\ i.gen = active
      BY <2>2, <1>2 DEF Invocations
    <3> QED BY <3>1, <2>2, <1>2
  <2> QED BY <1>3, <2>1, <2>2
<1>5. inv' = [inv EXCEPT ![r] = i] /\ lease' = [lease EXCEPT ![r] = lease[r]]
  BY <1>1, <1>2 DEF ReadInventory
<1>6. r \notin orphaned /\ r \notin overtaken /\ (lease[r] # 0 => active # 0)
  BY DEF TrafficInv, OrphansAreStopped, OvertakenIsKnown, Inside, Entered, WithdrawnHoldsNothing,
     ReadInventory, At
<1>7. UNCHANGED <<pointer, state, floor, authority, restarts, decision, condemned, orphaned, overtaken>>
  BY DEF ReadInventory
<1> QED BY <1>2, <1>4, <1>5, <1>6, <1>7, NoState, InvocationStep

LEMMA InvAcquireLease ==
    ASSUME TrafficInv, NEW r \in Requests, AcquireLease(r)
    PROVE  TrafficInv'
<1>1. /\ inv[r] \in Invocations /\ inv \in [Requests -> Invocations] /\ inv[r].pc = "lease"
      /\ inv[r].gen \in Generations /\ Expected[r] \in {0, inv[r].gen}
      /\ r \notin orphaned /\ r \notin overtaken
  BY DEF TrafficInv, TypeOK, InvocationsHaveGenerations, OrphansAreStopped, OvertakenIsKnown,
     Inside, Entered, AcquireLease, At
<1>2. CASE MayLease(r)
  <2>1. PICK i : i = inv'[r]
    OBVIOUS
  <2>2. i = [inv[r] EXCEPT !.pc = "enter", !.attempt = 0]
    BY <1>1, <1>2, <2>1 DEF AcquireLease
  <2>3. i \in Invocations /\ i.pc = "enter" /\ i.gen = inv[r].gen
    BY <1>1, <2>2 DEF Invocations
  <2>4. inv' = [inv EXCEPT ![r] = i] /\ lease' = [lease EXCEPT ![r] = inv[r].gen]
    BY <1>1, <1>2, <2>1 DEF AcquireLease
  <2>5. active # 0 /\ inv[r].gen \in Generations \cup {0}
    BY <1>1, <1>2, GenerationsAssumption DEF MayLease
  <2>6. UNCHANGED <<pointer, state, floor, authority, restarts, decision, condemned, orphaned, overtaken>>
    BY DEF AcquireLease
  <2> QED BY <1>1, <2>3, <2>4, <2>5, <2>6, NoState, InvocationStep
<1>3. CASE ~MayLease(r)
  <2>1. /\ inv' = [inv EXCEPT ![r].pc = "reread"]
        /\ UNCHANGED <<pointer, lease, state, floor, authority, restarts, decision, condemned, orphaned, overtaken>>
    BY <1>3 DEF AcquireLease, Goto
  <2>2. "reread" \in Stages \ {"idle", "done"} /\ inv[r].outcome \in Outcomes
    BY <1>1 DEF Stages, Outcomes, Invocations
  <2>3. ~At(r, "idle") /\ ~At(r, "done") /\ ~At(r, "release")
    BY <1>1 DEF At
  <2> QED BY <1>1, <2>1, <2>2, <2>3, NoState, MoveStep
<1> QED BY <1>2, <1>3

LEMMA InvReread ==
    ASSUME TrafficInv, NEW r \in Requests, Reread(r)
    PROVE  TrafficInv'
<1>1. PICK i : i = inv'[r]
  OBVIOUS
<1>2. /\ inv \in [Requests -> Invocations] /\ lease \in [Requests -> Generations \cup {0}]
      /\ lease[r] \in Generations \cup {0}
  BY DEF TrafficInv, TypeOK
<1>3. i = Done \/ i = [NewInvocation EXCEPT !.attempt = 1]
  BY <1>1, <1>2 DEF Reread
<1>4. i \in Invocations /\ i.pc \in {"idle", "done"}
  <2>1. CASE i = Done
    BY <2>1, Blanks
  <2>2. CASE i = [NewInvocation EXCEPT !.attempt = 1]
    BY <2>2 DEF NewInvocation, Invocations
  <2> QED BY <1>3, <2>1, <2>2
<1>5. inv' = [inv EXCEPT ![r] = i] /\ lease' = [lease EXCEPT ![r] = lease[r]]
  BY <1>1, <1>2 DEF Reread
<1>6. r \notin orphaned /\ r \notin overtaken /\ (lease[r] # 0 => active # 0)
  BY DEF TrafficInv, OrphansAreStopped, OvertakenIsKnown, Inside, Entered, WithdrawnHoldsNothing,
     Reread, At
<1>7. UNCHANGED <<pointer, state, floor, authority, restarts, decision, condemned, orphaned, overtaken>>
  BY DEF Reread
<1> QED BY <1>2, <1>4, <1>5, <1>6, <1>7, NoState, InvocationStep

LEMMA InvRelease ==
    ASSUME TrafficInv, NEW r \in Requests, Release(r)
    PROVE  TrafficInv'
<1>1. /\ inv' = [inv EXCEPT ![r] = Done] /\ lease' = [lease EXCEPT ![r] = 0] /\ orphaned' = orphaned \ {r}
      /\ overtaken' = overtaken \ {r}
      /\ UNCHANGED <<pointer, state, floor, authority, restarts, decision, condemned>>
  BY DEF Release
<1> QED BY <1>1, Blanks, NoState, InvocationStep

-----------------------------------------------------------------------------
(* DockerHotApplicationSandboxSupervisor.invoke(). *)

LEMMA ActiveStep ==
    ASSUME TrafficInv, NEW p \in Processes, NEW g \in Generations, NEW n \in Int,
           state' = [state EXCEPT ![p][g].active = n], UNCHANGED condemned
    PROVE  /\ state' \in [Processes -> [Generations -> GenerationStates]]
           /\ StatesWorsen /\ DurablesStay /\ condemned' \subseteq Generations
           /\ state'[p][g].quarantined = state[p][g].quarantined
<1>1. state[p][g] \in GenerationStates /\ state \in [Processes -> [Generations -> GenerationStates]]
  BY DEF TrafficInv, TypeOK
<1>2. PICK s : s = [state[p][g] EXCEPT !.active = n]
  OBVIOUS
<1>3. /\ s \in GenerationStates /\ s.quarantined = state[p][g].quarantined
      /\ s.durable = state[p][g].durable
  BY <1>1, <1>2 DEF GenerationStates
<1>4. state' = [state EXCEPT ![p][g] = s]
  BY <1>1, <1>2
<1>5. (s.quarantined => g \in condemned') /\ (s.durable # "none" => s.quarantined)
  BY <1>3 DEF TrafficInv, FaultsAreCondemned
<1>6. condemned' \subseteq Generations
  BY DEF TrafficInv, TypeOK
<1>7. condemned \subseteq condemned' /\ (state[p][g].quarantined => s.quarantined)
  BY <1>3
<1>8. /\ state' \in [Processes -> [Generations -> GenerationStates]]
      /\ state'[p][g] = s /\ StatesWorsen
      /\ (state[p][g].durable \in {"read", "write"} => s.durable \in {"read", "write"}) => DurablesStay
  BY ONLY TrafficInv, p \in Processes, g \in Generations, <1>3, <1>4, <1>5, <1>7, OneState
<1> QED BY <1>3, <1>6, <1>8

LEMMA RetryStep ==
    ASSUME TrafficInv, NEW p \in Processes, NEW g \in Generations, state[p][g].quarantined,
           state' = [state EXCEPT ![p][g] = RetryDurable(@)], UNCHANGED condemned
    PROVE  /\ state' \in [Processes -> [Generations -> GenerationStates]]
           /\ StatesWorsen /\ DurablesStay /\ condemned' \subseteq Generations
           /\ state'[p][g].quarantined
           /\ state[p][g].durable # "done" => state'[p][g].durable \in {"read", "write"}
<1>1. state[p][g] \in GenerationStates /\ state \in [Processes -> [Generations -> GenerationStates]]
  BY DEF TrafficInv, TypeOK
<1>2. PICK s : s = RetryDurable(state[p][g])
  OBVIOUS
<1>3. /\ s \in GenerationStates /\ s.quarantined
      /\ s.durable = IF state[p][g].durable = "none" THEN "read" ELSE state[p][g].durable
  BY <1>1, <1>2 DEF GenerationStates, RetryDurable
<1>4. state' = [state EXCEPT ![p][g] = s]
  BY <1>1, <1>2
<1>5. s.quarantined => g \in condemned'
  BY DEF TrafficInv, FaultsAreCondemned
<1>6. condemned' \subseteq Generations
  BY DEF TrafficInv, TypeOK
<1>7. state[p][g].durable # "done" => s.durable \in {"read", "write"}
  BY <1>1, <1>3 DEF GenerationStates
<1>8. condemned \subseteq condemned' /\ (s.durable # "none" => s.quarantined)
      /\ (state[p][g].quarantined => s.quarantined)
  BY <1>3
<1>9. /\ state' \in [Processes -> [Generations -> GenerationStates]]
      /\ state'[p][g] = s /\ StatesWorsen
      /\ (state[p][g].durable \in {"read", "write"} => s.durable \in {"read", "write"}) => DurablesStay
  BY ONLY TrafficInv, p \in Processes, g \in Generations, <1>3, <1>4, <1>5, <1>8, OneState
<1> QED BY <1>3, <1>6, <1>7, <1>9

LEMMA UnderWay ==
    ASSUME TrafficInv, NEW r \in Requests, ~At(r, "idle"), ~At(r, "done")
    PROVE  /\ inv[r].gen \in Generations /\ Runner[r] \in Processes
           /\ inv[r].outcome \in Outcomes
           /\ Here(r) \in GenerationStates /\ Here(r).active - 1 \in Int /\ Here(r).active + 1 \in Int
<1>1. inv[r].gen \in Generations /\ Runner[r] \in Processes
  BY RunnersAreProcesses DEF TrafficInv, InvocationsHaveGenerations, At
<1>2. inv[r] \in Invocations
  BY DEF TrafficInv, TypeOK
<1>3. Here(r) \in GenerationStates
  BY <1>1 DEF TrafficInv, TypeOK, Here
<1> QED BY <1>1, <1>2, <1>3 DEF Invocations, Outcomes, GenerationStates

LEMMA InvEnter ==
    ASSUME TrafficInv, NEW r \in Requests, Enter(r)
    PROVE  TrafficInv'
<1>1. At(r, "enter") /\ ~At(r, "idle") /\ ~At(r, "done") /\ ~At(r, "release")
      /\ UNCHANGED <<pointer, lease, floor, authority, restarts, decision, condemned, orphaned, overtaken>>
  BY DEF Enter, At
<1>2. {"release", "retry", "admission"} \subseteq Stages \ {"idle", "done"} /\ "failed" \in Outcomes
  BY DEF Stages, Outcomes
<1>3. CASE Here(r).quarantined
  <2>1. state' = [state EXCEPT ![Runner[r]][inv[r].gen] = RetryDurable(@)]
    BY <1>3 DEF Enter
  <2>2. CASE Here(r).durable = "done"
    <3>1. End(r, "failed")
      BY <1>3, <2>2 DEF Enter
    <3>2. inv' = [inv EXCEPT ![r].pc = "release", ![r].outcome = "failed"]
      BY <3>1 DEF End
    <3>3. /\ state' \in [Processes -> [Generations -> GenerationStates]]
          /\ StatesWorsen /\ DurablesStay /\ condemned' \subseteq Generations
      BY <1>1, <1>3, <2>1, UnderWay, RetryStep DEF Here
    <3> QED BY <1>1, <1>2, <3>2, <3>3, MoveStep
  <2>3. CASE Here(r).durable # "done"
    <3>1. Goto(r, "retry")
      BY <1>3, <2>3 DEF Enter
    <3> QED BY <1>1, <1>2, <1>3, <2>1, <2>3, <3>1, UnderWay, RetryStep, MoveStep DEF Goto, Here
  <2> QED BY <2>2, <2>3
<1>4. CASE ~Here(r).quarantined
  <2>1. UNCHANGED state /\ (End(r, "failed") \/ Goto(r, "admission"))
    BY <1>4 DEF Enter
  <2>2. CASE End(r, "failed")
    BY <1>1, <1>2, <2>1, <2>2, UnderWay, NoState, MoveStep DEF End
  <2>3. CASE Goto(r, "admission")
    BY <1>1, <1>2, <2>1, <2>3, UnderWay, NoState, MoveStep DEF Goto
  <2> QED BY <2>1, <2>2, <2>3
<1> QED BY <1>3, <1>4

(* An invocation that only goes on, or leaves its place.                    *)
LEMMA GoesOn ==
    ASSUME TrafficInv, NEW r \in Requests, ~At(r, "idle"), ~At(r, "done"), ~At(r, "release"),
           NEW pc \in Stages \ {"idle", "done", "retry", "durable", "reaping"},
           pc \in {"lease", "reread", "admitted", "running"} => r \notin orphaned,
           pc \in {"lease", "reread", "running"} => r \notin overtaken,
           NEW outcome \in Outcomes,
           UNCHANGED <<pointer, lease, floor, authority, restarts, decision, condemned, orphaned, overtaken>>,
           pc = "release" => r \notin overtaken \/ outcome # "ok",
           \/ Goto(r, pc) /\ pc # "release" /\ UNCHANGED state
           \/ Goto(r, pc) /\ pc # "release" /\ state' = [state EXCEPT ![Runner[r]][inv[r].gen].active = @ + 1]
           \/ End(r, outcome) /\ UNCHANGED state /\ pc = "release"
           \/ Leave(r, pc, outcome)
    PROVE  TrafficInv'
<1>1. /\ state' \in [Processes -> [Generations -> GenerationStates]]
      /\ StatesWorsen /\ DurablesStay /\ condemned' \subseteq Generations
  <2>1. CASE UNCHANGED state
    BY <2>1, NoState
  <2>2. CASE state' = [state EXCEPT ![Runner[r]][inv[r].gen].active = @ + 1]
    BY <2>2, UnderWay, ActiveStep DEF Here
  <2>3. CASE Leave(r, pc, outcome)
    <3>1. state' = [state EXCEPT ![Runner[r]][inv[r].gen].active = Here(r).active - 1]
      BY <2>3 DEF Leave, Here
    <3> QED BY <3>1, UnderWay, ActiveStep
  <2> QED BY <2>1, <2>2, <2>3
<1>2. CASE inv' = [inv EXCEPT ![r].pc = pc] /\ pc # "release"
  <2>1. inv[r].outcome \in Outcomes
    BY UnderWay
  <2> QED BY <1>1, <1>2, <2>1, MoveStep
<1>3. CASE inv' = [inv EXCEPT ![r].pc = pc, ![r].outcome = outcome]
  BY <1>1, <1>3, MoveStep
<1> QED BY <1>2, <1>3 DEF Goto, End, Leave

LEMMA InvAdmission ==
    ASSUME TrafficInv, NEW r \in Requests,
           \/ FirstAdmission(r) \/ Load(r) \/ LoadFails(r) \/ SecondAdmission(r)
           \/ StartContainer(r) \/ Stopped(r)
    PROVE  TrafficInv'
<1>1. ~At(r, "idle") /\ ~At(r, "done") /\ ~At(r, "release")
      /\ UNCHANGED <<pointer, lease, floor, authority, restarts, decision, condemned, orphaned, overtaken>>
  BY DEF FirstAdmission, Load, LoadFails, SecondAdmission, StartContainer, Stopped, At
<1>2. /\ {"release", "load", "admit", "admitted", "running"} \subseteq
            Stages \ {"idle", "done", "retry", "durable", "reaping"}
      /\ {"failed", "failed", "ok"} \subseteq Outcomes
  BY DEF Stages, Outcomes, Entered
<1>3. CASE FirstAdmission(r)
  <2>1. \/ End(r, "failed") /\ UNCHANGED state
        \/ Goto(r, "load") /\ state' = [state EXCEPT ![Runner[r]][inv[r].gen].active = @ + 1]
    BY <1>3 DEF FirstAdmission
  <2> QED BY <1>1, <1>2, <2>1, GoesOn
<1>4. CASE Load(r) \/ LoadFails(r)
  <2>1. \/ Leave(r, "release", "failed") \/ Leave(r, "release", "failed")
        \/ Goto(r, "admit") /\ UNCHANGED state
    BY <1>4 DEF Load, LoadFails
  <2> QED BY <1>1, <1>2, <2>1, GoesOn
<1>5. CASE SecondAdmission(r)
  <2>1. CASE Leased(r)
    <3>1. Goto(r, "admitted") /\ UNCHANGED state
      BY <1>5, <2>1 DEF SecondAdmission
    <3>2. r \notin orphaned
      BY <1>1, <2>1, UnderWay, GenerationsAssumption DEF TrafficInv, OrphansAreStopped, Leased
    <3> QED BY <1>1, <1>2, <3>1, <3>2, GoesOn
  <2>2. CASE ~Leased(r)
    <3>1. Leave(r, "release", "failed")
      BY <1>5, <2>2 DEF SecondAdmission
    <3> QED BY <1>1, <1>2, <3>1, GoesOn
  <2> QED BY <2>1, <2>2
<1>6. CASE StartContainer(r)
  <2>1. \/ Leave(r, "release", "failed")
        \/ Goto(r, "running") /\ UNCHANGED state
    BY <1>6 DEF StartContainer
  <2>2. r \notin orphaned
    BY <1>6 DEF TrafficInv, OrphansAreStopped, StartContainer, At
  <2>3. CASE Leave(r, "release", "failed")
    BY <1>1, <1>2, <2>3, GoesOn
  <2>4. CASE Goto(r, "running") /\ UNCHANGED state
    <3>1. ~Refuses(r) \/ r \notin overtaken
      <4>1. CASE Refuses(r)
        <5>1. inv'[r].pc = "release" /\ inv'[r].pc = "running"
          BY <1>6, <2>4, <4>1 DEF StartContainer, Leave, Goto, TrafficInv, TypeOK, Invocations
        <5> QED BY <5>1
      <4> QED BY <4>1
    <3>2. inv[r].pc \in Inside
      BY <1>6 DEF StartContainer, At, Inside, Entered
    <3>3. r \notin overtaken
      BY <3>1, <3>2 DEF Refuses, TrafficInv, OvertakenIsKnown
    <3> QED BY <1>1, <1>2, <2>2, <2>4, <3>3, GoesOn
  <2> QED BY <2>1, <2>3, <2>4
<1>7. CASE Stopped(r)
  <2>1. UNCHANGED state /\ (End(r, "failed") \/ (End(r, "ok") /\ Accepted(r)))
    BY <1>7 DEF Stopped
  <2>2. inv[r].pc \in Inside
    BY <1>7 DEF Stopped, At, Inside
  <2>3. Accepted(r) => r \notin overtaken
    BY <2>2 DEF Accepted, TrafficInv, OvertakenIsKnown
  <2> QED BY <1>1, <1>2, <2>1, <2>3, GoesOn
<1> QED BY <1>3, <1>4, <1>5, <1>6, <1>7

LEMMA InvSettle ==
    ASSUME TrafficInv, NEW r \in Requests,
           Duplicate(r) \/ \E outcome \in {"ok", "failed", "terminal"} : Settle(r, outcome)
    PROVE  TrafficInv'
<1>1. PICK outcome \in {"ok", "failed", "terminal"} : Settle(r, outcome) \/ (Duplicate(r) /\ outcome = "terminal")
  OBVIOUS
<1>2. /\ ~At(r, "idle") /\ ~At(r, "done") /\ ~At(r, "release")
      /\ UNCHANGED <<pointer, lease, state, floor, authority, restarts, decision, condemned, orphaned, overtaken>>
  BY <1>1 DEF Settle, Duplicate, At
<1>3. inv' = [inv EXCEPT ![r].pc = "reaping", ![r].outcome = outcome]
  <2>1. CASE Settle(r, outcome)
    BY <2>1 DEF Settle
  <2>2. CASE Duplicate(r) /\ outcome = "terminal"
    <3>1. /\ inv[r] \in Invocations /\ inv \in [Requests -> Invocations] /\ inv[r].pc = "reaping"
          /\ inv' = [inv EXCEPT ![r].outcome = "terminal"]
      BY <2>2 DEF Duplicate, At, TrafficInv, TypeOK
    <3>2. [inv[r] EXCEPT !.outcome = "terminal"] = [inv[r] EXCEPT !.pc = "reaping", !.outcome = "terminal"]
      BY <3>1 DEF Invocations
    <3> QED BY <2>2, <3>1, <3>2
  <2> QED BY <1>1, <2>1, <2>2
<1>4. "reaping" \in Stages \ {"idle", "done"} /\ outcome \in Outcomes
  BY DEF Stages, Outcomes, Entered
<1> QED BY <1>2, <1>3, <1>4, NoState, MoveStep

-----------------------------------------------------------------------------
(* Steps that cancel invocations of others. *)

LEMMA CancelledKeeps ==
    ASSUME NEW i \in Invocations
    PROVE  /\ Cancelled(i) \in Invocations /\ Cancelled(i).gen = i.gen /\ Cancelled(i).rev = i.rev
           /\ i.pc # "running" => Cancelled(i) = i
           /\ i.pc = "running" => Cancelled(i).pc = "reaping" /\ Cancelled(i).outcome = "failed"
BY DEF Cancelled, Invocations, Entered

LEMMA CancelStep ==
    ASSUME TrafficInv,
           inv' \in [Requests -> Invocations],
           \A q \in Requests :
              /\ inv'[q].gen = inv[q].gen /\ inv'[q].rev = inv[q].rev
              /\ \/ inv'[q] = inv[q]
                 \/ inv[q].pc \in {"running", "reaping"} /\ inv'[q].pc \in {"reaping", "stopping"}
                 \/ /\ inv[q].pc = "reaping" /\ inv'[q].pc = "durable"
                    /\ state'[Runner[q]][inv[q].gen].quarantined
                    /\ state'[Runner[q]][inv[q].gen].durable \in {"read", "write"},
           \A q \in overtaken' :
              /\ q \in Requests /\ inv'[q].pc # "running"
              /\ \/ q \in overtaken
                 \/ /\ inv[q].pc \in Inside
                    /\ inv[q].rev < floor'[Runner[q]] \/ state'[Runner[q]][inv[q].gen].quarantined,
           state' \in [Processes -> [Generations -> GenerationStates]],
           StatesWorsen, DurablesStay, condemned' \subseteq Generations,
           floor' \in [Processes -> Nat], \A p \in Processes : floor[p] <= floor'[p],
           UNCHANGED <<pointer, lease, authority, restarts, decision, orphaned>>
    PROVE  TrafficInv'
<1> USE DEF TrafficInv
<1>1. TypeOK'
  BY DEF TypeOK, pointer
<1>2. WithdrawnHoldsNothing'
  BY DEF WithdrawnHoldsNothing, pointer, StatesWorsen
<1>3. InvocationsHaveGenerations'
  BY DEF InvocationsHaveGenerations
<1>4. FaultsAreCondemned'
  BY DEF FaultsAreCondemned, StatesWorsen
<1>5. OvertakenIsKnown'
  <2> SUFFICES ASSUME NEW q \in overtaken'
               PROVE  /\ inv'[q].pc \in (Inside \ {"running"}) \cup {"release"}
                      /\ inv'[q].pc \in Inside => \/ inv'[q].rev < floor'[Runner[q]]
                                                  \/ state'[Runner[q]][inv'[q].gen].quarantined
                      /\ inv'[q].pc = "release" => inv'[q].outcome # "ok"
    BY DEF OvertakenIsKnown, Revoked, Here
  <2>1. q \in Requests /\ inv'[q].pc # "running" /\ inv'[q].gen = inv[q].gen /\ inv'[q].rev = inv[q].rev
    OBVIOUS
  <2>2. \/ inv'[q] = inv[q]
        \/ inv[q].pc \in {"running", "reaping"} /\ inv'[q].pc \in {"reaping", "stopping", "durable"}
    BY <2>1
  <2>3. inv[q].pc \in Inside \cup {"release"}
    BY <2>1 DEF OvertakenIsKnown
  <2>4. inv'[q].pc \in (Inside \ {"running"}) \cup {"release"}
    BY <2>1, <2>2, <2>3 DEF Inside, Entered
  <2>5. ASSUME inv'[q].pc \in Inside
        PROVE  inv[q].rev < floor'[Runner[q]] \/ state'[Runner[q]][inv[q].gen].quarantined
    <3>1. inv[q].pc \in Inside /\ inv[q].gen \in Generations /\ Runner[q] \in Processes
      BY <2>1, <2>2, <2>5, RunnersAreProcesses DEF InvocationsHaveGenerations, Inside, Entered
    <3>2. CASE q \in overtaken
      <4>1. inv[q].rev < floor[Runner[q]] \/ state[Runner[q]][inv[q].gen].quarantined
        BY <3>1, <3>2 DEF OvertakenIsKnown, Revoked, Here
      <4>2. CASE state[Runner[q]][inv[q].gen].quarantined
        BY <3>1, <4>2 DEF StatesWorsen
      <4>3. CASE inv[q].rev < floor[Runner[q]]
        <5>1. inv[q] \in Invocations /\ floor[Runner[q]] \in Nat /\ floor'[Runner[q]] \in Nat
              /\ floor[Runner[q]] <= floor'[Runner[q]]
          BY <2>1, <3>1 DEF TypeOK
        <5>2. inv[q].rev \in Nat
          BY <5>1 DEF Invocations
        <5> QED BY <4>3, <5>1, <5>2
      <4> QED BY <4>1, <4>2, <4>3
    <3>3. CASE q \notin overtaken
      BY <3>3
    <3> QED BY <3>2, <3>3
  <2>6. inv'[q].pc = "release" => inv'[q].outcome # "ok"
    <3>1. ASSUME inv'[q].pc = "release"
          PROVE  inv'[q] = inv[q] /\ q \in overtaken
      BY <2>2, <3>1 DEF Inside, Entered
    <3> QED BY <3>1 DEF OvertakenIsKnown
  <2> QED BY <2>1, <2>4, <2>5, <2>6
<1>6. OrphansAreStopped'
  BY DEF OrphansAreStopped, TypeOK
<1>7. WaitersAreServed'
  <2> SUFFICES ASSUME NEW q \in Requests, inv'[q].pc \in {"retry", "durable"}
               PROVE  /\ state'[Runner[q]][inv'[q].gen].quarantined
                      /\ state'[Runner[q]][inv'[q].gen].durable \in {"read", "write"}
    BY DEF WaitersAreServed, Here
  <2>1. CASE inv'[q] = inv[q]
    <3>1. inv[q].gen \in Generations
      BY <2>1 DEF InvocationsHaveGenerations
    <3> QED BY <2>1, <3>1, RunnersAreProcesses DEF WaitersAreServed, Here, StatesWorsen, DurablesStay
  <2>2. CASE inv'[q] # inv[q]
    BY <2>2
  <2> QED BY <2>1, <2>2
<1> QED BY <1>1, <1>2, <1>3, <1>4, <1>5, <1>6, <1>7

(* A local quarantine: r becomes i, the state of its generation s.          *)
LEMMA PublishStep ==
    ASSUME TrafficInv, NEW r \in Requests, inv[r].pc \in {"running", "reaping"},
           NEW i \in Invocations, i.gen = inv[r].gen, i.rev = inv[r].rev, Publish(r, i),
           NEW s \in GenerationStates, s.quarantined,
           Here(r).durable \in {"read", "write"} => s.durable \in {"read", "write"},
           state' = [state EXCEPT ![Runner[r]][inv[r].gen] = s],
           \/ i.pc \in {"reaping", "stopping"}
           \/ inv[r].pc = "reaping" /\ i.pc = "durable" /\ s.durable \in {"read", "write"},
           UNCHANGED <<pointer, lease, floor, authority, restarts, decision, orphaned>>
    PROVE  TrafficInv'
<1>1. /\ inv' = CancelOthers(r, i) /\ condemned' = condemned \cup {inv[r].gen}
      /\ overtaken' = overtaken \cup {q \in Requests :
                         Runner[q] = Runner[r] /\ inv[q].gen = inv[r].gen /\ inv[q].pc \in Inside}
  BY DEF Publish
<1>2. /\ inv \in [Requests -> Invocations] /\ floor \in [Processes -> Nat]
      /\ condemned \subseteq Generations /\ overtaken \subseteq Requests
  BY DEF TrafficInv, TypeOK
<1>3. PICK p \in Processes, g \in Generations : p = Runner[r] /\ g = inv[r].gen
  BY UnderWay DEF At
<1>4. /\ state' \in [Processes -> [Generations -> GenerationStates]]
      /\ state'[p][g] = s /\ StatesWorsen /\ DurablesStay
  <2>1. /\ state' = [state EXCEPT ![p][g] = s] /\ condemned \subseteq condemned' /\ g \in condemned'
        /\ state[p][g].durable \in {"read", "write"} => s.durable \in {"read", "write"}
    BY <1>1, <1>3 DEF Here
  <2> QED BY ONLY TrafficInv, s \in GenerationStates, s.quarantined, p \in Processes, g \in Generations,
          <2>1, OneState
<1>5. \A q \in Requests :
         inv'[q] = IF q = r THEN i
                   ELSE IF Runner[q] = p /\ inv[q].gen = g THEN Cancelled(inv[q])
                   ELSE inv[q]
  BY <1>1, <1>3 DEF CancelOthers
<1>6. /\ inv' \in [Requests -> Invocations]
      /\ \A q \in Requests :
            /\ inv'[q].gen = inv[q].gen /\ inv'[q].rev = inv[q].rev
            /\ \/ inv'[q] = inv[q]
               \/ inv[q].pc \in {"running", "reaping"} /\ inv'[q].pc \in {"reaping", "stopping"}
               \/ /\ inv[q].pc = "reaping" /\ inv'[q].pc = "durable"
                  /\ state'[Runner[q]][inv[q].gen].quarantined
                  /\ state'[Runner[q]][inv[q].gen].durable \in {"read", "write"}
  <2>1. ASSUME NEW q \in Requests
        PROVE  /\ inv'[q] \in Invocations
               /\ inv'[q].gen = inv[q].gen /\ inv'[q].rev = inv[q].rev
               /\ \/ inv'[q] = inv[q]
                  \/ inv[q].pc \in {"running", "reaping"} /\ inv'[q].pc \in {"reaping", "stopping"}
                  \/ /\ inv[q].pc = "reaping" /\ inv'[q].pc = "durable"
                     /\ state'[Runner[q]][inv[q].gen].quarantined
                     /\ state'[Runner[q]][inv[q].gen].durable \in {"read", "write"}
    <3>1. inv[q] \in Invocations
      BY <1>2
    <3>2. CASE q = r
      BY <3>2, <1>3, <1>4, <1>5
    <3>3. CASE q # r
      BY <3>1, <3>3, <1>5, CancelledKeeps
    <3> QED BY <3>2, <3>3
  <2>2. inv' = [q \in Requests |-> inv'[q]]
    BY <1>1 DEF CancelOthers
  <2> QED BY <2>1, <2>2
<1>7. ASSUME NEW q \in overtaken'
      PROVE  /\ q \in Requests /\ inv'[q].pc # "running"
             /\ \/ q \in overtaken
                \/ /\ inv[q].pc \in Inside
                   /\ inv[q].rev < floor'[Runner[q]] \/ state'[Runner[q]][inv[q].gen].quarantined
  <2>1. q \in Requests
    BY <1>1, <1>2
  <2>2. CASE q \in overtaken
    <3>1. inv[q].pc # "running"
      BY <2>2 DEF TrafficInv, OvertakenIsKnown
    <3>2. inv'[q].pc # "running"
      BY <1>6, <2>1, <3>1
    <3> QED BY <2>1, <2>2, <3>2
  <2>3. CASE q \notin overtaken
    <3>1. Runner[q] = p /\ inv[q].gen = g /\ inv[q].pc \in Inside
      BY <1>1, <1>3, <2>3
    <3>2. inv'[q].pc # "running"
      <4>1. CASE q = r
        BY <1>5, <2>1, <4>1
      <4>2. CASE q # r
        <5>1. inv'[q] = Cancelled(inv[q]) /\ inv[q] \in Invocations
          BY <1>2, <1>5, <2>1, <3>1, <4>2
        <5> QED BY <5>1, CancelledKeeps
      <4> QED BY <4>1, <4>2
    <3> QED BY <1>4, <2>1, <3>1, <3>2
  <2> QED BY <2>2, <2>3
<1>8. /\ condemned' \subseteq Generations /\ floor' \in [Processes -> Nat]
      /\ \A q \in Processes : floor[q] <= floor'[q]
  BY <1>1, <1>2, <1>3
<1> QED BY <1>4, <1>6, <1>7, <1>8, CancelStep

LEMMA InvFailTerminally ==
    ASSUME TrafficInv, NEW r \in Requests, FailTerminally(r)
    PROVE  TrafficInv'
<1>1. /\ inv[r].pc \in {"running", "reaping"}
      /\ state' = [state EXCEPT ![Runner[r]][inv[r].gen] = Published(@)]
      /\ UNCHANGED <<pointer, lease, floor, authority, restarts, decision, orphaned>>
  BY DEF FailTerminally
<1>2. PICK i : i = IF At(r, "running") THEN [inv[r] EXCEPT !.pc = "reaping", !.outcome = "terminal"] ELSE inv[r]
  OBVIOUS
<1>3. Publish(r, i) /\ inv[r] \in Invocations
  BY <1>2 DEF FailTerminally, TrafficInv, TypeOK
<1>4. i \in Invocations /\ i.pc = "reaping" /\ i.gen = inv[r].gen /\ i.rev = inv[r].rev
  BY <1>1, <1>2, <1>3 DEF Invocations, Entered, At
<1>5. Here(r) \in GenerationStates /\ state \in [Processes -> [Generations -> GenerationStates]]
      /\ Runner[r] \in Processes /\ inv[r].gen \in Generations
  BY <1>1, UnderWay DEF At, TrafficInv, TypeOK
<1>6. PICK s : s = Published(Here(r))
  OBVIOUS
<1>7. s \in GenerationStates /\ s.quarantined /\ s.durable = Here(r).durable
  BY <1>5, <1>6 DEF Published, GenerationStates
<1>8. state' = [state EXCEPT ![Runner[r]][inv[r].gen] = s]
  BY <1>1, <1>5, <1>6 DEF Here
<1> QED BY <1>1, <1>3, <1>4, <1>7, <1>8, PublishStep

(* The state and the invocation of a quarantine that is awaited.            *)
LEMMA QuarantineOfGeneration ==
    ASSUME TrafficInv, NEW r \in Requests, inv[r].pc = "reaping", QuarantineGeneration(r)
    PROVE  \E i \in Invocations, s \in GenerationStates :
              /\ Publish(r, i) /\ i.gen = inv[r].gen /\ i.rev = inv[r].rev
              /\ state' = [state EXCEPT ![Runner[r]][inv[r].gen] = s]
              /\ s.quarantined /\ (Here(r).durable \in {"read", "write"} => s.durable \in {"read", "write"})
              /\ \/ i.pc = "stopping" /\ s.active = Here(r).active - 1
                 \/ i.pc = "durable" /\ s.durable \in {"read", "write"} /\ s.active = Here(r).active
<1>1. Here(r) \in GenerationStates /\ state \in [Processes -> [Generations -> GenerationStates]]
      /\ Runner[r] \in Processes /\ inv[r].gen \in Generations /\ inv[r] \in Invocations
  BY UnderWay DEF At, TrafficInv, TypeOK
<1> DEFINE over == Here(r).durable = "done"
<1>2. PICK i : i = [inv[r] EXCEPT !.pc = IF over THEN "stopping" ELSE "durable", !.outcome = "failed"]
  OBVIOUS
<1>3. PICK t : t = RetryDurable(Published(Here(r)))
  OBVIOUS
<1>4. PICK s : s = IF over THEN [t EXCEPT !.active = @ - 1] ELSE t
  OBVIOUS
<1>5. Publish(r, i)
  BY <1>2 DEF QuarantineGeneration
<1>6. state' = [state EXCEPT ![Runner[r]][inv[r].gen] = s]
  BY <1>3, <1>4 DEF QuarantineGeneration
<1>7. /\ i \in Invocations /\ i.gen = inv[r].gen /\ i.rev = inv[r].rev
      /\ i.pc = IF over THEN "stopping" ELSE "durable"
  BY <1>1, <1>2 DEF Invocations, Entered
<1>8. /\ t \in GenerationStates /\ t.quarantined /\ t.active = Here(r).active
      /\ t.durable = IF Here(r).durable = "none" THEN "read" ELSE Here(r).durable
  <2>1. PICK u : u = Published(Here(r))
    OBVIOUS
  <2>2. u \in GenerationStates /\ u.quarantined /\ u.active = Here(r).active /\ u.durable = Here(r).durable
    BY <1>1, <2>1 DEF Published, GenerationStates
  <2>3. t = IF u.durable = "none" THEN [u EXCEPT !.durable = "read"] ELSE u
    BY <1>3, <2>1, <2>2 DEF RetryDurable
  <2> QED BY <2>2, <2>3 DEF GenerationStates
<1>9. /\ s \in GenerationStates /\ s.quarantined /\ s.durable = t.durable
       /\ s.active = IF over THEN Here(r).active - 1 ELSE Here(r).active
  <2>1. t.active \in Int /\ t.active - 1 \in Int
    BY <1>8 DEF GenerationStates
  <2> QED BY <1>4, <1>8, <2>1 DEF GenerationStates
<1>10. ~over => s.durable \in {"read", "write"}
  BY <1>1, <1>8, <1>9 DEF GenerationStates
<1>11. Here(r).durable \in {"read", "write"} => s.durable \in {"read", "write"}
  BY <1>8, <1>9
<1> QED BY <1>5, <1>6, <1>7, <1>9, <1>10, <1>11

LEMMA InvReaped ==
    ASSUME TrafficInv, NEW r \in Requests, NEW removed \in BOOLEAN, Reaped(r, removed)
    PROVE  TrafficInv'
<1>1. inv[r].pc = "reaping" /\ ~At(r, "idle") /\ ~At(r, "done") /\ ~At(r, "release")
      /\ UNCHANGED <<pointer, lease, floor, authority, restarts, decision, orphaned>>
  BY DEF Reaped, At
<1>2. CASE inv[r].outcome = "terminal" \/ ~removed
  <2>1. QuarantineGeneration(r)
    BY <1>2 DEF Reaped
  <2> QED BY <1>1, <2>1, QuarantineOfGeneration, PublishStep
<1>3. CASE ~(inv[r].outcome = "terminal" \/ ~removed)
  <2>1. /\ Leave(r, "stopping", "ok") \/ Leave(r, "stopping", "failed")
        /\ UNCHANGED <<condemned, overtaken>>
    BY <1>3 DEF Reaped
  <2>2. /\ "stopping" \in Stages \ {"idle", "done", "retry", "durable", "reaping"}
        /\ {"ok", "failed"} \subseteq Outcomes
    BY DEF Stages, Outcomes, Entered
  <2> QED BY <1>1, <2>1, <2>2, GoesOn
<1> QED BY <1>2, <1>3

LEMMA InvInvalidate ==
    ASSUME TrafficInv, NEW p \in Processes, Invalidate(p)
    PROVE  TrafficInv'
<1>1. /\ floor' = [floor EXCEPT ![p] = authority] /\ floor[p] < authority
      /\ inv' = [r \in Requests |-> IF Runner[r] = p THEN Cancelled(inv[r]) ELSE inv[r]]
      /\ overtaken' = overtaken \cup {r \in Requests :
                         Runner[r] = p /\ inv[r].rev < authority /\ inv[r].pc \in Inside}
      /\ UNCHANGED <<pointer, lease, state, authority, restarts, decision, condemned, orphaned>>
  BY DEF Invalidate
<1>2. /\ inv \in [Requests -> Invocations] /\ floor \in [Processes -> Nat] /\ authority \in Nat
      /\ overtaken \subseteq Requests
  BY DEF TrafficInv, TypeOK
<1>3. floor' \in [Processes -> Nat] /\ floor'[p] = authority /\ \A q \in Processes : floor[q] <= floor'[q]
  BY <1>1, <1>2
<1>4. /\ inv' \in [Requests -> Invocations]
      /\ \A q \in Requests :
            /\ inv'[q].gen = inv[q].gen /\ inv'[q].rev = inv[q].rev
            /\ \/ inv'[q] = inv[q]
               \/ inv[q].pc \in {"running", "reaping"} /\ inv'[q].pc \in {"reaping", "stopping"}
  BY <1>1, <1>2, CancelledKeeps
<1>5. ASSUME NEW q \in overtaken'
      PROVE  /\ q \in Requests /\ inv'[q].pc # "running"
             /\ \/ q \in overtaken
                \/ inv[q].pc \in Inside /\ inv[q].rev < floor'[Runner[q]]
  <2>1. q \in Requests
    BY <1>1, <1>2
  <2>2. CASE q \in overtaken
    <3>1. inv[q].pc # "running"
      BY <2>2 DEF TrafficInv, OvertakenIsKnown
    <3> QED BY <1>4, <2>1, <2>2, <3>1
  <2>3. CASE q \notin overtaken
    <3>1. Runner[q] = p /\ inv[q].rev < authority /\ inv[q].pc \in Inside
      BY <1>1, <2>3
    <3>2. inv'[q] = Cancelled(inv[q]) /\ inv[q] \in Invocations
      BY <1>1, <1>2, <2>1, <3>1
    <3> QED BY <1>3, <2>1, <3>1, <3>2, CancelledKeeps
  <2> QED BY <2>2, <2>3
<1> QED BY <1>1, <1>3, <1>4, <1>5, NoState, CancelStep

-----------------------------------------------------------------------------
(* Steps of the durable quarantine. *)

LEMMA WaitersLeftStep ==
    ASSUME TrafficInv, NEW p \in Processes, NEW g \in Generations, NEW durable \in {"none", "done"},
           state[p][g].durable # "none", WaitersLeft(p, g, durable), UNCHANGED condemned
    PROVE  /\ state' \in [Processes -> [Generations -> GenerationStates]]
           /\ StatesWorsen /\ g \in condemned
           /\ \A q \in Processes : \A h \in Generations :
                 q # p \/ h # g => state'[q][h] = state[q][h]
<1> DEFINE W == {r \in Requests : Runner[r] = p /\ inv[r].gen = g /\ At(r, "durable")}
<1>1. state[p][g] \in GenerationStates /\ state \in [Processes -> [Generations -> GenerationStates]]
  BY DEF TrafficInv, TypeOK
<1>2. IsFiniteSet(W)
  BY TrafficAssumption, FS_Subset, W \subseteq Requests
<1>3. Cardinality(W) \in Nat
  BY <1>2, FS_CardinalityType
<1>4. PICK n : n = state[p][g].active - Cardinality(W)
  OBVIOUS
<1>5. n \in Int
  BY <1>1, <1>3, <1>4 DEF GenerationStates
<1>6. PICK s : s = [state[p][g] EXCEPT !.durable = durable, !.seen = 0, !.active = n]
  OBVIOUS
<1>7. s \in GenerationStates /\ s.quarantined = state[p][g].quarantined
  BY <1>1, <1>5, <1>6 DEF GenerationStates
<1>8. state' = [state EXCEPT ![p][g] = s]
  <2>1. state' = [state EXCEPT ![p][g].durable = durable, ![p][g].seen = 0, ![p][g].active = n]
    BY <1>4 DEF WaitersLeft
  <2> QED BY <1>1, <1>6, <2>1
<1>9. /\ state[p][g].quarantined /\ g \in condemned' /\ g \in condemned
      /\ condemned \subseteq condemned'
  BY DEF TrafficInv, FaultsAreCondemned
<1>10. /\ state' \in [Processes -> [Generations -> GenerationStates]] /\ StatesWorsen
  BY ONLY TrafficInv, p \in Processes, g \in Generations, <1>7, <1>8, <1>9, OneState
<1> QED BY <1>1, <1>8, <1>9, <1>10

LEMMA SettledStep ==
    ASSUME TrafficInv, NEW p \in Processes, NEW g \in Generations, NEW durable \in {"none", "done"},
           state[p][g].durable # "none", WaitersLeft(p, g, durable), Settled(p, g),
           \/ UNCHANGED <<pointer, lease, orphaned>>
           \/ active = g /\ Quarantine /\ Withdrawn,
           UNCHANGED <<floor, authority, restarts, decision, condemned, overtaken>>
    PROVE  TrafficInv'
<1>1. /\ state' \in [Processes -> [Generations -> GenerationStates]]
      /\ StatesWorsen /\ g \in condemned
      /\ \A q \in Processes : \A h \in Generations :
            q # p \/ h # g => state'[q][h] = state[q][h]
  BY WaitersLeftStep
<1>2. inv \in [Requests -> Invocations]
  BY DEF TrafficInv, TypeOK
<1>3. /\ inv' \in [Requests -> Invocations]
      /\ \A q \in Requests :
            /\ inv'[q].gen = inv[q].gen /\ inv'[q].rev = inv[q].rev
            /\ \/ inv'[q] = inv[q] /\ (inv[q].pc \in {"retry", "durable"} => Runner[q] # p \/ inv[q].gen # g)
               \/ /\ inv[q].pc \in {"retry", "durable"}
                  /\ inv'[q].pc \in {"release", "stopping"} /\ inv'[q].outcome = "failed"
  <2>1. ASSUME NEW q \in Requests
        PROVE  /\ inv'[q] \in Invocations
               /\ inv'[q].gen = inv[q].gen /\ inv'[q].rev = inv[q].rev
               /\ \/ inv'[q] = inv[q] /\ (inv[q].pc \in {"retry", "durable"} => Runner[q] # p \/ inv[q].gen # g)
                  \/ /\ inv[q].pc \in {"retry", "durable"}
                     /\ inv'[q].pc \in {"release", "stopping"} /\ inv'[q].outcome = "failed"
    <3>1. inv[q] \in Invocations
      BY <1>2
    <3>2. \/ inv'[q] = inv[q] /\ (inv[q].pc \in {"retry", "durable"} => Runner[q] # p \/ inv[q].gen # g)
          \/ /\ inv[q].pc = "retry"
             /\ inv'[q] = [inv[q] EXCEPT !.pc = "release", !.outcome = "failed"]
          \/ /\ inv[q].pc = "durable"
             /\ inv'[q] = [inv[q] EXCEPT !.pc = "stopping", !.outcome = "failed"]
      BY DEF Settled, At
    <3> QED BY <3>1, <3>2 DEF Invocations
  <2>2. inv' = [q \in Requests |-> inv'[q]]
    BY DEF Settled
  <2> QED BY <2>1, <2>2
<1>4. TypeOK'
  <2>1. /\ revision' \in Nat /\ active' \in Generations \cup {0} /\ quarantined' \in Generations \cup {0}
        /\ lease' \in [Requests -> Generations \cup {0}] /\ orphaned' \subseteq Requests
    BY DEF TrafficInv, TypeOK, pointer, Quarantine, Withdrawn
  <2> QED BY <1>1, <1>3, <2>1 DEF TrafficInv, TypeOK
<1>5. WithdrawnHoldsNothing'
  BY <1>1 DEF TrafficInv, WithdrawnHoldsNothing, pointer, Quarantine, Withdrawn
<1>6. InvocationsHaveGenerations'
  BY <1>3 DEF TrafficInv, InvocationsHaveGenerations
<1>7. FaultsAreCondemned'
  BY <1>1 DEF TrafficInv, FaultsAreCondemned, StatesWorsen
<1>8. OvertakenIsKnown'
  <2> SUFFICES ASSUME NEW q \in overtaken
               PROVE  /\ inv'[q].pc \in (Inside \ {"running"}) \cup {"release"}
                      /\ inv'[q].pc \in Inside => \/ inv'[q].rev < floor[Runner[q]]
                                                  \/ state'[Runner[q]][inv'[q].gen].quarantined
                      /\ inv'[q].pc = "release" => inv'[q].outcome # "ok"
    BY DEF OvertakenIsKnown, Revoked, Here
  <2>1. q \in Requests /\ inv[q].pc \in (Inside \ {"running"}) \cup {"release"}
    BY DEF TrafficInv, TypeOK, OvertakenIsKnown
  <2>2. inv[q].gen \in Generations /\ Runner[q] \in Processes
    BY <2>1, RunnersAreProcesses DEF TrafficInv, InvocationsHaveGenerations, Inside, Entered
  <2>3. inv[q].pc \in Inside => inv[q].rev < floor[Runner[q]] \/ state'[Runner[q]][inv[q].gen].quarantined
    BY <1>1, <2>2 DEF TrafficInv, OvertakenIsKnown, Revoked, Here, StatesWorsen
  <2>4. CASE inv'[q] = inv[q]
    BY <2>1, <2>3, <2>4 DEF TrafficInv, OvertakenIsKnown
  <2>5. CASE /\ inv[q].pc \in {"retry", "durable"}
             /\ inv'[q].pc \in {"release", "stopping"} /\ inv'[q].outcome = "failed"
    BY <1>3, <2>1, <2>3, <2>5 DEF Inside, Entered
  <2> QED BY <1>3, <2>1, <2>4, <2>5
<1>9. OrphansAreStopped'
  <2>1. \A q \in Requests : inv'[q].pc \in {inv[q].pc, "release", "stopping"}
    BY <1>3
  <2>2. CASE UNCHANGED orphaned /\ UNCHANGED lease
    BY <2>1, <2>2 DEF TrafficInv, OrphansAreStopped, TypeOK
  <2>3. CASE Withdrawn
    BY <2>1, <2>3 DEF TrafficInv, OrphansAreStopped, TypeOK, Withdrawn
  <2> QED BY <2>2, <2>3
<1>10. WaitersAreServed'
  <2> SUFFICES ASSUME NEW q \in Requests, inv'[q].pc \in {"retry", "durable"}
               PROVE  /\ state'[Runner[q]][inv'[q].gen].quarantined
                      /\ state'[Runner[q]][inv'[q].gen].durable \in {"read", "write"}
    BY DEF WaitersAreServed, Here
  <2>1. inv'[q] = inv[q] /\ inv[q].gen \in Generations /\ (Runner[q] # p \/ inv[q].gen # g)
    BY <1>3 DEF TrafficInv, InvocationsHaveGenerations
  <2>2. state'[Runner[q]][inv[q].gen] = state[Runner[q]][inv[q].gen]
    BY <1>1, <2>1, RunnersAreProcesses
  <2> QED BY <2>1, <2>2 DEF TrafficInv, WaitersAreServed, Here
<1> QED BY <1>4, <1>5, <1>6, <1>7, <1>8, <1>9, <1>10 DEF TrafficInv

LEMMA InvReadForQuarantine ==
    ASSUME TrafficInv, NEW p \in Processes, NEW g \in Generations, ReadForQuarantine(p, g)
    PROVE  TrafficInv'
<1>1. CASE active = g
  <2>1. /\ state[p][g].durable = "read" /\ state' = [state EXCEPT ![p][g].durable = "write", ![p][g].seen = revision]
        /\ UNCHANGED <<inv, pointer, lease, floor, authority, restarts, decision, condemned, orphaned, overtaken>>
    BY <1>1 DEF ReadForQuarantine
  <2>2. /\ state[p][g] \in GenerationStates /\ state \in [Processes -> [Generations -> GenerationStates]]
        /\ revision \in Nat /\ inv \in [Requests -> Invocations] /\ floor \in [Processes -> Nat]
        /\ condemned \subseteq Generations
        /\ \A q \in Processes : floor[q] <= floor[q]
    BY DEF TrafficInv, TypeOK
  <2>3. PICK s : s = [state[p][g] EXCEPT !.durable = "write", !.seen = revision]
    OBVIOUS
  <2>4. s \in GenerationStates /\ s.quarantined = state[p][g].quarantined /\ s.durable = "write"
    BY <2>2, <2>3 DEF GenerationStates
  <2>5. state' = [state EXCEPT ![p][g] = s]
    BY <2>1, <2>2, <2>3
  <2>6. state[p][g].quarantined /\ g \in condemned' /\ condemned \subseteq condemned'
    BY <2>1 DEF TrafficInv, FaultsAreCondemned
  <2>7. /\ state' \in [Processes -> [Generations -> GenerationStates]] /\ StatesWorsen /\ DurablesStay
    BY ONLY TrafficInv, p \in Processes, g \in Generations, <2>4, <2>5, <2>6, OneState
  <2>8. \A q \in overtaken : q \in Requests /\ inv[q].pc # "running"
    BY DEF TrafficInv, TypeOK, OvertakenIsKnown
  <2> QED BY <2>1, <2>2, <2>7, <2>8, CancelStep
<1>2. CASE active # g
  <2>1. /\ state[p][g].durable # "none" /\ Settled(p, g)
        /\ WaitersLeft(p, g, "done") \/ WaitersLeft(p, g, "none")
        /\ UNCHANGED <<pointer, lease, floor, authority, restarts, decision, condemned, orphaned, overtaken>>
    BY <1>2 DEF ReadForQuarantine
  <2> QED BY <2>1, SettledStep
<1> QED BY <1>1, <1>2

LEMMA InvWriteQuarantine ==
    ASSUME TrafficInv, NEW p \in Processes, NEW g \in Generations, WriteQuarantine(p, g)
    PROVE  TrafficInv'
<1>1. /\ state[p][g].durable # "none" /\ Settled(p, g)
      /\ UNCHANGED <<floor, authority, restarts, decision, condemned, overtaken>>
  BY DEF WriteQuarantine
<1>2. \/ active = g /\ Quarantine /\ Withdrawn /\ WaitersLeft(p, g, "done")
      \/ WaitersLeft(p, g, "none") /\ UNCHANGED <<pointer, lease, orphaned>>
  BY DEF WriteQuarantine, MayQuarantine
<1> QED BY <1>1, <1>2, SettledStep

-----------------------------------------------------------------------------
(* Steps of the row, its leases and the reconciler. *)

LEMMA RowStep ==
    ASSUME TrafficInv, UNCHANGED <<inv, state, floor, restarts, overtaken>>,
           revision' \in Nat, active' \in Generations \cup {0}, authority' \in Nat,
           decision' \in [gen : Generations \cup {0}, seen : Nat],
           condemned \subseteq condemned', condemned' \subseteq Generations,
           decision' # NoDecision => decision'.gen \in condemned',
           quarantined' \in {0, quarantined} \/ quarantined' \in condemned',
           \/ /\ active' = 0 => active = 0
              /\ \A r \in Requests : lease'[r] \in {0, lease[r]}
              /\ lease' \in [Requests -> Generations \cup {0}]
              /\ UNCHANGED orphaned
           \/ Withdrawn
    PROVE  TrafficInv'
<1> USE DEF TrafficInv
<1>1. /\ lease' \in [Requests -> Generations \cup {0}] /\ orphaned' \subseteq Requests
      /\ active' = 0 => \A r \in Requests : lease'[r] = 0
      /\ quarantined' \in Generations \cup {0} /\ (quarantined' # 0 => quarantined' \in condemned')
  BY DEF TypeOK, Withdrawn, WithdrawnHoldsNothing
<1>2. TypeOK' /\ WithdrawnHoldsNothing'
  BY <1>1 DEF TypeOK, WithdrawnHoldsNothing
<1>3. InvocationsHaveGenerations' /\ OvertakenIsKnown' /\ WaitersAreServed'
  BY DEF InvocationsHaveGenerations, OvertakenIsKnown, WaitersAreServed, Revoked, Here
<1>4. FaultsAreCondemned'
  BY DEF FaultsAreCondemned
<1>5. OrphansAreStopped'
  <2>1. CASE Withdrawn
    BY <2>1 DEF OrphansAreStopped, Withdrawn, TypeOK
  <2>2. CASE UNCHANGED orphaned /\ \A r \in Requests : lease'[r] \in {0, lease[r]}
    BY <2>2 DEF OrphansAreStopped, TypeOK
  <2> QED BY <2>1, <2>2
<1> QED BY <1>2, <1>3, <1>4, <1>5

LEMMA InvRow ==
    ASSUME TrafficInv,
           \/ Decide \/ QuarantineDecided \/ LifecycleMoves \/ AuthorityAdvances
           \/ \E r \in Requests : LeaseExpires(r)
    PROVE  TrafficInv'
<1>1. /\ revision \in Nat /\ active \in Generations \cup {0} /\ quarantined \in Generations \cup {0}
      /\ lease \in [Requests -> Generations \cup {0}] /\ authority \in Nat /\ condemned \subseteq Generations
      /\ decision \in [gen : Generations \cup {0}, seen : Nat]
      /\ (decision # NoDecision => decision.gen \in condemned)
  BY DEF TrafficInv, TypeOK, FaultsAreCondemned
<1>2. CASE Decide
  <2>1. /\ decision' \in [gen : Generations \cup {0}, seen : Nat] /\ decision'.gen = active
        /\ active \in condemned' /\ condemned' \subseteq Generations /\ condemned \subseteq condemned'
        /\ UNCHANGED <<revision, active, quarantined, lease, inv, state, floor, authority, restarts, orphaned, overtaken>>
        /\ active' # 0
    BY <1>1, <1>2 DEF Decide, pointer
  <2> QED BY <1>1, <2>1, RowStep
<1>3. CASE QuarantineDecided
  <2>1. /\ decision' = NoDecision /\ UNCHANGED <<inv, state, floor, authority, restarts, condemned, overtaken>>
        /\ \/ UNCHANGED <<revision, active, quarantined, lease, orphaned>>
           \/ /\ Withdrawn /\ active = decision.gen /\ decision # NoDecision
              /\ revision' = revision + 1 /\ active' = 0 /\ quarantined' = active
    BY <1>3 DEF QuarantineDecided, MayQuarantine, Quarantine, pointer
  <2> QED BY <1>1, <2>1, RowStep, Blanks
<1>4. CASE LifecycleMoves
  <2>1. UNCHANGED <<inv, state, floor, authority, restarts, decision, condemned, overtaken>> /\ revision' = revision + 1
    BY <1>4 DEF LifecycleMoves, Touch, Activate, Withdraw
  <2>2. \/ UNCHANGED <<active, quarantined, lease, orphaned>>
        \/ active' \in Generations /\ quarantined' = 0 /\ UNCHANGED <<lease, orphaned>>
        \/ Withdrawn /\ active' = 0 /\ quarantined' = 0
    BY <1>4 DEF LifecycleMoves, Touch, Activate, Withdraw
  <2>3. 0 \notin Generations
    BY GenerationsAssumption
  <2> QED BY <1>1, <2>1, <2>2, <2>3, RowStep
<1>5. CASE AuthorityAdvances
  <2>1. /\ authority' \in Nat
        /\ UNCHANGED <<revision, active, quarantined, lease, inv, state, floor, restarts, decision, condemned, orphaned, overtaken>>
    BY <1>1, <1>5 DEF AuthorityAdvances, pointer
  <2> QED BY <1>1, <2>1, RowStep
<1>6. ASSUME NEW r \in Requests, LeaseExpires(r)
      PROVE  TrafficInv'
  <2>1. /\ lease' \in [Requests -> Generations \cup {0}] /\ \A q \in Requests : lease'[q] \in {0, lease[q]}
        /\ UNCHANGED <<revision, active, quarantined, inv, state, floor, authority, restarts, decision, condemned, orphaned, overtaken>>
    BY <1>1, <1>6 DEF LeaseExpires, pointer
  <2> QED BY <1>1, <2>1, RowStep
<1> QED BY <1>2, <1>3, <1>4, <1>5, <1>6

LEMMA InvRestart ==
    ASSUME TrafficInv, NEW p \in Processes, Restart(p)
    PROVE  TrafficInv'
<1> USE DEF TrafficInv
<1>1. /\ restarts' = restarts + 1
      /\ state' = [state EXCEPT ![p] = [g \in Generations |-> Fresh]]
      /\ floor' = [floor EXCEPT ![p] = 0]
      /\ orphaned' = {r \in orphaned : Runner[r] # p}
      /\ overtaken' = {r \in overtaken : Runner[r] # p}
      /\ UNCHANGED <<pointer, lease, authority, decision, condemned>>
  BY DEF Restart
<1>2. /\ inv' \in [Requests -> Invocations]
      /\ \A q \in Requests :
            \/ inv'[q] = inv[q] /\ (Runner[q] # p \/ inv[q].pc = "idle")
            \/ inv'[q].pc = "done" /\ Runner[q] = p
  <2>1. inv' = [r \in Requests |-> IF Runner[r] = p /\ ~At(r, "idle") THEN Done ELSE inv[r]]
    BY DEF Restart
  <2>2. inv \in [Requests -> Invocations]
    BY DEF TypeOK
  <2> QED BY <2>1, <2>2, Blanks DEF At
<1>3. /\ state' \in [Processes -> [Generations -> GenerationStates]]
      /\ \A q \in Processes \ {p} : state'[q] = state[q]
      /\ \A g \in Generations : state'[p][g] = Fresh
  BY <1>1, Blanks DEF TypeOK
<1>4. TypeOK'
  BY <1>1, <1>2, <1>3 DEF TypeOK, pointer
<1>5. WithdrawnHoldsNothing'
  BY <1>1 DEF WithdrawnHoldsNothing, pointer
<1>6. InvocationsHaveGenerations'
  BY <1>2 DEF InvocationsHaveGenerations
<1>7. FaultsAreCondemned'
  BY <1>1, <1>3 DEF FaultsAreCondemned, Fresh
<1>8. \A q \in Requests : inv'[q].pc \notin {"idle", "done"} =>
          inv'[q] = inv[q] /\ Here(q)' = Here(q)
  BY <1>2, <1>3, RunnersAreProcesses DEF Here
<1>9. WaitersAreServed'
  BY <1>8 DEF WaitersAreServed
<1>10. OrphansAreStopped'
  BY <1>1, <1>2 DEF OrphansAreStopped, TypeOK
<1>11. OvertakenIsKnown'
  <2>1. ASSUME NEW q \in overtaken'
        PROVE  /\ q \in overtaken /\ inv'[q] = inv[q]
               /\ inv[q].pc \in (Inside \ {"running"}) \cup {"release"}
               /\ floor'[Runner[q]] = floor[Runner[q]] /\ Here(q)' = Here(q)
    <3>1. q \in overtaken /\ q \in Requests /\ Runner[q] # p /\ Runner[q] \in Processes
          /\ inv[q].pc \in (Inside \ {"running"}) \cup {"release"}
      BY <1>1, RunnersAreProcesses DEF TypeOK, OvertakenIsKnown
    <3>2. inv'[q] = inv[q] /\ floor'[Runner[q]] = floor[Runner[q]]
      BY <1>1, <1>2, <3>1 DEF TypeOK
    <3>3. Here(q)' = Here(q)
      BY <1>3, <3>1, <3>2 DEF Here
    <3> QED BY <3>1, <3>2, <3>3
  <2> QED BY <2>1 DEF OvertakenIsKnown, Revoked
<1> QED BY <1>4, <1>5, <1>6, <1>7, <1>9, <1>10, <1>11

-----------------------------------------------------------------------------
LEMMA InvNext == TrafficInv /\ [Next]_vars => TrafficInv'
<1> SUFFICES ASSUME TrafficInv, [Next]_vars PROVE TrafficInv'
  OBVIOUS
<1>1. CASE UNCHANGED vars
  BY <1>1 DEF vars, traffic, pointer, TrafficInv, TypeOK, WithdrawnHoldsNothing, InvocationsHaveGenerations,
     FaultsAreCondemned, OrphansAreStopped, OvertakenIsKnown, WaitersAreServed, Revoked, Here
<1>2. ASSUME NEW r \in Requests, Proceeds(r)
      PROVE  TrafficInv'
  BY <1>2, InvReadInventory, InvAcquireLease, InvReread, InvRelease, InvEnter, InvAdmission, InvSettle,
     InvFailTerminally, InvReaped DEF Proceeds
<1>3. ASSUME NEW p \in Processes, NEW g \in Generations, Quarantines(p, g)
      PROVE  TrafficInv'
  BY <1>3, InvReadForQuarantine, InvWriteQuarantine DEF Quarantines
<1>4. ASSUME NEW p \in Processes, Invalidate(p) \/ Restart(p)
      PROVE  TrafficInv'
  BY <1>4, InvInvalidate, InvRestart
<1> QED BY <1>1, <1>2, <1>3, <1>4, InvRow DEF Next

-----------------------------------------------------------------------------
(* The places of a generation in a process. *)

LEMMA HeldIsFinite ==
    \A p, g : IsFiniteSet(Held(p, g)) /\ Cardinality(Held(p, g)) \in Nat
<1> TAKE p, g
<1>1. Held(p, g) \subseteq Requests
  BY DEF Held
<1> QED BY <1>1, TrafficAssumption, FS_Subset, FS_CardinalityType

(* Nobody takes a place or gives one back.                                  *)
LEMMA SamePlaces ==
    ASSUME CounterIsExact,
           \A q \in Requests : inv'[q].pc \in Entered <=> inv[q].pc \in Entered,
           \A q \in Requests : inv[q].pc \in Entered => inv'[q].gen = inv[q].gen,
           \A p \in Processes : \A g \in Generations : state'[p][g].active = state[p][g].active
    PROVE  CounterIsExact'
<1>1. \A p, g : Held(p, g)' = Held(p, g)
  BY DEF Held
<1> QED BY <1>1 DEF CounterIsExact

LEMMA PlaceTaken ==
    ASSUME TrafficInv, CounterIsExact, NEW r \in Requests, ~At(r, "idle"), ~At(r, "done"),
           inv[r].pc \notin Entered, Here(r).active < MaxConcurrency[inv[r].gen],
           Goto(r, "load"), state' = [state EXCEPT ![Runner[r]][inv[r].gen].active = @ + 1]
    PROVE  CounterIsExact'
<1>1. PICK p \in Processes, g \in Generations : p = Runner[r] /\ g = inv[r].gen
  BY UnderWay
<1>2. /\ state \in [Processes -> [Generations -> GenerationStates]] /\ inv \in [Requests -> Invocations]
      /\ state[p][g] \in GenerationStates
  BY DEF TrafficInv, TypeOK
<1>3. state'[p][g].active = state[p][g].active + 1
      /\ \A q \in Processes : \A h \in Generations :
            q # p \/ h # g => state'[q][h].active = state[q][h].active
  BY <1>1, <1>2 DEF GenerationStates
<1>4. /\ inv'[r].pc = "load" /\ inv'[r].gen = g /\ \A q \in Requests \ {r} : inv'[q] = inv[q]
  BY <1>1, <1>2 DEF Goto, Invocations
<1>5. /\ Held(p, g)' = Held(p, g) \cup {r} /\ r \notin Held(p, g)
      /\ \A q \in Processes : \A h \in Generations : q # p \/ h # g => Held(q, h)' = Held(q, h)
  BY <1>1, <1>4 DEF Held, Entered
<1>6. Cardinality(Held(p, g)') = Cardinality(Held(p, g)) + 1
  BY <1>5, HeldIsFinite, FS_AddElement
<1>7. state[p][g].active = Cardinality(Held(p, g)) /\ Cardinality(Held(p, g)) \in Nat
      /\ MaxConcurrency[g] \in Nat /\ state[p][g].active < MaxConcurrency[g]
  BY <1>1, HeldIsFinite, TrafficAssumption DEF Here, CounterIsExact
<1>8. state'[p][g].active = Cardinality(Held(p, g)') /\ state'[p][g].active <= MaxConcurrency[g]
  BY <1>3, <1>6, <1>7
<1>9. \A q \in Processes : \A h \in Generations :
         q # p \/ h # g => state'[q][h].active = state[q][h].active /\ Held(q, h)' = Held(q, h)
  BY <1>3, <1>5
<1> QED BY <1>8, <1>9 DEF CounterIsExact

(* The invocations W leave.                                                 *)
LEMMA PlacesGivenBack ==
    ASSUME TrafficInv, CounterIsExact, NEW p \in Processes, NEW g \in Generations, NEW W,
           W \subseteq Held(p, g),
           \A q \in W : inv'[q].pc \notin Entered,
           \A q \in Requests \ W : inv'[q].pc \in Entered <=> inv[q].pc \in Entered,
           \A q \in Requests \ W : inv[q].pc \in Entered => inv'[q].gen = inv[q].gen,
           state'[p][g].active = state[p][g].active - Cardinality(W),
           \A q \in Processes : \A h \in Generations :
              q # p \/ h # g => state'[q][h].active = state[q][h].active
    PROVE  CounterIsExact'
<1>1. /\ Held(p, g)' = Held(p, g) \ W
      /\ \A q \in Processes : \A h \in Generations : q # p \/ h # g => Held(q, h)' = Held(q, h)
  BY DEF Held
<1>2. IsFiniteSet(W) /\ Cardinality(W) \in Nat /\ W \cap Held(p, g) = W
  BY HeldIsFinite, FS_Subset, FS_CardinalityType
<1>3. Cardinality(Held(p, g)') = Cardinality(Held(p, g)) - Cardinality(W)
  <2>1. Cardinality(Held(p, g) \ W) = Cardinality(Held(p, g)) - Cardinality(Held(p, g) \cap W)
    BY HeldIsFinite, FS_Difference
  <2> QED BY <1>1, <1>2, <2>1
<1>4. /\ state[p][g].active = Cardinality(Held(p, g)) /\ Cardinality(Held(p, g)) \in Nat
      /\ state[p][g].active <= MaxConcurrency[g] /\ MaxConcurrency[g] \in Nat
  BY HeldIsFinite, TrafficAssumption DEF CounterIsExact
<1>5. state'[p][g].active = Cardinality(Held(p, g)') /\ state'[p][g].active <= MaxConcurrency[g]
  BY <1>2, <1>3, <1>4
<1>6. \A q \in Processes : \A h \in Generations :
         q # p \/ h # g => state'[q][h].active = state[q][h].active /\ Held(q, h)' = Held(q, h)
  BY <1>1
<1> QED BY <1>5, <1>6 DEF CounterIsExact

LEMMA PlaceGivenBack ==
    ASSUME TrafficInv, CounterIsExact, NEW r \in Requests, inv[r].pc \in Entered,
           NEW pc \in Stages \ Entered, NEW outcome \in Outcomes, Leave(r, pc, outcome)
    PROVE  CounterIsExact'
<1>1. PICK p \in Processes, g \in Generations : p = Runner[r] /\ g = inv[r].gen
  BY UnderWay DEF At, Entered
<1>2. /\ state \in [Processes -> [Generations -> GenerationStates]] /\ inv \in [Requests -> Invocations]
      /\ state[p][g] \in GenerationStates
  BY DEF TrafficInv, TypeOK
<1>3. state'[p][g].active = state[p][g].active - 1
      /\ \A q \in Processes : \A h \in Generations :
            q # p \/ h # g => state'[q][h].active = state[q][h].active
  BY <1>1, <1>2 DEF Leave, GenerationStates
<1>4. inv'[r].pc = pc /\ \A q \in Requests \ {r} : inv'[q] = inv[q]
  BY <1>1, <1>2 DEF Leave, Invocations
<1>5. {r} \subseteq Held(p, g) /\ Cardinality({r}) = 1
  BY <1>1, FS_Singleton DEF Held
<1> QED BY <1>3, <1>4, <1>5, PlacesGivenBack

LEMMA SamePlace ==
    ASSUME CounterIsExact, NEW r \in Requests,
           \A q \in Requests \ {r} : inv'[q] = inv[q],
           inv'[r].pc \in Entered <=> inv[r].pc \in Entered,
           inv[r].pc \in Entered => inv'[r].gen = inv[r].gen,
           \A p \in Processes : \A g \in Generations : state'[p][g].active = state[p][g].active
    PROVE  CounterIsExact'
BY SamePlaces

LEMMA RetryKeepsPlaces ==
    ASSUME TrafficInv, NEW r \in Requests, ~At(r, "idle"), ~At(r, "done"),
           state' = [state EXCEPT ![Runner[r]][inv[r].gen] = RetryDurable(@)]
    PROVE  \A p \in Processes : \A g \in Generations : state'[p][g].active = state[p][g].active
<1>1. PICK p \in Processes, g \in Generations : p = Runner[r] /\ g = inv[r].gen
  BY UnderWay
<1>2. state \in [Processes -> [Generations -> GenerationStates]] /\ state[p][g] \in GenerationStates
  BY DEF TrafficInv, TypeOK
<1>3. RetryDurable(state[p][g]).active = state[p][g].active
  BY <1>2 DEF RetryDurable, GenerationStates
<1>4. state'[p][g] = RetryDurable(state[p][g])
      /\ \A q \in Processes : \A h \in Generations : q # p \/ h # g => state'[q][h] = state[q][h]
  BY <1>1, <1>2
<1> QED BY <1>3, <1>4

(* An invocation that moves without a place.                                *)
LEMMA CountMoves ==
    ASSUME TrafficInv, CounterIsExact, NEW r \in Requests,
           \/ ReadInventory(r) \/ AcquireLease(r) \/ Reread(r) \/ Release(r) \/ Enter(r) \/ Stopped(r)
    PROVE  CounterIsExact'
<1>1. inv \in [Requests -> Invocations] /\ inv[r] \in Invocations
  BY DEF TrafficInv, TypeOK
<1>2. /\ inv[r].pc \notin Entered /\ \A q \in Requests \ {r} : inv'[q] = inv[q]
  BY <1>1 DEF ReadInventory, AcquireLease, Reread, Release, Enter, Stopped, At, Goto, End, Entered
<1>3. inv'[r].pc \notin Entered
  <2>1. inv'[r].pc \in {"done", "lease", "enter", "reread", "idle", "retry", "admission", "release"}
    <3>1. CASE ReadInventory(r)
      BY <1>1, <3>1, Blanks DEF ReadInventory, Invocations
    <3>2. CASE Reread(r)
      BY <1>1, <3>2, Blanks DEF Reread, NewInvocation
    <3>3. CASE Release(r)
      BY <1>1, <3>3, Blanks DEF Release
    <3>4. CASE AcquireLease(r) \/ Enter(r) \/ Stopped(r)
      BY <1>1, <3>4 DEF AcquireLease, Enter, Stopped, Goto, End, Invocations
    <3> QED BY <3>1, <3>2, <3>3, <3>4
  <2> QED BY <2>1 DEF Entered
<1>4. \A p \in Processes : \A g \in Generations : state'[p][g].active = state[p][g].active
  <2>1. CASE UNCHANGED state
    BY <2>1
  <2>2. CASE Enter(r) /\ ~UNCHANGED state
    <3>1. /\ state' = [state EXCEPT ![Runner[r]][inv[r].gen] = RetryDurable(@)]
          /\ ~At(r, "idle") /\ ~At(r, "done")
      BY <2>2 DEF Enter, At
    <3> QED BY <3>1, RetryKeepsPlaces
  <2> QED BY <2>1, <2>2 DEF ReadInventory, AcquireLease, Reread, Release, Stopped
<1> QED BY <1>2, <1>3, <1>4, SamePlace

(* An invocation that keeps its place.                                      *)
LEMMA KeepsPlace ==
    ASSUME TrafficInv, CounterIsExact, NEW r \in Requests, inv[r].pc \in Entered, NEW pc \in Entered,
           NEW outcome \in Outcomes,
           Goto(r, pc) \/ inv' = [inv EXCEPT ![r].pc = pc, ![r].outcome = outcome],
           \A p \in Processes : \A g \in Generations : state'[p][g].active = state[p][g].active
    PROVE  CounterIsExact'
<1>1. inv \in [Requests -> Invocations] /\ inv[r] \in Invocations
  BY DEF TrafficInv, TypeOK
<1>2. \/ inv'[r] = [inv[r] EXCEPT !.pc = pc]
      \/ inv'[r] = [inv[r] EXCEPT !.pc = pc, !.outcome = outcome]
  BY <1>1 DEF Goto
<1>3. inv'[r].pc = pc /\ inv'[r].gen = inv[r].gen
  BY <1>1, <1>2 DEF Invocations
<1>4. \A q \in Requests \ {r} : inv'[q] = inv[q]
  BY <1>1 DEF Goto
<1> QED BY <1>3, <1>4, SamePlace

LEMMA CountAdmissions ==
    ASSUME TrafficInv, CounterIsExact, NEW r \in Requests,
           \/ FirstAdmission(r) \/ Load(r) \/ LoadFails(r) \/ SecondAdmission(r) \/ StartContainer(r)
           \/ Duplicate(r) \/ \E outcome \in {"ok", "failed", "terminal"} : Settle(r, outcome)
    PROVE  CounterIsExact'
<1>1. /\ "release" \in Stages \ Entered /\ {"ok", "failed", "terminal"} \subseteq Outcomes
      /\ {"load", "admit", "admitted", "running", "reaping"} \subseteq Entered
      /\ "admission" \notin Entered
  BY DEF Stages, Outcomes, Entered
<1>2. inv \in [Requests -> Invocations] /\ inv[r] \in Invocations
      /\ state \in [Processes -> [Generations -> GenerationStates]]
  BY DEF TrafficInv, TypeOK
<1>3. CASE FirstAdmission(r)
  <2>1. inv[r].pc \notin Entered /\ ~At(r, "idle") /\ ~At(r, "done")
    BY <1>1, <1>3 DEF FirstAdmission, At
  <2>2. CASE ~Leased(r) \/ Revoked(r) \/ ~Here(r).accepting \/ Here(r).active >= MaxConcurrency[inv[r].gen]
    <3>1. inv' = [inv EXCEPT ![r].pc = "release", ![r].outcome = "failed"] /\ UNCHANGED state
      BY <1>3, <2>2 DEF FirstAdmission, End
    <3>2. inv'[r].pc = "release" /\ \A q \in Requests \ {r} : inv'[q] = inv[q]
      BY <1>2, <3>1 DEF Invocations
    <3> QED BY <1>1, <2>1, <3>1, <3>2, SamePlace
  <2>3. CASE ~(~Leased(r) \/ Revoked(r) \/ ~Here(r).accepting \/ Here(r).active >= MaxConcurrency[inv[r].gen])
    <3>1. Goto(r, "load") /\ state' = [state EXCEPT ![Runner[r]][inv[r].gen].active = @ + 1]
      BY <1>3, <2>3 DEF FirstAdmission
    <3>2. Here(r).active < MaxConcurrency[inv[r].gen]
      <4>1. Here(r) \in GenerationStates /\ MaxConcurrency[inv[r].gen] \in Nat
        BY <2>1, UnderWay, TrafficAssumption
      <4> QED BY <2>3, <4>1 DEF GenerationStates
    <3> QED BY <2>1, <3>1, <3>2, PlaceTaken
  <2> QED BY <2>2, <2>3
<1>4. CASE ~FirstAdmission(r)
  <2>1. inv[r].pc \in Entered /\ ~At(r, "idle") /\ ~At(r, "done")
    BY <1>4 DEF Load, LoadFails, SecondAdmission, StartContainer, Settle, Duplicate, At, Entered
  <2>2. \/ \E pc \in Stages \ Entered, outcome \in Outcomes : Leave(r, pc, outcome)
        \/ \E pc \in Entered, outcome \in Outcomes :
              /\ Goto(r, pc) \/ inv' = [inv EXCEPT ![r].pc = pc, ![r].outcome = outcome]
              /\ UNCHANGED state
    <3>1. CASE Load(r) \/ LoadFails(r) \/ SecondAdmission(r) \/ StartContainer(r)
      BY <1>1, <3>1 DEF Load, LoadFails, SecondAdmission, StartContainer
    <3>2. CASE \E outcome \in {"ok", "failed", "terminal"} : Settle(r, outcome)
      BY <1>1, <3>2 DEF Settle
    <3>3. CASE Duplicate(r)
      <4>1. /\ inv[r].pc = "reaping" /\ inv[r] \in Invocations /\ UNCHANGED state
            /\ inv' = [inv EXCEPT ![r].outcome = "terminal"]
        BY <1>2, <3>3 DEF Duplicate, At
      <4>2. [inv[r] EXCEPT !.outcome = "terminal"] = [inv[r] EXCEPT !.pc = "reaping", !.outcome = "terminal"]
        BY <4>1 DEF Invocations
      <4>3. inv' = [inv EXCEPT ![r].pc = "reaping", ![r].outcome = "terminal"]
        BY <1>2, <4>1, <4>2
      <4> QED BY <1>1, <4>1, <4>3
    <3> QED BY <1>4, <3>1, <3>2, <3>3
  <2>3. CASE \E pc \in Stages \ Entered, outcome \in Outcomes : Leave(r, pc, outcome)
    BY <2>1, <2>3, PlaceGivenBack
  <2>4. CASE \E pc \in Entered, outcome \in Outcomes :
              /\ Goto(r, pc) \/ inv' = [inv EXCEPT ![r].pc = pc, ![r].outcome = outcome]
              /\ UNCHANGED state
    BY <2>1, <2>4, KeepsPlace
  <2> QED BY <2>2, <2>3, <2>4
<1> QED BY <1>3, <1>4

(* A local quarantine counts out the invocation that caused it, or nobody.  *)
LEMMA CountPublishes ==
    ASSUME TrafficInv, CounterIsExact, NEW r \in Requests, inv[r].pc \in {"running", "reaping"},
           NEW i \in Invocations, i.gen = inv[r].gen, Publish(r, i), NEW s \in GenerationStates,
           state' = [state EXCEPT ![Runner[r]][inv[r].gen] = s],
           \/ i.pc \in {"reaping", "durable"} /\ s.active = Here(r).active
           \/ i.pc = "stopping" /\ s.active = Here(r).active - 1
    PROVE  CounterIsExact'
<1>1. PICK p \in Processes, g \in Generations : p = Runner[r] /\ g = inv[r].gen
  BY UnderWay DEF At
<1>2. inv \in [Requests -> Invocations] /\ state \in [Processes -> [Generations -> GenerationStates]]
  BY DEF TrafficInv, TypeOK
<1>3. \A q \in Requests \ {r} :
         inv'[q].gen = inv[q].gen /\ (inv'[q].pc \in Entered <=> inv[q].pc \in Entered)
  <2> SUFFICES ASSUME NEW q \in Requests \ {r}
               PROVE  inv'[q].gen = inv[q].gen /\ (inv'[q].pc \in Entered <=> inv[q].pc \in Entered)
    OBVIOUS
  <2>1. inv'[q] \in {inv[q], Cancelled(inv[q])} /\ inv[q] \in Invocations
    BY <1>2 DEF Publish, CancelOthers
  <2> QED BY <2>1, CancelledKeeps DEF Entered
<1>4. inv'[r] = i /\ inv[r].pc \in Entered
  BY DEF Publish, CancelOthers, Entered
<1>5. state'[p][g] = s /\ state[p][g] = Here(r)
      /\ \A q \in Processes : \A h \in Generations : q # p \/ h # g => state'[q][h] = state[q][h]
  BY <1>1, <1>2 DEF Here
<1>6. CASE i.pc \in {"reaping", "durable"} /\ s.active = Here(r).active
  <2>1. \A q \in Requests : inv'[q].pc \in Entered <=> inv[q].pc \in Entered
    BY <1>3, <1>4, <1>6 DEF Entered
  <2>2. \A q \in Requests : inv[q].pc \in Entered => inv'[q].gen = inv[q].gen
    BY <1>3, <1>4
  <2>3. \A q \in Processes : \A h \in Generations : state'[q][h].active = state[q][h].active
    BY <1>5, <1>6
  <2> QED BY <2>1, <2>2, <2>3, SamePlaces
<1>7. CASE i.pc = "stopping" /\ s.active = Here(r).active - 1
  <2>1. {r} \subseteq Held(p, g) /\ Cardinality({r}) = 1
    BY <1>1, <1>4, FS_Singleton DEF Held
  <2>2. inv'[r].pc \notin Entered
    BY <1>4, <1>7 DEF Entered
  <2>3. state'[p][g].active = state[p][g].active - Cardinality({r})
        /\ \A q \in Processes : \A h \in Generations :
              q # p \/ h # g => state'[q][h].active = state[q][h].active
    BY <1>5, <1>7, <2>1
  <2> QED BY <1>3, <2>1, <2>2, <2>3, PlacesGivenBack
<1> QED BY <1>6, <1>7

LEMMA CountReaped ==
    ASSUME TrafficInv, CounterIsExact, NEW r \in Requests, NEW removed \in BOOLEAN, Reaped(r, removed)
    PROVE  CounterIsExact'
<1>1. inv[r].pc = "reaping"
  BY DEF Reaped, At
<1>2. CASE inv[r].outcome = "terminal" \/ ~removed
  <2>1. QuarantineGeneration(r)
    BY <1>2 DEF Reaped
  <2>2. PICK i \in Invocations, s \in GenerationStates :
              /\ Publish(r, i) /\ i.gen = inv[r].gen
              /\ state' = [state EXCEPT ![Runner[r]][inv[r].gen] = s]
              /\ \/ i.pc = "stopping" /\ s.active = Here(r).active - 1
                 \/ i.pc = "durable" /\ s.active = Here(r).active
    BY <1>1, <2>1, QuarantineOfGeneration
  <2> QED BY <1>1, <2>2, CountPublishes
<1>3. CASE ~(inv[r].outcome = "terminal" \/ ~removed)
  <2>1. Leave(r, "stopping", "ok") \/ Leave(r, "stopping", "failed")
    BY <1>3 DEF Reaped
  <2>2. "stopping" \in Stages \ Entered /\ {"ok", "failed"} \subseteq Outcomes /\ "reaping" \in Entered
    BY DEF Stages, Outcomes, Entered
  <2> QED BY <1>1, <2>1, <2>2, PlaceGivenBack
<1> QED BY <1>2, <1>3

LEMMA CountCancels ==
    ASSUME TrafficInv, CounterIsExact,
           \/ \E r \in Requests : FailTerminally(r)
           \/ \E p \in Processes : Invalidate(p)
    PROVE  CounterIsExact'
<1>1. inv \in [Requests -> Invocations] /\ state \in [Processes -> [Generations -> GenerationStates]]
  BY DEF TrafficInv, TypeOK
<1>2. \A q \in Requests : inv[q].pc # "running" => Cancelled(inv[q]) = inv[q]
  BY <1>1, CancelledKeeps
<1>3. \A q \in Requests : inv[q].pc = "running" =>
          Cancelled(inv[q]).pc = "reaping" /\ Cancelled(inv[q]).gen = inv[q].gen
  BY <1>1, CancelledKeeps
<1>4. "running" \in Entered /\ "reaping" \in Entered
  BY DEF Entered
<1>5. ASSUME NEW r \in Requests, FailTerminally(r)
      PROVE  CounterIsExact'
  <2>1. /\ inv[r].pc \in {"running", "reaping"} /\ inv[r] \in Invocations
        /\ state' = [state EXCEPT ![Runner[r]][inv[r].gen] = Published(@)]
    BY <1>1, <1>5 DEF FailTerminally
  <2>2. PICK i : i = IF At(r, "running") THEN [inv[r] EXCEPT !.pc = "reaping", !.outcome = "terminal"]
                     ELSE inv[r]
    OBVIOUS
  <2>3. Publish(r, i)
    BY <1>5, <2>2 DEF FailTerminally
  <2>4. i \in Invocations /\ i.pc = "reaping" /\ i.gen = inv[r].gen
    BY <2>1, <2>2 DEF Invocations, Entered, At
  <2>5. Here(r) \in GenerationStates /\ Runner[r] \in Processes /\ inv[r].gen \in Generations
    BY <2>1, UnderWay DEF At
  <2>6. PICK s : s = Published(Here(r))
    OBVIOUS
  <2>7. s \in GenerationStates /\ s.active = Here(r).active
    BY <2>5, <2>6 DEF Published, GenerationStates
  <2>8. state' = [state EXCEPT ![Runner[r]][inv[r].gen] = s]
    BY <1>1, <2>1, <2>5, <2>6 DEF Here
  <2> QED BY <2>1, <2>3, <2>4, <2>7, <2>8, CountPublishes
<1>6. ASSUME NEW p \in Processes, Invalidate(p)
      PROVE  CounterIsExact'
  <2>1. /\ inv' = [r \in Requests |-> IF Runner[r] = p THEN Cancelled(inv[r]) ELSE inv[r]]
        /\ UNCHANGED state
    BY <1>6 DEF Invalidate
  <2>2. \A q \in Requests : inv'[q].pc \in Entered <=> inv[q].pc \in Entered
    BY <1>2, <1>3, <1>4, <2>1
  <2>3. \A q \in Requests : inv[q].pc \in Entered => inv'[q].gen = inv[q].gen
    BY <1>2, <1>3, <2>1
  <2> QED BY <2>1, <2>2, <2>3, SamePlaces
<1> QED BY <1>5, <1>6

LEMMA CountSettled ==
    ASSUME TrafficInv, CounterIsExact, NEW p \in Processes, NEW g \in Generations,
           NEW durable \in {"none", "done"}, WaitersLeft(p, g, durable), Settled(p, g)
    PROVE  CounterIsExact'
<1> DEFINE W == {r \in Requests : Runner[r] = p /\ inv[r].gen = g /\ At(r, "durable")}
<1>1. inv \in [Requests -> Invocations] /\ state \in [Processes -> [Generations -> GenerationStates]]
      /\ state[p][g] \in GenerationStates
  BY DEF TrafficInv, TypeOK
<1>2. W \subseteq Held(p, g)
  BY DEF Held, At, Entered
<1>3. ASSUME NEW q \in Requests
      PROVE  /\ q \in W => inv'[q].pc \notin Entered
             /\ q \notin W => (inv'[q].pc \in Entered <=> inv[q].pc \in Entered)
             /\ inv'[q].gen = inv[q].gen
  <2>1. inv[q] \in Invocations
    BY <1>1
  <2>2. CASE q \in W
    <3>1. inv'[q] = [inv[q] EXCEPT !.pc = "stopping", !.outcome = "failed"]
      BY <2>2 DEF Settled, At
    <3> QED BY <2>1, <2>2, <3>1 DEF Invocations, Entered
  <2>3. CASE q \notin W
    <3>1. \/ inv'[q] = inv[q]
          \/ inv[q].pc = "retry" /\ inv'[q] = [inv[q] EXCEPT !.pc = "release", !.outcome = "failed"]
      BY <2>3 DEF Settled, At
    <3> QED BY <2>1, <2>3, <3>1 DEF Invocations, Entered
  <2> QED BY <2>2, <2>3
<1>4. \A q \in W : inv'[q].pc \notin Entered
  BY <1>3
<1>5. \A q \in Requests \ W : inv'[q].pc \in Entered <=> inv[q].pc \in Entered
  BY <1>3
<1>6. \A q \in Requests \ W : inv[q].pc \in Entered => inv'[q].gen = inv[q].gen
  BY <1>3
<1>7. PICK n : n = state[p][g].active - Cardinality(W)
  OBVIOUS
<1>8. PICK s : s = [state[p][g] EXCEPT !.durable = durable, !.seen = 0, !.active = n]
  OBVIOUS
<1>9. s.active = n
  BY <1>1, <1>8 DEF GenerationStates
<1>10. state' = [state EXCEPT ![p][g] = s]
  <2>1. state' = [state EXCEPT ![p][g].durable = durable, ![p][g].seen = 0, ![p][g].active = n]
    BY <1>7 DEF WaitersLeft
  <2> QED BY <1>1, <1>8, <2>1
<1>11. state'[p][g].active = state[p][g].active - Cardinality(W)
       /\ \A q \in Processes : \A h \in Generations :
            q # p \/ h # g => state'[q][h].active = state[q][h].active
  BY <1>1, <1>7, <1>9, <1>10
<1> HIDE DEF W
<1> QED BY <1>2, <1>4, <1>5, <1>6, <1>11, PlacesGivenBack

LEMMA CountQuarantines ==
    ASSUME TrafficInv, CounterIsExact, NEW p \in Processes, NEW g \in Generations, Quarantines(p, g)
    PROVE  CounterIsExact'
<1>1. CASE Settled(p, g) /\ (WaitersLeft(p, g, "done") \/ WaitersLeft(p, g, "none"))
  BY <1>1, CountSettled
<1>2. CASE state' = [state EXCEPT ![p][g].durable = "write", ![p][g].seen = revision] /\ UNCHANGED inv
  <2>1. state \in [Processes -> [Generations -> GenerationStates]]
    BY DEF TrafficInv, TypeOK
  <2>2. \A q \in Processes : \A h \in Generations : state'[q][h].active = state[q][h].active
    BY <1>2, <2>1 DEF GenerationStates
  <2> QED BY <1>2, <2>2, SamePlaces
<1> QED BY <1>1, <1>2 DEF Quarantines, ReadForQuarantine, WriteQuarantine

LEMMA CountRestart ==
    ASSUME TrafficInv, CounterIsExact, NEW p \in Processes, Restart(p)
    PROVE  CounterIsExact'
<1>1. /\ state' = [state EXCEPT ![p] = [g \in Generations |-> Fresh]]
      /\ inv' = [r \in Requests |-> IF Runner[r] = p /\ ~At(r, "idle") THEN Done ELSE inv[r]]
      /\ state \in [Processes -> [Generations -> GenerationStates]]
  BY DEF Restart, TrafficInv, TypeOK
<1>2. \A q \in Processes \ {p} : \A g \in Generations :
         state'[q][g] = state[q][g] /\ Held(q, g)' = Held(q, g)
  BY <1>1 DEF Held
<1>3. \A g \in Generations : state'[p][g].active = 0 /\ Held(p, g)' = {}
  <2>1. TAKE g \in Generations
  <2>2. state'[p][g] = Fresh
    BY <1>1
  <2>3. \A r \in Requests : Runner[r] = p => inv'[r].pc \in {"idle", "done"}
    BY <1>1, Blanks DEF At
  <2> QED BY <2>2, <2>3 DEF Fresh, Held, Entered
<1>4. Cardinality({}) = 0 /\ \A g \in Generations : MaxConcurrency[g] \in Nat
  BY FS_EmptySet, TrafficAssumption
<1>5. \A g \in Generations : state'[p][g].active = Cardinality(Held(p, g)')
                             /\ state'[p][g].active <= MaxConcurrency[g]
  BY <1>3, <1>4
<1> QED BY <1>2, <1>5 DEF CounterIsExact

LEMMA CountInit == Init => CounterIsExact
<1> SUFFICES ASSUME Init, NEW p \in Processes, NEW g \in Generations
             PROVE  state[p][g].active = Cardinality(Held(p, g)) /\ state[p][g].active <= MaxConcurrency[g]
  BY DEF CounterIsExact
<1>1. state[p][g].active = 0 /\ Held(p, g) = {}
  BY DEF Init, Fresh, Held, NewInvocation, Entered
<1> QED BY <1>1, FS_EmptySet, TrafficAssumption

LEMMA CountNext == TrafficInv /\ CounterIsExact /\ [Next]_vars => CounterIsExact'
<1> SUFFICES ASSUME TrafficInv, CounterIsExact, [Next]_vars PROVE CounterIsExact'
  OBVIOUS
<1>1. CASE UNCHANGED <<inv, state>>
  BY <1>1, SamePlaces
<1>2. ASSUME NEW r \in Requests, Proceeds(r)
      PROVE  CounterIsExact'
  BY <1>2, CountMoves, CountAdmissions, CountReaped, CountCancels DEF Proceeds
<1>3. ASSUME NEW p \in Processes, NEW g \in Generations, Quarantines(p, g)
      PROVE  CounterIsExact'
  BY <1>3, CountQuarantines
<1>4. ASSUME NEW p \in Processes, Invalidate(p) \/ Restart(p)
      PROVE  CounterIsExact'
  BY <1>4, CountCancels, CountRestart
<1>5. CASE \/ Decide \/ QuarantineDecided \/ LifecycleMoves \/ AuthorityAdvances
           \/ \E r \in Requests : LeaseExpires(r)
  <2>1. UNCHANGED <<inv, state>>
    BY <1>5 DEF Decide, QuarantineDecided, LifecycleMoves, AuthorityAdvances, LeaseExpires
  <2> QED BY <1>1, <2>1
<1>6. CASE UNCHANGED vars
  BY <1>1, <1>6 DEF vars, traffic
<1> QED BY <1>2, <1>3, <1>4, <1>5, <1>6 DEF Next

-----------------------------------------------------------------------------
(* The invariant of every behaviour.                                        *)
THEOREM TrafficInvariant == Spec => []TrafficInv
BY InvInit, InvNext, PTL DEF Spec

(* Type correctness of traffic, states and row.                             *)
THEOREM TypeCorrect == Spec => []TypeOK
<1>1. TrafficInv => TypeOK
  BY DEF TrafficInv
<1> QED BY <1>1, TrafficInvariant, PTL

(* An application that was withdrawn holds no lease, what is in quarantine  *)
(* was found at fault (quarantineRuntimeApplication(),                      *)
(* runtime-extension-store.ts), and the second authority.admit() keeps an   *)
(* invocation whose application was withdrawn out of its container.         *)
THEOREM WithdrawalsTakeEffect == Spec => []WithdrawalTakesEffect
<1>1. TrafficInv => RunsWhatWasAdmitted
  BY DEF TrafficInv, RunsWhatWasAdmitted, OrphansAreStopped, InvocationsHaveGenerations, At
<1>2. TrafficInv => WithdrawalTakesEffect
  BY <1>1 DEF TrafficInv, WithdrawalTakesEffect
<1> QED BY <1>2, TrafficInvariant, PTL

(* Whoever takes a place gives it back, however it leaves, and whoever      *)
(* waits for a durable quarantine is served: GenerationState.active of the  *)
(* sandbox supervisor is the number of its invocations under way.           *)
THEOREM PlacesReturn == Spec => []PlacesAreReturned
<1>1. TrafficInv => WaitersAreServed
  BY DEF TrafficInv
<1>2. Init => TrafficInv /\ CounterIsExact
  BY InvInit, CountInit
<1>3. TrafficInv /\ CounterIsExact /\ [Next]_vars => (TrafficInv /\ CounterIsExact)'
  BY InvNext, CountNext
<1>4. TrafficInv /\ CounterIsExact => PlacesAreReturned
  BY <1>1 DEF PlacesAreReturned
<1> QED BY <1>2, <1>3, <1>4, PTL DEF Spec

(* Once the process of an invocation knows better, StartContainer refuses   *)
(* it, the cancellations of invalidateAuthorization() and                   *)
(* publishTerminalQuarantine() reach its container, and the checks after    *)
(* the container and after its stop drop its result.                        *)
THEOREM HandsOver == Spec => []HandsOverCurrent
<1>1. TrafficInv => HandsOverCurrent
  BY DEF TrafficInv, OvertakenIsKnown, HandsOverCurrent, Inside, Entered, At
<1> QED BY <1>1, TrafficInvariant, PTL

=============================================================================
