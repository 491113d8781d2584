-------------------------- MODULE HotApplicationTraffic --------------------------
(***************************************************************************)
(* Invocations of a Hot Application: AuthoritativeHotApplicationRuntime    *)
(* (packages/runtime/src/hot-application-runtime.ts) binds each to the     *)
(* active generation by a lease, the sandbox supervisor of its process     *)
(* (packages/extension-runner/src/index.ts) runs it in a container, and a  *)
(* failing or compromised generation is put in quarantine while others are *)
(* served.  The row of the application moves as GenerationPointer promises.*)
(*                                                                         *)
(* What a process awaits is a step boundary: the program counter of an     *)
(* invocation names what it waits for.  One number stands for the pair of  *)
(* authorization and lifecycle revisions.                                  *)
(***************************************************************************)
EXTENDS GenerationPointer, Integers, FiniteSets

CONSTANTS
    Requests,        \* invocations
    Expected,        \* the generation each was admitted for by the UI, or 0
    Runner,          \* the process each runs in
    MaxConcurrency,  \* limits.maxConcurrency of each generation
    MaxRevision,     \* bound on the moves of the row
    MaxAuthority,    \* bound on the authorization revision
    MaxRestarts      \* bound on the restarts of a process

ASSUME TrafficAssumption ==
    /\ IsFiniteSet(Requests)
    /\ Expected \in [Requests -> Generations \cup {0}]
    /\ MaxConcurrency \in [Generations -> Nat \ {0}]

VARIABLES
    lease,       \* runtime_extension_generation_leases: generation leased to each, or 0
    inv,         \* the invocations
    state,       \* GenerationState of each process and generation
    floor,       \* revocation floor of each process
    authority,   \* current authorization revision
    restarts,
    decision,    \* the security reconciler: the generation it decided on and the revision it read
    condemned,   \* history: generations that failed terminally or were revoked
    orphaned,    \* history: invocations whose application was withdrawn before their last admission
    overtaken    \* history: invocations whose process has learnt, since they entered the sandbox
                 \* supervisor, that their authority is revoked or their generation in quarantine

traffic == <<lease, inv, state, floor, authority, restarts, decision, condemned, orphaned, overtaken>>
vars == <<pointer, traffic>>

Processes == {Runner[r] : r \in Requests}

Fresh == [accepting |-> TRUE, active |-> 0, quarantined |-> FALSE, durable |-> "none", seen |-> 0]

NewInvocation == [pc |-> "idle", gen |-> 0, attempt |-> 0, rev |-> 0, outcome |-> "none"]

(* Nothing of an invocation is read once it has ended.                      *)
Done == [NewInvocation EXCEPT !.pc = "done"]

NoDecision == [gen |-> 0, seen |-> 0]

At(r, pc) == inv[r].pc = pc

Goto(r, pc) == inv' = [inv EXCEPT ![r].pc = pc]

End(r, outcome) == inv' = [inv EXCEPT ![r].pc = "release", ![r].outcome = outcome]

Here(r) == state[Runner[r]][inv[r].gen]

(* Waiting for or running a container, counted in GenerationState.active.   *)
Entered == {"load", "admit", "admitted", "running", "reaping", "durable"}

(* In DockerHotApplicationSandboxSupervisor.invoke().                       *)
Inside == {"enter", "retry", "admission", "stopping"} \cup Entered

-----------------------------------------------------------------------------
(* AuthoritativeHotApplicationRuntime.invokeTrusted(). *)

ReadInventory(r) ==
    /\ At(r, "idle")
    /\ inv' = [inv EXCEPT ![r] =
                 IF active = 0 \/ (Expected[r] # 0 /\ Expected[r] # active)
                 THEN Done
                 ELSE [@ EXCEPT !.pc = "lease", !.gen = active, !.rev = authority]]
    /\ UNCHANGED <<pointer, lease, state, floor, authority, restarts, decision, condemned, orphaned, overtaken>>

(* acquireGenerationLease() of any generation read.                         *)
MayLeaseAny(r) == TRUE

MayLease(r) == active = inv[r].gen

(* An invocation that has its lease counts no attempts any more.            *)
AcquireLease(r) ==
    /\ At(r, "lease")
    /\ IF MayLease(r)
       THEN /\ lease' = [lease EXCEPT ![r] = inv[r].gen]
            /\ inv' = [inv EXCEPT ![r].pc = "enter", ![r].attempt = 0]
       ELSE /\ Goto(r, "reread")
            /\ UNCHANGED lease
    /\ UNCHANGED <<pointer, state, floor, authority, restarts, decision, condemned, orphaned, overtaken>>

(* One more attempt, if it was the generation that changed and no UI        *)
(* expects the one that was read.                                           *)
Retries(r) == Expected[r] = 0 /\ inv[r].attempt = 0 /\ active # inv[r].gen

Reread(r) ==
    /\ At(r, "reread")
    /\ inv' = [inv EXCEPT ![r] =
                 IF Retries(r)
                 THEN [NewInvocation EXCEPT !.attempt = 1]
                 ELSE Done]
    /\ UNCHANGED <<pointer, lease, state, floor, authority, restarts, decision, condemned, orphaned, overtaken>>

Release(r) ==
    /\ At(r, "release")
    /\ lease' = [lease EXCEPT ![r] = 0]
    /\ inv' = [inv EXCEPT ![r] = Done]
    /\ orphaned' = orphaned \ {r} /\ overtaken' = overtaken \ {r}
    /\ UNCHANGED <<pointer, state, floor, authority, restarts, decision, condemned>>

-----------------------------------------------------------------------------
(* DockerHotApplicationSandboxSupervisor.invoke(). *)

Revoked(r) == inv[r].rev < floor[Runner[r]]

Refuses(r) == Revoked(r) \/ Here(r).quarantined \/ ~Here(r).accepting

(* The durable quarantine is tried again by whoever meets the local one.    *)
RetryDurable(s) == IF s.quarantined /\ s.durable = "none" THEN [s EXCEPT !.durable = "read"] ELSE s

Enter(r) ==
    LET p == Runner[r] g == inv[r].gen IN
    /\ At(r, "enter")
    /\ IF Here(r).quarantined
       THEN /\ state' = [state EXCEPT ![p][g] = RetryDurable(@)]
            /\ IF Here(r).durable = "done" THEN End(r, "failed") ELSE Goto(r, "retry")
       ELSE /\ UNCHANGED state
            /\ IF Revoked(r) THEN End(r, "failed") ELSE Goto(r, "admission")
    /\ UNCHANGED <<pointer, lease, floor, authority, restarts, decision, condemned, orphaned, overtaken>>

Leased(r) == lease[r] = inv[r].gen

(* The answer of authority.admit(), and the checks that wait for it.        *)
FirstAdmission(r) ==
    LET p == Runner[r] g == inv[r].gen IN
    /\ At(r, "admission")
    /\ IF ~Leased(r) \/ Revoked(r) \/ ~Here(r).accepting \/ Here(r).active >= MaxConcurrency[g]
       THEN End(r, "failed") /\ UNCHANGED state
       ELSE /\ state' = [state EXCEPT ![p][g].active = @ + 1]
            /\ Goto(r, "load")
    /\ UNCHANGED <<pointer, lease, floor, authority, restarts, decision, condemned, orphaned, overtaken>>

(* An invocation that leaves before it has a container; leaving it is       *)
(* counted whether or not it failed.                                        *)
Leave(r, pc, outcome) ==
    /\ state' = [state EXCEPT ![Runner[r]][inv[r].gen].active = @ - 1]
    /\ inv' = [inv EXCEPT ![r].pc = pc, ![r].outcome = outcome]

Load(r) ==
    /\ At(r, "load")
    /\ IF Refuses(r) THEN Leave(r, "release", "failed")
       ELSE Goto(r, "admit") /\ UNCHANGED state
    /\ UNCHANGED <<pointer, lease, floor, authority, restarts, decision, condemned, orphaned, overtaken>>

LoadFails(r) ==
    /\ At(r, "load")
    /\ Leave(r, "release", "failed")
    /\ UNCHANGED <<pointer, lease, floor, authority, restarts, decision, condemned, orphaned, overtaken>>

SecondAdmission(r) ==
    /\ At(r, "admit")
    /\ IF Leased(r) THEN Goto(r, "admitted") /\ UNCHANGED state
       ELSE Leave(r, "release", "failed")
    /\ UNCHANGED <<pointer, lease, floor, authority, restarts, decision, condemned, orphaned, overtaken>>

StartContainer(r) ==
    /\ At(r, "admitted")
    /\ IF Refuses(r) THEN Leave(r, "release", "failed")
       ELSE Goto(r, "running") /\ UNCHANGED state
    /\ UNCHANGED <<pointer, lease, floor, authority, restarts, decision, condemned, orphaned, overtaken>>

(* The generation as publishTerminalQuarantine() leaves it.                 *)
Published(s) == [s EXCEPT !.quarantined = TRUE, !.accepting = FALSE]

(* cancel() reaches only what has not settled.                              *)
Cancelled(i) == IF i.pc = "running" THEN [i EXCEPT !.pc = "reaping", !.outcome = "failed"] ELSE i

(* Invocation r becomes i and every other one of its generation in this     *)
(* process is cancelled.                                                    *)
CancelOthers(r, i) ==
    [q \in Requests |->
        IF q = r THEN i
        ELSE IF Runner[q] = Runner[r] /\ inv[q].gen = inv[r].gen THEN Cancelled(inv[q])
        ELSE inv[q]]

(* publishTerminalQuarantine(): the process knows.                          *)
Publish(r, i) ==
    /\ inv' = CancelOthers(r, i)
    /\ condemned' = condemned \cup {inv[r].gen}
    /\ overtaken' = overtaken \cup {q \in Requests :
                       Runner[q] = Runner[r] /\ inv[q].gen = inv[r].gen /\ inv[q].pc \in Inside}

(* The container answers, fails without blame on its generation, or fails   *)
(* terminally before it acknowledged the invocation, which invoke() will    *)
(* publish once the container is gone.                                      *)
Settle(r, outcome) ==
    /\ At(r, "running")
    /\ inv' = [inv EXCEPT ![r].pc = "reaping", ![r].outcome = outcome]
    /\ UNCHANGED <<pointer, lease, state, floor, authority, restarts, decision, condemned, orphaned, overtaken>>

(* A second result frame turns the first one into a protocol violation.     *)
Duplicate(r) ==
    /\ At(r, "reaping") /\ inv[r].outcome = "ok"
    /\ inv' = [inv EXCEPT ![r].outcome = "terminal"]
    /\ UNCHANGED <<pointer, lease, state, floor, authority, restarts, decision, condemned, orphaned, overtaken>>

(* A terminal failure after the acknowledgement is published at once: a     *)
(* timeout, a protocol or policy violation, an output over its budget, a    *)
(* container that exits.  Once the invocation has settled, a malformed      *)
(* frame is published too and its own outcome stays.                        *)
FailTerminally(r) ==
    /\ inv[r].pc \in {"running", "reaping"}
    /\ Publish(r, IF At(r, "running") THEN [inv[r] EXCEPT !.pc = "reaping", !.outcome = "terminal"]
                  ELSE inv[r])
    /\ state' = [state EXCEPT ![Runner[r]][inv[r].gen] = Published(@)]
    /\ UNCHANGED <<pointer, lease, floor, authority, restarts, decision, orphaned>>

Accepted(r) == inv[r].outcome = "ok" /\ ~Revoked(r) /\ ~Here(r).quarantined

(* quarantineGeneration(): published now if it was not before, then its     *)
(* durable quarantine is awaited, unless it has succeeded already.          *)
QuarantineGeneration(r) ==
    LET over == Here(r).durable = "done"
        s == RetryDurable(Published(Here(r))) IN
    /\ state' = [state EXCEPT ![Runner[r]][inv[r].gen] =
                   IF over THEN [s EXCEPT !.active = @ - 1] ELSE s]
    /\ Publish(r, [inv[r] EXCEPT !.pc = IF over THEN "stopping" ELSE "durable", !.outcome = "failed"])

(* The container is gone, or could not be removed, which is a terminal      *)
(* failure whatever the invocation came to.  Anything else leaves and       *)
(* reports that the container has stopped.                                  *)
Reaped(r, removed) ==
    /\ At(r, "reaping")
    /\ IF inv[r].outcome = "terminal" \/ ~removed
       THEN QuarantineGeneration(r)
       ELSE /\ Leave(r, "stopping", IF Accepted(r) THEN "ok" ELSE "failed")
            /\ UNCHANGED <<condemned, overtaken>>
    /\ UNCHANGED <<pointer, lease, floor, authority, restarts, decision, orphaned>>

(* The checks before the report alone.                                      *)
StoppedUnchecked(r) ==
    /\ At(r, "stopping")
    /\ \E reported \in BOOLEAN : End(r, IF reported THEN inv[r].outcome ELSE "failed")
    /\ UNCHANGED <<pointer, lease, state, floor, authority, restarts, decision, condemned, orphaned, overtaken>>

(* observationSink.stopped() has answered or failed: the last checks before *)
(* a result is handed over.                                                 *)
Stopped(r) ==
    /\ At(r, "stopping")
    /\ \E reported \in BOOLEAN : End(r, IF Accepted(r) /\ reported THEN "ok" ELSE "failed")
    /\ UNCHANGED <<pointer, lease, state, floor, authority, restarts, decision, condemned, orphaned, overtaken>>

-----------------------------------------------------------------------------
(* The durable quarantine of a local one: RuntimeStoreRunnerQuarantineAdapter. *)

(* Those that wait for it leave, whether or not it succeeded.               *)
Settled(p, g) ==
    inv' = [r \in Requests |->
        IF Runner[r] # p \/ inv[r].gen # g THEN inv[r]
        ELSE IF At(r, "retry") THEN [inv[r] EXCEPT !.pc = "release", !.outcome = "failed"]
        ELSE IF At(r, "durable") THEN [inv[r] EXCEPT !.pc = "stopping", !.outcome = "failed"]
        ELSE inv[r]]

(* The durable quarantine is over and nobody is counted out.                *)
WaitersForgotten(p, g, durable) == state' = [state EXCEPT ![p][g].durable = durable]

(* Counted out as they leave.                                               *)
WaitersLeft(p, g, durable) ==
    state' = [state EXCEPT ![p][g].durable = durable, ![p][g].seen = 0,
                           ![p][g].active = @ - Cardinality({r \in Requests :
                               Runner[r] = p /\ inv[r].gen = g /\ At(r, "durable")})]

ReadForQuarantine(p, g) ==
    /\ state[p][g].durable = "read"
    /\ IF active = g
       THEN /\ state' = [state EXCEPT ![p][g].durable = "write", ![p][g].seen = revision]
            /\ UNCHANGED inv
       ELSE /\ WaitersLeft(p, g, IF quarantined = g THEN "done" ELSE "none")
            /\ Settled(p, g)
    /\ UNCHANGED <<pointer, lease, floor, authority, restarts, decision, condemned, orphaned, overtaken>>

(* A withdrawal or a quarantine takes every lease with it.                  *)
Withdrawn ==
    /\ lease' = [r \in Requests |-> 0]
    /\ orphaned' = orphaned \cup {r \in Requests :
                       inv[r].pc \in {"enter", "admission", "load", "admit"}}

(* The row is as it was when it was read.                                   *)
MayQuarantine(g, seen) == active = g /\ revision = seen

WriteQuarantine(p, g) ==
    /\ state[p][g].durable = "write"
    /\ IF MayQuarantine(g, state[p][g].seen)
       THEN Quarantine /\ Withdrawn /\ WaitersLeft(p, g, "done")
       ELSE WaitersLeft(p, g, "none") /\ UNCHANGED <<pointer, lease, orphaned>>
    /\ Settled(p, g)
    /\ UNCHANGED <<floor, authority, restarts, decision, condemned, overtaken>>

-----------------------------------------------------------------------------
(* ActiveExtensionSecurityReconciler: a decision on the active release, then *)
(* its quarantine; a conflict reads again.                                  *)

Decide ==
    /\ decision = NoDecision /\ active # 0
    /\ decision' = [gen |-> active, seen |-> revision]
    /\ condemned' = condemned \cup {active}
    /\ UNCHANGED <<pointer, lease, inv, state, floor, authority, restarts, orphaned, overtaken>>

QuarantineDecided ==
    /\ decision # NoDecision
    /\ IF MayQuarantine(decision.gen, decision.seen) THEN Quarantine /\ Withdrawn
       ELSE UNCHANGED <<pointer, lease, orphaned>>
    /\ decision' = NoDecision
    /\ UNCHANGED <<inv, state, floor, authority, restarts, condemned, overtaken>>

-----------------------------------------------------------------------------
(* The rest of the system. *)

(* The operations of ExtensionLifecycle; an activation leaves the leases of *)
(* the generation before in place.                                          *)
LifecycleMoves ==
    /\ revision < MaxRevision
    /\ \/ (Touch \/ Activate) /\ UNCHANGED <<lease, orphaned>>
       \/ Withdraw /\ Withdrawn
    /\ UNCHANGED <<inv, state, floor, authority, restarts, decision, condemned, overtaken>>

LeaseExpires(r) ==
    /\ lease[r] # 0
    /\ lease' = [lease EXCEPT ![r] = 0]
    /\ UNCHANGED <<pointer, inv, state, floor, authority, restarts, decision, condemned, orphaned, overtaken>>

AuthorityAdvances ==
    /\ authority < MaxAuthority
    /\ authority' = authority + 1
    /\ UNCHANGED <<pointer, lease, inv, state, floor, restarts, decision, condemned, orphaned, overtaken>>

(* invalidateAuthorization().                                               *)
Invalidate(p) ==
    /\ floor[p] < authority
    /\ floor' = [floor EXCEPT ![p] = authority]
    /\ inv' = [r \in Requests |-> IF Runner[r] = p THEN Cancelled(inv[r]) ELSE inv[r]]
    /\ overtaken' = overtaken \cup {r \in Requests :
                       Runner[r] = p /\ inv[r].rev < authority /\ inv[r].pc \in Inside}
    /\ UNCHANGED <<pointer, lease, state, authority, restarts, decision, condemned, orphaned>>

(* A process restarts: its invocations and all it knew locally are gone,    *)
(* reconcileStartupContainers() kills what was left running.                *)
Restart(p) ==
    /\ restarts < MaxRestarts
    /\ restarts' = restarts + 1
    /\ state' = [state EXCEPT ![p] = [g \in Generations |-> Fresh]]
    /\ floor' = [floor EXCEPT ![p] = 0]
    /\ inv' = [r \in Requests |->
                 IF Runner[r] = p /\ ~At(r, "idle")
                 THEN Done ELSE inv[r]]
    /\ orphaned' = {r \in orphaned : Runner[r] # p}
    /\ overtaken' = {r \in overtaken : Runner[r] # p}
    /\ UNCHANGED <<pointer, lease, authority, decision, condemned>>

-----------------------------------------------------------------------------
Init ==
    /\ PointerInit
    /\ lease = [r \in Requests |-> 0]
    /\ inv = [r \in Requests |-> NewInvocation]
    /\ state = [p \in Processes |-> [g \in Generations |-> Fresh]]
    /\ floor = [p \in Processes |-> 0]
    /\ authority = 0 /\ restarts = 0
    /\ decision = NoDecision
    /\ condemned = {} /\ orphaned = {} /\ overtaken = {}

Proceeds(r) ==
    \/ ReadInventory(r) \/ AcquireLease(r) \/ Reread(r) \/ Release(r)
    \/ Enter(r) \/ FirstAdmission(r) \/ Load(r) \/ LoadFails(r) \/ SecondAdmission(r) \/ StartContainer(r)
    \/ \E outcome \in {"ok", "failed", "terminal"} : Settle(r, outcome)
    \/ Duplicate(r) \/ FailTerminally(r) \/ Stopped(r)
    \/ \E removed \in BOOLEAN : Reaped(r, removed)

Quarantines(p, g) == ReadForQuarantine(p, g) \/ WriteQuarantine(p, g)

Next ==
    \/ \E r \in Requests : Proceeds(r) \/ LeaseExpires(r)
    \/ \E p \in Processes : Invalidate(p) \/ Restart(p) \/ \E g \in Generations : Quarantines(p, g)
    \/ Decide \/ QuarantineDecided
    \/ LifecycleMoves \/ AuthorityAdvances

Spec == Init /\ [][Next]_vars

-----------------------------------------------------------------------------
Invocations ==
    [pc : {"idle", "lease", "reread", "enter", "retry", "admission", "stopping", "release", "done"}
              \cup Entered,
     gen : Generations \cup {0}, attempt : {0, 1}, rev : Nat,
     outcome : {"none", "ok", "failed", "terminal"}]

GenerationStates == [accepting : BOOLEAN, active : Int, quarantined : BOOLEAN,
                     durable : {"none", "read", "write", "done"}, seen : Nat]

TypeOK ==
    /\ revision \in Nat /\ active \in Generations \cup {0} /\ quarantined \in Generations \cup {0}
    /\ lease \in [Requests -> Generations \cup {0}]
    /\ inv \in [Requests -> Invocations]
    /\ state \in [Processes -> [Generations -> GenerationStates]]
    /\ floor \in [Processes -> Nat]
    /\ authority \in Nat /\ restarts \in Nat
    /\ decision \in [gen : Generations \cup {0}, seen : Nat]
    /\ condemned \subseteq Generations /\ orphaned \subseteq Requests /\ overtaken \subseteq Requests

(* An application that was disabled, uninstalled or quarantined holds no    *)
(* lease, and a quarantine holds a generation that was found at fault, not  *)
(* one that took its place while the quarantine was on its way.             *)
WithdrawnHoldsNothing ==
    /\ active = 0 => \A r \in Requests : lease[r] = 0
    /\ quarantined # 0 => quarantined \in condemned

(* No container runs for an invocation whose application was withdrawn      *)
(* before its last admission, whatever happened to the row since, nor one   *)
(* of another generation than its UI was admitted for.                      *)
RunsWhatWasAdmitted ==
    \A r \in Requests : At(r, "running") =>
        /\ r \notin orphaned
        /\ Expected[r] \in {0, inv[r].gen}

(* Traffic follows what was withdrawn, and what was withdrawn was at fault. *)
WithdrawalTakesEffect == WithdrawnHoldsNothing /\ RunsWhatWasAdmitted

(* The invocations that hold a place of generation g in process p.          *)
Held(p, g) == {r \in Requests : Runner[r] = p /\ inv[r].gen = g /\ inv[r].pc \in Entered}

(* However invocations leave - refused, failed, cancelled, waiting for the  *)
(* durable quarantine - the counter is exact, so no place is lost for good  *)
(* and no more than maxConcurrency run at once.                             *)
CounterIsExact ==
    \A p \in Processes : \A g \in Generations :
        /\ state[p][g].active = Cardinality(Held(p, g))
        /\ state[p][g].active <= MaxConcurrency[g]

(* Once a process has learnt that the authority of an invocation in its     *)
(* sandbox supervisor is revoked, or has quarantined its generation, at     *)
(* whichever await up to the report of the container's stop, a container of *)
(* that invocation is at most being stopped and no result of it is handed   *)
(* over.  (Of what lands while the lease is released after that, at         *)
(* "release", nothing in the code takes notice.)                            *)
HandsOverCurrent ==
    \A r \in overtaken : ~At(r, "running") /\ ~(At(r, "release") /\ inv[r].outcome = "ok")

(* Nobody waits in vain: whoever met a local quarantine, or caused it, has a *)
(* durable one under way to wait for, started by itself or by another.      *)
WaitersAreServed ==
    \A r \in Requests : inv[r].pc \in {"retry", "durable"} =>
        Here(r).quarantined /\ Here(r).durable \in {"read", "write"}

(* Every place taken is given back. *)
PlacesAreReturned == CounterIsExact /\ WaitersAreServed

=============================================================================
