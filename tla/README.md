# Verification of the K-Nex platform core

TLA+ models, TLC runs and TLAPS proofs for the parts of this repository where a mistake costs
most and a test reaches least: the static blue/green deployment, the lifecycle of extensions and
the traffic on them, the refresh of the catalog that may condemn them, the settings a generation
validates before they take effect, the outboxes and the caches
that follow a revision, the controller that keeps a view in line with its source, and the gateway
that runs tools for agents. Their actors are processes, calls or promises that stall, end and
answer late, and what they promise (who may execute, what may be destroyed, what is delivered,
what is shown, what runs twice) holds only if every transaction and every handler cooperates.

Paths below are relative to `src/`; `payload-adapter/`, `runtime/` and `extension-runner/` stand for
`packages/<name>/src/`.

## 1. Inventory

### 1.1 Components, their state and their operations

**Static deployment store** (`payload-adapter/static-deployment-store.ts`, tables in
`runtime-extension-schema-migrations.ts`). For each application and environment: the deployment
row (revision, active and rollback generation, rollback window, transition checkpoint), the worker
generation fence (generation, token, owner, lease, promotion revision), retirement tombstones,
worker recovery activations, effect claims and the receipt outbox. Every writing method is one
transaction under one advisory lock. *Correct when* pointer, fence, window, tombstones, checkpoint
and receipts agree after any sequence of calls by any callers.

**Deployment supervisor** (`runtime/static-deployment-supervisor.ts`, its process and Docker
boundary in `fixtures/customer-gate-1/static-deployment/deployment-supervisor-process.mjs`). No
durable state; a command (`deploy`, `rollback`, `recover`, `closeRollback`, `restart`) is a
sequence of awaited calls, and `finishPostCommit` reserves, performs and completes the external
steps a committed transition owes. *Correct when*, whatever the interleaving of supervisors, a
crash between two calls or a lost worker, no retirement removes a generation in use, no drain
reaches the worker that executes, one worker at most holds authority, and what was committed is
finished. It does *not* keep every start away from a worker in use: `start()` removes whatever is not
a fresh passive worker, and a stale command may so interrupt the executing one (section 4); which
starts can is part of `DestroysTheRetired`.

**Release worker** (`.../static-deployment/release-worker.mjs`). In memory: mode, fencing token,
authority, heartbeat, executions in flight. *Correct when* it executes under the present token only
and each external effect happens once.

**Extension lifecycle** (`payload-adapter/runtime-extension-store.ts`, `runtime/plugin-manager.ts`).
Rows of extensions, generations and operations, a budget of concurrent operations, a revision of
the inventory. An operation is claimed, planned, resumed, staged, made ready and committed by calls
that hold a lease on it. *Correct when* pointers and rows agree, what was quarantined neither comes
back nor is offered for rollback, and no operation commits on pointers it was not planned on.

**Traffic on extensions** (`runtime/hot-application-runtime.ts`, `extension-runner/index.ts`,
`payload-adapter/runner-quarantine-adapter.ts`). A lease per invocation on the active generation; in
memory, per generation: the invocations in it, a local quarantine and whether the durable one is
written. *Correct when* withdrawn generations run nothing new, places are given back, and an
invocation whose process learns, before the stop of its container is reported, that it is revoked or
its generation in quarantine hands over no result.

**Catalog mirror** (`payload-adapter/catalog-refresh-coordinator.ts`, `catalog-mirror-store.ts`,
`active-extension-security-reconciler.ts`). A checkpoint, a staged and an accepted catalog, refresh
operations with one requirement for each active extension. A refresh is begun, fetched, verified and
staged; then each active extension is judged and cleared or quarantined; then the catalog is
accepted. *Correct when* it is accepted only if all that is active then is cleared by it, and a
refresh that crashed can be finished.

**Settings validation** (`payload-adapter/system-settings-store.ts`,
`settings-validation-coordinator.ts`, `runtime/settings-operation-current-authority.ts`). Documents with a
revision each and one settings revision for the environment; operations with state, lease and the
revisions they expect; receipts. A run of an operation reads the requester's authority, claims it,
awaits the validator of the owning generation, reads the authority again, and promotes or fails it.
*Correct when* no update is lost, nothing is promoted after a revocation or under another's claim,
and every operation ends in a receipt.

**Event outbox** (`payload-adapter/outbox-processor.ts`, its subscriber `outbox-realtime-relay.ts`). A row has
a status, attempts, a claim token with a lease, a stored checkpoint. *Correct when* a call that
outlives its claim changes nothing, nothing is published after its checkpoint, and every event is
settled.

**Authorization outbox and revision consumer** (`payload-adapter/authorization-outbox.ts`,
`runtime/authorization-revision-consumer.ts`). Events of revisions, a worker loop per process, and a
cache that follows the revision by polling and by invalidation, over boundaries it must advance
first. *Correct when* a snapshot is shown only after every boundary applied it, what was learnt is
not unlearnt, one recovery loop runs, and a process that hears nothing converges.

**Source convergence** (`runtime/source-convergence.ts`). The view (snapshot, revision, status, age), a
watermark, the refresh under way, a timer. *Correct when* nothing unauthorized or older is shown, a
ready view has reached the hints it was given, and it converges without any of them.

**Tool gateway** (`runtime/tool-gateway.ts`, `tool-idempotency.ts`, `tool-approval.ts`, `tool-budget.ts`).
In memory: idempotency entries, approvals, counters. *Correct when* an approval lets one call through,
a repetition is not dispatched again, the counters return, nothing is left pending.

Not modelled (reasons in `PROJECT.json` and section 6): the other outboxes and consumers,
`dynamic-generation-runtime.ts` and the capability gateway, action and data-source gateways,
authorization authority, pages, navigation and themes, verified artifacts, migration jobs, static release requests, realtime, composition, contracts, user interface, tooling.

### 1.2 How the modelled components interact

```
 operator commands                               worker effects
        |                                              |
 DeploymentSupervisor  -- /activate, /drain -->  release worker (one per generation)
   (several processes)                                 |
        |  transactions                                |  renew, claim, complete
        +-------------> PostgresStaticDeploymentStore <+
                              |  receipts
                        extension runtime (converges the inventory)

 PluginManager calls --> ExtensionLifecycle --(revision, active, quarantined)--> HotApplicationTraffic
 CatalogRefresh --- judges what is active, quarantines --^                         ^ quarantines its own
                                                                                   | generation
 SettingsValidation --- lets a reserved generation activate --> ExtensionLifecycle

 a change of authorization --> outbox --> RevisionConvergence of every process ----+ (revocation)

 transaction --> k_nex_outbox <-- OutboxProcessor --> realtime topology (at most once, any order)
                                                            |  hints
                    source of truth <-- authorize, fetch -- SourceConvergenceController
```

A supervisor reads the store, acts on Docker, and commits with the revision and token it read; a
committed transition leaves a checkpoint of steps, each reserved under a ticket, performed at a
boundary that reads the store again, and completed. What the lifecycle promises to traffic is a
specification of its own, `GenerationPointer`: `ExtensionLifecycle` implements it (checked and
proved) and `HotApplicationTraffic` is built on it. `SourceConvergence` takes the realtime path as its
environment: any published hint, at any time, any number of times or never.

### 1.3 Hazards

`PROJECT.json` lists each hazard at its line with the properties that cover it. What shaped the
models: authority, a row or an inventory read before an await and used after it; a crash between an
effect and its record; two clocks that judge one deadline; a step or an operation taken over while
its first owner still works; destroying or quarantining the successor of what one meant; a refresh
or a poll that is abandoned and goes on running; a hint that arrives between a read and its answer;
two calls of one key between a lookup and the entry it leads to; a place or a budget that is not
given back on one of many ways out.

## 2. Modules

| module | models | key correspondences |
| --- | --- | --- |
| `StaticDeploymentStore` | the store's transactions | one action per method; `MayX` is its guards in order, `X` its writes |
| `DeploymentSupervisor` | supervisor processes, worker containers, the commands between them | EXTENDS the store; `process[h].pc` is the next awaited call of process `h` |
| `WorkerEffects` | fence renewal, effect claims and completions, `executeEffect`, heartbeats | one action per awaited call of an execution |
| `EffectDelivery` | what the effect protocol promises | an effect happens once and is acknowledged with its result |
| `GenerationPointer` | what the lifecycle promises to traffic | how revision, active generation and quarantine move together |
| `ExtensionLifecycle` | operations of one hot application | one action per transaction; `call[c].pc` is where a `PluginManager` call stands |
| `HotApplicationTraffic` | invocations, sandbox supervisors, leases, both quarantines | EXTENDS `GenerationPointer`; `inv[r].pc` is what an invocation awaits, `state[p][g]` a `GenerationState` |
| `CatalogRefresh` | calls of `refresh()` over the mirror store, and the security reconciler | one action per await; `call[c].pc` is the next one |
| `SettingsValidation` | the settings store, runs of the coordinator, the lifecycle of the owner | one action per transaction or await; `call[c].pc` is the next one of `run()` |
| `RevisionConvergence` | authorization outbox, worker loops, consumers | `worker[p].pc`, `consumer[p].pc` are the awaits of `dispatchNext` and `observe`; `loops` and `timer` the recovery loops of each start |
| `SourceConvergence` | the controller, its source and the clock | `run[r].pc` is the next await of execution `r` of `runRefresh()`; `current` is `refreshPromise` |
| `OutboxProcessor` | calls of `processNextPayloadOutboxEvent` with the relay as subscriber | one action per SQL statement |
| `ToolGateway` | `execute()` and `submitApproval()` over its three in-memory stages | `call[c].pc` is the await, `call[c].handler` the handler that may outlive it |
| `Deployment_proofs` | theorems about `StaticDeploymentStore` and `DeploymentSupervisor` | section 5 |
| `Executions_proofs` | theorems about `WorkerEffects` and `ToolGateway` | section 5 |
| `EventDelivery_proofs` | theorems about `SourceConvergence` and `OutboxProcessor` | section 5 |
| `X_proofs` | theorems about `X`, for each other component | section 5 |
| `MC...` | TLC instances | model values and symmetry |

**StaticDeploymentStore.** The variables are the columns; `converged` is the state of the extension
runtime that the SQL function `k_nex_static_serving_generation` looks at. The advisory lock makes a
method atomic; a throw rolls back, so it is no step. Completed steps are a count (a prefix of the
kind's step list, which is what `checkpoint()` demands). Time is what the guards compare: windows
and reservations are judged by the *calling host's* clock and carry the set of hosts that still see
them live, leases are judged by the database and carry a flag. The callers are unrestricted.

**DeploymentSupervisor.** A process keeps the revision, token, target and ticket it read. A command
to a worker is a message (`wire`); the worker verifies its authority in one step and acts in a later
one. Faults: crash of a process, loss of a container, a lease that lapses, a reservation that
expires under a working process, readiness that fails, the end of the window. A reservation id is a
random UUID, so `Reserve` takes one that no process holds. A drain spares the worker that *executes*
(`DrainSparesExecutor`), not every worker of the active generation: with four hosts a drain that was
verified and then stalled over three transitions can still reach the active generation's worker while
that one holds a token of an earlier promotion. Such a worker executes nothing, and the recovery that
gives it the present token replaces its container, which cuts the drain off.
`start()` is one step (`StartPassive`): what it finds out, the removal and the new container. The
authority that `activateWorker()` and `recoverActiveWorker()` read before it is a step of its own, so
the worker that `ReplaceWorker` replaces may have been activated since. A repeated `bootstrap` finds
its state initialized and starts the worker anew; every supervisor start recovers, the first included;
`restart` takes a generation in use, or `ReleaseGeneration`, which the code names by a literal.
`DestroysTheRetired` speaks of the three ways a container goes: a retirement, a drain, and a
start. For a start it lists when the executing worker may be its victim (`OvertakenStart`,
`Reactivates`, `Reboots`, `LateActivation`, a restart, an ended lease) and says that nothing else
interrupts it.

**WorkerEffects.** The fence row with the time its lease has left, effect rows with the time their
claims have left, and the outside world's record. `Tick` takes a unit from every lease. Deployment is
reduced to what moves the fence (`Transfer`, `Recover`).

**ExtensionLifecycle.** A generation is the number that orders its version. The environment has this
one extension, so the budget is its own. `Swapped` is what a committed activation or rollback does
to the pointers and rows; leases, readiness and rollback windows may end at any point.

**HotApplicationTraffic.** The row moves by any step of `GenerationPointer`. `orphaned` remembers the
invocations whose application was withdrawn before their last admission, `condemned` the generations
found at fault, `decision` a security decision that was taken on a row that may move. A restart
loses the memory of a process. A terminal failure is published (`Publish`: the process knows, the other
invocations of the generation are cancelled) where the code does it: at once after the
acknowledgement, and otherwise when the container is gone (`Reaped`), which also stands for a second
result frame (`Duplicate`) and for a container that could not be removed, whatever the invocation had
come to, a revoked one included. A malformed line after the result publishes too, without the durable quarantine.
`overtaken` remembers the invocations whose process has learnt of a revocation or a quarantine while
they were in `invoke()`; `HandsOverCurrent` is about these, so it does not repeat the checks but fails
when any of them is missing at any await.

**CatalogRefresh.** A catalog is its sequence number; `Condemned` says which generations it does not
clear. A requirement is the generation and row revision its digest is taken of. Extensions and
permissions move under it, calls end anywhere, and the reader may be served any catalog.

**SettingsValidation.** An operation stands for a request with its idempotency key. Its revision is
abstracted to `seen`: whether the row has moved since the call read it. `authority.revision` stands
for the pair of revisions that every transaction compares, and `live` for the lease, as the owners
whose clock has not reached its end. `vouched` remembers which runtime generation was found ready
under the last claim. Runs that overlap, leases that end under their holder, crashes, revocations
and transitions of the owner are what `MaxDisturbances` counts.

**RevisionConvergence.** The authorization and lifecycle revisions are written together, so one
number stands for the pair. An event is handed to one process; a publication that is given up
(`publishWithTimeout`) goes on and settles later. `loops` are the starts whose poll is in flight.

**SourceConvergence.** A signal that finds `current` set starts nothing; a time limit abandons an
execution, which stays in `run` and may answer later. `Lag` says how far behind the source an answer
may be. `heard` and `vouched` are histories: the highest hint handled since authorization was lost,
and what was authorized since.

**OutboxProcessor.** `due` holds the rows whose `available_at` or lease has passed, `ahead` orders
them. A claim token is random per call, so the calling process stands for it. A statement may fail
before or after it took effect. `published` remembers which attempts published.

**ToolGateway.** One tool that writes and asks for approval. `raced[k]` remembers that two calls of
key `k` were past the lookup at once, `dispatched[k]` who was dispatched in its retention. Callers
leave, audits and handlers fail, approvals and retentions end at any point.

## 3. Runs

| run | instance | shows |
| --- | --- | --- |
| `StaticDeploymentStore` | 3 generations, 2 hosts, 2 reservation ids, 3 revisions, 5 tokens | `CheckpointReadable`, `AuthorityIsConsistent`, `RetirementIsOrdered`, `ReservedStepFreezesAuthority`, `NothingGoesBack` under unrestricted callers |
| `DeploymentSupervisor` | 2 generations, 2 processes, 2 commands, 3 tokens, one fault of any of six kinds | `OneAuthorisedWorker`, `DestroysTheRetired` |
| `DeploymentLiveness` | 1 process at a time, 2 commands incl. restart, 2 crashes, stalls or readiness failures | `DeploymentRecovers`; `UsesStore`: the composition drives the store through its transactions only (for any number of processes by the theorem `SupervisorsImplementStore`) |
| `WorkerEffects` | 2 generations, 2 executions of one effect, tokens to 3, 3 attempts, 1 fault | `ClaimWithinAuthority`, `ClaimsAreExclusive`, `DeliveredOnce` (implements `EffectDelivery`), `EffectsFinish` |
| `ExtensionLifecycle` | 2 generations, 3 operations, 2 callers, symmetry | `PointersAreSound`, `BudgetIsExact`, `OperationsTakeTurns`, `MovesPointer` (implements `GenerationPointer`) |
| `HotApplicationTraffic` | 2 invocations in 1 process, 2 generations, 3 row revisions, 1 revocation, 1 restart | `WithdrawalTakesEffect`, `PlacesAreReturned`, `HandsOverCurrent` |
| `CatalogRefresh` | 2 calls, 2 refreshes, 2 extensions of 2 generations, 2 catalogs, 1 disturbance | `MirrorIsSound`, `RefreshSettles` |
| `SettingsValidation` | 2 calls, 2 owners, 2 operations on 2 descriptors (1 immediate), 1 disturbance | `RevisionsFollowReceipts`, `PromotionsAreCurrent`, `OperationsSettle` |
| `RevisionConvergence` | 2 processes, 1 boundary, 2 revisions, 2 attempts, 1 fault | `SnapshotIsApplied`, `OneRecoveryLoop`, `NothingUnlearnt`, `Converges` |
| `SourceConvergence` | 2 executions, 3 revisions, answers up to one behind, 2 disturbances | `InvalidationIsHonoured`, `ReadyCoversHints`, `ShownRevisionNeverRegresses`, `Converges` |
| `OutboxProcessor` | 2 events (one without a message), 2 processes, ceilings 1 and 3, 1 fault | `PublicationIsCounted`, `StaleCallsChangeNothing`, `EventsSettle` |
| `ToolGateway` | 2 calls, 2 keys, 2 inputs, 2 approvals, concurrency 2, 1 record | `ApprovalSpentOnce`, `ConcurrencyIsExact`, `RepeatsAreSafe`, `NothingHangs` |

The larger instances have up to 2.8 million distinct states; every run ends within four minutes.
Several properties are conjunctions of named parts, each with its own comment in the module.
Type invariants are in every module; they are proved where a proof module exists, and no run lists
them.

**Bounds.** `MaxRevision` and `MaxToken` stand for the limits the code has. In the store three
revisions hold promote, reserve and close, or promote, rollback and promote again, and three
generations are the active one, the retained one and one that is rejected. Two hosts, processes or
calls are the two parties of every race here, and two clocks that disagree. Three operations let
two follow one that was given up or committed: update, rollback and an operation between them. Two
invocations at a time are one that fails and one that meets the quarantine; one is bound to the generation
of its UI, the other is not. Two catalogs are one that condemns what the other clears, and two
refreshes are one that holds what is staged and one that is refused. With two boundaries
`RevisionConvergence` has 1.2 million states and holds as well; the run has one boundary, and the
theorem `SnapshotApplied` any set of them. With two disturbances and two values (and symmetry, so
without liveness) the safety properties of `SettingsValidation` hold as well: 727,198 states,
`SettingsDisturbed.cfg`. `MaxCommands`, `MaxFaults`, `MaxDisturbances`,
`MaxRestarts` and the like stop the environment, not the program: what is under way is always
completed. `CatalogRefresh.MaxAttempts` is 2 where the code has 3: a first round and one that
starts again. Deadlock is not checked where the bounds stop the environment or the system may rest.

**Fairness.** A running process and a running worker take their next step, and awaited calls,
statements and promises settle (time limits see to those that do not). Beyond that:
in `DeploymentSupervisor` an idle host runs `recover` again (every supervisor start does,
`deployment-supervisor-process.mjs:748`), the clocks that end reservations and recovery leases
advance, heartbeats fire and the extension runtime converges the inventory. In `WorkerEffects` an
unhealthy worker is recovered, callers ask again for a pending effect, time diverges (strong
fairness on `Tick`: asking a worker for more work cannot stop a clock) and executions do not overlap
one another for ever (`[]<>AtRest`). In `RevisionConvergence` worker loops and polling timers fire and
leases end; no event is owed to any process. In `SourceConvergence` time passes and the timer is
served; no hint, focus or reconnect is owed. In `OutboxProcessor` hosts keep calling and rows become
due; that a publication settles is assumed of the realtime gateway, since the processor sets it no
limit. In `CatalogRefresh` an operator asks again for a refresh that has no receipt yet: nothing in
the code resumes one by itself. In `SettingsValidation` validators answer, the time of a lease
passes, and somebody runs an operation again that no call is under way for (a replay does; nothing
else would). In `ToolGateway` handlers and issuers of approvals answer; that a
caller leaves, or that anything expires, is never owed. Faults are never fair.

## 4. Findings and observations

Four disagreements and limits have a configuration of their own beside the runs, with the property that
TLC finds violated: `tlc -config QuarantineStuck.cfg MCDeploymentSupervisor`,
`tlc -config StaleStart.cfg MCDeploymentSupervisor`,
`tlc -config SettingsOvertaken.cfg MCSettingsValidation` and
`tlc -config SettingsGeneration.cfg MCSettingsValidation`.

**A quarantine promotion cannot complete** (`QuarantineStuck.cfg`, 1 quarantine promotion, no fault;
`QuarantineRecoveryCloses`). The last step of
`promote-retire-previous` writes `JSON.stringify(null)` into the `jsonb` column
(`static-deployment-store.ts:777`). That is the JSON scalar `null`, not SQL `NULL`, and the column's
CHECK (`runtime-extension-schema-migrations.ts:391`) admits NULL or an object. The statement fails;
the step stays reserved for ever, although a test promises that it "closes rollback and retires the
quarantined prior generation under the promotion fence"
(`runtime`'s `tests/static-deployment-supervisor.test.ts:292`).

**A deploy that was overtaken takes the serving worker down** (`StaleStart.cfg`, 2 deploys, no fault;
`ExecutorOutlivesDeploys`). `deploy()` reads state and fence, runs the online migrations, and then
starts its target (`runtime/static-deployment-supervisor.ts:332`) without looking again. If another
supervisor has deployed and activated that generation meanwhile, `start()` finds a worker that is
not passive and removes it (`deployment-supervisor-process.mjs:217`). The commit is refused, the
cleanup spares the generation, and the active one has a passive worker until somebody recovers. The
same replacement happens when two processes hold one live recovery of a worker (a live recovery is
handed to whoever asks) or one works on a step whose reservation has lapsed, and when an operator
repeats `bootstrap`. No store authority is lost: `OneAuthorisedWorker` holds, and
`ActiveWorkerReturns` has the next recovery bring the worker back. A worker also takes the token of an
activation it verified, though another has activated it under a later one since
(`release-worker.mjs:167` to `:203`); it then holds a token that can neither renew nor claim, until
it is recovered.

**An overtaken settings operation never ends** (`SettingsOvertaken.cfg`, no disturbance; `ReplaySettles`).
A promotion compares the settings revision of the whole environment with the one the request expected
(`payload-adapter/system-settings-store.ts:792`). When any other settings write came between, it
throws, the operation stays `validating`, and each later run claims it, validates it and throws
again; while it exists its reserved generation cannot activate
(`authorization-lifecycle-projector.ts:167`). The plan says that failure terminalizes an immutable
receipt and that replay resumes pending work
(`docs/implementation/phase-11-system-settings-and-extension-operations.md:54`). `OperationsSettle`
excepts these, the operations left in `promotion-blocked` by a call that died before it failed
them, which no run can settle either, and those whose owner was withdrawn.

**A candidate is promoted for a runtime generation that did not validate it**
(`SettingsGeneration.cfg`, 1 disturbance; `PromotedAsValidated`). A promotion checks
that the owner has *an* active or staged runtime generation and does not compare it with the claimed one (`system-settings-store.ts:796`). A
compatible update between the validator's answer and the second reauthorization keeps the owner
generation and changes the runtime one; a test is named for promoting "only the exact staged runtime
generation" (`payload-adapter`'s `tests/settings-validation-coordinator.test.ts:54`).

Other disagreements and limits met while modelling:

* *Deployment.* If the promoted worker is not activated before the lease granted by the promotion
  expires, nothing renews it: with the fault `fence-lapse` in `DeploymentLiveness.cfg`
  `ActiveWorkerReturns` is violated, though `docs/implementation/phase-9-dynamic-application-runtime.md:466`
  says such a crash recovers from PostgreSQL authority. A drain whose container is gone throws and
  keeps its reservation; `WorkFinishes` and `ActiveWorkerReturns` name that drain as their exception.
  A rollback that read its authority before the window closed may start the container of the retired
  generation afterwards, while `assertContractCleanup` looks at the window only
  (`static-deployment-store.ts:819`).
* *Tool idempotency.* `claim()` looks its key up (`tool-idempotency.ts:179`) and registers its entry
  (`:208`) with a digest awaited in between (`:191`): two calls with one key that are both past the
  lookup are both dispatched, though `docs/31-agent-tools-and-ai-control-plane.md:255` says that
  repeating an accepted call returns the same logical result. `RepeatsAreSafe` excepts the
  retentions in which that happened.
* *Approvals.* A used approval stays marked as being consumed and is never purged
  (`tool-approval.ts:98`), though `docs/implementation/phase-2a-result.md:45` says approvals are purged after
  expiry so that the store recovers capacity.
* *Extension lifecycle.* Re-enabling a disabled application keeps its rollback columns while the
  disable retired the generation row: the inventory advertises a rollback that `rollbackGeneration()`
  refuses (`docs/19-plugin-lifecycle-and-package-management.md:95`). An operation locks its row and then the
  identity's advisory lock, a claim takes them the other way round; PostgreSQL breaks the cycle by
  failing one of the two.
* *Traffic.* After the last check of an invocation its result still waits for the release of the lease
  (`hot-application-runtime.ts:294`); a revocation or a quarantine that lands there does not stop it, so
  `HandsOverCurrent` ends at the report of the container's stop. A malformed line after the result
  publishes the local quarantine, and the durable one waits for the next invocation that meets it.
  The local quarantine of a process is lost when it restarts before the durable one is
  written; a generation that is installed again under the same id stays locally quarantined;
  `drain()` has no caller in production.
* *Authorization convergence.* An event reaches one process only. An invalidation that joins a poll
  counts as delivered when the poll's snapshot is older; the floor it set makes the next poll catch
  up. After a boundary fails, the redelivery of the same revision is delivered without applying it.
* *Catalog.* A staged refresh that is rejected because the permission was revoked has advanced the
  checkpoint already, so the same catalog is refused as replayed from then on, and security decisions
  fall back to the older accepted one: `readSecuritySnapshot` takes the staged or else the accepted
  catalog, where `docs/implementation/phase-11-system-settings-and-extension-operations.md:74` says admission
  intersects both. A requester that has lost its permission cannot come back to its staged
  refresh (`refresh()` throws at the first reauthorization), and that refresh refuses every other
  one: `RefreshSettles` assumes that the requester keeps its permission.
* *Source convergence.* A ready snapshot resets `minimumRevision` (`source-convergence.ts:172`), and the
  time limit of the next refresh clears the snapshot too: a source that answers from behind is then
  shown as ready below a hint that had been reached, by no more than it lags (`ReadyCoversHints`),
  though `docs/implementation/phase-3-result.md:41` says the timeout keeps the watermark. A reconnect joins
  the refresh under way, which may have read before the connection was lost
  (`source-convergence.ts:108`); the freshness timer makes up for it.

## 5. Proofs

For every value of the constants under the named assumptions (`StoreAssumption`,
`EffectsAssumption`, `SourceAssumption`, `OutboxAssumption`, `GenerationsAssumption` and those of the
modules that use it, ...), each in the module that declares the constants and evaluated by its run:

* `Deployment_proofs`, the store: `InductiveInvariant`, the conjunction `IInv` of the safety
  invariants with the facts that make them inductive (tombstone and window against checkpoint kind,
  a live recovery has no reserved step, tokens of receipts are bounded by the fence). No conjunct is
  inductive alone: that a promotion does not pick up a tombstoned generation needs the window, the
  window needs the checkpoint, the checkpoint's steps need the tombstone. From it `TypeCorrect`,
  `RetirementIsSafe`, `AuthorityIsOrdered`, `CheckpointsStayReadable`, and the action properties
  `ReservationFreezes` and `NeitherAuthorityNorProgressGoesBack`; the latter needs, transaction by
  transaction, what the revision of a checkpoint has to do with that of the deployment.
* `Deployment_proofs`, the supervisors: `SupervisorsImplementStore` shows that each step of a process, a
  message or a worker is a transaction of the store or leaves it alone, so that `IInv` holds of the
  composition too. Every other step is of one of a few kinds (`SupervisorKind`: a process moves on, sends,
  replaces a container; a worker verifies, acts, is demoted or lost), and `SupervisorInvariant` says what
  is left, at each of them, of what was read: no ticket names a token the fence has not issued, and one
  of the current token that activates names the active generation (`TicketsSound`); no two processes
  hold one reservation (`ReservationsApart`); what is being removed for a retirement has its tombstone,
  and once that is completed nothing verified is under way to its generation (`RetirementsInOrder`); a
  verified drain that is still under way finds its worker drained or replaced by the time its step
  counts as done (`DrainsInOrder`). `OneAuthorisedWorker` is inductive only with the first of these: an
  activation may be handled long after it was verified. From it `OneWorkerExecutes`, `TheRetiredAreGone`, `DrainsSpareTheExecutor`,
  `RetirementsSpareTheLive`, `ExecutorYields` and `OnlyTheRetiredAreDestroyed`. `ExecutorYields` (which start
  may interrupt the executing worker) needs that a process about to start a generation on the revision
  and pointers of now starts one that is not active (`StartsAside`). The last one states `DestroysTheRetired` under
  `"restart" \notin Commands`, as in its run. The exception is real: `restart` replaces the worker of the
  generation an operator names, and between a rollback's readiness check and its commit that may be the
  retained one, to which the commit then moves. The other parts of `DestroysTheRetired` are proved without
  that hypothesis, by the four theorems before it.
* `Executions_proofs`, the workers: `EffectsInv` says what an execution at each call knows (a claim of the
  current attempt was taken by this execution; a delivered result is the execution's). From it
  `EffectsTypeCorrect`, `CompletionFollowsDelivery`, `ClaimsStayWithinAuthority`, `ClaimsExclusive`, and
  `EffectsRefineDelivery`: every step is a step of `EffectDelivery` or a stutter.
* `ExtensionLifecycle_proofs`: `LifecycleInv`. At most one operation is unfinished; pointers match rows;
  every condemned generation is older than whatever is active, advertised or planned, which is why
  it cannot come back; the plan and the staged base of the unfinished operation are those of the
  present pointers unless a guard will refuse it. From it `TypeCorrect`, `PointersStaySound`,
  `BudgetStaysExact`, the action property `TurnsAreTaken`, and the refinement `PointerIsMoved` to
  `GenerationPointer`.
* `HotApplicationTraffic_proofs`: `TrafficInv` relates each invocation to its lease, its generation and
  the state of its process: what stops is stopped for a reason, a waiter waits for a quarantine that
  somebody writes, whoever was orphaned does not reach a container, and whoever was overtaken runs in
  none and meets a check that refuses it (`OvertakenIsKnown`). The counter of places is shown
  exact by lemmas on the cardinality of the set of invocations inside, one for each way in or out.
  From it `TypeCorrect`, `WithdrawalsTakeEffect`, `PlacesReturn` and `HandsOver`.
* `RevisionConvergence_proofs`: `ConvergenceInv`. A consumer follows its boundaries, a worker knows the
  event it holds, and the loops and timer of a consumer belong to its lifecycle, one of them being
  live exactly while it runs. From it `SnapshotApplied`, `RecoveryLoopIsOne`, `NothingIsUnlearnt`.
* `EventDelivery_proofs`, the source: `SourceInvariant`. That what is shown was authorized needs that every
  execution past authorization and not aborted was authorized since the last invalidation, which
  needs that at most one execution that is not aborted is alive, and that it is the current one; that
  a cleared view is fetched again needs that an aborted current execution has a reauthorization
  waiting. From it `SourceTypes`, `InvalidationsHonoured`, `RevisionNeverRegresses`, and, for every lag,
  `ReadyReachesHints`, whose further invariant `Watermark` bounds a fetched answer by `minimumRevision`.
* `EventDelivery_proofs`, the outbox: `OutboxInvariant` relates each call to its row: an attempt belongs to one
  call, the call that holds the token holds the last attempt, a call past the publication has
  published. From it `OutboxTypes`, `PublicationCounted`, `DeadLettersExhausted`, `StaleCallsHarmless`.
* `Executions_proofs`, the tool gateway: `GatewayInv`. An entry is owned by a call of its key and input, an approval has
  one user, and a call that was dispatched is its key's only one unless claims raced; `raced` is kept
  while an overlapped claim is not dispatched, without which the next retention would inherit the
  second dispatch. From it `ApprovalsAreSpentOnce`, `RepeatsSafe`, and `ConcurrencyExact` (the counter is the
  cardinality of the calls, handlers and submissions inside).

* `SettingsValidation_proofs`: `SettingsInv`. An unsettled row has no receipt, a call past its
  reauthorization has the permission and one that was told ready was told so under the last claim,
  each unless a guard will refuse it, and the promoted
  receipts number the settings revisions and the revisions of each document. That the numbering has no
  gap and no double is a lemma on cardinality and a bijection that grows by one (`NumberingGrows`). From it
  `UpdatesAreNumbered` and the action properties `SettingsPromotionsAreCurrent` and
  `SettingsReceiptsArePermanent`.
* `CatalogRefresh_proofs`: `CatalogInv`. A refresh records as cleared only what its staged catalog does not
  condemn (`RowsSound`); what carries a receipt has a newer row since (`ReceiptsBehind`), or a generation
  that was withdrawn would count as judged; and what a call has read of the refresh and the inventory
  is no newer than they are, so that the comparison of both revisions before it accepts is enough for
  whatever is active to be among the requirements (`CallsSound`). From it `CatalogTypeCorrect`,
  `MirrorSound` and `WithdrawnHaveMovedOn`.

Every safety invariant, action property and refinement that a run checks is stated by a theorem.
Model-checked only is what must eventually happen (`DeploymentRecovers`, `EffectsFinish`, both
`Converges`, `EventsSettle`, `NothingHangs`, `RefreshSettles`, `OperationsSettle`): reasoning under fairness
is outside the prover. TLC has checked the inductive invariants on the instances of the runs;
a theorem without a property of a run (the inductive invariants, the type invariants,
`CompletionFollowsDelivery`, `DeadLettersExhausted`, `SettingsReceiptsArePermanent`,
`WithdrawnHaveMovedOn` and the parts of `DestroysTheRetired`) states what the others rest on or what no
run lists.

## 6. Not modelled

*Store and supervisor*: evidence parsing and digests, the lifecycle admission read inside `promote`
(taken as valid), the command journal, release requests, online and contract migrations, test-only
failure switches. *Lifecycle*: the static plan of a platform plugin, theme profiles, several
extensions in one budget, evidence, audit and authorization projection rows, the operator API.
*Traffic*: the container protocol beyond its outcomes, output limits, capability calls. *Catalog*:
signatures, expiry and downgrade rules of a catalog, other signers, the artifact store,
`CatalogClient.verify`, which advances the checkpoint without staging and has no production caller.
*Settings*: the transition to `validating`
without a lease (no production caller), the projection of a retained source, several extensions, audit and
outbox rows, effective reads. *Outboxes*: the partition predicate, backoff lengths, the start and stop of a worker, the content of
events. *Source convergence*: subscribers and rendering. *Tools*: rate, burst and run limits,
`prepare()` and the stages that only decide.

Of the repository, the components `PROJECT.json` lists as not modelled. The other outboxes and
consumers are the protocol of `RevisionConvergence` over other tables. The action and data-source
gateways are the tool gateway without approvals and idempotency. Roles, documents, manifests,
generated source text, schemas and user interface, which are most of the lines, are computations
on data with no behaviour over time beyond one optimistic revision: types, schemas and unit tests
speak of them better than a model checker.

## 7. Plan

Done: the modules of section 2, with the theorems of section 5. A later effort would take, in this
order:

1. The refinement of `GenerationPointer` by `HotApplicationTraffic`'s environment and `ExtensionLifecycle` in
   one composition, so that the theorems of both meet; and abstract specifications of a settings
   operation and of a catalog refresh (one verdict each), implemented by the models of section 2.
2. Migration jobs (`runtime/migration-fence.ts`): advisory lock and predecessor comparison of
   concurrent jobs. The data-source cache and its single-flight entries.
3. The authorization authority: revisioned grants against the projection the lifecycle writes.
4. Several extensions in one budget of `ExtensionLifecycle`, and the composition of `CatalogRefresh` with
   it, which now takes the moves of extensions as its environment.
