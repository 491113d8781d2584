--------------------------- MODULE SourceConvergence ---------------------------
(***************************************************************************)
(* SourceConvergenceController (packages/runtime/src/source-convergence.ts) *)
(* and the source it follows.  The controller shows one snapshot of an     *)
(* authoritative source.  Every signal (a revision hint, a reconnect, the  *)
(* window's focus, the freshness timer, an authorization invalidation)     *)
(* leads to refresh(), which joins the refresh under way if there is one.  *)
(* A refresh asks for authorization, then fetches, and both are awaited:   *)
(* any signal may be handled between the two, a refresh that exceeds its   *)
(* time limit is aborted and replaced while it is still running, and hints *)
(* arrive in any order, repeatedly, or never.                              *)
(*                                                                         *)
(* data, revision: both are set and cleared together, so the snapshot is   *)
(* its revision.  Time is counted in ticks; ages stop at FreshAge.         *)
(***************************************************************************)
EXTENDS Naturals, FiniteSets

CONSTANTS
    Runs,             \* executions of runRefresh() alive at one time
    NoRun,            \* no refresh is under way
    Shown,            \* stands for what the view shows, beside the runs
    NoData,           \* the view shows nothing
    MaxRevision,      \* bound on the revisions of the source
    Lag,              \* how many revisions a fetch may be behind the source
    LiveAge,          \* age from which the window's focus revalidates
    FreshAge,         \* the interval of the freshness class, and its timer
    Workspace,        \* dependencies.surface is "workspace"
    MaxDisturbances   \* bound on failures and on signals that clear the view

ASSUME SourceAssumption ==
    /\ NoRun \notin Runs
    /\ Shown \notin Runs
    /\ MaxRevision \in Nat
    /\ Lag \in Nat
    /\ NoData \notin Nat
    /\ LiveAge \in Nat
    /\ FreshAge \in Nat \ {0}
    /\ LiveAge <= FreshAge
    /\ Workspace \in BOOLEAN
    /\ MaxDisturbances \in Nat

VARIABLES
    server,        \* the source: its revision, and whether the actor may read it
    hints,         \* invalidations published; a signal may deliver one at any time
    view,          \* stateValue: the snapshot, its status, its age
    floor,         \* minimumRevision
    run,           \* the executions of runRefresh()
    current,       \* the execution behind refreshPromise, or NoRun
    reauthorize,   \* handleAuthorizationInvalidation() waits for refreshPromise
    timer,         \* ticks until the freshness timer fires
    started,       \* between start() and stop()
    disturbances,  \* disturbances so far
    heard,         \* history: the highest hint handled since authorization was lost
    vouched        \* history: what was authorized since the last invalidation

clientVars == <<view, floor, run, current, reauthorize, timer, started>>
sourceVars == <<server, hints, view, floor, run, current, reauthorize, timer, started,
                disturbances, heard, vouched>>

Revisions == 0..MaxRevision

MaxOf(a, b) == IF a >= b THEN a ELSE b

Disturb ==
    /\ disturbances < MaxDisturbances
    /\ disturbances' = disturbances + 1

-----------------------------------------------------------------------------
(* refresh() and the settling of its promise. *)

IdleRun == [pc |-> "idle", aborted |-> FALSE, permitted |-> FALSE, read |-> 0]
NewRun == [IdleRun EXCEPT !.pc = "authorize"]

(* refresh(): the promise under way is shared, else a new execution starts. *)
Refresh(runs) ==
    IF current # NoRun
    THEN run' = runs /\ UNCHANGED current
    ELSE \E r \in Runs :
            /\ runs[r].pc = "idle"
            /\ run' = [runs EXCEPT ![r] = NewRun]
            /\ current' = r

(* An execution returns.  When it is the one behind refreshPromise, a       *)
(* waiting handleAuthorizationInvalidation() starts the next refresh.       *)
Settle(r) ==
    IF r # current
    THEN /\ run' = [run EXCEPT ![r] = IdleRun]
         /\ UNCHANGED <<current, reauthorize>>
    ELSE IF reauthorize
    THEN /\ run' = [run EXCEPT ![r] = NewRun]
         /\ reauthorize' = FALSE
         /\ UNCHANGED current
    ELSE /\ run' = [run EXCEPT ![r] = IdleRun]
         /\ current' = NoRun
         /\ UNCHANGED reauthorize

Cleared(status) == [snapshot |-> NoData, status |-> status, age |-> 0]

-----------------------------------------------------------------------------
(* The signals. *)

(* The timer is armed one tick too late.                                    *)
StartsLate ==
    /\ ~started
    /\ started' = TRUE
    /\ timer' = FreshAge + 1
    /\ Refresh(run)
    /\ UNCHANGED <<server, hints, view, floor, reauthorize, disturbances, heard,
                   vouched>>

Start ==
    /\ ~started
    /\ started' = TRUE
    /\ timer' = FreshAge
    /\ Refresh(run)
    /\ UNCHANGED <<server, hints, view, floor, reauthorize, disturbances, heard,
                   vouched>>

(* initialize(), called on its own.                                         *)
Initialize ==
    /\ Refresh(run)
    /\ UNCHANGED <<server, hints, view, floor, reauthorize, timer, started,
                   disturbances, heard, vouched>>

(* stop() ends the timer and the subscriptions, and leaves a refresh under  *)
(* way.  The handlers are public: a host may also call them itself.         *)
Stop ==
    /\ started
    /\ Disturb
    /\ started' = FALSE
    /\ UNCHANGED <<server, hints, view, floor, run, current, reauthorize, timer,
                   heard, vouched>>

Known(h) == view.snapshot # NoData /\ h <= view.snapshot

(* The last hint is the floor, whatever came before it.                     *)
LowersFloor(h) ==
    /\ ~Known(h)
    /\ floor' = h
    /\ heard' = MaxOf(heard, h)
    /\ view' = [view EXCEPT !.status = "stale"]
    /\ Refresh(run)
    /\ UNCHANGED <<server, hints, reauthorize, timer, started, disturbances,
                   vouched>>

HandleInvalidation(h) ==
    /\ ~Known(h)
    /\ floor' = MaxOf(floor, h)
    /\ heard' = MaxOf(heard, h)
    /\ view' = [view EXCEPT !.status = "stale"]
    /\ Refresh(run)
    /\ UNCHANGED <<server, hints, reauthorize, timer, started, disturbances,
                   vouched>>

HandleReconnect ==
    /\ Disturb
    /\ view' = [view EXCEPT !.status = "stale"]
    /\ Refresh(run)
    /\ UNCHANGED <<server, hints, floor, reauthorize, timer, started, heard, vouched>>

HandleWindowFocus ==
    /\ Workspace
    /\ view.age >= LiveAge
    /\ Refresh(run)
    /\ UNCHANGED <<server, hints, view, floor, reauthorize, timer, started,
                   disturbances, heard, vouched>>

(* The timer revalidates what is still fresh.                               *)
OnlyWhenFresh ==
    /\ started
    /\ timer = 0
    /\ timer' = FreshAge
    /\ IF view.age >= FreshAge THEN UNCHANGED <<run, current>> ELSE Refresh(run)
    /\ UNCHANGED <<server, hints, view, floor, reauthorize, started, disturbances,
                   heard, vouched>>

HandlePeriodicTick ==
    /\ started
    /\ timer = 0
    /\ timer' = FreshAge
    /\ IF view.age < FreshAge THEN UNCHANGED <<run, current>> ELSE Refresh(run)
    /\ UNCHANGED <<server, hints, view, floor, reauthorize, started, disturbances,
                   heard, vouched>>

(* handleAuthorizationInvalidation(): what is shown is cleared at once; the *)
(* refresh under way is aborted and reauthorization follows when it settles. *)
HandleAuthorizationInvalidation ==
    /\ Disturb
    /\ floor' = 0
    /\ heard' = 0
    /\ vouched' = {}
    /\ view' = Cleared("stale")
    /\ IF current = NoRun
       THEN Refresh(run) /\ UNCHANGED reauthorize
       ELSE /\ run' = [run EXCEPT ![current].aborted = TRUE]
            /\ reauthorize' = TRUE
            /\ UNCHANGED current
    /\ UNCHANGED <<server, hints, timer, started>>

-----------------------------------------------------------------------------
(* runRefresh(): each await is a step of its own. *)

(* The promise of authorize() settles with the decision of this moment.     *)
AuthorizeAnswers(r) ==
    /\ run[r].pc = "authorize"
    /\ run' = [run EXCEPT ![r].pc = "authorized", ![r].permitted = server.allowed]
    /\ vouched' = IF run[r].aborted \/ ~server.allowed
                  THEN vouched ELSE vouched \cup {r}
    /\ UNCHANGED <<server, hints, view, floor, current, reauthorize, timer, started,
                   disturbances, heard>>

AuthorizeFails(r) ==
    /\ run[r].pc = "authorize"
    /\ IF run[r].aborted
       THEN UNCHANGED <<view, disturbances, heard>>
       ELSE Disturb /\ view' = Cleared("error") /\ heard' = 0
    /\ Settle(r)
    /\ UNCHANGED <<server, hints, floor, timer, started, vouched>>

(* The answer is looked at only if the refresh was not aborted meanwhile.   *)
AfterAuthorization(r) ==
    /\ run[r].pc = "authorized"
    /\ IF run[r].aborted
       THEN Settle(r) /\ UNCHANGED <<view, floor, heard, vouched>>
       ELSE IF ~run[r].permitted
       THEN /\ view' = Cleared("forbidden")
            /\ floor' = 0
            /\ heard' = 0
            /\ Settle(r)
            /\ UNCHANGED vouched
       ELSE /\ run' = [run EXCEPT ![r].pc = "fetch"]
            /\ UNCHANGED <<view, floor, heard, vouched, current, reauthorize>>
    /\ UNCHANGED <<server, hints, timer, started, disturbances>>

(* The source is read; its answer travels back.  One that is behind the     *)
(* source is a disturbance.                                                 *)
FetchAnswers(r, v) ==
    /\ run[r].pc = "fetch"
    /\ v <= server.revision /\ v + Lag >= server.revision
    /\ IF v = server.revision THEN UNCHANGED disturbances ELSE Disturb
    /\ run' = [run EXCEPT ![r].pc = "fetched", ![r].read = v]
    /\ UNCHANGED <<server, hints, view, floor, current, reauthorize, timer, started,
                   heard, vouched>>

FetchFails(r) ==
    /\ run[r].pc = "fetch"
    /\ IF run[r].aborted
       THEN UNCHANGED <<view, disturbances>>
       ELSE Disturb /\ view' = [view EXCEPT !.status = "error"]
    /\ Settle(r)
    /\ UNCHANGED <<server, hints, floor, timer, started, heard, vouched>>

(* Any snapshot is accepted.                                                *)
NeverRegresses(v) == FALSE

Regresses(v) == view.snapshot # NoData /\ v < view.snapshot

(* The snapshot is shown: ready when it reaches the floor, else stale.      *)
Accept(r) ==
    LET v == run[r].read
        status == IF v < floor THEN "stale" ELSE "ready"
    IN  /\ view' = [snapshot |-> v, status |-> status, age |-> 0]
        /\ floor' = IF status = "ready" THEN 0 ELSE floor
        /\ vouched' = IF r \in vouched THEN vouched \cup {Shown} ELSE vouched \ {Shown}

(* The answer of authorize() is used although the refresh was aborted.      *)
IgnoresAbort(r) ==
    /\ run[r].pc = "fetched"
    /\ IF Regresses(run[r].read)
       THEN /\ view' = [view EXCEPT !.status = "error"]
            /\ UNCHANGED <<floor, vouched>>
       ELSE Accept(r)
    /\ Settle(r)
    /\ UNCHANGED <<server, hints, timer, started, disturbances, heard>>

AfterFetch(r) ==
    /\ run[r].pc = "fetched"
    /\ IF run[r].aborted
       THEN UNCHANGED <<view, floor, vouched>>
       ELSE IF Regresses(run[r].read)
       THEN /\ view' = [view EXCEPT !.status = "error"]
            /\ UNCHANGED <<floor, vouched>>
       ELSE Accept(r)
    /\ Settle(r)
    /\ UNCHANGED <<server, hints, timer, started, disturbances, heard>>

(* refreshTimeoutMs passed: the execution is aborted and abandoned, still   *)
(* running.  Its place in Runs is the bound on executions alive.            *)
RefreshTimesOut ==
    /\ current # NoRun
    /\ Disturb
    /\ view' = Cleared("error")
    /\ LET abandoned == [run EXCEPT ![current].aborted = TRUE]
       IN  \E n \in Runs \ {current} :
              /\ run[n].pc = "idle"
              /\ IF reauthorize
                 THEN /\ run' = [abandoned EXCEPT ![n] = NewRun]
                      /\ current' = n
                 ELSE /\ run' = abandoned
                      /\ current' = NoRun
    /\ reauthorize' = FALSE
    /\ UNCHANGED <<server, hints, floor, timer, started, heard, vouched>>

-----------------------------------------------------------------------------
(* The source and the clock. *)

SourceChanges ==
    /\ server.revision < MaxRevision
    /\ server' = [server EXCEPT !.revision = @ + 1]
    /\ hints' = hints \cup {server.revision + 1}
    /\ UNCHANGED clientVars
    /\ UNCHANGED <<disturbances, heard, vouched>>

PermissionChanges ==
    /\ Disturb
    /\ server' = [server EXCEPT !.allowed = ~@]
    /\ UNCHANGED clientVars
    /\ UNCHANGED <<hints, heard, vouched>>

Tick ==
    /\ started => timer > 0
    /\ timer' = IF started THEN timer - 1 ELSE timer
    /\ view' = [view EXCEPT !.age = IF @ < FreshAge THEN @ + 1 ELSE @]
    /\ UNCHANGED <<server, hints, floor, run, current, reauthorize, started,
                   disturbances, heard, vouched>>

-----------------------------------------------------------------------------
SourceInit ==
    /\ server = [revision |-> 0, allowed |-> TRUE]
    /\ hints = {}
    /\ view = [snapshot |-> NoData, status |-> "idle", age |-> FreshAge]
    /\ floor = 0
    /\ run = [r \in Runs |-> IdleRun]
    /\ current = NoRun
    /\ reauthorize = FALSE
    /\ timer = 0
    /\ started = FALSE
    /\ disturbances = 0
    /\ heard = 0
    /\ vouched = {}

RunStep(r) ==
    \/ AuthorizeAnswers(r)
    \/ AfterAuthorization(r)
    \/ \E v \in Revisions : FetchAnswers(r, v)
    \/ AfterFetch(r)

Signal ==
    \/ Start
    \/ Initialize
    \/ Stop
    \/ \E h \in hints : HandleInvalidation(h)
    \/ HandleReconnect
    \/ HandleWindowFocus
    \/ HandlePeriodicTick
    \/ HandleAuthorizationInvalidation

SourceNext ==
    \/ Signal
    \/ \E r \in Runs : RunStep(r) \/ AuthorizeFails(r) \/ FetchFails(r)
    \/ RefreshTimesOut
    \/ SourceChanges
    \/ PermissionChanges
    \/ Tick

SourceSpec == SourceInit /\ [][SourceNext]_sourceVars

(* Awaited promises settle, time passes and its timer is served.  Nothing   *)
(* forces a hint to be delivered, a signal to be sent or a host to start.   *)
FairSourceSpec ==
    /\ SourceSpec
    /\ \A r \in Runs : WF_sourceVars(RunStep(r))
    /\ WF_sourceVars(Tick)
    /\ WF_sourceVars(HandlePeriodicTick)

-----------------------------------------------------------------------------
Executions ==
    [pc : {"idle", "authorize", "authorized", "fetch", "fetched"}, aborted : BOOLEAN,
     permitted : BOOLEAN, read : Nat]

SourceTypeOK ==
    /\ server \in [revision : Nat, allowed : BOOLEAN]
    /\ hints \subseteq Nat
    /\ view \in [snapshot : Nat \cup {NoData}, age : 0..FreshAge,
                 status : {"idle", "ready", "stale", "forbidden", "error"}]
    /\ floor \in Nat
    /\ run \in [Runs -> Executions]
    /\ current \in Runs \cup {NoRun}
    /\ reauthorize \in BOOLEAN
    /\ timer \in 0..FreshAge
    /\ started \in BOOLEAN
    /\ disturbances \in 0..MaxDisturbances
    /\ heard \in Nat
    /\ vouched \subseteq Runs \cup {Shown}

(* Whatever is shown was authorized by a decision made after the last       *)
(* authorization invalidation: an execution whose authorization is older    *)
(* was aborted by it and returns without showing what it fetched, although  *)
(* it goes on running while the next refresh does.                          *)
ShownDataAuthorized == view.snapshot # NoData => Shown \in vouched

(* A view that says it is ready has reached every hint handled since        *)
(* authorization was last lost, but for the lag of the source, although the *)
(* refresh that a hint asks for is often one whose source was read before   *)
(* the hint: that snapshot is shown as stale and minimumRevision waits for  *)
(* the next.  The lag remains because a watermark reached before a time     *)
(* limit cleared the view is forgotten, and an answer behind it is taken.   *)
ReadyCoversHints ==
    view.status = "ready" => view.snapshot # NoData /\ view.snapshot + Lag >= heard

(* A view cleared or never filled that says it is stale is being fetched:   *)
(* no path leaves it to the next timer, not even an invalidation of the     *)
(* authorization of a refresh that then hangs or fails.                     *)
ClearedViewIsRefetched ==
    view.snapshot = NoData /\ view.status = "stale" =>
        /\ current # NoRun
        /\ run[current].aborted => reauthorize

(* Both sides of an authorization invalidation: nothing older than it is    *)
(* shown, and what it clears is fetched again.                              *)
InvalidationIsHonoured == ShownDataAuthorized /\ ClearedViewIsRefetched

(* What is shown is replaced by a snapshot at least as new, or cleared: an  *)
(* abandoned execution that answers late does not bring an older one back,  *)
(* nor does a source that answers from behind.                              *)
ShownRevisionNeverRegresses ==
    [][view.snapshot # NoData /\ view'.snapshot # NoData
          => view'.snapshot >= view.snapshot]_sourceVars

(* Once the host stays started, the source still and the disturbances are   *)
(* over, the view shows the source's revision, or nothing to an actor who   *)
(* may not read it, even if no hint was ever delivered: the freshness timer *)
(* is enough.                                                               *)
Current ==
    IF server.allowed
    THEN view.status = "ready" /\ view.snapshot = server.revision
    ELSE view.snapshot = NoData

Converges == <>[]started => <>[]Current

=============================================================================
