--------------------------- MODULE EventDelivery_proofs ---------------------------
(***************************************************************************)
(* Proofs about the two ends of an event's way to what a user sees: the    *)
(* source a page converges to (SourceConvergence) and the outbox that      *)
(* publishes events (OutboxProcessor).                                     *)
(*                                                                         *)
(* SourceConvergence, for every number of executions alive, every bound    *)
(* and every lag: what is shown was authorized, a cleared view is being    *)
(* refetched, the shown revision does not go back and, of a source that    *)
(* does not lag, a ready view has reached every hint.  The first part of   *)
(* SourceInv, the inductive invariant, is structural: at most one          *)
(* execution is not aborted, it is the one behind refreshPromise, that one *)
(* is running, and it is aborted exactly while a reauthorization waits for *)
(* it.  Only such an execution writes, so what it was authorized by is     *)
(* still good when it does.                                                *)
(*                                                                         *)
(* OutboxProcessor, for any events, callers, ceilings and faults:          *)
(* OutboxInv, the inductive invariant, is what a call that works on an     *)
(* event knows.  Attempts are handed out once, so two calls never share    *)
(* one; the holder of a claim has the latest; and a call that has not seen *)
(* the checkpoint that is stored is no later than the one that stored it.  *)
(***************************************************************************)
EXTENDS SourceConvergence, OutboxProcessor, TLAPS

-----------------------------------------------------------------------------
(* The source a page converges to. *)

(* At most one execution can still write: the one behind refreshPromise.    *)
OneLiveRun == \A r \in Runs : run[r].pc # "idle" /\ ~run[r].aborted => r = current

CurrentRuns == current # NoRun => run[current].pc # "idle"

AbortedMeansReauthorize ==
    reauthorize <=> (current # NoRun /\ run[current].aborted)

Granted(r) ==
    \/ run[r].pc = "authorized" /\ run[r].permitted
    \/ run[r].pc \in {"fetch", "fetched"}

(* An execution that may write was authorized since the last invalidation.  *)
LiveRunsVouched ==
    \A r \in Runs : ~run[r].aborted /\ Granted(r) => r \in vouched

SourceInv ==
    /\ SourceTypeOK
    /\ OneLiveRun
    /\ CurrentRuns
    /\ AbortedMeansReauthorize
    /\ LiveRunsVouched
    /\ ShownDataAuthorized
    /\ ClearedViewIsRefetched

-----------------------------------------------------------------------------
(* An execution starts as one that has nothing to write yet.                *)
LEMMA RunRecords == IdleRun \in Executions /\ NewRun \in Executions
BY DEF IdleRun, NewRun, Executions

(* refresh() keeps the structure: it shares the promise under way or starts *)
(* an execution from an idle place.                                         *)
LEMMA RefreshKeeps ==
    ASSUME SourceInv, Refresh(run)
    PROVE  /\ run' \in [Runs -> Executions]
           /\ current' \in Runs
           /\ run'[current'].pc # "idle"
           /\ \A r \in Runs : run'[r].pc # "idle" /\ ~run'[r].aborted => r = current'
           /\ run'[current'].aborted <=> current # NoRun /\ run[current].aborted
           /\ \A r \in Runs : run'[r] = run[r] \/ run'[r] = NewRun
<1>1. CASE current # NoRun
  BY <1>1 DEF Refresh, SourceInv, SourceTypeOK, OneLiveRun, CurrentRuns
<1>2. CASE current = NoRun
  <2>1. PICK r \in Runs : /\ run[r].pc = "idle"
                          /\ run' = [run EXCEPT ![r] = NewRun]
                          /\ current' = r
    BY <1>2 DEF Refresh
  <2>2. run'[r] = NewRun /\ \A x \in Runs \ {r} : run'[x] = run[x]
    BY <2>1 DEF SourceInv, SourceTypeOK
  <2>3. NewRun.pc = "authorize" /\ ~NewRun.aborted
    BY DEF NewRun, IdleRun
  <2>4. \A x \in Runs \ {r} : run[x].pc = "idle" \/ run[x].aborted
    BY <1>2, SourceAssumption DEF SourceInv, OneLiveRun
  <2> QED
    BY <1>2, <2>1, <2>2, <2>3, <2>4, RunRecords DEF SourceInv, SourceTypeOK
<1> QED BY <1>1, <1>2

(* The return of an execution keeps the structure, and starts the waiting   *)
(* reauthorization.                                                         *)
LEMMA SettleKeeps ==
    ASSUME SourceInv, NEW r \in Runs, run[r].pc # "idle", Settle(r)
    PROVE  /\ run' \in [Runs -> Executions]
           /\ current' \in Runs \cup {NoRun}
           /\ reauthorize' \in BOOLEAN
           /\ OneLiveRun'
           /\ CurrentRuns'
           /\ AbortedMeansReauthorize'
           /\ ~run[r].aborted => current' = NoRun
           /\ run[r].aborted /\ current # NoRun => current' # NoRun
           /\ \A x \in Runs : run'[x] = run[x] \/ run'[x] = NewRun \/ run'[x] = IdleRun
           /\ run'[r] = NewRun \/ run'[r] = IdleRun
<1>1. /\ NewRun.pc = "authorize" /\ ~NewRun.aborted
      /\ IdleRun.pc = "idle" /\ ~IdleRun.aborted
  BY DEF NewRun, IdleRun
<1>2. CASE r # current
  <2>1. run' = [run EXCEPT ![r] = IdleRun] /\ UNCHANGED <<current, reauthorize>>
    BY <1>2 DEF Settle
  <2> QED
    BY <1>1, <1>2, <2>1, RunRecords, SourceAssumption
    DEF SourceInv, SourceTypeOK, OneLiveRun, CurrentRuns, AbortedMeansReauthorize
<1>3. CASE r = current /\ reauthorize
  <2>1. run' = [run EXCEPT ![r] = NewRun] /\ reauthorize' = FALSE /\ current' = current
    BY <1>3 DEF Settle
  <2> QED
    BY <1>1, <1>3, <2>1, RunRecords, SourceAssumption
    DEF SourceInv, SourceTypeOK, OneLiveRun, CurrentRuns, AbortedMeansReauthorize
<1>4. CASE r = current /\ ~reauthorize
  <2>1. run' = [run EXCEPT ![r] = IdleRun] /\ reauthorize' = reauthorize /\ current' = NoRun
    BY <1>4 DEF Settle
  <2> QED
    BY <1>1, <1>4, <2>1, RunRecords, SourceAssumption
    DEF SourceInv, SourceTypeOK, OneLiveRun, CurrentRuns, AbortedMeansReauthorize
<1> QED BY <1>2, <1>3, <1>4

-----------------------------------------------------------------------------
(* It holds at first: no execution runs and nothing is shown.               *)
LEMMA InitSource == SourceInit => SourceInv
<1> SUFFICES ASSUME SourceInit PROVE SourceInv
  OBVIOUS
<1>1. \A r \in Runs : run[r] = IdleRun
  BY DEF SourceInit
<1>2. IdleRun.pc = "idle" /\ ~IdleRun.aborted
  BY DEF IdleRun
<1>3. SourceTypeOK
  <2>1. run \in [Runs -> Executions]
    BY RunRecords DEF SourceInit
  <2>2. view \in [snapshot : Nat \cup {NoData}, age : 0..FreshAge,
                 status : {"idle", "ready", "stale", "forbidden", "error"}]
    BY SourceAssumption DEF SourceInit
  <2>3. server \in [revision : Nat, allowed : BOOLEAN]
    BY DEF SourceInit
  <2>4. /\ hints \subseteq Nat
        /\ vouched \subseteq Runs \cup {Shown}
        /\ started \in BOOLEAN
        /\ reauthorize \in BOOLEAN
        /\ current \in Runs \cup {NoRun}
    BY DEF SourceInit
  <2>5. /\ floor \in Nat
        /\ heard \in Nat
        /\ timer \in 0..FreshAge
        /\ disturbances \in 0..MaxDisturbances
    BY SourceAssumption DEF SourceInit
  <2> QED BY <2>1, <2>2, <2>3, <2>4, <2>5 DEF SourceTypeOK
<1>4. OneLiveRun /\ CurrentRuns /\ LiveRunsVouched
  BY <1>1, <1>2 DEF SourceInit, OneLiveRun, CurrentRuns, LiveRunsVouched, Granted
<1>5. AbortedMeansReauthorize /\ ShownDataAuthorized /\ ClearedViewIsRefetched
  BY DEF SourceInit, AbortedMeansReauthorize, ShownDataAuthorized, ClearedViewIsRefetched
<1> QED BY <1>3, <1>4, <1>5 DEF SourceInv

(* Signals that lead to refresh() and neither clear what is shown nor end a *)
(* refresh.                                                                 *)
LEMMA RefreshSignals ==
    ASSUME SourceInv, Refresh(run), UNCHANGED <<reauthorize, vouched>>,
           view'.snapshot = view.snapshot
    PROVE  /\ OneLiveRun'
           /\ CurrentRuns'
           /\ AbortedMeansReauthorize'
           /\ LiveRunsVouched'
           /\ ShownDataAuthorized'
           /\ ClearedViewIsRefetched'
<1>1. NewRun.pc = "authorize" /\ ~NewRun.aborted
  BY DEF NewRun, IdleRun
<1>2. OneLiveRun' /\ CurrentRuns' /\ AbortedMeansReauthorize' /\ ClearedViewIsRefetched'
  BY RefreshKeeps, SourceAssumption
  DEF SourceInv, OneLiveRun, CurrentRuns, AbortedMeansReauthorize,
      ClearedViewIsRefetched
<1>3. LiveRunsVouched'
  BY <1>1, RefreshKeeps DEF SourceInv, LiveRunsVouched, Granted
<1>4. ShownDataAuthorized'
  BY DEF SourceInv, ShownDataAuthorized
<1> QED BY <1>2, <1>3, <1>4

(* A write of the view, or none, by an execution that returns.              *)
LEMMA SettleWrites ==
    ASSUME SourceInv, NEW r \in Runs, run[r].pc # "idle", Settle(r),
           vouched' \in {vouched, vouched \cup {Shown}, vouched \ {Shown}},
           run[r].aborted => view' = view /\ vouched' = vouched,
           ~run[r].aborted => (view'.snapshot = NoData => view'.status # "stale"),
           view'.snapshot # NoData => Shown \in vouched'
    PROVE  /\ OneLiveRun'
           /\ CurrentRuns'
           /\ AbortedMeansReauthorize'
           /\ LiveRunsVouched'
           /\ ShownDataAuthorized'
           /\ ClearedViewIsRefetched'
<1>1. /\ NewRun.pc = "authorize" /\ ~NewRun.aborted
      /\ IdleRun.pc = "idle" /\ ~IdleRun.aborted
  BY DEF NewRun, IdleRun
<1>2. OneLiveRun' /\ CurrentRuns' /\ AbortedMeansReauthorize'
  BY SettleKeeps
<1>3. LiveRunsVouched'
  BY <1>1, SettleKeeps, SourceAssumption DEF SourceInv, LiveRunsVouched, Granted
<1>4. ShownDataAuthorized'
  BY DEF ShownDataAuthorized
<1>5. ClearedViewIsRefetched'
  BY <1>2, SettleKeeps
  DEF SourceInv, ClearedViewIsRefetched, AbortedMeansReauthorize
<1> QED BY <1>2, <1>3, <1>4, <1>5

(* Every step keeps the shapes.                                             *)
LEMMA TypeStep ==
    ASSUME SourceInv, SourceNext
    PROVE  SourceTypeOK'
<1> USE SourceAssumption DEF SourceInv, SourceTypeOK
<1> DEFINE Views == [snapshot : Nat \cup {NoData}, age : 0..FreshAge,
                     status : {"idle", "ready", "stale", "forbidden", "error"}]
<1>1. ASSUME NEW status \in {"stale", "forbidden", "error"}
      PROVE  Cleared(status) \in Views
  BY DEF Cleared
<1>2. ASSUME NEW status \in {"stale", "error"}
      PROVE  [view EXCEPT !.status = status] \in Views
  OBVIOUS
<1> DEFINE Untouched == UNCHANGED <<server, hints, view, floor, run, current,
                                    reauthorize, timer, heard, vouched>>
<1>3. Disturb => disturbances' \in 0..MaxDisturbances
  BY DEF Disturb
<1>4. ASSUME Start PROVE SourceTypeOK'
  BY <1>4, RefreshKeeps DEF Start
<1>5. ASSUME Initialize PROVE SourceTypeOK'
  BY <1>5, RefreshKeeps DEF Initialize
<1>6. ASSUME Stop PROVE SourceTypeOK'
  <2>1. /\ started' \in BOOLEAN
        /\ disturbances' \in 0..MaxDisturbances
        /\ Untouched
    BY <1>6, <1>3 DEF Stop
  <2> QED BY <2>1
<1>7. ASSUME NEW h \in hints, HandleInvalidation(h) PROVE SourceTypeOK'
  BY <1>7, <1>2, RefreshKeeps DEF HandleInvalidation, MaxOf
<1>8. ASSUME HandleReconnect PROVE SourceTypeOK'
  BY <1>8, <1>2, RefreshKeeps DEF HandleReconnect, Disturb
<1>9. ASSUME HandleWindowFocus PROVE SourceTypeOK'
  BY <1>9, RefreshKeeps DEF HandleWindowFocus
<1>10. ASSUME HandlePeriodicTick PROVE SourceTypeOK'
  BY <1>10, RefreshKeeps DEF HandlePeriodicTick
<1>11. ASSUME HandleAuthorizationInvalidation PROVE SourceTypeOK'
  <2>1. run' \in [Runs -> Executions] /\ current' \in Runs \cup {NoRun}
        /\ reauthorize' \in BOOLEAN
    <3>1. CASE current = NoRun
      BY <1>11, <3>1, RefreshKeeps DEF HandleAuthorizationInvalidation
    <3>2. CASE current # NoRun
      <4>1. /\ run' = [run EXCEPT ![current] = [run[current] EXCEPT !.aborted = TRUE]]
            /\ reauthorize' = TRUE
            /\ current' = current
        BY <1>11, <3>2 DEF HandleAuthorizationInvalidation
      <4>2. [run[current] EXCEPT !.aborted = TRUE] \in Executions
        BY <3>2 DEF Executions
      <4> QED BY <4>1, <4>2
    <3> QED BY <3>1, <3>2
  <2> QED
    BY <1>11, <1>1, <2>1 DEF HandleAuthorizationInvalidation, Disturb
<1>12. ASSUME NEW r \in Runs, AuthorizeAnswers(r) PROVE SourceTypeOK'
  <2>1. /\ run' = [run EXCEPT ![r] = [run[r] EXCEPT !.pc = "authorized",
                                                   !.permitted = server.allowed]]
        /\ vouched' \in {vouched, vouched \cup {r}}
        /\ UNCHANGED <<server, hints, view, floor, current, reauthorize, timer,
                       started, disturbances, heard>>
    BY <1>12 DEF AuthorizeAnswers
  <2>2. [run[r] EXCEPT !.pc = "authorized", !.permitted = server.allowed] \in Executions
    <3>1. run[r] \in Executions /\ server.allowed \in BOOLEAN
      OBVIOUS
    <3> QED BY <3>1 DEF Executions
  <2>3. run' \in [Runs -> Executions]
    BY <2>1, <2>2
  <2> QED BY <2>1, <2>3
<1>13. ASSUME NEW r \in Runs, AuthorizeFails(r) PROVE SourceTypeOK'
  BY <1>13, <1>1, SettleKeeps DEF AuthorizeFails, Disturb
<1>14. ASSUME NEW r \in Runs, AfterAuthorization(r) PROVE SourceTypeOK'
  <2>1. CASE run[r].aborted \/ ~run[r].permitted
    BY <1>14, <2>1, <1>1, SettleKeeps DEF AfterAuthorization
  <2>2. CASE ~run[r].aborted /\ run[r].permitted
    BY <1>14, <2>2 DEF AfterAuthorization, Executions
  <2> QED BY <2>1, <2>2
<1>15. ASSUME NEW r \in Runs, NEW v \in Revisions, FetchAnswers(r, v) PROVE SourceTypeOK'
  <2>1. /\ run' = [run EXCEPT ![r] = [run[r] EXCEPT !.pc = "fetched", !.read = v]]
        /\ UNCHANGED <<server, hints, view, floor, current, reauthorize, timer,
                       started, heard, vouched>>
        /\ disturbances' \in 0..MaxDisturbances
    BY <1>15, <1>3 DEF FetchAnswers
  <2>2. [run[r] EXCEPT !.pc = "fetched", !.read = v] \in Executions
    <3>1. run[r] \in Executions /\ v \in Nat
      BY DEF Revisions
    <3> QED BY <3>1 DEF Executions
  <2>3. run' \in [Runs -> Executions]
    BY <2>1, <2>2
  <2> QED BY <2>1, <2>3
<1>16. ASSUME NEW r \in Runs, FetchFails(r) PROVE SourceTypeOK'
  BY <1>16, <1>2, SettleKeeps DEF FetchFails, Disturb
<1>17. ASSUME NEW r \in Runs, AfterFetch(r) PROVE SourceTypeOK'
  <2>1. run[r].read \in Nat
    BY DEF Executions
  <2>2. view' \in Views /\ floor' \in Nat /\ vouched' \subseteq Runs \cup {Shown}
    BY <1>17, <1>2, <2>1 DEF AfterFetch, Accept
  <2> QED BY <1>17, <2>2, SettleKeeps DEF AfterFetch
<1>18. ASSUME RefreshTimesOut PROVE SourceTypeOK'
  <2>1. run' \in [Runs -> Executions] /\ current' \in Runs \cup {NoRun}
    <3>1. current \in Runs
      BY <1>18 DEF RefreshTimesOut
    <3>2. [run[current] EXCEPT !.aborted = TRUE] \in Executions
      BY <3>1 DEF Executions
    <3> DEFINE abandoned == [run EXCEPT ![current] = [run[current] EXCEPT !.aborted = TRUE]]
    <3>3. abandoned \in [Runs -> Executions]
      BY <3>2
    <3>4. \E n \in Runs :
             \/ run' = [abandoned EXCEPT ![n] = NewRun] /\ current' = n
             \/ run' = abandoned /\ current' = NoRun
      <4>1. PICK n \in Runs \ {current} :
               IF reauthorize
               THEN run' = [abandoned EXCEPT ![n] = NewRun] /\ current' = n
               ELSE run' = abandoned /\ current' = NoRun
        BY <1>18, Zenon DEF RefreshTimesOut
      <4> HIDE DEF abandoned
      <4>2. CASE reauthorize
        BY <4>1, <4>2
      <4>3. CASE ~reauthorize
        BY <4>1, <4>3
      <4> QED BY <4>2, <4>3
    <3> HIDE DEF abandoned
    <3> QED BY <3>3, <3>4, RunRecords
  <2>2. view' \in Views /\ reauthorize' \in BOOLEAN /\ disturbances' \in 0..MaxDisturbances
    BY <1>18, <1>3, <1>1 DEF RefreshTimesOut
  <2> QED BY <1>18, <2>1, <2>2 DEF RefreshTimesOut
<1>19. ASSUME SourceChanges PROVE SourceTypeOK'
  BY <1>19 DEF SourceChanges, clientVars
<1>20. ASSUME PermissionChanges PROVE SourceTypeOK'
  <2>1. server' = [server EXCEPT !.allowed = ~server.allowed]
        /\ disturbances' \in 0..MaxDisturbances
    BY <1>20, <1>3 DEF PermissionChanges
  <2>2. server' \in [revision : Nat, allowed : BOOLEAN]
    BY <2>1
  <2>3. UNCHANGED clientVars /\ UNCHANGED <<hints, heard, vouched>>
    BY <1>20 DEF PermissionChanges
  <2> QED BY <2>1, <2>2, <2>3 DEF clientVars
<1>21. ASSUME Tick PROVE SourceTypeOK'
  BY <1>21 DEF Tick
<1> QED
  BY <1>4, <1>6, <1>7, <1>8, <1>9, <1>10, <1>11, <1>12, <1>13, <1>14, <1>15, <1>16,
     <1>17, <1>18, <1>19, <1>20, <1>21, <1>5
  DEF SourceNext, Signal, RunStep

(* A step of one execution that does not return: the others are untouched.  *)
LEMMA RunProceeds ==
    ASSUME SourceInv, NEW r \in Runs, run[r].pc # "idle",
           run' \in [Runs -> Executions],
           run'[r].pc # "idle",
           run'[r].aborted = run[r].aborted,
           \A x \in Runs \ {r} : run'[x] = run[x],
           ~run'[r].aborted /\ Granted(r)' => r \in vouched',
           vouched \subseteq vouched',
           UNCHANGED <<view, current, reauthorize>>
    PROVE  /\ OneLiveRun'
           /\ CurrentRuns'
           /\ AbortedMeansReauthorize'
           /\ LiveRunsVouched'
           /\ ShownDataAuthorized'
           /\ ClearedViewIsRefetched'
<1>1. \A x \in Runs : run'[x].aborted = run[x].aborted
  OBVIOUS
<1>2. OneLiveRun' /\ CurrentRuns' /\ AbortedMeansReauthorize' /\ ClearedViewIsRefetched'
  BY <1>1, SourceAssumption
  DEF SourceInv, SourceTypeOK, OneLiveRun, CurrentRuns, AbortedMeansReauthorize,
      ClearedViewIsRefetched
<1>3. LiveRunsVouched'
  <2> SUFFICES ASSUME NEW x \in Runs, x # r, ~run'[x].aborted, Granted(x)'
               PROVE  x \in vouched'
    BY DEF LiveRunsVouched
  <2>1. Granted(x)
    BY DEF Granted
  <2> QED BY <1>1, <2>1 DEF SourceInv, LiveRunsVouched
<1>4. ShownDataAuthorized'
  BY DEF SourceInv, ShownDataAuthorized
<1> QED BY <1>2, <1>3, <1>4

(* Every step keeps the invariant.                                          *)
LEMMA SourceStep ==
    ASSUME SourceInv, SourceNext
    PROVE  SourceInv'
<1> DEFINE Structure ==
      /\ OneLiveRun
      /\ CurrentRuns
      /\ AbortedMeansReauthorize
      /\ LiveRunsVouched
      /\ ShownDataAuthorized
      /\ ClearedViewIsRefetched
<1>1. SourceTypeOK'
  BY TypeStep
<1>2. ASSUME UNCHANGED <<run, current, reauthorize, vouched>>,
             view'.snapshot = view.snapshot, view'.status = view.status
      PROVE  Structure'
  BY <1>2
  DEF SourceInv, OneLiveRun, CurrentRuns, AbortedMeansReauthorize, LiveRunsVouched,
      Granted, ShownDataAuthorized, ClearedViewIsRefetched
<1>3. ASSUME Start PROVE Structure'
  BY <1>3, RefreshSignals DEF Start
<1>4. ASSUME Initialize PROVE Structure'
  BY <1>4, RefreshSignals DEF Initialize
<1>5. ASSUME Stop PROVE Structure'
  BY <1>5, <1>2 DEF Stop
<1>6. ASSUME NEW h \in hints, HandleInvalidation(h) PROVE Structure'
  BY <1>6, RefreshSignals DEF HandleInvalidation, SourceInv, SourceTypeOK
<1>7. ASSUME HandleReconnect PROVE Structure'
  BY <1>7, RefreshSignals DEF HandleReconnect, SourceInv, SourceTypeOK
<1>8. ASSUME HandleWindowFocus PROVE Structure'
  BY <1>8, RefreshSignals DEF HandleWindowFocus
<1>9. ASSUME HandlePeriodicTick PROVE Structure'
  BY <1>9, <1>2, RefreshSignals DEF HandlePeriodicTick
<1>10. ASSUME HandleAuthorizationInvalidation PROVE Structure'
  <2>1. /\ vouched' = {}
        /\ view'.snapshot = NoData
    BY <1>10 DEF HandleAuthorizationInvalidation, Cleared
  <2>2. CASE current = NoRun
    <3>1. Refresh(run) /\ reauthorize' = reauthorize
      BY <1>10, <2>2 DEF HandleAuthorizationInvalidation
    <3>2. \A r \in Runs : ~run[r].aborted => run[r].pc = "idle"
      BY <2>2, SourceAssumption DEF SourceInv, OneLiveRun
    <3>3. OneLiveRun' /\ CurrentRuns' /\ AbortedMeansReauthorize'
             /\ ClearedViewIsRefetched'
      BY <2>2, <3>1, RefreshKeeps, SourceAssumption
      DEF SourceInv, OneLiveRun, CurrentRuns, AbortedMeansReauthorize,
          ClearedViewIsRefetched
    <3>4. LiveRunsVouched'
      BY <3>1, <3>2, RefreshKeeps DEF LiveRunsVouched, Granted, NewRun, IdleRun
    <3> QED BY <2>1, <3>3, <3>4 DEF ShownDataAuthorized
  <2>3. CASE current # NoRun
    <3>1. /\ current \in Runs
          /\ run' = [run EXCEPT ![current] = [run[current] EXCEPT !.aborted = TRUE]]
          /\ current' = current
          /\ reauthorize'
      BY <1>10, <2>3 DEF HandleAuthorizationInvalidation, SourceInv, SourceTypeOK
    <3>2. /\ run'[current].aborted
          /\ run'[current].pc = run[current].pc
          /\ \A x \in Runs \ {current} : run'[x] = run[x]
      BY <3>1 DEF SourceInv, SourceTypeOK, Executions
    <3> QED
      BY <2>1, <2>3, <3>1, <3>2
      DEF SourceInv, OneLiveRun, CurrentRuns, AbortedMeansReauthorize,
          LiveRunsVouched, Granted, ShownDataAuthorized, ClearedViewIsRefetched
  <2> QED BY <2>2, <2>3
<1>11. ASSUME NEW r \in Runs, AuthorizeAnswers(r) PROVE Structure'
  <2>1. /\ run[r].pc = "authorize"
        /\ run' = [run EXCEPT ![r] = [run[r] EXCEPT !.pc = "authorized",
                                                   !.permitted = server.allowed]]
        /\ vouched' = IF run[r].aborted \/ ~server.allowed
                      THEN vouched ELSE vouched \cup {r}
        /\ UNCHANGED <<view, current, reauthorize>>
    BY <1>11 DEF AuthorizeAnswers
  <2>2. /\ run'[r].pc = "authorized"
        /\ run'[r].aborted = run[r].aborted
        /\ run'[r].permitted = server.allowed
        /\ \A x \in Runs \ {r} : run'[x] = run[x]
    BY <2>1 DEF SourceInv, SourceTypeOK, Executions
  <2>3. vouched \subseteq vouched' /\ (~run'[r].aborted /\ Granted(r)' => r \in vouched')
    BY <2>1, <2>2 DEF Granted
  <2>4. run' \in [Runs -> Executions]
    BY <1>1 DEF SourceTypeOK
  <2> QED BY <2>1, <2>2, <2>3, <2>4, RunProceeds
<1>12. ASSUME NEW r \in Runs, AuthorizeFails(r) PROVE Structure'
  <2>1. run[r].pc # "idle" /\ Settle(r) /\ vouched' = vouched
        /\ (run[r].aborted => view' = view)
        /\ (~run[r].aborted => view' = Cleared("error"))
    BY <1>12 DEF AuthorizeFails
  <2> QED
    BY <2>1, SettleWrites DEF SourceInv, ShownDataAuthorized, Cleared
<1>13. ASSUME NEW r \in Runs, AfterAuthorization(r) PROVE Structure'
  <2>1. CASE run[r].aborted \/ ~run[r].permitted
    <3>1. run[r].pc # "idle" /\ Settle(r) /\ vouched' = vouched
          /\ (run[r].aborted => view' = view)
          /\ (~run[r].aborted => view' = Cleared("forbidden"))
      BY <1>13, <2>1 DEF AfterAuthorization
    <3> QED
      BY <3>1, SettleWrites DEF SourceInv, ShownDataAuthorized, Cleared
  <2>2. CASE ~run[r].aborted /\ run[r].permitted
    <3>1. /\ run[r].pc = "authorized"
          /\ run' = [run EXCEPT ![r] = [run[r] EXCEPT !.pc = "fetch"]]
          /\ UNCHANGED <<view, current, reauthorize, vouched>>
      BY <1>13, <2>2 DEF AfterAuthorization
    <3>2. /\ run'[r].pc = "fetch"
          /\ run'[r].aborted = run[r].aborted
          /\ \A x \in Runs \ {r} : run'[x] = run[x]
      BY <3>1 DEF SourceInv, SourceTypeOK, Executions
    <3>3. r \in vouched
      BY <2>2, <3>1 DEF SourceInv, LiveRunsVouched, Granted
    <3>4. run' \in [Runs -> Executions]
      BY <1>1 DEF SourceTypeOK
    <3> QED BY <3>1, <3>2, <3>3, <3>4, RunProceeds
  <2> QED BY <2>1, <2>2
<1>14. ASSUME NEW r \in Runs, NEW v \in Revisions, FetchAnswers(r, v) PROVE Structure'
  <2>1. /\ run[r].pc = "fetch"
        /\ run' = [run EXCEPT ![r] = [run[r] EXCEPT !.pc = "fetched", !.read = v]]
        /\ UNCHANGED <<view, current, reauthorize, vouched>>
    BY <1>14 DEF FetchAnswers
  <2>2. /\ run'[r].pc = "fetched"
        /\ run'[r].aborted = run[r].aborted
        /\ \A x \in Runs \ {r} : run'[x] = run[x]
    BY <2>1 DEF SourceInv, SourceTypeOK, Executions
  <2>3. ~run[r].aborted => r \in vouched
    BY <2>1 DEF SourceInv, LiveRunsVouched, Granted
  <2>4. run' \in [Runs -> Executions]
    BY <1>1 DEF SourceTypeOK
  <2> QED BY <2>1, <2>2, <2>3, <2>4, RunProceeds
<1>15. ASSUME NEW r \in Runs, FetchFails(r) PROVE Structure'
  <2>1. run[r].pc # "idle" /\ Settle(r) /\ vouched' = vouched
        /\ (run[r].aborted => view' = view)
        /\ (~run[r].aborted => view' = [view EXCEPT !.status = "error"])
    BY <1>15 DEF FetchFails
  <2>2. view'.snapshot = view.snapshot /\ (~run[r].aborted => view'.status = "error")
    BY <2>1 DEF SourceInv, SourceTypeOK
  <2> QED
    BY <2>1, <2>2, SettleWrites DEF SourceInv, ShownDataAuthorized
<1>16. ASSUME NEW r \in Runs, AfterFetch(r) PROVE Structure'
  <2>1. run[r].pc = "fetched" /\ Settle(r)
    BY <1>16 DEF AfterFetch
  <2>2. CASE run[r].aborted
    <3>1. view' = view /\ vouched' = vouched
      BY <1>16, <2>2 DEF AfterFetch
    <3> QED
      BY <2>1, <2>2, <3>1, SettleWrites DEF SourceInv, ShownDataAuthorized
  <2>3. CASE ~run[r].aborted /\ Regresses(run[r].read)
    <3>1. view' = [view EXCEPT !.status = "error"] /\ vouched' = vouched
      BY <1>16, <2>3 DEF AfterFetch
    <3>2. view'.snapshot = view.snapshot /\ view'.status = "error"
      BY <3>1 DEF SourceInv, SourceTypeOK
    <3> QED
      BY <2>1, <2>3, <3>1, <3>2, SettleWrites DEF SourceInv, ShownDataAuthorized
  <2>4. CASE ~run[r].aborted /\ ~Regresses(run[r].read)
    <3>1. r \in vouched
      BY <2>1, <2>4 DEF SourceInv, LiveRunsVouched, Granted
    <3>2. view'.snapshot = run[r].read /\ vouched' = vouched \cup {Shown}
      BY <1>16, <2>4, <3>1 DEF AfterFetch, Accept
    <3>3. run[r].read \in Nat
      BY DEF SourceInv, SourceTypeOK, Executions
    <3> QED
      BY <2>1, <2>4, <3>2, <3>3, SourceAssumption, SettleWrites
  <2> QED BY <2>2, <2>3, <2>4
<1>17. ASSUME RefreshTimesOut PROVE Structure'
  <2>1. /\ current \in Runs
        /\ view'.snapshot = NoData
        /\ view'.status = "error"
        /\ reauthorize' = FALSE
        /\ vouched' = vouched
    BY <1>17 DEF RefreshTimesOut, Cleared, SourceInv, SourceTypeOK
  <2> DEFINE abandoned == [run EXCEPT ![current] = [run[current] EXCEPT !.aborted = TRUE]]
  <2>2. /\ abandoned \in [Runs -> Executions]
        /\ abandoned[current].aborted
        /\ \A x \in Runs \ {current} : abandoned[x] = run[x]
    BY <2>1 DEF SourceInv, SourceTypeOK, Executions
  <2>3. \A x \in Runs : abandoned[x].pc # "idle" => abandoned[x].aborted
    BY <2>1, <2>2 DEF SourceInv, OneLiveRun
  <2>4. NewRun.pc = "authorize" /\ ~NewRun.aborted
    BY DEF NewRun, IdleRun
  <2>5. PICK n \in Runs \ {current} :
           /\ run[n].pc = "idle"
           /\ IF reauthorize
              THEN run' = [abandoned EXCEPT ![n] = NewRun] /\ current' = n
              ELSE run' = abandoned /\ current' = NoRun
    BY <1>17, Zenon DEF RefreshTimesOut
  <2> HIDE DEF abandoned
  <2>6. CASE reauthorize
    <3>1. run' = [abandoned EXCEPT ![n] = NewRun] /\ current' = n
      BY <2>5, <2>6
    <3>2. run'[n] = NewRun /\ \A x \in Runs \ {n} : run'[x] = abandoned[x]
      BY <2>2, <3>1
    <3> QED
      BY <2>1, <2>3, <2>4, <3>1, <3>2
      DEF OneLiveRun, CurrentRuns, AbortedMeansReauthorize, LiveRunsVouched, Granted,
          ShownDataAuthorized, ClearedViewIsRefetched
  <2>7. CASE ~reauthorize
    <3>1. run' = abandoned /\ current' = NoRun
      BY <2>5, <2>7
    <3> QED
      BY <2>1, <2>3, <3>1
      DEF OneLiveRun, CurrentRuns, AbortedMeansReauthorize, LiveRunsVouched, Granted,
          ShownDataAuthorized, ClearedViewIsRefetched
  <2> QED BY <2>6, <2>7
<1>18. ASSUME SourceChanges PROVE Structure'
  BY <1>18, <1>2 DEF SourceChanges, clientVars
<1>19. ASSUME PermissionChanges PROVE Structure'
  BY <1>19, <1>2 DEF PermissionChanges, clientVars
<1>20. ASSUME Tick PROVE Structure'
  <2>1. view'.snapshot = view.snapshot /\ view'.status = view.status
    BY <1>20 DEF Tick, SourceInv, SourceTypeOK
  <2> QED BY <1>20, <1>2, <2>1 DEF Tick
<1>21. Structure'
  BY <1>3, <1>5, <1>6, <1>7, <1>8, <1>9, <1>10, <1>11, <1>12, <1>13, <1>14, <1>15,
     <1>16, <1>17, <1>18, <1>19, <1>20, <1>4
  DEF SourceNext, Signal, RunStep
<1> QED BY <1>1, <1>21 DEF SourceInv

(* SourceInv holds in every reachable state.                                *)
THEOREM SourceInvariant == SourceSpec => []SourceInv
<1>1. SourceInv /\ UNCHANGED sourceVars => SourceInv'
  BY DEF sourceVars, SourceInv, SourceTypeOK, OneLiveRun, CurrentRuns, AbortedMeansReauthorize,
         LiveRunsVouched, Granted, ShownDataAuthorized, ClearedViewIsRefetched
<1>2. SourceInv /\ [SourceNext]_sourceVars => SourceInv'
  BY SourceStep, <1>1
<1> QED BY <1>2, InitSource, PTL DEF SourceSpec

(* Every variable keeps its shape.                                          *)
THEOREM SourceTypes == SourceSpec => []SourceTypeOK
BY SourceInvariant, PTL DEF SourceInv

(* Whatever the view shows was authorized after the last authorization      *)
(* invalidation, for any number of abandoned executions still running; and  *)
(* a cleared view that says it is stale has a refresh, or a reauthorization *)
(* after the aborted one, on its way.                                       *)
THEOREM InvalidationsHonoured == SourceSpec => []InvalidationIsHonoured
<1>1. SourceInv => InvalidationIsHonoured
  BY DEF SourceInv, InvalidationIsHonoured
<1> QED BY <1>1, SourceInvariant, PTL

-----------------------------------------------------------------------------
(* The shown revision does not go back: only Accept shows another snapshot, *)
(* after Regresses refused an older one.                                    *)
THEOREM RevisionNeverRegresses == SourceSpec => ShownRevisionNeverRegresses
<1> DEFINE Forward == view.snapshot # NoData /\ view'.snapshot # NoData
                         => view'.snapshot >= view.snapshot
<1>1. ASSUME SourceInv, SourceNext PROVE Forward
  <2> SUFFICES ASSUME view.snapshot # NoData, view'.snapshot # NoData
               PROVE  view'.snapshot >= view.snapshot
    OBVIOUS
  <2>1. view.snapshot \in Nat
    BY <1>1 DEF SourceInv, SourceTypeOK
  <2>2. view'.snapshot = view.snapshot => view'.snapshot >= view.snapshot
    BY <2>1
  <2>3. ASSUME NEW status, view' = [view EXCEPT !.status = status]
        PROVE  view'.snapshot = view.snapshot
    BY <1>1, <2>3 DEF SourceInv, SourceTypeOK
  <2>4. ASSUME NEW r \in Runs, AfterFetch(r) PROVE view'.snapshot >= view.snapshot
    <3>1. CASE run[r].aborted
      BY <2>2, <2>4, <3>1 DEF AfterFetch
    <3>2. CASE ~run[r].aborted /\ Regresses(run[r].read)
      BY <2>2, <2>3, <2>4, <3>2 DEF AfterFetch
    <3>3. CASE ~run[r].aborted /\ ~Regresses(run[r].read)
      <4>1. view'.snapshot = run[r].read
        BY <2>4, <3>3 DEF AfterFetch, Accept
      <4>2. run[r].read \in Nat
        BY <1>1 DEF SourceInv, SourceTypeOK, Executions
      <4> QED BY <2>1, <3>3, <4>1, <4>2 DEF Regresses
    <3> QED BY <3>1, <3>2, <3>3
  <2>5. ASSUME NEW r \in Runs, FetchFails(r) PROVE view'.snapshot >= view.snapshot
    BY <2>2, <2>3, <2>5 DEF FetchFails
  <2>6. ASSUME NEW r \in Runs, AuthorizeFails(r) PROVE view'.snapshot >= view.snapshot
    BY <2>2, <2>6 DEF AuthorizeFails, Cleared
  <2>7. ASSUME NEW r \in Runs, AfterAuthorization(r)
        PROVE  view'.snapshot >= view.snapshot
    BY <2>2, <2>7 DEF AfterAuthorization, Cleared
  <2>8. ASSUME Tick PROVE view'.snapshot >= view.snapshot
    <3>1. view'.snapshot = view.snapshot
      BY <1>1, <2>8 DEF Tick, SourceInv, SourceTypeOK
    <3> QED BY <2>2, <3>1
  <2>9. ASSUME HandleReconnect PROVE view'.snapshot >= view.snapshot
    BY <2>2, <2>3, <2>9 DEF HandleReconnect
  <2>10. ASSUME NEW h \in hints, HandleInvalidation(h)
         PROVE  view'.snapshot >= view.snapshot
    BY <2>2, <2>3, <2>10 DEF HandleInvalidation
  <2>11. ASSUME \/ Start
                \/ Initialize
                \/ Stop
                \/ HandleWindowFocus
                \/ HandlePeriodicTick
         PROVE  view'.snapshot >= view.snapshot
    BY <2>2, <2>11 DEF Start, Initialize, Stop, HandleWindowFocus, HandlePeriodicTick
  <2>12. ASSUME HandleAuthorizationInvalidation PROVE view'.snapshot >= view.snapshot
    BY <2>12 DEF HandleAuthorizationInvalidation, Cleared
  <2>13. ASSUME NEW r \in Runs, AuthorizeAnswers(r)
         PROVE  view'.snapshot >= view.snapshot
    BY <2>2, <2>13 DEF AuthorizeAnswers
  <2>14. ASSUME NEW r \in Runs, NEW v \in Revisions, FetchAnswers(r, v)
         PROVE  view'.snapshot >= view.snapshot
    BY <2>2, <2>14 DEF FetchAnswers
  <2>15. ASSUME RefreshTimesOut PROVE view'.snapshot >= view.snapshot
    BY <2>15 DEF RefreshTimesOut, Cleared
  <2>16. ASSUME SourceChanges \/ PermissionChanges
         PROVE  view'.snapshot >= view.snapshot
    BY <2>2, <2>16 DEF SourceChanges, PermissionChanges, clientVars
  <2> QED
    BY <1>1, <2>4, <2>5, <2>6, <2>7, <2>8, <2>9, <2>10, <2>11, <2>12, <2>13, <2>14,
       <2>15, <2>16
    DEF SourceNext, Signal, RunStep
<1>2. SourceInv /\ [SourceNext]_sourceVars => [Forward]_sourceVars
  BY <1>1
<1> HIDE DEF Forward
<1>3. SourceSpec => [][Forward]_sourceVars
  BY <1>2, SourceInvariant, PTL DEF SourceSpec
<1> QED BY <1>3 DEF Forward, ShownRevisionNeverRegresses

-----------------------------------------------------------------------------
(* While the floor is below what was heard, the hints above it were         *)
(* reached, so the source is past them and so is whatever was read since,   *)
(* but for its lag.                                                         *)
HintsPublished == heard <= server.revision /\ \A h \in hints : h <= server.revision

ReadsReachHints ==
    floor < heard =>
        \A r \in Runs : run[r].pc = "fetched" /\ ~run[r].aborted => run[r].read + Lag >= heard

Watermark == HintsPublished /\ ReadsReachHints /\ ReadyCoversHints

(* A step that neither writes a ready view nor completes a fetch, and leaves *)
(* the watermark and what was heard alone.                                  *)
LEMMA WatermarkKept ==
    ASSUME Watermark,
           UNCHANGED <<server, hints, floor, heard>>,
           view'.status = "ready" => view'.status = view.status
                                     /\ view'.snapshot = view.snapshot,
           \A r \in Runs : run'[r].pc = "fetched" /\ ~run'[r].aborted =>
               run[r].pc = "fetched" /\ ~run[r].aborted /\ run'[r].read = run[r].read
    PROVE  Watermark'
<1>1. HintsPublished'
  BY DEF Watermark, HintsPublished
<1>2. ReadsReachHints'
  BY DEF Watermark, ReadsReachHints
<1>3. ReadyCoversHints'
  BY DEF Watermark, ReadyCoversHints
<1> QED BY <1>1, <1>2, <1>3 DEF Watermark

(* refresh() completes no fetch.                                            *)
LEMMA RefreshFetchesNothing ==
    ASSUME SourceInv, Refresh(run)
    PROVE  \A r \in Runs : run'[r].pc = "fetched" /\ ~run'[r].aborted =>
               run[r].pc = "fetched" /\ ~run[r].aborted /\ run'[r].read = run[r].read
BY RefreshKeeps DEF NewRun, IdleRun

(* The return of an execution completes no fetch.                           *)
LEMMA SettleFetchesNothing ==
    ASSUME SourceInv, NEW x \in Runs, run[x].pc # "idle", Settle(x)
    PROVE  \A r \in Runs : run'[r].pc = "fetched" /\ ~run'[r].aborted =>
               run[r].pc = "fetched" /\ ~run[r].aborted /\ run'[r].read = run[r].read
BY SettleKeeps DEF NewRun, IdleRun

(* What is heard is forgotten, and nothing is shown as ready.               *)
LEMMA WatermarkForgotten ==
    ASSUME Watermark, SourceTypeOK', UNCHANGED <<server, hints>>, heard' = 0,
           view'.status # "ready"
    PROVE  Watermark'
<1>1. HintsPublished'
  BY DEF Watermark, HintsPublished, SourceTypeOK
<1>2. ReadsReachHints'
  BY DEF ReadsReachHints, SourceTypeOK, Executions
<1>3. ReadyCoversHints'
  BY DEF ReadyCoversHints
<1> QED BY <1>1, <1>2, <1>3 DEF Watermark

(* The watermark survives every step.                                       *)
LEMMA WatermarkStep ==
    ASSUME SourceInv, Watermark, SourceNext
    PROVE  Watermark'
<1>1. SourceTypeOK /\ SourceTypeOK'
  BY TypeStep DEF SourceInv
<1>2. ASSUME NEW status, view' = [view EXCEPT !.status = status]
      PROVE  view'.snapshot = view.snapshot /\ view'.status = status
  BY <1>1, <1>2 DEF SourceTypeOK
<1>3. ASSUME \/ Start
             \/ Initialize
             \/ HandleWindowFocus
             \/ HandlePeriodicTick
      PROVE  Watermark'
  <2>1. /\ UNCHANGED <<server, hints, floor, heard, view>>
        /\ Refresh(run) \/ UNCHANGED run
    BY <1>3 DEF Start, Initialize, HandleWindowFocus, HandlePeriodicTick
  <2> QED BY <2>1, RefreshFetchesNothing, WatermarkKept
<1>4. ASSUME Stop \/ PermissionChanges PROVE Watermark'
  <2>1. CASE Stop
    BY <2>1, WatermarkKept DEF Stop
  <2>2. CASE PermissionChanges
    <3>1. server'.revision = server.revision /\ UNCHANGED <<hints, floor, heard, view, run>>
      BY <1>1, <2>2 DEF PermissionChanges, clientVars, SourceTypeOK
    <3> QED
      BY <3>1 DEF Watermark, HintsPublished, ReadsReachHints, ReadyCoversHints
  <2> QED BY <1>4, <2>1, <2>2
<1>5. ASSUME NEW h \in hints, HandleInvalidation(h) PROVE Watermark'
  <2>1. /\ floor' = MaxOf(floor, h)
        /\ heard' = MaxOf(heard, h)
        /\ UNCHANGED <<server, hints>>
        /\ view'.status = "stale"
        /\ Refresh(run)
    BY <1>2, <1>5 DEF HandleInvalidation
  <2>2. floor \in Nat /\ heard \in Nat /\ h \in Nat /\ server.revision \in Nat
    BY <1>1 DEF SourceTypeOK
  <2>3. HintsPublished'
    BY <2>1, <2>2 DEF Watermark, HintsPublished, MaxOf
  <2>4. floor' < heard' => floor < heard /\ heard' = heard
    BY <2>1, <2>2 DEF MaxOf
  <2>5. ReadsReachHints'
    BY <2>1, <2>4, RefreshFetchesNothing DEF Watermark, ReadsReachHints
  <2>6. ReadyCoversHints'
    BY <2>1 DEF ReadyCoversHints
  <2> QED BY <2>3, <2>5, <2>6 DEF Watermark
<1>6. ASSUME HandleReconnect PROVE Watermark'
  BY <1>2, <1>6, RefreshFetchesNothing, WatermarkKept DEF HandleReconnect
<1>7. ASSUME HandleAuthorizationInvalidation PROVE Watermark'
  BY <1>1, <1>7, WatermarkForgotten DEF HandleAuthorizationInvalidation, Cleared
<1>8. ASSUME NEW r \in Runs, AuthorizeAnswers(r) PROVE Watermark'
  <2>1. /\ UNCHANGED <<server, hints, floor, heard, view>>
        /\ run' = [run EXCEPT ![r] = [run[r] EXCEPT !.pc = "authorized",
                                                    !.permitted = server.allowed]]
    BY <1>8 DEF AuthorizeAnswers
  <2>2. run'[r].pc = "authorized" /\ \A x \in Runs \ {r} : run'[x] = run[x]
    BY <1>1, <2>1 DEF SourceTypeOK, Executions
  <2> QED BY <2>1, <2>2, WatermarkKept
<1>9. ASSUME NEW r \in Runs, AuthorizeFails(r) PROVE Watermark'
  <2>1. run[r].pc # "idle" /\ Settle(r) /\ UNCHANGED <<server, hints, floor>>
    BY <1>9 DEF AuthorizeFails
  <2>2. CASE run[r].aborted
    BY <1>9, <2>1, <2>2, SettleFetchesNothing, WatermarkKept DEF AuthorizeFails
  <2>3. CASE ~run[r].aborted
    BY <1>1, <1>9, <2>1, <2>3, WatermarkForgotten DEF AuthorizeFails, Cleared
  <2> QED BY <2>2, <2>3
<1>10. ASSUME NEW r \in Runs, AfterAuthorization(r) PROVE Watermark'
  <2>1. CASE run[r].aborted
    BY <1>10, <2>1, SettleFetchesNothing, WatermarkKept DEF AfterAuthorization
  <2>2. CASE ~run[r].aborted /\ ~run[r].permitted
    BY <1>1, <1>10, <2>2, WatermarkForgotten DEF AfterAuthorization, Cleared
  <2>3. CASE ~run[r].aborted /\ run[r].permitted
    <3>1. /\ UNCHANGED <<server, hints, floor, heard, view>>
          /\ run' = [run EXCEPT ![r] = [run[r] EXCEPT !.pc = "fetch"]]
      BY <1>10, <2>3 DEF AfterAuthorization
    <3>2. run'[r].pc = "fetch" /\ \A x \in Runs \ {r} : run'[x] = run[x]
      BY <1>1, <3>1 DEF SourceTypeOK, Executions
    <3> QED BY <3>1, <3>2, WatermarkKept
  <2> QED BY <2>1, <2>2, <2>3
<1>11. ASSUME NEW r \in Runs, NEW v \in Revisions, FetchAnswers(r, v) PROVE Watermark'
  <2>1. /\ v <= server.revision /\ v + Lag >= server.revision
        /\ UNCHANGED <<server, hints, floor, heard, view>>
        /\ run' = [run EXCEPT ![r] = [run[r] EXCEPT !.pc = "fetched", !.read = v]]
    BY <1>11 DEF FetchAnswers
  <2>2. v + Lag >= heard
    BY <1>1, <2>1, SourceAssumption DEF SourceTypeOK, Revisions, Watermark, HintsPublished
  <2>3. run'[r].read = v /\ \A x \in Runs \ {r} : run'[x] = run[x]
    BY <1>1, <2>1 DEF SourceTypeOK, Executions
  <2>4. ReadsReachHints'
    BY <2>1, <2>2, <2>3 DEF Watermark, HintsPublished, ReadsReachHints
  <2> QED
    BY <2>1, <2>4 DEF Watermark, HintsPublished, ReadyCoversHints
<1>12. ASSUME NEW r \in Runs, FetchFails(r) PROVE Watermark'
  <2>1. run[r].pc # "idle" /\ Settle(r) /\ UNCHANGED <<server, hints, floor, heard>>
    BY <1>12 DEF FetchFails
  <2>2. view' = view \/ view'.status = "error"
    BY <1>2, <1>12 DEF FetchFails
  <2> QED BY <2>1, <2>2, SettleFetchesNothing, WatermarkKept
<1>13. ASSUME NEW r \in Runs, AfterFetch(r) PROVE Watermark'
  <2>1. /\ run[r].pc = "fetched"
        /\ Settle(r)
        /\ UNCHANGED <<server, hints, heard>>
    BY <1>13 DEF AfterFetch
  <2>2. CASE run[r].aborted
    BY <1>13, <2>1, <2>2, SettleFetchesNothing, WatermarkKept DEF AfterFetch
  <2>3. CASE ~run[r].aborted /\ Regresses(run[r].read)
    <3>1. view'.status = "error" /\ floor' = floor
      BY <1>2, <1>13, <2>3 DEF AfterFetch
    <3> QED BY <2>1, <3>1, SettleFetchesNothing, WatermarkKept
  <2>4. CASE ~run[r].aborted /\ ~Regresses(run[r].read)
    <3>1. Accept(r)
      BY <1>13, <2>4 DEF AfterFetch
    <3>2. CASE run[r].read < floor
      <4>1. view'.status = "stale" /\ floor' = floor
        BY <3>1, <3>2 DEF Accept
      <4> QED BY <2>1, <4>1, SettleFetchesNothing, WatermarkKept
    <3>3. CASE ~(run[r].read < floor)
      <4>1. view'.snapshot = run[r].read
        BY <3>1 DEF Accept
      <4>2. run[r].read \in Nat /\ floor \in Nat /\ heard \in Nat
        BY <1>1 DEF SourceTypeOK, Executions
      <4>3. run[r].read + Lag >= heard
        BY <2>1, <2>4, <3>3, <4>2, SourceAssumption DEF Watermark, ReadsReachHints
      <4>4. ReadyCoversHints'
        BY <2>1, <4>1, <4>2, <4>3, SourceAssumption DEF ReadyCoversHints
      <4>5. current' = NoRun /\ OneLiveRun'
        BY <2>1, <2>4, SettleKeeps
      <4>6. ReadsReachHints'
        BY <4>5, SourceAssumption DEF OneLiveRun, ReadsReachHints
      <4> QED BY <2>1, <4>4, <4>6 DEF Watermark, HintsPublished
    <3> QED BY <3>2, <3>3
  <2> QED BY <2>2, <2>3, <2>4
<1>14. ASSUME RefreshTimesOut PROVE Watermark'
  <2>1. /\ UNCHANGED <<server, hints, floor, heard>>
        /\ view'.status # "ready"
        /\ current \in Runs
    BY <1>1, <1>14 DEF RefreshTimesOut, Cleared, SourceTypeOK
  <2> DEFINE abandoned == [run EXCEPT ![current] = [run[current] EXCEPT !.aborted = TRUE]]
  <2>2. /\ abandoned \in [Runs -> Executions]
        /\ abandoned[current].aborted
        /\ \A x \in Runs \ {current} : abandoned[x] = run[x]
    <3>1. run \in [Runs -> Executions] /\ run[current] \in Executions
      BY <1>1, <2>1 DEF SourceTypeOK
    <3>2. /\ [run[current] EXCEPT !.aborted = TRUE] \in Executions
          /\ [run[current] EXCEPT !.aborted = TRUE].aborted
      BY <3>1 DEF Executions
    <3> QED BY <2>1, <3>1, <3>2
  <2>3. PICK n \in Runs \ {current} :
           IF reauthorize
           THEN run' = [abandoned EXCEPT ![n] = NewRun] /\ current' = n
           ELSE run' = abandoned /\ current' = NoRun
    BY <1>14, Zenon DEF RefreshTimesOut
  <2> HIDE DEF abandoned
  <2>4. run' = [abandoned EXCEPT ![n] = NewRun] \/ run' = abandoned
    BY <2>3, Zenon
  <2>5. \A x \in Runs : run'[x] = NewRun \/ run'[x] = abandoned[x]
    BY <2>2, <2>4
  <2>6. NewRun.pc # "fetched"
    BY DEF NewRun, IdleRun
  <2> QED BY <2>1, <2>2, <2>5, <2>6, WatermarkKept
<1>15. ASSUME SourceChanges PROVE Watermark'
  <2>1. /\ server'.revision = server.revision + 1
        /\ hints' = hints \cup {server.revision + 1}
        /\ UNCHANGED <<floor, heard, view, run>>
    BY <1>1, <1>15 DEF SourceChanges, clientVars, SourceTypeOK
  <2>2. server.revision \in Nat /\ heard \in Nat /\ hints \subseteq Nat
    BY <1>1 DEF SourceTypeOK
  <2>3. HintsPublished'
    BY <2>1, <2>2 DEF Watermark, HintsPublished
  <2> QED BY <2>1, <2>3 DEF Watermark, ReadsReachHints, ReadyCoversHints
<1>16. ASSUME Tick PROVE Watermark'
  <2>1. /\ UNCHANGED <<server, hints, floor, heard, run>>
        /\ view'.snapshot = view.snapshot
        /\ view'.status = view.status
    BY <1>1, <1>16 DEF Tick, SourceTypeOK
  <2> QED BY <2>1, WatermarkKept
<1> QED
  BY <1>3, <1>4, <1>5, <1>6, <1>7, <1>8, <1>9, <1>10, <1>11, <1>12, <1>13, <1>14,
     <1>15, <1>16
  DEF SourceNext, Signal, RunStep

(* A ready view has reached every hint handled since authorization was last *)
(* lost, but for the lag of the source, whatever the order of the hints and *)
(* however many refreshes were abandoned.                                   *)
THEOREM ReadyReachesHints == SourceSpec => []ReadyCoversHints
<1>1. SourceInit => Watermark
  <2> SUFFICES ASSUME SourceInit PROVE Watermark
    OBVIOUS
  <2>1. HintsPublished
    BY DEF SourceInit, HintsPublished
  <2>2. ReadsReachHints
    BY DEF SourceInit, ReadsReachHints
  <2>3. ReadyCoversHints
    BY DEF SourceInit, ReadyCoversHints
  <2> QED BY <2>1, <2>2, <2>3 DEF Watermark
<1>2. Watermark /\ UNCHANGED sourceVars => Watermark'
  BY DEF sourceVars, Watermark, HintsPublished, ReadsReachHints, ReadyCoversHints
<1>3. SourceInv /\ Watermark /\ [SourceNext]_sourceVars => Watermark'
  BY <1>2, WatermarkStep
<1>4. Watermark => ReadyCoversHints
  BY DEF Watermark
<1> QED BY <1>1, <1>3, <1>4, SourceInvariant, PTL DEF SourceSpec

-----------------------------------------------------------------------------
(* The outbox. *)

Working(w) == call[w].pc \in {"subscriber", "checkpoint", "deliver", "fail"}

(* A call that works has an attempt of an event, any other has no event.    *)
CallsHaveAttempts ==
    \A w \in Callers :
        /\ Working(w) => /\ call[w].event \in Events
                         /\ call[w].attempt \in 1..row[call[w].event].attempts
                         /\ call[w].ceiling \in Ceilings
        /\ ~Working(w) => call[w].event = NoEvent /\ ~call[w].seen

(* The holder of a claim works on the latest attempt.                       *)
HolderIsLatest ==
    \A w \in Callers :
        Working(w) /\ row[call[w].event].token = w
            => call[w].attempt = row[call[w].event].attempts

DistinctAttempts ==
    \A w \in Callers : \A x \in Callers \ {w} :
        Working(w) /\ Working(x) /\ call[w].event = call[x].event
            => call[w].attempt # call[x].attempt

(* Only attempts that were handed out have published.                       *)
PublishedCounted == \A e \in Events : published[e] \subseteq 1..row[e].attempts

(* What the call's place says about the publication of its attempt.         *)
CallsKnowPublication ==
    \A w \in Callers :
        /\ call[w].pc = "subscriber" => call[w].attempt \notin published[call[w].event]
        /\ call[w].pc = "checkpoint" => call[w].attempt \in published[call[w].event]
        /\ call[w].pc = "deliver" /\ call[w].event \in Projected
               => published[call[w].event] # {}
        /\ Working(w) /\ call[w].seen => row[call[w].event].checkpoint # 0

(* A call that has not seen a stored checkpoint began before it.            *)
UnseenIsEarlier ==
    \A w \in Callers :
        /\ call[w].pc = "subscriber"
        /\ ~call[w].seen
        /\ row[call[w].event].checkpoint # 0
        => call[w].attempt <= row[call[w].event].checkpoint

Facts ==
    /\ CallsHaveAttempts
    /\ HolderIsLatest
    /\ DistinctAttempts
    /\ PublishedCounted
    /\ CallsKnowPublication
    /\ UnseenIsEarlier
    /\ DeliveredWasPublished
    /\ CheckpointStopsPublication
    /\ DeadLetterIsExhausted

OutboxInv == TypeOK /\ Facts

-----------------------------------------------------------------------------
(* A row that is settled, released or left alone, by calls that end or go   *)
(* on to deliver or to fail.                                                *)
LEMMA CallsProceed ==
    ASSUME OutboxInv, TypeOK',
           UNCHANGED published,
           \A e \in Events : /\ row'[e].attempts = row[e].attempts
                             /\ row'[e].checkpoint = row[e].checkpoint
                             /\ row'[e].token \in {row[e].token, NoCaller},
           \A e \in Events \cap Projected :
               row'[e].status = "delivered" => published[e] # {},
           \A e \in Events : row'[e].status = "dead-letter" =>
               \E c \in Ceilings : row[e].attempts >= c,
           \A w \in Callers :
               \/ call'[w] = call[w]
               \/ call'[w].pc \in {"idle", "claim"} /\ call'[w].event = NoEvent
                                                   /\ ~call'[w].seen
               \/ /\ Working(w)
                  /\ call'[w] = [call[w] EXCEPT !.pc = "fail"]
               \/ /\ Working(w)
                  /\ call'[w] = [call[w] EXCEPT !.pc = "deliver"]
                  /\ call[w].event \in Projected => published[call[w].event] # {}
    PROVE  Facts'
<1> USE DEF OutboxInv, Facts
<1>1. \A w \in Callers :
         /\ Working(w)' => /\ Working(w)
                           /\ call'[w].event = call[w].event
                           /\ call'[w].attempt = call[w].attempt
                           /\ call'[w].ceiling = call[w].ceiling
                           /\ call'[w].seen = call[w].seen
                           /\ call'[w].event \in Events
         /\ ~Working(w)' => call'[w].event = NoEvent /\ ~call'[w].seen
  BY DEF TypeOK, Calls, Working, CallsHaveAttempts
<1>2. \A w \in Callers :
         /\ call'[w].pc = "subscriber" => call[w].pc = "subscriber"
         /\ call'[w].pc = "checkpoint" => call[w].pc = "checkpoint"
         /\ call'[w].pc = "deliver" /\ call'[w].event \in Projected
                => published[call[w].event] # {}
  BY DEF TypeOK, Calls, Working, CallsKnowPublication
<1>3. CallsHaveAttempts'
  BY <1>1 DEF CallsHaveAttempts
<1>4. HolderIsLatest'
  BY <1>1, OutboxAssumption DEF HolderIsLatest
<1>5. DistinctAttempts'
  BY <1>1 DEF DistinctAttempts
<1>6. PublishedCounted'
  BY DEF PublishedCounted
<1>7. CallsKnowPublication'
  BY <1>1, <1>2 DEF CallsKnowPublication, Working
<1>8. UnseenIsEarlier'
  BY <1>1, <1>2 DEF UnseenIsEarlier, Working
<1>9. DeliveredWasPublished'
  BY DEF DeliveredWasPublished
<1>10. CheckpointStopsPublication'
  BY DEF CheckpointStopsPublication
<1>11. DeadLetterIsExhausted'
  BY DEF DeadLetterIsExhausted
<1> QED BY <1>3, <1>4, <1>5, <1>6, <1>7, <1>8, <1>9, <1>10, <1>11

(* A publication, whatever the call does next.                              *)
LEMMA Publishes ==
    ASSUME OutboxInv, TypeOK', NEW w \in Callers,
           call[w].pc = "subscriber",
           ~call[w].seen,
           published' = [published EXCEPT
                           ![call[w].event] = @ \cup {call[w].attempt}],
           call'[w] \in {[call[w] EXCEPT !.pc = "checkpoint"],
                         [call[w] EXCEPT !.pc = "fail"]},
           \A x \in Callers \ {w} : call'[x] = call[x],
           UNCHANGED row
    PROVE  Facts'
<1> USE DEF OutboxInv, Facts
<1> DEFINE e == call[w].event
           n == call[w].attempt
<1>1. /\ Working(w)
      /\ e \in Events
      /\ n \in 1..row[e].attempts
      /\ n \notin published[e]
  BY DEF Working, CallsHaveAttempts, CallsKnowPublication
<1>2. /\ published'[e] = published[e] \cup {n}
      /\ \A f \in Events \ {e} : published'[f] = published[f]
  BY <1>1 DEF TypeOK
<1>3. /\ call'[w].event = e
      /\ call'[w].attempt = n
      /\ call'[w].ceiling = call[w].ceiling
      /\ call'[w].seen = call[w].seen
      /\ call'[w].pc \in {"checkpoint", "fail"}
  BY DEF TypeOK, Calls
<1>4. \A x \in Callers : x # w /\ Working(x) /\ call[x].event = e => call[x].attempt # n
  BY <1>1 DEF DistinctAttempts
<1> HIDE DEF e, n
<1>5. CallsHaveAttempts'
  BY <1>1, <1>3 DEF CallsHaveAttempts, Working, e, n
<1>6. HolderIsLatest'
  BY <1>1, <1>3 DEF HolderIsLatest, Working, e, n
<1>7. DistinctAttempts'
  BY <1>1, <1>3 DEF DistinctAttempts, Working, e, n
<1>8. PublishedCounted'
  BY <1>1, <1>2 DEF PublishedCounted
<1>9. CallsKnowPublication'
  <2>1. ASSUME NEW x \in Callers \ {w}
        PROVE  /\ call[x].pc = "subscriber" =>
                      call[x].attempt \notin published'[call[x].event]
               /\ call[x].pc = "checkpoint" =>
                      call[x].attempt \in published'[call[x].event]
               /\ call[x].pc = "deliver" /\ call[x].event \in Projected =>
                      published'[call[x].event] # {}
    BY <1>1, <1>2, <1>4
    DEF CallsKnowPublication, CallsHaveAttempts, Working
  <2>2. \A x \in Callers \ {w} : Working(x)' /\ call'[x].seen =>
            row'[call'[x].event].checkpoint # 0
    BY DEF CallsKnowPublication, Working
  <2> QED BY <1>2, <1>3, <2>1, <2>2 DEF CallsKnowPublication, Working, e, n
<1>10. UnseenIsEarlier'
  BY <1>3 DEF UnseenIsEarlier
<1>11. DeliveredWasPublished'
  BY <1>1, <1>2 DEF DeliveredWasPublished
<1>12. CheckpointStopsPublication'
  BY <1>1, <1>2 DEF CheckpointStopsPublication, UnseenIsEarlier, e, n
<1>13. DeadLetterIsExhausted'
  BY DEF DeadLetterIsExhausted
<1> QED BY <1>5, <1>6, <1>7, <1>8, <1>9, <1>10, <1>11, <1>12, <1>13

(* A claim hands out the next attempt, and shows the stored checkpoint.     *)
LEMMA ClaimsNext ==
    ASSUME OutboxInv, NEW w \in Callers, NEW e \in Events, NEW n \in Nat,
           n = row[e].attempts + 1,
           /\ row'[e].status = "processing"
           /\ row'[e].attempts = n
           /\ row'[e].token = w
           /\ row'[e].checkpoint = row[e].checkpoint
           /\ \A f \in Events \ {e} : row'[f] = row[f],
           /\ call'[w].pc = "subscriber"
           /\ call'[w].event = e
           /\ call'[w].attempt = n
           /\ call'[w].ceiling \in Ceilings
           /\ call'[w].seen <=> row[e].checkpoint # 0
           /\ \A x \in Callers \ {w} : call'[x] = call[x],
           UNCHANGED published
    PROVE  Facts'
<1> USE DEF OutboxInv, Facts
<1>1. row[e].attempts \in Nat
  BY DEF TypeOK, Rows
<1>2. \A x \in Callers : Working(x) /\ call[x].event = e => call[x].attempt < n
  BY <1>1 DEF CallsHaveAttempts
<1>3. \A m \in published[e] : m \in Nat /\ m < n
  BY <1>1 DEF PublishedCounted
<1>4. row[e].attempts < n /\ n >= 1
  BY <1>1
<1>5. CallsHaveAttempts'
  <2>1. ASSUME NEW x \in Callers \ {w}, Working(x)
        PROVE  call[x].attempt \in 1..row'[call[x].event].attempts
    <3>1. call[x].event \in Events /\ call[x].attempt \in 1..row[call[x].event].attempts
      BY <2>1 DEF CallsHaveAttempts
    <3>2. CASE call[x].event = e
      BY <1>1, <1>4, <3>1, <3>2
    <3>3. CASE call[x].event # e
      BY <3>1, <3>3
    <3> QED BY <3>2, <3>3
  <2>2. ASSUME NEW x \in Callers \ {w}
        PROVE  /\ Working(x)' <=> Working(x)
               /\ Working(x) => call[x].event \in Events /\ call[x].ceiling \in Ceilings
               /\ ~Working(x) => call[x].event = NoEvent /\ ~call[x].seen
    BY DEF CallsHaveAttempts, Working
  <2>3. Working(w)' /\ n \in 1..n
    BY <1>4 DEF Working
  <2> QED BY <2>1, <2>2, <2>3 DEF CallsHaveAttempts
<1>6. HolderIsLatest'
  <2>1. ASSUME NEW x \in Callers \ {w}, Working(x), row'[call[x].event].token = x
        PROVE  call[x].attempt = row'[call[x].event].attempts
    <3>1. call[x].event \in Events
      BY <2>1 DEF CallsHaveAttempts
    <3>2. call[x].event # e
      BY <2>1
    <3> QED BY <2>1, <3>1, <3>2 DEF HolderIsLatest
  <2> QED BY <2>1 DEF HolderIsLatest, Working
<1>7. DistinctAttempts'
  <2>1. \A x \in Callers : Working(x) /\ call[x].event = e => call[x].attempt # n
    BY <1>1, <1>2, <1>4 DEF CallsHaveAttempts
  <2> QED BY <2>1 DEF DistinctAttempts, Working
<1>8. PublishedCounted'
  BY <1>1, <1>4 DEF PublishedCounted
<1>9. CallsKnowPublication'
  <2>1. n \notin published[e]
    BY <1>3, <1>4
  <2>2. ASSUME NEW x \in Callers \ {w}, Working(x)
        PROVE  row'[call[x].event].checkpoint = row[call[x].event].checkpoint
    BY <2>2 DEF CallsHaveAttempts
  <2>3. \A x \in Callers \ {w} : Working(x)' <=> Working(x)
    BY DEF Working
  <2> QED BY <2>1, <2>2, <2>3 DEF CallsKnowPublication
<1>10. UnseenIsEarlier'
  <2>1. ASSUME NEW x \in Callers \ {w}, call[x].pc = "subscriber"
        PROVE  row'[call[x].event].checkpoint = row[call[x].event].checkpoint
    BY <2>1 DEF CallsHaveAttempts, Working
  <2> QED BY <2>1 DEF UnseenIsEarlier
<1>11. DeliveredWasPublished' /\ CheckpointStopsPublication'
  BY DEF DeliveredWasPublished, CheckpointStopsPublication
<1>12. DeadLetterIsExhausted'
  BY DEF DeadLetterIsExhausted
<1> QED BY <1>5, <1>6, <1>7, <1>8, <1>9, <1>10, <1>11, <1>12

(* The holder stores its attempt as the checkpoint: no attempt is later.    *)
LEMMA StoresLatest ==
    ASSUME OutboxInv, NEW w \in Callers,
           NEW e \in Events, NEW n \in Nat,
           e = call[w].event,
           n = call[w].attempt,
           call[w].pc = "checkpoint",
           Owns(w),
           /\ row'[e].checkpoint = n
           /\ \A f \in Events : /\ row'[f].attempts = row[f].attempts
                                 /\ row'[f].status = row[f].status
                                 /\ row'[f].token = row[f].token
           /\ \A f \in Events \ {e} : row'[f] = row[f],
           /\ call'[w].pc \in {"deliver", "fail"}
           /\ call'[w].event = e
           /\ call'[w].attempt = n
           /\ call'[w].ceiling = call[w].ceiling
           /\ call'[w].seen = call[w].seen
           /\ \A x \in Callers \ {w} : call'[x] = call[x],
           UNCHANGED published
    PROVE  Facts'
<1> USE DEF OutboxInv, Facts
<1>1. /\ Working(w)
      /\ n = row[e].attempts
      /\ n >= 1
      /\ n \in published[e]
  BY DEF Working, CallsHaveAttempts, HolderIsLatest, CallsKnowPublication, Owns
<1>2. \A x \in Callers : Working(x)' <=> Working(x)
  BY DEF Working
<1>3. \A x \in Callers : Working(x) /\ call[x].event = e => call[x].attempt <= n
  BY <1>1 DEF CallsHaveAttempts
<1>4. CallsHaveAttempts'
  BY <1>1, <1>2 DEF CallsHaveAttempts
<1>5. HolderIsLatest'
  BY <1>1, <1>2 DEF HolderIsLatest, CallsHaveAttempts
<1>6. DistinctAttempts'
  <2>1. \A x \in Callers :
            call'[x].event = call[x].event /\ call'[x].attempt = call[x].attempt
    OBVIOUS
  <2> QED BY <1>2, <2>1 DEF DistinctAttempts
<1>7. PublishedCounted'
  BY DEF PublishedCounted
<1>8. CallsKnowPublication'
  <2>1. ASSUME NEW x \in Callers, Working(x)
        PROVE  row[call[x].event].checkpoint # 0 => row'[call[x].event].checkpoint # 0
    BY <1>1, <2>1 DEF CallsHaveAttempts
  <2> QED BY <1>1, <1>2, <2>1 DEF CallsKnowPublication
<1>9. UnseenIsEarlier'
  <2>1. ASSUME NEW x \in Callers \ {w}, call[x].pc = "subscriber", call[x].event # e
        PROVE  row'[call[x].event] = row[call[x].event]
    BY <2>1 DEF CallsHaveAttempts, Working
  <2>2. ASSUME NEW x \in Callers \ {w}, call[x].pc = "subscriber", call[x].event = e
        PROVE  call[x].attempt <= n
    BY <1>3, <2>2 DEF Working
  <2> QED BY <2>1, <2>2 DEF UnseenIsEarlier
<1>10. DeliveredWasPublished'
  BY <1>1 DEF DeliveredWasPublished
<1>11. CheckpointStopsPublication'
  BY <1>1 DEF CheckpointStopsPublication, PublishedCounted
<1>12. DeadLetterIsExhausted'
  BY DEF DeadLetterIsExhausted
<1> QED BY <1>4, <1>5, <1>6, <1>7, <1>8, <1>9, <1>10, <1>11, <1>12

(* A new event begins with nothing, and no call works on it.                *)
LEMMA InsertsFresh ==
    ASSUME OutboxInv, TypeOK', NEW e \in Events, Insert(e)
    PROVE  Facts'
<1> USE DEF OutboxInv, Facts
<1>1. /\ row'[e] = NewRow
      /\ published'[e] = {}
      /\ \A f \in Events \ {e} : row'[f] = row[f] /\ published'[f] = published[f]
      /\ call' = call
      /\ \A w \in Callers : call[w].event # e
  BY DEF Insert, TypeOK
<1>2. /\ NewRow.status = "pending"
      /\ NewRow.checkpoint = 0
  BY DEF NewRow
<1>3. CallsHaveAttempts' /\ HolderIsLatest' /\ DistinctAttempts'
  BY <1>1 DEF CallsHaveAttempts, HolderIsLatest, DistinctAttempts, Working
<1>4. PublishedCounted'
  BY <1>1 DEF PublishedCounted
<1>5. CallsKnowPublication' /\ UnseenIsEarlier'
  BY <1>1 DEF CallsKnowPublication, UnseenIsEarlier, CallsHaveAttempts, Working
<1>6. DeliveredWasPublished' /\ CheckpointStopsPublication' /\ DeadLetterIsExhausted'
  BY <1>1, <1>2
  DEF DeliveredWasPublished, CheckpointStopsPublication, DeadLetterIsExhausted
<1> QED BY <1>3, <1>4, <1>5, <1>6

-----------------------------------------------------------------------------
(* A row that changes, or its place in the order, keeps the shape.          *)
LEMMA TypeOfRows ==
    ASSUME TypeOK, NEW e \in Events,
           row' \in [Events -> Rows],
           \A f \in Events \ {e} : row'[f] = row[f],
           \E c \in Ceilings \cup {0} : row'[e].attempts <= c,
           row'[e].status = "processing" <=> row'[e].token # NoCaller,
           Leaves(e) \/ Enters(e) \/ UNCHANGED <<due, ahead>>,
           call' \in [Callers -> Calls],
           published' \in [Events -> SUBSET Nat],
           faults' \in 0..MaxFaults
    PROVE  TypeOK'
<1>1. \A f \in Events : \E c \in Ceilings \cup {0} : row'[f].attempts <= c
  BY DEF TypeOK
<1>2. \A f \in Events : row'[f].status = "processing" <=> row'[f].token # NoCaller
  BY DEF TypeOK
<1>3. due' \subseteq Events /\ ahead' \in [Events -> SUBSET Events]
  BY DEF TypeOK, Leaves, Enters
<1> QED BY <1>1, <1>2, <1>3 DEF TypeOK

(* What a row is once its claim is released.                                *)
LEMMA RowReleased ==
    ASSUME TypeOK, NEW e \in Events, NEW status \in {"pending", "delivered", "dead-letter"},
           row' = [row EXCEPT ![e].status = status, ![e].token = NoCaller]
    PROVE  /\ row'[e].status = status
           /\ row'[e].attempts = row[e].attempts
           /\ row'[e].token = NoCaller
           /\ row'[e].checkpoint = row[e].checkpoint
           /\ \A f \in Events \ {e} : row'[f] = row[f]
           /\ row' \in [Events -> Rows]
<1>1. row \in [Events -> Rows] /\ row[e] \in Rows
  BY DEF TypeOK
<1>2. /\ row'[e].status = status
      /\ row'[e].token = NoCaller
      /\ row'[e].attempts = row[e].attempts
      /\ row'[e].checkpoint = row[e].checkpoint
  BY <1>1 DEF Rows
<1>3. \A f \in Events \ {e} : row'[f] = row[f]
  BY <1>1
<1>4. row' \in [Events -> Rows]
  BY <1>1 DEF Rows
<1> QED BY <1>2, <1>3, <1>4

(* So does a step that leaves the rows alone.                               *)
LEMMA TypeOfCalls ==
    ASSUME TypeOK,
           UNCHANGED row,
           due' \subseteq Events /\ ahead' \in [Events -> SUBSET Events],
           call' \in [Callers -> Calls],
           published' \in [Events -> SUBSET Nat],
           faults' \in 0..MaxFaults
    PROVE  TypeOK'
BY DEF TypeOK

-----------------------------------------------------------------------------
(* It holds at first: no row and no call.                                   *)
LEMMA InitOutbox == Init => OutboxInv
<1> SUFFICES ASSUME Init PROVE OutboxInv
  OBVIOUS
<1> DEFINE absent == [status |-> "absent", attempts |-> 0, token |-> NoCaller,
                      checkpoint |-> 0]
<1>1. row = [e \in Events |-> absent] /\ absent \in Rows
  BY DEF Init, NewRow, Rows
<1>2. /\ NoCall \in Calls
      /\ NoCall.pc = "idle" /\ NoCall.event = NoEvent /\ ~NoCall.seen
  BY DEF NoCall, Calls
<1>3. TypeOK
  <2>1. row \in [Events -> Rows]
    BY <1>1
  <2>2. \A e \in Events : \E c \in Ceilings \cup {0} : row[e].attempts <= c
    <3>1. \A e \in Events : row[e].attempts = 0
      BY <1>1
    <3>2. 0 \in Ceilings \cup {0} /\ 0 <= 0
      OBVIOUS
    <3> QED BY <3>1, <3>2
  <2>3. \A e \in Events : row[e].status = "processing" <=> row[e].token # NoCaller
    BY <1>1
  <2>4. call \in [Callers -> Calls]
    BY <1>2 DEF Init
  <2> QED BY <2>1, <2>2, <2>3, <2>4, OutboxAssumption DEF Init, TypeOK
<1>4. \A w \in Callers : call[w] = NoCall
  BY DEF Init
<1>5. \A e \in Events : row[e] = absent /\ published[e] = {}
  BY <1>1 DEF Init
<1>6. /\ CallsHaveAttempts /\ HolderIsLatest /\ DistinctAttempts
      /\ CallsKnowPublication /\ UnseenIsEarlier
  BY <1>2, <1>4
  DEF CallsHaveAttempts, HolderIsLatest, DistinctAttempts, CallsKnowPublication,
      UnseenIsEarlier, Working
<1>7. /\ PublishedCounted /\ DeliveredWasPublished /\ CheckpointStopsPublication
      /\ DeadLetterIsExhausted
  BY <1>5
  DEF PublishedCounted, DeliveredWasPublished, CheckpointStopsPublication,
      DeadLetterIsExhausted
<1> QED BY <1>3, <1>6, <1>7 DEF OutboxInv, Facts

(* Every step keeps the invariant.                                          *)
LEMMA OutboxStep ==
    ASSUME OutboxInv, Next
    PROVE  OutboxInv'
<1> USE DEF OutboxInv
<1>1. /\ NoCall \in Calls
      /\ NoCall.pc = "idle" /\ NoCall.event = NoEvent /\ ~NoCall.seen
  BY DEF NoCall, Calls
<1>2. ASSUME NEW w \in Callers, NEW pc \in {"checkpoint", "deliver", "fail"}, To(w, pc)
      PROVE  /\ call' \in [Callers -> Calls]
             /\ call'[w] = [call[w] EXCEPT !.pc = pc]
             /\ \A x \in Callers \ {w} : call'[x] = call[x]
  <2>1. call' = [call EXCEPT ![w] = [call[w] EXCEPT !.pc = pc]]
    BY <1>2 DEF To
  <2>2. [call[w] EXCEPT !.pc = pc] \in Calls
    BY DEF TypeOK, Calls
  <2> QED BY <2>1, <2>2 DEF TypeOK
<1>3. ASSUME NEW w \in Callers, call' = [call EXCEPT ![w] = NoCall]
      PROVE  /\ call' \in [Callers -> Calls]
             /\ call'[w] = NoCall
             /\ \A x \in Callers \ {w} : call'[x] = call[x]
  BY <1>1, <1>3 DEF TypeOK
<1>4. ASSUME NEW e \in Events, NEW status \in {"pending", "delivered", "dead-letter"},
             row' = [row EXCEPT ![e].status = status, ![e].token = NoCaller],
             Leaves(e),
             status = "delivered" /\ e \in Projected => published[e] # {},
             status = "dead-letter" => \E c \in Ceilings : row[e].attempts >= c,
             UNCHANGED published,
             call' \in [Callers -> Calls],
             faults' \in 0..MaxFaults,
             \A x \in Callers :
                \/ call'[x] = call[x]
                \/ call'[x].pc = "idle" /\ call'[x].event = NoEvent /\ ~call'[x].seen
                \/ Working(x) /\ call'[x] = [call[x] EXCEPT !.pc = "fail"]
      PROVE  OutboxInv'
  <2>1. /\ row'[e].status = status
        /\ row'[e].attempts = row[e].attempts
        /\ row'[e].token = NoCaller
        /\ row'[e].checkpoint = row[e].checkpoint
        /\ \A f \in Events \ {e} : row'[f] = row[f]
        /\ row' \in [Events -> Rows]
    BY <1>4, RowReleased
  <2>2. \E c \in Ceilings \cup {0} : row'[e].attempts <= c
    BY <2>1 DEF TypeOK
  <2>3. published' \in [Events -> SUBSET Nat]
    BY <1>4 DEF TypeOK
  <2>4. TypeOK'
    BY <1>4, <2>1, <2>2, <2>3, TypeOfRows
  <2>5. \A f \in Events : /\ row'[f].attempts = row[f].attempts
                          /\ row'[f].checkpoint = row[f].checkpoint
                          /\ row'[f].token \in {row[f].token, NoCaller}
    BY <2>1
  <2>6. \A f \in Events \cap Projected :
            row'[f].status = "delivered" => published[f] # {}
    BY <1>4, <2>1 DEF Facts, DeliveredWasPublished
  <2>7. \A f \in Events : row'[f].status = "dead-letter" =>
            \E c \in Ceilings : row[f].attempts >= c
    BY <1>4, <2>1 DEF Facts, DeadLetterIsExhausted
  <2> QED BY <1>4, <2>4, <2>5, <2>6, <2>7, CallsProceed
<1>5. \A e \in Events : /\ row[e].attempts \in Nat
                        /\ row[e].checkpoint \in Nat
                        /\ \E c \in Ceilings \cup {0} : row[e].attempts <= c
  BY DEF TypeOK, Rows
<1>6. \A w \in Callers : Working(w) => call[w].event \in Events
  BY DEF Facts, CallsHaveAttempts
<1>7. /\ \A e \in Events \cap Projected :
             row[e].status = "delivered" => published[e] # {}
      /\ \A e \in Events : row[e].status = "dead-letter" =>
             \E c \in Ceilings : row[e].attempts >= c
  BY DEF Facts, DeliveredWasPublished, DeadLetterIsExhausted
<1>8. ASSUME NEW e \in Events, Insert(e) PROVE OutboxInv'
  <2>1. row' = [row EXCEPT ![e] = [status |-> "pending", attempts |-> 0,
                                   token |-> NoCaller, checkpoint |-> 0]]
    BY <1>8 DEF Insert, NewRow
  <2>2. /\ call' \in [Callers -> Calls]
        /\ published' \in [Events -> SUBSET Nat]
        /\ faults' \in 0..MaxFaults
        /\ Enters(e)
    BY <1>8 DEF Insert, TypeOK
  <2>3. /\ row'[e].status = "pending" /\ row'[e].attempts = 0
        /\ row'[e].token = NoCaller
        /\ \A f \in Events \ {e} : row'[f] = row[f]
        /\ row' \in [Events -> Rows]
    BY <2>1 DEF TypeOK, Rows
  <2>4. \E c \in Ceilings \cup {0} : row'[e].attempts <= c
    BY <2>3
  <2>5. TypeOK'
    BY <2>2, <2>3, <2>4, TypeOfRows
  <2> QED BY <1>8, <2>5, InsertsFresh
<1>9. ASSUME NEW e \in Events, BecomesDue(e) PROVE OutboxInv'
  <2>1. UNCHANGED <<row, call, published, faults>>
        /\ due' \subseteq Events /\ ahead' \in [Events -> SUBSET Events]
    BY <1>9 DEF BecomesDue, Enters, TypeOK
  <2>2. TypeOK'
    BY <2>1, TypeOfCalls DEF TypeOK
  <2> QED BY <1>7, <2>1, <2>2, CallsProceed
<1>10. ASSUME NEW w \in Callers, NEW ceiling \in Ceilings,
              DeadLetterExhaustedClaim(w, ceiling)
       PROVE  OutboxInv'
  <2>1. CASE Exhausted(ceiling) = {}
    <3>1. /\ UNCHANGED <<row, due, ahead, published, faults>>
          /\ call' = [call EXCEPT ![w] = [NoCall EXCEPT !.pc = "claim",
                                                        !.ceiling = ceiling]]
      BY <1>10, <2>1 DEF DeadLetterExhaustedClaim
    <3> DEFINE claiming == [NoCall EXCEPT !.pc = "claim", !.ceiling = ceiling]
    <3>2. /\ claiming \in Calls
          /\ claiming.pc = "claim" /\ claiming.event = NoEvent /\ ~claiming.seen
      BY DEF NoCall, Calls
    <3> HIDE DEF claiming
    <3>3. /\ call' \in [Callers -> Calls]
          /\ call'[w] = claiming
          /\ \A x \in Callers \ {w} : call'[x] = call[x]
      BY <3>1, <3>2 DEF TypeOK, claiming
    <3>4. TypeOK'
      BY <3>1, <3>3, TypeOfCalls DEF TypeOK
    <3> QED BY <1>7, <3>1, <3>2, <3>3, <3>4, CallsProceed
  <2>2. CASE Exhausted(ceiling) # {}
    <3>1. PICK e \in Exhausted(ceiling) :
             /\ row' = [row EXCEPT ![e].status = "dead-letter", ![e].token = NoCaller]
             /\ Leaves(e)
      BY <1>10, <2>2 DEF DeadLetterExhaustedClaim
    <3>2. e \in Events /\ row[e].attempts >= ceiling
      BY DEF Exhausted
    <3>3. UNCHANGED <<call, published, faults>>
      BY <1>10, <2>2 DEF DeadLetterExhaustedClaim
    <3>4. \E c \in Ceilings : row[e].attempts >= c
      BY <3>2
    <3>5. call' \in [Callers -> Calls] /\ faults' \in 0..MaxFaults
      BY <3>3 DEF TypeOK
    <3> QED BY <1>4, <3>1, <3>2, <3>3, <3>4, <3>5
  <2> QED BY <2>1, <2>2
<1>11. ASSUME NEW w \in Callers, Claim(w) PROVE OutboxInv'
  <2>1. CASE Claimable(call[w].ceiling) = {}
    <3>1. UNCHANGED <<row, due, ahead, published, faults>>
          /\ call' = [call EXCEPT ![w] = NoCall]
      BY <1>11, <2>1 DEF Claim
    <3>2. TypeOK'
      BY <1>3, <3>1, TypeOfCalls DEF TypeOK
    <3> QED BY <1>1, <1>3, <1>7, <3>1, <3>2, CallsProceed
  <2>2. CASE Claimable(call[w].ceiling) # {}
    <3>1. PICK e \in Claimable(call[w].ceiling) :
             /\ row' = [row EXCEPT ![e].status = "processing",
                                   ![e].attempts = row[e].attempts + 1,
                                   ![e].token = w]
             /\ call' = [call EXCEPT ![w] =
                           [pc |-> "subscriber", event |-> e,
                            attempt |-> row[e].attempts + 1,
                            ceiling |-> call[w].ceiling,
                            seen |-> row[e].checkpoint # 0]]
             /\ Leaves(e)
      BY <1>11, <2>2 DEF Claim
    <3>2. e \in Events /\ row[e].attempts < call[w].ceiling
      BY DEF Claimable, TypeOK
    <3>3. row[e].attempts \in Nat /\ row[e] \in Rows
      BY <3>2 DEF TypeOK, Rows
    <3>4. call[w].ceiling \in Ceilings /\ call[w].ceiling \in Nat
      <4>1. call[w].ceiling \in Ceilings \cup {0}
        BY DEF TypeOK, Calls
      <4>2. call[w].ceiling # 0
        BY <3>2, <3>3
      <4> QED BY <4>1, <4>2, OutboxAssumption
    <3>5. PICK n \in Nat : n = row[e].attempts + 1
      BY <3>3
    <3>6. n <= call[w].ceiling
      BY <3>2, <3>3, <3>4, <3>5
    <3>7. /\ row' = [row EXCEPT ![e] =
                       [status |-> "processing", attempts |-> n, token |-> w,
                        checkpoint |-> row[e].checkpoint]]
          /\ row'[e].status = "processing"
          /\ row'[e].attempts = n
          /\ row'[e].token = w
          /\ row'[e].checkpoint = row[e].checkpoint
          /\ \A f \in Events \ {e} : row'[f] = row[f]
      BY <3>1, <3>2, <3>3, <3>5 DEF TypeOK, Rows
    <3>8. /\ call' \in [Callers -> Calls]
          /\ call'[w].pc = "subscriber"
          /\ call'[w].event = e
          /\ call'[w].attempt = n
          /\ call'[w].ceiling \in Ceilings
          /\ call'[w].seen <=> row[e].checkpoint # 0
          /\ \A x \in Callers \ {w} : call'[x] = call[x]
      BY <3>1, <3>2, <3>4, <3>5 DEF TypeOK, Calls
    <3>9. UNCHANGED <<published, faults>>
      BY <1>11 DEF Claim
    <3>10. /\ row' \in [Events -> Rows]
           /\ row'[e].status = "processing" <=> row'[e].token # NoCaller
      BY <3>3, <3>5, <3>7, OutboxAssumption DEF TypeOK, Rows
    <3>11. \E c \in Ceilings \cup {0} : row'[e].attempts <= c
      BY <3>4, <3>6, <3>7
    <3>12. published' \in [Events -> SUBSET Nat] /\ faults' \in 0..MaxFaults
      BY <3>9 DEF TypeOK
    <3>13. TypeOK'
      BY <3>1, <3>2, <3>7, <3>8, <3>10, <3>11, <3>12, TypeOfRows
    <3> QED BY <3>2, <3>5, <3>7, <3>8, <3>9, <3>13, ClaimsNext
  <2> QED BY <2>1, <2>2

<1>12. ASSUME NEW w \in Callers, SkipPublication(w) PROVE OutboxInv'
  <2>1. /\ UNCHANGED <<row, due, ahead, published, faults>>
        /\ To(w, "deliver")
        /\ call[w].seen \/ call[w].event \notin Projected
        /\ Working(w)
    BY <1>12 DEF SkipPublication, Working
  <2>2. TypeOK'
    BY <1>2, <2>1, TypeOfCalls DEF TypeOK
  <2>3. call[w].event \in Projected => published[call[w].event] # {}
    BY <1>6, <2>1 DEF Facts, CallsKnowPublication, DeliveredWasPublished
  <2> QED BY <1>2, <1>7, <2>1, <2>2, <2>3, CallsProceed
<1>13. ASSUME NEW w \in Callers, NEW pc \in {"checkpoint", "fail"},
              call[w].pc = "subscriber",
              ~call[w].seen,
              published' = [published EXCEPT
                              ![call[w].event] = @ \cup {call[w].attempt}],
              To(w, pc),
              UNCHANGED <<row, due, ahead, faults>>
       PROVE  OutboxInv'
  <2>1. call[w].event \in Events /\ call[w].attempt \in Nat
    BY <1>6, <1>13 DEF Working, TypeOK, Calls
  <2>2. published' \in [Events -> SUBSET Nat]
    BY <1>13, <2>1 DEF TypeOK
  <2>3. /\ call' \in [Callers -> Calls]
        /\ call'[w] = [call[w] EXCEPT !.pc = pc]
        /\ \A x \in Callers \ {w} : call'[x] = call[x]
    BY <1>2, <1>13
  <2>4. TypeOK'
    BY <1>13, <2>2, <2>3, TypeOfCalls DEF TypeOK
  <2> QED BY <1>13, <2>3, <2>4, Publishes
<1>14. ASSUME NEW w \in Callers, Publish(w) PROVE OutboxInv'
  BY <1>13, <1>14 DEF Publish
<1>15. ASSUME NEW w \in Callers, Working(w), To(w, "fail"),
              UNCHANGED <<row, due, ahead, published>>,
              faults' \in 0..MaxFaults
       PROVE  OutboxInv'
  <2>1. TypeOK'
    BY <1>2, <1>15, TypeOfCalls DEF TypeOK
  <2> QED BY <1>2, <1>7, <1>15, <2>1, CallsProceed
<1>16. ASSUME NEW w \in Callers, SubscriberFails(w) PROVE OutboxInv'
  <2>1. CASE UNCHANGED published
    BY <1>15, <1>16, <2>1 DEF SubscriberFails, Working, TypeOK
  <2>2. CASE ~UNCHANGED published
    BY <1>13, <1>16, <2>2 DEF SubscriberFails
  <2> QED BY <2>1, <2>2
<1>17. ASSUME NEW w \in Callers, NEW pc \in {"deliver", "fail"},
              call[w].pc = "checkpoint",
              Owns(w), Stores(w), To(w, pc),
              UNCHANGED published,
              faults' \in 0..MaxFaults
       PROVE  OutboxInv'
  <2>1. PICK e \in Events : e = call[w].event
    BY <1>6, <1>17 DEF Working
  <2>2. PICK n \in Nat : n = call[w].attempt
    BY DEF TypeOK, Calls
  <2>3. row' = [row EXCEPT ![e].checkpoint = n] /\ Leaves(e)
    BY <1>17, <2>1, <2>2 DEF Stores
  <2>4. /\ row'[e].checkpoint = n
        /\ row'[e].attempts = row[e].attempts
        /\ row'[e].status = row[e].status
        /\ row'[e].token = row[e].token
        /\ \A f \in Events \ {e} : row'[f] = row[f]
        /\ row' \in [Events -> Rows]
    BY <2>3 DEF TypeOK, Rows
  <2>5. /\ row'[e].status = "processing" <=> row'[e].token # NoCaller
        /\ \E c \in Ceilings \cup {0} : row'[e].attempts <= c
    BY <2>4 DEF TypeOK
  <2>6. call' \in [Callers -> Calls] /\ published' \in [Events -> SUBSET Nat]
    BY <1>2, <1>17 DEF TypeOK
  <2>7. TypeOK'
    BY <1>17, <2>3, <2>4, <2>5, <2>6, TypeOfRows
  <2>8. /\ call'[w].pc \in {"deliver", "fail"}
        /\ call'[w].event = e
        /\ call'[w].attempt = n
        /\ call'[w].ceiling = call[w].ceiling
        /\ call'[w].seen = call[w].seen
        /\ \A x \in Callers \ {w} : call'[x] = call[x]
    BY <1>2, <1>17, <2>1, <2>2 DEF TypeOK, Calls
  <2> QED BY <1>17, <2>1, <2>2, <2>4, <2>7, <2>8, StoresLatest
<1>18. ASSUME NEW w \in Callers, SaveCheckpoint(w) PROVE OutboxInv'
  <2>1. UNCHANGED <<published, faults>> /\ Working(w)
    BY <1>18 DEF SaveCheckpoint, Working
  <2>2. CASE Owns(w)
    BY <1>17, <1>18, <2>1, <2>2 DEF SaveCheckpoint, TypeOK
  <2>3. CASE ~Owns(w)
    BY <1>15, <1>18, <2>1, <2>3 DEF SaveCheckpoint, TypeOK
  <2> QED BY <2>2, <2>3
<1>19. ASSUME NEW w \in Callers, call[w].pc = "deliver", Delivers(w),
              call' = [call EXCEPT ![w] = NoCall] \/ To(w, "fail"),
              UNCHANGED published,
              faults' \in 0..MaxFaults
       PROVE  OutboxInv'
  <2>1. PICK e \in Events : e = call[w].event
    BY <1>6, <1>19 DEF Working
  <2>2. /\ row' = [row EXCEPT ![e].status = "delivered", ![e].token = NoCaller]
        /\ Leaves(e)
    BY <1>19, <2>1 DEF Delivers
  <2>3. e \in Projected => published[e] # {}
    BY <1>19, <2>1 DEF Facts, CallsKnowPublication
  <2>4. call' \in [Callers -> Calls]
    BY <1>2, <1>3, <1>19
  <2>5. \A x \in Callers :
            \/ call'[x] = call[x]
            \/ call'[x].pc = "idle" /\ call'[x].event = NoEvent /\ ~call'[x].seen
            \/ Working(x) /\ call'[x] = [call[x] EXCEPT !.pc = "fail"]
    BY <1>1, <1>2, <1>3, <1>19 DEF Working
  <2> QED BY <1>4, <1>19, <2>2, <2>3, <2>4, <2>5
<1>20. ASSUME NEW w \in Callers, call' = [call EXCEPT ![w] = NoCall],
              UNCHANGED <<row, due, ahead, published>>,
              faults' \in 0..MaxFaults
       PROVE  OutboxInv'
  <2>1. TypeOK'
    BY <1>3, <1>20, TypeOfCalls DEF TypeOK
  <2> QED BY <1>1, <1>3, <1>7, <1>20, <2>1, CallsProceed
<1>21. ASSUME NEW w \in Callers, Deliver(w) PROVE OutboxInv'
  <2>1. CASE Owns(w)
    BY <1>19, <1>21, <2>1 DEF Deliver, TypeOK
  <2>2. CASE ~Owns(w)
    BY <1>20, <1>21, <2>2 DEF Deliver, TypeOK
  <2> QED BY <2>1, <2>2
<1>22. ASSUME NEW w \in Callers, StatementFails(w) PROVE OutboxInv'
  <2>1. /\ faults' \in 0..MaxFaults
        /\ UNCHANGED published
        /\ To(w, "fail")
        /\ Working(w)
    BY <1>22, OutboxAssumption DEF StatementFails, Working, TypeOK
  <2>2. CASE UNCHANGED <<row, due, ahead>>
    BY <1>15, <2>1, <2>2
  <2>3. CASE call[w].pc = "checkpoint" /\ Owns(w) /\ Stores(w)
    BY <1>17, <2>1, <2>3
  <2>4. CASE call[w].pc = "deliver" /\ Owns(w) /\ Delivers(w)
    BY <1>19, <2>1, <2>4
  <2> QED BY <1>22, <2>2, <2>3, <2>4 DEF StatementFails
<1>23. ASSUME NEW w \in Callers, Fail(w) PROVE OutboxInv'
  <2>1. UNCHANGED <<published, faults>> /\ call' = [call EXCEPT ![w] = NoCall]
    BY <1>23 DEF Fail
  <2>2. CASE Owns(w)
    <3>1. PICK e \in Events : e = call[w].event
      BY <1>6, <1>23 DEF Working, Fail
    <3>2. PICK status \in {"pending", "dead-letter"} :
             /\ row' = [row EXCEPT ![e].status = status, ![e].token = NoCaller]
             /\ status = "dead-letter" => call[w].attempt >= call[w].ceiling
             /\ Leaves(e)
      BY <1>23, <2>2, <3>1 DEF Fail
    <3>3. status = "dead-letter" => \E c \in Ceilings : row[e].attempts >= c
      <4>1. Working(w)
        BY <1>23 DEF Working, Fail
      <4> QED BY <2>2, <3>1, <3>2, <4>1 DEF Owns, Facts, HolderIsLatest, CallsHaveAttempts
    <3>4. /\ call' \in [Callers -> Calls] /\ faults' \in 0..MaxFaults
          /\ \A x \in Callers :
                \/ call'[x] = call[x]
                \/ call'[x].pc = "idle" /\ call'[x].event = NoEvent /\ ~call'[x].seen
      BY <1>1, <1>3, <2>1 DEF TypeOK
    <3> QED BY <1>4, <2>1, <3>2, <3>3, <3>4
  <2>3. CASE ~Owns(w)
    BY <1>20, <1>23, <2>1, <2>3 DEF Fail, TypeOK
  <2> QED BY <2>2, <2>3
<1>24. ASSUME NEW w \in Callers, CallEnds(w) PROVE OutboxInv'
  <2>1. faults' \in 0..MaxFaults
    BY <1>24, OutboxAssumption DEF CallEnds, TypeOK
  <2> QED BY <1>20, <1>24, <2>1 DEF CallEnds
<1> QED BY <1>8, <1>9, <1>10, <1>11, <1>12, <1>14, <1>16, <1>18, <1>21, <1>22, <1>23,
           <1>24 DEF Next, Begin, Proceed

-----------------------------------------------------------------------------
(* OutboxInv holds in every behaviour, for any constants.                   *)
THEOREM OutboxInvariant == Spec => []OutboxInv
<1>1. OutboxInv /\ UNCHANGED vars => OutboxInv'
  BY DEF vars, OutboxInv, TypeOK, Facts, CallsHaveAttempts, HolderIsLatest,
         DistinctAttempts, PublishedCounted, CallsKnowPublication, UnseenIsEarlier,
         DeliveredWasPublished, CheckpointStopsPublication, DeadLetterIsExhausted,
         Working
<1> QED BY <1>1, InitOutbox, OutboxStep, PTL DEF Spec

(* The rows, calls and the order of eligibility keep their types, and a     *)
(* row has a token exactly while it is processing.                          *)
THEOREM OutboxTypes == Spec => []TypeOK
BY OutboxInvariant, PTL DEF OutboxInv

(* What a consumer sees as delivered, or as checkpointed, was published.    *)
LEMMA DeliveryWasPublished == OutboxInv => DeliveredWasPublished
BY DEF OutboxInv, Facts

(* No two calls that may publish share an attempt, and none publishes twice. *)
LEMMA AttemptsUnshared == OutboxInv => OneCallPerAttempt
<1> SUFFICES ASSUME OutboxInv, NEW w \in Callers, call[w].pc = "subscriber"
             PROVE  /\ call[w].attempt <= row[call[w].event].attempts
                    /\ call[w].attempt \notin published[call[w].event]
                    /\ \A x \in Callers \ {w} :
                          call[x].event = call[w].event =>
                              call[x].attempt # call[w].attempt
  BY DEF OneCallPerAttempt
<1>1. Working(w) /\ call[w].event \in Events
      /\ call[w].attempt \in 1..row[call[w].event].attempts
  BY DEF OutboxInv, Facts, CallsHaveAttempts, Working
<1>2. \A x \in Callers : call[x].event = call[w].event => Working(x)
  BY <1>1, OutboxAssumption DEF OutboxInv, Facts, CallsHaveAttempts
<1> QED BY <1>1, <1>2 DEF OutboxInv, Facts, DistinctAttempts, CallsKnowPublication

(* What is delivered was published, by one call an attempt, and no attempt  *)
(* later than the stored checkpoint publishes, whatever stale calls still   *)
(* run.                                                                     *)
THEOREM PublicationCounted == Spec => []PublicationIsCounted
<1>1. OutboxInv => PublicationIsCounted
  BY DeliveryWasPublished, AttemptsUnshared DEF OutboxInv, Facts, PublicationIsCounted
<1> QED BY <1>1, OutboxInvariant, PTL

(* A dead-lettered event used up the attempts some caller allows.           *)
THEOREM DeadLettersExhausted == Spec => []DeadLetterIsExhausted
<1>1. OutboxInv => DeadLetterIsExhausted
  BY DEF OutboxInv, Facts
<1> QED BY <1>1, OutboxInvariant, PTL

-----------------------------------------------------------------------------
(* The steps of a call change the row of its event alone, and only if it    *)
(* owns the claim.                                                          *)
LEMMA OwnersChange ==
    ASSUME OutboxInv, NEW w \in Callers,
           SaveCheckpoint(w) \/ Deliver(w) \/ StatementFails(w) \/ Fail(w)
    PROVE  /\ Working(w)
           /\ call'[w].pc # call[w].pc
           /\ ~Owns(w) => row' = row
           /\ \A f \in Events : f # call[w].event => row'[f] = row[f]
<1> USE DEF OutboxInv, Facts
<1>1. /\ row \in [Events -> Rows] /\ call \in [Callers -> Calls]
      /\ call[w] \in Calls
  BY DEF TypeOK
<1>2. ASSUME NEW pc, To(w, pc) PROVE call'[w].pc = pc
  BY <1>1, <1>2 DEF To, Calls
<1>3. call' = [call EXCEPT ![w] = NoCall] => call'[w].pc = "idle"
  BY <1>1 DEF NoCall
<1>4. Working(w)
  BY DEF Working, SaveCheckpoint, Deliver, StatementFails, Fail
<1>5. call'[w].pc # call[w].pc
  <2>1. CASE SaveCheckpoint(w)
    BY <1>2, <2>1 DEF SaveCheckpoint
  <2>2. CASE Deliver(w)
    BY <1>3, <2>2 DEF Deliver
  <2>3. CASE StatementFails(w)
    BY <1>2, <2>3 DEF StatementFails
  <2>4. CASE Fail(w)
    BY <1>3, <2>4 DEF Fail
  <2> QED BY <2>1, <2>2, <2>3, <2>4
<1>6. ~Owns(w) => row' = row
  BY DEF SaveCheckpoint, Deliver, StatementFails, Fail
<1>7. Stores(w) \/ Delivers(w) => \A f \in Events : f # call[w].event => row'[f] = row[f]
  BY <1>1 DEF Stores, Delivers
<1>8. \A f \in Events : f # call[w].event => row'[f] = row[f]
  <2>1. CASE SaveCheckpoint(w)
    BY <1>7, <2>1 DEF SaveCheckpoint
  <2>2. CASE Deliver(w)
    BY <1>7, <2>2 DEF Deliver
  <2>3. CASE StatementFails(w)
    BY <1>7, <2>3 DEF StatementFails
  <2>4. CASE Fail(w)
    BY <1>1, <2>4 DEF Fail
  <2> QED BY <2>1, <2>2, <2>3, <2>4
<1> QED BY <1>4, <1>5, <1>6, <1>8

(* The steps that change no row.                                            *)
LEMMA RowsStay ==
    ASSUME NEW w \in Callers,
           SkipPublication(w) \/ Publish(w) \/ SubscriberFails(w) \/ CallEnds(w)
    PROVE  row' = row
BY DEF SkipPublication, Publish, SubscriberFails, CallEnds

(* A claim and the dead-letter of an exhausted claim take rows that are not *)
(* settled, and a row under a claim only when its lease has ended.          *)
LEMMA DueChange ==
    ASSUME OutboxInv, NEW e \in Events, NEW w \in Callers, Begin(w) \/ Claim(w),
           row'[e] # row[e]
    PROVE  /\ row[e].status \in {"pending", "processing"}
           /\ row[e].status = "processing" => e \in due
<1> USE DEF OutboxInv
<1>1. row \in [Events -> Rows]
  BY DEF TypeOK
<1>2. CASE Begin(w)
  <2>1. PICK ceiling \in Ceilings : DeadLetterExhaustedClaim(w, ceiling)
    BY <1>2 DEF Begin
  <2>2. PICK f \in Exhausted(ceiling) :
           row' = [row EXCEPT ![f].status = "dead-letter", ![f].token = NoCaller]
    BY <2>1 DEF DeadLetterExhaustedClaim
  <2>3. e = f
    BY <1>1, <2>2
  <2> QED BY <2>2, <2>3 DEF Exhausted
<1>3. CASE Claim(w)
  <2>1. PICK f \in Claimable(call[w].ceiling) :
           row' = [row EXCEPT ![f].status = "processing",
                              ![f].attempts = row[f].attempts + 1,
                              ![f].token = w]
    BY <1>3 DEF Claim
  <2>2. e = f
    BY <1>1, <2>1
  <2> QED BY <2>1, <2>2 DEF Claimable
<1> QED BY <1>2, <1>3

(* An insertion puts a new row where there was none, or a settled one.      *)
LEMMA InsertChange ==
    ASSUME OutboxInv, NEW e \in Events, NEW f \in Events, Insert(f) \/ BecomesDue(f),
           row'[e] # row[e]
    PROVE  /\ row[e].status \notin {"pending", "processing"}
           /\ row'[e] = NewRow
BY DEF OutboxInv, TypeOK, Insert, BecomesDue, Settled

(* While the lease of a claim lives, its row changes by a step of the       *)
(* holder alone.                                                            *)
LEMMA LiveClaimsExclusive == Spec => LiveClaimIsExclusive
<1>1. ASSUME OutboxInv, [Next]_vars, NEW e \in Events,
             row[e].status = "processing", e \notin due, row'[e] # row[e]
      PROVE  /\ call[row[e].token].event = e
             /\ call'[row[e].token] # call[row[e].token]
  <2>1. PICK w \in Callers : Begin(w) \/ Proceed(w) \/ StatementFails(w) \/ CallEnds(w)
    <3>1. Next
      BY <1>1 DEF vars
    <3>2. ~(\E f \in Events : Insert(f) \/ BecomesDue(f))
      BY <1>1, InsertChange
    <3> QED BY <3>1, <3>2 DEF Next
  <2>2. SaveCheckpoint(w) \/ Deliver(w) \/ StatementFails(w) \/ Fail(w)
    BY <1>1, <2>1, DueChange, RowsStay DEF Proceed
  <2>3. /\ call[w].event = e
        /\ Owns(w)
        /\ call'[w].pc # call[w].pc
    BY <1>1, <2>2, OwnersChange
  <2> QED BY <2>3 DEF Owns
<1>2. OutboxInv /\ [Next]_vars =>
          [\A e \in Events :
             row[e].status = "processing" /\ e \notin due /\ row'[e] # row[e]
                => call[row[e].token].event = e /\ call'[row[e].token] # call[row[e].token]
          ]_vars
  BY <1>1
<1> QED BY <1>2, OutboxInvariant, PTL DEF Spec, LiveClaimIsExclusive

(* Unless its place is taken by a new event, a settled row stays as it is:  *)
(* no late retry reopens a delivered event, no late delivery a dead letter. *)
LEMMA SettledIsFinal == Spec => SettledStays
<1>1. ASSUME OutboxInv, [Next]_vars, NEW e \in Events, Settled(e)
      PROVE  row'[e] \in {row[e], NewRow}
  <2> SUFFICES ASSUME row'[e] # row[e], row'[e] # NewRow PROVE FALSE
    OBVIOUS
  <2>1. row[e].status \notin {"absent", "pending", "processing"}
    BY <1>1 DEF Settled
  <2>2. PICK w \in Callers : Begin(w) \/ Proceed(w) \/ StatementFails(w) \/ CallEnds(w)
    <3>1. Next
      BY <1>1 DEF vars
    <3>2. ~(\E f \in Events : Insert(f) \/ BecomesDue(f))
      BY <1>1, <2>1, InsertChange
    <3> QED BY <3>1, <3>2 DEF Next
  <2>3. SaveCheckpoint(w) \/ Deliver(w) \/ StatementFails(w) \/ Fail(w)
    BY <1>1, <2>1, <2>2, DueChange, RowsStay DEF Proceed
  <2>4. call[w].event = e /\ Owns(w)
    BY <1>1, <2>3, OwnersChange
  <2> QED BY <2>1, <2>4 DEF Owns
<1>2. OutboxInv /\ [Next]_vars =>
          [\A e \in Events : Settled(e) => row'[e] \in {row[e], NewRow}]_vars
  BY <1>1
<1> QED BY <1>2, OutboxInvariant, PTL DEF Spec, SettledStays

(* A call whose claim is over changes neither what another holds nor what   *)
(* is settled.                                                              *)
THEOREM StaleCallsHarmless == Spec => StaleCallsChangeNothing
BY LiveClaimsExclusive, SettledIsFinal DEF StaleCallsChangeNothing
=============================================================================
