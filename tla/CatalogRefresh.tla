------------------------------ MODULE CatalogRefresh ------------------------------
(***************************************************************************)
(* The refresh of the official catalog: calls of CatalogRefreshCoordinator *)
(* (packages/payload-adapter/src/catalog-refresh-coordinator.ts) over the  *)
(* transactions of PostgresCatalogMirrorStore (catalog-mirror-store.ts)    *)
(* and the judgement of what is active by ActiveExtensionSecurityReconciler*)
(* (active-extension-security-reconciler.ts).  Every await is a step, but  *)
(* for reads in a row of which the last decides alone.                     *)
(*                                                                         *)
(* A catalog is its sequence number, which its digest determines, and 0    *)
(* stands for none; what it says of a generation is in Condemned.  The     *)
(* catalogs of one signer are modelled.  A requirement is the generation   *)
(* and row revision its decision digest is taken of.                       *)
(***************************************************************************)
EXTENDS Naturals, FiniteSets

CONSTANTS
    Refreshes,      \* refresh ids, each with its requester and its key
    Calls,          \* concurrent calls of refresh()
    Extensions,
    Generations,    \* of each extension
    Installed,      \* [extension -> the generation active at first]
    Condemned,      \* [catalog -> pairs of extension and generation it does not clear]
    MaxSequence,    \* the newest catalog published
    MaxAttempts,    \* attempts of a call to reconcile, three in the code
    MaxDisturbances \* bound on changes of extensions or authority and calls that end

Catalogs == 1 .. MaxSequence

ASSUME CatalogAssumption ==
    /\ Generations \subseteq Nat \ {0}
    /\ Installed \in [Extensions -> Generations]
    /\ MaxSequence \in Nat \ {0}
    /\ Condemned \in [Catalogs -> SUBSET (Extensions \X Generations)]
    /\ MaxAttempts \in Nat \ {0}

VARIABLES
    checkpoint,     \* runtime_catalog_checkpoints
    mirror,         \* k_nex_catalog_mirror_state
    refresh,        \* k_nex_catalog_refresh_operations with its requirements
    extension,      \* runtime_extensions
    inventory,      \* runtime_extension_inventory_revisions
    withdrawn,      \* quarantined generations, with their security receipts
    authority,      \* k_nex_authorization_state and whose permission it holds
    call,
    disturbances

vars == <<checkpoint, mirror, refresh, extension, inventory, withdrawn, authority,
          call, disturbances>>

(* The requirements of a refresh by their terminal_state.                   *)
NewRefresh == [state |-> "none", revision |-> 0, expected |-> 0, sequence |-> 0,
               pending |-> {}, clear |-> {}, quarantined |-> {}]

(* revision, catalog, inventory and authority are the revisions a call will *)
(* compare; wanted are the requirements of the inventory it has read.       *)
NewCall == [pc |-> "idle", refresh |-> "none", from |-> "none", revision |-> 0, sequence |-> 0,
            previous |-> 0, catalog |-> 0, wanted |-> {}, todo |-> {}, item |-> {}, verdict |-> {},
            attempt |-> 1, inventory |-> 0, authority |-> 0]

Do(c, step) == call[c].pc = step

Goto(c, pc) == call' = [call EXCEPT ![c].pc = pc]

(* The call returns a receipt or throws.                                    *)
Ends(c) == call' = [call EXCEPT ![c] = NewCall]

Rejects(c) == call' = [call EXCEPT ![c] = [NewCall EXCEPT !.pc = "reject", !.refresh = call[c].refresh,
                                                          !.revision = call[c].revision]]

Op(c) == refresh[call[c].refresh]

Unfinished(r) == refresh[r].state \in {"fetching", "staged"}

Settled(state) == [NewRefresh EXCEPT !.state = state]

Active(x) == extension[x].disposition = "active"

Impact(x) == [ext |-> x, gen |-> extension[x].gen, rev |-> extension[x].revision]

(* requirements() of the inventory that is read now.                        *)
Impacted == {Impact(x) : x \in {y \in Extensions : Active(y)}}

SameRelease(q, p) == q.ext = p.ext /\ q.gen = p.gen

Disturb == disturbances < MaxDisturbances /\ disturbances' = disturbances + 1

-----------------------------------------------------------------------------
(* refresh(): begin, then the current authority of what was persisted. *)

(* begin(), after the first reauthorize(): a stale expectedCatalogRevision  *)
(* throws, and a receipt is returned, without a step.                       *)
Begin(c, r) ==
    /\ Do(c, "idle") /\ r \in authority.allowed
    /\ \/ /\ refresh[r].state = "none"
          /\ refresh' = [refresh EXCEPT ![r] = [NewRefresh EXCEPT !.state = "fetching", !.revision = 1,
                                                                  !.expected = mirror.revision]]
       \/ Unfinished(r) /\ UNCHANGED refresh
    /\ call' = [call EXCEPT ![c] = [NewCall EXCEPT !.pc = "resume", !.refresh = r,
                                                   !.from = refresh'[r].state,
                                                   !.revision = refresh'[r].revision]]
    /\ UNCHANGED <<checkpoint, mirror, extension, inventory, withdrawn, authority, disturbances>>

(* readRefreshAuthority() and reauthorize().                                *)
Resume(c) ==
    /\ Do(c, "resume")
    /\ IF ~Unfinished(call[c].refresh) THEN Ends(c)
       ELSE IF call[c].refresh \notin authority.allowed THEN Rejects(c)
       ELSE call' = [call EXCEPT ![c].from = "none",
                                 ![c].pc = IF call[c].from = "fetching" THEN "fetch" ELSE "staged"]
    /\ UNCHANGED <<checkpoint, mirror, refresh, extension, inventory, withdrawn, authority, disturbances>>

Unstaged(m, r) == IF refresh[r].state = "staged"
                  THEN [m EXCEPT !.staged = 0, !.revision = @ + 1] ELSE m

(* reject(): an operation that moved on throws, one that ended is returned. *)
Reject(c) ==
    LET r == call[c].refresh IN
    /\ Do(c, "reject")
    /\ IF Unfinished(r) /\ refresh[r].revision = call[c].revision
       THEN /\ mirror' = Unstaged(mirror, r)
            /\ refresh' = [refresh EXCEPT ![r] = Settled("rejected")]
       ELSE UNCHANGED <<mirror, refresh>>
    /\ Ends(c)
    /\ UNCHANGED <<checkpoint, extension, inventory, withdrawn, authority, disturbances>>

-----------------------------------------------------------------------------
(* fetchAndStage(). *)

(* The reader may fail, and may be served any catalog that was published.   *)
Fetch(c) ==
    /\ Do(c, "fetch")
    /\ \/ Rejects(c)
       \/ \E s \in Catalogs :
             call' = [call EXCEPT ![c].pc = "checkpoint", ![c].sequence = s]
    /\ UNCHANGED <<checkpoint, mirror, refresh, extension, inventory, withdrawn, authority, disturbances>>

(* verifySnapshot() against the checkpoint refuses what is stale or         *)
(* replayed; the inventory is read after it.                                *)
ReadCheckpoint(c) ==
    /\ Do(c, "checkpoint")
    /\ IF call[c].sequence > checkpoint
       THEN call' = [call EXCEPT ![c].pc = "stage", ![c].previous = checkpoint, ![c].wanted = Impacted]
       ELSE Rejects(c)
    /\ UNCHANGED <<checkpoint, mirror, refresh, extension, inventory, withdrawn, authority, disturbances>>

(* Only the revision of the catalog is compared.                            *)
OnlyRevision(c) == mirror.revision = Op(c).expected /\ checkpoint = call[c].previous

MayStage(c) ==
    /\ mirror.revision = Op(c).expected
    /\ mirror.staged = 0
    /\ checkpoint = call[c].previous

(* stageVerified(), for an operation that is still fetching.                *)
Stage(c) ==
    LET r == call[c].refresh
        s == call[c].sequence
    IN
    /\ Do(c, "stage") /\ refresh[r].state = "fetching"
    /\ IF MayStage(c)
       THEN /\ checkpoint' = s
            /\ mirror' = [mirror EXCEPT !.staged = s, !.revision = @ + 1]
            /\ refresh' = [refresh EXCEPT ![r].state = "staged", ![r].revision = @ + 1,
                                          ![r].sequence = s, ![r].pending = call[c].wanted]
            /\ call' = [call EXCEPT ![c] = [NewCall EXCEPT !.pc = "staged", !.refresh = r]]
       ELSE Rejects(c) /\ UNCHANGED <<checkpoint, mirror, refresh>>
    /\ UNCHANGED <<extension, inventory, withdrawn, authority, disturbances>>

(* Another call staged or settled it: the same catalog is gone on with.     *)
StagedElsewhere(c) ==
    /\ Do(c, "stage") /\ Op(c).state # "fetching"
    /\ IF Op(c).state = "staged" /\ Op(c).sequence = call[c].sequence
       THEN call' = [call EXCEPT ![c] = [NewCall EXCEPT !.pc = "staged", !.refresh = call[c].refresh]]
       ELSE Ends(c)
    /\ UNCHANGED <<checkpoint, mirror, refresh, extension, inventory, withdrawn, authority, disturbances>>

-----------------------------------------------------------------------------
(* reconcile(). *)

(* The next round of the loop, or its end.                                  *)
Retry(c, pc) ==
    LET k == call[c] IN
    IF k.attempt >= MaxAttempts THEN Ends(c)
    ELSE call' = [call EXCEPT ![c] = [NewCall EXCEPT
             !.pc = pc, !.refresh = k.refresh, !.attempt = k.attempt + 1,
             !.revision = k.revision, !.sequence = k.sequence]]

(* readStaged() and verifyStagedSnapshot(), which needs the checkpoint.     *)
ReadStaged(c) ==
    /\ Do(c, "staged")
    /\ IF Op(c).state = "staged" /\ Op(c).sequence = checkpoint
       THEN call' = [call EXCEPT ![c].pc = "observe", ![c].revision = Op(c).revision,
                                 ![c].sequence = Op(c).sequence]
       ELSE Ends(c)
    /\ UNCHANGED <<checkpoint, mirror, refresh, extension, inventory, withdrawn, authority, disturbances>>

(* inventory() and readObservation().                                       *)
Observe(c) ==
    /\ Do(c, "observe")
    /\ IF mirror.staged # 0
       THEN call' = [call EXCEPT ![c].pc = "rebase", ![c].wanted = Impacted, ![c].catalog = mirror.revision]
       ELSE Ends(c)
    /\ UNCHANGED <<checkpoint, mirror, refresh, extension, inventory, withdrawn, authority, disturbances>>

(* The operation and the mirror are as the call has read them.              *)
Unmoved(c) ==
    /\ Op(c).state = "staged" /\ Op(c).revision = call[c].revision
    /\ mirror.revision = call[c].catalog /\ mirror.staged = Op(c).sequence

(* What was required at first stays required.                               *)
NotRebased(o, wanted) == o

(* What was quarantined under this refresh is settled; the rest is replaced *)
(* by what is active now, unless it is that already.                        *)
Rebased(o, wanted) ==
    LET next == {q \in wanted : \A p \in o.quarantined : ~SameRelease(p, q)} IN
    IF o.pending \cup o.clear = next THEN o
    ELSE [o EXCEPT !.pending = next, !.clear = {}, !.revision = @ + 1]

RebaseRequirements(c) ==
    LET r == call[c].refresh
        o == Rebased(refresh[r], call[c].wanted)
    IN
    /\ Do(c, "rebase")
    /\ IF Unmoved(c)
       THEN /\ refresh' = [refresh EXCEPT ![r] = o]
            /\ call' = [call EXCEPT ![c].pc = "work", ![c].revision = o.revision, ![c].wanted = {}]
       ELSE Retry(c, "staged") /\ UNCHANGED refresh
    /\ UNCHANGED <<checkpoint, mirror, extension, inventory, withdrawn, authority, disturbances>>

(* readRequirements().                                                      *)
ReadRequirements(c) ==
    /\ Do(c, "work")
    /\ call' = [call EXCEPT ![c].pc = "exact", ![c].todo = Op(c).pending]
    /\ UNCHANGED <<checkpoint, mirror, refresh, extension, inventory, withdrawn, authority, disturbances>>

(* exactRequirement() of the next one, in any order.                        *)
ExactRequirement(c) ==
    /\ Do(c, "exact")
    /\ IF call[c].todo = {} THEN Goto(c, "final")
       ELSE \E q \in call[c].todo :
               IF q \in Impacted THEN call' = [call EXCEPT ![c].pc = "judge", ![c].item = {q}]
               ELSE Retry(c, "observe")
    /\ UNCHANGED <<checkpoint, mirror, refresh, extension, inventory, withdrawn, authority, disturbances>>

Clears(sequence, x) == <<x, extension[x].gen>> \notin Condemned[sequence]

(* reconcileSnapshot() reads the row again and judges what is active there; *)
(* what it clears must still be the item, by exactRequirement() once more.  *)
Judge(c) ==
    /\ Do(c, "judge")
    /\ \E q \in call[c].item :
          LET x == q.ext
              receipts == {w \in withdrawn : w.seq # 0 /\ w.ext = x /\ w.gen = extension[x].gen}
          IN
          CASE q \in Impacted /\ Clears(call[c].sequence, x) -> Goto(c, "mark")
            [] Active(x) /\ ~Clears(call[c].sequence, x) ->
                  call' = [call EXCEPT ![c].pc = "quarantine", ![c].verdict = {Impact(x)}]
            [] extension[x].disposition = "quarantined" /\ receipts # {} ->
                  \E w \in receipts : call' = [call EXCEPT ![c].pc = "mark", ![c].verdict = {w}]
            [] OTHER -> Retry(c, "observe")
    /\ UNCHANGED <<checkpoint, mirror, refresh, extension, inventory, withdrawn, authority, disturbances>>

StillActive(p) == p \in Impacted

(* quarantineActiveGeneration(): the receipt of this decision is returned,  *)
(* a row that moved makes the reconciler read again.                        *)
Quarantine(c) ==
    /\ Do(c, "quarantine")
    /\ \E p \in call[c].verdict :
          LET x == p.ext
              w == [ext |-> x, gen |-> extension[x].gen, rev |-> p.rev, seq |-> call[c].sequence]
              known == {v \in withdrawn : SameRelease(v, p) /\ v.rev = p.rev /\ v.seq = call[c].sequence}
          IN
          IF known # {}
          THEN /\ call' = [call EXCEPT ![c].pc = "mark", ![c].verdict = known]
               /\ UNCHANGED <<extension, inventory, withdrawn>>
          ELSE IF StillActive(p)
          THEN /\ extension' = [extension EXCEPT ![x].disposition = "quarantined", ![x].revision = @ + 1]
               /\ inventory' = inventory + 1
               /\ withdrawn' = withdrawn \cup {w}
               /\ call' = [call EXCEPT ![c].pc = "mark", ![c].verdict = {w}]
          ELSE /\ call' = [call EXCEPT ![c].pc = "judge", ![c].verdict = {}]
               /\ UNCHANGED <<extension, inventory, withdrawn>>
    /\ UNCHANGED <<checkpoint, mirror, refresh, authority, disturbances>>

(* The receipt carries the digest of this very decision.                    *)
Proves(w, q, sequence) == SameRelease(w, q) /\ w.rev = q.rev /\ w.seq = sequence

(* markReconciliationTerminal().                                            *)
Mark(c) ==
    LET r == call[c].refresh IN
    /\ Do(c, "mark")
    /\ \E q \in call[c].item :
          IF /\ refresh[r].state = "staged" /\ q \in refresh[r].pending
             /\ \A w \in call[c].verdict : Proves(w, q, refresh[r].sequence)
          THEN /\ refresh' = [refresh EXCEPT
                     ![r].pending = @ \ {q},
                     ![r].clear = IF call[c].verdict = {} THEN @ \cup {q} ELSE @,
                     ![r].quarantined = IF call[c].verdict = {} THEN @ ELSE @ \cup {q}]
               /\ call' = [call EXCEPT ![c].pc = "exact", ![c].todo = @ \ {q}, ![c].item = {}, ![c].verdict = {}]
          ELSE Ends(c) /\ UNCHANGED refresh
    /\ UNCHANGED <<checkpoint, mirror, extension, inventory, withdrawn, authority, disturbances>>

(* The requirements are those of the inventory that is read now, and the    *)
(* requester may still refresh.                                             *)
Final(c) ==
    /\ Do(c, "final")
    /\ IF Op(c).pending \cup Op(c).clear # Impacted THEN Retry(c, "observe")
       ELSE IF call[c].refresh \notin authority.allowed THEN Rejects(c)
       ELSE call' = [call EXCEPT ![c].pc = "accept", ![c].inventory = inventory,
                                 ![c].authority = authority.revision]
    /\ UNCHANGED <<checkpoint, mirror, refresh, extension, inventory, withdrawn, authority, disturbances>>

(* The inventory is not compared.                                           *)
AsPermitted(c) == authority.revision = call[c].authority /\ Unmoved(c)

AsObserved(c) ==
    /\ authority.revision = call[c].authority
    /\ Unmoved(c)
    /\ inventory = call[c].inventory

(* acceptAfterTerminalReconciliation().                                     *)
Accept(c) ==
    LET r == call[c].refresh IN
    /\ Do(c, "accept")
    /\ IF AsObserved(c) /\ refresh[r].pending = {}
       THEN /\ mirror' = [revision |-> mirror.revision + 1, staged |-> 0, accepted |-> refresh[r].sequence]
            /\ refresh' = [refresh EXCEPT ![r] = Settled("accepted")]
            /\ Ends(c)
       ELSE /\ IF AsObserved(c) \/ (authority.revision = call[c].authority /\ ~Unfinished(r))
               THEN Ends(c) ELSE Retry(c, "observe")
            /\ UNCHANGED <<mirror, refresh>>
    /\ UNCHANGED <<checkpoint, extension, inventory, withdrawn, authority, disturbances>>

-----------------------------------------------------------------------------
(* What goes on meanwhile. *)

Becomes(x, row) ==
    /\ extension' = [extension EXCEPT ![x] = row]
    /\ inventory' = inventory + 1
    /\ Disturb
    /\ UNCHANGED <<checkpoint, mirror, refresh, authority, call>>

(* Install, update, rollback or enable: no generation that was withdrawn.   *)
Activate(x, g) ==
    /\ \A w \in withdrawn : w.ext = x => w.gen # g
    /\ Active(x) => extension[x].gen # g
    /\ Becomes(x, [revision |-> extension[x].revision + 1, disposition |-> "active", gen |-> g])
    /\ UNCHANGED withdrawn

Disable(x) ==
    /\ Active(x)
    /\ Becomes(x, [extension[x] EXCEPT !.revision = @ + 1, !.disposition = "disabled"])
    /\ UNCHANGED withdrawn

(* The runner reports its generation: a quarantine without security receipt. *)
QuarantineRuntime(x) ==
    /\ Active(x)
    /\ Becomes(x, [extension[x] EXCEPT !.revision = @ + 1, !.disposition = "quarantined"])
    /\ withdrawn' = withdrawn \cup {[ext |-> x, gen |-> extension[x].gen, rev |-> 0, seq |-> 0]}

(* Permissions are granted or revoked, any of them.                         *)
ReviseAuthority ==
    /\ \E S \in SUBSET Refreshes : authority' = [revision |-> authority.revision + 1, allowed |-> S]
    /\ Disturb
    /\ UNCHANGED <<checkpoint, mirror, refresh, extension, inventory, withdrawn, call>>

(* The process dies, a statement fails, a third conflict is thrown.         *)
Abandon(c) ==
    /\ ~Do(c, "idle")
    /\ Ends(c) /\ Disturb
    /\ UNCHANGED <<checkpoint, mirror, refresh, extension, inventory, withdrawn, authority>>

-----------------------------------------------------------------------------
Init ==
    /\ checkpoint = 0
    /\ mirror = [revision |-> 0, staged |-> 0, accepted |-> 0]
    /\ refresh = [r \in Refreshes |-> NewRefresh]
    /\ extension = [x \in Extensions |-> [revision |-> 1, disposition |-> "active", gen |-> Installed[x]]]
    /\ inventory = 1 /\ withdrawn = {}
    /\ authority = [revision |-> 1, allowed |-> Refreshes]
    /\ call = [c \in Calls |-> NewCall]
    /\ disturbances = 0

Fetches(c) == Fetch(c) \/ ReadCheckpoint(c) \/ Stage(c) \/ StagedElsewhere(c)

Reconciles(c) ==
    \/ ReadStaged(c) \/ Observe(c) \/ RebaseRequirements(c) \/ ReadRequirements(c)
    \/ ExactRequirement(c) \/ Judge(c) \/ Quarantine(c) \/ Mark(c) \/ Final(c) \/ Accept(c)

Proceed(c) == Resume(c) \/ Reject(c) \/ Fetches(c) \/ Reconciles(c)

Disturbance ==
    \/ \E x \in Extensions : (\E g \in Generations : Activate(x, g)) \/ Disable(x) \/ QuarantineRuntime(x)
    \/ ReviseAuthority
    \/ \E c \in Calls : Abandon(c)

Next ==
    \/ \E c \in Calls : (\E r \in Refreshes : Begin(c, r)) \/ Proceed(c)
    \/ Disturbance

Spec == Init /\ [][Next]_vars

(* The calls under way proceed, and an operator asks again for a refresh    *)
(* that has no receipt yet.                                                 *)
FairSpec ==
    /\ Spec
    /\ \A c \in Calls : WF_vars(Proceed(c))
    /\ \A r \in Refreshes : WF_vars(\E c \in Calls : Unfinished(r) /\ Begin(c, r))

-----------------------------------------------------------------------------
(* The pointers of the mirror, the checkpoint and the operations agree: one *)
(* operation owns what is staged, the checkpoint is what is staged, so that *)
(* it can be verified again after a crash, and acceptance is behind it.     *)
PointersAgree ==
    LET owners == {r \in Refreshes : refresh[r].state = "staged"} IN
    /\ mirror.accepted <= checkpoint
    /\ IF mirror.staged = 0 THEN owners = {}
       ELSE /\ \E r \in owners : owners = {r} /\ refresh[r].sequence = mirror.staged
            /\ mirror.staged = checkpoint /\ mirror.staged > mirror.accepted

(* A catalog is accepted in order, and only when everything that is active  *)
(* then is cleared by it, however the extensions moved while they were      *)
(* judged one by one by several calls; and a generation is put in           *)
(* quarantine only by a catalog that condemns it and was staged.            *)
JudgementsHold ==
    [][/\ mirror'.accepted # mirror.accepted =>
             /\ mirror'.accepted > mirror.accepted
             /\ \A x \in Extensions : Active(x) => Clears(mirror'.accepted, x)
       /\ \A w \in withdrawn' \ withdrawn :
             w.seq # 0 => <<w.ext, w.gen>> \in Condemned[w.seq] /\ w.seq <= checkpoint]_vars

(* The mirror, after any crash and any interleaving: what it points to is   *)
(* what was staged and verified, and what it accepted was judged.           *)
MirrorIsSound == []PointersAgree /\ JudgementsHold

(* A refresh that was begun is settled, after any crash and whatever calls  *)
(* and other refreshes run beside it, if its requester keeps its permission:*)
(* without it nothing settles the refresh, which the code leaves so.        *)
RefreshSettles ==
    \A r \in Refreshes : <>[](r \in authority.allowed) => <>[]~Unfinished(r)

=============================================================================
