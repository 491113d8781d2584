------------------------- MODULE CatalogRefresh_proofs -------------------------
(***************************************************************************)
(* What CatalogRefresh promises for any refreshes, calls, extensions and   *)
(* catalogs.  CatalogInv is the inductive invariant: besides the pointers, *)
(* what is recorded as cleared was cleared by the staged catalog, a        *)
(* generation with a receipt has moved on since, and what a call has read  *)
(* is no newer than what is stored, so that comparing the revisions before *)
(* it accepts is enough.                                                   *)
(***************************************************************************)
EXTENDS CatalogRefresh, TLAPS

(* Requirements and receipts of a quarantine.                               *)
Items == [ext : Extensions, gen : Generations, rev : Nat]
Receipts == [ext : Extensions, gen : Generations, rev : Nat, seq : Nat]

RefreshRows ==
    [state : {"none", "fetching", "staged", "rejected", "accepted"}, revision : Nat,
     expected : Nat, sequence : Nat, pending : SUBSET Items, clear : SUBSET Items,
     quarantined : SUBSET Items]

(* The calls of reconcile() that follow the staged catalog.                 *)
Late == {"observe", "rebase", "work", "exact", "judge", "quarantine", "mark", "final", "accept"}

CallSteps == {"idle", "resume", "reject", "fetch", "checkpoint", "stage", "staged"} \cup Late

SingleItems == {S \in SUBSET Items : \A p, q \in S : p = q}

CallRows ==
    [pc : CallSteps, refresh : Refreshes \cup {"none"},
     from : {"none", "fetching", "staged"}, revision : Nat, sequence : Nat, previous : Nat,
     catalog : Nat, wanted : SUBSET Items, todo : SUBSET Items, item : SingleItems,
     verdict : SUBSET (Items \cup Receipts), attempt : Nat, inventory : Nat, authority : Nat]

(* Every table holds what its columns can.                                  *)
StoreTypes ==
    /\ checkpoint \in 0..MaxSequence
    /\ mirror \in [revision : Nat, staged : 0..MaxSequence, accepted : 0..MaxSequence]
    /\ refresh \in [Refreshes -> RefreshRows]
    /\ extension \in [Extensions -> [revision : Nat \ {0}, gen : Generations,
                                     disposition : {"active", "disabled", "quarantined"}]]
    /\ inventory \in Nat
    /\ withdrawn \in SUBSET Receipts
    /\ authority \in [revision : Nat, allowed : SUBSET Refreshes]

CatalogTypes == StoreTypes /\ call \in [Calls -> CallRows]

(* What a refresh records as cleared is not condemned by what it staged.    *)
RowsSound ==
    \A r \in Refreshes :
        /\ refresh[r].state = "fetching" => refresh[r].clear = {}
        /\ refresh[r].state = "staged" =>
              /\ refresh[r].sequence \in Catalogs
              /\ \A q \in refresh[r].clear :
                    <<q.ext, q.gen>> \notin Condemned[refresh[r].sequence]

(* The row of a withdrawn generation has moved since its receipt.           *)
ReceiptsBehind == \A w \in withdrawn : w.rev < extension[w.ext].revision

Begun == {"staged", "rejected", "accepted"}

(* A call that reconciles knows the staged catalog of its refresh, and what *)
(* it has read of the refresh and the inventory is no newer than they are.  *)
KnowsStaged(k) ==
    /\ k.sequence <= checkpoint
    /\ refresh[k.refresh].state \in Begun
    /\ refresh[k.refresh].state = "staged" =>
          k.sequence = refresh[k.refresh].sequence /\ k.revision <= refresh[k.refresh].revision

(* A verdict: condemned, or recorded as withdrawn, or cleared.              *)
VerdictSound(k) ==
    /\ k.pc \notin {"quarantine", "mark"} => k.verdict = {}
    /\ k.pc = "quarantine" =>
          \A p \in k.verdict : p \in Items /\ <<p.ext, p.gen>> \in Condemned[k.sequence]
    /\ k.pc = "mark" =>
          /\ k.verdict \subseteq withdrawn
          /\ k.verdict = {} =>
                \A q \in k.item : <<q.ext, q.gen>> \notin Condemned[k.sequence]

(* Unless the refresh or the inventory has moved since the final check,     *)
(* whatever is active is still among the requirements.                      *)
StillRequired(k) ==
    k.pc = "accept" /\ refresh[k.refresh].state = "staged"
       /\ refresh[k.refresh].revision = k.revision /\ inventory = k.inventory
    => Impacted \subseteq refresh[k.refresh].pending \cup refresh[k.refresh].clear

CallSound(k) ==
    /\ k.pc # "idle" => k.refresh \in Refreshes
    /\ k.pc \in {"checkpoint", "stage"} \cup Late => k.sequence \in Catalogs
    /\ k.pc = "stage" => k.previous < k.sequence
    /\ k.pc \in Late => KnowsStaged(k)
    /\ VerdictSound(k)
    /\ k.inventory <= inventory
    /\ StillRequired(k)

CallsSound == \A c \in Calls : CallSound(call[c])

CatalogInv ==
    /\ CatalogTypes
    /\ PointersAgree
    /\ RowsSound
    /\ ReceiptsBehind
    /\ CallsSound

-----------------------------------------------------------------------------
(* Initially. *)

LEMMA InstalledGenerations ==
    /\ Generations \subseteq Nat /\ MaxSequence \in Nat
    /\ \A x \in Extensions : Installed[x] \in Generations
  BY CatalogAssumption

LEMMA CatalogInvInit == Init => CatalogInv
  <1> SUFFICES ASSUME Init
               PROVE  CatalogInv
    OBVIOUS
  <1>1. StoreTypes
    BY InstalledGenerations DEF Init, StoreTypes, RefreshRows, NewRefresh
  <1>2. NewCall \in CallRows
    BY DEF NewCall, CallRows, CallSteps, SingleItems
  <1>3. CatalogTypes
    BY <1>1, <1>2 DEF Init, CatalogTypes
  <1>4. \A r \in Refreshes : refresh[r].state = "none"
    BY DEF Init, NewRefresh
  <1>5. PointersAgree
    BY <1>4 DEF Init, PointersAgree
  <1>6. RowsSound /\ ReceiptsBehind
    BY <1>4 DEF Init, RowsSound, ReceiptsBehind
  <1>7. CallSound(NewCall)
    BY DEF Init, NewCall, CallSound, Late, KnowsStaged, VerdictSound, StillRequired
  <1>8. CallsSound
    BY <1>7 DEF Init, CallsSound
  <1>9. QED BY <1>3, <1>5, <1>6, <1>8 DEF CatalogInv

-----------------------------------------------------------------------------
(* What any step may do to what a sound call has read of the tables. *)

(* A refresh that was staged goes on with its catalog or ends; its          *)
(* requirements lose, under one revision, only what is no longer active.    *)
RefreshGoesOn(r) ==
    refresh[r].state \in Begun =>
        /\ refresh'[r].state \in Begun
        /\ refresh'[r].state = "staged" =>
              /\ refresh[r].state = "staged"
              /\ refresh'[r].sequence = refresh[r].sequence
              /\ refresh'[r].revision >= refresh[r].revision
              /\ refresh'[r].revision = refresh[r].revision =>
                    \A q \in Impacted :
                        q \in refresh[r].pending \cup refresh[r].clear
                            => q \in refresh'[r].pending \cup refresh'[r].clear

TablesGoOn ==
    /\ checkpoint' >= checkpoint
    /\ \A r \in Refreshes : RefreshGoesOn(r)
    /\ inventory' >= inventory
    /\ inventory' = inventory => extension' = extension
    /\ withdrawn \subseteq withdrawn'

LEMMA SoundCallStays ==
    ASSUME StoreTypes, StoreTypes', TablesGoOn, NEW k \in CallRows, CallSound(k)
    PROVE  CallSound(k)'
  <1>1. /\ k.inventory \in Nat /\ k.sequence \in Nat /\ k.revision \in Nat
        /\ inventory \in Nat /\ inventory' \in Nat
        /\ checkpoint \in Nat /\ checkpoint' \in Nat
    BY InstalledGenerations DEF CallRows, StoreTypes
  <1>2. k.inventory <= inventory'
    BY <1>1 DEF TablesGoOn, CallSound
  <1>3. VerdictSound(k)'
    BY DEF CallSound, VerdictSound, TablesGoOn
  <1>4. ASSUME k.pc \in Late
        PROVE  KnowsStaged(k)'
    <2>1. PICK r \in Refreshes : r = k.refresh
      BY <1>4 DEF CallSound, Late
    <2>2. KnowsStaged(k) /\ RefreshGoesOn(r)
      BY <1>4, <2>1 DEF CallSound, TablesGoOn
    <2>3. refresh[r].revision \in Nat /\ refresh'[r].revision \in Nat
      BY DEF StoreTypes, RefreshRows
    <2>4. k.sequence <= checkpoint'
      BY <1>1, <2>2 DEF KnowsStaged, TablesGoOn
    <2>5. ASSUME refresh'[r].state = "staged"
          PROVE  k.sequence = refresh'[r].sequence /\ k.revision <= refresh'[r].revision
      BY <1>1, <2>1, <2>2, <2>3, <2>5 DEF KnowsStaged, RefreshGoesOn
    <2>6. QED BY <2>1, <2>2, <2>4, <2>5 DEF KnowsStaged, RefreshGoesOn
  <1>5. StillRequired(k)'
    <2>1. SUFFICES ASSUME k.pc = "accept", refresh'[k.refresh].state = "staged",
                          refresh'[k.refresh].revision = k.revision,
                          inventory' = k.inventory
                   PROVE  Impacted' \subseteq refresh'[k.refresh].pending
                                                 \cup refresh'[k.refresh].clear
      BY DEF StillRequired
    <2>2. PICK r \in Refreshes : r = k.refresh
      BY <2>1 DEF CallSound
    <2>3. KnowsStaged(k) /\ RefreshGoesOn(r) /\ StillRequired(k)
      BY <2>1, <2>2 DEF CallSound, TablesGoOn, Late
    <2>4. refresh[r].revision \in Nat /\ refresh'[r].revision \in Nat
      BY DEF StoreTypes, RefreshRows
    <2>5. inventory = k.inventory
      BY <1>1, <2>1 DEF CallSound, TablesGoOn
    <2>6. extension' = extension
      BY <2>1, <2>5 DEF TablesGoOn
    <2>7. Impacted' = Impacted
      BY <2>6 DEF Impacted, Impact, Active
    <2>8. refresh[r].state = "staged" /\ refresh'[r].revision >= refresh[r].revision
      BY <2>1, <2>2, <2>3 DEF KnowsStaged, RefreshGoesOn
    <2>9. refresh[r].revision = k.revision
      BY <1>1, <2>1, <2>2, <2>3, <2>4, <2>8 DEF KnowsStaged
    <2>10. Impacted \subseteq refresh[r].pending \cup refresh[r].clear
      BY <2>1, <2>2, <2>3, <2>5, <2>8, <2>9 DEF StillRequired
    <2>11. QED
      BY <2>1, <2>2, <2>3, <2>7, <2>8, <2>9, <2>10 DEF KnowsStaged, RefreshGoesOn
  <1>6. QED BY <1>2, <1>3, <1>4, <1>5 DEF CallSound

(* Tables that stay as they are go on. *)
TablesKept == UNCHANGED <<checkpoint, mirror, refresh, extension, inventory, withdrawn>>

LEMMA KeptTablesGoOn ==
    ASSUME StoreTypes, TablesKept
    PROVE  TablesGoOn
  <1>1. \A r \in Refreshes : RefreshGoesOn(r)
    BY DEF TablesKept, StoreTypes, RefreshRows, RefreshGoesOn
  <1>2. QED BY <1>1, InstalledGenerations DEF TablesKept, StoreTypes, TablesGoOn

LEMMA KeptTablesSound ==
    ASSUME TablesKept, PointersAgree, RowsSound, ReceiptsBehind
    PROVE  PointersAgree' /\ RowsSound' /\ ReceiptsBehind'
  BY DEF TablesKept, PointersAgree, RowsSound, ReceiptsBehind

(* A step of one call, whatever it does to the tables, keeps the others     *)
(* sound. *)
LEMMA CallMoves ==
    ASSUME CatalogInv, NEW c \in Calls, NEW k \in CallRows,
           call' = [call EXCEPT ![c] = k],
           StoreTypes', TablesGoOn, CallSound(k)'
    PROVE  CatalogTypes' /\ CallsSound'
  <1>1. call' \in [Calls -> CallRows]
    BY DEF CatalogInv, CatalogTypes
  <1>2. ASSUME NEW d \in Calls
        PROVE  CallSound(call[d])'
    <2>1. CASE d = c
      BY <2>1 DEF CatalogInv, CatalogTypes
    <2>2. CASE d # c
      <3>1. PICK m : m = call[d]
        OBVIOUS
      <3>2. m \in CallRows /\ CallSound(m)
        BY <3>1 DEF CatalogInv, CatalogTypes, CallsSound
      <3>3. CallSound(m)'
        BY <3>2, SoundCallStays DEF CatalogInv, CatalogTypes
      <3>4. call'[d] = m
        BY <2>2, <3>1 DEF CatalogInv, CatalogTypes
      <3>5. QED BY <3>3, <3>4
    <2>3. QED BY <2>1, <2>2
  <1>3. QED BY <1>1, <1>2 DEF CatalogTypes, CallsSound

(* A step that only moves a call on. *)
LEMMA CallMovesAlone ==
    ASSUME CatalogInv, NEW c \in Calls, NEW k \in CallRows,
           call' = [call EXCEPT ![c] = k], TablesKept, StoreTypes',
           CallSound(k)
    PROVE  CatalogInv'
  <1>1. TablesGoOn
    BY KeptTablesGoOn DEF CatalogInv, CatalogTypes
  <1>2. CallSound(k)'
    BY <1>1, SoundCallStays DEF CatalogInv, CatalogTypes
  <1>3. CatalogTypes' /\ CallsSound'
    BY <1>1, <1>2, CallMoves
  <1>4. QED BY <1>3, KeptTablesSound DEF CatalogInv

-----------------------------------------------------------------------------
(* The ways a call goes on. *)

LEMMA PlainCall ==
    ASSUME NEW k \in CallRows,
           k.pc # "idle" => k.refresh \in Refreshes,
           k.pc \notin {"stage", "quarantine", "mark", "accept"},
           k.verdict = {}, k.inventory <= inventory,
           k.pc \in {"checkpoint"} \cup Late => k.sequence \in Catalogs,
           k.pc \in Late => KnowsStaged(k)
    PROVE  CallSound(k)
  BY DEF CallSound, VerdictSound, StillRequired

LEMMA NewCallSound ==
    ASSUME inventory \in Nat
    PROVE  NewCall \in CallRows /\ CallSound(NewCall)
  <1>1. NewCall \in CallRows
    BY DEF NewCall, CallRows, CallSteps, SingleItems
  <1>2. /\ NewCall.pc = "idle" /\ NewCall.verdict = {} /\ NewCall.inventory = 0
        /\ "idle" \notin Late
    BY DEF NewCall, Late
  <1>3. CallSound(NewCall)
    BY <1>1, <1>2, PlainCall
  <1>4. QED BY <1>1, <1>3

(* It returns or throws, *)
LEMMA EndsMoves ==
    ASSUME CatalogInv, NEW c \in Calls, Ends(c), TablesKept, UNCHANGED authority
    PROVE  CatalogInv'
  <1>1. StoreTypes'
    BY DEF CatalogInv, CatalogTypes, StoreTypes, TablesKept
  <1>2. QED
    BY <1>1, NewCallSound, CallMovesAlone DEF Ends, CatalogInv, CatalogTypes, StoreTypes

(* rejects its refresh, *)
LEMMA RejectsMoves ==
    ASSUME CatalogInv, NEW c \in Calls, call[c].pc # "idle", Rejects(c), TablesKept,
           UNCHANGED authority
    PROVE  CatalogInv'
  <1>1. StoreTypes'
    BY DEF CatalogInv, CatalogTypes, StoreTypes, TablesKept
  <1>2. call[c] \in CallRows /\ CallSound(call[c]) /\ inventory \in Nat
    BY DEF CatalogInv, CatalogTypes, CallsSound, StoreTypes
  <1>3. PICK k : k = [NewCall EXCEPT !.pc = "reject", !.refresh = call[c].refresh,
                                     !.revision = call[c].revision]
    OBVIOUS
  <1>4. /\ k.pc = "reject" /\ k.refresh = call[c].refresh /\ k.verdict = {}
        /\ k.inventory = 0 /\ "reject" \notin Late
    BY <1>3 DEF NewCall, Late
  <1>5. k \in CallRows
    BY <1>2, <1>3, NewCallSound DEF CallRows, CallSteps
  <1>6. k.refresh \in Refreshes
    BY <1>2, <1>4 DEF CallSound
  <1>7. CallSound(k)
    BY <1>2, <1>4, <1>5, <1>6, PlainCall
  <1>8. call' = [call EXCEPT ![c] = k]
    BY <1>3 DEF Rejects
  <1>9. QED BY <1>1, <1>5, <1>7, <1>8, CallMovesAlone

(* or begins the next round of its loop. *)
LEMMA RetryMoves ==
    ASSUME CatalogInv, NEW c \in Calls, call[c].pc \in Late, NEW pc \in {"staged", "observe"},
           Retry(c, pc), TablesKept, UNCHANGED authority
    PROVE  CatalogInv'
  <1>1. StoreTypes'
    BY DEF CatalogInv, CatalogTypes, StoreTypes, TablesKept
  <1>2. call[c] \in CallRows /\ CallSound(call[c]) /\ inventory \in Nat
    BY DEF CatalogInv, CatalogTypes, CallsSound, StoreTypes
  <1>3. PICK k : k = [NewCall EXCEPT !.pc = pc, !.refresh = call[c].refresh,
                                     !.attempt = call[c].attempt + 1,
                                     !.revision = call[c].revision,
                                     !.sequence = call[c].sequence]
    OBVIOUS
  <1>4. CASE Ends(c)
    BY <1>4, EndsMoves
  <1>5. CASE call' = [call EXCEPT ![c] = k]
    <2>1. /\ k.pc = pc /\ k.refresh = call[c].refresh /\ k.revision = call[c].revision
          /\ k.sequence = call[c].sequence /\ k.verdict = {} /\ k.inventory = 0
      BY <1>3 DEF NewCall
    <2>2. call[c].attempt + 1 \in Nat
      BY <1>2 DEF CallRows
    <2>3. k \in CallRows
      BY <1>2, <1>3, <2>2, NewCallSound DEF CallRows, CallSteps, Late
    <2>4. k.refresh \in Refreshes /\ k.sequence \in Catalogs /\ KnowsStaged(k)
      BY <1>2, <2>1 DEF CallSound, KnowsStaged, Late
    <2>5. CallSound(k)
      BY <1>2, <2>1, <2>3, <2>4, PlainCall
    <2>6. QED BY <1>1, <1>5, <2>3, <2>5, CallMovesAlone
  <1>6. QED BY <1>3, <1>4, <1>5 DEF Retry

(* A call that only reads and goes on. *)
LEMMA ReadsMoves ==
    ASSUME CatalogInv, NEW c \in Calls, NEW k \in CallRows, CallSound(k),
           call' = [call EXCEPT ![c] = k], TablesKept, UNCHANGED authority
    PROVE  CatalogInv'
  <1>1. StoreTypes'
    BY DEF CatalogInv, CatalogTypes, StoreTypes, TablesKept
  <1>2. QED BY <1>1, CallMovesAlone

LEMMA CallFacts ==
    ASSUME CatalogInv, NEW c \in Calls
    PROVE  /\ call[c] \in CallRows /\ CallSound(call[c])
           /\ inventory \in Nat /\ checkpoint \in 0..MaxSequence /\ mirror.revision \in Nat
           /\ Impacted \in SUBSET Items
           /\ call[c].pc # "idle" =>
                 call[c].refresh \in Refreshes /\ Op(c) \in RefreshRows
  <1>1. call[c] \in CallRows /\ CallSound(call[c])
    BY DEF CatalogInv, CatalogTypes, CallsSound
  <1>2. Impacted \in SUBSET Items
    BY DEF CatalogInv, CatalogTypes, StoreTypes, Impacted, Impact, Items
  <1>3. QED
    BY <1>1, <1>2 DEF CatalogInv, CatalogTypes, StoreTypes, CallSound, Op

-----------------------------------------------------------------------------
(* fetchAndStage(). *)

LEMMA ResumeKeeps ==
    ASSUME CatalogInv, NEW c \in Calls, Resume(c)
    PROVE  CatalogInv'
  <1>1. TablesKept /\ UNCHANGED authority /\ call[c].pc = "resume"
    BY DEF Resume, TablesKept, Do
  <1>2. CASE Ends(c)
    BY <1>1, <1>2, EndsMoves
  <1>3. CASE Rejects(c)
    BY <1>1, <1>3, RejectsMoves
  <1>4. PICK k : k = [call[c] EXCEPT !.from = "none",
                          !.pc = IF call[c].from = "fetching" THEN "fetch" ELSE "staged"]
    OBVIOUS
  <1>5. CASE call' = [call EXCEPT ![c] = k]
    <2>1. call[c] \in CallRows /\ CallSound(call[c])
      BY CallFacts
    <2>2. /\ k.pc \in {"fetch", "staged"} /\ k.refresh = call[c].refresh
          /\ k.verdict = call[c].verdict /\ k.inventory = call[c].inventory
      BY <1>4, <2>1 DEF CallRows
    <2>3. k \in CallRows
      BY <1>4, <2>1 DEF CallRows, CallSteps
    <2>4. k.refresh \in Refreshes /\ k.verdict = {} /\ k.inventory <= inventory
      BY <1>1, <2>1, <2>2 DEF CallSound, VerdictSound
    <2>5. CallSound(k)
      BY <2>2, <2>3, <2>4, PlainCall DEF Late
    <2>6. QED BY <1>1, <1>5, <2>3, <2>5, ReadsMoves
  <1>6. QED BY <1>2, <1>3, <1>4, <1>5 DEF Resume

LEMMA FetchKeeps ==
    ASSUME CatalogInv, NEW c \in Calls, Fetch(c)
    PROVE  CatalogInv'
  <1>1. TablesKept /\ UNCHANGED authority /\ call[c].pc = "fetch"
    BY DEF Fetch, TablesKept, Do
  <1>2. CASE Rejects(c)
    BY <1>1, <1>2, RejectsMoves
  <1>3. ASSUME NEW s \in Catalogs,
               call' = [call EXCEPT ![c].pc = "checkpoint", ![c].sequence = s]
        PROVE  CatalogInv'
    <2>1. call[c] \in CallRows /\ CallSound(call[c])
      BY CallFacts
    <2>2. PICK k : k = [call[c] EXCEPT !.pc = "checkpoint", !.sequence = s]
      OBVIOUS
    <2>3. /\ k.pc = "checkpoint" /\ k.refresh = call[c].refresh /\ k.sequence = s
          /\ k.verdict = call[c].verdict /\ k.inventory = call[c].inventory
      BY <2>1, <2>2 DEF CallRows
    <2>4. k \in CallRows
      <3>1. s \in Nat
        BY InstalledGenerations DEF Catalogs
      <3>2. QED BY <2>1, <2>2, <3>1 DEF CallRows, CallSteps
    <2>5. k.refresh \in Refreshes /\ k.verdict = {} /\ k.inventory <= inventory
      BY <1>1, <2>1, <2>3 DEF CallSound, VerdictSound
    <2>6. CallSound(k)
      BY <2>3, <2>4, <2>5, PlainCall DEF Late
    <2>7. QED BY <1>1, <1>3, <2>2, <2>4, <2>6, ReadsMoves
  <1>4. QED BY <1>2, <1>3 DEF Fetch

LEMMA ReadCheckpointKeeps ==
    ASSUME CatalogInv, NEW c \in Calls, ReadCheckpoint(c)
    PROVE  CatalogInv'
  <1>1. TablesKept /\ UNCHANGED authority /\ call[c].pc = "checkpoint"
    BY DEF ReadCheckpoint, TablesKept, Do
  <1>2. CASE Rejects(c)
    BY <1>1, <1>2, RejectsMoves
  <1>3. ASSUME call[c].sequence > checkpoint,
               call' = [call EXCEPT ![c].pc = "stage", ![c].previous = checkpoint,
                                    ![c].wanted = Impacted]
        PROVE  CatalogInv'
    <2>1. /\ call[c] \in CallRows /\ CallSound(call[c]) /\ checkpoint \in Nat
          /\ Impacted \in SUBSET Items
      BY CallFacts, InstalledGenerations
    <2>2. PICK k : k = [call[c] EXCEPT !.pc = "stage", !.previous = checkpoint,
                                       !.wanted = Impacted]
      OBVIOUS
    <2>3. /\ k.pc = "stage" /\ k.refresh = call[c].refresh /\ k.sequence = call[c].sequence
          /\ k.previous = checkpoint
          /\ k.verdict = call[c].verdict /\ k.inventory = call[c].inventory
      BY <2>1, <2>2 DEF CallRows
    <2>4. k \in CallRows
      BY <2>1, <2>2 DEF CallRows, CallSteps
    <2>5. k.previous < k.sequence /\ k.sequence \in Catalogs
      BY <1>1, <1>3, <2>1, <2>3 DEF CallSound, Catalogs
    <2>6. CallSound(k)
      BY <1>1, <2>1, <2>3, <2>5 DEF CallSound, VerdictSound, StillRequired, Late
    <2>7. QED BY <1>1, <1>3, <2>2, <2>4, <2>6, ReadsMoves
  <1>4. QED BY <1>2, <1>3 DEF ReadCheckpoint

(* The call goes on with what is staged. *)
LEMMA StagedCall ==
    ASSUME NEW r \in Refreshes, inventory \in Nat,
           NEW k, k = [NewCall EXCEPT !.pc = "staged", !.refresh = r]
    PROVE  k \in CallRows /\ CallSound(k)
  <1>1. k.pc = "staged" /\ k.refresh = r /\ k.verdict = {} /\ k.inventory = 0
    BY DEF NewCall
  <1>2. k \in CallRows
    BY NewCallSound DEF CallRows, CallSteps
  <1>3. k.inventory <= inventory
    BY <1>1
  <1>4. CallSound(k)
    BY <1>1, <1>2, <1>3, PlainCall DEF Late
  <1>5. QED BY <1>2, <1>4

LEMMA StagedElsewhereKeeps ==
    ASSUME CatalogInv, NEW c \in Calls, StagedElsewhere(c)
    PROVE  CatalogInv'
  <1>1. TablesKept /\ UNCHANGED authority /\ call[c].pc = "stage"
    BY DEF StagedElsewhere, TablesKept, Do
  <1>2. CASE Ends(c)
    BY <1>1, <1>2, EndsMoves
  <1>3. PICK k : k = [NewCall EXCEPT !.pc = "staged", !.refresh = call[c].refresh]
    OBVIOUS
  <1>4. CASE call' = [call EXCEPT ![c] = k]
    <2>1. call[c].refresh \in Refreshes /\ inventory \in Nat
      BY <1>1, CallFacts
    <2>2. k \in CallRows /\ CallSound(k)
      BY <1>3, <2>1, StagedCall
    <2>3. QED BY <1>1, <1>4, <2>2, ReadsMoves
  <1>5. QED BY <1>2, <1>3, <1>4 DEF StagedElsewhere

-----------------------------------------------------------------------------
(* Who owns what is staged, one refresh at a time. *)

OwnersAgree ==
    /\ mirror.accepted <= checkpoint
    /\ mirror.staged = 0 => \A r \in Refreshes : refresh[r].state # "staged"
    /\ mirror.staged # 0 =>
          /\ mirror.staged = checkpoint /\ mirror.staged > mirror.accepted
          /\ \E o \in Refreshes :
                /\ refresh[o].state = "staged" /\ refresh[o].sequence = mirror.staged
                /\ \A r \in Refreshes : refresh[r].state = "staged" => r = o

LEMMA PointersOfOwners ==
    (PointersAgree <=> OwnersAgree) /\ (PointersAgree' <=> OwnersAgree')
  <1> DEFINE owners == {r \in Refreshes : refresh[r].state = "staged"}
  <1>1. \A o \in Refreshes : /\ o \in owners
                             /\ \A r \in Refreshes : refresh[r].state = "staged" => r = o
                             <=> owners = {o}
    OBVIOUS
  <1>2. \A o \in Refreshes : /\ o \in owners'
                             /\ \A r \in Refreshes : refresh'[r].state = "staged" => r = o
                             <=> owners' = {o}
    OBVIOUS
  <1>3. PointersAgree <=> OwnersAgree
    BY <1>1 DEF PointersAgree, OwnersAgree
  <1>4. PointersAgree' <=> OwnersAgree'
    BY <1>2 DEF PointersAgree, OwnersAgree
  <1>5. QED BY <1>3, <1>4

-----------------------------------------------------------------------------
(* The steps that write a refresh. *)

LEMMA BeginKeeps ==
    ASSUME CatalogInv, NEW c \in Calls, NEW r \in Refreshes, Begin(c, r)
    PROVE  CatalogInv'
  <1>1. StoreTypes /\ inventory \in Nat /\ mirror.revision \in Nat
    BY CallFacts DEF CatalogInv, CatalogTypes
  <1>2. PICK k : k = [NewCall EXCEPT !.pc = "resume", !.refresh = r, !.from = refresh'[r].state,
                                     !.revision = refresh'[r].revision]
    OBVIOUS
  <1>3. call' = [call EXCEPT ![c] = k]
    BY <1>2 DEF Begin
  <1>4. PICK o : o = [NewRefresh EXCEPT !.state = "fetching", !.revision = 1,
                                        !.expected = mirror.revision]
    OBVIOUS
  <1>5. o \in RefreshRows /\ o.state = "fetching" /\ o.clear = {}
    BY <1>1, <1>4 DEF NewRefresh, RefreshRows
  <1>6. \/ refresh[r].state = "none" /\ refresh' = [refresh EXCEPT ![r] = o]
        \/ Unfinished(r) /\ refresh' = refresh
    BY <1>4 DEF Begin
  <1>7. StoreTypes'
    BY <1>1, <1>5, <1>6 DEF Begin, StoreTypes
  <1>8. refresh'[r].state \in {"fetching", "staged"} /\ refresh'[r].revision \in Nat
    BY <1>1, <1>5, <1>6, <1>7 DEF StoreTypes, RefreshRows, Unfinished
  <1>9. k \in CallRows /\ CallSound(k)'
    <2>1. k.pc = "resume" /\ k.refresh = r /\ k.verdict = {} /\ k.inventory = 0
      BY <1>2 DEF NewCall
    <2>2. k \in CallRows
      BY <1>1, <1>2, <1>8, NewCallSound DEF CallRows, CallSteps
    <2>3. k.inventory <= inventory'
      BY <1>1, <2>1 DEF Begin
    <2>4. QED
      BY <2>1, <2>2, <2>3 DEF CallSound, VerdictSound, StillRequired, Late
  <1>10. TablesGoOn
    <2>1. \A x \in Refreshes : RefreshGoesOn(x)
      BY <1>1, <1>6 DEF RefreshGoesOn, StoreTypes, RefreshRows, Begun
    <2>2. QED BY <1>1, <2>1, InstalledGenerations DEF Begin, TablesGoOn, StoreTypes
  <1>11. RowsSound' /\ ReceiptsBehind'
    BY <1>1, <1>5, <1>6 DEF CatalogInv, RowsSound, ReceiptsBehind, Begin, StoreTypes
  <1>12. PointersAgree'
    <2>1. OwnersAgree'
      BY <1>1, <1>5, <1>6, PointersOfOwners DEF CatalogInv, OwnersAgree, Begin, StoreTypes
    <2>2. QED BY <2>1, PointersOfOwners
  <1>13. QED BY <1>3, <1>7, <1>9, <1>10, <1>11, <1>12, CallMoves DEF CatalogInv

(* What a step leaves behind that ends a refresh. *)
LEMMA SettledRow ==
    ASSUME NEW state \in {"rejected", "accepted"}
    PROVE  /\ Settled(state) \in RefreshRows
           /\ Settled(state).state = state
  BY DEF Settled, NewRefresh, RefreshRows

LEMMA RejectKeeps ==
    ASSUME CatalogInv, NEW c \in Calls, Reject(c)
    PROVE  CatalogInv'
  <1> DEFINE r == call[c].refresh
  <1>1. /\ StoreTypes /\ inventory \in Nat /\ r \in Refreshes /\ call[c].pc = "reject"
        /\ Ends(c) /\ UNCHANGED <<checkpoint, extension, inventory, withdrawn, authority>>
    BY CallFacts DEF CatalogInv, CatalogTypes, Reject, Do
  <1>2. CASE UNCHANGED <<mirror, refresh>>
    BY <1>1, <1>2, EndsMoves DEF TablesKept
  <1>3. CASE /\ Unfinished(r) /\ mirror' = Unstaged(mirror, r)
             /\ refresh' = [refresh EXCEPT ![r] = Settled("rejected")]
    <2>1. /\ refresh'[r] = Settled("rejected") /\ refresh'[r].state = "rejected"
          /\ \A x \in Refreshes : x # r => refresh'[x] = refresh[x]
      BY <1>1, <1>3, SettledRow DEF StoreTypes
    <2>2. /\ mirror' \in [revision : Nat, staged : 0..MaxSequence, accepted : 0..MaxSequence]
          /\ mirror'.accepted = mirror.accepted
          /\ mirror'.staged = IF refresh[r].state = "staged" THEN 0 ELSE mirror.staged
      <3>1. mirror \in [revision : Nat, staged : 0..MaxSequence, accepted : 0..MaxSequence]
        BY <1>1 DEF StoreTypes
      <3>2. mirror.revision + 1 \in Nat /\ 0 \in 0..MaxSequence
        BY <3>1, InstalledGenerations
      <3>3. CASE refresh[r].state = "staged"
        BY <1>3, <3>1, <3>2, <3>3 DEF Unstaged
      <3>4. CASE refresh[r].state # "staged"
        BY <1>3, <3>1, <3>4 DEF Unstaged
      <3>5. QED BY <3>3, <3>4
    <2>3. StoreTypes'
      BY <1>1, <1>3, <2>2, SettledRow DEF StoreTypes
    <2>4. TablesGoOn
      <3>1. \A x \in Refreshes : RefreshGoesOn(x)
        BY <1>1, <2>1 DEF RefreshGoesOn, StoreTypes, RefreshRows, Begun
      <3>2. QED BY <1>1, <3>1, InstalledGenerations DEF TablesGoOn, StoreTypes
    <2>5. RowsSound' /\ ReceiptsBehind'
      BY <1>1, <2>1 DEF CatalogInv, RowsSound, ReceiptsBehind
    <2>6. OwnersAgree'
      BY <1>1, <2>1, <2>2, PointersOfOwners DEF CatalogInv, OwnersAgree
    <2>7. NewCall \in CallRows /\ CallSound(NewCall)'
      <3>1. /\ NewCall.pc = "idle" /\ NewCall.verdict = {} /\ NewCall.inventory <= inventory'
        BY <1>1 DEF NewCall
      <3>2. QED
        BY <1>1, <3>1, NewCallSound
        DEF CallSound, VerdictSound, StillRequired, Late
    <2>8. QED
      BY <1>1, <2>3, <2>4, <2>5, <2>6, <2>7, CallMoves, PointersOfOwners DEF CatalogInv, Ends
  <1>4. QED BY <1>2, <1>3 DEF Reject

LEMMA StageKeeps ==
    ASSUME CatalogInv, NEW c \in Calls, Stage(c)
    PROVE  CatalogInv'
  <1> DEFINE r == call[c].refresh
             s == call[c].sequence
  <1>1. /\ StoreTypes /\ inventory \in Nat /\ r \in Refreshes /\ call[c].pc = "stage"
        /\ call[c] \in CallRows /\ s \in Catalogs /\ call[c].previous < s
        /\ refresh[r].state = "fetching"
        /\ UNCHANGED <<extension, inventory, withdrawn, authority>>
    BY CallFacts DEF CatalogInv, CatalogTypes, Stage, Do, CallSound
  <1>2. CASE Rejects(c) /\ UNCHANGED <<checkpoint, mirror, refresh>>
    BY <1>1, <1>2, RejectsMoves DEF TablesKept
  <1>3. PICK o : o = [refresh[r] EXCEPT !.state = "staged", !.revision = @ + 1, !.sequence = s,
                                        !.pending = call[c].wanted]
    OBVIOUS
  <1>4. PICK k : k = [NewCall EXCEPT !.pc = "staged", !.refresh = r]
    OBVIOUS
  <1>5. CASE /\ MayStage(c) /\ checkpoint' = s
             /\ mirror' = [mirror EXCEPT !.staged = s, !.revision = @ + 1]
             /\ refresh' = [refresh EXCEPT ![r] = o]
             /\ call' = [call EXCEPT ![c] = k]
    <2>1. s \in Nat /\ s # 0 /\ s \in 0..MaxSequence /\ checkpoint \in Nat /\ checkpoint < s
      BY <1>1, <1>5, InstalledGenerations DEF Catalogs, MayStage, StoreTypes
    <2>2. /\ mirror' \in [revision : Nat, staged : 0..MaxSequence, accepted : 0..MaxSequence]
          /\ mirror'.accepted = mirror.accepted /\ mirror'.staged = s
          /\ mirror.accepted \in Nat
      <3>1. mirror \in [revision : Nat, staged : 0..MaxSequence, accepted : 0..MaxSequence]
        BY <1>1 DEF StoreTypes
      <3>2. mirror.revision + 1 \in Nat /\ mirror.accepted \in Nat
        BY <3>1, InstalledGenerations
      <3>3. QED BY <1>5, <2>1, <3>1, <3>2
    <2>3. refresh[r] \in RefreshRows /\ call[c].wanted \in SUBSET Items
      BY <1>1 DEF StoreTypes, CallRows
    <2>4. /\ o \in RefreshRows /\ o.state = "staged" /\ o.sequence = s
          /\ o.clear = refresh[r].clear
      <3>1. refresh[r].revision + 1 \in Nat
        BY <2>3 DEF RefreshRows
      <3>2. QED BY <1>3, <2>1, <2>3, <3>1 DEF RefreshRows
    <2>5. /\ refresh'[r] = o
          /\ \A x \in Refreshes : x # r => refresh'[x] = refresh[x]
      BY <1>1, <1>5 DEF StoreTypes
    <2>6. StoreTypes'
      BY <1>1, <1>5, <2>1, <2>2, <2>4 DEF StoreTypes
    <2>7. TablesGoOn
      <3>1. \A x \in Refreshes : RefreshGoesOn(x)
        BY <1>1, <2>5 DEF RefreshGoesOn, StoreTypes, RefreshRows, Begun
      <3>2. QED BY <1>1, <1>5, <2>1, <3>1 DEF TablesGoOn, StoreTypes
    <2>8. RowsSound' /\ ReceiptsBehind'
      BY <1>1, <2>4, <2>5 DEF CatalogInv, RowsSound, ReceiptsBehind
    <2>9. OwnersAgree'
      <3>1. OwnersAgree /\ mirror.staged = 0
        BY <1>5, PointersOfOwners DEF CatalogInv, MayStage
      <3>2. \A x \in Refreshes : refresh'[x].state = "staged" => x = r
        BY <2>5, <3>1 DEF OwnersAgree
      <3>3. mirror'.accepted <= checkpoint' /\ mirror'.staged > mirror'.accepted
        BY <1>5, <2>1, <2>2, <3>1 DEF OwnersAgree
      <3>4. QED BY <1>1, <1>5, <2>1, <2>2, <2>4, <2>5, <3>2, <3>3 DEF OwnersAgree
    <2>10. k \in CallRows /\ CallSound(k)'
      <3>1. k \in CallRows
        BY <1>1, <1>4, StagedCall
      <3>2. k.pc = "staged" /\ k.refresh = r /\ k.verdict = {} /\ k.inventory = 0
        BY <1>4 DEF NewCall
      <3>3. k.inventory <= inventory'
        BY <1>1, <3>2
      <3>4. QED
        BY <1>1, <3>1, <3>2, <3>3 DEF CallSound, VerdictSound, StillRequired, Late
    <2>11. QED
      BY <1>5, <2>6, <2>7, <2>8, <2>9, <2>10, CallMoves, PointersOfOwners DEF CatalogInv
  <1>6. QED BY <1>2, <1>3, <1>4, <1>5 DEF Stage

-----------------------------------------------------------------------------
(* reconcile(): the steps that only read. *)

LEMMA LateCall ==
    ASSUME CatalogInv, NEW c \in Calls, call[c].pc \in Late,
           NEW k \in CallRows, k.pc \in Late \ {"quarantine", "mark", "accept"},
           k.refresh = call[c].refresh, k.sequence = call[c].sequence,
           k.revision = call[c].revision, k.inventory = call[c].inventory,
           k.verdict = {}
    PROVE  CallSound(k)
  <1>1. CallSound(call[c])
    BY CallFacts
  <1>2. /\ k.refresh \in Refreshes /\ k.sequence \in Catalogs /\ KnowsStaged(k)
        /\ k.inventory <= inventory
    BY <1>1 DEF CallSound, KnowsStaged, Late
  <1>3. k.pc \notin {"stage", "quarantine", "mark", "accept"}
    BY DEF Late
  <1>4. QED BY <1>2, <1>3, PlainCall

LEMMA ReadStagedKeeps ==
    ASSUME CatalogInv, NEW c \in Calls, ReadStaged(c)
    PROVE  CatalogInv'
  <1> DEFINE r == call[c].refresh
  <1>1. TablesKept /\ UNCHANGED authority /\ call[c].pc = "staged"
    BY DEF ReadStaged, TablesKept, Do
  <1>2. /\ call[c] \in CallRows /\ CallSound(call[c]) /\ r \in Refreshes
        /\ refresh[r] \in RefreshRows /\ RowsSound
    BY <1>1, CallFacts DEF Op, CatalogInv
  <1>3. CASE Ends(c)
    BY <1>1, <1>3, EndsMoves
  <1>4. PICK k : k = [call[c] EXCEPT !.pc = "observe", !.revision = refresh[r].revision,
                                     !.sequence = refresh[r].sequence]
    OBVIOUS
  <1>5. ASSUME refresh[r].state = "staged", refresh[r].sequence = checkpoint,
               call' = [call EXCEPT ![c] = k]
        PROVE  CatalogInv'
    <2>1. refresh[r].revision \in Nat /\ refresh[r].sequence \in Nat
      BY <1>2 DEF RefreshRows
    <2>2. k \in CallRows
      BY <1>2, <1>4, <2>1 DEF CallRows, CallSteps, Late
    <2>3. /\ k.pc = "observe" /\ k.refresh = r /\ k.revision = refresh[r].revision
          /\ k.sequence = refresh[r].sequence
          /\ k.verdict = call[c].verdict /\ k.inventory = call[c].inventory
      BY <1>2, <1>4 DEF CallRows
    <2>4. k.verdict = {} /\ k.inventory <= inventory
      BY <1>1, <1>2, <2>3 DEF CallSound, VerdictSound
    <2>5. k.sequence \in Catalogs /\ KnowsStaged(k)
      BY <1>2, <1>5, <2>1, <2>3 DEF RowsSound, KnowsStaged, Begun
    <2>6. CallSound(k)
      BY <1>2, <2>2, <2>3, <2>4, <2>5, PlainCall
    <2>7. QED BY <1>1, <1>5, <2>2, <2>6, ReadsMoves
  <1>6. QED BY <1>3, <1>4, <1>5 DEF ReadStaged, Op

LEMMA ObserveKeeps ==
    ASSUME CatalogInv, NEW c \in Calls, Observe(c)
    PROVE  CatalogInv'
  <1>1. TablesKept /\ UNCHANGED authority /\ call[c].pc = "observe"
    BY DEF Observe, TablesKept, Do
  <1>2. /\ call[c] \in CallRows /\ CallSound(call[c]) /\ mirror.revision \in Nat
        /\ Impacted \in SUBSET Items
    BY CallFacts
  <1>3. CASE Ends(c)
    BY <1>1, <1>3, EndsMoves
  <1>4. PICK k : k = [call[c] EXCEPT !.pc = "rebase", !.wanted = Impacted,
                                     !.catalog = mirror.revision]
    OBVIOUS
  <1>5. CASE call' = [call EXCEPT ![c] = k]
    <2>1. k \in CallRows
      BY <1>2, <1>4 DEF CallRows, CallSteps, Late
    <2>2. /\ k.pc = "rebase" /\ k.refresh = call[c].refresh /\ k.revision = call[c].revision
          /\ k.sequence = call[c].sequence
          /\ k.verdict = call[c].verdict /\ k.inventory = call[c].inventory
      BY <1>2, <1>4 DEF CallRows
    <2>3. k.verdict = {}
      BY <1>1, <1>2, <2>2 DEF CallSound, VerdictSound
    <2>4. CallSound(k)
      BY <1>1, <2>1, <2>2, <2>3, LateCall DEF Late
    <2>5. QED BY <1>1, <1>5, <2>1, <2>4, ReadsMoves
  <1>6. QED BY <1>3, <1>4, <1>5 DEF Observe

LEMMA ReadRequirementsKeeps ==
    ASSUME CatalogInv, NEW c \in Calls, ReadRequirements(c)
    PROVE  CatalogInv'
  <1>1. TablesKept /\ UNCHANGED authority /\ call[c].pc = "work"
    BY DEF ReadRequirements, TablesKept, Do
  <1>2. call[c] \in CallRows /\ CallSound(call[c]) /\ Op(c).pending \in SUBSET Items
    BY <1>1, CallFacts DEF RefreshRows
  <1>3. PICK k : k = [call[c] EXCEPT !.pc = "exact", !.todo = Op(c).pending]
    OBVIOUS
  <1>4. k \in CallRows
    BY <1>2, <1>3 DEF CallRows, CallSteps, Late
  <1>5. /\ k.pc = "exact" /\ k.refresh = call[c].refresh /\ k.revision = call[c].revision
        /\ k.sequence = call[c].sequence
        /\ k.verdict = call[c].verdict /\ k.inventory = call[c].inventory
    BY <1>2, <1>3 DEF CallRows
  <1>6. k.verdict = {}
    BY <1>1, <1>2, <1>5 DEF CallSound, VerdictSound
  <1>7. CallSound(k)
    BY <1>1, <1>4, <1>5, <1>6, LateCall DEF Late
  <1>8. QED BY <1>1, <1>3, <1>4, <1>7, ReadsMoves DEF ReadRequirements

LEMMA ExactRequirementKeeps ==
    ASSUME CatalogInv, NEW c \in Calls, ExactRequirement(c)
    PROVE  CatalogInv'
  <1>1. TablesKept /\ UNCHANGED authority /\ call[c].pc = "exact"
    BY DEF ExactRequirement, TablesKept, Do
  <1>2. call[c] \in CallRows /\ CallSound(call[c]) /\ call[c].verdict = {}
    BY <1>1, CallFacts DEF CallSound, VerdictSound
  <1>3. CASE Goto(c, "final")
    <2>1. PICK k : k = [call[c] EXCEPT !.pc = "final"]
      OBVIOUS
    <2>2. k \in CallRows
      BY <1>2, <2>1 DEF CallRows, CallSteps, Late
    <2>3. /\ k.pc = "final" /\ k.refresh = call[c].refresh /\ k.revision = call[c].revision
          /\ k.sequence = call[c].sequence
          /\ k.verdict = {} /\ k.inventory = call[c].inventory
      BY <1>2, <2>1 DEF CallRows
    <2>4. CallSound(k)
      BY <1>1, <2>2, <2>3, LateCall DEF Late
    <2>5. QED BY <1>1, <1>3, <2>1, <2>2, <2>4, ReadsMoves DEF Goto
  <1>4. ASSUME NEW q \in call[c].todo,
               call' = [call EXCEPT ![c].pc = "judge", ![c].item = {q}]
        PROVE  CatalogInv'
    <2>1. PICK k : k = [call[c] EXCEPT !.pc = "judge", !.item = {q}]
      OBVIOUS
    <2>2. {q} \in SingleItems
      BY <1>2 DEF CallRows, SingleItems
    <2>3. k \in CallRows
      BY <1>2, <2>1, <2>2 DEF CallRows, CallSteps, Late
    <2>4. /\ k.pc = "judge" /\ k.refresh = call[c].refresh /\ k.revision = call[c].revision
          /\ k.sequence = call[c].sequence
          /\ k.verdict = {} /\ k.inventory = call[c].inventory
      BY <1>2, <2>1 DEF CallRows
    <2>5. CallSound(k)
      BY <1>1, <2>3, <2>4, LateCall DEF Late
    <2>6. QED BY <1>1, <1>4, <2>1, <2>3, <2>5, ReadsMoves
  <1>5. CASE Retry(c, "observe")
    BY <1>1, <1>5, RetryMoves DEF Late
  <1>6. QED BY <1>3, <1>4, <1>5 DEF ExactRequirement

(* What is active is known by its extension alone. *)
LEMMA ImpactedItem ==
    ASSUME StoreTypes, NEW q \in Impacted
    PROVE  /\ q.ext \in Extensions /\ Active(q.ext)
           /\ q.gen = extension[q.ext].gen /\ q.rev = extension[q.ext].revision
  BY DEF Impacted, Impact

LEMMA JudgeKeeps ==
    ASSUME CatalogInv, NEW c \in Calls, Judge(c)
    PROVE  CatalogInv'
  <1>1. TablesKept /\ UNCHANGED authority /\ call[c].pc = "judge"
    BY DEF Judge, TablesKept, Do
  <1>2. /\ StoreTypes /\ call[c] \in CallRows /\ CallSound(call[c])
        /\ call[c].item \in SingleItems /\ call[c].verdict = {}
    BY <1>1, CallFacts DEF CatalogInv, CatalogTypes, CallSound, VerdictSound, CallRows
  <1>3. /\ call[c].refresh \in Refreshes /\ call[c].sequence \in Catalogs
        /\ KnowsStaged(call[c]) /\ call[c].inventory <= inventory
    BY <1>1, <1>2 DEF CallSound, Late
  <1>4. PICK q \in call[c].item :
           \/ q \in Impacted /\ Clears(call[c].sequence, q.ext) /\ Goto(c, "mark")
           \/ /\ Active(q.ext) /\ ~Clears(call[c].sequence, q.ext)
              /\ call' = [call EXCEPT ![c].pc = "quarantine", ![c].verdict = {Impact(q.ext)}]
           \/ \E w \in withdrawn : call' = [call EXCEPT ![c].pc = "mark", ![c].verdict = {w}]
           \/ Retry(c, "observe")
    BY DEF Judge
  <1>5. q \in Items /\ q.ext \in Extensions
    BY <1>2 DEF SingleItems, Items
  <1>6. CASE q \in Impacted /\ Clears(call[c].sequence, q.ext) /\ Goto(c, "mark")
    <2>1. PICK k : k = [call[c] EXCEPT !.pc = "mark"]
      OBVIOUS
    <2>2. k \in CallRows
      BY <1>2, <2>1 DEF CallRows, CallSteps, Late
    <2>3. /\ k.pc = "mark" /\ k.refresh = call[c].refresh /\ k.revision = call[c].revision
          /\ k.sequence = call[c].sequence /\ k.item = call[c].item
          /\ k.verdict = {} /\ k.inventory = call[c].inventory
      BY <1>2, <2>1 DEF CallRows
    <2>4. \A p \in k.item : p = q
      BY <1>2, <2>3 DEF SingleItems
    <2>5. <<q.ext, q.gen>> \notin Condemned[k.sequence]
      BY <1>2, <1>6, <2>3, ImpactedItem DEF Clears
    <2>6. VerdictSound(k)
      BY <2>3, <2>4, <2>5 DEF VerdictSound
    <2>7. CallSound(k)
      BY <1>3, <2>3, <2>6 DEF CallSound, KnowsStaged, StillRequired
    <2>8. QED BY <1>1, <1>6, <2>1, <2>2, <2>7, ReadsMoves DEF Goto
  <1>7. CASE /\ Active(q.ext) /\ ~Clears(call[c].sequence, q.ext)
             /\ call' = [call EXCEPT ![c].pc = "quarantine", ![c].verdict = {Impact(q.ext)}]
    <2>1. PICK k : k = [call[c] EXCEPT !.pc = "quarantine", !.verdict = {Impact(q.ext)}]
      OBVIOUS
    <2>2. /\ Impact(q.ext) \in Items
          /\ Impact(q.ext).ext = q.ext /\ Impact(q.ext).gen = extension[q.ext].gen
      BY <1>2, <1>5 DEF StoreTypes, Impact, Items
    <2>3. k \in CallRows
      BY <1>2, <2>1, <2>2 DEF CallRows, CallSteps, Late
    <2>4. /\ k.pc = "quarantine" /\ k.refresh = call[c].refresh
          /\ k.revision = call[c].revision /\ k.sequence = call[c].sequence
          /\ k.verdict = {Impact(q.ext)} /\ k.inventory = call[c].inventory
      BY <1>2, <2>1 DEF CallRows
    <2>5. VerdictSound(k)
      BY <1>7, <2>2, <2>4 DEF VerdictSound, Clears
    <2>6. CallSound(k)
      BY <1>3, <2>4, <2>5 DEF CallSound, KnowsStaged, StillRequired
    <2>7. QED BY <1>1, <1>7, <2>1, <2>3, <2>6, ReadsMoves
  <1>8. ASSUME NEW w \in withdrawn,
               call' = [call EXCEPT ![c].pc = "mark", ![c].verdict = {w}]
        PROVE  CatalogInv'
    <2>1. PICK k : k = [call[c] EXCEPT !.pc = "mark", !.verdict = {w}]
      OBVIOUS
    <2>2. w \in Receipts
      BY <1>2 DEF StoreTypes
    <2>3. k \in CallRows
      BY <1>2, <2>1, <2>2 DEF CallRows, CallSteps, Late
    <2>4. /\ k.pc = "mark" /\ k.refresh = call[c].refresh
          /\ k.revision = call[c].revision /\ k.sequence = call[c].sequence
          /\ k.verdict = {w} /\ k.inventory = call[c].inventory
      BY <1>2, <2>1 DEF CallRows
    <2>5. VerdictSound(k)
      BY <2>4 DEF VerdictSound
    <2>6. CallSound(k)
      BY <1>3, <2>4, <2>5 DEF CallSound, KnowsStaged, StillRequired
    <2>7. QED BY <1>1, <1>8, <2>1, <2>3, <2>6, ReadsMoves
  <1>9. CASE Retry(c, "observe")
    BY <1>1, <1>9, RetryMoves DEF Late
  <1>10. QED BY <1>4, <1>6, <1>7, <1>8, <1>9

LEMMA FinalKeeps ==
    ASSUME CatalogInv, NEW c \in Calls, Final(c)
    PROVE  CatalogInv'
  <1>1. TablesKept /\ UNCHANGED authority /\ call[c].pc = "final"
    BY DEF Final, TablesKept, Do
  <1>2. /\ call[c] \in CallRows /\ CallSound(call[c]) /\ call[c].verdict = {}
        /\ inventory \in Nat /\ authority.revision \in Nat
    BY <1>1, CallFacts DEF CatalogInv, CatalogTypes, StoreTypes, CallSound, VerdictSound
  <1>3. CASE Retry(c, "observe")
    BY <1>1, <1>3, RetryMoves DEF Late
  <1>4. CASE Rejects(c)
    BY <1>1, <1>4, RejectsMoves
  <1>5. ASSUME Op(c).pending \cup Op(c).clear = Impacted,
               call' = [call EXCEPT ![c].pc = "accept", ![c].inventory = inventory,
                                    ![c].authority = authority.revision]
        PROVE  CatalogInv'
    <2>1. PICK k : k = [call[c] EXCEPT !.pc = "accept", !.inventory = inventory,
                                       !.authority = authority.revision]
      OBVIOUS
    <2>2. k \in CallRows
      BY <1>2, <2>1 DEF CallRows, CallSteps, Late
    <2>3. /\ k.pc = "accept" /\ k.refresh = call[c].refresh
          /\ k.revision = call[c].revision /\ k.sequence = call[c].sequence
          /\ k.verdict = {} /\ k.inventory = inventory
      BY <1>2, <2>1 DEF CallRows
    <2>4. k.refresh \in Refreshes /\ k.sequence \in Catalogs /\ KnowsStaged(k)
      BY <1>1, <1>2, <2>3 DEF CallSound, KnowsStaged, Late
    <2>5. StillRequired(k)
      BY <1>5, <2>3 DEF StillRequired, Op
    <2>6. CallSound(k)
      BY <1>2, <2>3, <2>4, <2>5 DEF CallSound, VerdictSound
    <2>7. QED BY <1>1, <1>5, <2>1, <2>2, <2>6, ReadsMoves
  <1>6. QED BY <1>3, <1>4, <1>5 DEF Final

-----------------------------------------------------------------------------
(* reconcile(): the steps that write. *)

LEMMA RebasedRow ==
    ASSUME NEW o \in RefreshRows, NEW wanted \in SUBSET Items
    PROVE  /\ Rebased(o, wanted) \in RefreshRows
           /\ Rebased(o, wanted).state = o.state /\ Rebased(o, wanted).sequence = o.sequence
           /\ \/ Rebased(o, wanted) = o
              \/ /\ Rebased(o, wanted).revision = o.revision + 1
                 /\ Rebased(o, wanted).clear = {}
  <1> DEFINE next == {q \in wanted : \A p \in o.quarantined : ~SameRelease(p, q)}
             moved == [o EXCEPT !.pending = next, !.clear = {}, !.revision = @ + 1]
  <1>1. next \in SUBSET Items /\ o.revision + 1 \in Nat
    BY DEF RefreshRows
  <1>2. moved \in RefreshRows
    BY <1>1 DEF RefreshRows
  <1>3. /\ moved.state = o.state /\ moved.sequence = o.sequence
        /\ moved.revision = o.revision + 1 /\ moved.clear = {}
    BY DEF RefreshRows
  <1>4. Rebased(o, wanted) \in {o, moved}
    BY DEF Rebased
  <1> HIDE DEF moved
  <1>5. QED BY <1>2, <1>3, <1>4

LEMMA RebaseRequirementsKeeps ==
    ASSUME CatalogInv, NEW c \in Calls, RebaseRequirements(c)
    PROVE  CatalogInv'
  <1> DEFINE r == call[c].refresh
  <1>1. /\ call[c].pc = "rebase"
        /\ UNCHANGED <<checkpoint, mirror, extension, inventory, withdrawn, authority>>
    BY DEF RebaseRequirements, Do
  <1>2. /\ StoreTypes /\ call[c] \in CallRows /\ CallSound(call[c]) /\ r \in Refreshes
        /\ refresh[r] \in RefreshRows /\ inventory \in Nat
    BY <1>1, CallFacts DEF CatalogInv, CatalogTypes, Op
  <1>3. CASE Retry(c, "staged") /\ UNCHANGED refresh
    BY <1>1, <1>3, RetryMoves DEF TablesKept, Late
  <1>4. PICK o : o = Rebased(refresh[r], call[c].wanted)
    OBVIOUS
  <1>5. /\ o \in RefreshRows /\ o.state = refresh[r].state /\ o.sequence = refresh[r].sequence
        /\ o = refresh[r] \/ (o.revision = refresh[r].revision + 1 /\ o.clear = {})
        /\ o.revision \in Nat /\ refresh[r].revision \in Nat
    <2>1. call[c].wanted \in SUBSET Items
      BY <1>2 DEF CallRows
    <2>2. o \in RefreshRows
      BY <1>2, <1>4, <2>1, RebasedRow
    <2>3. o.revision \in Nat /\ refresh[r].revision \in Nat
      BY <1>2, <2>2 DEF RefreshRows
    <2>4. QED BY <1>2, <1>4, <2>1, <2>2, <2>3, RebasedRow
  <1>6. PICK k : k = [call[c] EXCEPT !.pc = "work", !.revision = o.revision, !.wanted = {}]
    OBVIOUS
  <1>7. ASSUME Unmoved(c), refresh' = [refresh EXCEPT ![r] = o], call' = [call EXCEPT ![c] = k]
        PROVE  CatalogInv'
    <2>1. /\ refresh'[r] = o
          /\ \A x \in Refreshes : x # r => refresh'[x] = refresh[x]
      BY <1>2, <1>7 DEF StoreTypes
    <2>2. StoreTypes'
      BY <1>1, <1>2, <1>5, <1>7 DEF StoreTypes
    <2>3. TablesGoOn
      <3>1. RefreshGoesOn(r)
        BY <1>5, <2>1 DEF RefreshGoesOn
      <3>2. \A x \in Refreshes : x # r => RefreshGoesOn(x)
        BY <1>2, <2>1 DEF RefreshGoesOn, StoreTypes, RefreshRows
      <3>3. QED BY <1>1, <1>2, <3>1, <3>2, InstalledGenerations DEF TablesGoOn, StoreTypes
    <2>4. RowsSound' /\ ReceiptsBehind'
      BY <1>1, <1>2, <1>5, <2>1 DEF CatalogInv, RowsSound, ReceiptsBehind
    <2>5. OwnersAgree'
      BY <1>1, <1>2, <1>5, <2>1, PointersOfOwners DEF CatalogInv, OwnersAgree
    <2>6. k \in CallRows
      BY <1>2, <1>5, <1>6 DEF CallRows, CallSteps, Late
    <2>7. /\ k.pc = "work" /\ k.refresh = r /\ k.revision = o.revision
          /\ k.sequence = call[c].sequence
          /\ k.verdict = call[c].verdict /\ k.inventory = call[c].inventory
      BY <1>2, <1>6 DEF CallRows
    <2>8. /\ k.verdict = {} /\ k.sequence \in Catalogs /\ KnowsStaged(call[c])
          /\ k.inventory <= inventory
      BY <1>1, <1>2, <2>7 DEF CallSound, VerdictSound, Late
    <2>9. KnowsStaged(k)'
      BY <1>1, <1>5, <2>1, <2>7, <2>8 DEF KnowsStaged
    <2>10. CallSound(k)'
      BY <1>1, <1>2, <2>7, <2>8, <2>9 DEF CallSound, VerdictSound, StillRequired
    <2>11. QED
      BY <1>7, <2>2, <2>3, <2>4, <2>5, <2>6, <2>10, CallMoves, PointersOfOwners
      DEF CatalogInv
  <1>8. QED BY <1>3, <1>4, <1>6, <1>7 DEF RebaseRequirements

LEMMA QuarantineKeeps ==
    ASSUME CatalogInv, NEW c \in Calls, Quarantine(c)
    PROVE  CatalogInv'
  <1>1. call[c].pc = "quarantine" /\ UNCHANGED <<checkpoint, mirror, refresh, authority>>
    BY DEF Quarantine, Do
  <1>2. /\ StoreTypes /\ call[c] \in CallRows /\ CallSound(call[c]) /\ inventory \in Nat
    BY CallFacts DEF CatalogInv, CatalogTypes
  <1>3. /\ call[c].refresh \in Refreshes /\ call[c].sequence \in Catalogs
        /\ call[c].sequence \in Nat
        /\ KnowsStaged(call[c]) /\ call[c].inventory <= inventory
        /\ \A p \in call[c].verdict : p \in Items
    BY <1>1, <1>2 DEF CallSound, Late, VerdictSound, CallRows
  <1>4. PICK p \in call[c].verdict :
           \/ /\ \E known \in SUBSET withdrawn :
                    /\ known # {}
                    /\ call' = [call EXCEPT ![c].pc = "mark", ![c].verdict = known]
              /\ UNCHANGED <<extension, inventory, withdrawn>>
           \/ /\ StillActive(p)
              /\ extension' = [extension EXCEPT ![p.ext].disposition = "quarantined",
                                                ![p.ext].revision = @ + 1]
              /\ inventory' = inventory + 1
              /\ \E w : /\ w = [ext |-> p.ext, gen |-> extension[p.ext].gen, rev |-> p.rev,
                                seq |-> call[c].sequence]
                        /\ withdrawn' = withdrawn \cup {w}
                        /\ call' = [call EXCEPT ![c].pc = "mark", ![c].verdict = {w}]
           \/ /\ call' = [call EXCEPT ![c].pc = "judge", ![c].verdict = {}]
              /\ UNCHANGED <<extension, inventory, withdrawn>>
    BY DEF Quarantine
  <1>5. ASSUME NEW known \in SUBSET withdrawn, known # {},
               call' = [call EXCEPT ![c].pc = "mark", ![c].verdict = known],
               UNCHANGED <<extension, inventory, withdrawn>>
        PROVE  CatalogInv'
    <2>1. PICK k : k = [call[c] EXCEPT !.pc = "mark", !.verdict = known]
      OBVIOUS
    <2>2. known \subseteq Receipts
      BY <1>2 DEF StoreTypes
    <2>3. k \in CallRows
      BY <1>2, <2>1, <2>2 DEF CallRows, CallSteps, Late
    <2>4. /\ k.pc = "mark" /\ k.refresh = call[c].refresh
          /\ k.revision = call[c].revision /\ k.sequence = call[c].sequence
          /\ k.verdict = known /\ k.inventory = call[c].inventory
      BY <1>2, <2>1 DEF CallRows
    <2>5. VerdictSound(k)
      BY <1>5, <2>4 DEF VerdictSound
    <2>6. CallSound(k)
      BY <1>3, <2>4, <2>5 DEF CallSound, KnowsStaged, StillRequired
    <2>7. QED BY <1>1, <1>5, <2>1, <2>3, <2>6, ReadsMoves DEF TablesKept
  <1>6. ASSUME call' = [call EXCEPT ![c].pc = "judge", ![c].verdict = {}],
               UNCHANGED <<extension, inventory, withdrawn>>
        PROVE  CatalogInv'
    <2>1. PICK k : k = [call[c] EXCEPT !.pc = "judge", !.verdict = {}]
      OBVIOUS
    <2>2. k \in CallRows
      BY <1>2, <2>1 DEF CallRows, CallSteps, Late
    <2>3. /\ k.pc = "judge" /\ k.refresh = call[c].refresh
          /\ k.revision = call[c].revision /\ k.sequence = call[c].sequence
          /\ k.verdict = {} /\ k.inventory = call[c].inventory
      BY <1>2, <2>1 DEF CallRows
    <2>4. CallSound(k)
      BY <1>1, <2>2, <2>3, LateCall DEF Late
    <2>5. QED BY <1>1, <1>6, <2>1, <2>2, <2>4, ReadsMoves DEF TablesKept
  <1>7. ASSUME StillActive(p),
               extension' = [extension EXCEPT ![p.ext].disposition = "quarantined",
                                              ![p.ext].revision = @ + 1],
               inventory' = inventory + 1,
               NEW w, w = [ext |-> p.ext, gen |-> extension[p.ext].gen, rev |-> p.rev,
                           seq |-> call[c].sequence],
               withdrawn' = withdrawn \cup {w},
               call' = [call EXCEPT ![c].pc = "mark", ![c].verdict = {w}]
        PROVE  CatalogInv'
    <2>1. PICK k : k = [call[c] EXCEPT !.pc = "mark", !.verdict = {w}]
      OBVIOUS
    <2>2. p \in Items /\ p.ext \in Extensions /\ p.rev = extension[p.ext].revision
          /\ extension[p.ext].gen \in Generations /\ p.rev \in Nat
      BY <1>2, <1>3, <1>7, ImpactedItem DEF StillActive, Items, StoreTypes
    <2>3. w \in Receipts /\ w.ext = p.ext /\ w.rev = extension[p.ext].revision
      BY <1>3, <1>7, <2>2 DEF Receipts
    <2>4. /\ extension' \in [Extensions -> [revision : Nat \ {0}, gen : Generations,
                                disposition : {"active", "disabled", "quarantined"}]]
          /\ extension'[p.ext].revision = extension[p.ext].revision + 1
          /\ \A x \in Extensions : x # p.ext => extension'[x] = extension[x]
      BY <1>2, <1>7, <2>2 DEF StoreTypes
    <2>5. StoreTypes'
      BY <1>1, <1>2, <1>7, <2>3, <2>4 DEF StoreTypes
    <2>6. TablesGoOn
      <3>1. \A x \in Refreshes : RefreshGoesOn(x)
        BY <1>1, <1>2 DEF RefreshGoesOn, StoreTypes, RefreshRows
      <3>2. QED BY <1>1, <1>2, <1>7, <3>1, InstalledGenerations DEF TablesGoOn, StoreTypes
    <2>7. ReceiptsBehind'
      <3>1. \A v \in withdrawn : v \in Receipts /\ v.rev \in Nat /\ v.ext \in Extensions
        BY <1>2 DEF StoreTypes, Receipts
      <3>2. \A x \in Extensions : extension[x].revision \in Nat
        BY <1>2 DEF StoreTypes
      <3>3. ASSUME NEW v \in withdrawn
            PROVE  v.rev < extension'[v.ext].revision
        <4>1. v.rev < extension[v.ext].revision
          BY DEF CatalogInv, ReceiptsBehind
        <4>2. QED BY <2>4, <3>1, <3>2, <4>1
      <3>4. w.rev < extension'[w.ext].revision
        BY <2>2, <2>3, <2>4
      <3>5. QED BY <1>7, <3>3, <3>4 DEF ReceiptsBehind
    <2>8. RowsSound' /\ PointersAgree'
      BY <1>1 DEF CatalogInv, RowsSound, PointersAgree
    <2>9. k \in CallRows
      BY <1>2, <2>1, <2>3 DEF CallRows, CallSteps, Late
    <2>10. /\ k.pc = "mark" /\ k.refresh = call[c].refresh
           /\ k.revision = call[c].revision /\ k.sequence = call[c].sequence
           /\ k.verdict = {w} /\ k.inventory = call[c].inventory
      BY <1>2, <2>1 DEF CallRows
    <2>11. CallSound(k)'
      <3>1. VerdictSound(k)'
        BY <1>7, <2>10 DEF VerdictSound
      <3>2. KnowsStaged(k)'
        BY <1>1, <1>3, <2>10 DEF KnowsStaged
      <3>3. k.inventory <= inventory'
        <4>1. k.inventory \in Nat
          BY <2>9 DEF CallRows
        <4>2. QED BY <1>2, <1>3, <1>7, <2>10, <4>1
      <3>4. QED BY <1>3, <2>10, <3>1, <3>2, <3>3 DEF CallSound, StillRequired
    <2>12. CatalogTypes' /\ CallsSound'
      BY <1>7, <2>1, <2>5, <2>6, <2>9, <2>11, CallMoves
    <2>13. QED BY <2>7, <2>8, <2>12 DEF CatalogInv
  <1>8. QED BY <1>4, <1>5, <1>6, <1>7

(* What carries a receipt is no longer active as it was then. *)
LEMMA WithdrawnIsNotImpacted ==
    ASSUME StoreTypes, ReceiptsBehind, NEW w \in withdrawn, NEW q, Proves(w, q, w.seq)
    PROVE  q \notin Impacted
  <1> SUFFICES ASSUME q \in Impacted
               PROVE  FALSE
    OBVIOUS
  <1>1. /\ q.ext \in Extensions /\ q.rev = extension[q.ext].revision
        /\ w.ext = q.ext /\ w.rev = q.rev
    BY ImpactedItem DEF Proves, SameRelease
  <1>2. w.rev < extension[w.ext].revision /\ extension[w.ext].revision \in Nat
    BY <1>1 DEF ReceiptsBehind, StoreTypes
  <1>3. QED BY <1>1, <1>2

LEMMA MarkKeeps ==
    ASSUME CatalogInv, NEW c \in Calls, Mark(c)
    PROVE  CatalogInv'
  <1> DEFINE r == call[c].refresh
  <1>1. /\ call[c].pc = "mark"
        /\ UNCHANGED <<checkpoint, mirror, extension, inventory, withdrawn, authority>>
    BY DEF Mark, Do
  <1>2. /\ StoreTypes /\ call[c] \in CallRows /\ CallSound(call[c]) /\ r \in Refreshes
        /\ refresh[r] \in RefreshRows /\ inventory \in Nat
        /\ VerdictSound(call[c]) /\ KnowsStaged(call[c]) /\ call[c].sequence \in Catalogs
        /\ call[c].inventory <= inventory
    BY <1>1, CallFacts DEF CatalogInv, CatalogTypes, Op, CallSound, Late
  <1>3. CASE Ends(c) /\ UNCHANGED refresh
    BY <1>1, <1>3, EndsMoves DEF TablesKept
  <1>4. ASSUME NEW q \in call[c].item,
               refresh[r].state = "staged", q \in refresh[r].pending,
               \A w \in call[c].verdict : Proves(w, q, refresh[r].sequence),
               refresh' = [refresh EXCEPT
                   ![r].pending = @ \ {q},
                   ![r].clear = IF call[c].verdict = {} THEN @ \cup {q} ELSE @,
                   ![r].quarantined = IF call[c].verdict = {} THEN @ ELSE @ \cup {q}],
               call' = [call EXCEPT ![c].pc = "exact", ![c].todo = @ \ {q},
                                    ![c].item = {}, ![c].verdict = {}]
        PROVE  CatalogInv'
    <2>1. PICK o : o = [refresh[r] EXCEPT
                   !.pending = @ \ {q},
                   !.clear = IF call[c].verdict = {} THEN @ \cup {q} ELSE @,
                   !.quarantined = IF call[c].verdict = {} THEN @ ELSE @ \cup {q}]
      OBVIOUS
    <2>2. q \in Items
      BY <1>2, <1>4 DEF RefreshRows
    <2>3. /\ o.state = "staged" /\ o.sequence = refresh[r].sequence
          /\ o.revision = refresh[r].revision
          /\ o.pending = refresh[r].pending \ {q}
          /\ o.clear = IF call[c].verdict = {} THEN refresh[r].clear \cup {q}
                       ELSE refresh[r].clear
          /\ o.revision \in Nat
      BY <1>2, <1>4, <2>1 DEF RefreshRows
    <2>4. o \in RefreshRows
      <3>1. /\ refresh[r].pending \ {q} \in SUBSET Items
            /\ refresh[r].clear \cup {q} \in SUBSET Items
            /\ refresh[r].quarantined \cup {q} \in SUBSET Items
        BY <1>2, <2>2 DEF RefreshRows
      <3>2. CASE call[c].verdict = {}
        BY <1>2, <2>1, <3>1, <3>2 DEF RefreshRows
      <3>3. CASE call[c].verdict # {}
        BY <1>2, <2>1, <3>1, <3>3 DEF RefreshRows
      <3>4. QED BY <3>2, <3>3
    <2>5. /\ refresh'[r] = o
          /\ \A x \in Refreshes : x # r => refresh'[x] = refresh[x]
          /\ refresh' = [refresh EXCEPT ![r] = o]
      BY <1>2, <1>4, <2>1 DEF StoreTypes
    <2>6. StoreTypes'
      BY <1>1, <1>2, <2>4, <2>5 DEF StoreTypes
    <2>7. ASSUME NEW p \in Impacted, p \in refresh[r].pending \cup refresh[r].clear
          PROVE  p \in o.pending \cup o.clear
      <3>1. CASE p = q /\ call[c].verdict # {}
        <4>1. PICK w \in call[c].verdict : Proves(w, q, refresh[r].sequence)
          BY <1>4, <3>1
        <4>2. w \in withdrawn /\ Proves(w, q, w.seq)
          BY <1>1, <1>2, <4>1 DEF VerdictSound, Proves
        <4>3. QED BY <1>2, <2>7, <3>1, <4>2, WithdrawnIsNotImpacted DEF CatalogInv
      <3>2. CASE p # q \/ call[c].verdict = {}
        BY <2>3, <2>7, <3>2
      <3>3. QED BY <3>1, <3>2
    <2>8. TablesGoOn
      <3>1. RefreshGoesOn(r)
        <4>1. \A p \in Impacted : p \in refresh[r].pending \cup refresh[r].clear
                                   => p \in o.pending \cup o.clear
          BY <2>7
        <4>2. o.revision >= refresh[r].revision
          BY <2>3
        <4>3. o.state = "staged" /\ o.sequence = refresh[r].sequence
          BY <2>3
        <4>4. QED BY <1>4, <2>5, <4>1, <4>2, <4>3, Zenon DEF RefreshGoesOn, Begun
      <3>2. \A x \in Refreshes : x # r => RefreshGoesOn(x)
        BY <1>2, <2>5 DEF RefreshGoesOn, StoreTypes, RefreshRows
      <3>3. QED BY <1>1, <1>2, <3>1, <3>2, InstalledGenerations DEF TablesGoOn, StoreTypes
    <2>9. RowsSound'
      <3>1. o.sequence = call[c].sequence
        BY <1>2, <1>4, <2>3 DEF KnowsStaged
      <3>2. call[c].verdict = {} => <<q.ext, q.gen>> \notin Condemned[o.sequence]
        BY <1>1, <1>2, <1>4, <3>1 DEF VerdictSound
      <3>3. o.sequence \in Catalogs
        BY <1>2, <3>1
      <3>4. \A p \in refresh[r].clear : <<p.ext, p.gen>> \notin Condemned[o.sequence]
        BY <1>2, <1>4, <2>3 DEF CatalogInv, RowsSound
      <3>5. \A p \in o.clear : <<p.ext, p.gen>> \notin Condemned[o.sequence]
        BY <2>3, <3>2, <3>4
      <3>6. QED BY <2>3, <2>5, <3>3, <3>5 DEF CatalogInv, RowsSound
    <2>10. ReceiptsBehind'
      BY <1>1 DEF CatalogInv, ReceiptsBehind
    <2>11. OwnersAgree'
      <3>1. \A x \in Refreshes : /\ refresh'[x].state = refresh[x].state
                                 /\ refresh'[x].sequence = refresh[x].sequence
        BY <1>4, <2>3, <2>5
      <3>2. OwnersAgree
        BY PointersOfOwners DEF CatalogInv
      <3>3. QED BY <1>1, <3>1, <3>2 DEF OwnersAgree
    <2>12. PICK k : k = [call[c] EXCEPT !.pc = "exact", !.todo = @ \ {q}, !.item = {},
                                        !.verdict = {}]
      OBVIOUS
    <2>13. /\ k.pc = "exact" /\ k.refresh = r /\ k.revision = call[c].revision
           /\ k.sequence = call[c].sequence /\ k.verdict = {}
           /\ k.inventory = call[c].inventory
      BY <1>2, <2>12 DEF CallRows
    <2>14. k \in CallRows
      <3>1. {} \in SingleItems /\ call[c].todo \ {q} \in SUBSET Items
        BY <1>2 DEF SingleItems, CallRows
      <3>2. QED BY <1>2, <2>12, <3>1 DEF CallRows, CallSteps, Late
    <2>15. KnowsStaged(k)'
      BY <1>1, <1>2, <1>4, <2>3, <2>5, <2>13 DEF KnowsStaged
    <2>16. CallSound(k)'
      BY <1>1, <1>2, <2>13, <2>15 DEF CallSound, VerdictSound, StillRequired
    <2>17. CatalogTypes' /\ CallsSound'
      BY <1>4, <2>6, <2>8, <2>12, <2>14, <2>16, CallMoves
    <2>18. QED
      BY <2>9, <2>10, <2>11, <2>17, PointersOfOwners DEF CatalogInv
  <1>5. QED BY <1>3, <1>4 DEF Mark

(* The step that accepts: everything active was cleared by what is staged.  *)
Accepts(c) == Accept(c) /\ AsObserved(c) /\ refresh[call[c].refresh].pending = {}

LEMMA AcceptedIsJudged ==
    ASSUME CatalogInv, NEW c \in Calls, Accepts(c)
    PROVE  /\ mirror'.accepted = refresh[call[c].refresh].sequence
           /\ refresh[call[c].refresh].sequence = mirror.staged
           /\ mirror.staged > mirror.accepted /\ mirror.staged = checkpoint
           /\ \A x \in Extensions : Active(x) => Clears(mirror'.accepted, x)
  <1> DEFINE r == call[c].refresh
  <1>1. /\ call[c].pc = "accept" /\ AsObserved(c) /\ refresh[r].pending = {}
        /\ mirror' = [revision |-> mirror.revision + 1, staged |-> 0,
                      accepted |-> refresh[r].sequence]
    BY DEF Accepts, Accept, Do
  <1>2. /\ StoreTypes /\ CallSound(call[c]) /\ r \in Refreshes
    BY <1>1, CallFacts DEF CatalogInv, CatalogTypes
  <1>3. /\ refresh[r].state = "staged" /\ refresh[r].revision = call[c].revision
        /\ mirror.staged = refresh[r].sequence /\ inventory = call[c].inventory
    BY <1>1 DEF AsObserved, Unmoved, Op
  <1>4. mirror.staged > mirror.accepted /\ mirror.staged = checkpoint
    <2>1. OwnersAgree
      BY PointersOfOwners DEF CatalogInv
    <2>2. QED BY <1>2, <1>3, <2>1 DEF OwnersAgree
  <1>5. ASSUME NEW x \in Extensions, Active(x)
        PROVE  Clears(refresh[r].sequence, x)
    <2>1. Impact(x) \in Impacted
      BY <1>5 DEF Impacted
    <2>2. Impact(x) \in refresh[r].clear
      BY <1>1, <1>2, <1>3, <2>1 DEF CallSound, StillRequired
    <2>3. <<Impact(x).ext, Impact(x).gen>> \notin Condemned[refresh[r].sequence]
      BY <1>2, <1>3, <2>2 DEF CatalogInv, RowsSound
    <2>4. QED BY <2>3 DEF Impact, Clears
  <1>6. QED BY <1>1, <1>3, <1>4, <1>5

LEMMA AcceptKeeps ==
    ASSUME CatalogInv, NEW c \in Calls, Accept(c)
    PROVE  CatalogInv'
  <1> DEFINE r == call[c].refresh
  <1>1. /\ call[c].pc = "accept"
        /\ UNCHANGED <<checkpoint, extension, inventory, withdrawn, authority>>
    BY DEF Accept, Do
  <1>2. /\ StoreTypes /\ r \in Refreshes /\ inventory \in Nat
    BY <1>1, CallFacts DEF CatalogInv, CatalogTypes
  <1>3. CASE (Ends(c) \/ Retry(c, "observe")) /\ UNCHANGED <<mirror, refresh>>
    BY <1>1, <1>3, EndsMoves, RetryMoves DEF TablesKept, Late
  <1>4. CASE /\ AsObserved(c) /\ refresh[r].pending = {}
             /\ mirror' = [revision |-> mirror.revision + 1, staged |-> 0,
                           accepted |-> refresh[r].sequence]
             /\ refresh' = [refresh EXCEPT ![r] = Settled("accepted")]
             /\ Ends(c)
    <2>1. Accepts(c)
      BY <1>4 DEF Accepts
    <2>2. /\ mirror'.accepted = checkpoint /\ mirror'.staged = 0
          /\ refresh[r].state = "staged" /\ refresh[r].sequence = checkpoint
      BY <1>4, <2>1, AcceptedIsJudged DEF AsObserved, Unmoved, Op
    <2>3. /\ refresh'[r] = Settled("accepted") /\ refresh'[r].state = "accepted"
          /\ \A x \in Refreshes : x # r => refresh'[x] = refresh[x]
      BY <1>2, <1>4, SettledRow DEF StoreTypes
    <2>4. mirror' \in [revision : Nat, staged : 0..MaxSequence, accepted : 0..MaxSequence]
      <3>1. /\ mirror.revision + 1 \in Nat /\ 0 \in 0..MaxSequence
            /\ checkpoint \in 0..MaxSequence
        BY <1>2, InstalledGenerations DEF StoreTypes
      <3>2. QED BY <1>4, <2>2, <3>1
    <2>5. StoreTypes'
      BY <1>1, <1>2, <1>4, <2>4, SettledRow DEF StoreTypes
    <2>6. TablesGoOn
      <3>1. \A x \in Refreshes : RefreshGoesOn(x)
        BY <1>2, <2>3 DEF RefreshGoesOn, StoreTypes, RefreshRows, Begun
      <3>2. QED BY <1>1, <1>2, <3>1, InstalledGenerations DEF TablesGoOn, StoreTypes
    <2>7. RowsSound' /\ ReceiptsBehind'
      BY <1>1, <2>3 DEF CatalogInv, RowsSound, ReceiptsBehind
    <2>8. OwnersAgree'
      <3>1. OwnersAgree /\ checkpoint \in Nat
        BY <1>2, PointersOfOwners, InstalledGenerations DEF CatalogInv, StoreTypes
      <3>2. mirror.staged # 0
        BY <1>2, <2>2, <3>1 DEF OwnersAgree
      <3>3. \A x \in Refreshes : refresh[x].state = "staged" => x = r
        BY <1>2, <2>2, <3>1, <3>2 DEF OwnersAgree
      <3>4. QED BY <1>1, <2>2, <2>3, <3>1, <3>3 DEF OwnersAgree
    <2>9. NewCall \in CallRows /\ CallSound(NewCall)'
      <3>1. /\ NewCall.pc = "idle" /\ NewCall.verdict = {} /\ NewCall.inventory <= inventory'
        BY <1>1, <1>2 DEF NewCall
      <3>2. QED
        BY <1>2, <3>1, NewCallSound DEF CallSound, VerdictSound, StillRequired, Late
    <2>10. QED
      BY <1>4, <2>5, <2>6, <2>7, <2>8, <2>9, CallMoves, PointersOfOwners DEF CatalogInv, Ends
  <1>5. QED BY <1>3, <1>4 DEF Accept

-----------------------------------------------------------------------------
(* What goes on meanwhile. *)

LEMMA ExtensionMoves ==
    ASSUME CatalogInv, NEW x \in Extensions, NEW row, Becomes(x, row),
           row \in [revision : Nat \ {0}, gen : Generations,
                    disposition : {"active", "disabled", "quarantined"}],
           row.revision >= extension[x].revision,
           withdrawn \subseteq withdrawn', withdrawn' \subseteq Receipts,
           \A w \in withdrawn' \ withdrawn : w.rev = 0
    PROVE  CatalogInv'
  <1>1. /\ StoreTypes /\ inventory \in Nat /\ inventory' = inventory + 1
        /\ extension' = [extension EXCEPT ![x] = row]
        /\ UNCHANGED <<checkpoint, mirror, refresh, authority, call>>
    BY DEF CatalogInv, CatalogTypes, StoreTypes, Becomes
  <1>2. StoreTypes'
    BY <1>1 DEF StoreTypes
  <1>3. TablesGoOn
    <2>1. \A r \in Refreshes : RefreshGoesOn(r)
      BY <1>1 DEF RefreshGoesOn, StoreTypes, RefreshRows
    <2>2. QED BY <1>1, <2>1, InstalledGenerations DEF TablesGoOn, StoreTypes
  <1>4. CatalogTypes' /\ CallsSound'
    <2>1. ASSUME NEW c \in Calls
          PROVE  CallSound(call[c])'
      <3>1. PICK k : k = call[c]
        OBVIOUS
      <3>2. k \in CallRows /\ CallSound(k)
        BY <3>1, CallFacts
      <3>3. CallSound(k)'
        BY <1>1, <1>2, <1>3, <3>2, SoundCallStays
      <3>4. QED BY <1>1, <3>1, <3>3
    <2>2. QED BY <1>1, <1>2, <2>1 DEF CatalogInv, CatalogTypes, CallsSound
  <1>5. PointersAgree' /\ RowsSound'
    BY <1>1 DEF CatalogInv, PointersAgree, RowsSound
  <1>6. ReceiptsBehind'
    <2>1. /\ \A y \in Extensions : extension[y].revision \in Nat /\ extension'[y].revision \in Nat \ {0}
          /\ \A y \in Extensions : extension'[y].revision >= extension[y].revision
      BY <1>1, <1>2 DEF StoreTypes
    <2>2. ASSUME NEW w \in withdrawn'
          PROVE  w.rev < extension'[w.ext].revision
      <3>1. w.ext \in Extensions /\ w.rev \in Nat
        BY DEF Receipts
      <3>2. CASE w \in withdrawn
        <4>1. w.rev < extension[w.ext].revision
          BY <3>2 DEF CatalogInv, ReceiptsBehind
        <4>2. QED BY <2>1, <3>1, <4>1
      <3>3. CASE w \notin withdrawn
        BY <2>1, <3>1, <3>3
      <3>4. QED BY <3>2, <3>3
    <2>3. QED BY <2>2 DEF ReceiptsBehind
  <1>7. QED BY <1>4, <1>5, <1>6 DEF CatalogInv

LEMMA ActivateKeeps ==
    ASSUME CatalogInv, NEW x \in Extensions, NEW g \in Generations, Activate(x, g)
    PROVE  CatalogInv'
  <1>1. StoreTypes
    BY DEF CatalogInv, CatalogTypes
  <1>2. PICK row : row = [revision |-> extension[x].revision + 1, disposition |-> "active",
                          gen |-> g]
    OBVIOUS
  <1>3. extension[x].revision \in Nat
    BY <1>1 DEF StoreTypes
  <1>4. /\ row \in [revision : Nat \ {0}, gen : Generations,
                    disposition : {"active", "disabled", "quarantined"}]
        /\ row.revision >= extension[x].revision
    BY <1>2, <1>3
  <1>5. Becomes(x, row) /\ withdrawn' = withdrawn
    BY <1>2 DEF Activate
  <1>6. QED BY <1>1, <1>4, <1>5, ExtensionMoves DEF StoreTypes

LEMMA DisableKeeps ==
    ASSUME CatalogInv, NEW x \in Extensions,
           \/ Disable(x) /\ withdrawn' = withdrawn
           \/ QuarantineRuntime(x)
    PROVE  CatalogInv'
  <1>1. StoreTypes
    BY DEF CatalogInv, CatalogTypes
  <1>2. PICK d \in {"disabled", "quarantined"} :
           Becomes(x, [extension[x] EXCEPT !.revision = @ + 1, !.disposition = d])
    BY DEF Disable, QuarantineRuntime
  <1>3. PICK row : row = [extension[x] EXCEPT !.revision = @ + 1, !.disposition = d]
    OBVIOUS
  <1>4. PICK old \in [revision : Nat \ {0}, gen : Generations,
                     disposition : {"active", "disabled", "quarantined"}] : old = extension[x]
    BY <1>1 DEF StoreTypes
  <1>5. /\ row \in [revision : Nat \ {0}, gen : Generations,
                    disposition : {"active", "disabled", "quarantined"}]
        /\ row.revision = extension[x].revision + 1
    <2>1. old.revision \in Nat /\ old.revision + 1 \in Nat \ {0}
      OBVIOUS
    <2>2. row = [old EXCEPT !.revision = old.revision + 1, !.disposition = d]
      BY <1>3, <1>4
    <2>3. row = [revision |-> old.revision + 1, gen |-> old.gen, disposition |-> d]
      BY <2>2
    <2>4. QED BY <1>4, <2>1, <2>3
  <1>6. PICK w : w = [ext |-> x, gen |-> extension[x].gen, rev |-> 0, seq |-> 0]
    OBVIOUS
  <1>7. w \in Receipts /\ w.rev = 0
    BY <1>4, <1>6 DEF Receipts
  <1>8. withdrawn' \in {withdrawn, withdrawn \cup {w}}
    BY <1>6 DEF QuarantineRuntime
  <1>9. /\ withdrawn \subseteq withdrawn' /\ withdrawn' \subseteq Receipts
        /\ \A v \in withdrawn' \ withdrawn : v.rev = 0
    BY <1>1, <1>7, <1>8 DEF StoreTypes
  <1>10. row.revision >= extension[x].revision
    BY <1>4, <1>5
  <1>11. QED BY <1>2, <1>3, <1>5, <1>9, <1>10, ExtensionMoves

LEMMA ReviseAuthorityKeeps ==
    ASSUME CatalogInv, ReviseAuthority
    PROVE  CatalogInv'
  <1>1. /\ StoreTypes /\ TablesKept /\ call' = call
        /\ \E S \in SUBSET Refreshes :
              authority' = [revision |-> authority.revision + 1, allowed |-> S]
    BY DEF CatalogInv, CatalogTypes, ReviseAuthority, TablesKept
  <1>2. StoreTypes'
    <2>1. authority' \in [revision : Nat, allowed : SUBSET Refreshes]
      BY <1>1 DEF StoreTypes
    <2>2. QED BY <1>1, <2>1 DEF StoreTypes, TablesKept
  <1>3. CallsSound'
    BY <1>1
    DEF CatalogInv, CallsSound, CallSound, KnowsStaged, VerdictSound, StillRequired, TablesKept,
        Impacted, Impact, Active
  <1>4. QED
    BY <1>1, <1>2, <1>3, KeptTablesSound DEF CatalogInv, CatalogTypes

-----------------------------------------------------------------------------
(* Every step keeps the invariant. *)
LEMMA CatalogInvStep == CatalogInv /\ [Next]_vars => CatalogInv'
  <1> SUFFICES ASSUME CatalogInv, [Next]_vars
               PROVE  CatalogInv'
    OBVIOUS
  <1>1. ASSUME NEW c \in Calls, NEW r \in Refreshes, Begin(c, r)
        PROVE  CatalogInv'
    BY <1>1, BeginKeeps
  <1>2. ASSUME NEW c \in Calls, Fetches(c)
        PROVE  CatalogInv'
    BY <1>2, FetchKeeps, ReadCheckpointKeeps, StageKeeps, StagedElsewhereKeeps DEF Fetches
  <1>3. ASSUME NEW c \in Calls, Reconciles(c)
        PROVE  CatalogInv'
    BY <1>3, ReadStagedKeeps, ObserveKeeps, RebaseRequirementsKeeps, ReadRequirementsKeeps,
       ExactRequirementKeeps, JudgeKeeps, QuarantineKeeps, MarkKeeps, FinalKeeps, AcceptKeeps
    DEF Reconciles
  <1>4. ASSUME NEW c \in Calls, Proceed(c)
        PROVE  CatalogInv'
    BY <1>2, <1>3, <1>4, ResumeKeeps, RejectKeeps DEF Proceed
  <1>5. ASSUME NEW c \in Calls, Abandon(c)
        PROVE  CatalogInv'
    BY <1>5, EndsMoves DEF Abandon, TablesKept
  <1>6. CASE Disturbance
    <2>1. ASSUME NEW x \in Extensions, Disable(x)
          PROVE  CatalogInv'
      BY <2>1, DisableKeeps DEF Disable
    <2>2. ASSUME NEW x \in Extensions, QuarantineRuntime(x)
          PROVE  CatalogInv'
      BY <2>2, DisableKeeps
    <2>3. QED
      BY <1>5, <1>6, <2>1, <2>2, ActivateKeeps, ReviseAuthorityKeeps DEF Disturbance
  <1>7. CASE UNCHANGED vars
    BY <1>7
    DEF vars, CatalogInv, CatalogTypes, StoreTypes, PointersAgree, RowsSound, ReceiptsBehind,
        CallsSound, CallSound, KnowsStaged, VerdictSound, StillRequired, Impacted, Impact, Active
  <1>8. QED BY <1>1, <1>4, <1>6, <1>7 DEF Next

(* The inductive invariant of the refresh. *)
THEOREM CatalogInvariant == Spec => []CatalogInv
  BY CatalogInvInit, CatalogInvStep, PTL DEF Spec

(* Every table and call holds values of its columns. *)
THEOREM CatalogTypeCorrect == Spec => []CatalogTypes
  <1>1. CatalogInv => CatalogTypes
    BY DEF CatalogInv
  <1>2. QED BY <1>1, CatalogInvariant, PTL

-----------------------------------------------------------------------------
(* What was accepted was judged. *)

LEMMA AcceptedByAccept ==
    ASSUME CatalogInv, [Next]_vars, mirror'.accepted # mirror.accepted
    PROVE  \E c \in Calls : Accepts(c)
  <1> PICK m \in [revision : Nat, staged : 0..MaxSequence, accepted : 0..MaxSequence] : m = mirror
    BY DEF CatalogInv, CatalogTypes, StoreTypes
  <1>1. ASSUME NEW c \in Calls, Proceed(c)
        PROVE  Accepts(c)
    <2>1. CASE Fetches(c) \/ Resume(c)
      BY <2>1 DEF Fetches, Fetch, ReadCheckpoint, Stage, StagedElsewhere, Resume
    <2>2. CASE Reject(c)
      BY <2>2 DEF Reject, Unstaged
    <2>3. CASE Accept(c)
      BY <2>3 DEF Accepts, Accept
    <2>4. CASE \/ ReadStaged(c) \/ Observe(c) \/ RebaseRequirements(c) \/ ReadRequirements(c)
               \/ ExactRequirement(c) \/ Judge(c) \/ Quarantine(c) \/ Mark(c) \/ Final(c)
      BY <2>4 DEF ReadStaged, Observe, RebaseRequirements, ReadRequirements, ExactRequirement,
         Judge, Quarantine, Mark, Final
    <2>5. QED BY <1>1, <2>1, <2>2, <2>3, <2>4 DEF Proceed, Reconciles
  <1>2. QED
    BY <1>1 DEF Next, Begin, Disturbance, Activate, Disable, QuarantineRuntime, Becomes,
       ReviseAuthority, Abandon, vars

LEMMA WithdrawnByQuarantine ==
    ASSUME CatalogInv, [Next]_vars, NEW w \in withdrawn', w \notin withdrawn, w.seq # 0
    PROVE  <<w.ext, w.gen>> \in Condemned[w.seq] /\ w.seq <= checkpoint
  <1>1. ASSUME NEW c \in Calls, Quarantine(c)
        PROVE  <<w.ext, w.gen>> \in Condemned[w.seq] /\ w.seq <= checkpoint
    <2>1. CallSound(call[c]) /\ call[c].pc = "quarantine" /\ StoreTypes
      BY <1>1, CallFacts DEF Quarantine, Do, CatalogInv, CatalogTypes
    <2>2. PICK p \in call[c].verdict :
             /\ StillActive(p)
             /\ w = [ext |-> p.ext, gen |-> extension[p.ext].gen, rev |-> p.rev,
                     seq |-> call[c].sequence]
      BY <1>1 DEF Quarantine
    <2>3. <<p.ext, p.gen>> \in Condemned[call[c].sequence] /\ call[c].sequence <= checkpoint
      BY <2>1, <2>2 DEF CallSound, VerdictSound, KnowsStaged, Late
    <2>4. p.gen = extension[p.ext].gen
      BY <2>1, <2>2, ImpactedItem DEF StillActive
    <2>5. QED BY <2>2, <2>3, <2>4
  <1>2. ASSUME NEW x \in Extensions, QuarantineRuntime(x)
        PROVE  FALSE
    BY <1>2 DEF QuarantineRuntime
  <1>3. ASSUME NEW c \in Calls, Proceed(c)
        PROVE  Quarantine(c)
    BY <1>3 DEF Proceed, Fetches, Fetch, ReadCheckpoint, Stage, StagedElsewhere, Resume, Reject,
       Reconciles, ReadStaged, Observe, RebaseRequirements, ReadRequirements, ExactRequirement,
       Judge, Mark, Final, Accept
  <1>4. QED
    BY <1>1, <1>2, <1>3 DEF Next, Begin, Disturbance, Activate, Disable, ReviseAuthority,
       Abandon, vars

(* The mirror is sound for any number of concurrent refreshes, calls and    *)
(* changes of the extensions: its pointers agree, a catalog is accepted in  *)
(* order and only when it clears everything that is active then, and a      *)
(* generation is withdrawn only by a staged catalog that condemns it. *)
THEOREM MirrorSound == Spec => MirrorIsSound
  <1> DEFINE Judged ==
         /\ mirror'.accepted # mirror.accepted =>
               /\ mirror'.accepted > mirror.accepted
               /\ \A x \in Extensions : Active(x) => Clears(mirror'.accepted, x)
         /\ \A w \in withdrawn' \ withdrawn :
               w.seq # 0 => <<w.ext, w.gen>> \in Condemned[w.seq] /\ w.seq <= checkpoint
  <1>1. ASSUME CatalogInv, [Next]_vars
        PROVE  Judged
    BY <1>1, AcceptedByAccept, AcceptedIsJudged, WithdrawnByQuarantine
  <1>2. CatalogInv => PointersAgree
    BY DEF CatalogInv
  <1>3. Spec => JudgementsHold
    BY <1>1, CatalogInvariant, PTL DEF Spec, JudgementsHold
  <1>4. QED
    BY <1>2, <1>3, CatalogInvariant, PTL DEF MirrorIsSound

(* What carries a security receipt is never again active as it was: nothing *)
(* that was withdrawn is counted among what a refresh has to judge. *)
THEOREM WithdrawnHaveMovedOn == Spec => []ReceiptsBehind
  <1>1. CatalogInv => ReceiptsBehind
    BY DEF CatalogInv
  <1>2. QED BY <1>1, CatalogInvariant, PTL
=============================================================================
