------------------------ MODULE SettingsValidation_proofs ------------------------
(***************************************************************************)
(* Proofs about SettingsValidation: the settings revisions are those of    *)
(* the promoted receipts, one each, and what a call promotes is permitted  *)
(* and vouched for when it is promoted.                                    *)
(***************************************************************************)
EXTENDS SettingsValidation, FiniteSetTheorems, TLAPS

DocumentSet == [revision : Nat, settings : Nat, values : Values \cup {Unset}]

RowSet ==
    [state : {"absent", "pending-validation", "validating", "promotion-blocked"},
     descriptor : Descriptors \cup {NoDescriptor}, values : Values \cup {Unset}, document : Nat, settings : Nat,
     changed : BOOLEAN, owner : Owners \cup {Nobody}, live : SUBSET Owners]

ReceiptSet ==
    [outcome : {"none", "promoted", "validation-failed", "promotion-invalidated"},
     descriptor : Descriptors \cup {NoDescriptor}, document : Nat, settings : Nat]

ExtensionSet ==
    [state : {"pending-configuration", "current", "disabled", "retired", "abandoned"}, runtime : Nat]

CallSet ==
    [pc : {"idle", "read", "claim-authority", "observe", "claim", "validate", "promote-authority",
           "block", "write", "settle"},
     op : Operations \cup {NoOperation}, owner : Owners \cup {Nobody}, seen : BOOLEAN, authority : Nat, runtime : Nat,
     ready : BOOLEAN, late : BOOLEAN, blocked : BOOLEAN, changed : BOOLEAN]

(* A row is that of a validated descriptor with values to write, and has   *)
(* no receipt yet.                                                         *)
RowsAreUnreceipted ==
    \A o \in Operations : Unsettled(o) =>
        /\ operation[o].descriptor \in Descriptors \ Immediate
        /\ operation[o].values \in Values
        /\ receipt[o] = NoReceipt

(* A call under way runs an operation.                                     *)
RunsOperation(r) == r.pc # "idle" => r.op \in Operations

(* Under authority a, it has not read an authority that does not exist     *)
(* yet; past its reauthorization, if its revision is still the current     *)
(* one, the permission is there.                                           *)
ReadAuthorityOf(r, a) ==
    /\ r.authority <= a.revision
    /\ /\ r.pc \in {"claim", "validate", "promote-authority", "write", "settle"}
       /\ ~r.blocked /\ r.authority = a.revision
       => a.allowed

(* A call that holds the revision of the row and was told that the runtime *)
(* is ready was told so under the last claim, by which k vouches for it.   *)
VouchedReady(r, k) ==
    /\ r.pc = "validate" => r.runtime # 0
    /\ /\ r.pc \in {"promote-authority", "write", "settle"}
       /\ r.seen /\ r.ready /\ ~r.blocked
       => k[r.op] # 0

CallSound(r, a, k) == RunsOperation(r) /\ ReadAuthorityOf(r, a) /\ VouchedReady(r, k)

CallsSound == \A c \in Calls : CallSound(call[c], authority, vouched)

FinitelyPromoted == IsFiniteSet(AllPromoted) /\ \A d \in Descriptors : IsFiniteSet(Promoted(d))

(* A promotion numbers a receipt that was not there, for the row of its    *)
(* call, at the revisions the row was begun with.                          *)
SettingsInv ==
    /\ TypeOK
    /\ extension.runtime # 0
    /\ RowsAreUnreceipted
    /\ CallsSound
    /\ FinitelyPromoted
    /\ RevisionsFollowReceipts

-----------------------------------------------------------------------------
(* Numbering of the promoted receipts. *)

(* f gives each of S a number from 1 to n, and uses all of them.           *)
Numbers(f, S, n) ==
    /\ \A o \in S : f[o] \in 1 .. n
    /\ \A i \in 1 .. n : \E o \in S : f[o] = i

(* The next number given to an operation that had none numbers one more.   *)
LEMMA NumberingGrows ==
    ASSUME NEW S, IsFiniteSet(S), NEW x, x \notin S, NEW n \in Nat, NEW f, NEW g,
           Numbers(f, S, n), Cardinality(S) = n,
           \A o \in S : g[o] = f[o], g[x] = n + 1
    PROVE  /\ IsFiniteSet(S \cup {x})
           /\ Cardinality(S \cup {x}) = n + 1
           /\ Numbers(g, S \cup {x}, n + 1)
<1>1. IsFiniteSet(S \cup {x}) /\ Cardinality(S \cup {x}) = n + 1
  BY FS_AddElement
<1>2. \A i \in 1 .. (n + 1) : i = n + 1 \/ i \in 1 .. n
  OBVIOUS
<1> QED BY <1>1, <1>2 DEF Numbers

(* A promoted receipt is counted for the document it names.                *)
LEMMA PromotedOperations ==
    /\ \A d : Promoted(d) \subseteq Operations
    /\ AllPromoted = {o \in Operations : receipt[o].outcome = "promoted" /\ receipt[o].descriptor \in Descriptors}
BY DEF AllPromoted, Promoted

(* write() gives the document and the settings their next revisions and    *)
(* one receipt for both.                                                   *)
LEMMA WriteStep ==
    ASSUME TypeOK, FinitelyPromoted, RevisionsFollowReceipts,
           NEW o \in Operations, receipt[o] = NoReceipt, NEW d \in Descriptors, NEW v \in Values,
           Write(o, d, document[d].revision + 1, settings + 1, v)
    PROVE  /\ FinitelyPromoted' /\ RevisionsFollowReceipts'
           /\ settings' \in Nat
           /\ document' \in [Descriptors -> DocumentSet]
           /\ receipt' \in [Operations -> ReceiptSet]
           /\ \A q \in Operations \ {o} : receipt'[q] = receipt[q]
<1> DEFINE at == document[d].revision + 1
           n == settings + 1
           mine == [outcome |-> "promoted", descriptor |-> d, document |-> at, settings |-> n]
           settingsBefore == [q \in Operations |-> receipt[q].settings]
           settingsAfter == [q \in Operations |-> receipt'[q].settings]
           documentBefore == [q \in Operations |-> receipt[q].document]
           documentAfter == [q \in Operations |-> receipt'[q].document]
<1>t. /\ settings \in Nat /\ document \in [Descriptors -> DocumentSet]
      /\ receipt \in [Operations -> ReceiptSet]
  BY DEF TypeOK, DocumentSet, ReceiptSet
<1>0. at \in Nat /\ n \in Nat /\ mine \in ReceiptSet
  BY <1>t DEF DocumentSet, ReceiptSet
<1>1. /\ receipt' \in [Operations -> ReceiptSet]
      /\ receipt'[o] = mine
      /\ \A q \in Operations \ {o} : receipt'[q] = receipt[q]
  BY <1>t, <1>0 DEF Write
<1>2. /\ document' \in [Descriptors -> DocumentSet] /\ settings' = n
      /\ document'[d].revision = at /\ document'[d].settings = n
      /\ \A e \in Descriptors \ {d} : document'[e] = document[e]
  BY <1>t, <1>0 DEF Write, DocumentSet
<1>3. o \notin AllPromoted /\ o \notin Promoted(d)
  BY DEF AllPromoted, Promoted, NoReceipt
<1>4. AllPromoted' = AllPromoted \cup {o}
  <2>1. AllPromoted' = {q \in Operations : receipt'[q].outcome = "promoted" /\ receipt'[q].descriptor \in Descriptors}
    BY DEF AllPromoted, Promoted
  <2> QED BY <2>1, <1>1, PromotedOperations
<1>5. Promoted(d)' = Promoted(d) \cup {o}
  BY <1>1 DEF Promoted
<1>6. ASSUME NEW e \in Descriptors, e # d PROVE Promoted(e)' = Promoted(e)
  BY <1>1, <1>6 DEF Promoted, NoReceipt
<1>s. Numbers(settingsBefore, AllPromoted, settings)
  BY PromotedOperations DEF Numbers, RevisionsFollowReceipts
<1>7. /\ IsFiniteSet(AllPromoted') /\ Cardinality(AllPromoted') = n
      /\ {receipt'[q].settings : q \in AllPromoted'} = 1 .. n
  <2>2. Numbers(settingsAfter, AllPromoted', settings + 1) => {receipt'[q].settings : q \in AllPromoted'} = 1 .. n
    <3>1. \A q \in AllPromoted' : settingsAfter[q] = receipt'[q].settings
      BY PromotedOperations, <1>4
    <3>2. ASSUME Numbers(settingsAfter, AllPromoted', settings + 1), NEW i \in 1 .. n
          PROVE  \E q \in AllPromoted' : receipt'[q].settings = i
      BY <3>1, <3>2 DEF Numbers
    <3>3. ASSUME Numbers(settingsAfter, AllPromoted', settings + 1), NEW q \in AllPromoted'
          PROVE  receipt'[q].settings \in 1 .. n
      BY <3>1, <3>3 DEF Numbers
    <3> QED BY <3>2, <3>3
  <2>3. /\ \A q \in AllPromoted : settingsAfter[q] = settingsBefore[q]
        /\ settingsAfter[o] = settings + 1
    BY <1>1, <1>3, PromotedOperations
  <2>4. /\ IsFiniteSet(AllPromoted) /\ Cardinality(AllPromoted) = settings
        /\ Cardinality(AllPromoted) \in Nat
    BY <1>t DEF FinitelyPromoted, RevisionsFollowReceipts
  <2> HIDE DEF settingsBefore, settingsAfter
  <2>5. /\ IsFiniteSet(AllPromoted \cup {o}) /\ Cardinality(AllPromoted \cup {o}) = settings + 1
        /\ Numbers(settingsAfter, AllPromoted \cup {o}, settings + 1)
    <3>1. o \notin AllPromoted
      BY <1>3
    <3> QED BY <1>s, <2>3, <2>4, <3>1, NumberingGrows
  <2> QED BY <2>2, <2>5, <1>4
<1>8. /\ IsFiniteSet(Promoted(d)') /\ Cardinality(Promoted(d)') = at
      /\ {receipt'[q].document : q \in Promoted(d)'} = 1 .. at
  <2>1. Numbers(documentBefore, Promoted(d), document[d].revision)
    BY PromotedOperations DEF Numbers, RevisionsFollowReceipts
  <2>2. Numbers(documentAfter, Promoted(d)', at) => {receipt'[q].document : q \in Promoted(d)'} = 1 .. at
    BY PromotedOperations, <1>5 DEF Numbers
  <2>3. /\ \A q \in Promoted(d) : documentAfter[q] = documentBefore[q]
        /\ documentAfter[o] = document[d].revision + 1
    BY <1>1, <1>3, PromotedOperations
  <2>4. /\ IsFiniteSet(Promoted(d)) /\ Cardinality(Promoted(d)) = document[d].revision
        /\ document[d].revision \in Nat
    BY <1>t DEF FinitelyPromoted, RevisionsFollowReceipts, DocumentSet
  <2> HIDE DEF documentBefore, documentAfter
  <2>5. /\ IsFiniteSet(Promoted(d) \cup {o}) /\ Cardinality(Promoted(d) \cup {o}) = document[d].revision + 1
        /\ Numbers(documentAfter, Promoted(d) \cup {o}, document[d].revision + 1)
    BY <2>1, <2>3, <2>4, <1>3, NumberingGrows
  <2> QED BY <2>2, <2>5, <1>5
<1>9. FinitelyPromoted'
  BY <1>6, <1>7, <1>8 DEF FinitelyPromoted
<1>10. RevisionsFollowReceipts'
  <2>1. ASSUME NEW q \in AllPromoted PROVE receipt[q].settings \in Nat /\ receipt[q].settings < n
    BY <1>t, <1>s, PromotedOperations DEF Numbers
  <2>2. ASSUME NEW q \in Promoted(d)'
        PROVE  \/ receipt'[q].settings < document'[d].settings
               \/ /\ receipt'[q].settings = document'[d].settings
                  /\ receipt'[q].document = document'[d].revision
    <3>1. CASE q = o
      BY <3>1, <1>1, <1>2
    <3>2. CASE q # o
      <4>1. q \in AllPromoted /\ q \in Operations \ {o}
        BY <3>2, <1>5, PromotedOperations DEF AllPromoted
      <4> QED BY <4>1, <2>1, <1>1, <1>2
    <3> QED BY <3>1, <3>2
  <2>3. ASSUME NEW e \in Descriptors, e # d
        PROVE  /\ {receipt'[q].document : q \in Promoted(e)'} = 1 .. document'[e].revision
               /\ Cardinality(Promoted(e)') = document'[e].revision
               /\ \A q \in Promoted(e)' : \/ receipt'[q].settings < document'[e].settings
                                          \/ /\ receipt'[q].settings = document'[e].settings
                                             /\ receipt'[q].document = document'[e].revision
    <3>1. \A q \in Promoted(e) : receipt'[q] = receipt[q]
      BY <1>1, PromotedOperations DEF Promoted, NoReceipt
    <3>2. document'[e] = document[e] /\ Promoted(e)' = Promoted(e)
      BY <2>3, <1>2, <1>6
    <3>3. {receipt'[q].document : q \in Promoted(e)} = {receipt[q].document : q \in Promoted(e)}
      BY <3>1
    <3> QED BY <3>1, <3>2, <3>3 DEF RevisionsFollowReceipts
  <2>4. /\ {receipt'[q].document : q \in Promoted(d)'} = 1 .. document'[d].revision
        /\ Cardinality(Promoted(d)') = document'[d].revision
    BY <1>2, <1>8
  <2> QED BY <2>2, <2>3, <2>4, <1>2, <1>7 DEF RevisionsFollowReceipts
<1> QED BY <1>1, <1>2, <1>9, <1>10, <1>0

(* A receipt of another outcome numbers nothing.                           *)
LEMMA NothingNumbered ==
    ASSUME FinitelyPromoted, RevisionsFollowReceipts, UNCHANGED <<settings, document>>,
           \A o \in Operations : \/ receipt'[o] = receipt[o]
                                 \/ receipt[o].outcome # "promoted" /\ receipt'[o].outcome # "promoted"
    PROVE  FinitelyPromoted' /\ RevisionsFollowReceipts'
<1>1. \A d : Promoted(d)' = Promoted(d)
  BY DEF Promoted
<1>2. AllPromoted' = AllPromoted
  BY <1>1 DEF AllPromoted
<1>3. \A o \in AllPromoted : receipt'[o] = receipt[o]
  BY PromotedOperations
<1>4. \A d : \A o \in Promoted(d) : receipt'[o] = receipt[o]
  BY DEF Promoted
<1>5. {receipt'[o].settings : o \in AllPromoted} = {receipt[o].settings : o \in AllPromoted}
  BY <1>3
<1>6. \A d : {receipt'[o].document : o \in Promoted(d)} = {receipt[o].document : o \in Promoted(d)}
  BY <1>4
<1> QED BY <1>1, <1>2, <1>4, <1>5, <1>6 DEF FinitelyPromoted, RevisionsFollowReceipts

-----------------------------------------------------------------------------
(* Calls. *)

(* One call goes on, and the others are left alone or behind: what one of  *)
(* them was told no longer counts once another claims its operation.       *)
LEMMA CallsStep ==
    ASSUME TypeOK, CallsSound, NEW c \in Calls, NEW r \in CallSet, CallSound(r, authority', vouched'),
           authority' = authority,
           \/ /\ call' = [call EXCEPT ![c] = r]
              /\ \A o \in Operations : vouched'[o] = vouched[o] \/ vouched'[o] # 0
           \/ /\ call' = Moved(c, r)
              /\ \A o \in Operations \ {call[c].op} : vouched'[o] = vouched[o]
    PROVE  call' \in [Calls -> CallSet] /\ CallsSound'
<1>1. call \in [Calls -> CallSet]
  BY DEF TypeOK, CallSet
<1>2. /\ call' \in [Calls -> CallSet]
      /\ call'[c] = r
  <2>1. \A x \in Calls : [call[x] EXCEPT !.seen = FALSE] \in CallSet
    BY <1>1 DEF CallSet
  <2> QED BY <1>1, <2>1 DEF Moved
<1>3. ASSUME NEW x \in Calls, x # c
      PROVE  CallSound(call'[x], authority', vouched')
  <2>1. /\ call'[x].pc = call[x].pc /\ call'[x].op = call[x].op /\ call'[x].runtime = call[x].runtime
        /\ call'[x].blocked = call[x].blocked /\ call'[x].authority = call[x].authority
        /\ call'[x].ready = call[x].ready /\ (call'[x].seen => call[x].seen)
    BY <1>1, <1>3 DEF Moved, CallSet
  <2>2. CallSound(call[x], authority, vouched)
    BY DEF CallsSound
  <2>3. call'[x].seen /\ call[x].op \in Operations =>
           vouched'[call[x].op] = vouched[call[x].op] \/ vouched'[call[x].op] # 0
    BY <1>1, <1>3 DEF Moved, CallSet
  <2>4. RunsOperation(call'[x])
    BY <2>1, <2>2 DEF CallSound, RunsOperation
  <2>5. ReadAuthorityOf(call'[x], authority')
    BY <2>1, <2>2 DEF CallSound, ReadAuthorityOf
  <2>6. VouchedReady(call'[x], vouched')
    BY <2>1, <2>2, <2>3 DEF CallSound, VouchedReady, RunsOperation
  <2> QED BY <2>4, <2>5, <2>6 DEF CallSound
<1> QED BY <1>2, <1>3 DEF CallsSound

(* A call that is not under way, and one that has just been started.       *)
LEMMA FreshCalls ==
    ASSUME TypeOK, NEW o \in Operations, NEW w \in Owners
    PROVE  /\ NoCall \in CallSet /\ CallSound(NoCall, authority, vouched)
           /\ LET r == [NoCall EXCEPT !.pc = "read", !.op = o, !.owner = w, !.seen = TRUE]
              IN  r \in CallSet /\ CallSound(r, authority, vouched)
<1> DEFINE r == [NoCall EXCEPT !.pc = "read", !.op = o, !.owner = w, !.seen = TRUE]
<1>1. NoCall \in CallSet /\ NoCall.pc = "idle" /\ NoCall.authority = 0
  BY DEF NoCall, CallSet
<1>2. r \in CallSet /\ r.pc = "read" /\ r.op = o /\ r.authority = 0
  BY DEF NoCall, CallSet
<1>3. 0 <= authority.revision
  BY DEF TypeOK
<1> HIDE DEF r
<1>4. CallSound(NoCall, authority, vouched) /\ CallSound(r, authority, vouched)
  BY <1>1, <1>2, <1>3 DEF CallSound, RunsOperation, ReadAuthorityOf, VouchedReady
<1> QED BY <1>1, <1>2, <1>4 DEF r

(* Every revision of the authority leaves the calls behind.                *)
LEMMA AuthorityStep ==
    ASSUME TypeOK, CallsSound, UNCHANGED <<call, vouched>>,
           authority'.revision = authority.revision + 1
    PROVE  CallsSound'
<1>1. ASSUME NEW c \in Calls PROVE CallSound(call'[c], authority', vouched')
  <2>1. CallSound(call[c], authority, vouched) /\ call[c] \in CallSet /\ authority.revision \in Nat
    BY DEF CallsSound, TypeOK, CallSet
  <2>2. call[c].authority < authority'.revision
    BY <2>1 DEF CallSound, ReadAuthorityOf, CallSet
  <2> QED BY <2>1, <2>2 DEF CallSound, RunsOperation, ReadAuthorityOf, VouchedReady, CallSet
<1> QED BY <1>1 DEF CallsSound

(* What neither writes nor settles keeps the rows without receipts and the *)
(* numbers of the receipts.                                                *)
LEMMA StoreKept ==
    ASSUME SettingsInv, UNCHANGED <<settings, document, operation, receipt>>
    PROVE  RowsAreUnreceipted' /\ FinitelyPromoted' /\ RevisionsFollowReceipts'
<1>1. FinitelyPromoted' /\ RevisionsFollowReceipts'
  BY NothingNumbered DEF SettingsInv
<1>2. RowsAreUnreceipted'
  BY DEF SettingsInv, RowsAreUnreceipted, Unsettled
<1> QED BY <1>1, <1>2

LEMMA CallsKept ==
    ASSUME CallsSound, UNCHANGED <<call, authority, vouched>>
    PROVE  CallsSound'
BY DEF CallsSound, CallSound, RunsOperation, ReadAuthorityOf, VouchedReady

(* The types, by their names.                                              *)
Typed ==
    /\ settings \in Nat
    /\ document \in [Descriptors -> DocumentSet]
    /\ operation \in [Operations -> RowSet]
    /\ receipt \in [Operations -> ReceiptSet]
    /\ authority \in [revision : Nat, allowed : BOOLEAN]
    /\ extension \in ExtensionSet
    /\ call \in [Calls -> CallSet]
    /\ vouched \in [Operations -> Nat]
    /\ disturbances \in 0 .. MaxDisturbances

LEMMA Types == (TypeOK <=> Typed) /\ (TypeOK' <=> Typed')
BY DEF Typed, TypeOK, DocumentSet, RowSet, ReceiptSet, ExtensionSet, CallSet

LEMMA DisturbTypes ==
    ASSUME disturbances \in 0 .. MaxDisturbances, Disturb \/ UNCHANGED disturbances
    PROVE  disturbances' \in 0 .. MaxDisturbances
BY SettingsAssumption DEF Disturb

-----------------------------------------------------------------------------
(* Steps of the store. *)

LEMMA BeginStep ==
    ASSUME SettingsInv, NEW o \in Operations, NEW d \in Descriptors, NEW v \in Values, Begin(o, d, v)
    PROVE  SettingsInv'
<1> DEFINE r == [NoRow EXCEPT !.state = "pending-validation", !.descriptor = d, !.values = v,
                              !.document = document[d].revision, !.settings = settings,
                              !.changed = Changes(d, v)]
<1> USE DEF SettingsInv
<1>1. /\ r \in RowSet /\ r.descriptor = d /\ r.values = v
  BY Types DEF Typed, RowSet, DocumentSet, NoRow, Changes
<1>2. /\ operation' = [operation EXCEPT ![o] = r] /\ receipt[o] = NoReceipt /\ d \notin Immediate
      /\ UNCHANGED <<settings, document, receipt, authority, extension, call, vouched, disturbances>>
  BY DEF Begin
<1> HIDE DEF r
<1>3. TypeOK'
  BY <1>1, <1>2, Types DEF Typed
<1>4. RowsAreUnreceipted'
  BY <1>1, <1>2, Types DEF Typed, RowsAreUnreceipted, Unsettled
<1>5. CallsSound'
  BY <1>2, CallsKept
<1>6. FinitelyPromoted' /\ RevisionsFollowReceipts'
  BY <1>2, NothingNumbered
<1> QED BY <1>2, <1>3, <1>4, <1>5, <1>6

LEMMA WriteImmediateStep ==
    ASSUME SettingsInv, NEW o \in Operations, NEW d \in Descriptors, NEW v \in Values, WriteImmediate(o, d, v)
    PROVE  SettingsInv'
<1> USE DEF SettingsInv
<1>1. /\ Write(o, d, document[d].revision + 1, settings + 1, v) /\ receipt[o] = NoReceipt /\ ~Unsettled(o)
      /\ UNCHANGED <<operation, authority, extension, call, vouched, disturbances>>
  BY DEF WriteImmediate
<1>2. /\ FinitelyPromoted' /\ RevisionsFollowReceipts'
      /\ settings' \in Nat
      /\ document' \in [Descriptors -> DocumentSet]
      /\ receipt' \in [Operations -> ReceiptSet]
      /\ \A q \in Operations \ {o} : receipt'[q] = receipt[q]
  BY <1>1, WriteStep
<1>3. TypeOK'
  BY <1>1, <1>2, Types DEF Typed
<1>4. RowsAreUnreceipted'
  BY <1>1, <1>2 DEF RowsAreUnreceipted, Unsettled
<1>5. CallsSound'
  BY <1>1, CallsKept
<1> QED BY <1>1, <1>2, <1>3, <1>4, <1>5

-----------------------------------------------------------------------------
(* Steps of a call that leave the store as it is. *)

(* It goes on as r, or ends.                                               *)
LEMMA CallAloneStep ==
    ASSUME SettingsInv, NEW c \in Calls, NEW r \in CallSet, CallSound(r, authority', vouched'),
           call' = [call EXCEPT ![c] = r],
           vouched' \in [Operations -> Nat],
           \A o \in Operations : vouched'[o] = vouched[o] \/ vouched'[o] # 0,
           Disturb \/ UNCHANGED disturbances,
           UNCHANGED <<settings, document, operation, receipt, authority, extension>>
    PROVE  SettingsInv'
<1> USE DEF SettingsInv
<1>1. call' \in [Calls -> CallSet] /\ CallsSound'
  BY CallsStep
<1>2. TypeOK'
  BY <1>1, Types, DisturbTypes DEF Typed
<1>3. RowsAreUnreceipted' /\ FinitelyPromoted' /\ RevisionsFollowReceipts'
  BY StoreKept
<1> QED BY <1>1, <1>2, <1>3

LEMMA EndsStep ==
    ASSUME SettingsInv, NEW c \in Calls, Ends(c), Disturb \/ UNCHANGED disturbances,
           UNCHANGED <<settings, document, operation, receipt, authority, extension, vouched>>
    PROVE  SettingsInv'
<1>1. NoCall \in CallSet
  BY DEF NoCall, CallSet
<1>2. CallSound(NoCall, authority', vouched')
  <2>1. 0 <= authority.revision /\ authority' = authority
    BY DEF SettingsInv, TypeOK
  <2> QED BY <2>1 DEF NoCall, CallSound, RunsOperation, ReadAuthorityOf, VouchedReady
<1>3. vouched' \in [Operations -> Nat]
  BY DEF SettingsInv, TypeOK
<1> QED BY <1>1, <1>2, <1>3, CallAloneStep DEF Ends

LEMMA StartStep ==
    ASSUME SettingsInv, NEW c \in Calls, NEW o \in Operations, NEW w \in Owners, Start(c, o, w)
    PROVE  SettingsInv'
<1> DEFINE r == [NoCall EXCEPT !.pc = "read", !.op = o, !.owner = w, !.seen = TRUE]
<1>1. r \in CallSet /\ r.pc = "read" /\ r.op = o /\ r.authority = 0
  BY DEF NoCall, CallSet
<1>2. /\ call' = [call EXCEPT ![c] = r]
      /\ Disturb \/ UNCHANGED disturbances
      /\ UNCHANGED <<settings, document, operation, receipt, authority, extension, vouched>>
  BY DEF Start
<1>3. vouched' \in [Operations -> Nat] /\ 0 <= authority.revision
  BY <1>2 DEF SettingsInv, TypeOK
<1> HIDE DEF r
<1>4. CallSound(r, authority', vouched')
  BY <1>1, <1>2, <1>3 DEF CallSound, RunsOperation, ReadAuthorityOf, VouchedReady
<1> QED BY <1>1, <1>2, <1>3, <1>4, CallAloneStep

(* What is known of the call that makes a step.                            *)
LEMMA Caller ==
    ASSUME SettingsInv, NEW c \in Calls, call[c].pc # "idle"
    PROVE  /\ call[c] \in CallSet /\ CallSound(call[c], authority, vouched) /\ call[c].op \in Operations
           /\ authority \in [revision : Nat, allowed : BOOLEAN]
           /\ extension \in ExtensionSet /\ extension.runtime # 0
           /\ operation \in [Operations -> RowSet]
           /\ vouched \in [Operations -> Nat]
BY Types DEF Typed, SettingsInv, CallsSound, CallSound, RunsOperation

LEMMA ReadAuthorityStep ==
    ASSUME SettingsInv, NEW c \in Calls, ReadAuthority(c)
    PROVE  SettingsInv'
<1>1. CASE Ends(c)
  BY <1>1, EndsStep DEF ReadAuthority
<1>2. CASE Goto(c, "claim-authority")
  <2> DEFINE r == [call[c] EXCEPT !.pc = "claim-authority"]
  <2>1. call[c] \in CallSet /\ CallSound(call[c], authority, vouched) /\ call[c].op \in Operations
    BY Caller DEF ReadAuthority
  <2>2. /\ r \in CallSet /\ r.pc = "claim-authority" /\ r.op = call[c].op /\ r.authority = call[c].authority
    BY <2>1 DEF CallSet
  <2>3. /\ call' = [call EXCEPT ![c] = r]
        /\ UNCHANGED <<settings, document, operation, receipt, authority, extension, vouched, disturbances>>
    BY <1>2 DEF ReadAuthority, Goto
  <2>4. vouched' \in [Operations -> Nat]
    BY <2>3 DEF SettingsInv, TypeOK
  <2> HIDE DEF r
  <2>5. CallSound(r, authority', vouched')
    BY <2>1, <2>2, <2>3 DEF CallSound, RunsOperation, ReadAuthorityOf, VouchedReady
  <2> QED BY <2>2, <2>3, <2>4, <2>5, CallAloneStep
<1> QED BY <1>1, <1>2 DEF ReadAuthority

LEMMA ReauthorizeStep ==
    ASSUME SettingsInv, NEW c \in Calls, Reauthorize(c)
    PROVE  SettingsInv'
<1>0. /\ call[c] \in CallSet /\ CallSound(call[c], authority, vouched) /\ call[c].op \in Operations
      /\ authority.revision \in Nat
  BY Caller DEF Reauthorize
<1>f. /\ UNCHANGED <<settings, document, operation, receipt, authority, extension, vouched>>
      /\ Disturb \/ UNCHANGED disturbances
      /\ vouched' \in [Operations -> Nat]
  BY DEF Reauthorize, SettingsInv, TypeOK
<1>1. CASE /\ authority.allowed
           /\ call' = [call EXCEPT ![c].authority = authority.revision,
                                   ![c].pc = IF @ = "claim-authority" THEN "claim" ELSE "write"]
  <2> DEFINE r == [call[c] EXCEPT !.authority = authority.revision,
                                  !.pc = IF @ = "claim-authority" THEN "claim" ELSE "write"]
  <2>1. /\ r \in CallSet /\ r.op = call[c].op /\ r.authority = authority.revision
        /\ r.seen = call[c].seen /\ r.ready = call[c].ready /\ r.blocked = call[c].blocked
        /\ \/ call[c].pc = "claim-authority" /\ r.pc = "claim"
           \/ call[c].pc = "promote-authority" /\ r.pc = "write"
    BY <1>0 DEF CallSet, Reauthorize
  <2>2. call' = [call EXCEPT ![c] = r]
    BY <1>1, <1>0 DEF CallSet
  <2> HIDE DEF r
  <2>3. CallSound(r, authority', vouched')
    BY <1>0, <1>1, <1>f, <2>1 DEF CallSound, RunsOperation, ReadAuthorityOf, VouchedReady
  <2> QED BY <1>f, <2>1, <2>2, <2>3, CallAloneStep
<1>2. CASE Goto(c, "observe")
  <2> DEFINE r == [call[c] EXCEPT !.pc = "observe"]
  <2>1. r \in CallSet /\ r.pc = "observe" /\ r.op = call[c].op /\ r.authority = call[c].authority
    BY <1>0 DEF CallSet
  <2>2. call' = [call EXCEPT ![c] = r]
    BY <1>2 DEF Goto
  <2> HIDE DEF r
  <2>3. CallSound(r, authority', vouched')
    BY <1>0, <1>f, <2>1 DEF CallSound, RunsOperation, ReadAuthorityOf, VouchedReady
  <2> QED BY <1>f, <2>1, <2>2, <2>3, CallAloneStep
<1> QED BY <1>1, <1>2 DEF Reauthorize

LEMMA ObserveStep ==
    ASSUME SettingsInv, NEW c \in Calls, Observe(c)
    PROVE  SettingsInv'
<1> DEFINE r == [call[c] EXCEPT !.authority = authority.revision, !.pc = "block"]
<1>0. /\ call[c] \in CallSet /\ CallSound(call[c], authority, vouched) /\ call[c].op \in Operations
      /\ authority.revision \in Nat
  BY Caller DEF Observe
<1>1. r \in CallSet /\ r.pc = "block" /\ r.op = call[c].op /\ r.authority = authority.revision
  BY <1>0 DEF CallSet
<1>2. /\ call' = [call EXCEPT ![c] = r]
      /\ UNCHANGED <<settings, document, operation, receipt, authority, extension, vouched, disturbances>>
      /\ vouched' \in [Operations -> Nat]
  BY <1>0 DEF Observe, CallSet, SettingsInv, TypeOK
<1> HIDE DEF r
<1>3. CallSound(r, authority', vouched')
  BY <1>0, <1>1, <1>2 DEF CallSound, RunsOperation, ReadAuthorityOf, VouchedReady
<1> QED BY <1>1, <1>2, <1>3, CallAloneStep

LEMMA ValidateStep ==
    ASSUME SettingsInv, NEW c \in Calls, NEW ready \in BOOLEAN, Validate(c, ready)
    PROVE  SettingsInv'
<1> DEFINE late == call[c].owner \notin operation[call[c].op].live
           r == [call[c] EXCEPT !.ready = ready, !.late = late, !.pc = "promote-authority"]
<1>0. /\ call[c] \in CallSet /\ CallSound(call[c], authority, vouched) /\ call[c].op \in Operations
      /\ authority.revision \in Nat /\ call[c].pc = "validate"
      /\ vouched \in [Operations -> Nat]
  BY Caller DEF Validate
<1>1. /\ r \in CallSet /\ r.pc = "promote-authority" /\ r.op = call[c].op /\ r.authority = call[c].authority
      /\ r.seen = call[c].seen /\ r.ready = ready /\ r.blocked = call[c].blocked
  BY <1>0 DEF CallSet
<1>2. /\ call' = [call EXCEPT ![c] = r]
      /\ UNCHANGED <<settings, document, operation, receipt, authority, extension, disturbances>>
  BY <1>0 DEF Validate, CallSet
<1>3. call[c].runtime \in Nat \ {0}
  BY <1>0 DEF CallSet, CallSound, VouchedReady
<1>4. /\ vouched' \in [Operations -> Nat]
      /\ \A o \in Operations : vouched'[o] = vouched[o] \/ vouched'[o] # 0
      /\ ready /\ call[c].seen => vouched'[call[c].op] # 0
  BY <1>0, <1>3 DEF Validate
<1> HIDE DEF r
<1>5. CallSound(r, authority', vouched')
  BY <1>0, <1>1, <1>2, <1>4 DEF CallSound, RunsOperation, ReadAuthorityOf, VouchedReady
<1> QED BY <1>1, <1>2, <1>4, <1>5, CallAloneStep

LEMMA ReadDocumentStep ==
    ASSUME SettingsInv, NEW c \in Calls, ReadDocument(c)
    PROVE  SettingsInv'
<1> DEFINE row == operation[call[c].op]
           changed == row # NoRow /\ Changes(row.descriptor, row.values)
           r == [call[c] EXCEPT !.pc = "settle", !.changed = changed]
<1>0. /\ call[c] \in CallSet /\ CallSound(call[c], authority, vouched) /\ call[c].op \in Operations
      /\ authority.revision \in Nat /\ call[c].pc = "write"
  BY Caller DEF ReadDocument
<1>1. /\ r \in CallSet /\ r.pc = "settle" /\ r.op = call[c].op /\ r.authority = call[c].authority
      /\ r.seen = call[c].seen /\ r.ready = call[c].ready /\ r.blocked = call[c].blocked
  BY <1>0 DEF CallSet, Changes
<1>2. /\ call' = [call EXCEPT ![c] = r]
      /\ UNCHANGED <<settings, document, operation, receipt, authority, extension, vouched, disturbances>>
      /\ vouched' \in [Operations -> Nat]
  BY <1>0 DEF ReadDocument, CallSet, SettingsInv, TypeOK
<1> HIDE DEF r
<1>3. CallSound(r, authority', vouched')
  BY <1>0, <1>1, <1>2 DEF CallSound, RunsOperation, ReadAuthorityOf, VouchedReady
<1> QED BY <1>1, <1>2, <1>3, CallAloneStep

-----------------------------------------------------------------------------
(* Steps of a call that write the row. *)

(* A row that stays that of its request.                                   *)
LEMMA RowStep ==
    ASSUME SettingsInv, NEW o \in Operations, NEW row \in RowSet, Unsettled(o),
           row.descriptor = operation[o].descriptor, row.values = operation[o].values,
           operation' = [operation EXCEPT ![o] = row],
           UNCHANGED <<settings, document, receipt>>
    PROVE  /\ operation' \in [Operations -> RowSet]
           /\ RowsAreUnreceipted' /\ FinitelyPromoted' /\ RevisionsFollowReceipts'
<1>1. operation \in [Operations -> RowSet]
  BY Types DEF SettingsInv, Typed
<1>2. RowsAreUnreceipted'
  BY <1>1 DEF SettingsInv, RowsAreUnreceipted, Unsettled
<1>3. FinitelyPromoted' /\ RevisionsFollowReceipts'
  BY NothingNumbered DEF SettingsInv
<1> QED BY <1>1, <1>2, <1>3

LEMMA ClaimStep ==
    ASSUME SettingsInv, NEW c \in Calls, Claim(c)
    PROVE  SettingsInv'
<1> DEFINE o == call[c].op
           w == call[c].owner
           row == [operation[o] EXCEPT !.state = "validating", !.owner = w, !.live = Owners]
           r == [call[c] EXCEPT !.pc = "validate", !.runtime = extension.runtime]
<1>0. /\ call[c].pc = "claim"
      /\ call[c] \in CallSet /\ CallSound(call[c], authority, vouched) /\ o \in Operations
      /\ authority.revision \in Nat
      /\ extension \in ExtensionSet /\ extension.runtime # 0
      /\ operation \in [Operations -> RowSet] /\ vouched \in [Operations -> Nat]
  BY Caller DEF Claim
<1>1. CASE Ends(c) /\ UNCHANGED <<operation, vouched>>
  BY <1>1, EndsStep DEF Claim
<1>2. CASE /\ Available(o, w)
           /\ operation' = [operation EXCEPT ![o].state = "validating", ![o].owner = w, ![o].live = Owners]
           /\ call' = Moved(c, r)
           /\ vouched' = [vouched EXCEPT ![o] = 0]
  <2>1. /\ r \in CallSet /\ r.pc = "validate" /\ r.op = o /\ r.authority = call[c].authority
        /\ r.blocked = call[c].blocked /\ r.runtime = extension.runtime
    BY <1>0 DEF CallSet, ExtensionSet
  <2>2. /\ row \in RowSet /\ row.descriptor = operation[o].descriptor /\ row.values = operation[o].values
        /\ operation' = [operation EXCEPT ![o] = row]
    <3>1. operation[o] \in RowSet /\ call[c].owner \in Owners \cup {Nobody}
      BY <1>0 DEF CallSet
    <3>2. /\ row \in RowSet /\ row.descriptor = operation[o].descriptor /\ row.values = operation[o].values
      BY <3>1 DEF RowSet
    <3>3. operation' = [operation EXCEPT ![o] = row]
      BY <1>2
    <3> QED BY <3>2, <3>3
  <2>3. /\ Unsettled(o)
        /\ UNCHANGED <<settings, document, receipt, authority, extension, disturbances>>
    BY <1>2 DEF Claim, Available, Unsettled
  <2> HIDE DEF r, row
  <2>4. /\ operation' \in [Operations -> RowSet]
        /\ RowsAreUnreceipted' /\ FinitelyPromoted' /\ RevisionsFollowReceipts'
    BY <1>0, <2>2, <2>3, RowStep
  <2>5. CallSound(r, authority', vouched')
    BY <1>0, <2>1, <2>3 DEF CallSound, RunsOperation, ReadAuthorityOf, VouchedReady
  <2>6. \A q \in Operations \ {call[c].op} : vouched'[q] = vouched[q]
    BY <1>0, <1>2
  <2>7. call' \in [Calls -> CallSet] /\ CallsSound'
    BY <1>2, <2>1, <2>3, <2>5, <2>6, CallsStep DEF SettingsInv
  <2>8. vouched' \in [Operations -> Nat]
    BY <1>0, <1>2
  <2>9. TypeOK'
    BY <2>3, <2>4, <2>7, <2>8, Types DEF SettingsInv, Typed
  <2> QED BY <2>3, <2>4, <2>7, <2>9 DEF SettingsInv
<1> QED BY <1>1, <1>2 DEF Claim

LEMMA BlockStep ==
    ASSUME SettingsInv, NEW c \in Calls, Block(c)
    PROVE  SettingsInv'
<1> DEFINE o == call[c].op
           row == [operation[o] EXCEPT !.state = "promotion-blocked", !.owner = Nobody, !.live = {}]
           r == [call[c] EXCEPT !.pc = "write", !.blocked = TRUE]
<1>0. /\ call[c].pc = "block"
      /\ call[c] \in CallSet /\ CallSound(call[c], authority, vouched) /\ o \in Operations
      /\ authority.revision \in Nat
      /\ operation \in [Operations -> RowSet] /\ vouched \in [Operations -> Nat]
  BY Caller DEF Block
<1>1. CASE Ends(c) /\ UNCHANGED operation
  BY <1>1, EndsStep DEF Block
<1>2. CASE /\ operation[o].state \in {"pending-validation", "validating"}
           /\ operation' = [operation EXCEPT ![o].state = "promotion-blocked", ![o].owner = Nobody, ![o].live = {}]
           /\ call' = Moved(c, r)
  <2>1. /\ r \in CallSet /\ r.pc = "write" /\ r.op = o /\ r.authority = call[c].authority /\ r.blocked
    BY <1>0 DEF CallSet
  <2>2. /\ row \in RowSet /\ row.descriptor = operation[o].descriptor /\ row.values = operation[o].values
        /\ operation' = [operation EXCEPT ![o] = row]
    <3>1. operation[o] \in RowSet /\ call[c].owner \in Owners \cup {Nobody}
      BY <1>0 DEF CallSet
    <3>2. /\ row \in RowSet /\ row.descriptor = operation[o].descriptor /\ row.values = operation[o].values
      BY <3>1 DEF RowSet
    <3>3. operation' = [operation EXCEPT ![o] = row]
      BY <1>2
    <3> QED BY <3>2, <3>3
  <2>3. /\ Unsettled(o)
        /\ UNCHANGED <<settings, document, receipt, authority, extension, vouched, disturbances>>
    BY <1>2 DEF Block, Unsettled
  <2> HIDE DEF r, row
  <2>4. /\ operation' \in [Operations -> RowSet]
        /\ RowsAreUnreceipted' /\ FinitelyPromoted' /\ RevisionsFollowReceipts'
    BY <1>0, <2>2, <2>3, RowStep
  <2>5. CallSound(r, authority', vouched')
    BY <1>0, <2>1, <2>3 DEF CallSound, RunsOperation, ReadAuthorityOf, VouchedReady
  <2>6. call' \in [Calls -> CallSet] /\ CallsSound'
    BY <1>2, <2>1, <2>3, <2>5, CallsStep DEF SettingsInv
  <2>7. TypeOK'
    BY <2>3, <2>4, <2>6, Types DEF SettingsInv, Typed
  <2> QED BY <2>3, <2>4, <2>6, <2>7 DEF SettingsInv
<1> QED BY <1>1, <1>2 DEF Block

(* The row of a settled operation is gone, and the call with it.           *)
LEMMA SettlesStep ==
    ASSUME SettingsInv, NEW c \in Calls, call[c].pc # "idle", Settles(c, call[c].op),
           UNCHANGED <<authority, vouched>>
    PROVE  /\ operation' \in [Operations -> RowSet]
           /\ call' \in [Calls -> CallSet] /\ CallsSound'
           /\ \A o \in Operations : Unsettled(o)' => operation'[o] = operation[o] /\ o # call[c].op
<1>1. /\ call[c].op \in Operations /\ operation \in [Operations -> RowSet]
      /\ authority.revision \in Nat
  BY Caller
<1>2. NoRow \in RowSet /\ NoRow.state = "absent"
  BY DEF NoRow, RowSet
<1>3. NoCall \in CallSet
  BY DEF NoCall, CallSet
<1>4. CallSound(NoCall, authority', vouched')
  BY <1>1 DEF NoCall, CallSound, RunsOperation, ReadAuthorityOf, VouchedReady
<1>5. call' \in [Calls -> CallSet] /\ CallsSound'
  BY <1>3, <1>4, CallsStep DEF Settles, SettingsInv
<1> QED BY <1>1, <1>2, <1>5 DEF Settles, Unsettled

(* promoteGenerationValidated() numbers the next revisions: those of the   *)
(* row are still the current ones.                                         *)
LEMMA PromoteStep ==
    ASSUME SettingsInv, NEW c \in Calls, Promote(c)
    PROVE  SettingsInv'
<1> DEFINE o == call[c].op
           row == operation[o]
<1>0. /\ call[c].pc # "idle" /\ o \in Operations /\ Unsettled(o)
      /\ operation \in [Operations -> RowSet]
      /\ row.document = document[row.descriptor].revision /\ row.settings = settings
      /\ Settles(c, o)
      /\ Write(o, row.descriptor, row.document + 1, row.settings + 1, row.values)
      /\ UNCHANGED <<authority, extension, vouched, disturbances>>
  BY Caller DEF Promote, MayPromote, Matches, AtExpected
<1>1. /\ row.descriptor \in Descriptors /\ row.values \in Values /\ receipt[o] = NoReceipt
  BY <1>0 DEF SettingsInv, RowsAreUnreceipted
<1>2. /\ FinitelyPromoted' /\ RevisionsFollowReceipts'
      /\ settings' \in Nat
      /\ document' \in [Descriptors -> DocumentSet]
      /\ receipt' \in [Operations -> ReceiptSet]
      /\ \A q \in Operations \ {o} : receipt'[q] = receipt[q]
  BY <1>0, <1>1, WriteStep DEF SettingsInv
<1>3. /\ operation' \in [Operations -> RowSet]
      /\ call' \in [Calls -> CallSet] /\ CallsSound'
      /\ \A q \in Operations : Unsettled(q)' => operation'[q] = operation[q] /\ q # o
  BY <1>0, SettlesStep
<1>4. TypeOK'
  BY <1>0, <1>2, <1>3, Types DEF SettingsInv, Typed
<1>5. RowsAreUnreceipted'
  BY <1>2, <1>3 DEF SettingsInv, RowsAreUnreceipted, Unsettled
<1> QED BY <1>0, <1>2, <1>3, <1>4, <1>5 DEF SettingsInv

LEMMA FailStep ==
    ASSUME SettingsInv, NEW c \in Calls, Fail(c)
    PROVE  SettingsInv'
<1> DEFINE o == call[c].op
           outcome == IF operation[o].state = "promotion-blocked"
                      THEN "promotion-invalidated" ELSE "validation-failed"
           mine == [NoReceipt EXCEPT !.descriptor = operation[o].descriptor, !.outcome = outcome]
<1>0. /\ call[c].pc # "idle" /\ o \in Operations /\ Unsettled(o)
      /\ operation \in [Operations -> RowSet] /\ receipt \in [Operations -> ReceiptSet]
      /\ receipt' = [receipt EXCEPT ![o] = mine]
      /\ Settles(c, o)
      /\ UNCHANGED <<settings, document, authority, extension, vouched, disturbances>>
  BY Caller, Types DEF Fail, MayFail, Matches, SettingsInv, Typed
<1>1. mine \in ReceiptSet /\ mine.outcome # "promoted"
  BY <1>0 DEF ReceiptSet, RowSet, NoReceipt
<1>2. receipt[o] = NoReceipt
  BY <1>0 DEF SettingsInv, RowsAreUnreceipted
<1>3. FinitelyPromoted' /\ RevisionsFollowReceipts'
  BY <1>0, <1>1, <1>2, NothingNumbered DEF SettingsInv, NoReceipt
<1>4. /\ operation' \in [Operations -> RowSet]
      /\ call' \in [Calls -> CallSet] /\ CallsSound'
      /\ \A q \in Operations : Unsettled(q)' => operation'[q] = operation[q] /\ q # o
  BY <1>0, SettlesStep
<1> HIDE DEF mine
<1>5. TypeOK'
  BY <1>0, <1>1, <1>4, Types DEF SettingsInv, Typed
<1>6. RowsAreUnreceipted'
  BY <1>0, <1>4 DEF SettingsInv, RowsAreUnreceipted, Unsettled
<1> QED BY <1>0, <1>3, <1>4, <1>5, <1>6 DEF SettingsInv

-----------------------------------------------------------------------------
(* Clocks, authority and lifecycle. *)

LEMMA LeaseEndsStep ==
    ASSUME SettingsInv, NEW o \in Operations, NEW w \in Owners, LeaseEnds(o, w)
    PROVE  SettingsInv'
<1> DEFINE row == [operation[o] EXCEPT !.live = @ \ {w}]
<1>0. /\ w \in operation[o].live /\ operation \in [Operations -> RowSet]
      /\ operation' = [operation EXCEPT ![o].live = @ \ {w}]
      /\ Disturb \/ UNCHANGED disturbances
      /\ UNCHANGED <<settings, document, receipt, authority, extension, call, vouched>>
  BY Types DEF LeaseEnds, SettingsInv, Typed
<1>1. row \in RowSet /\ row.descriptor = operation[o].descriptor /\ row.values = operation[o].values
      /\ row.state = operation[o].state
  BY <1>0 DEF RowSet
<1>2. operation' = [operation EXCEPT ![o] = row]
  BY <1>0 DEF RowSet
<1> HIDE DEF row
<1>3. RowsAreUnreceipted' /\ operation' \in [Operations -> RowSet]
  BY <1>0, <1>1, <1>2 DEF SettingsInv, RowsAreUnreceipted, Unsettled
<1>4. FinitelyPromoted' /\ RevisionsFollowReceipts'
  BY <1>0, NothingNumbered DEF SettingsInv
<1>5. CallsSound'
  BY <1>0, CallsKept DEF SettingsInv
<1>6. TypeOK'
  BY <1>0, <1>3, Types, DisturbTypes DEF SettingsInv, Typed
<1> QED BY <1>0, <1>3, <1>4, <1>5, <1>6 DEF SettingsInv

(* The authority moves on, with or without the owning generation.          *)
LEMMA RevisionStep ==
    ASSUME SettingsInv, authority' \in [revision : Nat, allowed : BOOLEAN],
           \/ authority'.revision = authority.revision + 1
           \/ authority' = authority,
           extension' \in ExtensionSet, extension'.runtime # 0,
           Disturb \/ UNCHANGED disturbances,
           UNCHANGED <<settings, document, operation, receipt, call, vouched>>
    PROVE  SettingsInv'
<1>1. CallsSound'
  BY AuthorityStep, CallsKept DEF SettingsInv
<1>2. RowsAreUnreceipted' /\ FinitelyPromoted' /\ RevisionsFollowReceipts'
  BY StoreKept
<1>3. TypeOK'
  BY <1>1, Types, DisturbTypes DEF SettingsInv, Typed
<1> QED BY <1>1, <1>2, <1>3 DEF SettingsInv

LEMMA ReviseAuthorityStep ==
    ASSUME SettingsInv, NEW allowed \in BOOLEAN, ReviseAuthority(allowed)
    PROVE  SettingsInv'
<1>1. /\ authority' \in [revision : Nat, allowed : BOOLEAN]
      /\ authority'.revision = authority.revision + 1
  BY Types DEF ReviseAuthority, SettingsInv, Typed
<1>2. extension' \in ExtensionSet /\ extension'.runtime # 0
  BY Types DEF ReviseAuthority, SettingsInv, Typed
<1> QED BY <1>1, <1>2, RevisionStep DEF ReviseAuthority

LEMMA TransitionStep ==
    ASSUME SettingsInv, Activate \/ Update \/ Enable \/ \E state \in {"disabled", "retired"} : Withdraw(state)
    PROVE  SettingsInv'
<1>1. /\ authority \in [revision : Nat, allowed : BOOLEAN]
      /\ extension \in ExtensionSet /\ extension.runtime \in Nat \ {0}
  BY Types DEF SettingsInv, Typed, ExtensionSet
<1>2. /\ authority' = [authority EXCEPT !.revision = @ + 1]
      /\ UNCHANGED <<settings, document, operation, receipt, call, vouched>>
      /\ Disturb \/ UNCHANGED disturbances
  BY DEF Activate, Update, Enable, Withdraw, Transition
<1>3. extension' \in ExtensionSet /\ extension'.runtime # 0
  BY <1>1 DEF Activate, Update, Enable, Withdraw, Transition, ExtensionSet
<1>4. /\ authority' \in [revision : Nat, allowed : BOOLEAN]
      /\ authority'.revision = authority.revision + 1
  BY <1>1, <1>2
<1> QED BY <1>2, <1>3, <1>4, RevisionStep

LEMMA GiveUpStep ==
    ASSUME SettingsInv, GiveUp
    PROVE  SettingsInv'
<1>1. extension' \in ExtensionSet /\ extension'.runtime # 0
  BY Types DEF GiveUp, SettingsInv, Typed, ExtensionSet
<1>2. authority' = authority /\ authority' \in [revision : Nat, allowed : BOOLEAN]
  BY Types DEF GiveUp, SettingsInv, Typed
<1> QED BY <1>1, <1>2, RevisionStep DEF GiveUp

-----------------------------------------------------------------------------
(* Theorems. *)

LEMMA SettingsInvInit == Init => SettingsInv
<1> SUFFICES ASSUME Init PROVE SettingsInv
  OBVIOUS
<1> USE DEF Init
<1>1. TypeOK
  <2>1. NoDocument \in DocumentSet /\ NoRow \in RowSet /\ NoReceipt \in ReceiptSet /\ NoCall \in CallSet
    BY DEF NoDocument, NoRow, NoReceipt, NoCall, DocumentSet, RowSet, ReceiptSet, CallSet
  <2> QED BY <2>1, Types, SettingsAssumption DEF Typed, ExtensionSet
<1>2. RowsAreUnreceipted
  BY DEF RowsAreUnreceipted, Unsettled, NoRow
<1>3. CallsSound
  BY DEF CallsSound, CallSound, RunsOperation, ReadAuthorityOf, VouchedReady, NoCall
<1>4. AllPromoted = {} /\ \A d \in Descriptors : Promoted(d) = {}
  BY DEF AllPromoted, Promoted, NoReceipt
<1>5. FinitelyPromoted
  BY <1>4, FS_EmptySet DEF FinitelyPromoted
<1>6. RevisionsFollowReceipts
  <2>1. 1 .. 0 = {} /\ Cardinality({}) = 0
    BY FS_EmptySet
  <2>2. \A d \in Descriptors : document[d].revision = 0
    BY DEF NoDocument
  <2> QED BY <1>4, <2>1, <2>2 DEF RevisionsFollowReceipts
<1> QED BY <1>1, <1>2, <1>3, <1>5, <1>6 DEF SettingsInv

LEMMA SettingsInvStep == SettingsInv /\ [Next]_vars => SettingsInv'
<1> SUFFICES ASSUME SettingsInv, [Next]_vars PROVE SettingsInv'
  OBVIOUS
<1>1. CASE \E o \in Operations, d \in Descriptors, v \in Values : Begin(o, d, v) \/ WriteImmediate(o, d, v)
  BY <1>1, BeginStep, WriteImmediateStep
<1>2. CASE \E c \in Calls, o \in Operations, w \in Owners : Start(c, o, w)
  BY <1>2, StartStep
<1>3. ASSUME NEW c \in Calls, Proceed(c) PROVE SettingsInv'
  <2>1. CASE ReadAuthority(c) BY <2>1, ReadAuthorityStep
  <2>2. CASE Reauthorize(c) BY <2>2, ReauthorizeStep
  <2>3. CASE Observe(c) BY <2>3, ObserveStep
  <2>4. CASE Claim(c) BY <2>4, ClaimStep
  <2>5. CASE Block(c) BY <2>5, BlockStep
  <2>6. CASE \E ready \in BOOLEAN : Validate(c, ready) BY <2>6, ValidateStep
  <2>7. CASE ReadDocument(c) BY <2>7, ReadDocumentStep
  <2>8. CASE Promote(c) BY <2>8, PromoteStep
  <2>9. CASE Fail(c) BY <2>9, FailStep
  <2>10. CASE Refused(c) BY <2>10, EndsStep DEF Refused
  <2> QED BY <1>3, <2>1, <2>2, <2>3, <2>4, <2>5, <2>6, <2>7, <2>8, <2>9, <2>10 DEF Proceed
<1>4. ASSUME NEW c \in Calls, Abort(c) PROVE SettingsInv'
  BY <1>4, EndsStep DEF Abort
<1>5. CASE \E o \in Operations, w \in Owners : LeaseEnds(o, w)
  BY <1>5, LeaseEndsStep
<1>6. CASE \E allowed \in BOOLEAN : ReviseAuthority(allowed)
  BY <1>6, ReviseAuthorityStep
<1>7. CASE Activate \/ Update \/ Enable \/ \E state \in {"disabled", "retired"} : Withdraw(state)
  BY <1>7, TransitionStep
<1>8. CASE GiveUp
  BY <1>8, GiveUpStep
<1>9. CASE UNCHANGED vars
  <2>1. TypeOK'
    BY <1>9, Types DEF vars, SettingsInv, Typed
  <2>2. RowsAreUnreceipted' /\ FinitelyPromoted' /\ RevisionsFollowReceipts'
    BY <1>9, StoreKept DEF vars
  <2>3. CallsSound'
    BY <1>9, CallsKept DEF vars, SettingsInv
  <2> QED BY <1>9, <2>1, <2>2, <2>3 DEF vars, SettingsInv
<1> QED BY <1>1, <1>2, <1>3, <1>4, <1>5, <1>6, <1>7, <1>8, <1>9 DEF Next

(* The invariant is kept by every transaction, call and transition.        *)
THEOREM SettingsInvariant == Spec => []SettingsInv
BY SettingsInvInit, SettingsInvStep, PTL DEF Spec

(* The variables have their types.                                         *)
THEOREM SettingsTypes == Spec => []TypeOK
<1>1. SettingsInv => TypeOK
  BY DEF SettingsInv
<1> QED BY <1>1, SettingsInvariant, PTL

(* No update is lost: writeImmediate() and promoteGenerationValidated()    *)
(* give every settings revision to exactly one receipt, and the document   *)
(* shows the last of them.                                                 *)
THEOREM UpdatesAreNumbered == Spec => []RevisionsFollowReceipts
<1>1. SettingsInv => RevisionsFollowReceipts
  BY DEF SettingsInv
<1> QED BY <1>1, SettingsInvariant, PTL

(* promoteGenerationValidated() is the only way an operation under way     *)
(* becomes a promoted one, and its call is permitted and vouched for.      *)
LEMMA OnlyPromoteSettles ==
    ASSUME SettingsInv, Next, NEW o \in Operations, Promotes(o)
    PROVE  \E c \in Calls : Promote(c) /\ call[c].op = o
<1>0. receipt \in [Operations -> ReceiptSet]
  BY Types DEF SettingsInv, Typed
<1>1. receipt[o] = NoReceipt /\ Unsettled(o) /\ receipt'[o].outcome = "promoted" /\ receipt' # receipt
  BY DEF Promotes, NoReceipt
<1>2. ASSUME NEW q \in Operations, NEW d \in Descriptors, NEW v \in Values, WriteImmediate(q, d, v)
      PROVE  FALSE
  <2>1. CASE q = o
    BY <1>1, <1>2, <2>1 DEF WriteImmediate
  <2>2. CASE q # o
    BY <1>0, <1>1, <1>2, <2>2 DEF WriteImmediate, Write, NoReceipt
  <2> QED BY <2>1, <2>2
<1>3. ASSUME NEW c \in Calls, Fail(c) PROVE FALSE
  <2>1. receipt \in [Operations -> ReceiptSet]
    BY Types DEF SettingsInv, Typed
  <2>2. \/ receipt'[o] = receipt[o]
        \/ receipt'[o].outcome \in {"promotion-invalidated", "validation-failed"}
    BY <1>3, <2>1 DEF Fail, NoReceipt
  <2> QED BY <1>1, <2>2 DEF NoReceipt
<1>4. PICK c \in Calls : Promote(c)
  BY <1>1, <1>2, <1>3 DEF Next, Proceed, Begin, Start, ReadAuthority, Reauthorize, Observe, Claim, Block,
        Validate, ReadDocument, Refused, Abort, LeaseEnds, ReviseAuthority, Activate, Update, Enable,
        GiveUp, Withdraw, Transition
<1>5. call[c].op = o
  BY <1>0, <1>1, <1>4 DEF Promote, Write, NoReceipt
<1> QED BY <1>4, <1>5

LEMMA PromotionIsCurrent ==
    ASSUME SettingsInv, NEW c \in Calls, Promote(c)
    PROVE  authority.allowed /\ vouched[call[c].op] # 0
<1>1. CallSound(call[c], authority, vouched)
  BY DEF SettingsInv, CallsSound
<1> QED BY <1>1 DEF Promote, MayPromote, Matches, Admitted, CallSound, ReadAuthorityOf, VouchedReady

(* What a call read before it awaited the validator does not outlive it:   *)
(* assertAuthority(), the revision of the row and the lease refuse what is *)
(* not permitted or not vouched for any more.                              *)
THEOREM SettingsPromotionsAreCurrent == Spec => PromotionsAreCurrent
<1>1. SettingsInv /\ [Next]_vars =>
        [\A o \in Operations : Promotes(o) => authority.allowed /\ vouched[o] # 0]_vars
  BY OnlyPromoteSettles, PromotionIsCurrent
<1> QED BY <1>1, SettingsInvariant, PTL DEF Spec, PromotionsAreCurrent

(* An idempotency key has one outcome: once an operation has its receipt,  *)
(* whichever call, write or crash comes next, it keeps it.                 *)
ReceiptsArePermanent ==
    [][\A o \in Operations : receipt[o] # NoReceipt => receipt'[o] = receipt[o]]_vars

(* A call that is late finds the receipt and returns it: begin, the writes *)
(* and the settlements all require that there is none yet.                 *)
THEOREM SettingsReceiptsArePermanent == Spec => ReceiptsArePermanent
<1>1. ASSUME SettingsInv, Next, NEW o \in Operations, receipt[o] # NoReceipt
      PROVE  receipt'[o] = receipt[o]
  <2>0. receipt \in [Operations -> ReceiptSet]
    BY <1>1, Types DEF SettingsInv, Typed
  <2>1. ASSUME NEW q \in Operations, NEW d \in Descriptors, NEW v \in Values, WriteImmediate(q, d, v)
        PROVE  receipt'[o] = receipt[o]
    BY <1>1, <2>0, <2>1 DEF WriteImmediate, Write
  <2>2. ASSUME NEW c \in Calls, Promote(c) \/ Fail(c) PROVE receipt'[o] = receipt[o]
    <3>1. call[c].op # o
      BY <1>1, <2>2, Caller DEF Promote, MayPromote, Fail, MayFail, Matches, SettingsInv, RowsAreUnreceipted
    <3> QED BY <2>0, <2>2, <3>1 DEF Promote, Fail, Write
  <2> QED BY <1>1, <2>1, <2>2 DEF Next, Proceed, Begin, Start, ReadAuthority, Reauthorize, Observe, Claim,
        Block, Validate, ReadDocument, Refused, Abort, LeaseEnds, ReviseAuthority, Activate, Update,
        Enable, GiveUp, Withdraw, Transition
<1>2. SettingsInv /\ [Next]_vars =>
        [\A o \in Operations : receipt[o] # NoReceipt => receipt'[o] = receipt[o]]_vars
  BY <1>1
<1> QED BY <1>2, SettingsInvariant, PTL DEF Spec, ReceiptsArePermanent
=============================================================================
