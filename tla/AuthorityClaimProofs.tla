------------------------ MODULE AuthorityClaimProofs ------------------------
(***************************************************************************)
(* For any kinds, reservations, activations, bindings, reasons and times:  *)
(* the fence row and the proof owner agree in every committed state and a  *)
(* proof outlives its decision until it is deleted, once the source is     *)
(* frozen its rows are the ones the seal covers, every committed row       *)
(* decodes, repeated calls are idempotent, no decision is a dead end,      *)
(* final outcomes are readable, and GetStoredFence answers as if its two   *)
(* statements were one.                                                    *)
(***************************************************************************)
EXTENDS AuthorityClaim, TLAPS

-----------------------------------------------------------------------------
(* The shapes of rows and transactions.                                    *)
Row(f) ==
    f = [profile |-> f.profile, activation |-> f.activation, reservation |-> f.reservation,
         reservedAt |-> f.reservedAt, status |-> f.status, binding |-> f.binding, boundAt |-> f.boundAt,
         reason |-> f.reason, claimedAt |-> f.claimedAt, receipt |-> f.receipt, terminalAt |-> f.terminalAt]

Shape(t) ==
    t.open /\ t = [open |-> t.open, fence |-> t.fence, owner |-> t.owner, shared |-> t.shared, dirty |-> t.dirty]

ClaimedFor(f, r, t) == [f EXCEPT !.reason = r, !.claimedAt = t]
WithFence(t, f, s, d) == [t EXCEPT !.fence = f, !.shared = s, !.dirty = d]
OwnerFields(w) == w = [phase |-> w.phase, group |-> w.group, binding |-> w.binding, proof |-> w.proof]
Committing(w, p, b) == [w EXCEPT !.phase = p, !.binding = b]
Proving(w, p, proof) == [w EXCEPT !.phase = p, !.proof = proof]
WithOwner(t, w, s) == [t EXCEPT !.owner = w, !.shared = s]

(* A row of version 7 obeys its constraints, and a committed one is bound, *)
(* which only the transition trigger sees to.                              *)
Lawful(f) ==
    /\ Row(f) /\ f.profile = "claim_v1" /\ RowCheck(f)
    /\ f.status \in {"reserved", "committed", "aborted"}
    /\ f.status = "committed" => BoundRow(f)

Sound(f) == f = NoFence \/ (Row(f) /\ f.profile = "legacy_v6") \/ Lawful(f)

OwnerShape(w) ==
    \/ w = NoOwner
    \/ /\ OwnerFields(w)
       /\ w.phase \in {"prepared", "commitment", "terminal"}

(* RowsAgree, of any two rows.                                             *)
Agree(f, w) ==
    f.profile = "claim_v1" =>
        /\ w.phase = "terminal" => f.status = "committed"
        /\ f.status = "committed" => w.phase = "terminal" \/ w = NoOwner
        /\ Claimed(f) => w = NoOwner
        /\ BoundRow(f) => IF w = NoOwner THEN f.status = "committed" ELSE w.binding = f.binding

Pair(f, w) == Sound(f) /\ OwnerShape(w) /\ (f = NoFence => w = NoOwner)

(* A transaction that changed no fence row needs no barrier: its rows      *)
(* agree already.                                                          *)
Transaction(t) ==
    /\ Shape(t) /\ t.shared \in BOOLEAN /\ t.dirty \in BOOLEAN
    /\ Pair(t.fence, t.owner)
    /\ t.dirty \/ Agree(t.fence, t.owner)

RowsInv ==
    /\ Pair(fence, owner) /\ Agree(fence, owner)
    /\ tx = NoTx \/ Transaction(tx)

(* The freeze lock: who has not taken it shared has written nothing, and   *)
(* nobody has it shared while the sealer has it or after it froze.         *)
SealInv ==
    /\ frozen \in BOOLEAN
    /\ tx # NoTx /\ ~tx.shared => tx.fence = fence /\ tx.owner = owner
    /\ sealer # "idle" \/ frozen => (tx # NoTx => ~tx.shared)
    /\ sealer # "idle" => ~frozen
    /\ sealer = "scanned" \/ frozen => sealed = <<fence, owner>>

IInv == RowsInv /\ SealInv

-----------------------------------------------------------------------------
(* What every repository call leaves: without a writing statement the row  *)
(* it found, with one a sound row; and only a first insert makes one.      *)
Result(f, a) ==
    /\ a.stmt \in BOOLEAN
    /\ ~a.stmt => a.row = f
    /\ Sound(a.row)
    /\ a.row = NoFence => f = NoFence
    /\ f = NoFence /\ a.row # NoFence => /\ a.row.status = "reserved"
                                         /\ ~Claimed(a.row) /\ ~BoundRow(a.row)

(* A call that keeps the row.                                              *)
LEMMA KeptRow ==
    ASSUME NEW f, Sound(f), NEW e, NEW s \in BOOLEAN
    PROVE  Result(f, [err |-> e, stmt |-> s, row |-> f])
BY Zenon DEF Result

(* An answer without a statement keeps the row.                            *)
LEMMA Answered == ASSUME NEW f, Sound(f), NEW e PROVE Result(f, Answer(e, f))
BY Zenon, KeptRow DEF Answer

(* An update the constraints and the trigger let pass leaves a sound row.  *)
LEMMA Updated ==
    ASSUME NEW f, Sound(f), f # NoFence, NEW new, NEW w, Row(new), new.profile = f.profile,
           new.status \in {"reserved", "committed", "aborted"},
           enforce_authority_fence_update(f, new, w) /\ new.status = "committed" => BoundRow(new)
    PROVE  Result(f, Update(f, new, w))
<1>1. CASE RowCheck(new) /\ enforce_authority_fence_update(f, new, w)
  <2>1. new.profile = "claim_v1"
    BY Zenon, <1>1 DEF enforce_authority_fence_update
  <2>2. Lawful(new)
    BY Zenon, <1>1, <2>1 DEF Lawful
  <2>3. new # NoFence
    BY <2>1 DEF NoFence, None
  <2>4. Update(f, new, w) = [err |-> "ok", stmt |-> TRUE, row |-> new]
    BY Zenon, <1>1 DEF Update
  <2> QED BY <2>2, <2>3, <2>4 DEF Result, Sound
<1>2. CASE ~(RowCheck(new) /\ enforce_authority_fence_update(f, new, w))
  <2>1. Update(f, new, w) = [err |-> "raise", stmt |-> TRUE, row |-> f]
    BY Zenon, <1>2 DEF Update
  <2> QED BY Zenon, <2>1, KeptRow
<1> QED BY Zenon, <1>1, <1>2

(* Changing some columns of a row leaves a row.                            *)
LEMMA ClaimedRow ==
    ASSUME NEW f, Row(f), NEW r, NEW t, NEW n, n = ClaimedFor(f, r, t)
    PROVE  Row(n) /\ n.profile = f.profile /\ n.status = f.status
BY Zenon DEF Row, ClaimedFor

(* A row that is bound stays a row of its profile and status.              *)
LEMMA BoundRowIsRow ==
    ASSUME NEW f, Row(f), NEW b, NEW t, NEW n, n = Binding(f, b, t)
    PROVE  Row(n) /\ n.profile = f.profile /\ n.status = f.status
BY Zenon DEF Row, Binding

(* A row that ends takes the status of the receipt, and keeps its binding  *)
(* and claim.                                                              *)
LEMMA TerminatedRow ==
    ASSUME NEW f, Row(f), NEW rc, NEW t, NEW n, n = Terminating(f, rc, t)
    PROVE  /\ Row(n) /\ n.profile = f.profile /\ n.status = rc.status
           /\ n.binding = f.binding /\ n.claimedAt = f.claimedAt
<1> DEFINE reason == IF rc.status = "aborted" THEN rc.reason ELSE f.reason
<1>1. n = [f EXCEPT !.status = rc.status, !.receipt = rc, !.terminalAt = t, !.reason = reason]
  BY Zenon DEF Terminating
<1> HIDE DEF reason
<1> QED BY Zenon, <1>1 DEF Row

(* A sound row that is there is a row.                                     *)
LEMMA SoundRow == ASSUME NEW f, Sound(f), f # NoFence PROVE Row(f)
BY Zenon DEF Sound, Lawful

-----------------------------------------------------------------------------
(* The repository calls.                                                   *)

(* A legacy insert is refused.                                             *)
LEMMA RecordPendingResult == ASSUME NEW f, Sound(f) PROVE Result(f, RecordPending(f))
BY Zenon, KeptRow DEF RecordPending

(* The first insert makes a reserved row; a repetition keeps it.           *)
LEMMA RecordPendingClaimResult ==
    ASSUME NEW f, Sound(f), NEW k, NEW act, NEW v, NEW t \in Times
    PROVE  Result(f, RecordPendingClaimV1(k, f, act, v, t))
<1>1. CASE k \notin ClaimKinds \/ act \notin Released
  BY Zenon, <1>1, KeptRow DEF RecordPendingClaimV1
<1>2. CASE ~(k \notin ClaimKinds \/ act \notin Released) /\ f = NoFence
  <2> DEFINE new == NewRow("claim_v1", act, v, t)
  <2>1. RecordPendingClaimV1(k, f, act, v, t) = [err |-> "ok", stmt |-> TRUE, row |-> new]
    BY Zenon, <1>2 DEF RecordPendingClaimV1
  <2>2. /\ Row(new) /\ new.profile = "claim_v1" /\ new.status = "reserved" /\ new.binding = None
        /\ new.claimedAt = NoTime /\ new.reason = None /\ new.terminalAt = NoTime
    BY Zenon DEF NewRow, Row
  <2> HIDE DEF new
  <2>3. ~Claimed(new) /\ ~BoundRow(new) /\ ~TerminalRow(new)
    BY Zenon, <2>2 DEF Claimed, BoundRow, TerminalRow
  <2>4. Lawful(new)
    BY Zenon, <2>2 DEF Lawful, RowCheck, Claimed, BoundRow, TerminalRow
  <2> QED BY <1>2, <2>1, <2>2, <2>3, <2>4 DEF Result, Sound
<1>3. CASE ~(k \notin ClaimKinds \/ act \notin Released) /\ f # NoFence
  <2>1. \E e : RecordPendingClaimV1(k, f, act, v, t) = [err |-> e, stmt |-> TRUE, row |-> f]
    BY Zenon, <1>3 DEF RecordPendingClaimV1
  <2> QED BY Zenon, <2>1, KeptRow
<1> QED BY Zenon, <1>1, <1>2, <1>3

(* Whatever a call answers without writing, and an update that keeps       *)
(* status and profile, leave a sound row.                                  *)
LEMMA ClaimAbortResult ==
    ASSUME NEW f, Sound(f), NEW w, NEW r, NEW t PROVE Result(f, ClaimAbort(f, w, r, t))
<1> DEFINE new == ClaimedFor(f, r, t)
<1>1. \/ \E e : ClaimAbort(f, w, r, t) = Answer(e, f)
      \/ f # NoFence /\ ClaimAbort(f, w, r, t) = Update(f, new, w)
  BY Zenon DEF ClaimAbort, ClaimedFor
<1>2. ASSUME f # NoFence PROVE Result(f, Update(f, new, w))
  <2>1. Row(new) /\ new.profile = f.profile /\ new.status = f.status
    BY <1>2, SoundRow, ClaimedRow
  <2> HIDE DEF new
  <2>2. CASE f.status \in {"reserved", "committed", "aborted"}
    <3>1. enforce_authority_fence_update(f, new, w) => new.status # "committed"
      BY Zenon, <2>1 DEF enforce_authority_fence_update, TerminalRow
    <3> QED BY Zenon, <1>2, <2>1, <2>2, <3>1, Updated
  <2>3. CASE f.status \notin {"reserved", "committed", "aborted"}
    <3>1. ~enforce_authority_fence_update(f, new, w)
      BY Zenon, <2>3 DEF enforce_authority_fence_update, TerminalRow
    <3> QED BY Zenon, <3>1, KeptRow DEF Update
  <2> QED BY Zenon, <2>2, <2>3
<1> QED BY Zenon, <1>1, <1>2, Answered

(* The same of BindEffect.                                                 *)
LEMMA BindEffectResult ==
    ASSUME NEW f, Sound(f), NEW w, NEW b, NEW t PROVE Result(f, BindEffect(f, w, b, t))
<1> DEFINE new == Binding(f, b, t)
<1>1. \/ \E e : BindEffect(f, w, b, t) = Answer(e, f)
      \/ f # NoFence /\ BindEffect(f, w, b, t) = Update(f, new, w)
  BY Zenon DEF BindEffect
<1>2. ASSUME f # NoFence PROVE Result(f, Update(f, new, w))
  <2>1. Row(new) /\ new.profile = f.profile /\ new.status = f.status
    BY <1>2, SoundRow, BoundRowIsRow
  <2> HIDE DEF new
  <2>2. CASE f.status \in {"reserved", "committed", "aborted"}
    <3>1. enforce_authority_fence_update(f, new, w) => new.status # "committed"
      BY Zenon, <2>1 DEF enforce_authority_fence_update, TerminalRow
    <3> QED BY Zenon, <1>2, <2>1, <2>2, <3>1, Updated
  <2>3. CASE f.status \notin {"reserved", "committed", "aborted"}
    <3>1. ~enforce_authority_fence_update(f, new, w)
      BY Zenon, <2>3 DEF enforce_authority_fence_update, TerminalRow
    <3> QED BY Zenon, <3>1, KeptRow DEF Update
  <2> QED BY Zenon, <2>2, <2>3
<1> QED BY Zenon, <1>1, <1>2, Answered

(* An ending update: the trigger lets only a bound row become committed.   *)
LEMMA Terminated ==
    ASSUME NEW f, Sound(f), f # NoFence, NEW w, NEW rc, rc.status \in {"committed", "aborted"}, NEW t
    PROVE  Result(f, Update(f, Terminating(f, rc, t), w))
<1> DEFINE new == Terminating(f, rc, t)
<1>1. /\ Row(new) /\ new.profile = f.profile /\ new.status = rc.status
      /\ new.binding = f.binding /\ new.claimedAt = f.claimedAt
  BY SoundRow, TerminatedRow
<1> HIDE DEF new
<1>2. enforce_authority_fence_update(f, new, w) /\ new.status = "committed" => BoundRow(new)
  BY Zenon, <1>1 DEF enforce_authority_fence_update, BoundRow, Claimed
<1> QED BY Zenon, <1>1, <1>2, Updated DEF new

(* A call with a committed receipt.                                        *)
LEMMA ActivateCommittedResult ==
    ASSUME NEW f, Sound(f), NEW w, NEW rc \in CommittedReceipts, NEW t
    PROVE  Result(f, ActivateCommitted(f, w, rc, t))
<1>1. rc.status = "committed"
  BY DEF CommittedReceipts, Receipt
<1>2. \/ \E e : ActivateCommitted(f, w, rc, t) = Answer(e, f)
      \/ f # NoFence /\ ActivateCommitted(f, w, rc, t) = Update(f, Terminating(f, rc, t), w)
  BY Zenon DEF ActivateCommitted
<1> QED BY <1>1, <1>2, Answered, Terminated

(* A call with an aborted receipt.                                         *)
LEMMA RecordAbortedResult ==
    ASSUME NEW f, Sound(f), NEW w, NEW rc \in AbortedReceipts, NEW t
    PROVE  Result(f, RecordAborted(f, w, rc, t))
<1>1. rc.status = "aborted"
  BY DEF AbortedReceipts, Receipt
<1>2. \/ \E e : RecordAborted(f, w, rc, t) = Answer(e, f)
      \/ f # NoFence /\ RecordAborted(f, w, rc, t) = Update(f, Terminating(f, rc, t), w)
  BY Zenon DEF RecordAborted
<1> QED BY <1>1, <1>2, Answered, Terminated

-----------------------------------------------------------------------------
(* Transactions.                                                           *)

(* The rows a call works on, in an open transaction or a new one.          *)
LEMMA DraftIsSound ==
    ASSUME IInv
    PROVE  /\ Transaction(Draft)
           /\ ~Draft.shared => Draft.fence = fence /\ Draft.owner = owner
           /\ Draft.shared => tx # NoTx /\ tx.shared
<1>1. CASE tx = NoTx
  <2>1. Draft = [open |-> TRUE, fence |-> fence, owner |-> owner, shared |-> FALSE, dirty |-> FALSE]
    BY Zenon, <1>1 DEF Draft, NoTx
  <2>2. /\ Shape(Draft) /\ Draft.shared = FALSE /\ Draft.dirty = FALSE
        /\ Draft.fence = fence /\ Draft.owner = owner
    BY Zenon, <2>1 DEF Shape
  <2> QED BY Zenon, <2>2 DEF IInv, RowsInv, Transaction
<1>2. CASE tx # NoTx
  <2>1. Transaction(tx) /\ tx.open
    BY Zenon, <1>2 DEF IInv, RowsInv, Transaction, Shape
  <2>2. Draft = tx
    BY Zenon, <2>1 DEF Draft
  <2> QED BY Zenon, <1>2, <2>1, <2>2 DEF IInv, SealInv
<1> QED BY Zenon, <1>1, <1>2

(* What a call and a write of the owner make of a transaction.             *)
LEMMA FenceChanged ==
    ASSUME NEW t, Shape(t), NEW f, NEW s, NEW d, NEW n, n = WithFence(t, f, s, d)
    PROVE  Shape(n) /\ n.fence = f /\ n.owner = t.owner /\ n.shared = s /\ n.dirty = d
BY Zenon DEF Shape, WithFence

(* The owner's part of it.                                                 *)
LEMMA OwnerChanged ==
    ASSUME NEW t, Shape(t), NEW w, NEW s, NEW n, n = WithOwner(t, w, s)
    PROVE  Shape(n) /\ n.fence = t.fence /\ n.owner = w /\ n.shared = s /\ n.dirty = t.dirty
BY Zenon DEF Shape, WithOwner

(* A call keeps the invariant, whatever it answers.                        *)
LEMMA CallStep ==
    ASSUME IInv, NEW a, Result(Draft.fence, a), Call(a)
    PROVE  IInv'
<1>1. UNCHANGED <<fence, owner, frozen, sealer, sealed>>
  BY Zenon DEF Call
<1>2. CASE tx' = NoTx
  BY Zenon, <1>1, <1>2 DEF IInv, RowsInv, SealInv
<1>3. CASE tx' # NoTx
  <2> DEFINE moved == Draft.fence # NoFence /\ a.row # Draft.fence
             next == WithFence(Draft, a.row, Draft.shared \/ a.stmt, Draft.dirty \/ moved)
  <2>1. tx' = next /\ (a.stmt => ~frozen /\ (Draft.shared \/ sealer = "idle"))
    BY Zenon, <1>3 DEF Call, MayWrite, WithFence
  <2>2. Transaction(Draft)
    BY Zenon, DraftIsSound
  <2>3. /\ Shape(next) /\ next.fence = a.row /\ next.owner = Draft.owner
        /\ next.shared = (Draft.shared \/ a.stmt) /\ next.dirty = (Draft.dirty \/ moved)
    BY <2>2, FenceChanged DEF Transaction
  <2>4. moved \in BOOLEAN /\ a.stmt \in BOOLEAN /\ Draft.shared \in BOOLEAN /\ Draft.dirty \in BOOLEAN
    BY Zenon, <2>2 DEF Result, Transaction
  <2> HIDE DEF next
  <2>5. Pair(a.row, Draft.owner)
    BY Zenon, <2>2 DEF Transaction, Pair, Result
  <2>6. ~Draft.dirty /\ ~moved => Agree(a.row, Draft.owner)
    <3>1. CASE a.row = Draft.fence
      BY Zenon, <2>2, <3>1 DEF Transaction
    <3>2. CASE Draft.fence = NoFence /\ a.row # NoFence
      <4>1. Draft.owner = NoOwner
        BY Zenon, <2>2, <3>2 DEF Transaction, Pair
      <4>2. a.row.status = "reserved" /\ ~Claimed(a.row) /\ ~BoundRow(a.row)
        BY Zenon, <3>2 DEF Result
      <4>3. Draft.owner.phase # "terminal"
        BY <4>1 DEF NoOwner, None
      <4> QED BY Zenon, <4>2, <4>3 DEF Agree
    <3> QED BY Zenon, <3>1, <3>2
  <2>7. Transaction(next)
    BY Zenon, <2>3, <2>4, <2>5, <2>6 DEF Transaction
  <2>8. RowsInv'
    BY Zenon, <1>1, <2>1, <2>7 DEF IInv, RowsInv
  <2>9. ~next.shared => next.fence = fence /\ next.owner = owner
    BY Zenon, <2>3, DraftIsSound DEF Result
  <2>10. sealer # "idle" \/ frozen => ~next.shared
    <3>1. sealer # "idle" \/ frozen => ~Draft.shared
      BY Zenon, DraftIsSound DEF IInv, SealInv
    <3> QED BY Zenon, <2>1, <2>3, <2>4, <3>1
  <2>11. SealInv'
    BY Zenon, <1>1, <2>1, <2>9, <2>10 DEF IInv, SealInv
  <2> QED BY Zenon, <2>8, <2>11 DEF IInv
<1> QED BY Zenon, <1>2, <1>3

(* A write of the owner that keeps the rows in agreement, or is left to    *)
(* the barrier, keeps the invariant.                                       *)
LEMMA OwnerStep ==
    ASSUME IInv, NEW w, OwnerWrite(w), OwnerShape(w), Draft.dirty \/ Agree(Draft.fence, w)
    PROVE  IInv'
<1> DEFINE yes == TRUE
           next == WithOwner(Draft, w, yes)
<1>1. /\ UNCHANGED <<fence, owner, frozen, sealer, sealed>> /\ tx' = next /\ ~frozen
      /\ Draft.shared \/ sealer = "idle"
      /\ Draft.fence.profile = "claim_v1"
  BY Zenon DEF OwnerWrite, MayWrite, WithOwner
<1>2. Transaction(Draft)
  BY Zenon, DraftIsSound
<1>3. /\ Shape(next) /\ next.fence = Draft.fence /\ next.owner = w /\ next.shared = TRUE
      /\ next.dirty = Draft.dirty
  <2> HIDE DEF yes
  <2>1. /\ Shape(next) /\ next.fence = Draft.fence /\ next.owner = w /\ next.shared = yes
        /\ next.dirty = Draft.dirty
    BY <1>2, OwnerChanged DEF Transaction
  <2> QED BY Zenon, <2>1 DEF yes
<1> HIDE DEF next
<1>4. Pair(Draft.fence, w)
  BY <1>1, <1>2 DEF Transaction, Pair, NoFence, None
<1>5. Transaction(next)
  BY Zenon, <1>2, <1>3, <1>4 DEF Transaction
<1>6. sealer = "idle"
  BY Zenon, <1>1, DraftIsSound DEF IInv, SealInv
<1>7. RowsInv'
  BY Zenon, <1>1, <1>5 DEF IInv, RowsInv
<1>8. SealInv'
  BY Zenon, <1>1, <1>3, <1>6 DEF IInv, SealInv
<1> QED BY Zenon, <1>7, <1>8 DEF IInv

(* The moves of an owner keep its columns.                                 *)
LEMMA OwnerMoved ==
    ASSUME NEW w, OwnerFields(w), NEW p, NEW x, NEW n, n = Committing(w, p, x) \/ n = Proving(w, p, x)
    PROVE  OwnerFields(n) /\ n.phase = p
<1>1. CASE n = Committing(w, p, x)
  BY Zenon, <1>1 DEF OwnerFields, Committing
<1>2. CASE n = Proving(w, p, x)
  BY Zenon, <1>2 DEF OwnerFields, Proving
<1> QED BY Zenon, <1>1, <1>2

(* Preparing and committing an owner needs a fence that is neither bound,  *)
(* claimed nor ended; ending it needs a commit made in this transaction;   *)
(* deleting it needs a committed fence.                                    *)
LEMMA OwnerSteps ==
    ASSUME IInv, \/ \E g \in DOMAIN ExpectedKinds, b \in Bindings : PrepareOwner(g, b)
                 \/ \E b \in Bindings : CommitOwner(b)
                 \/ \E p \in Proofs : TerminateOwner(p)
                 \/ DeleteOwner
    PROVE  IInv'
<1>1. Transaction(Draft)
  BY Zenon, DraftIsSound
<1>2. ASSUME NEW g \in DOMAIN ExpectedKinds, NEW b \in Bindings, PrepareOwner(g, b) PROVE IInv'
  <2> DEFINE phase == IF g \in DomainPreparable THEN "prepared" ELSE "commitment"
             bound == IF g \in DomainPreparable THEN None ELSE b
             w == [phase |-> phase, group |-> g, binding |-> bound, proof |-> None]
  <2>1. /\ OwnerWrite(w)
        /\ ~TerminalRow(Draft.fence) /\ ~BoundRow(Draft.fence) /\ ~Claimed(Draft.fence)
    BY Zenon, <1>2 DEF PrepareOwner
  <2>2. OwnerFields(w)
    BY Zenon DEF OwnerFields
  <2>3. w.phase \in {"prepared", "commitment"}
    BY Zenon
  <2> HIDE DEF w
  <2>4. OwnerShape(w) /\ Agree(Draft.fence, w)
    BY Zenon, <2>1, <2>2, <2>3 DEF OwnerShape, Agree, TerminalRow
  <2> QED BY Zenon, <2>1, <2>4, OwnerStep
<1>3. ASSUME NEW b \in Bindings, CommitOwner(b) PROVE IInv'
  <2> DEFINE w == Committing(Draft.owner, "commitment", b)
  <2>1. /\ OwnerWrite(w) /\ Draft.owner.phase = "prepared"
        /\ ~TerminalRow(Draft.fence) /\ ~BoundRow(Draft.fence) /\ ~Claimed(Draft.fence)
    BY Zenon, <1>3 DEF CommitOwner, Committing
  <2>2. OwnerShape(Draft.owner) /\ Draft.owner # NoOwner
    BY <1>1, <2>1 DEF Transaction, Pair, NoOwner, None
  <2>3. OwnerFields(w) /\ w.phase = "commitment"
    BY <2>2, OwnerMoved DEF OwnerShape
  <2> HIDE DEF w
  <2>4. OwnerShape(w) /\ Agree(Draft.fence, w)
    BY Zenon, <2>1, <2>3 DEF OwnerShape, Agree, TerminalRow
  <2> QED BY Zenon, <2>1, <2>4, OwnerStep
<1>4. ASSUME NEW p \in Proofs, TerminateOwner(p) PROVE IInv'
  <2> DEFINE w == Proving(Draft.owner, "terminal", p)
  <2>1. /\ OwnerWrite(w) /\ Draft.owner.phase = "commitment" /\ Draft.fence.status = "committed"
        /\ Draft.fence.profile = "claim_v1"
    BY Zenon, <1>4 DEF TerminateOwner, OwnerWrite, Proving
  <2>2. OwnerShape(Draft.owner) /\ Draft.owner # NoOwner
    BY <1>1, <2>1 DEF Transaction, Pair, NoOwner, None
  <2>3. OwnerFields(w) /\ w.phase = "terminal"
    BY <2>2, OwnerMoved DEF OwnerShape
  <2> HIDE DEF w
  <2>4. OwnerShape(w)
    BY Zenon, <2>3 DEF OwnerShape
  <2>5. Draft.dirty
    BY Zenon, <1>1, <2>1, <2>2 DEF Transaction, Agree
  <2> QED BY Zenon, <2>1, <2>4, <2>5, OwnerStep
<1>5. CASE DeleteOwner
  <2>1. OwnerWrite(NoOwner) /\ Draft.fence.status = "committed" /\ Draft.fence.profile = "claim_v1"
    BY Zenon, <1>5 DEF DeleteOwner, OwnerWrite
  <2>2. NoOwner.phase # "terminal"
    BY Zenon DEF NoOwner, None
  <2>3. OwnerShape(NoOwner) /\ Agree(Draft.fence, NoOwner)
    BY Zenon, <2>1, <2>2 DEF OwnerShape, Agree
  <2> QED BY Zenon, <2>1, <2>3, OwnerStep
<1> QED BY Zenon, <1>2, <1>3, <1>4, <1>5

(* The deferred barrier lets only rows that agree be committed.            *)
LEMMA BarrierAgrees ==
    ASSUME NEW f, Sound(f), NEW w, OwnerShape(w), NEW k, v7_assert_activation_barrier(f, w, k)
    PROVE  Agree(f, w)
<1> SUFFICES ASSUME f.profile = "claim_v1" PROVE Agree(f, w)
  BY Zenon DEF Agree
<1>1. Lawful(f)
  BY DEF Sound, NoFence, None
<1>2. NoOwner.phase # "terminal"
  BY Zenon DEF NoOwner, None
<1>3. CASE f.status = "committed"
  <2>1. w.phase = "terminal" /\ w.binding = f.binding
    BY Zenon, <1>3 DEF v7_assert_activation_barrier, TerminalRow
  <2>2. BoundRow(f) /\ ~Claimed(f)
    BY Zenon, <1>1, <1>3 DEF Lawful, RowCheck
  <2> QED BY Zenon, <1>2, <1>3, <2>1, <2>2 DEF Agree
<1>4. CASE f.status = "aborted"
  <2>1. w = NoOwner
    BY Zenon, <1>4 DEF v7_assert_activation_barrier, TerminalRow
  <2>2. ~BoundRow(f)
    BY Zenon, <1>1, <1>4 DEF Lawful, RowCheck
  <2> QED BY Zenon, <1>2, <1>4, <2>1, <2>2 DEF Agree
<1>5. CASE f.status = "reserved" /\ BoundRow(f)
  <2>1. ~Claimed(f)
    BY Zenon, <1>1, <1>5 DEF Lawful, RowCheck
  <2>2. w.phase = "commitment" /\ w.binding = f.binding
    BY Zenon, <1>5, <2>1 DEF v7_assert_activation_barrier, TerminalRow, CommitmentOnly
  <2>3. w # NoOwner
    BY <2>2 DEF NoOwner, None
  <2> QED BY Zenon, <1>5, <2>1, <2>2, <2>3 DEF Agree
<1>6. CASE f.status = "reserved" /\ ~BoundRow(f) /\ Claimed(f)
  <2>1. w = NoOwner
    BY Zenon, <1>6 DEF v7_assert_activation_barrier, TerminalRow
  <2> QED BY Zenon, <1>2, <1>6, <2>1 DEF Agree
<1>7. CASE f.status = "reserved" /\ ~BoundRow(f) /\ ~Claimed(f)
  <2>1. w = NoOwner \/ w.phase = "prepared"
    BY Zenon, <1>7 DEF v7_assert_activation_barrier, TerminalRow
  <2> QED BY Zenon, <1>2, <1>7, <2>1 DEF Agree
<1> QED BY Zenon, <1>1, <1>3, <1>4, <1>5, <1>6, <1>7 DEF Lawful

(* A commit: without a shared lock it changes nothing, with one no sealer  *)
(* is at work and the source is not frozen.                                *)
LEMMA CommitStep == ASSUME IInv, Commit PROVE IInv'
<1>1. /\ tx.open /\ fence' = tx.fence /\ owner' = tx.owner /\ tx' = NoTx
      /\ UNCHANGED <<frozen, sealer, sealed>>
  BY Zenon DEF Commit
<1>2. tx # NoTx /\ Transaction(tx)
  BY <1>1 DEF NoTx, IInv, RowsInv
<1>3. Agree(tx.fence, tx.owner)
  <2>1. CASE tx.dirty
    <3>1. v7_assert_activation_barrier(tx.fence, tx.owner, kind)
      BY Zenon, <2>1 DEF Commit
    <3> QED BY Zenon, <1>2, <3>1, BarrierAgrees DEF Transaction, Pair
  <2>2. CASE ~tx.dirty
    BY Zenon, <1>2, <2>2 DEF Transaction
  <2> QED BY Zenon, <2>1, <2>2
<1>4. RowsInv'
  BY Zenon, <1>1, <1>2, <1>3 DEF RowsInv, Transaction
<1>5. sealer # "idle" \/ frozen => fence' = fence /\ owner' = owner
  BY Zenon, <1>1, <1>2 DEF IInv, SealInv
<1>6. SealInv'
  BY Zenon, <1>1, <1>5 DEF IInv, SealInv
<1> QED BY Zenon, <1>4, <1>6 DEF IInv

(* Every step keeps the invariant.                                         *)
LEMMA StepInv == IInv /\ [Next]_vars => IInv'
<1> SUFFICES ASSUME IInv, [Next]_vars PROVE IInv'
  BY Zenon
<1>1. Sound(Draft.fence)
  BY Zenon, DraftIsSound DEF Transaction, Pair
<1>2. CASE CallRecordPending
  BY Zenon, <1>1, <1>2, RecordPendingResult, CallStep DEF CallRecordPending
<1>3. CASE CallRecordPendingClaimV1
  BY Zenon, <1>1, <1>3, RecordPendingClaimResult, CallStep DEF CallRecordPendingClaimV1
<1>4. CASE CallClaimAbort
  BY Zenon, <1>1, <1>4, ClaimAbortResult, CallStep DEF CallClaimAbort
<1>5. CASE CallBindEffect
  BY <1>1, <1>5, BindEffectResult, CallStep DEF CallBindEffect
<1>6. CASE CallActivateCommitted
  BY Zenon, <1>1, <1>6, ActivateCommittedResult, CallStep DEF CallActivateCommitted
<1>7. CASE CallRecordAborted
  BY <1>1, <1>7, RecordAbortedResult, CallStep DEF CallRecordAborted
<1>8. CASE \/ \E g \in DOMAIN ExpectedKinds, b \in Bindings : PrepareOwner(g, b)
           \/ \E b \in Bindings : CommitOwner(b)
           \/ \E p \in Proofs : TerminateOwner(p)
           \/ DeleteOwner
  BY Zenon, <1>8, OwnerSteps
<1>9. CASE Commit
  BY Zenon, <1>9, CommitStep
<1>10. CASE Rollback
  BY Zenon, <1>10 DEF Rollback, IInv, RowsInv, SealInv
<1>11. CASE AcquireFreeze
  <2>1. tx # NoTx => tx.open
    BY Zenon DEF IInv, RowsInv, Transaction, Shape
  <2> QED BY Zenon, <1>11, <2>1 DEF AcquireFreeze, IInv, RowsInv, SealInv
<1>12. CASE SealWork
  BY Zenon, <1>12 DEF SealWork, IInv, RowsInv, SealInv
<1>13. CASE SealCommit
  BY Zenon, <1>13 DEF SealCommit, IInv, RowsInv, SealInv
<1>14. CASE SealFail
  BY Zenon, <1>14 DEF SealFail, IInv, RowsInv, SealInv
<1>15. CASE ReadFence \/ ReadOutcome \/ ReadReturn \/ UNCHANGED vars
  BY <1>15 DEF ReadFence, ReadOutcome, ReadReturn, vars, IInv, RowsInv, SealInv
<1> QED BY Zenon, <1>2, <1>3, <1>4, <1>5, <1>6, <1>7, <1>8, <1>9, <1>10, <1>11, <1>12, <1>13, <1>14, <1>15 DEF Next

(* The rows the migration found are rows of version 6.                     *)
LEMMA InitInv == Init => IInv
<1> SUFFICES ASSUME Init PROVE IInv
  BY Zenon
<1>1. \A v, t : LET f == NewRow("legacy_v6", None, v, t) IN Row(f) /\ f.profile = "legacy_v6"
  BY Zenon DEF NewRow, Row
<1>2. fence = NoFence \/ (Row(fence) /\ fence.profile = "legacy_v6")
  <2>1. CASE fence \in LegacyRows
    BY <1>1, <2>1, BoundRowIsRow, TerminatedRow DEF LegacyRows
  <2> QED BY Zenon, <2>1 DEF Init
<1>3. Pair(fence, owner) /\ Agree(fence, owner)
  BY <1>2 DEF Init, Pair, Sound, OwnerShape, Agree, NoFence, None
<1> QED BY Zenon, <1>3 DEF Init, IInv, RowsInv, SealInv

-----------------------------------------------------------------------------
(* Once AuthorityV7SourceSealer has frozen the source, the committed rows  *)
(* are those its scan saw: no transaction that was open before it, and no  *)
(* later one, writes behind the seal.                                      *)
THEOREM SealsCoverTheSource == Spec => []SealCoversSource
<1>1. IInv => SealCoversSource
  BY Zenon DEF IInv, SealInv, SealCoversSource
<1> QED BY <1>1, InitInv, StepInv, PTL DEF Spec
-----------------------------------------------------------------------------
(* What the columns of a version 7 row hold.                               *)
Columns(f) ==
    /\ f.activation \in Released /\ f.reservation \in Reservations /\ f.reservedAt \in Times
    /\ f.binding \in Bindings \cup {None} /\ f.boundAt \in Times \cup {NoTime}
    /\ f.reason \in Reasons \cup {None} /\ f.claimedAt \in Times \cup {NoTime}
    /\ BoundRow(f) => f.boundAt # NoTime
    /\ ~TerminalRow(f) => f.receipt = NoReceipt /\ f.terminalAt = NoTime
    /\ TerminalRow(f) => /\ f.terminalAt \in Times
                         /\ f.receipt \in CommittedReceipts \cup AbortedReceipts
                         /\ f.receipt.status = f.status

Modern(f) == Lawful(f) /\ Columns(f)
Known(f) == f = NoFence \/ (f \in LegacyRows /\ Row(f) /\ f.profile = "legacy_v6") \/ Modern(f)

RecordOf(f) == [ok |-> TRUE, reservation |-> f.reservation, binding |-> f.binding, receipt |-> f.receipt]
ClaimOf(f) == IF Claimed(f) THEN [reason |-> f.reason, claimedAt |-> f.claimedAt] ELSE NoClaim

(* The fields of a decoded record.                                         *)
LEMMA RecordFields ==
    ASSUME NEW f
    PROVE  /\ RecordOf(f).ok /\ RecordOf(f).reservation = f.reservation
           /\ RecordOf(f).binding = f.binding /\ RecordOf(f).receipt = f.receipt
BY Zenon DEF RecordOf

(* A row that is not waiting for its abort decodes as it is.               *)
LEMMA Decoded ==
    ASSUME NEW f, Modern(f), TerminalRow(f) \/ ~Claimed(f)
    PROVE  authorityRecordFromRow(f) = RecordOf(f)
<1>1. /\ Columns(f) /\ RowCheck(f)
      /\ f.status \in {"reserved", "committed", "aborted"}
      /\ f.status = "committed" => BoundRow(f)
  BY Zenon DEF Modern, Lawful
<1>2. ~(BoundRow(f) /\ f.boundAt < f.reservedAt)
  <2>1. ASSUME BoundRow(f) PROVE f.boundAt \in Nat /\ f.reservedAt \in Nat
    BY Zenon, <1>1, <2>1, ClaimConstants DEF Columns
  <2> QED BY <1>1, <2>1 DEF RowCheck
<1>3. ~(~TerminalRow(f) /\ (f.reason # None \/ f.terminalAt # NoTime \/ f.receipt # NoReceipt))
  BY Zenon, <1>1 DEF Columns, RowCheck
<1>4. ~(TerminalRow(f) /\ f.terminalAt < f.reservedAt)
  <2>1. ASSUME TerminalRow(f) PROVE f.terminalAt \in Nat \ {0} /\ f.reservedAt \in Nat
    BY Zenon, <1>1, <2>1, ClaimConstants DEF Columns
  <2> QED BY <1>1, <2>1 DEF RowCheck, NoTime
<1>5. ~(f.status = "committed" /\ (~BoundRow(f) \/ f.reason # None))
  BY Zenon, <1>1 DEF RowCheck
<1>6. ~(f.status = "aborted" /\ f.reason = None)
  BY Zenon, <1>1 DEF RowCheck
<1> QED BY <1>2, <1>3, <1>4, <1>5, <1>6, Zenon DEF authorityRecordFromRow, RecordOf

(* A row that waits for its abort decodes once its reason is taken out.    *)
LEMMA DecodedWaiting ==
    ASSUME NEW f, Modern(f), ~TerminalRow(f), NEW base, base = [f EXCEPT !.reason = None]
    PROVE  authorityRecordFromRow(base) = RecordOf(f)
<1>1. /\ Columns(f) /\ RowCheck(f) /\ Row(f) /\ f.status = "reserved"
  BY Zenon DEF Modern, Lawful, TerminalRow
<1>2. /\ base.reservation = f.reservation /\ base.binding = f.binding /\ base.receipt = f.receipt
      /\ base.status = f.status /\ base.boundAt = f.boundAt /\ base.reservedAt = f.reservedAt
      /\ base.terminalAt = f.terminalAt /\ base.reason = None
  BY Zenon, <1>1 DEF Row
<1>3. ~(BoundRow(base) /\ base.boundAt < base.reservedAt)
  BY <1>1, <1>2, ClaimConstants DEF Columns, RowCheck, NoTime, BoundRow
<1>4. ~(~TerminalRow(base) /\ (base.reason # None \/ base.terminalAt # NoTime \/ base.receipt # NoReceipt))
  BY Zenon, <1>1, <1>2 DEF Columns, TerminalRow
<1>5. ~TerminalRow(base) /\ base.status # "committed" /\ base.status # "aborted"
  BY Zenon, <1>1, <1>2 DEF TerminalRow
<1>6. authorityRecordFromRow(base) = RecordOf(base)
  BY <1>3, <1>4, <1>5, Zenon DEF authorityRecordFromRow, RecordOf
<1> QED BY Zenon, <1>2, <1>6 DEF RecordOf

(* storedFenceFromV7Row decodes every row of version 7.                    *)
StoredOf(f) == [ok |-> TRUE, record |-> RecordOf(f), claim |-> ClaimOf(f)]

(* The fields of a decoded fence.                                          *)
LEMMA StoredFields ==
    ASSUME NEW f
    PROVE  StoredOf(f).ok /\ StoredOf(f).record = RecordOf(f) /\ StoredOf(f).claim = ClaimOf(f)
BY Zenon DEF StoredOf

(* Every row of version 7 decodes, with the claim that is on it.           *)
LEMMA Stored == ASSUME NEW f, Modern(f) PROVE storedFenceFromV7Row(f) = StoredOf(f)
<1> DEFINE base == IF Claimed(f) /\ ~TerminalRow(f) THEN [f EXCEPT !.reason = None] ELSE f
<1>1. f.profile = "claim_v1" /\ RowCheck(f) /\ Columns(f)
  BY Zenon DEF Modern, Lawful
<1>2. ~(f.profile = "legacy_v6" /\ (Claimed(f) \/ f.activation # None))
  BY Zenon, <1>1
<1>3. ~(f.profile = "claim_v1" /\ \/ f.activation = None
                                  \/ Claimed(f) # (f.reason # None)
                                  \/ Claimed(f) /\ BoundRow(f))
  BY Zenon, <1>1, ClaimConstants, ClaimValues DEF RowCheck, Columns
<1>4. authorityRecordFromRow(base) = RecordOf(f)
  BY Zenon, Decoded, DecodedWaiting
<1> HIDE DEF base
<1>5. RecordOf(f).ok
  BY Zenon, RecordFields
<1> QED BY <1>2, <1>3, <1>4, <1>5, Zenon DEF storedFenceFromV7Row, StoredOf, ClaimOf, base

-----------------------------------------------------------------------------
(* The columns a call leaves alone, and those it sets.                     *)
LEMMA BindingColumns ==
    ASSUME NEW f, Row(f), NEW b, NEW t, NEW n, n = Binding(f, b, t)
    PROVE  /\ n.profile = f.profile /\ n.activation = f.activation /\ n.reservation = f.reservation
           /\ n.reservedAt = f.reservedAt /\ n.status = f.status /\ n.binding = b /\ n.boundAt = t
           /\ n.reason = f.reason /\ n.claimedAt = f.claimedAt /\ n.receipt = f.receipt
           /\ n.terminalAt = f.terminalAt
BY Zenon DEF Row, Binding

(* The same of a claim.                                                    *)
LEMMA ClaimedColumns ==
    ASSUME NEW f, Row(f), NEW r, NEW t, NEW n, n = ClaimedFor(f, r, t)
    PROVE  /\ n.profile = f.profile /\ n.activation = f.activation /\ n.reservation = f.reservation
           /\ n.reservedAt = f.reservedAt /\ n.status = f.status /\ n.binding = f.binding
           /\ n.boundAt = f.boundAt /\ n.reason = r /\ n.claimedAt = t /\ n.receipt = f.receipt
           /\ n.terminalAt = f.terminalAt
BY Zenon DEF Row, ClaimedFor

(* The same of a receipt.                                                  *)
LEMMA TerminatingColumns ==
    ASSUME NEW f, Row(f), NEW rc, NEW t, NEW n, n = Terminating(f, rc, t)
    PROVE  /\ n.profile = f.profile /\ n.activation = f.activation /\ n.reservation = f.reservation
           /\ n.reservedAt = f.reservedAt /\ n.status = rc.status /\ n.binding = f.binding
           /\ n.boundAt = f.boundAt /\ n.claimedAt = f.claimedAt /\ n.receipt = rc
           /\ n.terminalAt = t
           /\ n.reason = IF rc.status = "aborted" THEN rc.reason ELSE f.reason
<1> DEFINE reason == IF rc.status = "aborted" THEN rc.reason ELSE f.reason
<1>1. n = [f EXCEPT !.status = rc.status, !.receipt = rc, !.terminalAt = t, !.reason = reason]
  BY Zenon DEF Terminating
<1> HIDE DEF reason
<1>2. /\ n.profile = f.profile /\ n.activation = f.activation /\ n.reservation = f.reservation
      /\ n.reservedAt = f.reservedAt /\ n.status = rc.status /\ n.binding = f.binding
      /\ n.boundAt = f.boundAt /\ n.claimedAt = f.claimedAt /\ n.receipt = rc
      /\ n.terminalAt = t /\ n.reason = reason
  BY Zenon, <1>1 DEF Row
<1> QED BY Zenon, <1>2 DEF reason

(* A receipt's fields.                                                     *)
LEMMA ReceiptFields ==
    ASSUME NEW v, NEW s, NEW b, NEW r, NEW rc, rc = Receipt(v, s, b, r)
    PROVE  rc.reservation = v /\ rc.status = s /\ rc.binding = b /\ rc.reason = r
BY Zenon DEF Receipt

(* No receipt has the status of one.                                       *)
LEMMA Receipts ==
    /\ NoReceipt.status = None
    /\ \A rc \in CommittedReceipts : /\ rc.status = "committed" /\ rc # NoReceipt
                                     /\ rc.reservation \in Reservations /\ rc.binding \in Bindings
    /\ \A rc \in AbortedReceipts : /\ rc.status = "aborted" /\ rc # NoReceipt
                                   /\ rc.reservation \in Reservations /\ rc.reason \in Reasons
<1>1. NoReceipt.status = None
  BY Zenon DEF NoReceipt, Receipt
<1>2. ASSUME NEW rc \in CommittedReceipts
      PROVE  rc.status = "committed" /\ rc.reservation \in Reservations /\ rc.binding \in Bindings
  BY ReceiptFields DEF CommittedReceipts
<1>3. ASSUME NEW rc \in AbortedReceipts
      PROVE  rc.status = "aborted" /\ rc.reservation \in Reservations /\ rc.reason \in Reasons
  BY ReceiptFields DEF AbortedReceipts
<1> QED BY Zenon, <1>1, <1>2, <1>3 DEF None

(* The rows the migration found decode: nothing is claimed on them, and    *)
(* their times are in order.                                               *)
LEMMA LegacyDecodes == ASSUME NEW f \in LegacyRows PROVE storedFenceFromV7Row(f).ok
<1> DEFINE v == CHOOSE v \in Reservations : TRUE
           r == CHOOSE r \in Reasons : TRUE
           b == CHOOSE b \in Bindings : TRUE
           t == CHOOSE t \in Times : TRUE
           reserved == NewRow("legacy_v6", None, v, t)
           bound == Binding(reserved, b, t)
           yes == Receipt(v, "committed", b, None)
           no == Receipt(v, "aborted", None, r)
           late == Receipt(v, "aborted", b, r)
<1>0. r # None /\ b # None /\ t \in Nat \ {0}
  BY Zenon, ClaimConstants, ClaimValues
<1>1. f \in {reserved, bound, Terminating(bound, yes, t), Terminating(reserved, no, t),
             Terminating(bound, late, t)}
  BY Zenon DEF LegacyRows
<1>2. /\ Row(reserved) /\ reserved.profile = "legacy_v6" /\ reserved.activation = None
      /\ reserved.reservedAt = t /\ reserved.status = "reserved" /\ reserved.binding = None
      /\ reserved.reason = None /\ reserved.claimedAt = NoTime /\ reserved.receipt = NoReceipt
      /\ reserved.terminalAt = NoTime
  BY SMTT(60) DEF NewRow, Row
<1>3. /\ yes.status = "committed" /\ no.status = "aborted" /\ late.status = "aborted"
      /\ no.reason = r /\ late.reason = r
  BY ReceiptFields
<1> HIDE DEF v, r, b, t, reserved, yes, no, late
<1>4. /\ Row(bound) /\ bound.profile = "legacy_v6" /\ bound.activation = None
      /\ bound.reservedAt = t /\ bound.status = "reserved" /\ bound.binding = b /\ bound.boundAt = t
      /\ bound.reason = None /\ bound.claimedAt = NoTime /\ bound.receipt = NoReceipt
      /\ bound.terminalAt = NoTime
  BY <1>2, BindingColumns, BoundRowIsRow
<1> HIDE DEF bound
<1>5. /\ f.profile = "legacy_v6" /\ f.activation = None /\ ~Claimed(f)
      /\ f.reservedAt = t /\ (BoundRow(f) => f.boundAt = t)
      /\ \/ ~TerminalRow(f) /\ f.reason = None /\ f.terminalAt = NoTime /\ f.receipt = NoReceipt
         \/ f.status = "committed" /\ BoundRow(f) /\ f.reason = None /\ f.terminalAt = t
         \/ f.status = "aborted" /\ f.reason # None /\ f.terminalAt = t
  <2>1. CASE f = reserved
    BY Zenon, <1>2, <2>1 DEF Claimed, BoundRow, TerminalRow
  <2>2. CASE f = bound
    BY Zenon, <1>4, <2>2 DEF Claimed, BoundRow, TerminalRow
  <2>3. CASE f = Terminating(bound, yes, t)
    BY <1>0, <1>3, <1>4, <2>3, TerminatingColumns DEF Claimed, BoundRow, TerminalRow
  <2>4. CASE f = Terminating(reserved, no, t)
    BY <1>0, <1>2, <1>3, <2>4, TerminatingColumns DEF Claimed, BoundRow, TerminalRow
  <2>5. CASE f = Terminating(bound, late, t)
    BY <1>0, <1>3, <1>4, <2>5, TerminatingColumns DEF Claimed, BoundRow, TerminalRow
  <2> QED BY Zenon, <1>1, <2>1, <2>2, <2>3, <2>4, <2>5
<1>6. authorityRecordFromRow(f).ok
  <2>1. ~(BoundRow(f) /\ f.boundAt < f.reservedAt) /\ ~(TerminalRow(f) /\ f.terminalAt < f.reservedAt)
    BY <1>0, <1>5
  <2>2. /\ ~(~TerminalRow(f) /\ (f.reason # None \/ f.terminalAt # NoTime \/ f.receipt # NoReceipt))
        /\ ~(f.status = "committed" /\ (~BoundRow(f) \/ f.reason # None))
        /\ ~(f.status = "aborted" /\ f.reason = None)
    BY Zenon, <1>5 DEF TerminalRow
  <2>3. authorityRecordFromRow(f) = RecordOf(f)
    BY <2>1, <2>2, Zenon DEF authorityRecordFromRow, RecordOf
  <2> QED BY Zenon, <2>3, RecordFields
<1>7. storedFenceFromV7Row(f) = [ok |-> TRUE, record |-> authorityRecordFromRow(f), claim |-> NoClaim]
  BY <1>5, <1>6, Zenon DEF storedFenceFromV7Row
<1>8. [ok |-> TRUE, record |-> authorityRecordFromRow(f), claim |-> NoClaim].ok
  BY Zenon
<1> QED BY Zenon, <1>7, <1>8

-----------------------------------------------------------------------------
(* What the calls do to the columns.                                       *)

(* An update is refused, or the constraints and the trigger let it pass.   *)
LEMMA UpdateCases ==
    ASSUME NEW f, NEW new, NEW w
    PROVE  \/ Update(f, new, w).row = f /\ Update(f, new, w).err = "raise"
           \/ /\ Update(f, new, w).row = new /\ Update(f, new, w).err = "ok"
              /\ RowCheck(new) /\ enforce_authority_fence_update(f, new, w)
<1>1. CASE RowCheck(new) /\ enforce_authority_fence_update(f, new, w)
  <2>1. Update(f, new, w) = [err |-> "ok", stmt |-> TRUE, row |-> new]
    BY Zenon, <1>1 DEF Update
  <2> QED BY <1>1, <2>1
<1>2. CASE ~(RowCheck(new) /\ enforce_authority_fence_update(f, new, w))
  <2>1. Update(f, new, w) = [err |-> "raise", stmt |-> TRUE, row |-> f]
    BY Zenon, <1>2 DEF Update
  <2> QED BY <2>1
<1> QED BY Zenon, <1>1, <1>2

(* Only a reserved row of version 7 is updated.                            *)
LEMMA UpdatedIsModern ==
    ASSUME NEW f, Known(f), NEW new, NEW w, enforce_authority_fence_update(f, new, w)
    PROVE  Modern(f) /\ f.status = "reserved" /\ Row(f) /\ f # NoFence
<1>1. f.profile = "claim_v1" /\ f.status = "reserved"
  BY Zenon DEF enforce_authority_fence_update, TerminalRow
<1> QED BY <1>1 DEF Known, NoFence, None, Modern, Lawful

(* A claim that passes leaves a row whose columns are in order.            *)
LEMMA ClaimIsModern ==
    ASSUME NEW f, Known(f), NEW r \in Reasons, NEW t \in Times, NEW w, NEW n, n = ClaimedFor(f, r, t),
           RowCheck(n), enforce_authority_fence_update(f, n, w)
    PROVE  Modern(n)
<1>1. Modern(f) /\ f.status = "reserved" /\ Row(f)
  BY Zenon, UpdatedIsModern
<1>2. Row(n)
  BY Zenon, <1>1, ClaimedRow
<1>3. /\ n.profile = f.profile /\ n.activation = f.activation /\ n.reservation = f.reservation
      /\ n.reservedAt = f.reservedAt /\ n.status = f.status /\ n.binding = f.binding
      /\ n.boundAt = f.boundAt /\ n.reason = r /\ n.claimedAt = t /\ n.receipt = f.receipt
      /\ n.terminalAt = f.terminalAt
  BY <1>1, ClaimedColumns
<1>4. Lawful(n)
  BY Zenon, <1>1, <1>2, <1>3 DEF Lawful, Modern
<1>5. Columns(n)
  BY Zenon, <1>1, <1>3 DEF Columns, Modern, BoundRow, TerminalRow
<1> QED BY Zenon, <1>4, <1>5 DEF Modern

(* So does a binding.                                                      *)
LEMMA BindingIsModern ==
    ASSUME NEW f, Known(f), NEW b \in Bindings, NEW t \in Times, NEW w, NEW n, n = Binding(f, b, t),
           RowCheck(n), enforce_authority_fence_update(f, n, w)
    PROVE  Modern(n)
<1>1. Modern(f) /\ f.status = "reserved" /\ Row(f)
  BY Zenon, UpdatedIsModern
<1>2. Row(n)
  BY Zenon, <1>1, BoundRowIsRow
<1>3. /\ n.profile = f.profile /\ n.activation = f.activation /\ n.reservation = f.reservation
      /\ n.reservedAt = f.reservedAt /\ n.status = f.status /\ n.binding = b
      /\ n.boundAt = t /\ n.reason = f.reason /\ n.claimedAt = f.claimedAt /\ n.receipt = f.receipt
      /\ n.terminalAt = f.terminalAt
  BY <1>1, BindingColumns
<1>4. Lawful(n)
  BY Zenon, <1>1, <1>2, <1>3 DEF Lawful, Modern
<1>5. Columns(n)
  BY Zenon, <1>1, <1>3, ClaimConstants DEF Columns, Modern, BoundRow, TerminalRow, NoTime
<1> QED BY Zenon, <1>4, <1>5 DEF Modern

(* So does a receipt; a committed row was bound, an aborted one claimed.   *)
LEMMA EndIsModern ==
    ASSUME NEW f, Known(f), NEW rc \in CommittedReceipts \cup AbortedReceipts, NEW t \in Times, NEW w,
           NEW n, n = Terminating(f, rc, t), RowCheck(n), enforce_authority_fence_update(f, n, w),
           rc.status = "aborted" /\ Claimed(f) => rc.reason = f.reason
    PROVE  /\ Modern(n)
           /\ n.status = "committed" => BoundRow(f) /\ CommitmentOnly(w, f.binding)
           /\ n.status = "aborted" => Claimed(f) /\ w = NoOwner
<1>1. Modern(f) /\ f.status = "reserved" /\ Row(f)
  BY Zenon, UpdatedIsModern
<1>2. Row(n)
  BY Zenon, <1>1, TerminatedRow
<1>3. /\ n.profile = f.profile /\ n.activation = f.activation /\ n.reservation = f.reservation
      /\ n.reservedAt = f.reservedAt /\ n.status = rc.status /\ n.binding = f.binding
      /\ n.boundAt = f.boundAt /\ n.claimedAt = f.claimedAt /\ n.receipt = rc
      /\ n.terminalAt = t /\ n.reason = IF rc.status = "aborted" THEN rc.reason ELSE f.reason
  BY <1>1, TerminatingColumns
<1>4. rc.status \in {"committed", "aborted"} /\ (rc.status = "aborted" => rc.reason \in Reasons)
  BY Zenon, Receipts
<1>5. /\ n.status = "committed" => BoundRow(f) /\ CommitmentOnly(w, f.binding)
      /\ n.status = "aborted" => Claimed(f) /\ w = NoOwner
  BY Zenon, <1>3 DEF enforce_authority_fence_update, BoundRow, Claimed
<1>6. Lawful(n)
  BY Zenon, <1>1, <1>2, <1>3, <1>4, <1>5 DEF Lawful, Modern, BoundRow
<1>7. Columns(n)
  BY Zenon, <1>1, <1>3, <1>4 DEF Columns, Modern, BoundRow, TerminalRow
<1> QED BY Zenon, <1>5, <1>6, <1>7 DEF Modern

(* A first insert.                                                         *)
LEMMA NewIsModern ==
    ASSUME NEW act \in Released, NEW v \in Reservations, NEW t \in Times, NEW n,
           n = NewRow("claim_v1", act, v, t)
    PROVE  /\ Modern(n) /\ n.activation = act /\ n.reservation = v /\ n.reservedAt = t
           /\ n.status = "reserved" /\ ~Claimed(n) /\ ~BoundRow(n)
<1>1. /\ Row(n) /\ n.profile = "claim_v1" /\ n.activation = act /\ n.reservation = v /\ n.reservedAt = t
      /\ n.status = "reserved" /\ n.binding = None /\ n.boundAt = NoTime /\ n.reason = None
      /\ n.claimedAt = NoTime /\ n.receipt = NoReceipt /\ n.terminalAt = NoTime
  BY Zenon DEF NewRow, Row
<1>2. ~Claimed(n) /\ ~BoundRow(n) /\ ~TerminalRow(n)
  BY Zenon, <1>1 DEF Claimed, BoundRow, TerminalRow
<1>3. Lawful(n)
  BY Zenon, <1>1, <1>2 DEF Lawful, RowCheck, Claimed, BoundRow, TerminalRow
<1>4. Columns(n)
  BY <1>1, <1>2, Zenon DEF Columns
<1> QED BY Zenon, <1>1, <1>2, <1>3, <1>4 DEF Modern

(* Every call leaves the row it found, or one that passed; which.          *)
LEMMA PendingCases ==
    ASSUME NEW k, NEW f, NEW act, NEW v, NEW t
    PROVE  LET a == RecordPendingClaimV1(k, f, act, v, t) IN
           \/ a.row = f
           \/ /\ f = NoFence /\ k \in ClaimKinds /\ act \in Released
              /\ a.row = NewRow("claim_v1", act, v, t)
<1>1. CASE k \notin ClaimKinds \/ act \notin Released
  <2>1. RecordPendingClaimV1(k, f, act, v, t) = [err |-> "raise", stmt |-> TRUE, row |-> f]
    BY Zenon, <1>1 DEF RecordPendingClaimV1
  <2> QED BY <2>1
<1>2. CASE ~(k \notin ClaimKinds \/ act \notin Released) /\ f = NoFence
  <2>1. RecordPendingClaimV1(k, f, act, v, t) = [err |-> "ok", stmt |-> TRUE, row |-> NewRow("claim_v1", act, v, t)]
    BY Zenon, <1>2 DEF RecordPendingClaimV1
  <2> QED BY <1>2, <2>1
<1>3. CASE ~(k \notin ClaimKinds \/ act \notin Released) /\ f # NoFence
  <2>1. \E e : RecordPendingClaimV1(k, f, act, v, t) = [err |-> e, stmt |-> TRUE, row |-> f]
    BY Zenon, <1>3 DEF RecordPendingClaimV1
  <2> QED BY <2>1
<1> QED BY Zenon, <1>1, <1>2, <1>3

(* An answer keeps the row.                                                *)
LEMMA AnswerRow == ASSUME NEW e, NEW f PROVE Answer(e, f).row = f /\ Answer(e, f).err = e
BY Zenon DEF Answer

(* A claim.                                                                *)
LEMMA ClaimCases ==
    ASSUME NEW f, NEW w, NEW r, NEW t
    PROVE  LET a == ClaimAbort(f, w, r, t)
               n == ClaimedFor(f, r, t)
           IN  \/ a.row = f
               \/ f # NoFence /\ a.row = n /\ RowCheck(n) /\ enforce_authority_fence_update(f, n, w)
<1>1. \/ \E e : ClaimAbort(f, w, r, t) = Answer(e, f)
      \/ f # NoFence /\ ClaimAbort(f, w, r, t) = Update(f, ClaimedFor(f, r, t), w)
  BY Zenon DEF ClaimAbort, ClaimedFor
<1> QED BY <1>1, AnswerRow, UpdateCases

(* A binding.                                                              *)
LEMMA BindCases ==
    ASSUME NEW f, NEW w, NEW b, NEW t
    PROVE  LET a == BindEffect(f, w, b, t)
               n == Binding(f, b, t)
           IN  \/ a.row = f
               \/ f # NoFence /\ a.row = n /\ RowCheck(n) /\ enforce_authority_fence_update(f, n, w)
<1>1. \/ \E e : BindEffect(f, w, b, t) = Answer(e, f)
      \/ f # NoFence /\ BindEffect(f, w, b, t) = Update(f, Binding(f, b, t), w)
  BY Zenon DEF BindEffect
<1> QED BY <1>1, AnswerRow, UpdateCases

(* A commit names the row's reservation.                                   *)
LEMMA CommitCases ==
    ASSUME NEW f, Known(f), NEW w, NEW rc \in CommittedReceipts, NEW t
    PROVE  LET a == ActivateCommitted(f, w, rc, t)
               n == Terminating(f, rc, t)
           IN  \/ a.row = f
               \/ /\ f # NoFence /\ a.row = n /\ RowCheck(n) /\ enforce_authority_fence_update(f, n, w)
                  /\ f.reservation = rc.reservation
<1> DEFINE n == Terminating(f, rc, t)
<1>1. \/ \E e : ActivateCommitted(f, w, rc, t) = Answer(e, f)
      \/ /\ f # NoFence /\ ActivateCommitted(f, w, rc, t) = Update(f, n, w)
         /\ ~(f.status = "reserved" /\ f.reason # None)
         /\ authorityRecordFromRow(f).reservation = rc.reservation
  BY Zenon DEF ActivateCommitted
<1>2. ASSUME enforce_authority_fence_update(f, n, w), ~(f.status = "reserved" /\ f.reason # None),
             authorityRecordFromRow(f).reservation = rc.reservation
      PROVE  f.reservation = rc.reservation
  <2>1. Modern(f) /\ f.status = "reserved"
    BY Zenon, <1>2, UpdatedIsModern
  <2>2. ~Claimed(f)
    BY Zenon, <1>2, <2>1 DEF Modern, Lawful, RowCheck
  <2> QED BY Zenon, <1>2, <2>1, <2>2, Decoded, RecordFields
<1> HIDE DEF n
<1>3. ASSUME f # NoFence, ActivateCommitted(f, w, rc, t) = Update(f, n, w),
             ~(f.status = "reserved" /\ f.reason # None),
             authorityRecordFromRow(f).reservation = rc.reservation
      PROVE  \/ ActivateCommitted(f, w, rc, t).row = f
             \/ /\ ActivateCommitted(f, w, rc, t).row = n /\ RowCheck(n)
                /\ enforce_authority_fence_update(f, n, w) /\ f.reservation = rc.reservation
  BY <1>2, <1>3, UpdateCases
<1> QED BY <1>1, <1>3, AnswerRow DEF n

(* An abort names the row's reservation, and the reason that was claimed.  *)
LEMMA AbortCases ==
    ASSUME NEW f, Known(f), NEW w, NEW rc \in AbortedReceipts, NEW t
    PROVE  LET a == RecordAborted(f, w, rc, t)
               n == Terminating(f, rc, t)
           IN  \/ a.row = f
               \/ /\ f # NoFence /\ a.row = n /\ RowCheck(n) /\ enforce_authority_fence_update(f, n, w)
                  /\ f.reservation = rc.reservation /\ (Claimed(f) => rc.reason = f.reason)
<1> DEFINE n == Terminating(f, rc, t)
           waiting == f.status = "reserved" /\ f.reason # None
           base == IF waiting THEN [f EXCEPT !.reason = None] ELSE f
<1>1. \/ \E e : RecordAborted(f, w, rc, t) = Answer(e, f)
      \/ /\ f # NoFence /\ RecordAborted(f, w, rc, t) = Update(f, n, w)
         /\ waiting => rc.reason = f.reason
         /\ authorityRecordFromRow(base).reservation = rc.reservation
  BY Zenon DEF RecordAborted
<1>2. ASSUME enforce_authority_fence_update(f, n, w), waiting => rc.reason = f.reason,
             authorityRecordFromRow(base).reservation = rc.reservation
      PROVE  f.reservation = rc.reservation /\ (Claimed(f) => rc.reason = f.reason)
  <2>1. Modern(f) /\ f.status = "reserved" /\ ~TerminalRow(f)
    BY Zenon, <1>2, UpdatedIsModern DEF TerminalRow
  <2>2. Claimed(f) <=> waiting
    BY Zenon, <2>1 DEF Modern, Lawful, RowCheck
  <2>3. authorityRecordFromRow(base) = RecordOf(f)
    BY Zenon, <2>1, <2>2, Decoded, DecodedWaiting
  <2> QED BY Zenon, <1>2, <2>2, <2>3, RecordFields
<1> HIDE DEF n, waiting, base
<1>3. ASSUME f # NoFence, RecordAborted(f, w, rc, t) = Update(f, n, w), waiting => rc.reason = f.reason,
             authorityRecordFromRow(base).reservation = rc.reservation
      PROVE  \/ RecordAborted(f, w, rc, t).row = f
             \/ /\ RecordAborted(f, w, rc, t).row = n /\ RowCheck(n)
                /\ enforce_authority_fence_update(f, n, w) /\ f.reservation = rc.reservation
                /\ (Claimed(f) => rc.reason = f.reason)
  BY <1>2, <1>3, UpdateCases
<1> QED BY <1>1, <1>3, AnswerRow DEF n

-----------------------------------------------------------------------------
(* A call that succeeded, made again, finds what it left and says so.      *)

(* The claim on a row, read back.                                          *)
LEMMA ClaimFields ==
    ASSUME NEW f
    PROVE  /\ Claimed(f) => ClaimOf(f) # NoClaim /\ ClaimOf(f) = [reason |-> f.reason, claimedAt |-> f.claimedAt]
           /\ ~Claimed(f) => ClaimOf(f) = NoClaim
BY Zenon DEF ClaimOf, NoClaim, Claimed, NoTime

(* RecordPendingClaimV1.                                                   *)
LEMMA RetryPending ==
    ASSUME NEW k, NEW f, NEW act, NEW v \in Reservations, NEW t \in Times,
           RecordPendingClaimV1(k, f, act, v, t).err = "ok"
    PROVE  LET row == RecordPendingClaimV1(k, f, act, v, t).row
               again == RecordPendingClaimV1(k, row, act, v, t)
           IN  again.err = "ok" /\ again.row = row
<1> DEFINE row == RecordPendingClaimV1(k, f, act, v, t).row
<1>1. CASE row = f
  BY Zenon, <1>1
<1>2. CASE k \in ClaimKinds /\ act \in Released /\ row = NewRow("claim_v1", act, v, t)
  <2> HIDE DEF row
  <2>1. Modern(row) /\ row.activation = act /\ row.reservation = v /\ row.reservedAt = t /\ ~Claimed(row)
    BY <1>2, NewIsModern
  <2>2. row.profile = "claim_v1" /\ row # NoFence
    BY <2>1 DEF Modern, Lawful, NoFence, None
  <2> DEFINE stored == storedFenceFromV7Row(row)
  <2>3. stored.ok /\ stored.claim = NoClaim /\ stored.record.reservation = v
    BY <2>1, Stored, StoredFields, RecordFields, ClaimFields
  <2> DEFINE fits == /\ stored.claim = NoClaim /\ row.reservedAt = t
                     /\ row.profile = "claim_v1" /\ row.activation = act
                     /\ stored.record.reservation = v
  <2>4. RecordPendingClaimV1(k, row, act, v, t)
          = [err |-> CASE ~stored.ok -> "failure" [] stored.ok /\ fits -> "ok" [] OTHER -> "conflict",
             stmt |-> TRUE, row |-> row]
    BY <1>2, <2>2, Zenon DEF RecordPendingClaimV1
  <2>5. stored.ok /\ fits
    BY Zenon, <2>1, <2>2, <2>3
  <2> HIDE DEF fits, stored
  <2>6. RecordPendingClaimV1(k, row, act, v, t) = [err |-> "ok", stmt |-> TRUE, row |-> row]
    BY Zenon, <2>4, <2>5
  <2> QED BY <2>6 DEF row
<1> QED BY <1>1, <1>2, PendingCases

(* ClaimAbort.                                                             *)
LEMMA RetryClaim ==
    ASSUME NEW f, Known(f), NEW w, NEW r \in Reasons, NEW t \in Times, ClaimAbort(f, w, r, t).err = "ok"
    PROVE  LET row == ClaimAbort(f, w, r, t).row
               again == ClaimAbort(row, w, r, t)
           IN  again.err = "ok" /\ again.row = row
<1> DEFINE row == ClaimAbort(f, w, r, t).row
<1>1. CASE row = f
  BY Zenon, <1>1
<1>2. CASE /\ f # NoFence /\ row = ClaimedFor(f, r, t) /\ RowCheck(row)
           /\ enforce_authority_fence_update(f, row, w)
  <2> HIDE DEF row
  <2>1. Modern(row)
    BY Zenon, <1>2, ClaimIsModern
  <2>2. Modern(f) /\ f.status = "reserved" /\ Row(f)
    BY Zenon, <1>2, UpdatedIsModern
  <2>3. row.reason = r /\ row.claimedAt = t /\ row.status = "reserved"
    BY <1>2, <2>2, ClaimedColumns
  <2>4. Claimed(row) /\ ~TerminalRow(row) /\ ~BoundRow(row)
    BY Zenon, <1>2, <2>3, ClaimConstants DEF Claimed, TerminalRow, NoTime, RowCheck
  <2>5. row.profile = "claim_v1" /\ row # NoFence /\ row.binding = None /\ row.receipt = NoReceipt
    BY <2>1, <2>4 DEF Modern, Lawful, NoFence, None, BoundRow, Columns
  <2> DEFINE stored == storedFenceFromV7Row(row)
  <2>6. /\ stored.ok /\ stored.claim # NoClaim /\ stored.claim = [reason |-> r, claimedAt |-> t]
        /\ stored.record.receipt = NoReceipt /\ stored.record.binding = None
    BY <2>1, <2>3, <2>4, <2>5, Stored, StoredFields, RecordFields, ClaimFields, SMTT(60)
  <2>7. ClaimAbort(row, w, r, t) = Answer("ok", row)
    BY <2>5, <2>6, Zenon DEF ClaimAbort
  <2> QED BY <2>7, AnswerRow DEF row
<1> QED BY <1>1, <1>2, ClaimCases

(* BindEffect.                                                             *)
LEMMA RetryBind ==
    ASSUME NEW f, Known(f), NEW w, NEW b \in Bindings, NEW t \in Times, BindEffect(f, w, b, t).err = "ok"
    PROVE  LET row == BindEffect(f, w, b, t).row
               again == BindEffect(row, w, b, t)
           IN  again.err = "ok" /\ again.row = row
<1> DEFINE row == BindEffect(f, w, b, t).row
<1>1. CASE row = f
  BY Zenon, <1>1
<1>2. CASE /\ f # NoFence /\ row = Binding(f, b, t) /\ RowCheck(row)
           /\ enforce_authority_fence_update(f, row, w)
  <2> HIDE DEF row
  <2>1. Modern(row)
    BY Zenon, <1>2, BindingIsModern
  <2>2. Modern(f) /\ f.status = "reserved" /\ Row(f)
    BY Zenon, <1>2, UpdatedIsModern
  <2>3. row.binding = b /\ row.boundAt = t /\ row.status = "reserved"
    BY <1>2, <2>2, BindingColumns
  <2>4. BoundRow(row) /\ ~TerminalRow(row) /\ ~Claimed(row) /\ row.reason = None
    BY Zenon, <1>2, <2>3, ClaimValues DEF BoundRow, TerminalRow, RowCheck
  <2>5. row # NoFence /\ row.receipt = NoReceipt
    BY <2>1, <2>4 DEF Modern, Lawful, NoFence, None, Columns
  <2> DEFINE rec == authorityRecordFromRow(row)
  <2>6. rec.ok /\ rec.binding = b /\ rec.receipt = NoReceipt
    BY Zenon, <2>1, <2>3, <2>4, <2>5, Decoded, RecordFields
  <2>7. rec.receipt.status # "aborted" /\ rec.binding # None
    BY Zenon, <2>6, Receipts, ClaimValues DEF None
  <2>8. BindEffect(row, w, b, t) = Answer("ok", row)
    BY <2>3, <2>4, <2>5, <2>6, <2>7, Zenon DEF BindEffect
  <2> QED BY <2>8, AnswerRow DEF row
<1> QED BY <1>1, <1>2, BindCases

(* ActivateCommitted.                                                      *)
LEMMA RetryCommit ==
    ASSUME NEW f, Known(f), NEW w, NEW rc \in CommittedReceipts, NEW t \in Times,
           ActivateCommitted(f, w, rc, t).err = "ok"
    PROVE  LET row == ActivateCommitted(f, w, rc, t).row
               again == ActivateCommitted(row, w, rc, t)
           IN  again.err = "ok" /\ again.row = row
<1> DEFINE row == ActivateCommitted(f, w, rc, t).row
<1>1. CASE row = f
  BY Zenon, <1>1
<1>2. CASE /\ f # NoFence /\ row = Terminating(f, rc, t) /\ RowCheck(row)
           /\ enforce_authority_fence_update(f, row, w) /\ f.reservation = rc.reservation
  <2> HIDE DEF row
  <2>0. rc.status = "committed" /\ rc # NoReceipt
    BY Zenon, Receipts
  <2>1. Modern(row)
    BY Zenon, <1>2, <2>0, EndIsModern
  <2>2. Modern(f) /\ f.status = "reserved" /\ Row(f)
    BY Zenon, <1>2, UpdatedIsModern
  <2>3. row.status = "committed" /\ row.receipt = rc /\ row.terminalAt = t /\ row.reservation = rc.reservation
    BY <1>2, <2>0, <2>2, TerminatingColumns
  <2>4. TerminalRow(row) /\ row # NoFence
    BY <2>1, <2>3 DEF TerminalRow, Modern, Lawful, NoFence, None
  <2> DEFINE rec == authorityRecordFromRow(row)
  <2>5. rec.ok /\ rec.reservation = rc.reservation /\ rec.receipt = rc
    BY Zenon, <2>1, <2>3, <2>4, Decoded, RecordFields
  <2>6. rec.receipt.status # "aborted" /\ rec.receipt # NoReceipt /\ row.status # "reserved"
    BY Zenon, <2>0, <2>3, <2>5
  <2>7. ActivateCommitted(row, w, rc, t) = Answer("ok", row)
    BY <2>3, <2>4, <2>5, <2>6, Zenon DEF ActivateCommitted
  <2> QED BY <2>7, AnswerRow DEF row
<1> QED BY <1>1, <1>2, CommitCases, SMTT(60)

(* RecordAborted.                                                          *)
LEMMA RetryAbort ==
    ASSUME NEW f, Known(f), NEW w, NEW rc \in AbortedReceipts, NEW t \in Times,
           RecordAborted(f, w, rc, t).err = "ok"
    PROVE  LET row == RecordAborted(f, w, rc, t).row
               again == RecordAborted(row, w, rc, t)
           IN  again.err = "ok" /\ again.row = row
<1> DEFINE row == RecordAborted(f, w, rc, t).row
<1>1. CASE row = f
  BY Zenon, <1>1
<1>2. CASE /\ f # NoFence /\ row = Terminating(f, rc, t) /\ RowCheck(row)
           /\ enforce_authority_fence_update(f, row, w) /\ f.reservation = rc.reservation
           /\ (Claimed(f) => rc.reason = f.reason)
  <2> HIDE DEF row
  <2>0. rc.status = "aborted" /\ rc # NoReceipt
    BY Zenon, Receipts
  <2>1. Modern(row)
    BY Zenon, <1>2, <2>0, EndIsModern
  <2>2. Modern(f) /\ f.status = "reserved" /\ Row(f)
    BY Zenon, <1>2, UpdatedIsModern
  <2>3. row.status = "aborted" /\ row.receipt = rc /\ row.terminalAt = t /\ row.reservation = rc.reservation
    BY <1>2, <2>0, <2>2, TerminatingColumns
  <2>4. TerminalRow(row) /\ row # NoFence /\ row.status # "reserved"
    BY <2>1, <2>3 DEF TerminalRow, Modern, Lawful, NoFence, None
  <2> DEFINE waiting == row.status = "reserved" /\ row.reason # None
             rec == authorityRecordFromRow(IF waiting THEN [row EXCEPT !.reason = None] ELSE row)
  <2>5. rec.ok /\ rec.reservation = rc.reservation /\ rec.receipt = rc
    <3>1. rec = RecordOf(row)
      BY Zenon, <2>1, <2>4, Decoded
    <3> QED BY Zenon, <2>3, <3>1, RecordFields
  <2>6. rec.receipt.status # "committed" /\ rec.receipt # NoReceipt /\ ~waiting
    BY Zenon, <2>0, <2>4, <2>5
  <2>7. RecordAborted(row, w, rc, t) = Answer("ok", row)
    BY <2>3, <2>4, <2>5, <2>6, Zenon DEF RecordAborted
  <2> QED BY <2>7, AnswerRow DEF row
<1> QED BY <1>1, <1>2, AbortCases, SMTT(60)

-----------------------------------------------------------------------------
(* The invariant of the data: the rows are known ones, an owner serves the *)
(* operation's kind, a bound fence has a commitment beside it, and a row   *)
(* that has ended stays in every transaction as it is, with the owner it   *)
(* has or without one.                                                     *)
Serves(f, w) ==
    w # NoOwner => /\ f.profile = "claim_v1"
                   /\ w.group \in DOMAIN ExpectedKinds /\ kind \in ExpectedKinds[w.group]

Ready(f, w) == f.profile = "claim_v1" /\ BoundRow(f) => w.phase # "prepared"

Asked(f) == f.profile = "claim_v1" => kind \in ClaimKinds

(* When a transaction may have deleted the owner that is there: the fence  *)
(* was committed before, or it became so in the transaction, which then    *)
(* cannot pass the barrier.                                                *)
Deleted ==
    /\ fence.profile = "claim_v1" /\ fence.status = "committed"
    /\ owner.phase = "terminal" /\ owner.group \in Retained

Undone(f) == f.profile = "claim_v1" /\ f.status = "committed"

Working(t) ==
    /\ Known(t.fence) /\ Serves(t.fence, t.owner) /\ Asked(t.fence)
    /\ t.dirty \/ Ready(t.fence, t.owner)
    /\ fence.profile = "claim_v1" /\ TerminalRow(fence) =>
           t.fence = fence /\ (t.owner = owner \/ t.owner = NoOwner)
    /\ ~t.dirty => t.fence = fence \/ (fence = NoFence /\ t.fence.status = "reserved")
    /\ owner # NoOwner /\ t.owner = NoOwner => Deleted \/ (t.dirty /\ Undone(t.fence))

DataInv ==
    /\ Known(fence) /\ Serves(fence, owner) /\ Ready(fence, owner) /\ Asked(fence)
    /\ tx # NoTx => Working(tx)

(* What a call makes of a row: it leaves it, makes the first one, or moves *)
(* one that has not ended.                                                 *)
Turn(f, a) ==
    \/ a.row = f
    \/ f = NoFence /\ kind \in ClaimKinds /\ Modern(a.row) /\ ~BoundRow(a.row) /\ a.row.status = "reserved"
    \/ f # NoFence /\ f.profile = "claim_v1" /\ ~TerminalRow(f) /\ Modern(a.row)

(* Every call turns a known row so.                                        *)
LEMMA CallsTurn ==
    ASSUME NEW f, Known(f), NEW w, NEW t \in Times
    PROVE  /\ Turn(f, RecordPending(f))
           /\ \A act \in Activations, v \in Reservations : Turn(f, RecordPendingClaimV1(kind, f, act, v, t))
           /\ \A r \in Reasons : Turn(f, ClaimAbort(f, w, r, t))
           /\ \A b \in Bindings : Turn(f, BindEffect(f, w, b, t))
           /\ \A rc \in CommittedReceipts : Turn(f, ActivateCommitted(f, w, rc, t))
           /\ \A rc \in AbortedReceipts : Turn(f, RecordAborted(f, w, rc, t))
<1>0. ASSUME NEW n, enforce_authority_fence_update(f, n, w)
      PROVE  f # NoFence /\ f.profile = "claim_v1" /\ ~TerminalRow(f)
  BY Zenon, <1>0, UpdatedIsModern DEF enforce_authority_fence_update
<1>1. Turn(f, RecordPending(f))
  BY Zenon DEF Turn, RecordPending
<1>2. ASSUME NEW act \in Activations, NEW v \in Reservations
      PROVE  Turn(f, RecordPendingClaimV1(kind, f, act, v, t))
  BY PendingCases, NewIsModern DEF Turn
<1>3. ASSUME NEW r \in Reasons PROVE Turn(f, ClaimAbort(f, w, r, t))
  BY <1>0, ClaimCases, ClaimIsModern, SMTT(60) DEF Turn
<1>4. ASSUME NEW b \in Bindings PROVE Turn(f, BindEffect(f, w, b, t))
  BY <1>0, BindCases, BindingIsModern, SMTT(60) DEF Turn
<1>5. ASSUME NEW rc \in CommittedReceipts PROVE Turn(f, ActivateCommitted(f, w, rc, t))
  <2>1. rc.status # "aborted"
    BY Zenon, Receipts
  <2> QED BY <1>0, <2>1, CommitCases, EndIsModern, SMTT(60) DEF Turn
<1>6. ASSUME NEW rc \in AbortedReceipts PROVE Turn(f, RecordAborted(f, w, rc, t))
  BY <1>0, AbortCases, EndIsModern, SMTT(60) DEF Turn
<1> QED BY Zenon, <1>1, <1>2, <1>3, <1>4, <1>5, <1>6

(* The rows a call works on.                                               *)
LEMMA DraftWorks == ASSUME IInv, DataInv PROVE Working(Draft)
<1>1. CASE tx = NoTx
  <2>1. Draft = [open |-> TRUE, fence |-> fence, owner |-> owner, shared |-> FALSE, dirty |-> FALSE]
    BY Zenon, <1>1 DEF Draft, NoTx
  <2>2. Draft.fence = fence /\ Draft.owner = owner
    BY Zenon, <2>1
  <2> QED BY Zenon, <2>2 DEF DataInv, Working
<1>2. CASE tx # NoTx
  <2>1. Draft = tx
    BY Zenon, <1>2 DEF IInv, RowsInv, Transaction, Shape, Draft
  <2> QED BY Zenon, <1>2, <2>1 DEF DataInv
<1> QED BY Zenon, <1>1, <1>2

(* A call keeps the data in order.                                         *)
LEMMA CallData == ASSUME IInv, DataInv, NEW a, a.stmt \in BOOLEAN, Turn(Draft.fence, a), Call(a) PROVE DataInv'
<1>1. UNCHANGED <<kind, fence, owner>>
  BY Zenon DEF Call
<1>2. CASE tx' = NoTx
  BY <1>1, <1>2 DEF DataInv, Known, Modern, Lawful, Columns, Serves, Ready, Asked
<1>3. CASE tx' # NoTx
  <2> DEFINE moved == Draft.fence # NoFence /\ a.row # Draft.fence
             next == WithFence(Draft, a.row, Draft.shared \/ a.stmt, Draft.dirty \/ moved)
  <2>1. tx' = next
    BY Zenon, <1>3 DEF Call, WithFence
  <2>2. Shape(Draft) /\ Draft.dirty \in BOOLEAN /\ (Draft.fence = NoFence => Draft.owner = NoOwner)
    BY Zenon, DraftIsSound DEF Transaction, Pair
  <2>3. next.fence = a.row /\ next.owner = Draft.owner /\ next.dirty = (Draft.dirty \/ moved)
    BY <2>2, FenceChanged, SMTT(60)
  <2>4. Working(Draft)
    BY Zenon, DraftWorks
  <2> HIDE DEF next
  <2>5. Known(a.row)
    BY Zenon, <2>4 DEF Working, Turn, Known
  <2>6. a.row # Draft.fence => a.row.profile = "claim_v1"
    BY Zenon DEF Turn, Modern, Lawful
  <2>7. Serves(a.row, Draft.owner)
    BY Zenon, <2>2, <2>4, <2>6 DEF Working, Serves
  <2>8. Asked(a.row)
    BY Zenon, <2>4 DEF Working, Asked, Turn
  <2>9. (Draft.dirty \/ moved) \/ Ready(a.row, Draft.owner)
    BY Zenon, <2>4 DEF Working, Ready, Turn
  <2>10. fence.profile = "claim_v1" /\ TerminalRow(fence) =>
            a.row = fence /\ (Draft.owner = owner \/ Draft.owner = NoOwner)
    BY <2>4 DEF Working, Turn, NoFence, None
  <2>11. ~(Draft.dirty \/ moved) => a.row = fence \/ (fence = NoFence /\ a.row.status = "reserved")
    BY Zenon, <2>4 DEF Working, Turn
  <2>12. owner # NoOwner /\ Draft.owner = NoOwner => Deleted \/ ((Draft.dirty \/ moved) /\ Undone(a.row))
    <3>1. Undone(Draft.fence) => a.row = Draft.fence
      BY DEF Undone, Turn, TerminalRow, NoFence, None
    <3> QED BY Zenon, <2>4, <3>1 DEF Working
  <2>13. Working(next)
    BY Zenon, <2>3, <2>5, <2>7, <2>8, <2>9, <2>10, <2>11, <2>12 DEF Working
  <2>14. Working(tx)'
    BY Zenon, <1>1, <2>1, <2>13 DEF Working, Serves, Asked, Deleted
  <2> QED BY Zenon, <1>1, <2>14 DEF DataInv, Serves, Asked
<1> QED BY Zenon, <1>2, <1>3

(* A write of the owner keeps the data in order.                           *)
LEMMA OwnerData ==
    ASSUME IInv, DataInv, NEW w, OwnerWrite(w), Serves(Draft.fence, w), Ready(Draft.fence, w),
           fence.profile = "claim_v1" /\ TerminalRow(fence) => w = owner \/ w = NoOwner,
           owner # NoOwner /\ w = NoOwner => Deleted \/ (Draft.dirty /\ Undone(Draft.fence))
    PROVE  DataInv'
<1> DEFINE yes == TRUE
           next == WithOwner(Draft, w, yes)
<1>1. UNCHANGED <<kind, fence, owner>> /\ tx' = next
  BY Zenon DEF OwnerWrite, WithOwner
<1>2. Shape(Draft) /\ Working(Draft)
  BY Zenon, DraftIsSound, DraftWorks DEF Transaction
<1> HIDE DEF yes
<1>3. next.fence = Draft.fence /\ next.owner = w /\ next.dirty = Draft.dirty
  BY <1>2, OwnerChanged
<1> HIDE DEF next
<1>4. Working(next)
  BY Zenon, <1>2, <1>3 DEF Working
<1>5. Working(tx)'
  BY Zenon, <1>1, <1>4 DEF Working, Serves, Asked, Deleted
<1> QED BY Zenon, <1>1, <1>5 DEF DataInv, Serves, Asked

(* The four moves of an owner do.                                          *)
LEMMA OwnerMovesData ==
    ASSUME IInv, DataInv, \/ \E g \in DOMAIN ExpectedKinds, b \in Bindings : PrepareOwner(g, b)
                          \/ \E b \in Bindings : CommitOwner(b)
                          \/ \E p \in Proofs : TerminateOwner(p)
                          \/ DeleteOwner
    PROVE  DataInv'
<1>1. Working(Draft) /\ Draft.fence.profile = "claim_v1" /\ Pair(Draft.fence, Draft.owner)
  BY Zenon, DraftWorks, DraftIsSound
  DEF PrepareOwner, CommitOwner, TerminateOwner, DeleteOwner, OwnerWrite, Transaction
<1>2. ASSUME NEW g \in DOMAIN ExpectedKinds, NEW b \in Bindings, PrepareOwner(g, b) PROVE DataInv'
  <2> DEFINE phase == IF g \in DomainPreparable THEN "prepared" ELSE "commitment"
             bound == IF g \in DomainPreparable THEN None ELSE b
             w == [phase |-> phase, group |-> g, binding |-> bound, proof |-> None]
  <2>1. /\ OwnerWrite(w) /\ kind \in ExpectedKinds[g]
        /\ ~TerminalRow(Draft.fence) /\ ~BoundRow(Draft.fence)
    BY Zenon, <1>2 DEF PrepareOwner
  <2>2. w.group = g /\ w.phase \in {"prepared", "commitment"}
    BY Zenon
  <2> HIDE DEF w
  <2>3. Serves(Draft.fence, w) /\ Ready(Draft.fence, w)
    BY Zenon, <1>1, <2>1, <2>2 DEF Serves, Ready
  <2>4. ~(fence.profile = "claim_v1" /\ TerminalRow(fence))
    BY Zenon, <1>1, <2>1 DEF Working
  <2>5. w # NoOwner
    BY <2>2 DEF NoOwner, None
  <2> QED BY Zenon, <2>1, <2>3, <2>4, <2>5, OwnerData
<1>3. ASSUME NEW b \in Bindings, CommitOwner(b) PROVE DataInv'
  <2> DEFINE w == Committing(Draft.owner, "commitment", b)
  <2>1. /\ OwnerWrite(w) /\ Draft.owner.phase = "prepared"
        /\ ~TerminalRow(Draft.fence) /\ ~BoundRow(Draft.fence)
    BY Zenon, <1>3 DEF CommitOwner, Committing
  <2>2. OwnerFields(Draft.owner) /\ Draft.owner # NoOwner
    BY <1>1, <2>1 DEF Pair, OwnerShape, NoOwner, None
  <2>3. w.group = Draft.owner.group /\ w.phase = "commitment"
    BY Zenon, <2>2 DEF OwnerFields, Committing
  <2> HIDE DEF w
  <2>4. Serves(Draft.fence, w) /\ Ready(Draft.fence, w)
    BY Zenon, <1>1, <2>1, <2>2, <2>3 DEF Serves, Ready, Working
  <2>5. ~(fence.profile = "claim_v1" /\ TerminalRow(fence))
    BY Zenon, <1>1, <2>1 DEF Working
  <2>6. w # NoOwner
    BY <2>3 DEF NoOwner, None
  <2> QED BY Zenon, <2>1, <2>4, <2>5, <2>6, OwnerData
<1>4. ASSUME NEW p \in Proofs, TerminateOwner(p) PROVE DataInv'
  <2> DEFINE w == Proving(Draft.owner, "terminal", p)
  <2>1. OwnerWrite(w) /\ Draft.owner.phase = "commitment" /\ Draft.fence.status = "committed"
    BY Zenon, <1>4 DEF TerminateOwner, Proving
  <2>2. OwnerFields(Draft.owner) /\ Draft.owner # NoOwner
    BY <1>1, <2>1 DEF Pair, OwnerShape, NoOwner, None
  <2>3. w.group = Draft.owner.group /\ w.phase = "terminal"
    BY Zenon, <2>2 DEF OwnerFields, Proving
  <2> HIDE DEF w
  <2>4. Serves(Draft.fence, w) /\ Ready(Draft.fence, w)
    BY Zenon, <1>1, <2>2, <2>3 DEF Serves, Ready, Working
  <2>5. ~(fence.profile = "claim_v1" /\ TerminalRow(fence))
    BY Zenon, <1>1, <2>1, <2>2 DEF Working, IInv, RowsInv, Agree
  <2>6. w # NoOwner
    BY <2>3 DEF NoOwner, None
  <2> QED BY Zenon, <2>1, <2>4, <2>5, <2>6, OwnerData
<1>5. CASE DeleteOwner
  <2>1. /\ OwnerWrite(NoOwner) /\ Draft.owner.phase = "terminal" /\ Draft.fence.status = "committed"
        /\ Draft.owner.group \in Retained
    BY Zenon, <1>5 DEF DeleteOwner
  <2>2. NoOwner.phase # "prepared" /\ NoOwner.phase # "terminal"
    BY Zenon DEF NoOwner, None
  <2>3. Serves(Draft.fence, NoOwner) /\ Ready(Draft.fence, NoOwner)
    BY Zenon, <2>2 DEF Serves, Ready
  <2>4. Deleted \/ (Draft.dirty /\ Undone(Draft.fence))
    <3>1. CASE Draft.dirty
      BY Zenon, <1>1, <2>1, <3>1 DEF Undone
    <3>2. CASE ~Draft.dirty
      <4>1. Draft.fence = fence
        BY Zenon, <1>1, <2>1, <3>2 DEF Working
      <4>2. Draft.owner = owner
        BY Zenon, <1>1, <2>1, <2>2, <4>1 DEF Working, TerminalRow
      <4> QED BY Zenon, <1>1, <2>1, <4>1, <4>2 DEF Deleted
    <3> QED BY Zenon, <3>1, <3>2
  <2> QED BY Zenon, <2>1, <2>3, <2>4, OwnerData
<1> QED BY Zenon, <1>2, <1>3, <1>4, <1>5

(* A commit: the barrier, or the rows as they were, leave a commitment     *)
(* beside a bound fence.                                                   *)
LEMMA CommitData == ASSUME IInv, DataInv, Commit PROVE DataInv'
<1>1. tx.open /\ fence' = tx.fence /\ owner' = tx.owner /\ tx' = NoTx /\ UNCHANGED kind
  BY Zenon DEF Commit
<1>2. tx # NoTx /\ Working(tx) /\ Transaction(tx)
  BY <1>1 DEF NoTx, DataInv, IInv, RowsInv
<1>3. Ready(tx.fence, tx.owner)
  <2>1. CASE tx.dirty
    <3>1. v7_assert_activation_barrier(tx.fence, tx.owner, kind)
      BY Zenon, <2>1 DEF Commit
    <3> SUFFICES ASSUME tx.fence.profile = "claim_v1", BoundRow(tx.fence) PROVE tx.owner.phase # "prepared"
      BY Zenon DEF Ready
    <3>2. Modern(tx.fence)
      BY <1>2 DEF Working, Known, NoFence, None
    <3>3. tx.fence.status \in {"reserved", "committed", "aborted"}
      BY Zenon, <3>2 DEF Modern, Lawful
    <3>4. NoOwner.phase # "prepared"
      BY Zenon DEF NoOwner, None
    <3> QED BY Zenon, <3>1, <3>3, <3>4 DEF v7_assert_activation_barrier, TerminalRow, CommitmentOnly
  <2>2. CASE ~tx.dirty
    BY Zenon, <1>2, <2>2 DEF Working
  <2> QED BY Zenon, <2>1, <2>2
<1> QED BY Zenon, <1>1, <1>2, <1>3 DEF DataInv, Working, Serves, Asked

(* Whatever leaves rows and transaction alone leaves the data.             *)
LEMMA QuietData == ASSUME DataInv, UNCHANGED <<kind, fence, owner>>, tx' = tx \/ tx' = NoTx PROVE DataInv'
BY Zenon DEF DataInv, Working, Serves, Asked, Deleted

(* Every step keeps the data in order.                                     *)
LEMMA StepData == ASSUME IInv, DataInv, [Next]_vars PROVE DataInv'
<1>0. Known(Draft.fence) /\ Sound(Draft.fence)
  BY Zenon, DraftWorks, DraftIsSound DEF Working, Transaction, Pair
<1>a. \A f, a : Result(f, a) => a.stmt \in BOOLEAN
  BY Zenon DEF Result
<1>1. CASE CallRecordPending
  <2>1. \E t \in Times : TRUE
    BY Zenon, ClaimValues
  <2> QED BY <1>0, <1>1, <1>a, <2>1, RecordPendingResult, CallsTurn, CallData DEF CallRecordPending
<1>2. CASE CallRecordPendingClaimV1
  <2>1. PICK act \in Activations, v \in Reservations, t \in Times :
          Call(RecordPendingClaimV1(kind, Draft.fence, act, v, t))
    BY Zenon, <1>2 DEF CallRecordPendingClaimV1
  <2>2. Turn(Draft.fence, RecordPendingClaimV1(kind, Draft.fence, act, v, t))
    BY Zenon, <1>0, CallsTurn
  <2> QED BY <1>0, <1>a, <2>1, <2>2, RecordPendingClaimResult, CallData
<1>3. CASE CallClaimAbort
  <2>1. PICK r \in Reasons, t \in Times : Call(ClaimAbort(Draft.fence, Draft.owner, r, t))
    BY Zenon, <1>3 DEF CallClaimAbort
  <2>2. Turn(Draft.fence, ClaimAbort(Draft.fence, Draft.owner, r, t))
    BY Zenon, <1>0, CallsTurn
  <2> QED BY <1>0, <1>a, <2>1, <2>2, ClaimAbortResult, CallData
<1>4. CASE CallBindEffect
  <2>1. PICK b \in Bindings, t \in Times : Call(BindEffect(Draft.fence, Draft.owner, b, t))
    BY <1>4 DEF CallBindEffect
  <2>2. Turn(Draft.fence, BindEffect(Draft.fence, Draft.owner, b, t))
    BY Zenon, <1>0, CallsTurn
  <2> QED BY <1>0, <1>a, <2>1, <2>2, BindEffectResult, CallData
<1>5. CASE CallActivateCommitted
  <2>1. PICK rc \in CommittedReceipts, t \in Times :
          Call(ActivateCommitted(Draft.fence, Draft.owner, rc, t))
    BY Zenon, <1>5 DEF CallActivateCommitted
  <2>2. Turn(Draft.fence, ActivateCommitted(Draft.fence, Draft.owner, rc, t))
    BY Zenon, <1>0, CallsTurn
  <2> QED BY <1>0, <1>a, <2>1, <2>2, ActivateCommittedResult, CallData
<1>6. CASE CallRecordAborted
  <2>1. PICK rc \in AbortedReceipts, t \in Times : Call(RecordAborted(Draft.fence, Draft.owner, rc, t))
    BY <1>6 DEF CallRecordAborted
  <2>2. Turn(Draft.fence, RecordAborted(Draft.fence, Draft.owner, rc, t))
    BY Zenon, <1>0, CallsTurn
  <2> QED BY <1>0, <1>a, <2>1, <2>2, RecordAbortedResult, CallData
<1>7. CASE \/ \E g \in DOMAIN ExpectedKinds, b \in Bindings : PrepareOwner(g, b)
           \/ \E b \in Bindings : CommitOwner(b)
           \/ \E p \in Proofs : TerminateOwner(p)
           \/ DeleteOwner
  BY Zenon, <1>7, OwnerMovesData
<1>8. CASE Commit
  BY Zenon, <1>8, CommitData
<1>9. CASE \/ Rollback \/ AcquireFreeze \/ SealWork \/ SealCommit \/ SealFail
           \/ ReadFence \/ ReadOutcome \/ ReadReturn \/ UNCHANGED vars
  BY Zenon, <1>9, QuietData DEF Rollback, AcquireFreeze, SealWork, SealCommit, SealFail, ReadFence, ReadOutcome,
     ReadReturn, vars
<1> QED BY Zenon, <1>1, <1>2, <1>3, <1>4, <1>5, <1>6, <1>7, <1>8, <1>9 DEF Next

(* The rows the migration found are known.                                 *)
LEMMA InitData == Init => DataInv
<1> SUFFICES ASSUME Init PROVE DataInv
  BY Zenon
<1>1. fence = NoFence \/ (Row(fence) /\ fence.profile = "legacy_v6")
  <2>1. \A v, t : LET f == NewRow("legacy_v6", None, v, t) IN Row(f) /\ f.profile = "legacy_v6"
    BY Zenon DEF NewRow, Row
  <2>2. CASE fence \in LegacyRows
    BY <2>1, <2>2, BoundRowIsRow, TerminatedRow DEF LegacyRows
  <2> QED BY Zenon, <2>2 DEF Init
<1>2. Known(fence) /\ fence.profile # "claim_v1"
  BY <1>1 DEF Init, Known, NoFence, None
<1> QED BY Zenon, <1>2 DEF Init, DataInv, Serves, Ready, Asked

-----------------------------------------------------------------------------
(* Both invariants hold in every state.                                    *)
LEMMA DataHolds == Spec => [](IInv /\ DataInv)
  BY InitInv, StepInv, InitData, StepData, PTL DEF Spec

(* Only a commit changes the rows, and the barrier stands before one that  *)
(* made the fence committed: the proof is there then, and goes afterwards. *)
LEMMA StepOutlives == ASSUME IInv, DataInv, [Next]_vars PROVE [ProofOutlivesDecision]_<<fence, owner>>
<1>1. CASE Commit
  <2>1. /\ tx.open /\ fence' = tx.fence /\ owner' = tx.owner
        /\ tx.dirty => v7_assert_activation_barrier(tx.fence, tx.owner, kind)
    BY Zenon, <1>1 DEF Commit
  <2>2. Working(tx)
    BY <2>1 DEF NoTx, DataInv
  <2>3. tx.dirty /\ tx.fence.status = "committed" =>
            tx.owner.phase = "terminal" /\ tx.owner.binding = tx.fence.binding
    BY Zenon, <2>1 DEF v7_assert_activation_barrier, TerminalRow
  <2>4. fence' # NoFence /\ fence' # fence =>
            (fence'.status = "committed" => owner'.phase = "terminal" /\ owner'.binding = fence'.binding)
    BY Zenon, <2>1, <2>2, <2>3 DEF Working
  <2>5. owner # NoOwner /\ owner' = NoOwner =>
            owner.phase = "terminal" /\ owner.group \in Retained /\ fence.status = "committed"
    <3>1. NoOwner.phase # "terminal"
      BY Zenon DEF NoOwner, None
    <3> QED BY Zenon, <2>1, <2>2, <2>3, <3>1 DEF Working, Deleted, Undone
  <2>6. fence.profile = "claim_v1" /\ fence.status = "committed" => fence' = fence /\ owner' \in {owner, NoOwner}
    BY Zenon, <2>1, <2>2 DEF Working, TerminalRow
  <2> QED BY Zenon, <2>4, <2>5, <2>6 DEF ProofOutlivesDecision
<1>2. CASE ~Commit
  BY Zenon, <1>2 DEF Next, vars, CallRecordPending, CallRecordPendingClaimV1, CallClaimAbort, CallBindEffect,
     CallActivateCommitted, CallRecordAborted, Call, PrepareOwner, CommitOwner, TerminateOwner, DeleteOwner,
     OwnerWrite, Rollback, AcquireFreeze, SealWork, SealCommit, SealFail, ReadFence, ReadOutcome, ReadReturn
<1> QED BY Zenon, <1>1, <1>2

(* In every committed state a fence row of version 7 and its proof owner   *)
(* agree, a fence is committed together with the terminal proof of its     *)
(* binding, and the proof is deleted only afterwards, from a table with a  *)
(* retention: the repository's checks, the triggers and the deferred       *)
(* barrier together admit nothing else.                                    *)
THEOREM FencesAndOwnersAgree == Spec => FenceAndOwnerAgree
<1>1. IInv => (fence # NoFence /\ fence.profile = "claim_v1" => RowsAgree)
  BY Zenon DEF IInv, RowsInv, Agree, RowsAgree
<1> QED BY <1>1, DataHolds, StepOutlives, PTL DEF Spec, FenceAndOwnerAgree

(* Whatever the repository, the constraints and the triggers leave in the  *)
(* table decodes: storedFenceFromV7Row never fails on a committed row, of  *)
(* version 6 or of version 7.                                              *)
THEOREM CommittedRowsDecode == Spec => []RowsDecode
<1>1. DataInv => RowsDecode
  <2> SUFFICES ASSUME Known(fence), fence # NoFence
               PROVE  storedFenceFromV7Row(fence).ok /\ (fence.profile = "claim_v1" => RowCheck(fence))
    BY Zenon DEF DataInv, RowsDecode
  <2>1. CASE Modern(fence)
    BY Zenon, <2>1, Stored, StoredFields DEF Modern, Lawful
  <2>2. CASE fence \in LegacyRows /\ fence.profile = "legacy_v6"
    BY Zenon, <2>2, LegacyDecodes
  <2> QED BY Zenon, <2>1, <2>2 DEF Known
<1> QED BY <1>1, DataHolds, PTL

(* Repeating a repository call that succeeded succeeds again and changes   *)
(* nothing, in every committed state and for every argument.               *)
THEOREM RetriesSettle == Spec => []RetriesAreIdempotent
<1>1. DataInv => RetriesAreIdempotent
  <2> SUFFICES ASSUME Known(fence) PROVE RetriesAreIdempotent
    BY Zenon DEF DataInv
  <2>1. ASSUME NEW act \in Activations, NEW v \in Reservations, NEW t \in Times, RecordPendingClaimV1(kind, fence, act, v, t).err = "ok"
       PROVE  RecordPendingClaimV1(kind, RecordPendingClaimV1(kind, fence, act, v, t).row, act, v, t).err = "ok" /\ RecordPendingClaimV1(kind, RecordPendingClaimV1(kind, fence, act, v, t).row, act, v, t).row = RecordPendingClaimV1(kind, fence, act, v, t).row
    BY Zenon, <2>1, RetryPending
  <2>2. ASSUME NEW r \in Reasons, NEW t \in Times, ClaimAbort(fence, owner, r, t).err = "ok"
       PROVE  ClaimAbort(ClaimAbort(fence, owner, r, t).row, owner, r, t).err = "ok" /\ ClaimAbort(ClaimAbort(fence, owner, r, t).row, owner, r, t).row = ClaimAbort(fence, owner, r, t).row
    BY Zenon, <2>2, RetryClaim
  <2>3. ASSUME NEW b \in Bindings, NEW t \in Times, BindEffect(fence, owner, b, t).err = "ok"
       PROVE  BindEffect(BindEffect(fence, owner, b, t).row, owner, b, t).err = "ok" /\ BindEffect(BindEffect(fence, owner, b, t).row, owner, b, t).row = BindEffect(fence, owner, b, t).row
    BY Zenon, <2>3, RetryBind
  <2>4. ASSUME NEW rc \in CommittedReceipts, NEW t \in Times, ActivateCommitted(fence, owner, rc, t).err = "ok"
       PROVE  ActivateCommitted(ActivateCommitted(fence, owner, rc, t).row, owner, rc, t).err = "ok" /\ ActivateCommitted(ActivateCommitted(fence, owner, rc, t).row, owner, rc, t).row = ActivateCommitted(fence, owner, rc, t).row
    BY Zenon, <2>4, RetryCommit
  <2>5. ASSUME NEW rc \in AbortedReceipts, NEW t \in Times, RecordAborted(fence, owner, rc, t).err = "ok"
       PROVE  RecordAborted(RecordAborted(fence, owner, rc, t).row, owner, rc, t).err = "ok" /\ RecordAborted(RecordAborted(fence, owner, rc, t).row, owner, rc, t).row = RecordAborted(fence, owner, rc, t).row
    BY Zenon, <2>5, RetryAbort
  <2> QED BY Zenon, <2>1, <2>2, <2>3, <2>4, <2>5 DEF RetriesAreIdempotent
<1> QED BY <1>1, DataHolds, PTL

(* A row that ends keeps the columns the trigger wants kept.               *)
LEMMA EndKeeps ==
    ASSUME NEW f, Row(f), NEW rc, rc.status = "aborted" => rc.reason = f.reason, NEW t,
           NEW n, n = Terminating(f, rc, t)
    PROVE  SameBut(f, n, {"status", "receipt", "terminalAt"})
<1>1. n = [f EXCEPT !.status = rc.status, !.receipt = rc, !.terminalAt = t, !.reason = f.reason]
  BY Zenon DEF Terminating
<1>2. DOMAIN n = DOMAIN f
  BY Zenon, <1>1
<1>3. \A x \in DOMAIN f \ {"status", "receipt", "terminalAt"} : n[x] = f[x]
  BY Zenon, <1>1
<1> QED BY Zenon, <1>2, <1>3 DEF SameBut, Without

(* A claimed row can record its abort, at the time of the claim.           *)
LEMMA AbortFinishes ==
    ASSUME NEW f, Modern(f), ~TerminalRow(f), Claimed(f), NEW k
    PROVE  \E rc \in AbortedReceipts, t \in Times :
               LET done == RecordAborted(f, NoOwner, rc, t)
               IN  /\ done.err = "ok" /\ TerminalRow(done.row)
                   /\ v7_assert_activation_barrier(done.row, NoOwner, k)
<1> DEFINE rc == Receipt(f.reservation, "aborted", None, f.reason)
           t == f.claimedAt
           n == Terminating(f, rc, t)
           base == [f EXCEPT !.reason = None]
<1>1. /\ Row(f) /\ f.profile = "claim_v1" /\ RowCheck(f) /\ Columns(f) /\ f.status = "reserved"
      /\ f # NoFence /\ f.reason # None /\ f.reason \in Reasons
      /\ f.claimedAt \in Times /\ f.claimedAt \in Nat \ {0} /\ f.reservedAt \in Nat
      /\ ~BoundRow(f) /\ f.claimedAt >= f.reservedAt
  <2>1. Row(f) /\ f.profile = "claim_v1" /\ RowCheck(f) /\ Columns(f)
    BY Zenon DEF Modern, Lawful
  <2>2. f.status = "reserved"
    BY Zenon DEF TerminalRow
  <2>3. f # NoFence
    BY <2>1 DEF NoFence, None
  <2>4. f.reason # None /\ ~BoundRow(f) /\ f.claimedAt >= f.reservedAt
    BY Zenon, <2>1 DEF RowCheck
  <2>5. f.reason \in Reasons /\ f.claimedAt \in Times /\ f.reservedAt \in Times
    BY Zenon, <2>1, <2>4 DEF Columns, Claimed
  <2>6. f.claimedAt \in Nat \ {0} /\ f.reservedAt \in Nat
    BY Zenon, <2>5, ClaimConstants
  <2> QED BY Zenon, <2>1, <2>2, <2>3, <2>4, <2>5, <2>6
<1>2. rc \in AbortedReceipts /\ t \in Times
  BY <1>1 DEF AbortedReceipts, Columns
<1>3. rc.reservation = f.reservation /\ rc.status = "aborted" /\ rc.binding = None /\ rc.reason = f.reason
  BY ReceiptFields, SMTT(60)
<1> HIDE DEF rc
<1>4. /\ n.profile = f.profile /\ n.activation = f.activation /\ n.reservation = f.reservation
      /\ n.reservedAt = f.reservedAt /\ n.status = "aborted" /\ n.binding = f.binding
      /\ n.boundAt = f.boundAt /\ n.claimedAt = f.claimedAt /\ n.receipt = rc
      /\ n.terminalAt = f.claimedAt /\ n.reason = f.reason
  BY <1>1, <1>3, TerminatingColumns, SMTT(60)
<1>5. SameBut(f, n, {"status", "receipt", "terminalAt"})
  BY Zenon, <1>1, <1>3, EndKeeps
<1> HIDE DEF n
<1>6. RowCheck(n)
  <2>1. n.claimedAt # NoTime /\ n.reason # None /\ n.binding = None
    BY Zenon, <1>1, <1>4 DEF NoTime, BoundRow
  <2>2. Claimed(n) = (n.reason # None) /\ Claimed(n) /\ ~BoundRow(n)
    BY <2>1, Zenon DEF Claimed, BoundRow
  <2>3. n.terminalAt >= n.reservedAt /\ n.claimedAt >= n.reservedAt /\ n.terminalAt >= n.claimedAt
    BY <1>1, <1>4
  <2> QED BY <2>2, <2>3, Zenon DEF RowCheck
<1>7. enforce_authority_fence_update(f, n, NoOwner)
  BY <1>1, <1>4, <1>5, SMTT(60) DEF enforce_authority_fence_update, Columns
<1>8. authorityRecordFromRow(base) = RecordOf(f)
  BY Zenon, DecodedWaiting
<1> DEFINE rec == authorityRecordFromRow(base)
<1>9. rec.ok /\ rec.reservation = rc.reservation /\ rec.receipt = NoReceipt /\ rec.receipt.status # "committed"
  <2>1. f.receipt = NoReceipt
    BY Zenon, <1>1 DEF Columns
  <2> QED BY <1>3, <1>8, <2>1, RecordFields, Receipts DEF None
<1>10. RecordAborted(f, NoOwner, rc, t) = Update(f, n, NoOwner)
  <2> HIDE DEF rec
  <2>1. rec = authorityRecordFromRow(IF f.status = "reserved" /\ f.reason # None THEN [f EXCEPT !.reason = None] ELSE f)
    BY Zenon, <1>1 DEF rec
  <2> HIDE DEF t, base
  <2> QED BY <1>1, <1>3, <1>9, <2>1, Zenon DEF RecordAborted, n
<1>11. Update(f, n, NoOwner).err = "ok" /\ Update(f, n, NoOwner).row = n
  <2>1. Update(f, n, NoOwner) = [err |-> "ok", stmt |-> TRUE, row |-> n]
    BY Zenon, <1>6, <1>7 DEF Update
  <2> QED BY <2>1
<1>12. TerminalRow(n) /\ v7_assert_activation_barrier(n, NoOwner, k)
  BY Zenon, <1>4 DEF TerminalRow, v7_assert_activation_barrier
<1> HIDE DEF t
<1> QED BY Zenon, <1>2, <1>10, <1>11, <1>12

(* A bound row with its commitment can record its commit, at the time it   *)
(* was bound.                                                              *)
LEMMA CommitFinishes ==
    ASSUME NEW f, Modern(f), ~TerminalRow(f), BoundRow(f), NEW w, CommitmentOnly(w, f.binding), OwnerFields(w), NEW k
    PROVE  \E rc \in CommittedReceipts, t \in Times :
               LET done == ActivateCommitted(f, w, rc, t)
               IN  /\ done.err = "ok" /\ TerminalRow(done.row)
                   /\ v7_assert_activation_barrier(done.row, [w EXCEPT !.phase = "terminal"], k)
<1> DEFINE rc == Receipt(f.reservation, "committed", f.binding, None)
           t == f.boundAt
           n == Terminating(f, rc, t)
           v == [w EXCEPT !.phase = "terminal"]
<1>1. /\ Row(f) /\ f.profile = "claim_v1" /\ RowCheck(f) /\ Columns(f) /\ f.status = "reserved"
      /\ f # NoFence /\ f.reason = None /\ ~Claimed(f)
      /\ f.boundAt \in Times /\ f.boundAt \in Nat \ {0} /\ f.reservedAt \in Nat
      /\ f.binding \in Bindings /\ f.boundAt >= f.reservedAt
  <2>1. /\ Row(f) /\ f.profile = "claim_v1" /\ RowCheck(f) /\ Columns(f) /\ f.status = "reserved"
    BY Zenon DEF Modern, Lawful, TerminalRow
  <2>2. f # NoFence /\ f.boundAt \in Times /\ f.binding \in Bindings /\ f.boundAt >= f.reservedAt
    <3>1. f # NoFence
      BY <2>1, SMTT(60) DEF NoFence, None
    <3> QED BY Zenon, <2>1, <3>1 DEF RowCheck, Columns, BoundRow, NoTime
  <2>3. ~Claimed(f) /\ f.reason = None
    BY <2>1, Zenon DEF RowCheck
  <2>4. f.boundAt \in Nat \ {0} /\ f.reservedAt \in Nat
    BY Zenon, <2>1, <2>2, ClaimConstants DEF Columns
  <2> QED BY Zenon, <2>1, <2>2, <2>3, <2>4
<1>2. rc \in CommittedReceipts /\ t \in Times
  BY <1>1 DEF CommittedReceipts, Columns
<1>3. rc.reservation = f.reservation /\ rc.status = "committed" /\ rc.binding = f.binding
  BY ReceiptFields, SMTT(60)
<1>4. v.phase = "terminal" /\ v.binding = f.binding
  BY Zenon DEF OwnerFields, CommitmentOnly
<1> HIDE DEF rc, v
<1>5. /\ n.profile = f.profile /\ n.activation = f.activation /\ n.reservation = f.reservation
      /\ n.reservedAt = f.reservedAt /\ n.status = "committed" /\ n.binding = f.binding
      /\ n.boundAt = f.boundAt /\ n.claimedAt = f.claimedAt /\ n.receipt = rc
      /\ n.terminalAt = f.boundAt /\ n.reason = f.reason
  BY <1>1, <1>3, TerminatingColumns, SMTT(60)
<1>6. SameBut(f, n, {"status", "receipt", "terminalAt"})
  BY Zenon, <1>1, <1>3, EndKeeps
<1> HIDE DEF n
<1>7. RowCheck(n)
  <2>1. /\ Claimed(n) = (n.reason # None) /\ ~Claimed(n) /\ BoundRow(n)
    BY Zenon, <1>1, <1>5 DEF Claimed, BoundRow
  <2> QED BY Zenon, <1>1, <1>5, <2>1 DEF RowCheck
<1>8. enforce_authority_fence_update(f, n, w)
  BY Zenon, <1>1, <1>5, <1>6 DEF enforce_authority_fence_update, Columns
<1> DEFINE rec == authorityRecordFromRow(f)
<1>9. /\ rec.ok /\ rec.reservation = rc.reservation /\ rec.receipt = NoReceipt
      /\ rec.receipt.status # "aborted" /\ rec.binding = rc.binding
  <2>1. f.receipt = NoReceipt /\ rec = RecordOf(f)
    BY Zenon, <1>1, Decoded DEF Columns
  <2> QED BY <1>3, <2>1, RecordFields, Receipts, SMTT(60) DEF None
<1>10. ActivateCommitted(f, w, rc, t) = Update(f, n, w)
  <2> HIDE DEF rec
  <2>1. rec = authorityRecordFromRow(f)
    BY Zenon DEF rec
  <2> HIDE DEF t
  <2> QED BY <1>1, <1>3, <1>9, <2>1, Zenon DEF ActivateCommitted, n
<1>11. Update(f, n, w).err = "ok" /\ Update(f, n, w).row = n
  <2>1. Update(f, n, w) = [err |-> "ok", stmt |-> TRUE, row |-> n]
    BY Zenon, <1>7, <1>8 DEF Update
  <2> QED BY <2>1
<1>12. TerminalRow(n) /\ v7_assert_activation_barrier(n, v, k)
  BY Zenon, <1>4, <1>5 DEF TerminalRow, v7_assert_activation_barrier
<1> HIDE DEF t
<1> QED BY Zenon, <1>2, <1>10, <1>11, <1>12 DEF v

(* No decision is a dead end: a claimed fence can always record its abort  *)
(* and a bound one its commit, past the repository's checks, the triggers  *)
(* and the deferred barrier.                                               *)
THEOREM DecisionsCanFinish == Spec => []DecisionCanFinish
<1>1. IInv /\ DataInv => DecisionCanFinish
  <2> SUFFICES ASSUME IInv, DataInv, fence # NoFence, fence.profile = "claim_v1", ~TerminalRow(fence)
               PROVE  DecisionCanFinish
    BY Zenon DEF DecisionCanFinish
  <2>1. Modern(fence) /\ Agree(fence, owner) /\ OwnerShape(owner) /\ Ready(fence, owner)
    BY Zenon DEF DataInv, IInv, RowsInv, Pair, Known
  <2>2. Claimed(fence) => owner = NoOwner
    BY Zenon, <2>1 DEF Agree
  <2>3. BoundRow(fence) => CommitmentOnly(owner, fence.binding) /\ OwnerFields(owner)
    BY Zenon, <2>1 DEF Agree, OwnerShape, Ready, CommitmentOnly, TerminalRow
  <2> QED BY Zenon, <2>1, <2>2, <2>3, AbortFinishes, CommitFinishes DEF DecisionCanFinish
<1> QED BY <1>1, DataHolds, PTL

(* The row the query of the kind selects: the owner, or none.              *)
Found(receipt, w) ==
    IF w = NoOwner THEN IF receipt # NoReceipt THEN Broken ELSE NoOutcome
    ELSE persistedOutcomeFromDatabaseRow(receipt, w)

(* The query of a kind finds the owner of the operation or nothing.        *)
LEMMA OutcomeCases ==
    ASSUME NEW k \in ClaimKinds, NEW receipt, NEW w
    PROVE  \/ persistedOutcomeForUpdate(k, receipt, w) = Found(receipt, NoOwner)
           \/ persistedOutcomeForUpdate(k, receipt, w) = Found(receipt, w)
<1> DEFINE row == CASE k = "grant_create" -> LockEnrollmentGrantCreateOutcome(w)
                 [] k = "grant_claim" -> LockEnrollmentGrantClaimOutcome(w)
                 [] k = "certificate_activate" -> LockCertificateIssuanceActivationOutcome(w)
                 [] k = "certificate_revoke" -> LockCertificateRevocationOutcome(w)
                 [] k \in {"identity_epoch_advance", "operator_transition"} -> LockStateTransitionOutcome(w)
                 [] k = "security_incident_open" -> LockSecurityIncidentOpenOutcome(w)
                 [] k = "security_incident_resolve" -> LockSecurityIncidentResolveOutcome(w)
                 [] k = "resource_envelope_activate" -> LockResourceEnvelopeActivationOutcome(w)
                 [] k \in {"desired_activate", "recovery_activate"} -> LockStateSigningIntentActivationOutcome(w)
                 [] k \in {"root_publish", "metadata_publish"} -> LockRootMetadataPublishIntentActivationOutcome(w)
<1>1. \A g : OwnerIn(g, w) = w \/ OwnerIn(g, w) = NoOwner
  BY Zenon DEF OwnerIn
<1>2. row = w \/ row = NoOwner
  BY Zenon, <1>1 DEF ClaimKinds, LockEnrollmentGrantCreateOutcome, LockEnrollmentGrantClaimOutcome,
    LockCertificateIssuanceActivationOutcome, LockCertificateRevocationOutcome, LockStateTransitionOutcome,
    LockSecurityIncidentOpenOutcome, LockSecurityIncidentResolveOutcome, LockResourceEnvelopeActivationOutcome,
    LockStateSigningIntentActivationOutcome, LockRootMetadataPublishIntentActivationOutcome
<1>3. persistedOutcomeForUpdate(k, receipt, w) = Found(receipt, row)
  BY Zenon DEF persistedOutcomeForUpdate, Found
<1> HIDE DEF row
<1> QED BY Zenon, <1>2, <1>3

(* An owner of the kind is the row its query selects.                      *)
LEMMA OwnerIsFound ==
    ASSUME NEW receipt, NEW w, w.phase # None,
           w.group \in DOMAIN ExpectedKinds, NEW k \in ExpectedKinds[w.group]
    PROVE  persistedOutcomeForUpdate(k, receipt, w) = Found(receipt, w)
<1> DEFINE row == CASE k = "grant_create" -> LockEnrollmentGrantCreateOutcome(w)
                 [] k = "grant_claim" -> LockEnrollmentGrantClaimOutcome(w)
                 [] k = "certificate_activate" -> LockCertificateIssuanceActivationOutcome(w)
                 [] k = "certificate_revoke" -> LockCertificateRevocationOutcome(w)
                 [] k \in {"identity_epoch_advance", "operator_transition"} -> LockStateTransitionOutcome(w)
                 [] k = "security_incident_open" -> LockSecurityIncidentOpenOutcome(w)
                 [] k = "security_incident_resolve" -> LockSecurityIncidentResolveOutcome(w)
                 [] k = "resource_envelope_activate" -> LockResourceEnvelopeActivationOutcome(w)
                 [] k \in {"desired_activate", "recovery_activate"} -> LockStateSigningIntentActivationOutcome(w)
                 [] k \in {"root_publish", "metadata_publish"} -> LockRootMetadataPublishIntentActivationOutcome(w)
<1>1. row = w
  BY DEF ExpectedKinds, OwnerIn, LockEnrollmentGrantCreateOutcome, LockEnrollmentGrantClaimOutcome,
    LockCertificateIssuanceActivationOutcome, LockCertificateRevocationOutcome, LockStateTransitionOutcome,
    LockSecurityIncidentOpenOutcome, LockSecurityIncidentResolveOutcome, LockResourceEnvelopeActivationOutcome,
    LockStateSigningIntentActivationOutcome, LockRootMetadataPublishIntentActivationOutcome
<1>2. persistedOutcomeForUpdate(k, receipt, w) = Found(receipt, row)
  BY Zenon DEF persistedOutcomeForUpdate, Found
<1> HIDE DEF row
<1> QED BY Zenon, <1>1, <1>2

(* Without a receipt nothing is found but an outcome that is not there or  *)
(* one that is broken, and no owner short of its proof is broken.          *)
LEMMA FoundWithoutReceipt ==
    ASSUME NEW w
    PROVE  /\ Found(NoReceipt, w) \in {Broken, NoOutcome}
           /\ w = NoOwner \/ w.phase \in {"prepared", "commitment"} => Found(NoReceipt, w) = NoOutcome
BY Zenon DEF Found, persistedOutcomeFromDatabaseRow

(* What the lock makes of a row of version 7.                              *)
LEMMA LockOfModern ==
    ASSUME NEW k, NEW f, Modern(f), NEW w, persistedOutcomeForUpdate(k, f.receipt, w).ok
    PROVE  Lock(k, f, w) = [ok |-> TRUE, stored |-> StoredOf(f),
                            outcome |-> persistedOutcomeForUpdate(k, f.receipt, w)]
<1>1. storedFenceFromV7Row(f) = StoredOf(f) /\ StoredOf(f).ok /\ StoredOf(f).record.receipt = f.receipt
  BY Zenon, Stored, StoredFields, RecordFields
<1>2. f.profile = "claim_v1"
  BY Zenon DEF Modern, Lawful
<1> QED BY <1>1, <1>2, Zenon DEF Lock

(* The outcome of an operation that was finally not applied is found by    *)
(* the query its kind selects and comes back as it was written.            *)
THEOREM FinalOutcomesAreReadable == Spec => []FinalOutcomeReadable
<1>1. IInv /\ DataInv => FinalOutcomeReadable
  <2> SUFFICES ASSUME IInv, DataInv, owner.phase = "terminal", owner.proof = "final_not_applied"
               PROVE  /\ Lock(kind, fence, owner).ok
                      /\ Lock(kind, fence, owner).outcome.proof = owner.proof
                      /\ Lock(kind, fence, owner).outcome.receipt = fence.receipt
    BY Zenon DEF FinalOutcomeReadable
  <2> DEFINE out == [ok |-> TRUE, proof |-> owner.proof, binding |-> owner.binding, receipt |-> fence.receipt]
  <2>1. owner # NoOwner /\ owner.phase # None
    BY DEF NoOwner, None
  <2>2. /\ fence.profile = "claim_v1" /\ Modern(fence) /\ Agree(fence, owner)
        /\ owner.group \in DOMAIN ExpectedKinds /\ kind \in ExpectedKinds[owner.group]
    BY <2>1 DEF DataInv, IInv, RowsInv, Known, Serves, NoFence, None
  <2>3. fence.receipt # NoReceipt
    <3>1. fence.status = "committed"
      BY Zenon, <2>2 DEF Agree
    <3> QED BY Zenon, <2>2, <3>1, Receipts DEF Modern, Columns, TerminalRow
  <2>4. Found(fence.receipt, owner) = out
    <3>1. ~(v7_authority_proof_group_valid(owner.proof).checkpoint
              # v7_authority_proof_group_valid(owner.proof).times)
      BY Zenon DEF v7_authority_proof_group_valid
    <3>2. owner.phase \notin {"prepared", "commitment"}
      BY Zenon
    <3> QED BY <2>1, <2>3, <3>1, <3>2, Zenon DEF Found, persistedOutcomeFromDatabaseRow
  <2>5. out.ok /\ out.proof = owner.proof /\ out.receipt = fence.receipt
    BY Zenon
  <2> HIDE DEF out
  <2>6. persistedOutcomeForUpdate(kind, fence.receipt, owner) = out
    BY Zenon, <2>1, <2>2, <2>4, OwnerIsFound
  <2>7. Lock(kind, fence, owner) = [ok |-> TRUE, stored |-> StoredOf(fence), outcome |-> out]
    BY Zenon, <2>2, <2>5, <2>6, LockOfModern
  <2>8. Lock(kind, fence, owner).ok /\ Lock(kind, fence, owner).outcome = out
    <3> DEFINE answer == [ok |-> TRUE, stored |-> StoredOf(fence), outcome |-> out]
    <3>1. answer.ok /\ answer.outcome = out
      BY Zenon
    <3> HIDE DEF answer
    <3> QED BY Zenon, <2>7, <3>1 DEF answer
  <2> QED BY Zenon, <2>5, <2>8
<1> QED BY <1>1, DataHolds, PTL

(* What a reader between its two statements knows: a fence that had ended  *)
(* when it was read has the same row and the same owner still, or none.    *)
ReaderInv ==
    reader.at \in {"outcome", "done"} =>
        /\ Modern(reader.fence) /\ Agree(reader.fence, reader.owner) /\ OwnerShape(reader.owner)
        /\ kind \in ClaimKinds
        /\ reader.at = "outcome" /\ TerminalRow(reader.fence) =>
              fence = reader.fence /\ (owner = reader.owner \/ owner = NoOwner)
        /\ reader.at = "done" =>
              /\ reader.stored = StoredOf(reader.fence)
              /\ \/ reader.outcome = persistedOutcomeForUpdate(kind, reader.fence.receipt, reader.owner)
                 \/ ~TerminalRow(reader.fence) /\ reader.outcome \in {Broken, NoOutcome}
                 \/ reader.outcome = Broken

(* A fence that has ended keeps its row, and its owner or none.            *)
LEMMA EndedStays ==
    ASSUME IInv, DataInv, Commit, fence.profile = "claim_v1", TerminalRow(fence)
    PROVE  fence' = fence /\ (owner' = owner \/ owner' = NoOwner)
<1>1. tx.open /\ fence' = tx.fence /\ owner' = tx.owner
  BY Zenon DEF Commit
<1>2. tx # NoTx
  BY <1>1 DEF NoTx
<1> QED BY Zenon, <1>1, <1>2 DEF DataInv, Working

(* The first statement of GetStoredFence establishes what a reader knows.  *)
LEMMA ReadFenceReads == ASSUME IInv, DataInv, ReadFence PROVE ReaderInv'
<1>1. /\ reader' = [at |-> "outcome", fence |-> fence, owner |-> owner]
      /\ fence' = fence /\ owner' = owner /\ kind' = kind /\ fence # NoFence /\ fence.profile = "claim_v1"
  BY Zenon DEF ReadFence
<1>2. Modern(fence) /\ Agree(fence, owner) /\ OwnerShape(owner) /\ kind \in ClaimKinds
  BY Zenon, <1>1 DEF DataInv, IInv, RowsInv, Known, Pair, Asked
<1>3. reader'.at = "outcome" /\ reader'.fence = fence /\ reader'.owner = owner
  BY Zenon, <1>1
<1> QED BY Zenon, <1>1, <1>2, <1>3 DEF ReaderInv

(* The second one finds the outcome that belonged to the fence it read.    *)
LEMMA ReadOutcomeReads == ASSUME IInv, DataInv, ReaderInv, ReadOutcome PROVE ReaderInv'
<1>1. /\ reader.at = "outcome" /\ kind' = kind
      /\ reader' = [at |-> "done", fence |-> reader.fence, owner |-> reader.owner,
                    stored |-> storedFenceFromV7Row(reader.fence),
                    outcome |-> persistedOutcomeForUpdate(kind,
                                    storedFenceFromV7Row(reader.fence).record.receipt, owner)]
  BY Zenon DEF ReadOutcome
<1>2. /\ Modern(reader.fence) /\ Agree(reader.fence, reader.owner) /\ OwnerShape(reader.owner)
      /\ kind \in ClaimKinds
      /\ TerminalRow(reader.fence) => owner = reader.owner \/ owner = NoOwner
  BY Zenon, <1>1 DEF ReaderInv
<1>3. /\ storedFenceFromV7Row(reader.fence) = StoredOf(reader.fence)
      /\ storedFenceFromV7Row(reader.fence).record.receipt = reader.fence.receipt
  BY <1>2, Stored, StoredFields, RecordFields, SMTT(60)
<1>4. /\ reader'.at = "done" /\ reader'.fence = reader.fence /\ reader'.owner = reader.owner
      /\ reader'.stored = StoredOf(reader.fence)
      /\ reader'.outcome = persistedOutcomeForUpdate(kind, reader.fence.receipt, owner)
  BY Zenon, <1>1, <1>3
<1>5. ~TerminalRow(reader.fence) => reader'.outcome \in {Broken, NoOutcome}
  <2> SUFFICES ASSUME ~TerminalRow(reader.fence) PROVE reader'.outcome \in {Broken, NoOutcome}
    BY Zenon
  <2>1. reader.fence.receipt = NoReceipt
    BY Zenon, <1>2 DEF Modern, Columns
  <2> QED BY Zenon, <1>2, <1>4, <2>1, OutcomeCases, FoundWithoutReceipt
<1>6. ASSUME TerminalRow(reader.fence), owner = NoOwner PROVE reader'.outcome = Broken
  <2>1. reader.fence.receipt # NoReceipt
    BY Zenon, <1>2, <1>6, Receipts DEF Modern, Columns
  <2>2. Found(reader.fence.receipt, NoOwner) = Broken
    BY Zenon, <2>1 DEF Found
  <2>3. persistedOutcomeForUpdate(kind, reader.fence.receipt, owner) = Found(reader.fence.receipt, NoOwner)
    BY Zenon, <1>2, <1>6, OutcomeCases
  <2> QED BY Zenon, <1>4, <2>2, <2>3
<1> QED BY Zenon, <1>1, <1>2, <1>4, <1>5, <1>6 DEF ReaderInv

(* What leaves the reader and the kind alone, and an ended fence, leaves   *)
(* what the reader knows.                                                  *)
LEMMA ReaderIsLeft ==
    ASSUME ReaderInv, UNCHANGED <<reader, kind>>,
           fence.profile = "claim_v1" /\ TerminalRow(fence) =>
               fence' = fence /\ (owner' = owner \/ owner' = NoOwner)
    PROVE  ReaderInv'
BY Zenon DEF ReaderInv, Modern, Lawful

(* Every step keeps what a reader knows.                                   *)
LEMMA StepReader == ASSUME IInv, DataInv, ReaderInv, [Next]_vars PROVE ReaderInv'
<1>1. CASE ReadFence
  BY Zenon, <1>1, ReadFenceReads
<1>2. CASE ReadOutcome
  BY Zenon, <1>2, ReadOutcomeReads
<1>3. CASE ReadReturn
  BY Zenon, <1>3 DEF ReadReturn, ReaderInv, NoRead, None
<1>4. CASE Commit
  BY Zenon, <1>4, EndedStays, ReaderIsLeft DEF Commit
<1>5. CASE CallRecordPending \/ CallRecordPendingClaimV1 \/ CallClaimAbort
           \/ CallBindEffect \/ CallActivateCommitted \/ CallRecordAborted
  <2>1. UNCHANGED <<reader, kind, fence, owner>>
    BY Zenon, <1>5 DEF CallRecordPending, CallRecordPendingClaimV1, CallClaimAbort, CallBindEffect,
         CallActivateCommitted, CallRecordAborted, Call
  <2> QED BY Zenon, <2>1, ReaderIsLeft
<1>6. CASE \/ \E g \in DOMAIN ExpectedKinds, b \in Bindings : PrepareOwner(g, b)
           \/ \E b \in Bindings : CommitOwner(b)
           \/ \E p \in Proofs : TerminateOwner(p)
           \/ DeleteOwner
  <2>1. UNCHANGED <<reader, kind, fence, owner>>
    BY Zenon, <1>6 DEF PrepareOwner, CommitOwner, TerminateOwner, DeleteOwner, OwnerWrite
  <2> QED BY <2>1, ReaderIsLeft
<1>7. CASE Rollback \/ AcquireFreeze \/ SealWork \/ SealCommit \/ SealFail \/ UNCHANGED vars
  <2>1. UNCHANGED <<reader, kind, fence, owner>>
    BY Zenon, <1>7 DEF Rollback, AcquireFreeze, SealWork, SealCommit, SealFail, vars
  <2> QED BY <2>1, ReaderIsLeft
<1> QED BY Zenon, <1>1, <1>2, <1>3, <1>4, <1>5, <1>6, <1>7 DEF Next

(* GetStoredFence reads the fence and the outcome in two statements, each  *)
(* with a snapshot of its own; an answer it gives is nevertheless the one  *)
(* a single transaction would have read with the fence.                    *)
THEOREM StoredFencesAreOneInstant == Spec => []StoredFenceIsOneInstant
<1>1. ReaderInv => StoredFenceIsOneInstant
  <2> SUFFICES ASSUME ReaderInv, reader.at = "done", reader.outcome.ok
               PROVE  Lock(kind, reader.fence, reader.owner)
                        = [ok |-> TRUE, stored |-> reader.stored, outcome |-> reader.outcome]
    BY Zenon DEF StoredFenceIsOneInstant
  <2> DEFINE out == persistedOutcomeForUpdate(kind, reader.fence.receipt, reader.owner)
  <2>1. /\ Modern(reader.fence) /\ Agree(reader.fence, reader.owner) /\ OwnerShape(reader.owner)
        /\ kind \in ClaimKinds /\ reader.stored = StoredOf(reader.fence)
        /\ \/ reader.outcome = out
           \/ ~TerminalRow(reader.fence) /\ reader.outcome \in {Broken, NoOutcome}
    <3>1. reader.outcome # Broken
      BY DEF Broken
    <3> QED BY Zenon, <3>1 DEF ReaderInv
  <2>2. reader.outcome = out
    <3> SUFFICES ASSUME ~TerminalRow(reader.fence), reader.outcome \in {Broken, NoOutcome}
                 PROVE  reader.outcome = out
      BY Zenon, <2>1
    <3>1. reader.outcome = NoOutcome
      BY DEF Broken
    <3>2. reader.fence.receipt = NoReceipt /\ reader.fence.profile = "claim_v1"
      BY Zenon, <2>1 DEF Modern, Columns, Lawful
    <3>3. reader.owner.phase # "terminal"
      BY Zenon, <2>1, <3>2 DEF Agree, TerminalRow
    <3>4. reader.owner = NoOwner \/ reader.owner.phase \in {"prepared", "commitment"}
      BY Zenon, <2>1, <3>3 DEF OwnerShape
    <3>5. Found(NoReceipt, reader.owner) = NoOutcome /\ Found(NoReceipt, NoOwner) = NoOutcome
      BY Zenon, <3>4, FoundWithoutReceipt
    <3> QED BY Zenon, <2>1, <3>1, <3>2, <3>5, OutcomeCases
  <2> HIDE DEF out
  <2>3. out.ok
    BY Zenon, <2>2
  <2>4. persistedOutcomeForUpdate(kind, reader.fence.receipt, reader.owner) = out
    BY Zenon DEF out
  <2>5. Lock(kind, reader.fence, reader.owner)
          = [ok |-> TRUE, stored |-> StoredOf(reader.fence), outcome |-> out]
    <3>1. Modern(reader.fence)
      BY Zenon, <2>1
    <3>2. persistedOutcomeForUpdate(kind, reader.fence.receipt, reader.owner).ok
      BY Zenon, <2>3, <2>4
    <3>3. Lock(kind, reader.fence, reader.owner)
            = [ok |-> TRUE, stored |-> StoredOf(reader.fence),
               outcome |-> persistedOutcomeForUpdate(kind, reader.fence.receipt, reader.owner)]
      BY <3>1, <3>2, LockOfModern, ZenonT(60)
    <3> QED BY Zenon, <2>4, <3>3
  <2> QED BY Zenon, <2>1, <2>2, <2>5
<1>2. Init => ReaderInv
  BY DEF Init, ReaderInv, NoRead, None
<1> QED BY <1>1, <1>2, DataHolds, StepReader, PTL DEF Spec

(* Whatever the repository and the triggers commit can be decoded, decided *)
(* and read: no row stops the operation it belongs to.                     *)
THEOREM RowsAlwaysLeadOn == Spec => []RowsLeadOn
<1>1. RowsDecode /\ DecisionCanFinish /\ FinalOutcomeReadable => RowsLeadOn
  BY Zenon DEF RowsLeadOn
<1> QED BY <1>1, CommittedRowsDecode, DecisionsCanFinish, FinalOutcomesAreReadable, PTL

=============================================================================
