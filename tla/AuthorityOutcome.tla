-------------------------- MODULE AuthorityOutcome --------------------------
(***************************************************************************)
(* What the authority fence promises, without the calls that bring it      *)
(* about: an operation is reserved at the provider, gets a fence row, is   *)
(* bound to its committed effect, is committed or aborted once by the      *)
(* provider, and its row follows.  Each action is one write of the         *)
(* provider or one committed transaction of the database.  AuthorityFence  *)
(* is the coordinator that implements it, AuthorityReadiness the check     *)
(* that compares the two stores.                                           *)
(*                                                                         *)
(* Abstractions.  An effect digest and an abort reason are model values; a *)
(* receipt stands for its receipt digest (equal digests iff equal          *)
(* receipts); a database point is its WAL position, which every committed  *)
(* write advances.  Reservation identity is the sequence number: the kind, *)
(* the scope and the epoch are fixed per operation.                        *)
(***************************************************************************)
EXTENDS Integers, FiniteSets

CONSTANTS
    Ops,              \* operation ids
    NoOp,
    Digests,          \* effect digests
    NoDigest,
    Reasons,          \* abort reasons
    ValidationFailed, \* AbortValidationFailed, the reason Recover uses
    NoReason

ASSUME ConstantsAssumption ==
    /\ NoOp \notin Ops
    /\ NoDigest \notin Digests
    /\ NoReason \notin Reasons
    /\ ValidationFailed \in Reasons

VARIABLES
    prov,       \* prov[o]: the provider's record of operation o
    nextSeq,    \* the provider's latest reserved sequence
    db,         \* db[o]: the fence row of operation o
    effect,     \* effect[o]: the domain effect, as the resolver reports it
    lsn         \* the database's current WAL position

stores == <<prov, nextSeq, db, effect, lsn>>

NoPoint == 0

NoReceipt ==
    [status |-> "none", digest |-> NoDigest, point |-> NoPoint, reason |-> NoReason]

NoRecord ==
    [seq |-> 0, digest |-> NoDigest, point |-> NoPoint, receipt |-> NoReceipt]

NoEffect == [state |-> "absent", digest |-> NoDigest]

Receipts == [status : {"none", "committed", "aborted"}, digest : Digests \cup {NoDigest},
             point : Nat, reason : Reasons \cup {NoReason}]

Records == [seq : Nat, digest : Digests \cup {NoDigest}, point : Nat, receipt : Receipts]

Effects == {NoEffect} \cup [state : {"prepared", "committed", "terminal"}, digest : Digests]

Terminal(r) == r.receipt # NoReceipt

Bound(r) == r.digest # NoDigest

CommittedReceipt(d, pt) ==
    [status |-> "committed", digest |-> d, point |-> pt, reason |-> NoReason]

AbortedReceipt(why) ==
    [status |-> "aborted", digest |-> NoDigest, point |-> NoPoint, reason |-> why]

SameBinding(r, s) == r.digest = s.digest /\ r.point = s.point

(* Record.Validate: a terminal record carries the binding of its receipt.  *)
ValidRecord(r) ==
    Terminal(r) => r.digest = r.receipt.digest /\ r.point = r.receipt.point

StoresInit ==
    /\ prov = [o \in Ops |-> NoRecord]
    /\ nextSeq = 0
    /\ db = [o \in Ops |-> NoRecord]
    /\ effect = [o \in Ops |-> NoEffect]
    /\ lsn = 1

-----------------------------------------------------------------------------
(* Reservation and the business writer.                                    *)

(* Coordinator.Reserve: one idempotent provider call.                      *)
Reserve(o) ==
    /\ prov[o].seq = 0
    /\ nextSeq' = nextSeq + 1
    /\ prov' = [prov EXCEPT ![o].seq = nextSeq + 1]
    /\ UNCHANGED <<db, effect, lsn>>

(* PostgresRepository.RecordPending's insert.                              *)
InsertPending(o, seq) ==
    /\ db' = [db EXCEPT ![o] = [NoRecord EXCEPT !.seq = seq]]
    /\ lsn' = lsn + 1

WrittenEffects == [state : {"prepared", "committed"}, digest : Digests]

(* The business writer's first transaction: the pending fence row and,     *)
(* with it or later, the domain effect.                                    *)
WriterRecordPending(o) ==
    /\ prov[o].seq # 0
    /\ db[o].seq = 0
    /\ InsertPending(o, prov[o].seq)
    /\ \E e \in WrittenEffects \cup {NoEffect} : effect' = [effect EXCEPT ![o] = e]
    /\ UNCHANGED <<prov, nextSeq>>

(* A later transaction of the writer: the effect of a fence that is still  *)
(* pending and unbound is prepared, or committed.                          *)
WriterAdvanceEffect(o) ==
    /\ db[o].seq # 0
    /\ ~Terminal(db[o])
    /\ ~Bound(db[o])
    /\ \E e \in WrittenEffects :
          /\ \/ effect[o].state = "absent"
             \/ effect[o].state = "prepared" /\ e.state = "committed"
          /\ effect' = [effect EXCEPT ![o] = e]
    /\ lsn' = lsn + 1
    /\ UNCHANGED <<prov, nextSeq, db>>

(* The domain marks a committed effect terminal once its fence is active.  *)
WriterCloseEffect(o) ==
    /\ effect[o].state = "committed"
    /\ db[o].receipt.status = "committed"
    /\ effect' = [effect EXCEPT ![o].state = "terminal"]
    /\ lsn' = lsn + 1
    /\ UNCHANGED <<prov, nextSeq, db>>

-----------------------------------------------------------------------------
(* The writes of Finalize, Abort and Recover.                              *)

EffectCommitted(o, d) ==
    effect[o].state \in {"committed", "terminal"} /\ effect[o].digest = d

(* The row is bound to the digest of the committed effect and to a         *)
(* database point captured before.                                         *)
Bind(o, pt) ==
    /\ db[o].seq # 0 /\ ~Terminal(db[o]) /\ ~Bound(db[o])
    /\ EffectCommitted(o, effect[o].digest)
    /\ db' = [db EXCEPT ![o].digest = effect[o].digest, ![o].point = pt]
    /\ lsn' = lsn + 1
    /\ UNCHANGED <<prov, nextSeq, effect>>

(* The provider commits what the row is bound to.                          *)
Commit(o) ==
    LET r == CommittedReceipt(db[o].digest, db[o].point) IN
    /\ prov[o].seq # 0 /\ ~Terminal(prov[o])
    /\ Bound(db[o])
    /\ EffectCommitted(o, db[o].digest)
    /\ prov' = [prov EXCEPT ![o].digest = r.digest, ![o].point = r.point, ![o].receipt = r]
    /\ UNCHANGED <<nextSeq, db, effect, lsn>>

(* The provider aborts an operation that has a row; the effect may have    *)
(* been written since it was looked for.                                   *)
Abort(o, why) ==
    /\ prov[o].seq # 0 /\ ~Terminal(prov[o])
    /\ db[o].seq # 0
    /\ prov' = [prov EXCEPT ![o].receipt = AbortedReceipt(why)]
    /\ UNCHANGED <<nextSeq, db, effect, lsn>>

(* The row takes the provider's receipt.  A committed receipt must carry   *)
(* the binding of the row; an aborted one has no binding to compare.       *)
Follow(o) ==
    /\ db[o].seq # 0 /\ ~Terminal(db[o])
    /\ Terminal(prov[o])
    /\ prov[o].receipt.digest # NoDigest => SameBinding(db[o], prov[o].receipt)
    /\ db' = [db EXCEPT ![o].receipt = prov[o].receipt]
    /\ lsn' = lsn + 1
    /\ UNCHANGED <<prov, nextSeq, effect>>

Write(o) ==
    \/ Reserve(o)
    \/ WriterRecordPending(o)
    \/ WriterAdvanceEffect(o)
    \/ WriterCloseEffect(o)

Decide(o) ==
    \/ Commit(o)
    \/ \E why \in Reasons : Abort(o, why)
    \/ Follow(o)

OutcomeNext == \E o \in Ops : Write(o) \/ Decide(o) \/ \E pt \in 0 .. lsn : Bind(o, pt)

(* What the coordinator implements: the two stores change only by these    *)
(* writes, each under its guard, whatever Finalize, Abort and Recover      *)
(* calls are under way.                                                    *)
OutcomeSpec == StoresInit /\ [][OutcomeNext]_stores

-----------------------------------------------------------------------------
(* Properties of the two stores.                                           *)

(* A fence row is terminal only with the receipt the provider holds:       *)
(* ActivateCommitted and RecordAborted never write an outcome the          *)
(* provider did not decide, whatever calls race, fail or are repeated.     *)
RowFollowsProvider ==
    \A o \in Ops : Terminal(db[o]) => db[o].receipt = prov[o].receipt

(* The provider commits an operation only when its effect is committed     *)
(* with that digest and the row is bound to that digest and that database  *)
(* point, so that a later Recover can always explain the receipt.          *)
CommitIsBacked ==
    \A o \in Ops : prov[o].receipt.status = "committed" =>
        /\ effect[o].state \in {"committed", "terminal"}
        /\ effect[o].digest = prov[o].receipt.digest
        /\ Bound(db[o]) /\ SameBinding(db[o], prov[o].receipt)

(* An operation the provider aborted has no domain effect: what the design *)
(* of the abort path asks for, and what the check-then-act order of Abort  *)
(* and Recover does not give (the resolver's answer is stale when          *)
(* Provider.Abort is called).                                              *)
AbortedHasNoEffect ==
    \A o \in Ops : prov[o].receipt.status = "aborted" => effect[o].state = "absent"
=============================================================================
