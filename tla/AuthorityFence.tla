--------------------------- MODULE AuthorityFence ---------------------------
(***************************************************************************)
(* The authority fence of the node control plane: the Coordinator          *)
(* (internal/nodecontrol/authority/coordinator.go) drives every authority  *)
(* operation to one terminal outcome that an external, rollback-resistant  *)
(* Provider and a row of the PostgreSQL fence table agree on, while a      *)
(* business writer commits the operation's domain effect.                  *)
(*                                                                         *)
(* Any number of callers run Finalize, Abort and Recover concurrently.     *)
(* Each provider call, each repository read, each resolver read and each   *)
(* short transaction is one atomic step; between two steps anything may    *)
(* happen, and a call may end with an error at any of them: a cancelled    *)
(* context, a crash, a lost response or an ambiguous COMMIT leaves the     *)
(* effects of the steps already taken.                                     *)
(*                                                                         *)
(* The stores and their abstractions are those of AuthorityOutcome; the    *)
(* clock is abstracted to "equal to the stored stamp or not".              *)
(***************************************************************************)
EXTENDS AuthorityOutcome

CONSTANT Callers    \* concurrent calls into the Coordinator

VARIABLES
    call,       \* call[c]: where caller c is and what it has read
    returned    \* returned[o]: the receipts successful calls have handed back

vars == <<prov, nextSeq, db, effect, lsn, call, returned>>

Labels == {"idle",
           "finGet", "finResolve", "finCapture", "finBind", "finReread", "finProvider",
           "activate",
           "abGet", "abInspect", "abResolve", "abProvider", "recordAborted",
           "recInspect", "recResolve", "recGet", "recPending", "recReread"}

Calls == [pc : Labels, op : Ops \cup {NoOp}, digest : Digests \cup {NoDigest},
          reason : Reasons \cup {NoReason}, point : Nat, receipt : Receipts,
          rec : Records, prec : Records, eff : Effects]

Idle == [pc |-> "idle", op |-> NoOp, digest |-> NoDigest, reason |-> NoReason,
         point |-> NoPoint, receipt |-> NoReceipt,
         rec |-> NoRecord, prec |-> NoRecord, eff |-> NoEffect]

Init ==
    /\ StoresInit
    /\ call = [c \in Callers |-> Idle]
    /\ returned = [o \in Ops |-> {}]

-----------------------------------------------------------------------------
(* Control of a call: go on to another step, or return.                    *)

Goto(c, next) ==
    /\ call' = [call EXCEPT ![c] = next]
    /\ UNCHANGED returned

ReturnError(c) == Goto(c, Idle)

ReturnReceipt(c, o, r) ==
    /\ call' = [call EXCEPT ![c] = Idle]
    /\ returned' = [returned EXCEPT ![o] = @ \cup {r}]

At(label, o) == [Idle EXCEPT !.pc = label, !.op = o]

AtActivate(o, r) == [Idle EXCEPT !.pc = "activate", !.op = o, !.receipt = r]

AtRecordAborted(o, r) == [Idle EXCEPT !.pc = "recordAborted", !.op = o, !.receipt = r]

AtProviderAbort(o, why, p) ==
    [Idle EXCEPT !.pc = "abProvider", !.op = o, !.reason = why, !.prec = p]

AtProviderFinalize(o, d, pt) ==
    [Idle EXCEPT !.pc = "finProvider", !.op = o, !.digest = d, !.point = pt]

(* A call ends early: cancellation, a failing dependency, a lost response, *)
(* an ambiguous COMMIT or the crash of the process.                        *)
Fail(c) ==
    /\ call[c].pc # "idle"
    /\ ReturnError(c)
    /\ UNCHANGED <<prov, nextSeq, db, effect, lsn>>

-----------------------------------------------------------------------------
(* Coordinator.Finalize.                                                   *)

FinalizeCall(c, o, d) ==
    /\ call[c].pc = "idle"
    /\ Goto(c, [At("finGet", o) EXCEPT !.digest = d])
    /\ UNCHANGED <<prov, nextSeq, db, effect, lsn>>

FinalizeGet(c) ==
    LET o == call[c].op IN
    /\ call[c].pc = "finGet"
    /\ IF db[o].seq = 0
       THEN ReturnError(c)
       ELSE Goto(c, [call[c] EXCEPT !.pc = "finResolve", !.rec = db[o]])
    /\ UNCHANGED <<prov, nextSeq, db, effect, lsn>>

(* Mutant: a prepared effect is taken for a committed one.                 *)
FinalizePrepared(c) ==
    LET o == call[c].op
        d == call[c].digest
        r == call[c].rec
    IN
    /\ call[c].pc = "finResolve"
    /\ IF effect[o].state \notin {"prepared", "committed"} \/ effect[o].digest # d \/ Terminal(r)
       THEN ReturnError(c)
       ELSE IF Bound(r)
       THEN Goto(c, AtProviderFinalize(o, d, r.point))
       ELSE Goto(c, [At("finCapture", o) EXCEPT !.digest = d])
    /\ UNCHANGED <<prov, nextSeq, db, effect, lsn>>

(* The resolver's answer decides; a terminal record answers the call; a    *)
(* bound record goes straight to the provider with the stored point.       *)
FinalizeResolve(c) ==
    LET o == call[c].op
        d == call[c].digest
        r == call[c].rec
    IN
    /\ call[c].pc = "finResolve"
    /\ IF effect[o].state # "committed" \/ effect[o].digest # d
       THEN ReturnError(c)
       ELSE IF Terminal(r)
       THEN IF r.receipt.status = "committed" /\ r.receipt.digest = d
            THEN ReturnReceipt(c, o, r.receipt)
            ELSE ReturnError(c)
       ELSE IF Bound(r)
       THEN IF r.digest = d
            THEN Goto(c, AtProviderFinalize(o, d, r.point))
            ELSE ReturnError(c)
       ELSE Goto(c, [At("finCapture", o) EXCEPT !.digest = d])
    /\ UNCHANGED <<prov, nextSeq, db, effect, lsn>>

CaptureDatabasePoint(c) ==
    /\ call[c].pc = "finCapture"
    /\ Goto(c, [call[c] EXCEPT !.pc = "finBind", !.point = lsn])
    /\ UNCHANGED <<prov, nextSeq, db, effect, lsn>>

(* The BindEffect transaction.  A row that is bound already accepts only   *)
(* the same binding with the same stamp.                                   *)
BindEffect(c) ==
    LET o == call[c].op
        reread == [call[c] EXCEPT !.pc = "finReread"]
    IN
    /\ call[c].pc = "finBind"
    /\ \/ /\ db[o].seq # 0 /\ ~Terminal(db[o]) /\ ~Bound(db[o])
          /\ db' = [db EXCEPT ![o].digest = call[c].digest, ![o].point = call[c].point]
          /\ lsn' = lsn + 1
          /\ Goto(c, reread)
       \/ /\ db[o].receipt.status # "aborted"
          /\ SameBinding(db[o], call[c])
          /\ Goto(c, reread)
          /\ UNCHANGED <<db, lsn>>
       \/ /\ db[o].seq = 0 \/ Terminal(db[o]) \/ Bound(db[o])
          /\ ReturnError(c)
          /\ UNCHANGED <<db, lsn>>
    /\ UNCHANGED <<prov, nextSeq, effect>>

FinalizeReread(c) ==
    LET o == call[c].op IN
    /\ call[c].pc = "finReread"
    /\ IF SameBinding(db[o], call[c])
       THEN Goto(c, AtProviderFinalize(o, call[c].digest, call[c].point))
       ELSE ReturnError(c)
    /\ UNCHANGED <<prov, nextSeq, db, effect, lsn>>

(* Provider.Finalize: binds and commits a reserved record, repeats the     *)
(* receipt of the same request, refuses everything else.                   *)
ProviderFinalize(c) ==
    LET o == call[c].op
        r == CommittedReceipt(call[c].digest, call[c].point)
    IN
    /\ call[c].pc = "finProvider"
    /\ \/ /\ prov[o].seq # 0
          /\ ~Terminal(prov[o])
          /\ prov' = [prov EXCEPT ![o].digest = r.digest, ![o].point = r.point,
                                  ![o].receipt = r]
          /\ Goto(c, AtActivate(o, r))
       \/ /\ prov[o].receipt = r
          /\ Goto(c, AtActivate(o, r))
          /\ UNCHANGED prov
       \/ /\ prov[o].seq = 0 \/ (Terminal(prov[o]) /\ prov[o].receipt # r)
          /\ ReturnError(c)
          /\ UNCHANGED prov
    /\ UNCHANGED <<nextSeq, db, effect, lsn>>

(* The ActivateCommitted transaction.  A row that is committed already     *)
(* accepts only the same receipt with the same stamp.                      *)
ActivateCommitted(c) ==
    LET o == call[c].op
        r == call[c].receipt
    IN
    /\ call[c].pc = "activate"
    /\ \/ /\ db[o].seq # 0 /\ ~Terminal(db[o]) /\ SameBinding(db[o], r)
          /\ db' = [db EXCEPT ![o].receipt = r]
          /\ lsn' = lsn + 1
          /\ ReturnReceipt(c, o, r)
       \/ /\ db[o].receipt = r
          /\ ReturnReceipt(c, o, r)
          /\ UNCHANGED <<db, lsn>>
       \/ /\ db[o].seq = 0 \/ Terminal(db[o]) \/ ~SameBinding(db[o], r)
          /\ ReturnError(c)
          /\ UNCHANGED <<db, lsn>>
    /\ UNCHANGED <<prov, nextSeq, effect>>

-----------------------------------------------------------------------------
(* Coordinator.Abort.                                                      *)

AbortCall(c, o, why) ==
    /\ call[c].pc = "idle"
    /\ Goto(c, [At("abGet", o) EXCEPT !.reason = why])
    /\ UNCHANGED <<prov, nextSeq, db, effect, lsn>>

AbortGet(c) ==
    LET o == call[c].op IN
    /\ call[c].pc = "abGet"
    /\ IF db[o].seq = 0
       THEN ReturnError(c)
       ELSE Goto(c, [call[c] EXCEPT !.pc = "abInspect", !.rec = db[o]])
    /\ UNCHANGED <<prov, nextSeq, db, effect, lsn>>

(* Mutant: a repeated Abort answers for its own reason, not the stored one. *)
AbortAnyReason(c) ==
    LET o == call[c].op
        r == call[c].rec
    IN
    /\ call[c].pc = "abInspect"
    /\ IF Terminal(r) /\ r.receipt.status = "aborted"
       THEN ReturnReceipt(c, o, AbortedReceipt(call[c].reason))
       ELSE IF Terminal(r) \/ Terminal(prov[o])
       THEN ReturnError(c)
       ELSE Goto(c, [call[c] EXCEPT !.pc = "abResolve", !.prec = prov[o]])
    /\ UNCHANGED <<prov, nextSeq, db, effect, lsn>>

(* The provider's record must agree with the row read before it.  A        *)
(* terminal row answers the call; a provider that is terminal alone is     *)
(* followed only into an abort with the same reason.                       *)
AbortInspect(c) ==
    LET o == call[c].op
        r == call[c].rec
        p == prov[o]
        aborted == AbortedReceipt(call[c].reason)
    IN
    /\ call[c].pc = "abInspect"
    /\ IF ~ValidRecord(r) \/ p.seq # r.seq \/ ~SameBinding(p, r)
       THEN ReturnError(c)
       ELSE IF Terminal(r)
       THEN IF p.receipt = r.receipt /\ r.receipt = aborted
            THEN ReturnReceipt(c, o, r.receipt)
            ELSE ReturnError(c)
       ELSE IF Terminal(p) /\ p.receipt # aborted
       THEN ReturnError(c)
       ELSE Goto(c, [call[c] EXCEPT !.pc = "abResolve", !.prec = p])
    /\ UNCHANGED <<prov, nextSeq, db, effect, lsn>>

(* Mutant: the row is aborted before the provider is asked.                *)
AbortRowFirst(c) ==
    LET o == call[c].op IN
    /\ call[c].pc = "abResolve"
    /\ IF effect[o].state # "absent" \/ Bound(call[c].rec) \/ Bound(call[c].prec)
       THEN ReturnError(c)
       ELSE Goto(c, AtRecordAborted(o, AbortedReceipt(call[c].reason)))
    /\ UNCHANGED <<prov, nextSeq, db, effect, lsn>>

AbortResolve(c) ==
    LET o == call[c].op
        p == call[c].prec
    IN
    /\ call[c].pc = "abResolve"
    /\ IF effect[o].state # "absent" \/ Bound(call[c].rec) \/ Bound(p)
       THEN ReturnError(c)
       ELSE IF Terminal(p)
       THEN Goto(c, AtRecordAborted(o, p.receipt))
       ELSE Goto(c, AtProviderAbort(o, call[c].reason, p))
    /\ UNCHANGED <<prov, nextSeq, db, effect, lsn>>

(* Provider.Abort: aborts a reserved record whatever the database says,    *)
(* repeats the receipt of the same request, refuses everything else.       *)
ProviderAbort(c) ==
    LET o == call[c].op
        r == AbortedReceipt(call[c].reason)
    IN
    /\ call[c].pc = "abProvider"
    /\ \/ /\ prov[o].seq # 0
          /\ ~Terminal(prov[o])
          /\ prov' = [prov EXCEPT ![o].receipt = r]
          /\ Goto(c, AtRecordAborted(o, r))
       \/ /\ prov[o].receipt = r
          /\ Goto(c, AtRecordAborted(o, r))
          /\ UNCHANGED prov
       \/ /\ prov[o].seq = 0 \/ (Terminal(prov[o]) /\ prov[o].receipt # r)
          /\ ReturnError(c)
          /\ UNCHANGED prov
    /\ UNCHANGED <<nextSeq, db, effect, lsn>>

(* The RecordAborted transaction.  The receipt of an abort is unbound, and *)
(* an unbound receipt is not compared with the binding of the row.         *)
RecordAborted(c) ==
    LET o == call[c].op
        r == call[c].receipt
    IN
    /\ call[c].pc = "recordAborted"
    /\ \/ /\ db[o].seq # 0 /\ ~Terminal(db[o])
          /\ r.digest # NoDigest => SameBinding(db[o], r)
          /\ db' = [db EXCEPT ![o].receipt = r]
          /\ lsn' = lsn + 1
          /\ ReturnReceipt(c, o, r)
       \/ /\ db[o].receipt = r
          /\ ReturnReceipt(c, o, r)
          /\ UNCHANGED <<db, lsn>>
       \/ /\ db[o].seq = 0 \/ Terminal(db[o])
          /\ ReturnError(c)
          /\ UNCHANGED <<db, lsn>>
    /\ UNCHANGED <<prov, nextSeq, effect>>

-----------------------------------------------------------------------------
(* Coordinator.Recover.                                                    *)

RecoverCall(c, o) ==
    /\ call[c].pc = "idle"
    /\ Goto(c, At("recInspect", o))
    /\ UNCHANGED <<prov, nextSeq, db, effect, lsn>>

RecoverInspect(c) ==
    LET o == call[c].op IN
    /\ call[c].pc = "recInspect"
    /\ IF prov[o].seq = 0
       THEN ReturnError(c)
       ELSE Goto(c, [call[c] EXCEPT !.pc = "recResolve", !.prec = prov[o]])
    /\ UNCHANGED <<prov, nextSeq, db, effect, lsn>>

RecoverResolve(c) ==
    /\ call[c].pc = "recResolve"
    /\ Goto(c, [call[c] EXCEPT !.pc = "recGet", !.eff = effect[call[c].op]])
    /\ UNCHANGED <<prov, nextSeq, db, effect, lsn>>

(* What Recover decides from the provider record p, the effect e and the   *)
(* row r, read one after the other.                                        *)
RecoverDecide(c, o, p, e, r) ==
    IF \/ ~ValidRecord(r) \/ r.seq # p.seq
       \/ ~Terminal(p) /\ Bound(p)
       \/ Terminal(p) /\ ~SameBinding(r, p)
    THEN ReturnError(c)
    ELSE IF Terminal(r)
    THEN IF r.receipt = p.receipt
         THEN ReturnReceipt(c, o, p.receipt)
         ELSE ReturnError(c)
    ELSE IF p.receipt.status = "committed"
    THEN IF e.state = "committed" /\ e.digest = p.receipt.digest
         THEN Goto(c, AtActivate(o, p.receipt))
         ELSE ReturnError(c)
    ELSE IF p.receipt.status = "aborted"
    THEN IF e.state = "absent" /\ ~Bound(r)
         THEN Goto(c, AtRecordAborted(o, p.receipt))
         ELSE ReturnError(c)
    ELSE IF e.state = "absent" /\ ~Bound(r)
    THEN Goto(c, AtProviderAbort(o, ValidationFailed, p))
    ELSE IF e.state = "committed"
    THEN Goto(c, [At("finGet", o) EXCEPT !.digest = e.digest])
    ELSE ReturnError(c)

(* Mutant: a reservation whose row was never written is refused.           *)
RecoverNeedsRow(c) ==
    LET o == call[c].op IN
    /\ call[c].pc = "recGet"
    /\ IF db[o].seq # 0
       THEN RecoverDecide(c, o, call[c].prec, call[c].eff, db[o])
       ELSE ReturnError(c)
    /\ UNCHANGED <<prov, nextSeq, db, effect, lsn>>

(* The row is read; when it is missing, only an operation that is still    *)
(* reserved, unbound and without effect gets a new pending row.            *)
RecoverGet(c) ==
    LET o == call[c].op
        p == call[c].prec
    IN
    /\ call[c].pc = "recGet"
    /\ IF db[o].seq # 0
       THEN RecoverDecide(c, o, p, call[c].eff, db[o])
       ELSE IF Terminal(p) \/ Bound(p) \/ call[c].eff.state # "absent"
       THEN ReturnError(c)
       ELSE Goto(c, [call[c] EXCEPT !.pc = "recPending"])
    /\ UNCHANGED <<prov, nextSeq, db, effect, lsn>>

(* The RecordPending transaction of Recover.  A row written in the         *)
(* meantime is accepted only when it carries the same stamp.               *)
RecoverRecordPending(c) ==
    LET o == call[c].op IN
    /\ call[c].pc = "recPending"
    /\ \/ /\ db[o].seq = 0
          /\ InsertPending(o, call[c].prec.seq)
          /\ Goto(c, [call[c] EXCEPT !.pc = "recReread"])
       \/ /\ db[o].seq # 0
          /\ \/ Goto(c, [call[c] EXCEPT !.pc = "recReread"])
             \/ ReturnError(c)
          /\ UNCHANGED <<db, lsn>>
    /\ UNCHANGED <<prov, nextSeq, effect>>

RecoverReread(c) ==
    LET o == call[c].op IN
    /\ call[c].pc = "recReread"
    /\ IF db[o].seq # 0
       THEN RecoverDecide(c, o, call[c].prec, call[c].eff, db[o])
       ELSE ReturnError(c)
    /\ UNCHANGED <<prov, nextSeq, db, effect, lsn>>

-----------------------------------------------------------------------------
Environment ==
    /\ \E o \in Ops : Write(o)
    /\ UNCHANGED <<call, returned>>

StartCall(c) ==
    \E o \in Ops :
        \/ \E d \in Digests : FinalizeCall(c, o, d)
        \/ \E why \in Reasons : AbortCall(c, o, why)
        \/ RecoverCall(c, o)

Step(c) ==
    \/ FinalizeGet(c) \/ FinalizeResolve(c) \/ CaptureDatabasePoint(c)
    \/ BindEffect(c) \/ FinalizeReread(c) \/ ProviderFinalize(c) \/ ActivateCommitted(c)
    \/ AbortGet(c) \/ AbortInspect(c) \/ AbortResolve(c)
    \/ ProviderAbort(c) \/ RecordAborted(c)
    \/ RecoverInspect(c) \/ RecoverResolve(c) \/ RecoverGet(c)
    \/ RecoverRecordPending(c) \/ RecoverReread(c)

Next ==
    \/ Environment
    \/ \E c \in Callers : StartCall(c) \/ Step(c) \/ Fail(c)

Spec == Init /\ [][Next]_vars

-----------------------------------------------------------------------------
(* Properties.                                                             *)

(* Every variable stays in its type.                                       *)
TypeOK ==
    /\ prov \in [Ops -> Records]
    /\ nextSeq \in Nat
    /\ db \in [Ops -> Records]
    /\ effect \in [Ops -> Effects]
    /\ lsn \in Nat
    /\ call \in [Callers -> Calls]
    /\ returned \in [Ops -> SUBSET Receipts]

(* All successful Finalize, Abort and Recover calls for an operation       *)
(* return one and the same receipt, the one the provider holds.            *)
OneReceipt ==
    \A o \in Ops : \A r \in returned[o] : Terminal(prov[o]) /\ r = prov[o].receipt

(* No step changes a terminal record of the provider or a terminal row,    *)
(* and no step changes the binding of a bound row.                         *)
NothingIsRewritten ==
    [][\A o \in Ops :
          /\ Terminal(prov[o]) => prov'[o] = prov[o]
          /\ Terminal(db[o]) => db'[o] = db[o]
          /\ Bound(db[o]) => SameBinding(db'[o], db[o])]_vars

(* What a call acts on is still true when it acts.  A terminal record, a   *)
(* binding or a committed effect that a call has read is still the stored  *)
(* one; on the way to Provider.Finalize the effect is committed and the    *)
(* row is bound as the request says; the receipt on its way into the row   *)
(* is the provider's.  (That the effect is still absent on the way to      *)
(* Provider.Abort is not part of it: see AbortedHasNoEffect.)              *)
CallHolds(k) ==
    /\ k = Idle \/ (k.pc # "idle" /\ k.op \in Ops)
    /\ Terminal(k.prec) => k.prec.receipt = prov[k.op].receipt
    /\ Terminal(k.rec) => k.rec.receipt = db[k.op].receipt
    /\ Bound(k.rec) => SameBinding(k.rec, db[k.op])
    /\ k.pc \in {"finGet", "finResolve"} => k.digest # NoDigest
    /\ k.pc = "finBind" => k.point <= lsn
    /\ k.pc \in {"abGet", "abInspect", "abResolve", "abProvider"} => k.reason # NoReason
    /\ k.pc \in {"abInspect", "abResolve", "abProvider"} => db[k.op].seq # 0
    /\ k.pc \in {"recResolve", "recGet", "recPending", "recReread"} =>
           k.prec.seq # 0 /\ k.prec.seq = prov[k.op].seq
    /\ k.pc \in {"finCapture", "finBind", "finReread", "finProvider"} =>
           /\ k.digest # NoDigest
           /\ effect[k.op].state \in {"committed", "terminal"}
           /\ effect[k.op].digest = k.digest
    /\ k.pc = "finProvider" => SameBinding(db[k.op], k)
    /\ k.pc \in {"activate", "recordAborted"} =>
           /\ Terminal(k)
           /\ k.receipt = prov[k.op].receipt

ReadsStayTrue == \A c \in Callers : CallHolds(call[c])
=============================================================================
