------------------------ MODULE AuthorityFenceProofs ------------------------
(***************************************************************************)
(* Proofs about AuthorityFence for every number of callers, operations,    *)
(* digests and reasons.  The inductive invariant is FenceInv: the safety   *)
(* invariants of AuthorityFence together with ReadsStayTrue, which says    *)
(* that what each call remembers is still true.  ReadsStayTrue survives    *)
(* the steps of other callers because shared state only moves forward      *)
(* (Forward): every action proof shows Forward, which settles the other    *)
(* callers, and then looks at the one call that moved.                     *)
(***************************************************************************)
EXTENDS AuthorityFence, TLAPS

(* Nothing is stored about an operation that was not reserved, nor in the  *)
(* database about one without a row.                                       *)
NothingBeforeReservation ==
    \A o \in Ops :
        /\ prov[o].seq = 0 => prov[o] = NoRecord
        /\ db[o].seq = 0 => db[o] = NoRecord /\ effect[o] = NoEffect

FenceInv ==
    /\ TypeOK
    /\ NothingBeforeReservation
    /\ RowFollowsProvider
    /\ CommitIsBacked
    /\ OneReceipt
    /\ ReadsStayTrue

(* Shared state only moves forward: terminal records, terminal rows,       *)
(* bindings and committed effects stay.                                    *)
Forward ==
    /\ lsn \in Nat /\ lsn' \in Nat /\ lsn <= lsn'
    /\ \A o \in Ops :
        /\ Terminal(prov[o]) => prov'[o] = prov[o]
        /\ prov[o].seq # 0 => prov'[o].seq = prov[o].seq
        /\ Terminal(db[o]) => db'[o] = db[o]
        /\ Bound(db[o]) => SameBinding(db'[o], db[o])
        /\ db[o].seq # 0 => db'[o].seq # 0
        /\ effect[o].state \in {"committed", "terminal"} =>
              /\ effect'[o].state \in {"committed", "terminal"}
              /\ effect'[o].digest = effect[o].digest

(* An idle call remembers nothing, so it holds in every state.             *)
LEMMA IdleHolds == CallHolds(Idle) /\ CallHolds(Idle)'
BY ZenonT(60) DEF CallHolds, Idle, Terminal, Bound, NoRecord, NoReceipt

(* The idle call is well typed.                                            *)
LEMMA IdleType == Idle \in Calls
BY Zenon DEF Idle, Calls, Labels, NoRecord, NoReceipt, NoEffect, NoPoint, Records, Receipts, Effects

(* A call that holds keeps holding while it stands still: what it has read *)
(* of prov, db and effect are facts that Forward preserves.                *)
LEMMA CallStable ==
    ASSUME Forward, NEW k \in Calls, CallHolds(k)
    PROVE  CallHolds(k)'
<1>1. CASE k = Idle
  BY <1>1, IdleHolds, Zenon
<1>2. CASE k.pc # "idle" /\ k.op \in Ops
  <2>1. Terminal(k.prec) => prov'[k.op] = prov[k.op]
    BY Zenon, <1>2 DEF CallHolds, Forward, Terminal
  <2>2. Terminal(k.rec) => db'[k.op] = db[k.op]
    BY Zenon, <1>2 DEF CallHolds, Forward, Terminal
  <2>3. Bound(k.rec) => SameBinding(db'[k.op], db[k.op])
    BY Zenon, <1>2 DEF CallHolds, Forward, Bound, SameBinding
  <2>4. k.pc = "finProvider" => SameBinding(db'[k.op], db[k.op])
    BY Zenon, <1>2 DEF CallHolds, Forward, Bound, SameBinding
  <2>5. k.pc \in {"activate", "recordAborted"} => prov'[k.op] = prov[k.op]
    BY Zenon, <1>2 DEF CallHolds, Forward, Terminal
  <2>6. effect[k.op].state \in {"committed", "terminal"} =>
          /\ effect'[k.op].state \in {"committed", "terminal"}
          /\ effect'[k.op].digest = effect[k.op].digest
    BY Zenon, <1>2 DEF Forward
  <2>7. db[k.op].seq # 0 => db'[k.op].seq # 0
    BY Zenon, <1>2 DEF Forward
  <2>8. prov[k.op].seq # 0 => prov'[k.op].seq = prov[k.op].seq
    BY Zenon, <1>2 DEF Forward
  <2>9. k.pc = "finBind" => k.point <= lsn'
    BY DEF CallHolds, Forward, Calls
  <2> QED
    BY <1>2, <2>1, <2>2, <2>3, <2>4, <2>5, <2>6, <2>7, <2>8, <2>9, ZenonT(60) DEF CallHolds, SameBinding
<1> QED
  BY Zenon, <1>1, <1>2 DEF CallHolds

(* One caller moves to a call that holds, the others stand still.          *)
LEMMA CallMoves ==
    ASSUME FenceInv, Forward, NEW c \in Callers, NEW k \in Calls, CallHolds(k)',
           call' = [call EXCEPT ![c] = k]
    PROVE  ReadsStayTrue' /\ call' \in [Callers -> Calls]
<1>1. call \in [Callers -> Calls]
  BY Zenon DEF FenceInv, TypeOK
<1>2. ASSUME NEW d \in Callers PROVE CallHolds(call[d])'
  <2>1. CASE d = c
    <3>1. call'[d] = k
      BY Zenon, <1>1, <2>1
    <3> QED BY <3>1, SMTT(30) DEF CallHolds
  <2>2. CASE d # c
    <3>1. call'[d] = call[d] /\ call[d] \in Calls /\ CallHolds(call[d])
      BY Zenon, <1>1, <2>2 DEF FenceInv, ReadsStayTrue
    <3>2. ASSUME NEW k1 \in Calls, k1 = call[d] PROVE CallHolds(k1)'
      <4>1. CallHolds(k1)
        BY Zenon, <3>1, <3>2
      <4> QED BY Zenon, <4>1, CallStable
    <3>3. PICK k1 \in Calls : k1 = call[d]
      BY Zenon, <3>1
    <3>4. CallHolds(k1)' /\ call'[d] = k1
      BY Zenon, <3>1, <3>2, <3>3
    <3> QED BY <3>4 DEF CallHolds
  <2> QED BY <2>1, <2>2, Zenon
<1> QED BY Zenon, <1>1, <1>2 DEF ReadsStayTrue

(* No caller moves: every call that holds keeps holding.                   *)
LEMMA CallsStand ==
    ASSUME FenceInv, Forward, UNCHANGED call
    PROVE  ReadsStayTrue' /\ call' \in [Callers -> Calls]
<1>1. call \in [Callers -> Calls]
  BY Zenon DEF FenceInv, TypeOK
<1>2. ASSUME NEW d \in Callers PROVE CallHolds(call[d])'
  <2>1. PICK k \in Calls : k = call[d]
    BY Zenon, <1>1
  <2>2. CallHolds(k)
    BY Zenon, <2>1 DEF FenceInv, ReadsStayTrue
  <2>3. CallHolds(k)' /\ call'[d] = k
    BY Zenon, <2>1, <2>2, CallStable
  <2> QED BY <2>3 DEF CallHolds
<1> QED BY Zenon, <1>1, <1>2 DEF ReadsStayTrue

(* While the provider stands still, a commit stays backed: the binding and *)
(* the committed effect it rests on are preserved by Forward.              *)
LEMMA BackingStays ==
    ASSUME FenceInv, Forward, UNCHANGED prov
    PROVE  CommitIsBacked'
BY DEF FenceInv, CommitIsBacked, Forward, Bound, SameBinding

(* Receipts handed back stay the provider's.                               *)
LEMMA ReceiptsStay ==
    ASSUME FenceInv, Forward, UNCHANGED returned
    PROVE  OneReceipt'
BY DEF FenceInv, OneReceipt, Forward, Terminal

(* A step that only moves one call on.                                     *)
LEMMA LocalStep ==
    ASSUME FenceInv, NEW c \in Callers, NEW k \in Calls, CallHolds(k), Goto(c, k),
           UNCHANGED <<prov, nextSeq, db, effect, lsn>>
    PROVE  FenceInv' /\ Forward
<1>1. Forward
  BY DEF Forward, SameBinding, FenceInv, TypeOK
<1>2. CallHolds(k)'
  BY Zenon, <1>1, CallStable
<1>3. ReadsStayTrue' /\ call' \in [Callers -> Calls]
  BY <1>1, <1>2, CallMoves, Zenon DEF Goto
<1>4. TypeOK' /\ NothingBeforeReservation' /\ RowFollowsProvider'
  BY Zenon, <1>3 DEF FenceInv, TypeOK, NothingBeforeReservation, RowFollowsProvider, Goto
<1> QED
  BY Zenon, <1>1, <1>3, <1>4, BackingStays, ReceiptsStay DEF FenceInv, Goto

(* A step that ends a call with an error.                                  *)
LEMMA ErrorStep ==
    ASSUME FenceInv, NEW c \in Callers, ReturnError(c),
           UNCHANGED <<prov, nextSeq, db, effect, lsn>>
    PROVE  FenceInv' /\ Forward
BY Zenon, IdleHolds, IdleType, LocalStep DEF ReturnError

(* A step that ends a call with the receipt the provider holds.            *)
LEMMA AnswerStep ==
    ASSUME FenceInv, NEW c \in Callers, NEW o \in Ops, NEW r,
           ReturnReceipt(c, o, r), Terminal(prov[o]), r = prov[o].receipt,
           UNCHANGED <<prov, nextSeq, db, effect, lsn>>
    PROVE  FenceInv' /\ Forward
<1>1. Forward
  BY DEF Forward, SameBinding, FenceInv, TypeOK
<1>2. ReadsStayTrue' /\ call' \in [Callers -> Calls]
  BY <1>1, IdleHolds, IdleType, CallMoves, Zenon DEF ReturnReceipt
<1>3. r \in Receipts
  BY Zenon DEF FenceInv, TypeOK, Records
<1>4. TypeOK' /\ NothingBeforeReservation' /\ RowFollowsProvider'
  BY Zenon, <1>2, <1>3 DEF FenceInv, TypeOK, NothingBeforeReservation, RowFollowsProvider, ReturnReceipt
<1>5. OneReceipt'
  BY Zenon DEF FenceInv, OneReceipt, TypeOK, ReturnReceipt
<1> QED
  BY Zenon, <1>1, <1>2, <1>4, <1>5, BackingStays DEF FenceInv

(* What the invariant says about a call that is under way.                 *)
LEMMA CallFacts ==
    ASSUME FenceInv, NEW c \in Callers
    PROVE  /\ call[c] \in Calls
           /\ CallHolds(call[c])
           /\ call[c].pc # "idle" => call[c].op \in Ops
<1>1. call[c] \in Calls /\ CallHolds(call[c])
  BY Zenon DEF FenceInv, TypeOK, ReadsStayTrue
<1>2. call[c] = Idle \/ call[c].op \in Ops
  BY Zenon, <1>1 DEF CallHolds
<1> QED
  BY <1>1, <1>2 DEF Idle

-----------------------------------------------------------------------------
(* The steps of Finalize, Abort and Recover that only read.                *)

(* Finalize, Abort and Recover are called.                                 *)
LEMMA StartInv ==
    ASSUME FenceInv, NEW c \in Callers, StartCall(c)
    PROVE  FenceInv' /\ Forward
<1>1. ASSUME NEW o \in Ops, NEW d \in Digests, FinalizeCall(c, o, d) PROVE FenceInv' /\ Forward
  <2> DEFINE k == [At("finGet", o) EXCEPT !.digest = d]
  <2>1. k \in Calls /\ CallHolds(k)
    BY IdleType, ConstantsAssumption, ZenonT(60) DEF At, Idle, Calls, Labels, CallHolds, Terminal, Bound, NoRecord, NoReceipt
  <2> HIDE DEF k
  <2> QED BY Zenon, <1>1, <2>1, LocalStep DEF FinalizeCall, k
<1>2. ASSUME NEW o \in Ops, NEW why \in Reasons, AbortCall(c, o, why) PROVE FenceInv' /\ Forward
  <2> DEFINE k == [At("abGet", o) EXCEPT !.reason = why]
  <2>1. k \in Calls /\ CallHolds(k)
    BY IdleType, ConstantsAssumption, ZenonT(60) DEF At, Idle, Calls, Labels, CallHolds, Terminal, Bound, NoRecord, NoReceipt
  <2> HIDE DEF k
  <2> QED BY Zenon, <1>2, <2>1, LocalStep DEF AbortCall, k
<1>3. ASSUME NEW o \in Ops, RecoverCall(c, o) PROVE FenceInv' /\ Forward
  <2> DEFINE k == At("recInspect", o)
  <2>1. k \in Calls /\ CallHolds(k)
    BY IdleType, ZenonT(60) DEF At, Idle, Calls, Labels, CallHolds, Terminal, Bound, NoRecord, NoReceipt
  <2> HIDE DEF k
  <2> QED BY Zenon, <1>3, <2>1, LocalStep DEF RecoverCall, k
<1> QED
  BY Zenon, <1>1, <1>2, <1>3 DEF StartCall

(* Finalize reads the fence row.                                           *)
LEMMA FinalizeGetInv ==
    ASSUME FenceInv, NEW c \in Callers, FinalizeGet(c)
    PROVE  FenceInv' /\ Forward
<1> DEFINE o == call[c].op
           k == [call[c] EXCEPT !.pc = "finResolve", !.rec = db[o]]
<1>1. /\ call[c] \in Calls /\ CallHolds(call[c]) /\ o \in Ops
      /\ call[c].pc = "finGet"
  BY Zenon, CallFacts DEF FinalizeGet
<1>2. db[o] \in Records
  BY Zenon, <1>1 DEF FenceInv, TypeOK
<1>3. k \in Calls
  BY <1>1, <1>2, Zenon DEF Calls, Labels
<1>4. CallHolds(k)
  BY Zenon, <1>1 DEF CallHolds, Calls, SameBinding
<1> HIDE DEF k
<1>5. CASE Goto(c, k)
  BY Zenon, <1>3, <1>4, <1>5, LocalStep DEF FinalizeGet
<1>6. CASE ReturnError(c)
  BY <1>6, ErrorStep, Zenon DEF FinalizeGet
<1> QED
  BY Zenon, <1>5, <1>6 DEF FinalizeGet, k

(* Finalize asks the resolver for the effect.                              *)
LEMMA FinalizeResolveInv ==
    ASSUME FenceInv, NEW c \in Callers, FinalizeResolve(c)
    PROVE  FenceInv' /\ Forward
<1> DEFINE o == call[c].op
           d == call[c].digest
           r == call[c].rec
           kp == AtProviderFinalize(o, d, r.point)
           kc == [At("finCapture", o) EXCEPT !.digest = d]
           found == effect[o].state = "committed" /\ effect[o].digest = d
<1>1. /\ call[c] \in Calls /\ CallHolds(call[c]) /\ o \in Ops
      /\ call[c].pc = "finResolve"
  BY CallFacts, Zenon DEF FinalizeResolve
<1>2. o \in Ops /\ d \in Digests \cup {NoDigest} /\ r \in Records /\ r.point \in Nat
  BY Zenon, <1>1 DEF Calls, Records
<1>3. CASE ReturnError(c)
  BY <1>3, ErrorStep, Zenon DEF FinalizeResolve
<1>4. CASE Terminal(r) /\ ReturnReceipt(c, o, r.receipt)
  <2>1. Terminal(db[o]) /\ r.receipt = db[o].receipt
    BY <1>1, <1>4, Zenon DEF CallHolds, Terminal
  <2>2. Terminal(prov[o]) /\ r.receipt = prov[o].receipt
    BY Zenon, <1>1, <2>1 DEF FenceInv, RowFollowsProvider, Terminal
  <2> QED BY <1>1, <1>4, <2>2, AnswerStep, Zenon DEF FinalizeResolve
<1>5. CASE found /\ Bound(r) /\ r.digest = d /\ Goto(c, kp)
  <2>1. kp \in Calls
    BY <1>2, IdleType, ZenonT(60) DEF AtProviderFinalize, Calls, Labels
  <2>2. CallHolds(kp)
    BY <1>1, <1>2, <1>5, ZenonT(60) DEF CallHolds, AtProviderFinalize, Idle, Terminal, Bound, SameBinding, NoRecord, NoReceipt
  <2> HIDE DEF kp
  <2> QED BY Zenon, <1>5, <2>1, <2>2, LocalStep DEF FinalizeResolve
<1>6. CASE found /\ Goto(c, kc)
  <2>0. d # NoDigest
    BY Zenon, <1>1 DEF CallHolds
  <2>1. kc \in Calls
    BY <1>2, IdleType, ZenonT(60) DEF At, Calls, Labels
  <2>2. CallHolds(kc)
    BY <1>1, <1>2, <1>6, <2>0, ZenonT(60) DEF CallHolds, At, Idle, Terminal, Bound, SameBinding, NoRecord, NoReceipt
  <2> HIDE DEF kc
  <2> QED BY <1>6, <2>1, <2>2, LocalStep, Zenon DEF FinalizeResolve
<1> QED
  BY <1>3, <1>4, <1>5, <1>6, Zenon DEF FinalizeResolve

(* Finalize captures the database point.                                   *)
LEMMA CaptureInv ==
    ASSUME FenceInv, NEW c \in Callers, CaptureDatabasePoint(c)
    PROVE  FenceInv' /\ Forward
<1> DEFINE k == [call[c] EXCEPT !.pc = "finBind", !.point = lsn]
<1>1. call[c] \in Calls /\ CallHolds(call[c]) /\ call[c].op \in Ops /\ lsn \in Nat
  BY Zenon, CallFacts DEF CaptureDatabasePoint, FenceInv, TypeOK
<1>2. k \in Calls
  BY <1>1, ZenonT(60) DEF Calls, Labels
<1>3. CallHolds(k)
  BY <1>1 DEF CallHolds, Calls, SameBinding, CaptureDatabasePoint
<1> HIDE DEF k
<1> QED
  BY Zenon, <1>2, <1>3, LocalStep DEF CaptureDatabasePoint, k

(* Finalize reads back the row it has bound.                               *)
LEMMA FinalizeRereadInv ==
    ASSUME FenceInv, NEW c \in Callers, FinalizeReread(c)
    PROVE  FenceInv' /\ Forward
<1> DEFINE o == call[c].op
           k == AtProviderFinalize(o, call[c].digest, call[c].point)
<1>1. /\ call[c] \in Calls /\ CallHolds(call[c]) /\ o \in Ops
      /\ call[c].pc = "finReread"
  BY Zenon, CallFacts DEF FinalizeReread
<1>2. CASE ReturnError(c)
  BY Zenon, <1>2, ErrorStep DEF FinalizeReread
<1>3. CASE SameBinding(db[o], call[c]) /\ Goto(c, k)
  <2>1. k \in Calls
    BY <1>1, IdleType, ZenonT(60) DEF AtProviderFinalize, Calls, Labels
  <2>2. CallHolds(k)
    BY <1>1, <1>3, ZenonT(60) DEF CallHolds, AtProviderFinalize, Idle, Terminal, Bound, SameBinding,
                      NoRecord, NoReceipt
  <2> HIDE DEF k
  <2> QED BY Zenon, <1>3, <2>1, <2>2, LocalStep DEF FinalizeReread
<1> QED
  BY Zenon, <1>2, <1>3 DEF FinalizeReread

-----------------------------------------------------------------------------
(* The steps that write: one transaction or one provider call each.        *)

(* Finalize binds the row to the effect digest and the point.              *)
LEMMA BindInv ==
    ASSUME FenceInv, NEW c \in Callers, BindEffect(c)
    PROVE  FenceInv' /\ Forward
<1> DEFINE o == call[c].op
           k == [call[c] EXCEPT !.pc = "finReread"]
<1>1. /\ call[c] \in Calls /\ CallHolds(call[c]) /\ o \in Ops
      /\ call[c].pc = "finBind"
  BY Zenon, CallFacts DEF BindEffect
<1>2. k \in Calls
  BY <1>1, Zenon DEF Calls, Labels
<1>3. CallHolds(k)
  BY Zenon, <1>1 DEF CallHolds, Calls, SameBinding
<1>4. CASE UNCHANGED <<db, lsn>>
  <2>1. CASE Goto(c, k)
    <3> HIDE DEF k
    <3> QED BY <1>2, <1>3, <1>4, <2>1, LocalStep, Zenon DEF BindEffect
  <2>2. CASE ReturnError(c)
    BY <1>4, <2>2, ErrorStep, Zenon DEF BindEffect
  <2>3. Goto(c, k) \/ ReturnError(c)
    BY Zenon DEF BindEffect
  <2> QED BY <2>1, <2>2, <2>3, Zenon
<1>5. CASE /\ db[o].seq # 0 /\ ~Terminal(db[o]) /\ ~Bound(db[o])
           /\ db' = [db EXCEPT ![o].digest = call[c].digest, ![o].point = call[c].point]
           /\ lsn' = lsn + 1
           /\ Goto(c, k)
  <2>1. /\ db \in [Ops -> Records] /\ lsn \in Nat
        /\ call[c].digest \in Digests \cup {NoDigest} /\ call[c].point \in Nat
    BY <1>1, Zenon DEF FenceInv, TypeOK, Calls
  <2>2. UNCHANGED <<prov, nextSeq, effect, returned>>
    BY <1>5, ZenonT(60) DEF BindEffect, Goto
  <2>3. /\ db' \in [Ops -> Records] /\ lsn' \in Nat
        /\ \A p \in Ops : db'[p].seq = db[p].seq /\ db'[p].receipt = db[p].receipt
        /\ \A p \in Ops : p # o => db'[p] = db[p]
    BY <1>1, <1>5, <2>1, SMTT(60) DEF Records
  <2>4. Forward
    <3>1. ~Terminal(db[o]) /\ ~Bound(db[o]) /\ lsn' = lsn + 1
      BY <1>5, Zenon
    <3> QED BY <2>1, <2>2, <2>3, <3>1, SMTT(20) DEF Forward, SameBinding
  <2>5. PICK j \in Calls : j = k
    BY Zenon, <1>2
  <2>6. ReadsStayTrue' /\ call' \in [Callers -> Calls]
    <3> HIDE DEF k
    <3>1. CallHolds(j)
      BY Zenon, <1>3, <2>5
    <3>2. CallHolds(j)'
      BY <2>4, <3>1, CallStable, Zenon
    <3>3. call' = [call EXCEPT ![c] = j]
      BY Zenon, <1>5, <2>5 DEF Goto
    <3> QED BY <2>4, <3>2, <3>3, CallMoves, Zenon
  <2>7. TypeOK'
    BY <2>2, <2>3, <2>6, ZenonT(60) DEF FenceInv, TypeOK
  <2>8. NothingBeforeReservation'
    BY <1>5, <2>2, <2>3, ZenonT(30) DEF FenceInv, NothingBeforeReservation
  <2>9. RowFollowsProvider'
    BY Zenon, <2>2, <2>3 DEF FenceInv, RowFollowsProvider, Terminal
  <2> QED
    BY <2>2, <2>4, <2>6, <2>7, <2>8, <2>9, BackingStays, ReceiptsStay, Zenon DEF FenceInv
<1> QED
  BY <1>4, <1>5, Zenon DEF BindEffect

(* A record that takes a receipt with its binding is a record.             *)
LEMMA RecordTerminates ==
    ASSUME NEW p \in Records, NEW r \in Receipts
    PROVE  LET q == [p EXCEPT !.digest = r.digest, !.point = r.point, !.receipt = r]
           IN  q \in Records /\ q.seq = p.seq /\ q.receipt = r
BY ZenonT(60) DEF Records, Receipts

(* The provider commits the operation or repeats its receipt.              *)
LEMMA ProviderFinalizeInv ==
    ASSUME FenceInv, NEW c \in Callers, ProviderFinalize(c)
    PROVE  FenceInv' /\ Forward
<1> DEFINE o == call[c].op
           r == CommittedReceipt(call[c].digest, call[c].point)
           k == AtActivate(o, r)
<1>1. /\ call[c] \in Calls /\ CallHolds(call[c]) /\ o \in Ops
      /\ call[c].pc = "finProvider"
  BY CallFacts, Zenon DEF ProviderFinalize
<1>2. /\ call[c].digest \in Digests /\ call[c].point \in Nat
      /\ effect[o].state \in {"committed", "terminal"}
      /\ effect[o].digest = call[c].digest
      /\ SameBinding(db[o], call[c])
  BY <1>1, Zenon DEF CallHolds, Calls
<1>3. r \in Receipts /\ r # NoReceipt
  BY Zenon, <1>2 DEF CommittedReceipt, Receipts, NoReceipt
<1>4. k \in Calls
  BY <1>1, <1>3, IdleType, ZenonT(60) DEF AtActivate, Calls, Labels
<1>5. CASE UNCHANGED prov /\ ReturnError(c)
  BY <1>5, ErrorStep, Zenon DEF ProviderFinalize
<1>6. CASE prov[o].receipt = r /\ Goto(c, k) /\ UNCHANGED prov
  <2>1. CallHolds(k)
    BY <1>1, <1>3, <1>6, ZenonT(60) DEF CallHolds, AtActivate, Idle, Terminal, Bound, SameBinding,
                            NoRecord, NoReceipt
  <2> HIDE DEF k
  <2> QED BY <1>4, <1>6, <2>1, LocalStep, Zenon DEF ProviderFinalize
<1>7. CASE /\ prov[o].seq # 0
           /\ ~Terminal(prov[o])
           /\ prov' = [prov EXCEPT ![o].digest = r.digest, ![o].point = r.point,
                                   ![o].receipt = r]
           /\ Goto(c, k)
  <2> HIDE DEF k
  <2>1. UNCHANGED <<nextSeq, db, effect, lsn, returned>> /\ prov \in [Ops -> Records]
    BY <1>7, ZenonT(30) DEF ProviderFinalize, Goto, FenceInv, TypeOK
  <2>2. /\ r.digest = call[c].digest /\ r.point = call[c].point /\ r.status = "committed"
    BY Zenon DEF CommittedReceipt
  <2> HIDE DEF r
  <2>3. /\ prov' \in [Ops -> Records]
        /\ prov'[o].seq = prov[o].seq /\ prov'[o].receipt = r
        /\ \A p \in Ops : p # o => prov'[p] = prov[p]
    <3> DEFINE q == [prov[o] EXCEPT !.digest = r.digest, !.point = r.point, !.receipt = r]
    <3>1. q \in Records /\ q.seq = prov[o].seq /\ q.receipt = r
      BY <1>1, <1>3, <2>1, RecordTerminates, Zenon
    <3>2. prov' = [prov EXCEPT ![o] = q]
      BY <1>7, ZenonT(60)
    <3> HIDE DEF q
    <3> QED BY Zenon, <1>1, <2>1, <3>1, <3>2
  <2>4. ~Terminal(db[o])
    BY <1>1, <1>7, ZenonT(60) DEF FenceInv, RowFollowsProvider, Terminal
  <2>5. Forward
    <3>1. lsn \in Nat
      BY Zenon DEF FenceInv, TypeOK
    <3>2. ~Terminal(prov[o])
      BY <1>7, Zenon
    <3> QED BY <2>1, <2>3, <3>1, <3>2, SMTT(20) DEF Forward, SameBinding
  <2>6. PICK j \in Calls : j = k
    BY <1>4, Zenon
  <2>7. CallHolds(j)'
    BY <1>1, <1>3, <2>3, <2>6, ZenonT(60) DEF k, CallHolds, AtActivate, Idle, Terminal, Bound, SameBinding,
                            NoRecord, NoReceipt
  <2>8. ReadsStayTrue' /\ call' \in [Callers -> Calls]
    <3>1. call' = [call EXCEPT ![c] = j]
      BY <1>7, <2>6, Zenon DEF Goto
    <3> QED BY <2>5, <2>7, <3>1, CallMoves, Zenon
  <2>9. TypeOK' /\ NothingBeforeReservation'
    BY <1>7, <2>1, <2>3, <2>8, Zenon DEF FenceInv, TypeOK, NothingBeforeReservation
  <2>10. RowFollowsProvider'
    BY <2>1, <2>3, <2>4, Zenon DEF FenceInv, RowFollowsProvider, Terminal
  <2>11. CommitIsBacked'
    <3>1. CommitIsBacked
      BY Zenon DEF FenceInv
    <3> QED BY <1>2, <2>1, <2>2, <2>3, <3>1, ConstantsAssumption, SMTT(30)
            DEF CommitIsBacked, Bound, SameBinding
  <2> QED
    BY <2>1, <2>5, <2>8, <2>9, <2>10, <2>11, ReceiptsStay, Zenon DEF FenceInv
<1> QED
  BY <1>5, <1>6, <1>7, Zenon DEF ProviderFinalize

(* The provider aborts the operation or repeats its receipt.               *)
LEMMA ProviderAbortInv ==
    ASSUME FenceInv, NEW c \in Callers, ProviderAbort(c)
    PROVE  FenceInv' /\ Forward
<1> DEFINE o == call[c].op
           r == AbortedReceipt(call[c].reason)
           k == AtRecordAborted(o, r)
<1>1. call[c] \in Calls /\ CallHolds(call[c]) /\ o \in Ops
  BY CallFacts, Zenon DEF ProviderAbort
<1>2. call[c].reason \in Reasons \cup {NoReason}
  BY Zenon, <1>1 DEF Calls
<1>3. r \in Receipts /\ r # NoReceipt /\ r.status = "aborted"
  BY Zenon, <1>2 DEF AbortedReceipt, Receipts, NoReceipt, NoPoint
<1>4. k \in Calls
  BY <1>1, <1>3, IdleType, Zenon DEF AtRecordAborted, Calls, Labels
<1>5. CASE UNCHANGED prov /\ ReturnError(c)
  BY Zenon, <1>5, ErrorStep DEF ProviderAbort
<1>6. CASE prov[o].receipt = r /\ Goto(c, k) /\ UNCHANGED prov
  <2>1. CallHolds(k)
    BY <1>1, <1>3, <1>6, ZenonT(60) DEF CallHolds, AtRecordAborted, Idle, Terminal, Bound, SameBinding,
                            NoRecord, NoReceipt
  <2> HIDE DEF k
  <2> QED BY <1>4, <1>6, <2>1, LocalStep, Zenon DEF ProviderAbort
<1>7. CASE /\ prov[o].seq # 0
           /\ ~Terminal(prov[o])
           /\ prov' = [prov EXCEPT ![o].receipt = r]
           /\ Goto(c, k)
  <2> HIDE DEF k, r
  <2>1. UNCHANGED <<nextSeq, db, effect, lsn, returned>> /\ prov \in [Ops -> Records]
    BY Zenon, <1>7 DEF ProviderAbort, Goto, FenceInv, TypeOK
  <2>2. /\ prov' \in [Ops -> Records]
        /\ prov'[o].seq = prov[o].seq /\ prov'[o].receipt = r
        /\ \A p \in Ops : p # o => prov'[p] = prov[p]
    BY <1>1, <1>3, <1>7, <2>1, ZenonT(60) DEF Records
  <2>3. ~Terminal(db[o])
    BY <1>1, <1>7, Zenon DEF FenceInv, RowFollowsProvider, Terminal
  <2>4. Forward
    <3>1. lsn \in Nat
      BY Zenon DEF FenceInv, TypeOK
    <3>2. ~Terminal(prov[o])
      BY <1>7, Zenon
    <3> QED BY <2>1, <2>2, <3>1, <3>2, SMTT(20) DEF Forward, SameBinding
  <2>5. PICK j \in Calls : j = k
    BY Zenon, <1>4
  <2>6. CallHolds(j)'
    BY <1>1, <1>3, <2>2, <2>5, ZenonT(60) DEF k, CallHolds, AtRecordAborted, Idle, Terminal, Bound,
                            SameBinding, NoRecord, NoReceipt
  <2>7. ReadsStayTrue' /\ call' \in [Callers -> Calls]
    <3>1. call' = [call EXCEPT ![c] = j]
      BY <1>7, <2>5, Zenon DEF Goto
    <3> QED BY <2>4, <2>6, <3>1, CallMoves, Zenon
  <2>8. TypeOK' /\ NothingBeforeReservation'
    BY <1>7, <2>1, <2>2, <2>7, Zenon DEF FenceInv, TypeOK, NothingBeforeReservation
  <2>9. RowFollowsProvider'
    BY Zenon, <2>1, <2>2, <2>3 DEF FenceInv, RowFollowsProvider, Terminal
  <2>10. CommitIsBacked'
    BY Zenon, <1>3, <2>1, <2>2 DEF FenceInv, CommitIsBacked, Bound, SameBinding
  <2> QED
    BY <2>1, <2>4, <2>7, <2>8, <2>9, <2>10, ReceiptsStay, Zenon DEF FenceInv
<1> QED
  BY <1>5, <1>6, <1>7, Zenon DEF ProviderAbort

(* A pending row takes the provider's receipt, which the call returns.     *)
LEMMA RowTerminates ==
    ASSUME FenceInv, NEW c \in Callers, NEW o \in Ops, NEW r,
           db[o].seq # 0, ~Terminal(db[o]),
           db' = [db EXCEPT ![o].receipt = r], lsn' = lsn + 1,
           ReturnReceipt(c, o, r), Terminal(prov[o]), r = prov[o].receipt,
           UNCHANGED <<prov, nextSeq, effect>>
    PROVE  FenceInv' /\ Forward
<1>1. /\ db \in [Ops -> Records] /\ lsn \in Nat /\ r \in Receipts
      /\ returned \in [Ops -> SUBSET Receipts]
  BY Zenon DEF FenceInv, TypeOK, Records
<1>2. /\ db' \in [Ops -> Records] /\ lsn' \in Nat
      /\ db'[o].receipt = r
      /\ \A p \in Ops : SameBinding(db'[p], db[p]) /\ db'[p].seq = db[p].seq
      /\ \A p \in Ops : p # o => db'[p] = db[p]
  BY <1>1 DEF Records, SameBinding
<1>3. Forward
  BY <1>2 DEF Forward, SameBinding, FenceInv, TypeOK
<1>4. ReadsStayTrue' /\ call' \in [Callers -> Calls]
  BY <1>3, IdleHolds, IdleType, CallMoves, Zenon DEF ReturnReceipt
<1>5. TypeOK' /\ NothingBeforeReservation'
  BY <1>1, <1>2, <1>4 DEF FenceInv, TypeOK, NothingBeforeReservation, ReturnReceipt
<1>6. RowFollowsProvider'
  BY Zenon, <1>2 DEF FenceInv, RowFollowsProvider, Terminal
<1>7. OneReceipt'
  BY <1>1, Zenon DEF FenceInv, OneReceipt, ReturnReceipt
<1> QED
  BY Zenon, <1>3, <1>4, <1>5, <1>6, <1>7, BackingStays DEF FenceInv

(* The row takes the committed receipt.                                    *)
LEMMA ActivateInv ==
    ASSUME FenceInv, NEW c \in Callers, ActivateCommitted(c)
    PROVE  FenceInv' /\ Forward
<1> DEFINE o == call[c].op
           r == call[c].receipt
<1>1. o \in Ops /\ r = prov[o].receipt /\ Terminal(prov[o])
  BY CallFacts, ZenonT(60) DEF ActivateCommitted, CallHolds, Terminal
<1>2. CASE UNCHANGED <<db, lsn>> /\ ReturnError(c)
  BY Zenon, <1>2, ErrorStep DEF ActivateCommitted
<1>3. CASE UNCHANGED <<db, lsn>> /\ ReturnReceipt(c, o, r)
  BY Zenon, <1>1, <1>3, AnswerStep DEF ActivateCommitted
<1>4. CASE /\ db[o].seq # 0 /\ ~Terminal(db[o])
           /\ db' = [db EXCEPT ![o].receipt = r]
           /\ lsn' = lsn + 1
           /\ ReturnReceipt(c, o, r)
  BY <1>1, <1>4, RowTerminates, ZenonT(60) DEF ActivateCommitted
<1> QED
  BY Zenon, <1>2, <1>3, <1>4 DEF ActivateCommitted

(* The row takes the aborted receipt.                                      *)
LEMMA RecordAbortedInv ==
    ASSUME FenceInv, NEW c \in Callers, RecordAborted(c)
    PROVE  FenceInv' /\ Forward
<1> DEFINE o == call[c].op
           r == call[c].receipt
<1>1. o \in Ops /\ r = prov[o].receipt /\ Terminal(prov[o])
  BY CallFacts, ZenonT(60) DEF RecordAborted, CallHolds, Terminal
<1>2. CASE UNCHANGED <<db, lsn>> /\ ReturnError(c)
  BY <1>2, ErrorStep, Zenon DEF RecordAborted
<1>3. CASE UNCHANGED <<db, lsn>> /\ ReturnReceipt(c, o, r)
  BY Zenon, <1>1, <1>3, AnswerStep DEF RecordAborted
<1>4. CASE /\ db[o].seq # 0 /\ ~Terminal(db[o])
           /\ db' = [db EXCEPT ![o].receipt = r]
           /\ lsn' = lsn + 1
           /\ ReturnReceipt(c, o, r)
  BY <1>1, <1>4, RowTerminates, Zenon DEF RecordAborted
<1> QED
  BY Zenon, <1>2, <1>3, <1>4 DEF RecordAborted

-----------------------------------------------------------------------------
(* Abort reads the fence row.                                              *)
LEMMA AbortGetInv ==
    ASSUME FenceInv, NEW c \in Callers, AbortGet(c)
    PROVE  FenceInv' /\ Forward
<1> DEFINE o == call[c].op
           k == [call[c] EXCEPT !.pc = "abInspect", !.rec = db[o]]
<1>1. /\ call[c] \in Calls /\ CallHolds(call[c]) /\ o \in Ops
      /\ call[c].pc = "abGet"
  BY Zenon, CallFacts DEF AbortGet
<1>2. db[o] \in Records
  BY Zenon, <1>1 DEF FenceInv, TypeOK
<1>3. k \in Calls
  BY <1>1, <1>2, Zenon DEF Calls, Labels
<1>4. db[o].seq # 0 => CallHolds(k)
  BY Zenon, <1>1 DEF CallHolds, Calls, SameBinding
<1> HIDE DEF k
<1>5. CASE db[o].seq # 0 /\ Goto(c, k)
  BY Zenon, <1>3, <1>4, <1>5, LocalStep DEF AbortGet
<1>6. CASE ReturnError(c)
  BY <1>6, ErrorStep, Zenon DEF AbortGet
<1> QED
  BY Zenon, <1>5, <1>6 DEF AbortGet, k

(* Abort compares the row with the provider record.                        *)
LEMMA AbortInspectInv ==
    ASSUME FenceInv, NEW c \in Callers, AbortInspect(c)
    PROVE  FenceInv' /\ Forward
<1> DEFINE o == call[c].op
           r == call[c].rec
           k == [call[c] EXCEPT !.pc = "abResolve", !.prec = prov[o]]
<1>1. /\ call[c] \in Calls /\ CallHolds(call[c]) /\ o \in Ops
      /\ call[c].pc = "abInspect"
  BY Zenon, CallFacts DEF AbortInspect
<1>2. prov[o] \in Records
  BY <1>1, Zenon DEF FenceInv, TypeOK
<1>3. CASE Goto(c, k)
  <2>1. k \in Calls
    BY <1>1, <1>2, Zenon DEF Calls, Labels
  <2>2. CallHolds(k)
    BY <1>1, Zenon DEF CallHolds, Calls, SameBinding
  <2> HIDE DEF k
  <2> QED BY Zenon, <1>3, <2>1, <2>2, LocalStep DEF AbortInspect
<1>4. CASE ReturnError(c)
  BY Zenon, <1>4, ErrorStep DEF AbortInspect
<1>5. CASE Terminal(r) /\ prov[o].receipt = r.receipt /\ ReturnReceipt(c, o, r.receipt)
  BY <1>1, <1>5, AnswerStep, Zenon DEF AbortInspect, Terminal
<1> QED
  BY <1>3, <1>4, <1>5, Zenon DEF AbortInspect

(* Abort asks the resolver whether there is an effect.                     *)
LEMMA AbortResolveInv ==
    ASSUME FenceInv, NEW c \in Callers, AbortResolve(c)
    PROVE  FenceInv' /\ Forward
<1> DEFINE o == call[c].op
           p == call[c].prec
           ka == AtRecordAborted(o, p.receipt)
           kp == AtProviderAbort(o, call[c].reason, p)
<1>1. /\ call[c] \in Calls /\ CallHolds(call[c]) /\ o \in Ops
      /\ call[c].pc = "abResolve"
  BY CallFacts, Zenon DEF AbortResolve
<1>2. p \in Records /\ p.receipt \in Receipts /\ call[c].reason \in Reasons \cup {NoReason}
  BY <1>1, Zenon DEF Calls, Records
<1>3. CASE ReturnError(c)
  BY <1>3, ErrorStep, ZenonT(60) DEF AbortResolve
<1>4. CASE Terminal(p) /\ Goto(c, ka)
  <2>1. ka \in Calls
    BY <1>1, <1>2, IdleType, ZenonT(60) DEF AtRecordAborted, Calls, Labels
  <2>2. CallHolds(ka)
    BY <1>1, <1>4, ZenonT(60) DEF CallHolds, AtRecordAborted, Idle, Terminal, Bound, SameBinding,
                      NoRecord, NoReceipt
  <2> HIDE DEF ka
  <2> QED BY <1>4, <2>1, <2>2, LocalStep, ZenonT(30) DEF AbortResolve
<1>5. CASE Goto(c, kp)
  <2>1. kp \in Calls
    BY <1>1, <1>2, IdleType, ZenonT(60) DEF AtProviderAbort, Calls, Labels
  <2>2. db[o].seq # 0 /\ call[c].reason # NoReason
    BY <1>1, Zenon DEF CallHolds
  <2>3. CallHolds(kp)
    BY <1>1, <2>2, ZenonT(60) DEF CallHolds, AtProviderAbort, Idle, Terminal, Bound, SameBinding,
                NoRecord, NoReceipt
  <2> HIDE DEF kp
  <2> QED BY <1>5, <2>1, <2>3, LocalStep, ZenonT(30) DEF AbortResolve
<1> QED
  BY <1>3, <1>4, <1>5, Zenon DEF AbortResolve

-----------------------------------------------------------------------------
(* Recover reads the provider record.                                      *)
LEMMA RecoverInspectInv ==
    ASSUME FenceInv, NEW c \in Callers, RecoverInspect(c)
    PROVE  FenceInv' /\ Forward
<1> DEFINE o == call[c].op
           k == [call[c] EXCEPT !.pc = "recResolve", !.prec = prov[o]]
<1>1. /\ call[c] \in Calls /\ CallHolds(call[c]) /\ o \in Ops
      /\ call[c].pc = "recInspect"
  BY Zenon, CallFacts DEF RecoverInspect
<1>2. prov[o] \in Records
  BY Zenon, <1>1 DEF FenceInv, TypeOK
<1>3. k \in Calls
  BY <1>1, <1>2, Zenon DEF Calls, Labels
<1>4. prov[o].seq # 0 => CallHolds(k)
  BY Zenon, <1>1 DEF CallHolds, Calls, SameBinding
<1> HIDE DEF k
<1>5. CASE prov[o].seq # 0 /\ Goto(c, k)
  BY Zenon, <1>3, <1>4, <1>5, LocalStep DEF RecoverInspect
<1>6. CASE ReturnError(c)
  BY Zenon, <1>6, ErrorStep DEF RecoverInspect
<1> QED
  BY Zenon, <1>5, <1>6 DEF RecoverInspect, k

(* Recover asks the resolver for the effect.                               *)
LEMMA RecoverResolveInv ==
    ASSUME FenceInv, NEW c \in Callers, RecoverResolve(c)
    PROVE  FenceInv' /\ Forward
<1> DEFINE k == [call[c] EXCEPT !.pc = "recGet", !.eff = effect[call[c].op]]
<1>1. /\ call[c] \in Calls /\ CallHolds(call[c]) /\ call[c].op \in Ops
      /\ call[c].pc = "recResolve"
  BY Zenon, CallFacts DEF RecoverResolve
<1>2. effect[call[c].op] \in Effects
  BY Zenon, <1>1 DEF FenceInv, TypeOK
<1>3. k \in Calls
  BY <1>1, <1>2, Zenon DEF Calls, Labels
<1>4. CallHolds(k)
  BY <1>1, ZenonT(60) DEF CallHolds, Calls, SameBinding
<1> HIDE DEF k
<1> QED
  BY Zenon, <1>3, <1>4, LocalStep DEF RecoverResolve, k

(* Whatever Recover decides from its reads leads to a call that holds.     *)
LEMMA RecoverDecideInv ==
    ASSUME FenceInv, NEW c \in Callers, call[c].op \in Ops, db[call[c].op].seq # 0,
           RecoverDecide(c, call[c].op, call[c].prec, call[c].eff, db[call[c].op]),
           UNCHANGED <<prov, nextSeq, db, effect, lsn>>
    PROVE  FenceInv' /\ Forward
<1> DEFINE o == call[c].op
           p == call[c].prec
           e == call[c].eff
           r == db[o]
           kc == AtActivate(o, p.receipt)
           ka == AtRecordAborted(o, p.receipt)
           kp == AtProviderAbort(o, ValidationFailed, p)
           kf == [At("finGet", o) EXCEPT !.digest = e.digest]
<1>1. call[c] \in Calls /\ CallHolds(call[c]) /\ o \in Ops
  BY CallFacts, Zenon
<1>2. p \in Records /\ p.receipt \in Receipts /\ e \in Effects
  BY <1>1, Zenon DEF Calls, Records
<1>3. Terminal(p) => p.receipt = prov[o].receipt
  BY <1>1, Zenon DEF CallHolds
<1>4. CASE ReturnError(c)
  BY <1>4, ErrorStep, Zenon
<1>5. CASE Terminal(r) /\ r.receipt = p.receipt /\ ReturnReceipt(c, o, p.receipt)
  BY <1>1, <1>3, <1>5, AnswerStep, Zenon DEF Terminal
<1>6. CASE p.receipt.status = "committed" /\ Goto(c, kc)
  <2>1. kc \in Calls
    BY <1>1, <1>2, IdleType, ZenonT(60) DEF AtActivate, Calls, Labels
  <2>2. Terminal(p)
    BY <1>6, SMTT(20) DEF Terminal, NoReceipt
  <2>3. CallHolds(kc)
    BY <1>1, <1>3, <2>2, ZenonT(60) DEF CallHolds, AtActivate, Idle, Terminal, Bound, SameBinding,
                            NoRecord, NoReceipt
  <2> HIDE DEF kc
  <2> QED BY Zenon, <1>6, <2>1, <2>3, LocalStep
<1>7. CASE p.receipt.status = "aborted" /\ Goto(c, ka)
  <2>1. ka \in Calls
    BY <1>1, <1>2, IdleType, Zenon DEF AtRecordAborted, Calls, Labels
  <2>2. Terminal(p)
    BY <1>7, SMTT(60) DEF Terminal, NoReceipt
  <2>3. CallHolds(ka)
    BY <1>1, <1>3, <2>2, ZenonT(60) DEF CallHolds, AtRecordAborted, Idle, Terminal, Bound, SameBinding,
                            NoRecord, NoReceipt
  <2> HIDE DEF ka
  <2> QED BY Zenon, <1>7, <2>1, <2>3, LocalStep
<1>8. CASE Goto(c, kp)
  <2>1. kp \in Calls
    BY <1>1, <1>2, IdleType, ConstantsAssumption, ZenonT(60) DEF AtProviderAbort, Calls, Labels
  <2>2. CallHolds(kp)
    BY <1>1, <1>3, ConstantsAssumption, ZenonT(60) DEF CallHolds, AtProviderAbort, Idle, Terminal, Bound, SameBinding,
                      NoRecord, NoReceipt
  <2> HIDE DEF kp
  <2> QED BY Zenon, <1>8, <2>1, <2>2, LocalStep
<1>9. CASE e.state = "committed" /\ Goto(c, kf)
  <2>1. e.digest \in Digests
    BY <1>2, <1>9 DEF Effects, NoEffect
  <2>2. kf \in Calls
    BY <1>1, <2>1, IdleType, ZenonT(60) DEF At, Calls, Labels
  <2>3. CallHolds(kf)
    BY <1>1, <2>1, ConstantsAssumption, ZenonT(60) DEF CallHolds, At, Idle, Terminal, Bound, NoRecord, NoReceipt
  <2> HIDE DEF kf
  <2> QED BY <1>9, <2>2, <2>3, LocalStep, Zenon
<1> QED
  BY <1>4, <1>5, <1>6, <1>7, <1>8, <1>9, Zenon DEF RecoverDecide

(* Recover reads the fence row.                                            *)
LEMMA RecoverGetInv ==
    ASSUME FenceInv, NEW c \in Callers, RecoverGet(c)
    PROVE  FenceInv' /\ Forward
<1> DEFINE o == call[c].op
           k == [call[c] EXCEPT !.pc = "recPending"]
<1>1. /\ call[c] \in Calls /\ CallHolds(call[c]) /\ o \in Ops
      /\ call[c].pc = "recGet"
  BY Zenon, CallFacts DEF RecoverGet
<1>2. CASE db[o].seq # 0 /\ RecoverDecide(c, o, call[c].prec, call[c].eff, db[o])
  BY Zenon, <1>1, <1>2, RecoverDecideInv DEF RecoverGet
<1>3. CASE ReturnError(c)
  BY Zenon, <1>3, ErrorStep DEF RecoverGet
<1>4. CASE Goto(c, k)
  <2>1. k \in Calls
    BY <1>1, Zenon DEF Calls, Labels
  <2>2. CallHolds(k)
    BY <1>1, Zenon DEF CallHolds, Calls, SameBinding
  <2> HIDE DEF k
  <2> QED BY Zenon, <1>4, <2>1, <2>2, LocalStep DEF RecoverGet
<1> QED
  BY Zenon, <1>2, <1>3, <1>4 DEF RecoverGet

(* Recover reads the row it has recorded.                                  *)
LEMMA RecoverRereadInv ==
    ASSUME FenceInv, NEW c \in Callers, RecoverReread(c)
    PROVE  FenceInv' /\ Forward
<1>1. call[c].op \in Ops
  BY CallFacts, Zenon DEF RecoverReread
<1>2. CASE /\ db[call[c].op].seq # 0
           /\ RecoverDecide(c, call[c].op, call[c].prec, call[c].eff, db[call[c].op])
  BY <1>1, <1>2, RecoverDecideInv, Zenon DEF RecoverReread
<1>3. CASE ReturnError(c)
  BY Zenon, <1>3, ErrorStep DEF RecoverReread
<1> QED
  BY <1>2, <1>3, Zenon DEF RecoverReread

-----------------------------------------------------------------------------
(* A fence row that did not exist is inserted as an unbound reservation,   *)
(* and the effect of its operation may appear with it.                     *)
LEMMA RowAppears ==
    ASSUME FenceInv, NEW o \in Ops, NEW seq \in Nat, NEW e \in Effects,
           db[o].seq = 0, InsertPending(o, seq),
           seq # 0 \/ e = NoEffect,
           effect' = [effect EXCEPT ![o] = e],
           UNCHANGED <<prov, nextSeq, returned>>
    PROVE  /\ Forward
           /\ ReadsStayTrue' /\ call' \in [Callers -> Calls] => FenceInv'
<1>1. /\ db \in [Ops -> Records] /\ effect \in [Ops -> Effects] /\ lsn \in Nat
      /\ db[o] = NoRecord /\ effect[o] = NoEffect
  BY Zenon DEF FenceInv, TypeOK, NothingBeforeReservation
<1>2. /\ db' \in [Ops -> Records] /\ effect' \in [Ops -> Effects] /\ lsn' \in Nat
      /\ db'[o] = [NoRecord EXCEPT !.seq = seq] /\ effect'[o] = e
      /\ \A p \in Ops : p # o => db'[p] = db[p] /\ effect'[p] = effect[p]
  BY <1>1 DEF InsertPending, NoRecord, Records
<1>3. ~Terminal(db'[o]) /\ ~Terminal(db[o]) /\ ~Bound(db[o]) /\ effect[o].state = "absent"
  BY <1>1, <1>2 DEF Terminal, Bound, NoRecord, NoEffect
<1>4. Forward
  BY <1>1, <1>2, <1>3 DEF Forward, SameBinding, FenceInv, TypeOK, NoRecord, InsertPending
<1>5. NothingBeforeReservation'
  BY <1>2 DEF FenceInv, NothingBeforeReservation, NoRecord
<1>6. RowFollowsProvider'
  BY <1>2, <1>3, Zenon DEF FenceInv, RowFollowsProvider
<1>7. CommitIsBacked' /\ OneReceipt'
  BY <1>4, BackingStays, ReceiptsStay, Zenon
<1> QED
  BY <1>2, <1>4, <1>5, <1>6, <1>7, Zenon DEF FenceInv, TypeOK

(* Recover records the pending row of a bare reservation.                  *)
LEMMA RecoverRecordPendingInv ==
    ASSUME FenceInv, NEW c \in Callers, RecoverRecordPending(c)
    PROVE  FenceInv' /\ Forward
<1> DEFINE o == call[c].op
           k == [call[c] EXCEPT !.pc = "recReread"]
<1>1. /\ call[c] \in Calls /\ CallHolds(call[c]) /\ o \in Ops
      /\ call[c].pc = "recPending"
  BY Zenon, CallFacts DEF RecoverRecordPending
<1>2. k \in Calls /\ call[c].prec.seq \in Nat
  BY <1>1, ZenonT(60) DEF Calls, Labels, Records
<1>3. CallHolds(k)
  BY Zenon, <1>1 DEF CallHolds, Calls, SameBinding
<1>4. CASE UNCHANGED <<db, lsn>>
  <2>1. CASE Goto(c, k)
    <3> HIDE DEF k
    <3> QED BY <1>2, <1>3, <1>4, <2>1, LocalStep, Zenon DEF RecoverRecordPending
  <2>2. CASE ReturnError(c)
    BY <1>4, <2>2, ErrorStep, Zenon DEF RecoverRecordPending
  <2>3. Goto(c, k) \/ ReturnError(c)
    BY Zenon DEF RecoverRecordPending
  <2> QED BY Zenon, <2>1, <2>2, <2>3
<1>5. CASE db[o].seq = 0 /\ InsertPending(o, call[c].prec.seq) /\ Goto(c, k)
  <2>1. effect[o] = NoEffect /\ effect \in [Ops -> Effects] /\ NoEffect \in Effects
    BY Zenon, <1>1, <1>5 DEF FenceInv, NothingBeforeReservation, TypeOK, Effects
  <2>2. effect' = [effect EXCEPT ![o] = NoEffect]
    BY Zenon, <1>1, <2>1 DEF RecoverRecordPending
  <2>3. UNCHANGED <<prov, nextSeq, returned>>
    BY Zenon, <1>5 DEF RecoverRecordPending, Goto
  <2>4. Forward /\ (ReadsStayTrue' /\ call' \in [Callers -> Calls] => FenceInv')
    BY <1>1, <1>2, <1>5, <2>1, <2>2, <2>3, RowAppears, Zenon
  <2>5. PICK j \in Calls : j = k
    BY Zenon, <1>2
  <2>6. ReadsStayTrue' /\ call' \in [Callers -> Calls]
    <3> HIDE DEF k
    <3>1. CallHolds(j)
      BY Zenon, <1>3, <2>5
    <3>2. CallHolds(j)'
      BY <2>4, <3>1, CallStable, Zenon
    <3>3. call' = [call EXCEPT ![c] = j]
      BY Zenon, <1>5, <2>5 DEF Goto
    <3> QED BY <2>4, <3>2, <3>3, CallMoves, Zenon
  <2> QED BY Zenon, <2>4, <2>6
<1> QED
  BY Zenon, <1>4, <1>5 DEF RecoverRecordPending

-----------------------------------------------------------------------------
(* Reservation and the business writer.                                    *)

(* The provider reserves the next sequence.                                *)
LEMMA ReserveInv ==
    ASSUME FenceInv, NEW o \in Ops, Reserve(o), UNCHANGED <<call, returned>>
    PROVE  FenceInv' /\ Forward
<1>1. /\ prov \in [Ops -> Records] /\ nextSeq \in Nat /\ prov[o] = NoRecord
  BY Zenon DEF FenceInv, TypeOK, NothingBeforeReservation, Reserve
<1>2. /\ prov' \in [Ops -> Records] /\ nextSeq' \in Nat
      /\ prov'[o].seq = nextSeq + 1 /\ prov'[o].seq # 0
      /\ \A p \in Ops : prov'[p].receipt = prov[p].receipt
      /\ \A p \in Ops : p # o => prov'[p] = prov[p]
  BY <1>1 DEF Reserve, Records
<1>3. Forward
  BY <1>1, <1>2 DEF Forward, Reserve, Terminal, NoRecord, SameBinding, FenceInv, TypeOK
<1>4. ReadsStayTrue' /\ call' \in [Callers -> Calls]
  BY Zenon, <1>3, CallsStand DEF Reserve
<1>5. TypeOK'
  BY Zenon, <1>2, <1>4 DEF FenceInv, TypeOK, Reserve
<1>6. NothingBeforeReservation'
  BY <1>2, Zenon DEF FenceInv, NothingBeforeReservation, Reserve
<1>7. RowFollowsProvider' /\ CommitIsBacked' /\ OneReceipt'
  BY <1>2 DEF FenceInv, RowFollowsProvider, CommitIsBacked, OneReceipt, Terminal, Reserve
<1> QED
  BY <1>3, <1>4, <1>5, <1>6, <1>7, Zenon DEF FenceInv

(* The business writer records the pending row.                            *)
LEMMA WriterRecordPendingInv ==
    ASSUME FenceInv, NEW o \in Ops, WriterRecordPending(o), UNCHANGED <<call, returned>>
    PROVE  FenceInv' /\ Forward
<1>1. prov[o].seq \in Nat /\ prov[o].seq # 0
  BY Zenon DEF FenceInv, TypeOK, Records, WriterRecordPending
<1>2. PICK e \in WrittenEffects \cup {NoEffect} : effect' = [effect EXCEPT ![o] = e]
  BY Zenon DEF WriterRecordPending
<1>3. e \in Effects
  BY Zenon DEF WrittenEffects, Effects
<1>4. Forward /\ (ReadsStayTrue' /\ call' \in [Callers -> Calls] => FenceInv')
  BY <1>1, <1>2, <1>3, RowAppears, Zenon DEF WriterRecordPending
<1> QED
  BY Zenon, <1>4, CallsStand DEF WriterRecordPending

(* The writer changes only the effect, and only forward.                   *)
LEMMA EffectAdvances ==
    ASSUME FenceInv, NEW o \in Ops, NEW e \in Effects, db[o].seq # 0,
           effect' = [effect EXCEPT ![o] = e],
           effect[o].state \in {"committed", "terminal"} =>
               e.state \in {"committed", "terminal"} /\ e.digest = effect[o].digest,
           lsn' = lsn + 1,
           UNCHANGED <<prov, nextSeq, db, call, returned>>
    PROVE  FenceInv' /\ Forward
<1>1. /\ effect \in [Ops -> Effects] /\ lsn \in Nat
      /\ effect' \in [Ops -> Effects] /\ effect'[o] = e
      /\ \A p \in Ops : p # o => effect'[p] = effect[p]
  BY Zenon DEF FenceInv, TypeOK
<1>2. Forward
  BY <1>1 DEF Forward, SameBinding, FenceInv, TypeOK
<1>3. ReadsStayTrue' /\ call' \in [Callers -> Calls]
  BY <1>2, CallsStand, Zenon
<1>4. TypeOK' /\ NothingBeforeReservation' /\ RowFollowsProvider'
  BY <1>1, <1>3, SMTT(20) DEF FenceInv, TypeOK, NothingBeforeReservation, RowFollowsProvider
<1> QED
  BY <1>2, <1>3, <1>4, BackingStays, ReceiptsStay, Zenon DEF FenceInv

(* The business writer prepares or commits the effect.                     *)
LEMMA WriterAdvanceEffectInv ==
    ASSUME FenceInv, NEW o \in Ops, WriterAdvanceEffect(o), UNCHANGED <<call, returned>>
    PROVE  FenceInv' /\ Forward
<1>1. PICK e \in WrittenEffects :
          /\ effect[o].state = "absent" \/ effect[o].state = "prepared"
          /\ effect' = [effect EXCEPT ![o] = e]
  BY Zenon DEF WriterAdvanceEffect
<1>2. e \in Effects
  BY Zenon DEF WrittenEffects, Effects
<1> QED
  BY <1>1, <1>2, EffectAdvances, Zenon DEF WriterAdvanceEffect

(* The domain closes a committed effect.                                   *)
LEMMA WriterCloseEffectInv ==
    ASSUME FenceInv, NEW o \in Ops, WriterCloseEffect(o), UNCHANGED <<call, returned>>
    PROVE  FenceInv' /\ Forward
<1> DEFINE e == [effect[o] EXCEPT !.state = "terminal"]
<1>1. effect \in [Ops -> Effects] /\ effect[o].state = "committed"
  BY Zenon DEF FenceInv, TypeOK, WriterCloseEffect
<1>2. e \in Effects /\ e.state = "terminal" /\ e.digest = effect[o].digest
  BY <1>1 DEF Effects, NoEffect
<1>3. effect' = [effect EXCEPT ![o] = e]
  BY Zenon DEF WriterCloseEffect
<1>4. db[o].seq # 0
  BY <1>1 DEF FenceInv, NothingBeforeReservation, NoEffect
<1>5. PICK f \in Effects : f = e
  BY Zenon, <1>2
<1> HIDE DEF e
<1> QED
  BY <1>2, <1>3, <1>4, <1>5, EffectAdvances, Zenon DEF WriterCloseEffect

-----------------------------------------------------------------------------
(* The inductive invariant holds initially.                                *)
LEMMA InitInv == Init => FenceInv
<1> SUFFICES ASSUME Init PROVE FenceInv
  BY Zenon
<1>1. NoRecord \in Records /\ ~Terminal(NoRecord) /\ NoRecord.receipt.status = "none"
  BY Zenon DEF NoRecord, NoReceipt, NoPoint, Records, Receipts, Terminal
<1>2. TypeOK
  BY <1>1, IdleType, Zenon DEF Init, StoresInit, TypeOK, Effects
<1>3. NothingBeforeReservation /\ RowFollowsProvider /\ CommitIsBacked /\ OneReceipt
  BY Zenon, <1>1 DEF Init, StoresInit, NothingBeforeReservation, RowFollowsProvider, CommitIsBacked, OneReceipt
<1>4. ReadsStayTrue
  BY Zenon, IdleHolds DEF Init, StoresInit, ReadsStayTrue
<1> QED
  BY Zenon, <1>2, <1>3, <1>4 DEF FenceInv

(* Every step of the system preserves it and only moves forward.           *)
LEMMA StepInv ==
    ASSUME FenceInv, [Next]_vars
    PROVE  FenceInv' /\ Forward
<1>1. ASSUME NEW o \in Ops,
             Write(o), UNCHANGED <<call, returned>>
      PROVE  FenceInv' /\ Forward
  BY Zenon, <1>1, ReserveInv, WriterRecordPendingInv, WriterAdvanceEffectInv, WriterCloseEffectInv DEF Write
<1>2. ASSUME NEW c \in Callers, StartCall(c)
      PROVE  FenceInv' /\ Forward
  BY <1>2, StartInv, Zenon
<1>3. ASSUME NEW c \in Callers, Step(c)
      PROVE  FenceInv' /\ Forward
  BY Zenon, <1>3, FinalizeGetInv, FinalizeResolveInv, CaptureInv, BindInv, FinalizeRereadInv,
     ProviderFinalizeInv, ActivateInv, AbortGetInv, AbortInspectInv, AbortResolveInv,
     ProviderAbortInv, RecordAbortedInv, RecoverInspectInv, RecoverResolveInv,
     RecoverGetInv, RecoverRecordPendingInv, RecoverRereadInv, SMTT(20) DEF Step
<1>4. ASSUME NEW c \in Callers, Fail(c)
      PROVE  FenceInv' /\ Forward
  BY Zenon, <1>4, ErrorStep DEF Fail
<1>5. CASE UNCHANGED vars
  <2>1. Forward
    <3>1. lsn \in Nat
      BY Zenon DEF FenceInv, TypeOK
    <3> QED BY <1>5, <3>1, SMTT(20) DEF Forward, SameBinding, vars
  <2>2. FenceInv'
    BY <1>5, ZenonT(60) DEF FenceInv, TypeOK, NothingBeforeReservation, RowFollowsProvider,
       CommitIsBacked, OneReceipt, ReadsStayTrue, CallHolds, vars
  <2> QED BY <2>1, <2>2, Zenon
<1> QED
  BY <1>1, <1>2, <1>3, <1>4, <1>5, Zenon DEF Next, Environment

(* FenceInv is an invariant of the coordinator protocol.                   *)
THEOREM FenceInvariant == Spec => []FenceInv
<1>1. FenceInv /\ [Next]_vars => FenceInv'
  BY Zenon, StepInv
<1> QED
  BY <1>1, InitInv, PTL DEF Spec

(* Every variable keeps its type.                                          *)
THEOREM TypeCorrect == Spec => []TypeOK
<1>1. FenceInv => TypeOK
  BY Zenon DEF FenceInv
<1> QED BY <1>1, FenceInvariant, PTL

(* A terminal fence row carries the provider's receipt, for any number of  *)
(* concurrent Finalize, Abort and Recover calls failing at any step.       *)
THEOREM RowsFollowTheProvider == Spec => []RowFollowsProvider
<1>1. FenceInv => RowFollowsProvider
  BY Zenon DEF FenceInv
<1> QED BY <1>1, FenceInvariant, PTL

(* Whatever the provider commits has a committed effect with that digest   *)
(* and a row bound to that digest and point.                               *)
THEOREM CommitsAreBacked == Spec => []CommitIsBacked
<1>1. FenceInv => CommitIsBacked
  BY Zenon DEF FenceInv
<1> QED BY <1>1, FenceInvariant, PTL

(* Two successful calls for one operation never return different receipts. *)
THEOREM CallsAgree == Spec => []OneReceipt
<1>1. FenceInv => OneReceipt
  BY Zenon DEF FenceInv
<1> QED BY <1>1, FenceInvariant, PTL

(* What a call acts on is still true when it acts, although it read it     *)
(* outside the transaction that uses it.                                   *)
THEOREM ReadsAreStable == Spec => []ReadsStayTrue
<1>1. FenceInv => ReadsStayTrue
  BY Zenon DEF FenceInv
<1> QED BY <1>1, FenceInvariant, PTL

(* Terminal records and rows and the binding of a bound row never change.  *)
THEOREM HistoryIsKept == Spec => NothingIsRewritten
<1>1. FenceInv /\ [Next]_vars =>
          [\A o \in Ops :
              /\ Terminal(prov[o]) => prov'[o] = prov[o]
              /\ Terminal(db[o]) => db'[o] = db[o]
              /\ Bound(db[o]) => SameBinding(db'[o], db[o])]_vars
  BY StepInv, Zenon DEF Forward
<1> QED
  BY <1>1, FenceInvariant, PTL DEF Spec, NothingIsRewritten

-----------------------------------------------------------------------------
(* Every step of the coordinator is a step of AuthorityOutcome or leaves   *)
(* the stores alone: what the calls remember (ReadsStayTrue) supplies the  *)
(* guards that the code does not check again when it writes.               *)

(* BindEffect binds the digest of the committed effect to a point captured *)
(* before.                                                                 *)
LEMMA BindRefines ==
    ASSUME FenceInv, NEW c \in Callers, BindEffect(c)
    PROVE  OutcomeNext \/ UNCHANGED stores
<1> DEFINE o == call[c].op
<1>1. /\ call[c] \in Calls /\ CallHolds(call[c]) /\ o \in Ops
      /\ call[c].pc = "finBind"
  BY Zenon, CallFacts DEF BindEffect
<1>2. /\ EffectCommitted(o, call[c].digest)
      /\ call[c].point \in 0 .. lsn
  <2>1. EffectCommitted(o, call[c].digest) /\ call[c].point <= lsn
    BY <1>1, ZenonT(30) DEF CallHolds, EffectCommitted
  <2>2. call[c].point \in Nat /\ lsn \in Nat
    BY <1>1, Zenon DEF Calls, FenceInv, TypeOK
  <2> QED BY <2>1, <2>2, SMTT(20)
<1>3. CASE UNCHANGED <<db, lsn>>
  BY <1>3, Zenon DEF BindEffect, stores
<1>4. CASE /\ db[o].seq # 0 /\ ~Terminal(db[o]) /\ ~Bound(db[o])
           /\ db' = [db EXCEPT ![o].digest = call[c].digest, ![o].point = call[c].point]
           /\ lsn' = lsn + 1
  <2>1. Bind(o, call[c].point)
    BY Zenon, <1>2, <1>4 DEF Bind, BindEffect, EffectCommitted
  <2> QED BY <1>1, <1>2, <2>1, ZenonT(60) DEF OutcomeNext
<1> QED
  BY Zenon, <1>3, <1>4 DEF BindEffect

(* Provider.Finalize commits what the row is bound to.                     *)
LEMMA ProviderFinalizeRefines ==
    ASSUME FenceInv, NEW c \in Callers, ProviderFinalize(c)
    PROVE  OutcomeNext \/ UNCHANGED stores
<1> DEFINE o == call[c].op
           r == CommittedReceipt(call[c].digest, call[c].point)
<1>1. /\ call[c] \in Calls /\ CallHolds(call[c]) /\ o \in Ops
      /\ call[c].pc = "finProvider"
  BY CallFacts, Zenon DEF ProviderFinalize
<1>2. /\ EffectCommitted(o, call[c].digest)
      /\ Bound(db[o])
      /\ db[o].digest = call[c].digest /\ db[o].point = call[c].point
  BY <1>1, Zenon DEF CallHolds, EffectCommitted, Bound, SameBinding
<1>3. CASE UNCHANGED prov
  BY <1>3, Zenon DEF ProviderFinalize, stores
<1>4. CASE /\ prov[o].seq # 0 /\ ~Terminal(prov[o])
           /\ prov' = [prov EXCEPT ![o].digest = r.digest, ![o].point = r.point,
                                   ![o].receipt = r]
  <2>1. Commit(o)
    BY <1>2, <1>4, Zenon DEF Commit, ProviderFinalize
  <2> QED BY Zenon, <1>1, <2>1 DEF OutcomeNext, Decide
<1> QED
  BY <1>3, <1>4, ZenonT(60) DEF ProviderFinalize

(* Provider.Abort aborts a reserved operation that has a row.              *)
LEMMA ProviderAbortRefines ==
    ASSUME FenceInv, NEW c \in Callers, ProviderAbort(c)
    PROVE  OutcomeNext \/ UNCHANGED stores
<1> DEFINE o == call[c].op
<1>1. /\ call[c] \in Calls /\ CallHolds(call[c]) /\ o \in Ops
      /\ call[c].pc = "abProvider"
  BY CallFacts, Zenon DEF ProviderAbort
<1>2. db[o].seq # 0 /\ call[c].reason \in Reasons
  BY <1>1, Zenon DEF CallHolds, Calls
<1>3. CASE UNCHANGED prov
  BY <1>3, Zenon DEF ProviderAbort, stores
<1>4. CASE /\ prov[o].seq # 0 /\ ~Terminal(prov[o])
           /\ prov' = [prov EXCEPT ![o].receipt = AbortedReceipt(call[c].reason)]
  <2>1. Abort(o, call[c].reason)
    BY <1>2, <1>4, Zenon DEF Abort, ProviderAbort
  <2> QED BY <1>1, <1>2, <2>1, Zenon DEF OutcomeNext, Decide
<1> QED
  BY <1>3, <1>4, Zenon DEF ProviderAbort

(* ActivateCommitted and RecordAborted write the provider's receipt.       *)
LEMMA RowRefines ==
    ASSUME FenceInv, NEW c \in Callers, ActivateCommitted(c) \/ RecordAborted(c)
    PROVE  OutcomeNext \/ UNCHANGED stores
<1> DEFINE o == call[c].op
           r == call[c].receipt
<1>1. call[c] \in Calls /\ CallHolds(call[c]) /\ o \in Ops
  BY CallFacts, Zenon DEF ActivateCommitted, RecordAborted
<1>2. r = prov[o].receipt /\ Terminal(prov[o])
  BY <1>1, Zenon DEF CallHolds, Terminal, ActivateCommitted, RecordAborted
<1>3. CASE UNCHANGED <<db, lsn>>
  BY Zenon, <1>3 DEF ActivateCommitted, RecordAborted, stores
<1>4. CASE /\ db[o].seq # 0 /\ ~Terminal(db[o])
           /\ r.digest # NoDigest => SameBinding(db[o], r)
           /\ db' = [db EXCEPT ![o].receipt = r]
           /\ lsn' = lsn + 1
  <2>1. Follow(o)
    BY <1>2, <1>4, Zenon DEF Follow, ActivateCommitted, RecordAborted
  <2> QED BY <1>1, <2>1, Zenon DEF OutcomeNext, Decide
<1> QED
  BY <1>3, <1>4, Zenon DEF ActivateCommitted, RecordAborted

(* Recover records the row of an operation that is reserved.               *)
LEMMA RecoverRecordPendingRefines ==
    ASSUME FenceInv, NEW c \in Callers, RecoverRecordPending(c)
    PROVE  OutcomeNext \/ UNCHANGED stores
<1> DEFINE o == call[c].op
<1>1. /\ call[c] \in Calls /\ CallHolds(call[c]) /\ o \in Ops
      /\ call[c].pc = "recPending"
  BY Zenon, CallFacts DEF RecoverRecordPending
<1>2. call[c].prec.seq = prov[o].seq /\ prov[o].seq # 0
  BY Zenon, <1>1 DEF CallHolds
<1>3. CASE UNCHANGED <<db, lsn>>
  BY <1>3, Zenon DEF RecoverRecordPending, stores
<1>4. CASE db[o].seq = 0 /\ InsertPending(o, call[c].prec.seq)
  <2>1. effect \in [Ops -> Effects] /\ effect[o] = NoEffect /\ effect' = effect
    BY <1>1, <1>4, Zenon DEF FenceInv, TypeOK, NothingBeforeReservation, RecoverRecordPending
  <2>2. effect' = [effect EXCEPT ![o] = NoEffect]
    BY Zenon, <1>1, <2>1
  <2>3. WriterRecordPending(o)
    BY <1>2, <1>4, <2>2, Zenon DEF WriterRecordPending, RecoverRecordPending
  <2> QED BY Zenon, <1>1, <2>3 DEF OutcomeNext, Write
<1> QED
  BY <1>3, <1>4, ZenonT(60) DEF RecoverRecordPending

(* Every step of the system is a step of the abstract specification or a   *)
(* stutter.                                                                *)
LEMMA StepRefines ==
    ASSUME FenceInv, [Next]_vars
    PROVE  [OutcomeNext]_stores
<1>1. CASE Environment
  BY Zenon, <1>1 DEF Environment, OutcomeNext
<1>2. ASSUME NEW c \in Callers, StartCall(c) \/ Fail(c)
      PROVE  UNCHANGED stores
  BY <1>2, Zenon DEF StartCall, FinalizeCall, AbortCall, RecoverCall, Fail, stores
<1>3. ASSUME NEW c \in Callers, Step(c)
      PROVE  OutcomeNext \/ UNCHANGED stores
  <2>1. CASE \/ FinalizeGet(c) \/ FinalizeResolve(c) \/ CaptureDatabasePoint(c)
             \/ FinalizeReread(c)
    BY <2>1, Zenon DEF FinalizeGet, FinalizeResolve, CaptureDatabasePoint, FinalizeReread, stores
  <2>2. CASE AbortGet(c) \/ AbortInspect(c) \/ AbortResolve(c)
    BY Zenon, <2>2 DEF AbortGet, AbortInspect, AbortResolve, stores
  <2>3. CASE RecoverInspect(c) \/ RecoverResolve(c) \/ RecoverGet(c) \/ RecoverReread(c)
    BY Zenon, <2>3 DEF RecoverInspect, RecoverResolve, RecoverGet, RecoverReread, stores
  <2> QED
    BY Zenon, <1>3, <2>1, <2>2, <2>3, BindRefines, ProviderFinalizeRefines, ProviderAbortRefines,
       RowRefines, RecoverRecordPendingRefines, SMTT(30) DEF Step
<1>4. CASE UNCHANGED vars
  BY Zenon, <1>4 DEF vars, stores
<1> QED
  BY Zenon, <1>1, <1>2, <1>3, <1>4 DEF Next

(* The coordinator, with any number of concurrent and failing calls,       *)
(* implements the abstract authority fence.                                *)
THEOREM FenceImplementsOutcome == Spec => OutcomeSpec
<1>1. Init => StoresInit
  BY Zenon DEF Init
<1>2. FenceInv /\ [Next]_vars => [OutcomeNext]_stores
  BY Zenon, StepRefines
<1> QED
  BY <1>1, <1>2, FenceInvariant, PTL DEF Spec, OutcomeSpec
=============================================================================
