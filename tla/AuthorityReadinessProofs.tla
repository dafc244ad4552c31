----------------------- MODULE AuthorityReadinessProofs ----------------------
(***************************************************************************)
(* When the process may say it is ready, and how it ends. For any set of   *)
(* operations, any number of writes, backups and restores and any          *)
(* interleaving of them with CheckReady: an answer of ready means that the *)
(* database held all the provider had decided, and an operation split      *)
(* between the two is reported as such. For any calls of its two servers,  *)
(* whatever start-up step fails and whatever deadline passes: the process  *)
(* leaves nothing open, uses nothing closed before a deadline has passed,  *)
(* and returns no error only when it was asked to stop and cut no call off.*)
(***************************************************************************)
EXTENDS AuthorityReadiness, FiniteSetTheorems, NaturalsInduction, WellFoundedInduction, TLAPS

-----------------------------------------------------------------------------
(* What a row and its effect may be beside the provider's record p.        *)
RowHolds(r, e, p) ==
    /\ r.seq # 0 => r.seq = p.seq
    /\ r.seq = 0 => r = NoRecord /\ e = NoEffect
    /\ Terminal(r) => r.receipt = p.receipt
    /\ Bound(r) => e.state \in {"committed", "terminal"} /\ e.digest = r.digest
    /\ r.receipt.status = "committed" => Bound(r) /\ r.digest = r.receipt.digest

(* What the two tables may be, now or in a backup.                         *)
CopyHolds(rows, effects, records) ==
    /\ rows \in [Ops -> Records] /\ effects \in [Ops -> Effects]
    /\ \A o \in Ops : RowHolds(rows[o], effects[o], records[o])

(* The provider numbers its operations apart.                              *)
ProviderHolds ==
    /\ prov \in [Ops -> Records] /\ nextSeq \in Nat
    /\ \A o \in Ops : prov[o].seq <= nextSeq
    /\ \A o, p \in Ops : prov[o].seq = prov[p].seq /\ prov[o].seq # 0 => o = p
    /\ \A o \in Ops : /\ prov[o].seq = 0 => prov[o].receipt = NoReceipt
                      /\ prov[o].receipt.status = "committed" => prov[o].receipt.digest \in Digests
                      /\ prov[o].receipt.status = "none" => prov[o].receipt = NoReceipt

(* The provider, the tables and the backup.                                *)
StoresHold == ProviderHolds /\ CopyHolds(db, effect, prov) /\ CopyHolds(backup.db, backup.effect, prov)

(* The answers of a check that met pending rows.                           *)
Unsettled == {"provider_unavailable", "effect_unavailable", "pending_mismatch", "pending_unresolved"}

(* A listed row whose operation is split.                                  *)
Splits(f) == f.op \in Ops /\ Split(f.op)

(* A check has all its fields.                                             *)
Formed(c) ==
    c = [pc |-> c.pc, head |-> c.head, point |-> c.point, count |-> c.count, pending |-> c.pending, prec |-> c.prec,
         inspected |-> c.inspected, reason |-> c.reason, whole |-> c.whole, split |-> c.split]

(* What CheckReady knows: see each step below.                             *)
CheckHolds ==
    /\ Formed(chk)
    /\ chk.pc \in {"idle", "point", "dbHead", "list", "inspect", "resolve", "done"}
    /\ chk.pc \in {"point", "dbHead"} => chk.head.reserved \in Nat
    /\ chk.pc = "list" /\ chk.count = 0 => chk.whole
    /\ chk.pc \in {"list", "inspect", "resolve"} => chk.reason \in Unsettled
    /\ chk.pc = "resolve" /\ ~chk.inspected => chk.reason = "provider_unavailable"
    /\ chk.pc = "done" /\ chk.reason = "ready" => chk.whole
    /\ chk.pc = "done" /\ chk.split => chk.reason \in Unsettled \ {"pending_unresolved"}
    /\ chk.pc \notin {"inspect", "resolve", "done"} => chk.split = FALSE
    /\ chk.pc \in {"inspect", "resolve"} /\ chk.split =>
          \/ chk.reason # "pending_unresolved"
          \/ \E f \in chk.pending :
                /\ Splits(f)
                /\ chk.pc = "resolve" /\ f = NextFence /\ chk.inspected => chk.prec.receipt.status = "aborted"

(* The inductive invariant.                                                *)
ReadinessInv == StoresHold /\ CheckHolds

(* Every set of naturals that is not empty has a least member.             *)
LEMMA LeastMember == ASSUME NEW T, T \subseteq Nat, T # {} PROVE \E x \in T : \A y \in T : x <= y
<1>1. PICK x \in T : \A y \in T : ~(<<y, x>> \in OpToRel(<, Nat))
  BY Zenon, NatLessThanWellFounded, WFMin
<1>2. \A y \in T : <<y, x>> \in Nat \X Nat /\ <<y, x>>[1] = y /\ <<y, x>>[2] = x
  BY Zenon
<1>3. \A y \in T : ~(y < x)
  BY Zenon, <1>1, <1>2 DEF OpToRel
<1>. QED
  BY <1>3

(* A bounded set of naturals that is not empty has a greatest member.      *)
LEMMA MaxOfBounded ==
    ASSUME NEW S, S \subseteq Nat, S # {}, NEW n \in Nat, \A x \in S : x <= n
    PROVE  Max(S) \in S /\ \A x \in S : x <= Max(S)
<1> DEFINE U == {m \in Nat : \A x \in S : x <= m}
<1>1. PICK m \in U : \A u \in U : m <= u
  BY Zenon, LeastMember
<1>2. m \in S
  <2> SUFFICES ASSUME m \notin S PROVE FALSE  BY Zenon
  <2>1. \A x \in S : x < m  OBVIOUS
  <2>2. PICK x \in S : x \in Nat /\ x < m  BY Zenon, <2>1
  <2>3. m - 1 \in U  BY <2>1, <2>2
  <2> QED BY <1>1, <2>3
<1>3. m \in S /\ \A y \in S : m >= y  BY Zenon, <1>2
<1> HIDE DEF U
<1> QED BY Zenon, <1>3 DEF Max

(* As many rows as the highest sequence number: none below it is missing.  *)
LEMMA NoGap ==
    ASSUME StoresHold, NEW n \in Nat, \A o \in Ops : db[o].seq <= n, Cardinality(Recorded(db)) = n
    PROVE  \A k \in 1 .. n : \E o \in Ops : db[o].seq = k
<1> DEFINE R == Recorded(db)
           f == [o \in R |-> db[o].seq]
<1>1. \A o \in R : o \in Ops /\ db[o].seq \in 1 .. n /\ db[o].seq = prov[o].seq /\ db[o].seq # 0
  BY DEF StoresHold, CopyHolds, RowHolds, Recorded, Records
<1>2. f \in [R -> 1 .. n]  BY Zenon, <1>1
<1>3. \A o, p \in R : f[o] = f[p] => o = p
  BY <1>1 DEF StoresHold, ProviderHolds
<1>4. f \in Injection(R, 1 .. n)
  BY Zenon, <1>2, <1>3 DEF Injection, IsInjective
<1>5. IsFiniteSet(1 .. n) /\ Cardinality(1 .. n) = n
  BY FS_Interval
<1> HIDE DEF f, R
<1>6. f \in Surjection(R, 1 .. n)
  BY Zenon, <1>4, <1>5, FS_Injection DEF R
<1>7. \A k \in 1 .. n : \E o \in R : f[o] = k
  BY Zenon, <1>6 DEF Surjection
<1> QED BY Zenon, <1>1, <1>7 DEF f, R

(* Heads without a finding: as many rows as numbers, and as many numbers   *)
(* as the provider reserved.                                               *)
LEMMA HeadsAgree ==
    ASSUME NEW h, NEW d, NEW pt, FirstFinding(HeadFindings(h, d, pt)) = "ready"
    PROVE  d.count = d.reserved /\ ~(d.reserved < h.reserved) /\ ~(d.reserved > h.reserved)
<1> DEFINE F == HeadFindings(h, d, pt)
           hits == {i \in DOMAIN F : F[i][1]}
<1>1. DOMAIN F = 1 .. 11  BY DEF HeadFindings
<1>2. \A i \in 1 .. 11 : F[i][2] # "ready"  BY DEF HeadFindings
<1>3. F[3][1] = (d.count # d.reserved) /\ F[4][1] = (d.reserved < h.reserved) /\ F[5][1] = (d.reserved > h.reserved)
  BY Zenon DEF HeadFindings
<1> HIDE DEF F
<1>4. hits = {}
  <2> SUFFICES ASSUME hits # {} PROVE FALSE  BY Zenon
  <2>1. hits \subseteq Nat  BY <1>1
  <2>2. PICK x \in hits : \A y \in hits : x =< y  BY Zenon, <2>1, LeastMember
  <2>3. Min(hits) \in hits  BY Zenon, <2>2 DEF Min
  <2>4. Min(hits) \in 1 .. 11  BY Zenon, <1>1, <2>3
  <2>5. F[Min(hits)][2] = "ready"  BY Zenon DEF FirstFinding, F
  <2> QED BY Zenon, <2>4, <2>5, <1>2
<1>5. ~F[3][1] /\ ~F[4][1] /\ ~F[5][1]
  BY <1>1, <1>4
<1> QED BY Zenon, <1>3, <1>5

(* Rows have distinct numbers up to the latest, so there are finitely      *)
(* many.                                                                   *)
LEMMA RecordedIsFinite == ASSUME StoresHold PROVE IsFiniteSet(Recorded(db)) /\ IsFiniteSet(Pending(db))
<1> DEFINE R == Recorded(db)
           f == [o \in R |-> db[o].seq]
<1>1. \A o \in R : o \in Ops /\ db[o].seq = prov[o].seq /\ db[o].seq # 0 /\ db[o].seq \in 1 .. nextSeq
  BY DEF StoresHold, CopyHolds, RowHolds, ProviderHolds, Recorded, Records
<1>2. f \in [R -> 1 .. nextSeq]  BY Zenon, <1>1
<1>3. \A o, p \in R : f[o] = f[p] => o = p
  BY <1>1 DEF StoresHold, ProviderHolds
<1>4. f \in Injection(R, 1 .. nextSeq)
  BY Zenon, <1>2, <1>3 DEF Injection, IsInjective
<1>5. IsFiniteSet(1 .. nextSeq)
  BY FS_Interval DEF StoresHold, ProviderHolds
<1> HIDE DEF f, R
<1>6. IsFiniteSet(R)
  BY Zenon, <1>4, <1>5, FS_Injection
<1>7. Pending(db) \in SUBSET R
  BY Zenon DEF Pending, R
<1> QED BY Zenon, <1>6, <1>7, FS_Subset DEF R

(* What Head reads of the fence table.                                     *)
LEMMA DatabaseHeadIs ==
    ASSUME StoresHold
    PROVE  /\ DatabaseHead.reserved \in Nat /\ DatabaseHead.count = Cardinality(Recorded(db))
           /\ DatabaseHead.pending = Cardinality(Pending(db))
           /\ \A o \in Ops : db[o].seq <= DatabaseHead.reserved
<1> DEFINE S == {db[o].seq : o \in Ops} \cup {0}
<1>1. S \subseteq Nat /\ S # {} /\ nextSeq \in Nat /\ (\A x \in S : x <= nextSeq)
  BY DEF StoresHold, ProviderHolds, CopyHolds, RowHolds, Records
<1>2. Max(S) \in S /\ \A x \in S : x <= Max(S)
  BY Zenon, <1>1, MaxOfBounded
<1>3. DatabaseHead.reserved = Max(S) /\ DatabaseHead.count = Cardinality(Recorded(db))
      /\ DatabaseHead.pending = Cardinality(Pending(db))
  BY Zenon DEF DatabaseHead, HeadOf
<1> QED BY Zenon, <1>1, <1>2, <1>3

(* The comparisons of CheckReady suffice: heads that agree and no pending  *)
(* row mean that nothing the provider decided is missing.                  *)
LEMMA WholeAtHead ==
    ASSUME StoresHold, NEW h, h.reserved \in Nat, NEW pt,
           FirstFinding(HeadFindings(h, DatabaseHead, pt)) = "ready", DatabaseHead.pending = 0
    PROVE  Whole(h)
<1> DEFINE n == DatabaseHead.reserved
<1>1. n \in Nat /\ n = h.reserved /\ Cardinality(Recorded(db)) = n /\ \A o \in Ops : db[o].seq <= n
  BY HeadsAgree, DatabaseHeadIs
<1> HIDE DEF n
<1>2. \A k \in 1 .. n : \E o \in Ops : db[o].seq = k
  BY Zenon, <1>1, NoGap
<1>3. Pending(db) = {}
  BY Zenon, DatabaseHeadIs, RecordedIsFinite, FS_EmptySet
<1>4. ASSUME NEW o \in Ops, prov[o].seq \in 1 .. h.reserved
      PROVE  Terminal(db[o]) /\ db[o].receipt = prov[o].receipt
  <2>1. PICK p \in Ops : db[p].seq = prov[o].seq  BY Zenon, <1>1, <1>2, <1>4
  <2>2. prov[p].seq = prov[o].seq /\ prov[o].seq # 0
    BY <2>1, <1>4 DEF StoresHold, CopyHolds, RowHolds
  <2>3. p = o
    BY Zenon, <2>2 DEF StoresHold, ProviderHolds
  <2>4. Terminal(db[o])
    BY Zenon, <1>3, <2>1, <2>2, <2>3 DEF Pending, Recorded
  <2> QED BY Zenon, <2>4 DEF StoresHold, CopyHolds, RowHolds
<1>5. ASSUME NEW o \in Ops, prov[o].seq \in 1 .. h.reserved, prov[o].receipt.status = "committed"
      PROVE  effect[o].state \in {"committed", "terminal"} /\ effect[o].digest = prov[o].receipt.digest
  BY <1>4, <1>5 DEF StoresHold, CopyHolds, RowHolds
<1> QED BY Zenon, <1>4, <1>5 DEF Whole

-----------------------------------------------------------------------------
(* CheckReady.                                                             *)

(* A check that has not begun knows nothing.                               *)
LEMMA NoCheckHolds == ASSUME chk' = NoCheck PROVE CheckHolds'
<1>1. chk'.pc = "idle" /\ chk'.split = FALSE
  BY Zenon DEF NoCheck
<1>2. Formed(chk')
  BY Zenon DEF NoCheck, Formed
<1> QED BY Zenon, <1>1, <1>2 DEF CheckHolds

(* An answer is sound if what led to it was.                               *)
LEMMA AnswerHolds ==
    ASSUME NEW reason, Answer(reason), reason = "ready" => chk.whole,
           chk.split => reason \in Unsettled \ {"pending_unresolved"}
    PROVE  CheckHolds'
<1>1. chk'.pc = "done" /\ chk'.reason = reason /\ chk'.whole = chk.whole /\ chk'.split = chk.split
  BY Zenon DEF Answer, NoCheck
<1>2. Formed(chk')
  BY Zenon DEF Answer, NoCheck, Formed
<1> QED BY <1>1, <1>2, Zenon DEF CheckHolds

(* CheckReady reads the head of the provider.                              *)
LEMMA ReadProviderHeadHolds == StoresHold /\ CheckHolds /\ ReadProviderHead => CheckHolds'
<1> SUFFICES ASSUME StoresHold, CheckHolds, ReadProviderHead PROVE CheckHolds'  BY Zenon
<1>1. chk'.pc = "point" /\ chk'.head = ProviderHead /\ chk'.split = FALSE
  BY Zenon DEF ReadProviderHead, NoCheck
<1>4. Formed(chk')
  BY Zenon DEF ReadProviderHead, NoCheck, Formed
<1>2. ProviderHead.reserved = nextSeq
  BY Zenon DEF ProviderHead, HeadOf
<1>3. nextSeq \in Nat  BY Zenon DEF StoresHold, ProviderHolds
<1> QED BY Zenon, <1>1, <1>2, <1>3, <1>4 DEF CheckHolds

(* CheckReady reads the database point.                                    *)
LEMMA ReadDatabasePointHolds == CheckHolds /\ ReadDatabasePoint => CheckHolds'
<1> SUFFICES ASSUME CheckHolds, ReadDatabasePoint PROVE CheckHolds'  BY Zenon
<1>1. chk' = [chk EXCEPT !.pc = "dbHead", !.point = lsn] /\ Formed(chk)
  BY Zenon DEF ReadDatabasePoint, CheckHolds
<1>2. chk'.pc = "dbHead" /\ chk'.head = chk.head /\ chk'.split = chk.split
  BY <1>1, Zenon DEF Formed
<1>3. Formed(chk')
  BY <1>1, Zenon DEF Formed
<1> QED BY Zenon, <1>2, <1>3 DEF CheckHolds, ReadDatabasePoint

(* CheckReady reads the database head and compares.                        *)
LEMMA ReadDatabaseHeadHolds == StoresHold /\ CheckHolds /\ ReadDatabaseHead => CheckHolds'
<1> SUFFICES ASSUME StoresHold, CheckHolds, ReadDatabaseHead PROVE CheckHolds'  BY Zenon
<1> DEFINE verdict == FirstFinding(HeadFindings(chk.head, DatabaseHead, chk.point))
<1>0. chk.pc = "dbHead" /\ chk.head.reserved \in Nat /\ chk.split = FALSE
  BY Zenon DEF ReadDatabaseHead, CheckHolds
<1>1. CASE verdict = "ready"
  <2>1. chk' = [NoCheck EXCEPT !.pc = "list", !.count = DatabaseHead.pending, !.whole = Whole(chk.head)]
    BY Zenon, <1>1 DEF ReadDatabaseHead
  <2>2. chk'.pc = "list" /\ chk'.count = DatabaseHead.pending /\ chk'.whole = Whole(chk.head) /\ chk'.split = FALSE
        /\ chk'.reason = "pending_unresolved"
    BY <2>1, Zenon DEF NoCheck
  <2>3. Formed(chk')
    BY <2>1, Zenon DEF NoCheck, Formed
  <2>4. DatabaseHead.pending = 0 => Whole(chk.head)
    BY Zenon, <1>0, <1>1, WholeAtHead
  <2> QED BY <2>2, <2>3, <2>4, Zenon DEF CheckHolds, Unsettled
<1>2. CASE verdict # "ready"
  <2>1. Answer(verdict)
    BY Zenon, <1>2 DEF ReadDatabaseHead
  <2> HIDE DEF verdict
  <2> QED BY <1>0, <1>2, <2>1, AnswerHolds, Zenon
<1> QED BY Zenon, <1>1, <1>2

(* CheckReady lists the pending rows; a split operation may be among them. *)
LEMMA ListPendingHolds == StoresHold /\ CheckHolds /\ ListPending /\ UNCHANGED stores => CheckHolds'
<1> SUFFICES ASSUME StoresHold, CheckHolds, ListPending, UNCHANGED stores PROVE CheckHolds'  BY Zenon
<1>0. chk.pc = "list" /\ chk.split = FALSE /\ Formed(chk) /\ (chk.count = 0 => chk.whole)
  BY Zenon DEF ListPending, CheckHolds
<1>1. CASE Cardinality(Pending(db)) # chk.count
  <2>1. Answer("pending_count_mismatch")  BY Zenon, <1>1 DEF ListPending
  <2> QED BY <1>0, <2>1, AnswerHolds, Zenon
<1>2. CASE Cardinality(Pending(db)) = chk.count /\ Pending(db) = {}
  <2>1. Answer("ready")  BY <1>2, Zenon DEF ListPending
  <2>2. chk.whole  BY Zenon, <1>0, <1>2, FS_EmptySet
  <2> QED BY <1>0, <2>1, <2>2, AnswerHolds, Zenon
<1>3. CASE Cardinality(Pending(db)) = chk.count /\ Pending(db) # {}
  <2> DEFINE split == \E o \in Pending(db) : Split(o)
             rows == {[op |-> o, row |-> db[o]] : o \in Pending(db)}
  <2>1. chk' = [chk EXCEPT !.pc = "inspect", !.split = split, !.pending = rows]
    BY <1>3, Zenon DEF ListPending
  <2>2. split => \E f \in rows : Splits(f)'
    <3> SUFFICES ASSUME NEW o \in Pending(db), Split(o) PROVE \E f \in rows : Splits(f)'  BY Zenon
    <3>1. o \in Ops /\ [op |-> o, row |-> db[o]] \in rows  BY Zenon DEF Pending, Recorded
    <3>2. PICK f \in rows : f = [op |-> o, row |-> db[o]]  BY Zenon, <3>1
    <3>3. Split(o)'  BY Zenon DEF Split, stores
    <3>4. Splits(f)'  BY Zenon, <3>1, <3>2, <3>3 DEF Splits
    <3> QED BY Zenon, <3>4
  <2> HIDE DEF split, rows
  <2>3. chk'.pc = "inspect" /\ chk'.split = split /\ chk'.pending = rows /\ chk'.reason = chk.reason
    BY <1>0, <2>1, Zenon DEF Formed
  <2>4. Formed(chk')
    BY <1>0, <2>1, Zenon DEF Formed
  <2>5. chk.reason \in Unsettled
    BY Zenon, <1>0 DEF CheckHolds
  <2> QED BY <2>2, <2>3, <2>4, <2>5, Zenon DEF CheckHolds
<1> QED BY Zenon, <1>1, <1>2, <1>3

(* A reason with a higher priority is not given up.                        *)
LEMMA PriorityKeeps ==
    ASSUME NEW a \in Unsettled, NEW b \in Unsettled
    PROVE  /\ WithPriority(a, b) \in Unsettled
           /\ a # "pending_unresolved" \/ b # "pending_unresolved" => WithPriority(a, b) # "pending_unresolved"
           /\ WithPriority(a, "provider_unavailable") = "provider_unavailable"
BY DEF WithPriority, Priority, Unsettled

(* inspectPending reads the record of the provider.                        *)
LEMMA InspectFenceHolds ==
    ASSUME CheckHolds, NEW answers \in BOOLEAN, InspectFence(answers), UNCHANGED stores
    PROVE  CheckHolds'
<1> DEFINE seen == IF answers THEN prov[NextFence.op] ELSE NoRecord
           why == IF answers THEN chk.reason ELSE WithPriority(chk.reason, "provider_unavailable")
<1>0. chk.pc = "inspect" /\ Formed(chk) /\ chk.reason \in Unsettled
  BY Zenon DEF InspectFence, CheckHolds
<1>1. chk' = [chk EXCEPT !.pc = "resolve", !.inspected = answers, !.prec = seen, !.reason = why]
  BY <1>0, Zenon DEF InspectFence
<1>2. why \in Unsettled /\ (chk.reason # "pending_unresolved" => why # "pending_unresolved")
      /\ (~answers => why = "provider_unavailable")
  BY Zenon, <1>0, PriorityKeeps DEF Unsettled
<1>3. answers => seen = prov[NextFence.op]
  BY Zenon
<1> HIDE DEF seen, why
<1>4. /\ chk'.pc = "resolve" /\ chk'.inspected = answers /\ chk'.prec = seen /\ chk'.reason = why
      /\ chk'.pending = chk.pending /\ chk'.split = chk.split
  BY <1>0, <1>1, Zenon DEF Formed
<1>5. Formed(chk')
  BY <1>0, <1>1, Zenon DEF Formed
<1>6. NextFence' = NextFence
  BY Zenon, <1>4 DEF NextFence
<1>7. ASSUME chk.split, why = "pending_unresolved"
      PROVE  \E f \in chk.pending : /\ Splits(f)'
                                    /\ f = NextFence /\ answers => seen.receipt.status = "aborted"
  <2>1. PICK f \in chk.pending : Splits(f)
    BY Zenon, <1>0, <1>2, <1>7 DEF CheckHolds
  <2>2. Splits(f)'  BY Zenon, <2>1 DEF Splits, Split, stores
  <2>3. prov[f.op].receipt.status = "aborted"  BY Zenon, <2>1 DEF Splits, Split
  <2> QED BY Zenon, <2>2, <2>3, <1>3
<1>8. chk'.split /\ chk'.reason = "pending_unresolved" =>
         \E f \in chk'.pending : /\ Splits(f)'
                                 /\ f = NextFence' /\ chk'.inspected => chk'.prec.receipt.status = "aborted"
  BY Zenon, <1>4, <1>6, <1>7
<1> QED BY <1>2, <1>4, <1>5, <1>8, Zenon DEF CheckHolds

(* inspectPending reads the effect: a split operation does not match.      *)
LEMMA ResolveFenceHolds ==
    ASSUME CheckHolds, NEW answers \in BOOLEAN, ResolveFence(answers), UNCHANGED stores
    PROVE  CheckHolds'
<1> DEFINE f == NextFence
           rest == chk.pending \ {f}
           found == IF ~answers THEN "effect_unavailable"
                    ELSE IF chk.inspected /\ ~PendingStateMatches(f.row, chk.prec, effect[f.op])
                    THEN "pending_mismatch" ELSE "pending_unresolved"
           reason == WithPriority(chk.reason, found)
<1>0. chk.pc = "resolve" /\ Formed(chk) /\ chk.reason \in Unsettled
  BY Zenon DEF ResolveFence, CheckHolds
<1>1. \/ rest = {} /\ Answer(reason)
      \/ rest # {} /\ chk' = [chk EXCEPT !.pc = "inspect", !.pending = rest, !.prec = NoRecord,
                                         !.inspected = TRUE, !.reason = reason]
  BY Zenon DEF ResolveFence
<1>2. found \in Unsettled  BY Zenon DEF Unsettled
<1>3. /\ reason \in Unsettled
      /\ chk.reason # "pending_unresolved" \/ found # "pending_unresolved" => reason # "pending_unresolved"
  <2> HIDE DEF found
  <2> QED BY Zenon, <1>0, <1>2, PriorityKeeps
<1>4. ASSUME chk.split, reason = "pending_unresolved"
      PROVE  \E g \in rest : Splits(g)
  <2>1. chk.reason = "pending_unresolved" /\ found = "pending_unresolved"
    <3> HIDE DEF found, reason
    <3> QED BY Zenon, <1>3, <1>4
  <2>2. PICK g \in chk.pending :
            /\ Splits(g)
            /\ g = NextFence /\ chk.inspected => chk.prec.receipt.status = "aborted"
    BY Zenon, <1>0, <1>4, <2>1 DEF CheckHolds
  <2>3. chk.inspected  BY Zenon, <1>0, <2>1 DEF CheckHolds
  <2>4. PendingStateMatches(f.row, chk.prec, effect[f.op])
    BY Zenon, <2>1, <2>3
  <2>5. ASSUME g = f PROVE FALSE
    <3>1. chk.prec.receipt.status = "aborted" /\ effect[f.op].state # "absent"
      BY Zenon, <2>2, <2>3, <2>5 DEF Splits, Split
    <3>2. Terminal(chk.prec)  BY <3>1 DEF Terminal, NoReceipt
    <3> QED BY Zenon, <2>4, <3>1, <3>2 DEF PendingStateMatches
  <2> QED BY Zenon, <2>2, <2>5
<1> HIDE DEF f, rest, found, reason
<1>5. CASE rest = {} /\ Answer(reason)
  <2>1. reason # "ready"  BY Zenon, <1>3 DEF Unsettled
  <2>2. chk.split => reason \in Unsettled \ {"pending_unresolved"}  BY Zenon, <1>3, <1>4, <1>5
  <2> QED BY Zenon, <1>5, <2>1, <2>2, AnswerHolds
<1>6. CASE chk' = [chk EXCEPT !.pc = "inspect", !.pending = rest, !.prec = NoRecord,
                              !.inspected = TRUE, !.reason = reason]
  <2>1. chk'.pc = "inspect" /\ chk'.pending = rest /\ chk'.reason = reason /\ chk'.split = chk.split
    BY <1>0, <1>6, Zenon DEF Formed
  <2>2. Formed(chk')
    BY <1>0, <1>6, Zenon DEF Formed
  <2>3. \A g : Splits(g) => Splits(g)'  BY Zenon DEF Splits, Split, stores
  <2>4. chk'.split /\ chk'.reason = "pending_unresolved" => \E g \in chk'.pending : Splits(g)'
    BY Zenon, <1>4, <2>1, <2>3
  <2> QED BY <1>3, <2>1, <2>2, <2>4, Zenon DEF CheckHolds
<1> QED BY Zenon, <1>1, <1>5, <1>6

(* A read of CheckReady fails.                                             *)
LEMMA CheckFailsHolds == CheckHolds /\ CheckFails => CheckHolds'
<1> SUFFICES ASSUME CheckHolds, CheckFails PROVE CheckHolds'  BY Zenon
<1>1. CASE chk.pc = "idle" /\ Answer("provider_unavailable")
  <2>1. ~chk.split  BY Zenon, <1>1 DEF CheckHolds
  <2> QED BY <1>1, <2>1, AnswerHolds, Zenon
<1>2. CASE chk.pc \in {"point", "dbHead", "list"} /\ Answer("database_unavailable")
  <2>1. ~chk.split  BY Zenon, <1>2 DEF CheckHolds
  <2> QED BY <1>2, <2>1, AnswerHolds, Zenon
<1>3. CASE chk' = NoCheck
  BY Zenon, <1>3, NoCheckHolds
<1> QED BY Zenon, <1>1, <1>2, <1>3 DEF CheckFails

(* Every step of CheckReady keeps what the check knows.                    *)
LEMMA CheckReadyHolds == StoresHold /\ CheckHolds /\ CheckReady /\ UNCHANGED stores => CheckHolds'
BY Zenon, ReadProviderHeadHolds, ReadDatabasePointHolds, ReadDatabaseHeadHolds, ListPendingHolds, InspectFenceHolds, ResolveFenceHolds, CheckFailsHolds DEF CheckReady

-----------------------------------------------------------------------------
(* The writes.                                                             *)

(* The provider keeps what it has numbered and decided.                    *)
Kept(p, q) ==
    \A o \in Ops : /\ p[o].seq # 0 => q[o].seq = p[o].seq
                   /\ Terminal(p[o]) => q[o].receipt = p[o].receipt

(* A copy of the tables stays lawful while the provider keeps what it has. *)
LEMMA CopyStays ==
    ASSUME NEW rows, NEW effects, NEW p, NEW q, CopyHolds(rows, effects, p), Kept(p, q)
    PROVE  CopyHolds(rows, effects, q)
<1>1. ASSUME NEW o \in Ops PROVE RowHolds(rows[o], effects[o], q[o])
  BY Zenon DEF CopyHolds, RowHolds, Kept, Terminal
<1> QED BY Zenon, <1>1 DEF CopyHolds

(* One row of a copy and its effect change lawfully.                       *)
LEMMA CopyMoves ==
    ASSUME NEW rows, NEW effects, NEW p, CopyHolds(rows, effects, p), NEW o \in Ops,
           NEW r \in Records, NEW e \in Effects, RowHolds(r, e, p[o])
    PROVE  CopyHolds([rows EXCEPT ![o] = r], [effects EXCEPT ![o] = e], p)
<1>1. ASSUME NEW x \in Ops PROVE RowHolds([rows EXCEPT ![o] = r][x], [effects EXCEPT ![o] = e][x], p[x])
  BY Zenon DEF CopyHolds
<1> QED BY Zenon, <1>1 DEF CopyHolds

(* What no write takes back.                                               *)
StoresForward ==
    /\ Kept(prov, prov')
    /\ \A o \in Ops : effect[o].state # "absent" => effect'[o].state # "absent"

(* The check stands still while the stores move forward.                   *)
LEMMA CheckStands ==
    ASSUME CheckHolds, StoresForward, chk' = chk
    PROVE  CheckHolds'
<1>1. \A g : Splits(g) => Splits(g)'
  BY DEF Splits, Split, StoresForward, Kept, Terminal, NoReceipt
<1>2. NextFence' = NextFence  BY Zenon DEF NextFence
<1> QED BY Zenon, <1>1, <1>2 DEF CheckHolds

(* A write of the provider that keeps what it had.                         *)
LEMMA ProviderStep ==
    ASSUME StoresHold, ProviderHolds', Kept(prov, prov'), UNCHANGED <<db, effect, backup>>
    PROVE  StoresHold' /\ StoresForward
BY Zenon, CopyStays DEF StoresHold, StoresForward

(* A write of the database to one row and its effect.                      *)
LEMMA DatabaseStep ==
    ASSUME StoresHold, NEW o \in Ops, NEW r \in Records, NEW e \in Effects, RowHolds(r, e, prov[o]),
           db' = [db EXCEPT ![o] = r], effect' = [effect EXCEPT ![o] = e],
           effect[o].state # "absent" => e.state # "absent",
           UNCHANGED <<prov, nextSeq, backup>>
    PROVE  StoresHold' /\ StoresForward
<1>1. CopyHolds(db', effect', prov)  BY Zenon, CopyMoves DEF StoresHold
<1>2. ProviderHolds'  BY Zenon DEF StoresHold, ProviderHolds
<1>3. StoresHold'  BY Zenon, <1>1, <1>2 DEF StoresHold
<1>4. StoresForward  BY Zenon DEF StoresForward, Kept, StoresHold, CopyHolds
<1> QED BY Zenon, <1>3, <1>4

(* Reserve draws a number nobody has.                                      *)
LEMMA ReserveHolds ==
    ASSUME StoresHold, NEW o \in Ops, Reserve(o), UNCHANGED backup
    PROVE  StoresHold' /\ StoresForward
<1>1. prov[o].seq = 0 /\ prov \in [Ops -> Records] /\ nextSeq \in Nat /\ prov[o] \in Records
  BY Zenon DEF Reserve, StoresHold, ProviderHolds
<1>2. prov' = [prov EXCEPT ![o] = [prov[o] EXCEPT !.seq = nextSeq + 1]] /\ nextSeq' = nextSeq + 1
  BY Zenon DEF Reserve
<1>3. PICK r : r = [prov[o] EXCEPT !.seq = nextSeq + 1]  BY Zenon
<1>4. r \in Records /\ r.seq = nextSeq + 1 /\ r.receipt = prov[o].receipt
  BY <1>1, <1>3 DEF Records
<1>5. \A x \in Ops : prov'[x] = IF x = o THEN r ELSE prov[x]
  BY Zenon, <1>1, <1>2, <1>3
<1>6. prov[o].receipt = NoReceipt  BY Zenon, <1>1 DEF StoresHold, ProviderHolds
<1>7. ProviderHolds'
  <2>1. prov' \in [Ops -> Records]  BY Zenon, <1>1, <1>2, <1>3, <1>4
  <2>2. \A x \in Ops : prov'[x].seq <= nextSeq'
    BY SMTT(60), <1>1, <1>2, <1>4, <1>5 DEF StoresHold, ProviderHolds, Records
  <2>3. \A x, y \in Ops : prov'[x].seq = prov'[y].seq /\ prov'[x].seq # 0 => x = y
    BY SMTT(60), <1>1, <1>4, <1>5 DEF StoresHold, ProviderHolds, Records
  <2>4. ASSUME NEW x \in Ops
        PROVE  /\ prov'[x].seq = 0 => prov'[x].receipt = NoReceipt
               /\ prov'[x].receipt.status = "committed" => prov'[x].receipt.digest \in Digests
               /\ prov'[x].receipt.status = "none" => prov'[x].receipt = NoReceipt
    BY Zenon, <1>4, <1>5, <1>6 DEF StoresHold, ProviderHolds, NoReceipt
  <2> QED BY <1>1, <1>2, <2>1, <2>2, <2>3, <2>4 DEF ProviderHolds
<1>8. Kept(prov, prov')  BY Zenon, <1>1, <1>4, <1>5 DEF Kept
<1> QED BY Zenon, <1>7, <1>8, ProviderStep DEF Reserve

(* The provider decides an operation that was reserved.                    *)
LEMMA DecisionHolds ==
    ASSUME StoresHold, NEW o \in Ops, prov[o].seq # 0, ~Terminal(prov[o]), NEW r \in Records,
           r.seq = prov[o].seq, r.receipt # NoReceipt, r.receipt.status # "none",
           r.receipt.status = "committed" => r.receipt.digest \in Digests,
           prov' = [prov EXCEPT ![o] = r], UNCHANGED <<nextSeq, db, effect, backup>>
    PROVE  StoresHold' /\ StoresForward
<1>1. prov \in [Ops -> Records] /\ \A x \in Ops : prov'[x] = IF x = o THEN r ELSE prov[x]
  BY Zenon DEF StoresHold, ProviderHolds
<1>2. ProviderHolds'
  <2>1. prov' \in [Ops -> Records] /\ nextSeq' \in Nat  BY Zenon, <1>1 DEF StoresHold, ProviderHolds
  <2>2. \A x \in Ops : prov'[x].seq = prov[x].seq  BY Zenon, <1>1
  <2> QED BY SMTT(60), <1>1, <2>1, <2>2 DEF StoresHold, ProviderHolds
<1>3. Kept(prov, prov')  BY Zenon, <1>1 DEF Kept
<1> QED BY Zenon, <1>2, <1>3, ProviderStep

(* The writer inserts a row with the number of the reservation.            *)
LEMMA WriterRecordPendingHolds ==
    ASSUME StoresHold, NEW o \in Ops, WriterRecordPending(o), UNCHANGED backup
    PROVE  StoresHold' /\ StoresForward
<1>1. prov[o].seq # 0 /\ prov[o].seq \in Nat /\ db[o].seq = 0
  BY Zenon DEF WriterRecordPending, StoresHold, ProviderHolds, Records
<1>2. PICK e \in WrittenEffects \cup {NoEffect} : effect' = [effect EXCEPT ![o] = e]
  BY Zenon DEF WriterRecordPending
<1>3. e \in Effects  BY Zenon DEF WrittenEffects, Effects
<1>4. PICK r : r = [NoRecord EXCEPT !.seq = prov[o].seq]  BY Zenon
<1>5. r \in Records /\ r.seq = prov[o].seq /\ r.receipt = NoReceipt /\ r.digest = NoDigest
  BY Zenon, <1>1, <1>4 DEF NoRecord, Records, Receipts, NoReceipt, NoPoint
<1>6. RowHolds(r, e, prov[o])  BY <1>1, <1>5 DEF RowHolds, Terminal, Bound, NoReceipt
<1>7. db' = [db EXCEPT ![o] = r]  BY Zenon, <1>4 DEF WriterRecordPending, InsertPending
<1>8. effect[o].state = "absent"
  BY SMTT(60), <1>1 DEF StoresHold, CopyHolds, RowHolds, NoEffect
<1> QED BY Zenon, <1>2, <1>3, <1>5, <1>6, <1>7, <1>8, DatabaseStep DEF WriterRecordPending

(* The writer writes the effect of an unbound row.                         *)
LEMMA WriterAdvanceEffectHolds ==
    ASSUME StoresHold, NEW o \in Ops, WriterAdvanceEffect(o), UNCHANGED backup
    PROVE  StoresHold' /\ StoresForward
<1>1. PICK e \in WrittenEffects : effect' = [effect EXCEPT ![o] = e]
  BY Zenon DEF WriterAdvanceEffect
<1>2. e \in Effects /\ e.state # "absent"  BY Zenon DEF WrittenEffects, Effects
<1>3. db[o].seq # 0 /\ ~Terminal(db[o]) /\ ~Bound(db[o]) /\ db \in [Ops -> Records] /\ db' = db
  BY Zenon DEF WriterAdvanceEffect, StoresHold, CopyHolds
<1>4. PICK r \in Records : r = db[o]  BY Zenon, <1>3
<1>5. RowHolds(r, e, prov[o])  BY Zenon, <1>3, <1>4 DEF StoresHold, CopyHolds, RowHolds
<1>6. db' = [db EXCEPT ![o] = r]  BY Zenon, <1>3, <1>4
<1> QED BY Zenon, <1>1, <1>2, <1>5, <1>6, DatabaseStep DEF WriterAdvanceEffect

(* The domain closes a committed effect.                                   *)
LEMMA WriterCloseEffectHolds ==
    ASSUME StoresHold, NEW o \in Ops, WriterCloseEffect(o), UNCHANGED backup
    PROVE  StoresHold' /\ StoresForward
<1>1. /\ effect[o].state = "committed" /\ effect[o] \in Effects /\ db \in [Ops -> Records] /\ db' = db
      /\ effect \in [Ops -> Effects]
      /\ effect' = [effect EXCEPT ![o] = [effect[o] EXCEPT !.state = "terminal"]]
  BY Zenon DEF WriterCloseEffect, StoresHold, CopyHolds
<1>2. PICK e : e = [effect[o] EXCEPT !.state = "terminal"]  BY Zenon
<1>3. e \in Effects /\ e.state = "terminal" /\ e.digest = effect[o].digest
  BY <1>1, <1>2 DEF Effects, NoEffect
<1>4. PICK r \in Records : r = db[o]  BY Zenon, <1>1
<1>5. RowHolds(r, e, prov[o])
  BY <1>1, <1>3, <1>4 DEF StoresHold, CopyHolds, RowHolds, NoEffect
<1>6. db' = [db EXCEPT ![o] = r] /\ effect' = [effect EXCEPT ![o] = e]  BY Zenon, <1>1, <1>2, <1>4
<1> QED BY <1>3, <1>5, <1>6, DatabaseStep DEF WriterCloseEffect

(* The row is bound to its committed effect.                               *)
LEMMA BindHolds ==
    ASSUME StoresHold, NEW o \in Ops, NEW pt \in Nat, Bind(o, pt), UNCHANGED backup
    PROVE  StoresHold' /\ StoresForward
<1>1. /\ db[o].seq # 0 /\ ~Terminal(db[o]) /\ ~Bound(db[o])
      /\ effect[o].state \in {"committed", "terminal"} /\ effect[o] \in Effects /\ db[o] \in Records
      /\ db \in [Ops -> Records] /\ effect \in [Ops -> Effects] /\ effect' = effect
      /\ db' = [db EXCEPT ![o] = [db[o] EXCEPT !.digest = effect[o].digest, !.point = pt]]
  BY Zenon DEF Bind, EffectCommitted, StoresHold, CopyHolds
<1>2. PICK r : r = [db[o] EXCEPT !.digest = effect[o].digest, !.point = pt]  BY Zenon
<1>3. effect[o].digest \in Digests  BY <1>1 DEF Effects, NoEffect
<1>4. r \in Records /\ r.seq = db[o].seq /\ r.receipt = db[o].receipt /\ r.digest = effect[o].digest
  BY Zenon, <1>1, <1>2, <1>3 DEF Records
<1>5. PICK e \in Effects : e = effect[o]  BY Zenon, <1>1
<1>6. RowHolds(r, e, prov[o])
  BY Zenon, <1>1, <1>4, <1>5 DEF StoresHold, CopyHolds, RowHolds, Terminal, NoReceipt
<1>7. db' = [db EXCEPT ![o] = r] /\ effect' = [effect EXCEPT ![o] = e]  BY Zenon, <1>1, <1>2, <1>5
<1> QED BY ZenonT(60), <1>4, <1>5, <1>6, <1>7, DatabaseStep DEF Bind

(* The row takes the receipt of the provider.                              *)
LEMMA FollowHolds ==
    ASSUME StoresHold, NEW o \in Ops, Follow(o), UNCHANGED backup
    PROVE  StoresHold' /\ StoresForward
<1>1. /\ db[o].seq # 0 /\ ~Terminal(db[o]) /\ Terminal(prov[o])
      /\ prov[o].receipt.digest # NoDigest => SameBinding(db[o], prov[o].receipt)
      /\ prov[o] \in Records /\ db[o] \in Records
      /\ db \in [Ops -> Records] /\ effect \in [Ops -> Effects] /\ effect' = effect
      /\ db' = [db EXCEPT ![o] = [db[o] EXCEPT !.receipt = prov[o].receipt]]
  BY Zenon DEF Follow, StoresHold, ProviderHolds, CopyHolds
<1>2. PICK r : r = [db[o] EXCEPT !.receipt = prov[o].receipt]  BY Zenon
<1>3. r \in Records /\ r.seq = db[o].seq /\ r.receipt = prov[o].receipt /\ r.digest = db[o].digest
  BY Zenon, <1>1, <1>2 DEF Records
<1>4. PICK e \in Effects : e = effect[o]  BY Zenon, <1>1
<1>5. r.receipt.status = "committed" => Bound(r) /\ r.digest = r.receipt.digest
  BY Zenon, <1>1, <1>3, ConstantsAssumption DEF StoresHold, ProviderHolds, SameBinding, Bound
<1>6. RowHolds(r, e, prov[o])
  BY Zenon, <1>1, <1>3, <1>4, <1>5 DEF StoresHold, CopyHolds, RowHolds, Bound
<1>7. db' = [db EXCEPT ![o] = r] /\ effect' = [effect EXCEPT ![o] = e]  BY Zenon, <1>1, <1>2, <1>4
<1> QED BY ZenonT(60), <1>3, <1>4, <1>6, <1>7, DatabaseStep DEF Follow

(* The provider commits what the row is bound to.                          *)
LEMMA CommitHolds ==
    ASSUME StoresHold, NEW o \in Ops, Commit(o), UNCHANGED backup
    PROVE  StoresHold' /\ StoresForward
<1> DEFINE rc == CommittedReceipt(db[o].digest, db[o].point)
<1>1. /\ prov[o].seq # 0 /\ ~Terminal(prov[o]) /\ Bound(db[o]) /\ prov[o] \in Records /\ db[o] \in Records
      /\ prov' = [prov EXCEPT ![o] = [prov[o] EXCEPT !.digest = rc.digest, !.point = rc.point, !.receipt = rc]]
  BY Zenon DEF Commit, StoresHold, ProviderHolds, CopyHolds
<1>2. db[o].digest \in Digests /\ db[o].point \in Nat  BY Zenon, <1>1 DEF Bound, Records
<1>3. rc \in Receipts /\ rc.status = "committed" /\ rc.digest = db[o].digest /\ rc.point = db[o].point /\ rc # NoReceipt
  BY Zenon, <1>2 DEF CommittedReceipt, Receipts, NoReceipt
<1> HIDE DEF rc
<1>4. PICK r : r = [prov[o] EXCEPT !.digest = rc.digest, !.point = rc.point, !.receipt = rc]  BY Zenon
<1>5. r \in Records /\ r.seq = prov[o].seq /\ r.receipt = rc
  BY Zenon, <1>1, <1>2, <1>3, <1>4 DEF Records
<1>6. prov' = [prov EXCEPT ![o] = r]  BY Zenon, <1>1, <1>4
<1>7. UNCHANGED <<nextSeq, db, effect, backup>>  BY Zenon DEF Commit
<1>8. r.receipt # NoReceipt /\ r.receipt.status = "committed" /\ r.receipt.digest \in Digests
  BY Zenon, <1>2, <1>3, <1>5
<1> QED BY Zenon, <1>1, <1>5, <1>6, <1>7, <1>8, DecisionHolds

(* The provider aborts.                                                    *)
LEMMA AbortHolds ==
    ASSUME StoresHold, NEW o \in Ops, NEW why \in Reasons, Abort(o, why), UNCHANGED backup
    PROVE  StoresHold' /\ StoresForward
<1> DEFINE rc == AbortedReceipt(why)
<1>1. /\ prov[o].seq # 0 /\ ~Terminal(prov[o]) /\ prov[o] \in Records
      /\ prov' = [prov EXCEPT ![o] = [prov[o] EXCEPT !.receipt = rc]]
  BY Zenon DEF Abort, StoresHold, ProviderHolds
<1>2. rc \in Receipts /\ rc.status = "aborted" /\ rc # NoReceipt
  BY Zenon DEF AbortedReceipt, Receipts, NoReceipt, NoPoint
<1> HIDE DEF rc
<1>3. PICK r : r = [prov[o] EXCEPT !.receipt = rc]  BY Zenon
<1>4. r \in Records /\ r.seq = prov[o].seq /\ r.receipt = rc
  BY Zenon, <1>1, <1>2, <1>3 DEF Records
<1> QED BY Zenon, <1>1, <1>2, <1>3, <1>4, DecisionHolds DEF Abort

(* Every write of the fence keeps the stores lawful and moves them         *)
(* forward.                                                                *)
LEMMA AuthorityWriteHolds == StoresHold /\ AuthorityWrite /\ UNCHANGED backup => StoresHold' /\ StoresForward
<1> SUFFICES ASSUME StoresHold, AuthorityWrite, UNCHANGED backup PROVE StoresHold' /\ StoresForward  BY Zenon
<1>1. PICK o \in Ops :
        \/ Write(o) \/ Decide(o)
        \/ \E pt \in (lsn - CaptureLag) .. lsn : pt > NoPoint /\ Timeline(pt) = Timeline(lsn) /\ Bind(o, pt)
  BY Zenon DEF AuthorityWrite
<1>2. CASE Write(o)
  BY Zenon, <1>2, ReserveHolds, WriterRecordPendingHolds, WriterAdvanceEffectHolds, WriterCloseEffectHolds DEF Write
<1>3. CASE Decide(o)
  BY Zenon, <1>3, CommitHolds, AbortHolds, FollowHolds DEF Decide
<1>4. CASE \E pt \in (lsn - CaptureLag) .. lsn : pt > NoPoint /\ Timeline(pt) = Timeline(lsn) /\ Bind(o, pt)
  <2>1. PICK pt \in (lsn - CaptureLag) .. lsn : pt > NoPoint /\ Bind(o, pt)  BY Zenon, <1>4
  <2>2. pt \in Nat  BY <2>1 DEF NoPoint
  <2> QED BY Zenon, <2>1, <2>2, BindHolds
<1> QED BY Zenon, <1>1, <1>2, <1>3, <1>4

(* Initially nothing is stored and no check runs.                          *)
LEMMA ReadinessInitHolds == ReadinessInit => ReadinessInv
<1> SUFFICES ASSUME ReadinessInit PROVE ReadinessInv  BY Zenon
<1>1. NoRecord \in Records /\ NoEffect \in Effects /\ RowHolds(NoRecord, NoEffect, NoRecord)
  BY Zenon DEF NoRecord, NoEffect, NoReceipt, NoPoint, Records, Receipts, Effects, RowHolds, Terminal, Bound
<1>2. CopyHolds(db, effect, prov) /\ backup.db = db /\ backup.effect = effect
  BY Zenon, <1>1 DEF ReadinessInit, StoresInit, CopyHolds
<1>3. ProviderHolds
  BY <1>1 DEF ReadinessInit, StoresInit, ProviderHolds, NoRecord, NoReceipt
<1>4. chk.pc = "idle" /\ chk.split = FALSE /\ Formed(chk)
  BY ZenonT(60) DEF ReadinessInit, NoCheck, Formed
<1>5. CheckHolds  BY Zenon, <1>4 DEF CheckHolds
<1> QED BY Zenon, <1>2, <1>3, <1>5 DEF ReadinessInv, StoresHold

(* Every step keeps the invariant; a restore puts back a lawful copy and   *)
(* ends the check.                                                         *)
LEMMA ReadinessStepHolds == ReadinessInv /\ [ReadinessNext]_rvars => ReadinessInv'
<1> SUFFICES ASSUME ReadinessInv, [ReadinessNext]_rvars PROVE ReadinessInv'  BY Zenon
<1> USE DEF ReadinessInv
<1>1. CASE AuthorityWrite /\ UNCHANGED <<backup, backups, restores, chk>>
  BY Zenon, <1>1, AuthorityWriteHolds, CheckStands
<1>2. CASE CheckReady /\ UNCHANGED <<stores, backup, backups, restores>>
  <2>1. StoresHold'  BY Zenon, <1>2 DEF StoresHold, ProviderHolds, stores
  <2> QED BY Zenon, <1>2, <2>1, CheckReadyHolds
<1>3. CASE Backup
  <2>1. backup'.db = db /\ backup'.effect = effect /\ UNCHANGED <<stores, chk>>
    BY Zenon, <1>3 DEF Backup
  <2>2. StoresHold'  BY Zenon, <2>1 DEF StoresHold, ProviderHolds, stores
  <2>3. StoresForward  BY Zenon, <2>1 DEF StoresForward, Kept, stores
  <2> QED BY Zenon, <2>1, <2>2, <2>3, CheckStands
<1>4. CASE Restore
  <2>1. db' = backup.db /\ effect' = backup.effect /\ UNCHANGED <<prov, nextSeq, backup>> /\ chk' = NoCheck
    BY Zenon, <1>4 DEF Restore
  <2>2. StoresHold'  BY Zenon, <2>1 DEF StoresHold, ProviderHolds
  <2> QED BY Zenon, <2>1, <2>2, NoCheckHolds
<1>5. CASE UNCHANGED rvars
  <2>1. StoresHold'  BY Zenon, <1>5 DEF StoresHold, ProviderHolds, rvars, stores
  <2>2. StoresForward  BY Zenon, <1>5 DEF StoresForward, Kept, rvars, stores
  <2> QED BY Zenon, <1>5, <2>1, <2>2, CheckStands DEF rvars
<1> QED BY Zenon, <1>1, <1>2, <1>3, <1>4, <1>5 DEF ReadinessNext

(* The invariant holds throughout.                                         *)
LEMMA ReadinessHolds == ReadinessSpec => []ReadinessInv
BY ReadinessInitHolds, ReadinessStepHolds, PTL DEF ReadinessSpec

(* However many operations, backups and restores: CheckReady answers ready *)
(* only if, when it read the database head, the database held every        *)
(* decision the provider had taken up to the head it had read before, with *)
(* its receipt and, if committed, its effect.                              *)
THEOREM ReadyIsWhole == ReadinessSpec => []ReadyMeansWhole
<1>1. ReadinessInv => ReadyMeansWhole
  BY Zenon DEF ReadinessInv, CheckHolds, ReadyMeansWhole
<1> QED BY <1>1, ReadinessHolds, PTL

(* An operation that was aborted although its effect is there, with its    *)
(* row among those listed, is never answered with ready or with merely     *)
(* unresolved.                                                             *)
THEOREM SplitsAreReported == ReadinessSpec => []SplitIsReported
<1>1. ReadinessInv => SplitIsReported
  BY Zenon DEF ReadinessInv, CheckHolds, SplitIsReported, Unsettled
<1> QED BY <1>1, ReadinessHolds, PTL

(***************************************************************************)
(* The process.  The invariant says for every step of main what can be open*)
(* (Closed), what must be (Opened), that nobody works before the pool is   *)
(* there (Alive), and what the steps of the shutdown have left behind: the *)
(* calls (Shut), the workers (Stopped) and the result (Asked).             *)
(***************************************************************************)
CONSTANTS Requests, Scrapes

VARIABLES pc, held, hooks, told, user, server, shutting, errCh, signalled,
          httpExpired, closeExpired, cut, closeErr, result

Process == INSTANCE ControlApiProcess

(* A call is of one server and is no worker.                               *)
CallsApart == Requests \cap Scrapes = {} /\ Process!Workers \cap (Requests \cup Scrapes) = {}

(* The steps of main.                                                      *)
Early == {"load", "validate", "postgres"}
Dependencies == {"redis", "nats"}
Opening == {"root_signer", "config_signer", "signer", "reporter"}
Late == {"start_publisher", "readiness", "listen", "serving", "stop_metrics", "await_metrics", "stop_public", "await_public"}
Ready == Late \cup {"compose", "subscribe", "start_intake"}
Releasing == {"close_providers", "close_nats", "close_redis", "close_postgres"}
Down == Process!ClosingSteps \cup Releasing \cup {"exited"}
Serving == {"serving", "stop_metrics", "await_metrics", "stop_public", "await_public"}
Before == Early \cup Dependencies \cup {"protector"} \cup Opening \cup {"compose", "subscribe", "start_intake"}
Starting == Before \cup {"start_publisher", "readiness", "listen"}
Steps == Starting \cup Serving \cup Down

States == {"off", "idle", "first", "call", "second", "done", "ended"}

MainTyped ==
    /\ pc \in Steps
    /\ user \in [Process!Users -> States] /\ hooks \subseteq Process!Workers
    /\ server \in [Process!Servers -> {"off", "starting", "listening", "failed", "closed"}]
    /\ errCh \in Seq({"failed", "closed"})
    /\ held \subseteq {"postgres", "redis", "nats", "protector", "root_signer", "config_signer", "signer", "reporter", "subscription"}

(* What can be open at each step of main.                                  *)
Closed ==
    /\ "postgres" \in held => pc \notin Early \cup {"exited"}
    /\ "redis" \in held => pc \notin Early \cup {"redis", "close_postgres", "exited"}
    /\ "nats" \in held => pc \notin Early \cup Dependencies \cup {"close_redis", "close_postgres", "exited"}
    /\ \A p \in {"protector", "root_signer", "config_signer", "signer"} :
          p \in held => pc \notin Early \cup Dependencies \cup {"protector", "close_nats", "close_redis", "close_postgres", "exited"}
    /\ "reporter" \in held => pc \in Ready \cup Process!ClosingSteps
    /\ "subscription" \in held => pc \in Late \cup {"start_intake"} \/ (pc = "stop_intake" /\ "intake" \in hooks)

(* What must be open at each step of main.                                 *)
Opened ==
    /\ pc \in Dependencies \cup {"protector", "close_providers"} \cup Opening \cup Ready \cup Process!ClosingSteps => "postgres" \in held
    /\ pc \in {"nats", "protector", "close_providers"} \cup Opening \cup Ready \cup Process!ClosingSteps => "redis" \in held
    /\ pc \in {"protector", "close_providers"} \cup Opening \cup Ready \cup Process!ClosingSteps => "nats" \in held
    /\ pc \in Opening \cup Ready \cup Process!ClosingSteps => "protector" \in held
    /\ pc \in {"reporter"} \cup Ready \cup Process!ClosingSteps => "signer" \in held

(* A process that ever ran a worker or a server holds the pool to the end. *)
Ran == hooks # {} \/ \E s \in Process!Servers : server[s] # "off"

Alive ==
    /\ Ran /\ pc # "exited" => "postgres" \in held /\ pc \in Late \cup Down
    /\ pc \in Starting => \A s \in Process!Servers : server[s] = "off"
    /\ pc \in Late => "intake" \in hooks
    /\ \A w \in Process!Workers \ hooks : user[w] = "off"
    /\ \A u \in Requests \cup Scrapes : server[Process!ServerOf(u)] = "off" => user[u] = "off"

(* Past the servers' shutdown, calls are over or cut off.                  *)
Shut ==
    /\ pc \in Starting \cup {"serving", "stop_metrics"} => shutting = {}
    /\ pc \in {"await_metrics", "stop_public", "await_public"} => "metrics" \in shutting
    /\ pc = "await_public" => "public" \in shutting
    /\ pc \in Down => \A s \in Process!Servers : s \in shutting \/ server[s] = "off"
    /\ pc \in Down => Process!Active("public") \subseteq cut

(* Past its closing step a worker was told to stop, and it has ended       *)
(* unless the deadline passed.                                             *)
Stopped ==
    /\ pc \in Down \ {"stop_intake"} => "intake" \notin hooks \/ "intake" \in told
    /\ pc \in Down \ {"stop_intake", "await_intake", "stop_publisher"} => "publisher" \notin hooks \/ "publisher" \in told
    /\ pc \in Down \ {"stop_intake", "await_intake"} /\ "intake" \in hooks =>
          user["intake"] = "ended" \/ (closeExpired /\ closeErr = "intake")
    /\ pc \in Releasing \cup {"drain", "exited"} /\ "publisher" \in hooks =>
          user["publisher"] = "ended" \/ (closeExpired /\ closeErr # "none")

(* A result without an error was asked for by a signal.                    *)
Asked ==
    /\ pc \in Starting \cup {"serving"} => cut = {} /\ \A i \in DOMAIN errCh : errCh[i] = "failed"
    /\ pc \in (Serving \ {"serving"}) \cup Down /\ result = "none" => signalled /\ cut = {}

(* The inductive invariant.                                                *)
MainInv == CallsApart /\ MainTyped /\ Closed /\ Opened /\ Alive /\ Shut /\ Stopped /\ Asked

(* During start-up nothing is served, and before the workers nothing runs. *)
LEMMA Quiet ==
    ASSUME MainInv
    PROVE  /\ pc \in Starting => (\A x \in Requests \cup Scrapes : user[x] = "off") /\ \A s \in Process!Servers : server[s] = "off"
           /\ pc \in Before => hooks = {}
<1>1. ASSUME pc \in Starting PROVE (\A x \in Requests \cup Scrapes : user[x] = "off") /\ \A s \in Process!Servers : server[s] = "off"
  BY Zenon, <1>1 DEF MainInv, Alive, Process!Servers, Process!ServerOf
<1>2. ASSUME pc \in Before PROVE hooks = {}
  BY Zenon, <1>2 DEF MainInv, Alive, Ran, Early, Dependencies, Opening, Late, Ready, Releasing, Down, Serving,
      Before, Starting, Steps, Process!ClosingSteps
<1>3. QED  BY Zenon, <1>1, <1>2

(* LoadConfig opens nothing.                                               *)
LEMMA LoadInv == MainInv /\ Process!LoadConfig => MainInv'
<1> SUFFICES ASSUME MainInv, Process!LoadConfig PROVE MainInv'  BY Zenon
<1> USE DEF MainInv, Early, Dependencies, Opening, Late, Ready, Releasing, Down, Serving, Before, Starting,
    Steps, Process!ClosingSteps
<1>1. MainTyped'  BY Zenon DEF Process!LoadConfig, Process!Gets, Process!Fails, Process!OfServers,
    Process!OfStop, MainTyped
<1>2. Closed'  BY Zenon DEF Process!LoadConfig, Process!Gets, Process!Fails, Process!OfServers, Process!OfStop, Closed
<1>3. Opened'  BY Zenon DEF Process!LoadConfig, Process!Gets, Process!Fails, Process!OfServers, Process!OfStop, Opened
<1>4. Alive'  BY Zenon DEF Process!LoadConfig, Process!Gets, Process!Fails, Process!OfServers, Process!OfStop,
    Alive, Ran
<1>5. Shut'  BY Zenon, Quiet DEF Process!LoadConfig, Process!Gets, Process!Fails, Process!OfServers,
    Process!OfStop, Shut, Process!Active, Process!CallsOf
<1>6. Stopped'  BY Zenon, Quiet DEF Process!LoadConfig, Process!Gets, Process!Fails, Process!OfServers,
    Process!OfStop, Stopped
<1>7. Asked'  BY Zenon DEF Process!LoadConfig, Process!Gets, Process!Fails, Process!OfServers, Process!OfStop, Asked
<1>8. QED  BY Zenon, <1>1, <1>2, <1>3, <1>4, <1>5, <1>6, <1>7

(* Nor does the validation of the composition.                             *)
LEMMA ValidateInv == MainInv /\ Process!ValidateComposition => MainInv'
<1> SUFFICES ASSUME MainInv, Process!ValidateComposition PROVE MainInv'  BY Zenon
<1> USE DEF MainInv, Early, Dependencies, Opening, Late, Ready, Releasing, Down, Serving, Before, Starting,
    Steps, Process!ClosingSteps
<1>1. MainTyped'  BY Zenon DEF Process!ValidateComposition, Process!Gets, Process!Fails, Process!OfServers,
    Process!OfStop, MainTyped
<1>2. Closed'  BY Zenon DEF Process!ValidateComposition, Process!Gets, Process!Fails, Process!OfServers,
    Process!OfStop, Closed
<1>3. Opened'  BY Zenon DEF Process!ValidateComposition, Process!Gets, Process!Fails, Process!OfServers,
    Process!OfStop, Opened
<1>4. Alive'  BY Zenon DEF Process!ValidateComposition, Process!Gets, Process!Fails, Process!OfServers,
    Process!OfStop, Alive, Ran
<1>5. Shut'  BY Zenon, Quiet DEF Process!ValidateComposition, Process!Gets, Process!Fails, Process!OfServers,
    Process!OfStop, Shut, Process!Active, Process!CallsOf
<1>6. Stopped'  BY Zenon, Quiet DEF Process!ValidateComposition, Process!Gets, Process!Fails,
    Process!OfServers, Process!OfStop, Stopped
<1>7. Asked'  BY Zenon DEF Process!ValidateComposition, Process!Gets, Process!Fails, Process!OfServers,
    Process!OfStop, Asked
<1>8. QED  BY Zenon, <1>1, <1>2, <1>3, <1>4, <1>5, <1>6, <1>7

(* openWithOperations: a failure goes to the step that closes what is open *)
(* by then.                                                                *)
LEMMA DependenciesInv == MainInv /\ Process!OpenDependencies => MainInv'
<1> SUFFICES ASSUME MainInv, Process!OpenDependencies PROVE MainInv'  BY Zenon
<1> USE DEF MainInv, Early, Dependencies, Opening, Late, Ready, Releasing, Down, Serving, Before, Starting,
    Steps, Process!ClosingSteps
<1>1. MainTyped'  BY Zenon DEF Process!OpenDependencies, Process!Gets, Process!Fails, Process!OfServers,
    Process!OfStop, MainTyped
<1>2. Closed'  BY DEF Process!OpenDependencies, Process!Gets, Process!Fails, Process!OfServers, Process!OfStop, Closed
<1>3. Opened'  BY Zenon DEF Process!OpenDependencies, Process!Gets, Process!Fails, Process!OfServers,
    Process!OfStop, Opened
<1>4. Alive'  BY Zenon DEF Process!OpenDependencies, Process!Gets, Process!Fails, Process!OfServers,
    Process!OfStop, Alive, Ran
<1>5. Shut'  BY Zenon, Quiet DEF Process!OpenDependencies, Process!Gets, Process!Fails, Process!OfServers,
    Process!OfStop, Shut, Process!Active, Process!CallsOf
<1>6. Stopped'  BY Zenon, Quiet DEF Process!OpenDependencies, Process!Gets, Process!Fails, Process!OfServers,
    Process!OfStop, Stopped
<1>7. Asked'  BY Zenon DEF Process!OpenDependencies, Process!Gets, Process!Fails, Process!OfServers,
    Process!OfStop, Asked
<1>8. QED  BY Zenon, <1>1, <1>2, <1>3, <1>4, <1>5, <1>6, <1>7

(* openRuntimeProviders: a failure closes the providers first.             *)
LEMMA ProvidersInv == MainInv /\ Process!OpenProviders => MainInv'
<1> SUFFICES ASSUME MainInv, Process!OpenProviders PROVE MainInv'  BY Zenon
<1> USE DEF MainInv, Early, Dependencies, Opening, Late, Ready, Releasing, Down, Serving, Before, Starting,
    Steps, Process!ClosingSteps
<1>1. MainTyped'  BY Zenon DEF Process!OpenProviders, Process!Gets, Process!Fails, Process!OfServers,
    Process!OfStop, MainTyped
<1>2. Closed'  BY Zenon DEF Process!OpenProviders, Process!Gets, Process!Fails, Process!OfServers,
    Process!OfStop, Closed
<1>3. Opened'  BY Zenon DEF Process!OpenProviders, Process!Gets, Process!Fails, Process!OfServers,
    Process!OfStop, Opened
<1>4. Alive'  BY Zenon DEF Process!OpenProviders, Process!Gets, Process!Fails, Process!OfServers,
    Process!OfStop, Alive, Ran
<1>5. Shut'  BY Zenon, Quiet DEF Process!OpenProviders, Process!Gets, Process!Fails, Process!OfServers,
    Process!OfStop, Shut, Process!Active, Process!CallsOf
<1>6. Stopped'  BY Zenon, Quiet DEF Process!OpenProviders, Process!Gets, Process!Fails, Process!OfServers,
    Process!OfStop, Stopped
<1>7. Asked'  BY Zenon DEF Process!OpenProviders, Process!Gets, Process!Fails, Process!OfServers,
    Process!OfStop, Asked
<1>8. QED  BY Zenon, <1>1, <1>2, <1>3, <1>4, <1>5, <1>6, <1>7

(* The composition opens nothing.                                          *)
LEMMA ComposeInv == MainInv /\ Process!Compose => MainInv'
<1> SUFFICES ASSUME MainInv, Process!Compose PROVE MainInv'  BY Zenon
<1> USE DEF MainInv, Early, Dependencies, Opening, Late, Ready, Releasing, Down, Serving, Before, Starting,
    Steps, Process!ClosingSteps
<1>1. MainTyped'  BY Zenon DEF Process!Compose, Process!Gets, Process!Fails, Process!OfServers,
    Process!OfStop, MainTyped
<1>2. Closed'  BY Zenon DEF Process!Compose, Process!Gets, Process!Fails, Process!OfServers, Process!OfStop, Closed
<1>3. Opened'  BY Zenon DEF Process!Compose, Process!Gets, Process!Fails, Process!OfServers, Process!OfStop, Opened
<1>4. Alive'  BY Zenon DEF Process!Compose, Process!Gets, Process!Fails, Process!OfServers, Process!OfStop, Alive, Ran
<1>5. Shut'  BY Zenon, Quiet DEF Process!Compose, Process!Gets, Process!Fails, Process!OfServers,
    Process!OfStop, Shut, Process!Active, Process!CallsOf
<1>6. Stopped'  BY Zenon, Quiet DEF Process!Compose, Process!Gets, Process!Fails, Process!OfServers,
    Process!OfStop, Stopped
<1>7. Asked'  BY Zenon DEF Process!Compose, Process!Gets, Process!Fails, Process!OfServers, Process!OfStop, Asked
<1>8. QED  BY Zenon, <1>1, <1>2, <1>3, <1>4, <1>5, <1>6, <1>7

(* The subscription comes before its worker.                               *)
LEMMA SubscribeInv == MainInv /\ Process!Subscribe => MainInv'
<1> SUFFICES ASSUME MainInv, Process!Subscribe PROVE MainInv'  BY Zenon
<1> USE DEF MainInv, Early, Dependencies, Opening, Late, Ready, Releasing, Down, Serving, Before, Starting,
    Steps, Process!ClosingSteps
<1>1. MainTyped'  BY Zenon DEF Process!Subscribe, Process!Gets, Process!Fails, Process!OfServers,
    Process!OfStop, MainTyped
<1>2. Closed'  BY Zenon DEF Process!Subscribe, Process!Gets, Process!Fails, Process!OfServers, Process!OfStop, Closed
<1>3. Opened'  BY Zenon DEF Process!Subscribe, Process!Gets, Process!Fails, Process!OfServers, Process!OfStop, Opened
<1>4. Alive'  BY Zenon DEF Process!Subscribe, Process!Gets, Process!Fails, Process!OfServers, Process!OfStop,
    Alive, Ran
<1>5. Shut'  BY Zenon, Quiet DEF Process!Subscribe, Process!Gets, Process!Fails, Process!OfServers,
    Process!OfStop, Shut, Process!Active, Process!CallsOf
<1>6. Stopped'  BY Zenon, Quiet DEF Process!Subscribe, Process!Gets, Process!Fails, Process!OfServers,
    Process!OfStop, Stopped
<1>7. Asked'  BY Zenon DEF Process!Subscribe, Process!Gets, Process!Fails, Process!OfServers, Process!OfStop, Asked
<1>8. QED  BY Zenon, <1>1, <1>2, <1>3, <1>4, <1>5, <1>6, <1>7

(* The intake starts, or the subscription is closed here: no hook knows of *)
(* it yet.                                                                 *)
LEMMA IntakeInv == MainInv /\ Process!StartIntake => MainInv'
<1> SUFFICES ASSUME MainInv, Process!StartIntake PROVE MainInv'  BY Zenon
<1> USE DEF MainInv, Early, Dependencies, Opening, Late, Ready, Releasing, Down, Serving, Before, Starting,
    Steps, Process!ClosingSteps
<1>1. MainTyped'  BY DEF Process!StartIntake, Process!StartWorker, Process!OfServers, Process!OfStop,
    MainTyped, Process!Users, Process!Workers, States
<1>2. Closed'  BY Zenon DEF Process!StartIntake, Process!StartWorker, Process!OfServers, Process!OfStop, Closed
<1>3. Opened'  BY Zenon DEF Process!StartIntake, Process!StartWorker, Process!OfServers, Process!OfStop, Opened
<1>4. Alive'  BY ZenonT(60) DEF CallsApart, Process!StartIntake, Process!StartWorker, Process!OfServers,
    Process!OfStop, Alive, Ran, MainTyped, Process!Users, Process!Workers, States, Opened, Process!Servers
<1>5. Shut'  BY Zenon, Quiet DEF Process!StartIntake, Process!StartWorker, Process!OfServers, Process!OfStop,
    Shut, Process!Active, Process!CallsOf
<1>6. Stopped'  BY Zenon, Quiet DEF Process!StartIntake, Process!StartWorker, Process!OfServers,
    Process!OfStop, Stopped
<1>7. Asked'  BY Zenon DEF Process!StartIntake, Process!StartWorker, Process!OfServers, Process!OfStop, Asked
<1>8. QED  BY Zenon, <1>1, <1>2, <1>3, <1>4, <1>5, <1>6, <1>7

(* The publisher starts, or the intake is stopped.                         *)
LEMMA PublisherInv == MainInv /\ Process!StartPublisher => MainInv'
<1> SUFFICES ASSUME MainInv, Process!StartPublisher PROVE MainInv'  BY Zenon
<1> USE DEF MainInv, Early, Dependencies, Opening, Late, Ready, Releasing, Down, Serving, Before, Starting,
    Steps, Process!ClosingSteps
<1>1. MainTyped'  BY DEF Process!StartPublisher, Process!StartWorker, Process!Gets, Process!Fails,
    Process!OfServers, Process!OfStop, MainTyped, Process!Users, Process!Workers, States
<1>2. Closed'  BY Zenon DEF Process!StartPublisher, Process!StartWorker, Process!Gets, Process!Fails,
    Process!OfServers, Process!OfStop, Closed, Alive
<1>3. Opened'  BY Zenon DEF Process!StartPublisher, Process!StartWorker, Process!Gets, Process!Fails,
    Process!OfServers, Process!OfStop, Opened
<1>4. Alive'  BY ZenonT(60) DEF CallsApart, Process!StartPublisher, Process!StartWorker, Process!Gets,
    Process!Fails, Process!OfServers, Process!OfStop, Alive, Ran, MainTyped, Process!Users, Process!Workers,
    States, Opened, Process!Servers
<1>5. Shut'  BY Zenon, Quiet DEF Process!StartPublisher, Process!StartWorker, Process!Gets, Process!Fails,
    Process!OfServers, Process!OfStop, Shut, Process!Active, Process!CallsOf
<1>6. Stopped'  BY Zenon, Quiet DEF Process!StartPublisher, Process!StartWorker, Process!Gets, Process!Fails,
    Process!OfServers, Process!OfStop, Stopped
<1>7. Asked'  BY Zenon DEF Process!StartPublisher, Process!StartWorker, Process!Gets, Process!Fails,
    Process!OfServers, Process!OfStop, Asked
<1>8. QED  BY Zenon, <1>1, <1>2, <1>3, <1>4, <1>5, <1>6, <1>7

(* Readiness is composed.                                                  *)
LEMMA ComposeReadinessInv == MainInv /\ Process!ComposeReadiness => MainInv'
<1> SUFFICES ASSUME MainInv, Process!ComposeReadiness PROVE MainInv'  BY Zenon
<1> USE DEF MainInv, Early, Dependencies, Opening, Late, Ready, Releasing, Down, Serving, Before, Starting,
    Steps, Process!ClosingSteps
<1>1. MainTyped'  BY Zenon DEF Process!ComposeReadiness, Process!Gets, Process!Fails, Process!OfServers,
    Process!OfStop, MainTyped
<1>2. Closed'  BY Zenon DEF Process!ComposeReadiness, Process!Gets, Process!Fails, Process!OfServers,
    Process!OfStop, Closed, Alive
<1>3. Opened'  BY Zenon DEF Process!ComposeReadiness, Process!Gets, Process!Fails, Process!OfServers,
    Process!OfStop, Opened
<1>4. Alive'  BY Zenon DEF Process!ComposeReadiness, Process!Gets, Process!Fails, Process!OfServers,
    Process!OfStop, Alive, Ran
<1>5. Shut'  BY Zenon, Quiet DEF Process!ComposeReadiness, Process!Gets, Process!Fails, Process!OfServers,
    Process!OfStop, Shut, Process!Active, Process!CallsOf
<1>6. Stopped'  BY Zenon, Quiet DEF Process!ComposeReadiness, Process!Gets, Process!Fails, Process!OfServers,
    Process!OfStop, Stopped
<1>7. Asked'  BY Zenon DEF Process!ComposeReadiness, Process!Gets, Process!Fails, Process!OfServers,
    Process!OfStop, Asked
<1>8. QED  BY Zenon, <1>1, <1>2, <1>3, <1>4, <1>5, <1>6, <1>7

(* The servers start.                                                      *)
LEMMA ListenInv == MainInv /\ Process!Listen => MainInv'
<1> SUFFICES ASSUME MainInv, Process!Listen PROVE MainInv'  BY Zenon
<1> USE DEF MainInv, Early, Dependencies, Opening, Late, Ready, Releasing, Down, Serving, Before, Starting,
    Steps, Process!ClosingSteps
<1>1. MainTyped'  BY Zenon DEF Process!Listen, Process!OfServers, Process!OfStop, MainTyped, Process!Users,
    Process!Workers, States
<1>2. Closed'  BY Zenon DEF Process!Listen, Process!OfServers, Process!OfStop, Closed
<1>3. Opened'  BY Zenon DEF Process!Listen, Process!OfServers, Process!OfStop, Opened
<1>4. Alive'  BY Zenon DEF CallsApart, Process!Listen, Process!OfServers, Process!OfStop, Alive, Ran,
    MainTyped, Process!Users, Process!Workers, States, Opened, Process!Servers, Process!ServerOf
<1>5. Shut'  BY Zenon, Quiet DEF Process!Listen, Process!OfServers, Process!OfStop, Shut, Process!Active,
    Process!CallsOf
<1>6. Stopped'  BY Zenon, Quiet DEF Process!Listen, Process!OfServers, Process!OfStop, Stopped
<1>7. Asked'  BY Zenon DEF Process!Listen, Process!OfServers, Process!OfStop, Asked
<1>8. QED  BY Zenon, <1>1, <1>2, <1>3, <1>4, <1>5, <1>6, <1>7

(* main leaves the select: by a signal, or with an error unless a server   *)
(* was closed.                                                             *)
LEMMA AwaitInv == MainInv /\ Process!Await => MainInv'
<1> SUFFICES ASSUME MainInv, Process!Await PROVE MainInv'  BY Zenon
<1> USE DEF MainInv, Early, Dependencies, Opening, Late, Ready, Releasing, Down, Serving, Before, Starting,
    Steps, Process!ClosingSteps
<1>0. errCh # <<>> => 1 \in DOMAIN errCh /\ Tail(errCh) \in Seq({"failed", "closed"})
  BY DEF MainTyped
<1>1. MainTyped'  BY Zenon, <1>0 DEF Process!Await, Process!OfServers, Process!OfStop, MainTyped
<1>2. Closed'  BY Zenon DEF Process!Await, Process!OfServers, Process!OfStop, Closed
<1>3. Opened'  BY Zenon DEF Process!Await, Process!OfServers, Process!OfStop, Opened
<1>4. Alive'  BY Zenon DEF Process!Await, Process!OfServers, Process!OfStop, Alive, Ran
<1>5. Shut'  BY Zenon, Quiet DEF Process!Await, Process!OfServers, Process!OfStop, Shut, Process!Active,
    Process!CallsOf
<1>6. Stopped'  BY Zenon, Quiet DEF Process!Await, Process!OfServers, Process!OfStop, Stopped
<1>7. Asked'  BY Zenon, <1>0 DEF Process!Await, Process!OfServers, Process!OfStop, Asked
<1>8. QED  BY Zenon, <1>1, <1>2, <1>3, <1>4, <1>5, <1>6, <1>7

(* A signal arrives.                                                       *)
LEMMA SignalInv == MainInv /\ Process!Signal => MainInv'
<1> SUFFICES ASSUME MainInv, Process!Signal PROVE MainInv'  BY Zenon
<1> USE DEF MainInv, Early, Dependencies, Opening, Late, Ready, Releasing, Down, Serving, Before, Starting,
    Steps, Process!ClosingSteps
<1>1. MainTyped'  BY Zenon DEF Process!Signal, Process!OfStart, Process!OfServers, Process!OfStop, MainTyped
<1>2. Closed'  BY Zenon DEF Process!Signal, Process!OfStart, Process!OfServers, Process!OfStop, Closed
<1>3. Opened'  BY Zenon DEF Process!Signal, Process!OfStart, Process!OfServers, Process!OfStop, Opened
<1>4. Alive'  BY Zenon DEF Process!Signal, Process!OfStart, Process!OfServers, Process!OfStop, Alive, Ran
<1>5. Shut'  BY Zenon DEF Process!Signal, Process!OfStart, Process!OfServers, Process!OfStop, Shut,
    Process!Active, Process!CallsOf
<1>6. Stopped'  BY Zenon DEF Process!Signal, Process!OfStart, Process!OfServers, Process!OfStop, Stopped
<1>7. Asked'  BY Zenon DEF Process!Signal, Process!OfStart, Process!OfServers, Process!OfStop, Asked
<1>8. QED  BY Zenon, <1>1, <1>2, <1>3, <1>4, <1>5, <1>6, <1>7

(* The deadline of the servers passes.                                     *)
LEMMA HttpDeadlineInv == MainInv /\ Process!HttpDeadline => MainInv'
<1> SUFFICES ASSUME MainInv, Process!HttpDeadline PROVE MainInv'  BY Zenon
<1> USE DEF MainInv, Early, Dependencies, Opening, Late, Ready, Releasing, Down, Serving, Before, Starting,
    Steps, Process!ClosingSteps
<1>1. MainTyped'  BY Zenon DEF Process!HttpDeadline, Process!OfStart, Process!OfServers, Process!OfStop, MainTyped
<1>2. Closed'  BY Zenon DEF Process!HttpDeadline, Process!OfStart, Process!OfServers, Process!OfStop, Closed
<1>3. Opened'  BY Zenon DEF Process!HttpDeadline, Process!OfStart, Process!OfServers, Process!OfStop, Opened
<1>4. Alive'  BY Zenon DEF Process!HttpDeadline, Process!OfStart, Process!OfServers, Process!OfStop, Alive, Ran
<1>5. Shut'  BY Zenon DEF Process!HttpDeadline, Process!OfStart, Process!OfServers, Process!OfStop, Shut,
    Process!Active, Process!CallsOf
<1>6. Stopped'  BY Zenon DEF Process!HttpDeadline, Process!OfStart, Process!OfServers, Process!OfStop, Stopped
<1>7. Asked'  BY Zenon DEF Process!HttpDeadline, Process!OfStart, Process!OfServers, Process!OfStop, Asked
<1>8. QED  BY Zenon, <1>1, <1>2, <1>3, <1>4, <1>5, <1>6, <1>7

(* The deadline of the closing steps passes.                               *)
LEMMA CloseDeadlineInv == MainInv /\ Process!CloseDeadline => MainInv'
<1> SUFFICES ASSUME MainInv, Process!CloseDeadline PROVE MainInv'  BY Zenon
<1> USE DEF MainInv, Early, Dependencies, Opening, Late, Ready, Releasing, Down, Serving, Before, Starting,
    Steps, Process!ClosingSteps
<1>1. MainTyped'  BY Zenon DEF Process!CloseDeadline, Process!OfStart, Process!OfServers, Process!OfStop, MainTyped
<1>2. Closed'  BY Zenon DEF Process!CloseDeadline, Process!OfStart, Process!OfServers, Process!OfStop, Closed
<1>3. Opened'  BY Zenon DEF Process!CloseDeadline, Process!OfStart, Process!OfServers, Process!OfStop, Opened
<1>4. Alive'  BY Zenon DEF Process!CloseDeadline, Process!OfStart, Process!OfServers, Process!OfStop, Alive, Ran
<1>5. Shut'  BY Zenon DEF Process!CloseDeadline, Process!OfStart, Process!OfServers, Process!OfStop, Shut,
    Process!Active, Process!CallsOf
<1>6. Stopped'  BY Zenon DEF Process!CloseDeadline, Process!OfStart, Process!OfServers, Process!OfStop, Stopped
<1>7. Asked'  BY Zenon DEF Process!CloseDeadline, Process!OfStart, Process!OfServers, Process!OfStop, Asked
<1>8. QED  BY Zenon, <1>1, <1>2, <1>3, <1>4, <1>5, <1>6, <1>7

(* The shutdown of a server waits for its calls or cuts them off.          *)
LEMMA HttpInv == MainInv /\ Process!shutdownHTTPServers => MainInv'
<1> SUFFICES ASSUME MainInv, Process!shutdownHTTPServers PROVE MainInv'  BY Zenon
<1> USE DEF MainInv, Early, Dependencies, Opening, Late, Ready, Releasing, Down, Serving, Before, Starting,
    Steps, Process!ClosingSteps
<1>1. MainTyped'  BY Zenon DEF Process!shutdownHTTPServers, Process!BeginShutdown, Process!EndShutdown,
    Process!OfServers, Process!OfStop, MainTyped
<1>2. Closed'  BY Zenon DEF Process!shutdownHTTPServers, Process!BeginShutdown, Process!EndShutdown,
    Process!OfServers, Process!OfStop, Closed, Alive
<1>3. Opened'  BY Zenon DEF Process!shutdownHTTPServers, Process!BeginShutdown, Process!EndShutdown,
    Process!OfServers, Process!OfStop, Opened
<1>4. Alive'  BY Zenon DEF Process!shutdownHTTPServers, Process!BeginShutdown, Process!EndShutdown,
    Process!OfServers, Process!OfStop, Alive, Ran
<1>5. Shut'  BY Zenon DEF Process!shutdownHTTPServers, Process!BeginShutdown, Process!EndShutdown,
    Process!OfServers, Process!OfStop, Shut, Process!Active, Process!CallsOf, Process!Servers
<1>6. Stopped'  BY Zenon DEF Process!shutdownHTTPServers, Process!BeginShutdown, Process!EndShutdown,
    Process!OfServers, Process!OfStop, Stopped
<1>7. Asked'  BY Zenon DEF Process!shutdownHTTPServers, Process!BeginShutdown, Process!EndShutdown,
    Process!OfServers, Process!OfStop, Asked
<1>8. QED  BY Zenon, <1>1, <1>2, <1>3, <1>4, <1>5, <1>6, <1>7

(* The intake is told to stop, and its subscription closed.                *)
LEMMA StopIntakeInv == MainInv /\ Process!StopIntake => MainInv'
<1> SUFFICES ASSUME MainInv, Process!StopIntake PROVE MainInv'  BY Zenon
<1> USE DEF MainInv, Early, Dependencies, Opening, Late, Ready, Releasing, Down, Serving, Before, Starting,
    Steps, Process!ClosingSteps
<1>1. MainTyped'  BY Zenon DEF Process!StopIntake, Process!OfServers, Process!OfStop, MainTyped
<1>2. Closed'  BY Zenon DEF Process!StopIntake, Process!OfServers, Process!OfStop, Closed
<1>3. Opened'  BY Zenon DEF Process!StopIntake, Process!OfServers, Process!OfStop, Opened
<1>4. Alive'  BY Zenon DEF Process!StopIntake, Process!OfServers, Process!OfStop, Alive, Ran
<1>5. Shut'  BY Zenon DEF Process!StopIntake, Process!OfServers, Process!OfStop, Shut, Process!Active, Process!CallsOf
<1>6. Stopped'  BY Zenon DEF Process!StopIntake, Process!OfServers, Process!OfStop, Stopped
<1>7. Asked'  BY Zenon DEF Process!StopIntake, Process!OfServers, Process!OfStop, Asked
<1>8. QED  BY Zenon, <1>1, <1>2, <1>3, <1>4, <1>5, <1>6, <1>7

(* The intake is awaited.                                                  *)
LEMMA AwaitIntakeInv == MainInv /\ Process!AwaitIntake => MainInv'
<1> SUFFICES ASSUME MainInv, Process!AwaitIntake PROVE MainInv'  BY Zenon
<1> USE DEF MainInv, Early, Dependencies, Opening, Late, Ready, Releasing, Down, Serving, Before, Starting,
    Steps, Process!ClosingSteps
<1>1. MainTyped'  BY Zenon DEF Process!AwaitIntake, Process!OfServers, Process!OfStop, MainTyped
<1>2. Closed'  BY Zenon DEF Process!AwaitIntake, Process!OfServers, Process!OfStop, Closed
<1>3. Opened'  BY Zenon DEF Process!AwaitIntake, Process!OfServers, Process!OfStop, Opened
<1>4. Alive'  BY Zenon DEF Process!AwaitIntake, Process!OfServers, Process!OfStop, Alive, Ran
<1>5. Shut'  BY Zenon DEF Process!AwaitIntake, Process!OfServers, Process!OfStop, Shut, Process!Active,
    Process!CallsOf
<1>6. Stopped'  BY Zenon DEF Process!AwaitIntake, Process!OfServers, Process!OfStop, Stopped
<1>7. Asked'  BY Zenon DEF Process!AwaitIntake, Process!OfServers, Process!OfStop, Asked
<1>8. QED  BY Zenon, <1>1, <1>2, <1>3, <1>4, <1>5, <1>6, <1>7

(* The publisher is told to stop.                                          *)
LEMMA StopPublisherInv == MainInv /\ Process!StopPublisher => MainInv'
<1> SUFFICES ASSUME MainInv, Process!StopPublisher PROVE MainInv'  BY Zenon
<1> USE DEF MainInv, Early, Dependencies, Opening, Late, Ready, Releasing, Down, Serving, Before, Starting,
    Steps, Process!ClosingSteps
<1>1. MainTyped'  BY Zenon DEF Process!StopPublisher, Process!OfServers, Process!OfStop, MainTyped
<1>2. Closed'  BY Zenon DEF Process!StopPublisher, Process!OfServers, Process!OfStop, Closed
<1>3. Opened'  BY Zenon DEF Process!StopPublisher, Process!OfServers, Process!OfStop, Opened
<1>4. Alive'  BY Zenon DEF Process!StopPublisher, Process!OfServers, Process!OfStop, Alive, Ran
<1>5. Shut'  BY Zenon DEF Process!StopPublisher, Process!OfServers, Process!OfStop, Shut, Process!Active,
    Process!CallsOf
<1>6. Stopped'  BY Zenon DEF Process!StopPublisher, Process!OfServers, Process!OfStop, Stopped
<1>7. Asked'  BY Zenon DEF Process!StopPublisher, Process!OfServers, Process!OfStop, Asked
<1>8. QED  BY Zenon, <1>1, <1>2, <1>3, <1>4, <1>5, <1>6, <1>7

(* The publisher is awaited; an error of the intake is kept.               *)
LEMMA AwaitPublisherInv == MainInv /\ Process!AwaitPublisher => MainInv'
<1> SUFFICES ASSUME MainInv, Process!AwaitPublisher PROVE MainInv'  BY Zenon
<1> USE DEF MainInv, Early, Dependencies, Opening, Late, Ready, Releasing, Down, Serving, Before, Starting,
    Steps, Process!ClosingSteps
<1>1. MainTyped'  BY Zenon DEF Process!AwaitPublisher, Process!OfServers, Process!OfStop, MainTyped
<1>2. Closed'  BY Zenon DEF Process!AwaitPublisher, Process!OfServers, Process!OfStop, Closed
<1>3. Opened'  BY Zenon DEF Process!AwaitPublisher, Process!OfServers, Process!OfStop, Opened
<1>4. Alive'  BY Zenon DEF Process!AwaitPublisher, Process!OfServers, Process!OfStop, Alive, Ran
<1>5. Shut'  BY Zenon DEF Process!AwaitPublisher, Process!OfServers, Process!OfStop, Shut, Process!Active,
    Process!CallsOf
<1>6. Stopped'  BY Zenon DEF Process!AwaitPublisher, Process!OfServers, Process!OfStop, Stopped
<1>7. Asked'  BY Zenon DEF Process!AwaitPublisher, Process!OfServers, Process!OfStop, Asked
<1>8. QED  BY Zenon, <1>1, <1>2, <1>3, <1>4, <1>5, <1>6, <1>7

(* The reporter is drained.                                                *)
LEMMA DrainInv == MainInv /\ Process!DrainReporter => MainInv'
<1> SUFFICES ASSUME MainInv, Process!DrainReporter PROVE MainInv'  BY Zenon
<1> USE DEF MainInv, Early, Dependencies, Opening, Late, Ready, Releasing, Down, Serving, Before, Starting,
    Steps, Process!ClosingSteps
<1>1. MainTyped'  BY Zenon DEF Process!DrainReporter, Process!Releases, Process!OfServers, Process!OfStop, MainTyped
<1>2. Closed'  BY Zenon DEF Process!DrainReporter, Process!Releases, Process!OfServers, Process!OfStop, Closed
<1>3. Opened'  BY Zenon DEF Process!DrainReporter, Process!Releases, Process!OfServers, Process!OfStop, Opened
<1>4. Alive'  BY Zenon DEF Process!DrainReporter, Process!Releases, Process!OfServers, Process!OfStop, Alive, Ran
<1>5. Shut'  BY Zenon DEF Process!DrainReporter, Process!Releases, Process!OfServers, Process!OfStop, Shut,
    Process!Active, Process!CallsOf
<1>6. Stopped'  BY Zenon DEF Process!DrainReporter, Process!Releases, Process!OfServers, Process!OfStop, Stopped
<1>7. Asked'  BY Zenon DEF Process!DrainReporter, Process!Releases, Process!OfServers, Process!OfStop, Asked
<1>8. QED  BY Zenon, <1>1, <1>2, <1>3, <1>4, <1>5, <1>6, <1>7

(* The providers are closed.                                               *)
LEMMA ResourcesInv == MainInv /\ Process!closeResources => MainInv'
<1> SUFFICES ASSUME MainInv, Process!closeResources PROVE MainInv'  BY Zenon
<1> USE DEF MainInv, Early, Dependencies, Opening, Late, Ready, Releasing, Down, Serving, Before, Starting,
    Steps, Process!ClosingSteps
<1>1. MainTyped'  BY Zenon DEF Process!closeResources, Process!Releases, Process!OfServers, Process!OfStop, MainTyped
<1>2. Closed'  BY Zenon DEF Process!closeResources, Process!Releases, Process!OfServers, Process!OfStop, Closed
<1>3. Opened'  BY Zenon DEF Process!closeResources, Process!Releases, Process!OfServers, Process!OfStop, Opened
<1>4. Alive'  BY Zenon DEF Process!closeResources, Process!Releases, Process!OfServers, Process!OfStop, Alive, Ran
<1>5. Shut'  BY Zenon DEF Process!closeResources, Process!Releases, Process!OfServers, Process!OfStop, Shut,
    Process!Active, Process!CallsOf
<1>6. Stopped'  BY Zenon DEF Process!closeResources, Process!Releases, Process!OfServers, Process!OfStop, Stopped
<1>7. Asked'  BY Zenon DEF Process!closeResources, Process!Releases, Process!OfServers, Process!OfStop, Asked
<1>8. QED  BY Zenon, <1>1, <1>2, <1>3, <1>4, <1>5, <1>6, <1>7

(* The dependencies are closed.                                            *)
LEMMA ReleaseInv == MainInv /\ Process!CloseDependencies => MainInv'
<1> SUFFICES ASSUME MainInv, Process!CloseDependencies PROVE MainInv'  BY Zenon
<1> USE DEF MainInv, Early, Dependencies, Opening, Late, Ready, Releasing, Down, Serving, Before, Starting,
    Steps, Process!ClosingSteps
<1>1. MainTyped'  BY Zenon DEF Process!CloseDependencies, Process!Releases, Process!OfServers, Process!OfStop,
    MainTyped
<1>2. Closed'  BY Zenon DEF Process!CloseDependencies, Process!Releases, Process!OfServers, Process!OfStop, Closed
<1>3. Opened'  BY Zenon DEF Process!CloseDependencies, Process!Releases, Process!OfServers, Process!OfStop, Opened
<1>4. Alive'  BY Zenon DEF Process!CloseDependencies, Process!Releases, Process!OfServers, Process!OfStop, Alive, Ran
<1>5. Shut'  BY Zenon DEF Process!CloseDependencies, Process!Releases, Process!OfServers, Process!OfStop,
    Shut, Process!Active, Process!CallsOf
<1>6. Stopped'  BY Zenon DEF Process!CloseDependencies, Process!Releases, Process!OfServers, Process!OfStop, Stopped
<1>7. Asked'  BY Zenon DEF Process!CloseDependencies, Process!Releases, Process!OfServers, Process!OfStop, Asked
<1>8. QED  BY Zenon, <1>1, <1>2, <1>3, <1>4, <1>5, <1>6, <1>7

(* A server listens, fails, or is closed after its shutdown began.         *)
LEMMA ListenAndServeInv ==
    ASSUME MainInv, NEW s \in Process!Servers, Process!ListenAndServe(s)
    PROVE  MainInv'
<1> USE DEF MainInv, Early, Dependencies, Opening, Late, Ready, Releasing, Down, Serving, Before, Starting,
    Steps, Process!ClosingSteps
<1>1. MainTyped'  BY SMTT(60) DEF Process!ListenAndServe, Process!OfStart, Process!OfServers, Process!OfStop,
    MainTyped, Process!Servers
<1>2. Closed'  BY Zenon DEF Process!ListenAndServe, Process!OfStart, Process!OfServers, Process!OfStop, Closed
<1>3. Opened'  BY Zenon DEF Process!ListenAndServe, Process!OfStart, Process!OfServers, Process!OfStop, Opened
<1>4. Alive'  BY DEF Process!ListenAndServe, Process!OfStart, Process!OfServers, Process!OfStop, Alive, Ran,
    MainTyped, Process!Servers, Process!ServerOf
<1>5. Shut'  BY DEF Process!ListenAndServe, Process!OfStart, Process!OfServers, Process!OfStop, Shut,
    Process!Active, Process!CallsOf, MainTyped, Process!Servers
<1>6. Stopped'  BY Zenon DEF Process!ListenAndServe, Process!OfStart, Process!OfServers, Process!OfStop, Stopped
<1>7. Asked'  BY SMTT(60) DEF Process!ListenAndServe, Process!OfStart, Process!OfServers, Process!OfStop,
    Asked, MainTyped, Shut
<1>8. QED  BY Zenon, <1>1, <1>2, <1>3, <1>4, <1>5, <1>6, <1>7

(* A worker or a call begins a piece of work.                              *)
LEMMA BeginInv ==
    ASSUME MainInv, NEW u \in Process!Users, Process!Begin(u)
    PROVE  MainInv'
<1> USE DEF MainInv, Early, Dependencies, Opening, Late, Ready, Releasing, Down, Serving, Before, Starting,
    Steps, Process!ClosingSteps
<1>1. MainTyped'  BY Zenon DEF Process!Begin, Process!OfStart, Process!OfServers, Process!OfStop, MainTyped,
    Process!Users, Process!Workers, States, Process!Rest
<1>2. Closed'  BY DEF Process!Begin, Process!OfStart, Process!OfServers, Process!OfStop, Closed
<1>3. Opened'  BY Zenon DEF Process!Begin, Process!OfStart, Process!OfServers, Process!OfStop, Opened
<1>4. Alive'  BY DEF CallsApart, Process!Begin, Process!OfStart, Process!OfServers, Process!OfStop, Alive,
    Ran, MainTyped, Process!Users, Process!Workers, States, Process!Rest, Process!Servers, Process!ServerOf
<1>5. Shut'  BY DEF CallsApart, Process!Begin, Process!OfStart, Process!OfServers, Process!OfStop, Shut,
    Process!Active, Process!CallsOf, MainTyped, Process!Users, Process!Workers, States, Process!Rest,
    Process!Servers, Process!ServerOf
<1>6. Stopped'  BY DEF CallsApart, Process!Begin, Process!OfStart, Process!OfServers, Process!OfStop, Stopped,
    MainTyped, Process!Users, Process!Workers, States, Process!Rest
<1>7. Asked'  BY Zenon DEF Process!Begin, Process!OfStart, Process!OfServers, Process!OfStop, Asked
<1>8. QED  BY Zenon, <1>1, <1>2, <1>3, <1>4, <1>5, <1>6, <1>7

(* A query ends.                                                           *)
LEMMA QueryInv ==
    ASSUME MainInv, NEW u \in Process!Users, Process!QueryEnds(u)
    PROVE  MainInv'
<1> USE DEF MainInv, Early, Dependencies, Opening, Late, Ready, Releasing, Down, Serving, Before, Starting,
    Steps, Process!ClosingSteps
<1>1. MainTyped'  BY DEF Process!QueryEnds, Process!OfStart, Process!OfServers, Process!OfStop, MainTyped,
    Process!Users, Process!Workers, States, Process!Rest
<1>2. Closed'  BY Zenon DEF Process!QueryEnds, Process!OfStart, Process!OfServers, Process!OfStop, Closed
<1>3. Opened'  BY Zenon DEF Process!QueryEnds, Process!OfStart, Process!OfServers, Process!OfStop, Opened
<1>4. Alive'  BY ZenonT(60) DEF CallsApart, Process!QueryEnds, Process!OfStart, Process!OfServers,
    Process!OfStop, Alive, Ran, MainTyped, Process!Users, Process!Workers, States, Process!Rest,
    Process!Servers, Process!ServerOf
<1>5. Shut'  BY ZenonT(60) DEF CallsApart, Process!QueryEnds, Process!OfStart, Process!OfServers,
    Process!OfStop, Shut, Process!Active, Process!CallsOf, MainTyped, Process!Users, Process!Workers, States,
    Process!Rest, Process!Servers, Process!ServerOf
<1>6. Stopped'  BY DEF CallsApart, Process!QueryEnds, Process!OfStart, Process!OfServers, Process!OfStop,
    Stopped, MainTyped, Process!Users, Process!Workers, States, Process!Rest
<1>7. Asked'  BY Zenon DEF Process!QueryEnds, Process!OfStart, Process!OfServers, Process!OfStop, Asked
<1>8. QED  BY Zenon, <1>1, <1>2, <1>3, <1>4, <1>5, <1>6, <1>7

(* A call outside the database ends.                                       *)
LEMMA CallInv ==
    ASSUME MainInv, NEW u \in Process!Users, Process!CallEnds(u)
    PROVE  MainInv'
<1> USE DEF MainInv, Early, Dependencies, Opening, Late, Ready, Releasing, Down, Serving, Before, Starting,
    Steps, Process!ClosingSteps
<1>1. MainTyped'  BY DEF Process!CallEnds, Process!OfStart, Process!OfServers, Process!OfStop, MainTyped,
    Process!Users, Process!Workers, States, Process!Rest
<1>2. Closed'  BY Zenon DEF Process!CallEnds, Process!OfStart, Process!OfServers, Process!OfStop, Closed
<1>3. Opened'  BY Zenon DEF Process!CallEnds, Process!OfStart, Process!OfServers, Process!OfStop, Opened
<1>4. Alive'  BY ZenonT(60) DEF CallsApart, Process!CallEnds, Process!OfStart, Process!OfServers,
    Process!OfStop, Alive, Ran, MainTyped, Process!Users, Process!Workers, States, Process!Rest,
    Process!Servers, Process!ServerOf
<1>5. Shut'  BY ZenonT(60) DEF CallsApart, Process!CallEnds, Process!OfStart, Process!OfServers,
    Process!OfStop, Shut, Process!Active, Process!CallsOf, MainTyped, Process!Users, Process!Workers, States,
    Process!Rest, Process!Servers, Process!ServerOf
<1>6. Stopped'  BY DEF CallsApart, Process!CallEnds, Process!OfStart, Process!OfServers, Process!OfStop,
    Stopped, MainTyped, Process!Users, Process!Workers, States, Process!Rest
<1>7. Asked'  BY Zenon DEF Process!CallEnds, Process!OfStart, Process!OfServers, Process!OfStop, Asked
<1>8. QED  BY Zenon, <1>1, <1>2, <1>3, <1>4, <1>5, <1>6, <1>7

(* A worker ends.                                                          *)
LEMMA EndInv ==
    ASSUME MainInv, NEW u \in Process!Workers, Process!WorkerEnds(u)
    PROVE  MainInv'
<1> USE DEF MainInv, Early, Dependencies, Opening, Late, Ready, Releasing, Down, Serving, Before, Starting,
    Steps, Process!ClosingSteps
<1>1. MainTyped'  BY Zenon DEF Process!WorkerEnds, Process!OfStart, Process!OfServers, Process!OfStop,
    MainTyped, Process!Users, Process!Workers, States, Process!Rest
<1>2. Closed'  BY Zenon DEF Process!WorkerEnds, Process!OfStart, Process!OfServers, Process!OfStop, Closed
<1>3. Opened'  BY Zenon DEF Process!WorkerEnds, Process!OfStart, Process!OfServers, Process!OfStop, Opened
<1>4. Alive'  BY Zenon DEF CallsApart, Process!WorkerEnds, Process!OfStart, Process!OfServers, Process!OfStop,
    Alive, Ran, MainTyped, Process!Users, Process!Workers, States, Process!Rest, Process!Servers,
    Process!ServerOf
<1>5. Shut'  BY DEF CallsApart, Process!WorkerEnds, Process!OfStart, Process!OfServers, Process!OfStop, Shut,
    Process!Active, Process!CallsOf, MainTyped, Process!Users, Process!Workers, States, Process!Rest,
    Process!Servers, Process!ServerOf
<1>6. Stopped'  BY DEF CallsApart, Process!WorkerEnds, Process!OfStart, Process!OfServers, Process!OfStop,
    Stopped, MainTyped, Process!Users, Process!Workers, States, Process!Rest
<1>7. Asked'  BY Zenon DEF Process!WorkerEnds, Process!OfStart, Process!OfServers, Process!OfStop, Asked
<1>8. QED  BY Zenon, <1>1, <1>2, <1>3, <1>4, <1>5, <1>6, <1>7

(* Every step keeps the invariant.                                         *)
LEMMA MainStepInv == MainInv /\ [Process!Next]_Process!vars => MainInv'
<1> SUFFICES ASSUME MainInv, [Process!Next]_Process!vars PROVE MainInv'  BY Zenon
<1>1. CASE Process!Start
  BY Zenon, <1>1, LoadInv, ValidateInv, DependenciesInv, ProvidersInv, ComposeInv, SubscribeInv, IntakeInv,
      PublisherInv, ComposeReadinessInv, ListenInv DEF Process!Start
<1>2. CASE Process!Stop
  BY Zenon, <1>2, HttpInv, StopIntakeInv, AwaitIntakeInv, StopPublisherInv, AwaitPublisherInv, DrainInv,
      ResourcesInv, ReleaseInv DEF Process!Stop
<1>3. CASE Process!Await \/ Process!Signal \/ Process!HttpDeadline \/ Process!CloseDeadline
  BY Zenon, <1>3, AwaitInv, SignalInv, HttpDeadlineInv, CloseDeadlineInv
<1>4. CASE \E s \in Process!Servers : Process!ListenAndServe(s)
  BY Zenon, <1>4, ListenAndServeInv
<1>5. CASE \E u \in Process!Users : Process!Work(u)
  BY Zenon, <1>5, BeginInv, QueryInv, CallInv DEF Process!Work
<1>6. CASE \E w \in Process!Workers : Process!WorkerEnds(w)
  BY <1>6, EndInv
<1>7. CASE UNCHANGED Process!vars
  BY <1>7 DEF Process!vars, MainInv, MainTyped, Closed, Opened, Alive, Ran, Shut, Process!Active,
      Process!CallsOf, Stopped, Asked
<1> QED BY Zenon, <1>1, <1>2, <1>3, <1>4, <1>5, <1>6, <1>7 DEF Process!Next, Process!Main

(* Initially nothing is open.                                              *)
LEMMA MainInitInv == CallsApart /\ Process!Init => MainInv
<1> SUFFICES ASSUME CallsApart, Process!Init PROVE MainInv  BY Zenon
<1> USE DEF Process!Init, Early, Dependencies, Opening, Late, Ready, Releasing, Down, Serving, Before,
    Starting, Steps, Process!ClosingSteps
<1>1. MainTyped  BY DEF MainTyped, States
<1>2. Closed /\ Opened  BY Zenon DEF Closed, Opened
<1>3. Alive  BY Zenon DEF CallsApart, Alive, Ran, Process!Users, Process!ServerOf, Process!Servers, Process!Workers
<1>4. Shut  BY Zenon DEF Shut
<1>5. Stopped /\ Asked  BY DEF Stopped, Asked
<1> QED BY Zenon, <1>1, <1>2, <1>3, <1>4, <1>5 DEF MainInv

(* The invariant holds throughout.                                         *)
LEMMA MainHolds ==
    ASSUME CallsApart
    PROVE  Process!Spec => []MainInv
BY MainInitInv, MainStepInv, PTL DEF Process!Spec

(* Whatever start-up step fails and whatever deadline passes: when main    *)
(* returns, all it opened is closed and every worker it started was told   *)
(* to stop.                                                                *)
THEOREM NothingStaysOpen ==
    ASSUME CallsApart
    PROVE  Process!Spec => []Process!NothingLeaked
<1>1. MainInv => Process!NothingLeaked
  <2> SUFFICES ASSUME MainInv, pc = "exited" PROVE held = {} /\ hooks \subseteq told  BY Zenon DEF Process!NothingLeaked
  <2>1. held = {}  BY Zenon DEF MainInv, MainTyped, Closed, Ready, Late, Process!ClosingSteps
  <2>2. hooks \subseteq told  BY Zenon DEF MainInv, MainTyped, Stopped, Process!Workers, Down
  <2> QED BY Zenon, <2>1, <2>2
<1> QED BY <1>1, MainHolds, PTL

(* A call or a worker finds open what it uses, unless the deadline it was  *)
(* given has passed.                                                       *)
THEOREM NothingIsUsedClosed ==
    ASSUME CallsApart
    PROVE  Process!Spec => []Process!OpenWhileUsed
<1>1. MainInv => Process!OpenWhileUsed
  <2> SUFFICES ASSUME MainInv, pc # "exited", NEW u \in Process!Users
               PROVE Process!NeedsOf(u) \subseteq held \/ (u \in cut) \/ (u \in Process!Workers /\ closeExpired)
    BY Zenon DEF Process!OpenWhileUsed
  <2>1. user[u] # "off" => "postgres" \in held /\ pc \in Late \cup Down
    BY Zenon DEF MainInv, Alive, Ran, Process!Users, Process!ServerOf, Process!Servers, Process!Workers
  <2>2. CASE user[u] \in {"first", "second"}
    BY Zenon, <2>1, <2>2 DEF Process!NeedsOf
  <2>3. CASE user[u] = "call" /\ u \in Process!Workers
    <3>1. Process!NeedsOf(u) \subseteq {"protector", "nats"}
      BY Zenon, <2>3 DEF MainInv, CallsApart, Process!NeedsOf, Process!Workers
    <3>2. CASE pc \in Late \cup Process!ClosingSteps
      BY Zenon, <3>1, <3>2 DEF MainInv, Opened, Ready
    <3>3. CASE pc \in Releasing
      <4>1. u \in hooks  BY Zenon, <2>3 DEF MainInv, Alive
      <4>2. closeExpired  BY Zenon, <2>3, <3>3, <4>1 DEF MainInv, Stopped, Process!Workers, Releasing, Down
      <4> QED BY Zenon, <2>3, <4>2
    <3> QED BY Zenon, <2>1, <2>3, <3>2, <3>3 DEF Down
  <2>4. CASE user[u] = "call" /\ u \in Requests
    <3>1. Process!NeedsOf(u) \subseteq {"redis", "signer", "protector"}
      BY Zenon, <2>4 DEF MainInv, CallsApart, Process!NeedsOf, Process!Workers
    <3>2. CASE pc \in Late
      BY Zenon, <3>1, <3>2 DEF MainInv, Opened, Ready
    <3>3. CASE pc \in Down
      BY Zenon, <2>4, <3>3 DEF MainInv, Shut, Process!Active, Process!CallsOf
    <3> QED BY Zenon, <2>1, <2>4, <3>2, <3>3
  <2>5. CASE ~(user[u] \in {"first", "second"}) /\ ~(user[u] = "call" /\ u \in Process!Workers \cup Requests)
    <3>1. Process!NeedsOf(u) = {}
      BY <2>5, Zenon DEF Process!NeedsOf, Process!Workers
    <3> QED BY Zenon, <3>1
  <2> QED BY Zenon, <2>2, <2>3, <2>4, <2>5
<1> QED BY <1>1, MainHolds, PTL

(* A closing without an error has waited for both workers, and the error   *)
(* of the intake is the one that is kept.                                  *)
THEOREM CleanClosesAreComplete ==
    ASSUME CallsApart
    PROVE  Process!Spec => []Process!CleanCloseIsComplete
<1>1. MainInv => Process!CleanCloseIsComplete
  BY Zenon DEF MainInv, Stopped, Process!CleanCloseIsComplete, Process!Workers, Down, Releasing, Process!ClosingSteps
<1> QED BY <1>1, MainHolds, PTL

(* main returns without an error only after a signal and with no call cut  *)
(* off.                                                                    *)
THEOREM SuccessIsAsked ==
    ASSUME CallsApart
    PROVE  Process!Spec => []Process!SuccessMeansAsked
<1>1. MainInv => Process!SuccessMeansAsked
  BY Zenon DEF MainInv, Asked, Process!SuccessMeansAsked, Down
<1> QED BY <1>1, MainHolds, PTL
=============================================================================
