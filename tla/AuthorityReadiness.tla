------------------------- MODULE AuthorityReadiness -------------------------
(***************************************************************************)
(* Coordinator.CheckReady beside the running authority fence, and the loss *)
(* it guards against: the database is restored from an older backup while  *)
(* the provider, which cannot be rolled back, keeps its records.           *)
(*                                                                         *)
(* CheckReady reads the provider head, the database point, the database    *)
(* head and the pending rows one after the other, outside any transaction; *)
(* the writes of AuthorityOutcome, which the coordinator implements, and   *)
(* restores happen in between.  A restore comes with a restart of the      *)
(* processes that use the database: the calls in flight end with it.       *)
(*                                                                         *)
(* A database point packs the timeline and the WAL position into one       *)
(* number (position below Stride); the system identifier and the authority *)
(* epoch are the same throughout.                                          *)
(***************************************************************************)
EXTENDS AuthorityOutcome, FiniteSetsExt, Sequences

CONSTANTS
    Stride,        \* WAL positions per timeline
    CaptureLag,    \* bound on the writes between capturing a point and binding it
    MaxBackups,    \* bound on the backups taken
    MaxRestores    \* bound on the restores

VARIABLES
    backup,   \* the backup a restore starts from
    backups,  \* backups taken so far
    restores, \* restores so far
    chk       \* the CheckReady call: what it has read and its answer

rvars == <<stores, backup, backups, restores, chk>>

Timeline(pt) == pt \div Stride

WALPosition(pt) == pt % Stride

Dispositions == {"ready", "provider_unavailable", "database_unavailable",
    "effect_unavailable", "database_behind_provider", "database_ahead_provider",
    "database_sequence_gap", "reservation_mismatch", "committed_mismatch",
    "database_timeline_behind", "database_wal_behind", "pending_count_mismatch",
    "pending_mismatch", "pending_unresolved"}

Heads == [reserved : Nat, last : Ops \cup {NoOp}, committed : Nat, receipt : Receipts,
          count : Nat, pending : Nat]

NoHead == [reserved |-> 0, last |-> NoOp, committed |-> 0, receipt |-> NoReceipt,
           count |-> 0, pending |-> 0]

NoCheck == [pc |-> "idle", head |-> NoHead, point |-> NoPoint, count |-> 0,
            pending |-> {}, prec |-> NoRecord, inspected |-> TRUE,
            reason |-> "pending_unresolved", whole |-> FALSE, split |-> FALSE]

ReadinessInit ==
    /\ StoresInit
    /\ backup = [db |-> db, effect |-> effect, lsn |-> lsn]
    /\ backups = 0
    /\ restores = 0
    /\ chk = NoCheck

-----------------------------------------------------------------------------
(* Heads of a store that maps operations to records.                       *)

Recorded(store) == {o \in Ops : store[o].seq # 0}

Committed(store) == {o \in Ops : store[o].receipt.status = "committed"}

Pending(store) == {o \in Recorded(store) : ~Terminal(store[o])}

LastBySequence(store, S) == CHOOSE o \in S : \A p \in S : store[p].seq <= store[o].seq

HeadOf(store, reserved) ==
    LET last == {o \in Ops : store[o].seq = reserved /\ reserved # 0}
        top == LastBySequence(store, Committed(store))
    IN [reserved |-> reserved,
        last |-> IF last = {} THEN NoOp ELSE CHOOSE o \in last : TRUE,
        committed |-> IF Committed(store) = {} THEN 0 ELSE store[top].seq,
        receipt |-> IF Committed(store) = {} THEN NoReceipt ELSE store[top].receipt,
        count |-> Cardinality(Recorded(store)),
        pending |-> Cardinality(Pending(store))]

ProviderHead == HeadOf(prov, nextSeq)

DatabaseHead == HeadOf(db, Max({db[o].seq : o \in Ops} \cup {0}))

(* Mutant: rows may be missing below the latest sequence.                  *)
GapsAllowed(h, d, pt) ==
    << <<h.reserved = 0 /\ d.count # 0, "database_ahead_provider">>,
       <<d.reserved < h.reserved, "database_behind_provider">>,
       <<d.reserved > h.reserved, "database_ahead_provider">>,
       <<d.receipt # h.receipt, "committed_mismatch">> >>

(* The comparisons of CheckReady in their order; the first that holds is   *)
(* the answer.                                                             *)
HeadFindings(h, d, pt) ==
    << <<h.reserved = 0 /\ d.count # 0, "database_ahead_provider">>,
       <<h.reserved # 0 /\ d.count = 0, "database_behind_provider">>,
       <<d.count # d.reserved, "database_sequence_gap">>,
       <<d.reserved < h.reserved, "database_behind_provider">>,
       <<d.reserved > h.reserved, "database_ahead_provider">>,
       <<d.last # h.last, "reservation_mismatch">>,
       <<d.committed < h.committed, "database_behind_provider">>,
       <<d.committed > h.committed, "database_ahead_provider">>,
       <<d.receipt # h.receipt, "committed_mismatch">>,
       <<Timeline(pt) < Timeline(h.receipt.point), "database_timeline_behind">>,
       <<WALPosition(pt) < WALPosition(h.receipt.point), "database_wal_behind">> >>

FirstFinding(findings) ==
    LET hits == {i \in DOMAIN findings : findings[i][1]}
    IN IF hits = {} THEN "ready" ELSE findings[Min(hits)][2]

-----------------------------------------------------------------------------
(* CheckReady, one step per read.                                          *)

Answer(reason) ==
    chk' = [NoCheck EXCEPT !.pc = "done", !.reason = reason,
                           !.whole = chk.whole, !.split = chk.split]

ReadProviderHead ==
    /\ chk.pc = "idle"
    /\ chk' = [NoCheck EXCEPT !.pc = "point", !.head = ProviderHead]

ReadDatabasePoint ==
    /\ chk.pc = "point"
    /\ chk' = [chk EXCEPT !.pc = "dbHead", !.point = lsn]

(* Everything the provider has decided up to the head h is in the          *)
(* database, with its effect.                                              *)
Whole(h) ==
    \A o \in Ops : prov[o].seq \in 1 .. h.reserved =>
        /\ Terminal(db[o])
        /\ db[o].receipt = prov[o].receipt
        /\ prov[o].receipt.status = "committed" =>
               /\ effect[o].state \in {"committed", "terminal"}
               /\ effect[o].digest = prov[o].receipt.digest

ReadDatabaseHead ==
    LET verdict == FirstFinding(HeadFindings(chk.head, DatabaseHead, chk.point)) IN
    /\ chk.pc = "dbHead"
    /\ IF verdict = "ready"
       THEN chk' = [NoCheck EXCEPT !.pc = "list", !.count = DatabaseHead.pending,
                                   !.whole = Whole(chk.head)]
       ELSE Answer(verdict)

(* The provider aborted an operation whose effect is there.                *)
Split(o) == prov[o].receipt.status = "aborted" /\ effect[o].state # "absent"

ListPending ==
    /\ chk.pc = "list"
    /\ IF Cardinality(Pending(db)) # chk.count
       THEN Answer("pending_count_mismatch")
       ELSE IF Pending(db) = {}
       THEN Answer("ready")
       ELSE chk' = [chk EXCEPT !.pc = "inspect",
                               !.split = \E o \in Pending(db) : Split(o),
                               !.pending = {[op |-> o, row |-> db[o]] : o \in Pending(db)}]

(* inspectPending: the fence with the lowest sequence that is left.        *)
NextFence == CHOOSE f \in chk.pending : \A g \in chk.pending : f.row.seq <= g.row.seq

Priority(reason) ==
    CASE reason = "provider_unavailable" -> 4
      [] reason = "effect_unavailable" -> 3
      [] reason = "pending_mismatch" -> 2
      [] reason = "pending_unresolved" -> 1

WithPriority(current, candidate) ==
    IF Priority(candidate) > Priority(current) THEN candidate ELSE current

InspectFence(answers) ==
    /\ chk.pc = "inspect"
    /\ chk' = [chk EXCEPT !.pc = "resolve", !.inspected = answers,
                          !.prec = IF answers THEN prov[NextFence.op] ELSE NoRecord,
                          !.reason = IF answers THEN @
                                     ELSE WithPriority(@, "provider_unavailable")]

PendingStateMatches(row, p, e) ==
    /\ p.seq = row.seq
    /\ IF Terminal(p) THEN SameBinding(p, row) ELSE ~Bound(p)
    /\ \/ e.state \in {"absent", "prepared"} /\ ~Bound(row) /\ ~Terminal(p)
       \/ /\ e.state = "committed"
          /\ Bound(row) => row.digest = e.digest
          /\ Terminal(p) => p.receipt.status = "committed" /\ p.receipt.digest = e.digest

ResolveFence(answers) ==
    LET f == NextFence
        rest == chk.pending \ {f}
        found == IF ~answers THEN "effect_unavailable"
                 ELSE IF chk.inspected /\ ~PendingStateMatches(f.row, chk.prec, effect[f.op])
                 THEN "pending_mismatch"
                 ELSE "pending_unresolved"
        reason == WithPriority(chk.reason, found)
    IN
    /\ chk.pc = "resolve"
    /\ IF rest = {}
       THEN Answer(reason)
       ELSE chk' = [chk EXCEPT !.pc = "inspect", !.pending = rest, !.prec = NoRecord,
                               !.inspected = TRUE, !.reason = reason]

(* A read fails: the check answers that the dependency is unavailable, or  *)
(* is cancelled without an answer.                                         *)
CheckFails ==
    \/ chk.pc = "idle" /\ Answer("provider_unavailable")
    \/ chk.pc \in {"point", "dbHead", "list"} /\ Answer("database_unavailable")
    \/ chk.pc # "idle" /\ chk' = NoCheck

CheckReady ==
    \/ ReadProviderHead \/ ReadDatabasePoint \/ ReadDatabaseHead \/ ListPending
    \/ \E answers \in BOOLEAN : InspectFence(answers) \/ ResolveFence(answers)
    \/ CheckFails

-----------------------------------------------------------------------------
Backup ==
    /\ backups < MaxBackups
    /\ backups' = backups + 1
    /\ backup' = [db |-> db, effect |-> effect, lsn |-> lsn]
    /\ UNCHANGED <<stores, restores, chk>>

(* The database goes back to the backup, on the same timeline (a base      *)
(* backup started as it is) or on a new one (recovery with promotion).     *)
Restore ==
    /\ restores < MaxRestores
    /\ restores' = restores + 1
    /\ db' = backup.db
    /\ effect' = backup.effect
    /\ \/ lsn' = backup.lsn
       \/ lsn' = (Timeline(lsn) + 1) * Stride + WALPosition(backup.lsn)
    /\ chk' = NoCheck
    /\ UNCHANGED <<prov, nextSeq, backup, backups>>

(* A write of AuthorityOutcome.  The point an effect is bound to was       *)
(* captured after the latest restore.                                      *)
AuthorityWrite ==
    \E o \in Ops :
        \/ Write(o)
        \/ Decide(o)
        \/ \E pt \in (lsn - CaptureLag) .. lsn :
              pt > NoPoint /\ Timeline(pt) = Timeline(lsn) /\ Bind(o, pt)

ReadinessNext ==
    \/ AuthorityWrite /\ UNCHANGED <<backup, backups, restores, chk>>
    \/ CheckReady /\ UNCHANGED <<stores, backup, backups, restores>>
    \/ Backup
    \/ Restore

ReadinessSpec == ReadinessInit /\ [][ReadinessNext]_rvars

-----------------------------------------------------------------------------
(* Properties.                                                             *)

(* The check's answer is one of the readiness reasons and its heads are    *)
(* well formed; the database keeps its type across restores.               *)
ReadinessTypeOK ==
    /\ prov \in [Ops -> Records] /\ db \in [Ops -> Records]
    /\ effect \in [Ops -> Effects]
    /\ chk.head \in Heads
    /\ chk.prec \in Records
    /\ chk.reason \in Dispositions
    /\ WALPosition(lsn) + 1 < Stride

(* CheckReady answers ready only if, when it read the database head, the   *)
(* database held every decision the provider had taken up to the provider  *)
(* head, each with the provider's receipt, and the effect of every         *)
(* committed operation: no restore that lost one goes unnoticed.           *)
ReadyMeansWhole == chk.pc = "done" /\ chk.reason = "ready" => chk.whole

(* An operation that the provider aborted although its effect was written  *)
(* is never reported as merely unresolved while its row is pending.        *)
SplitIsReported ==
    chk.pc = "done" /\ chk.split => chk.reason \notin {"ready", "pending_unresolved"}
=============================================================================
