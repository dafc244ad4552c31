--------------------------- MODULE AuthorityClaim ---------------------------
(***************************************************************************)
(* The version 7 authority fence of one operation: the repository calls    *)
(* that move its row (RecordPendingClaimV1, ClaimAbort, BindEffect,        *)
(* ActivateCommitted, RecordAborted), the proof owner row that a domain    *)
(* keeps beside it, the database triggers that hold the two together, the  *)
(* readers Lock and GetStoredFence, and the source seal.                   *)
(*                                                                         *)
(* Every call and every owner write takes the fence row FOR UPDATE, so at  *)
(* most one transaction works on the operation at a time; tx is that       *)
(* transaction with its uncommitted rows.  A failed statement aborts the   *)
(* transaction.  A digest stands for the body it was computed from, and a  *)
(* binding for an effect digest with its database point.                   *)
(***************************************************************************)
EXTENDS Naturals, FiniteSets

CONSTANTS
    Kinds,         \* effect kinds the operation may have
    Reservations,  \* provider reservations named by callers
    Activations,   \* protocol activations named by callers
    Released,      \* those with the whole activation, completion, release chain
    Bindings,      \* effect digest and database point
    Reasons,       \* abort reasons
    Times          \* canonical database timestamps

ASSUME ClaimConstants == Released \subseteq Activations /\ Times \subseteq Nat \ {0}

VARIABLES kind, fence, owner, tx, frozen, sealer, sealed, reader

vars == <<kind, fence, owner, tx, frozen, sealer, sealed, reader>>

None == "none"
NoTime == 0

\* The sets of callers' values are not empty, and None is in none of them.
ASSUME ClaimValues ==
    /\ Reservations # {} /\ Bindings # {} /\ Reasons # {} /\ Times # {}
    /\ None \notin Activations \cup Reservations \cup Bindings \cup Reasons

NoFence == [profile |-> None]
NoOwner == [phase |-> None]
NoTx == [open |-> FALSE]
NoRead == [at |-> None]
NoClaim == [reason |-> None, claimedAt |-> NoTime]

ClaimKinds ==
    {"grant_create", "grant_claim", "certificate_activate", "certificate_revoke",
     "identity_epoch_advance", "operator_transition", "security_incident_open",
     "security_incident_resolve", "resource_envelope_activate", "desired_activate",
     "recovery_activate", "root_publish", "metadata_publish"}

\* The proof group (table and column prefix) of each owner, and the kinds it serves.
ExpectedKinds ==
    [grants_create |-> {"grant_create"}, grants_claim |-> {"grant_claim"},
     issuances |-> {"certificate_activate"}, certificates |-> {"certificate_revoke"},
     transitions |-> {"identity_epoch_advance", "operator_transition"},
     incidents_open |-> {"security_incident_open"},
     incidents_resolve |-> {"security_incident_resolve"},
     envelopes |-> {"resource_envelope_activate"},
     signing |-> {"desired_activate", "recovery_activate"},
     publish |-> {"root_publish", "metadata_publish"}]
DomainPreparable == {"issuances", "signing", "publish"}
\* The tables whose rows have a retention_until; the others' rows are kept for good.
Retained ==
    {"grants_create", "grants_claim", "issuances", "certificates", "transitions",
     "incidents_open", "incidents_resolve"}

\* The terminal proof groups: what the evidence of the outcome rests on.
Proofs == {"final_not_applied", "superseded", "rollback_resistant"}

-----------------------------------------------------------------------------
(* Provider receipts (their digest covers every field) and fence rows. *)

Receipt(v, status, b, r) == [reservation |-> v, status |-> status, binding |-> b, reason |-> r]
NoReceipt == Receipt(None, None, None, None)
CommittedReceipts == {Receipt(v, "committed", b, None) : v \in Reservations, b \in Bindings}
AbortedReceipts ==
    {Receipt(v, "aborted", b, r) : v \in Reservations, b \in Bindings \cup {None}, r \in Reasons}

NewRow(profile, act, v, t) ==
    [profile |-> profile, activation |-> act, reservation |-> v, reservedAt |-> t,
     status |-> "reserved", binding |-> None, boundAt |-> NoTime, reason |-> None,
     claimedAt |-> NoTime, receipt |-> NoReceipt, terminalAt |-> NoTime]

Claimed(f) == f.claimedAt # NoTime
BoundRow(f) == f.binding # None
TerminalRow(f) == f.status # "reserved"
Binding(f, b, t) == [f EXCEPT !.binding = b, !.boundAt = t]
Terminating(f, rc, t) ==
    [f EXCEPT !.status = rc.status, !.receipt = rc, !.terminalAt = t,
              !.reason = IF rc.status = "aborted" THEN rc.reason ELSE @]

-----------------------------------------------------------------------------
(* What the database accepts. *)

\* ncv7_fence_claim_ck and the order constraints of version 6.
RowCheck(f) ==
    /\ f.terminalAt # NoTime => f.terminalAt >= f.reservedAt
    /\ BoundRow(f) => f.boundAt >= f.reservedAt
    /\ Claimed(f) = (f.reason # None)
    /\ f.status = "aborted" => Claimed(f)
    /\ Claimed(f) => ~BoundRow(f) /\ f.claimedAt >= f.reservedAt
    /\ Claimed(f) /\ TerminalRow(f) => f.terminalAt >= f.claimedAt

Without(f, fields) == [x \in DOMAIN f \ fields |-> f[x]]
SameBut(old, new, fields) == Without(old, fields) = Without(new, fields)

CommitmentOnly(w, b) == w.phase = "commitment" /\ w.binding = b

\* enforce_authority_fence_update: the legal transitions of a row.
enforce_authority_fence_update(old, new, w) ==
    /\ old.profile = "claim_v1" /\ ~TerminalRow(old) /\ old.activation \in Released
    /\ \/ /\ ~Claimed(old) /\ Claimed(new) /\ w = NoOwner
          /\ new.claimedAt >= new.reservedAt
          /\ SameBut(old, new, {"reason", "claimedAt"})
       \/ /\ ~BoundRow(old) /\ BoundRow(new) /\ ~Claimed(old) /\ ~Claimed(new)
          /\ CommitmentOnly(w, new.binding)
          /\ SameBut(old, new, {"binding", "boundAt"})
       \/ /\ BoundRow(old) /\ new.status = "committed" /\ CommitmentOnly(w, new.binding)
          /\ SameBut(old, new, {"status", "receipt", "terminalAt"})
       \/ /\ Claimed(old) /\ new.status = "aborted" /\ w = NoOwner
          /\ new.terminalAt >= new.claimedAt
          /\ SameBut(old, new, {"status", "receipt", "terminalAt"})

ClosureSkipsCommitted(f, w, k) ==
    f.status = "committed" \/ CommitmentOnly(w, f.binding) \/ w = NoOwner \/ w.phase = "prepared"

\* v7_assert_activation_barrier, deferred to the commit of a fence update.
v7_assert_activation_barrier(f, w, k) ==
    CASE f.status = "committed" -> w.phase = "terminal" /\ w.binding = f.binding
      [] f.status = "aborted" -> w = NoOwner
      [] ~TerminalRow(f) /\ BoundRow(f) -> CommitmentOnly(w, f.binding)
      [] ~TerminalRow(f) /\ Claimed(f) -> w = NoOwner
      [] OTHER -> \/ w = NoOwner
                  \/ w.phase = "prepared" /\ k \in UNION {ExpectedKinds[g] : g \in DomainPreparable}

\* v7_authority_proof_group_valid: which columns a terminal proof group fills.
v7_authority_proof_group_valid(p) ==
    [checkpoint |-> p = "superseded", times |-> p = "rollback_resistant"]

-----------------------------------------------------------------------------
(* Decoding rows. *)

Broken == [ok |-> FALSE]

\* authorityRecordFromRow, with optionalBinding and abortedReceiptFromRow.
authorityRecordFromRow(f) ==
    IF \/ BoundRow(f) /\ f.boundAt < f.reservedAt
       \/ ~TerminalRow(f) /\ (f.reason # None \/ f.terminalAt # NoTime \/ f.receipt # NoReceipt)
       \/ TerminalRow(f) /\ f.terminalAt < f.reservedAt
       \/ f.status = "committed" /\ (~BoundRow(f) \/ f.reason # None)
       \/ f.status = "aborted" /\ f.reason = None
    THEN Broken
    ELSE [ok |-> TRUE, reservation |-> f.reservation, binding |-> f.binding, receipt |-> f.receipt]

\* storedFenceFromV7Row: a claimed reservation is decoded without its reason.
storedFenceFromV7Row(f) ==
    IF \/ f.profile = "legacy_v6" /\ (Claimed(f) \/ f.activation # None)
       \/ f.profile = "claim_v1" /\ \/ f.activation = None
                                    \/ Claimed(f) # (f.reason # None)
                                    \/ Claimed(f) /\ BoundRow(f)
    THEN Broken
    ELSE LET base == IF Claimed(f) /\ ~TerminalRow(f) THEN [f EXCEPT !.reason = None] ELSE f
             rec == authorityRecordFromRow(base)
         IN  IF ~rec.ok THEN Broken
             ELSE [ok |-> TRUE, record |-> rec,
                   claim |-> IF Claimed(f) THEN [reason |-> f.reason, claimedAt |-> f.claimedAt]
                             ELSE NoClaim]

\* The ten outcome queries: the proof group that names the operation, if any.
OwnerIn(g, w) == IF w.phase # None /\ w.group = g THEN w ELSE NoOwner
LockEnrollmentGrantCreateOutcome(w) == OwnerIn("grants_create", w)
LockEnrollmentGrantClaimOutcome(w) == OwnerIn("grants_claim", w)
LockCertificateIssuanceActivationOutcome(w) == OwnerIn("issuances", w)
LockCertificateRevocationOutcome(w) == OwnerIn("certificates", w)
LockStateTransitionOutcome(w) == OwnerIn("transitions", w)
LockSecurityIncidentOpenOutcome(w) == OwnerIn("incidents_open", w)
LockSecurityIncidentResolveOutcome(w) == OwnerIn("incidents_resolve", w)
LockResourceEnvelopeActivationOutcome(w) == OwnerIn("envelopes", w)
LockStateSigningIntentActivationOutcome(w) == OwnerIn("signing", w)
LockRootMetadataPublishIntentActivationOutcome(w) == OwnerIn("publish", w)

NoOutcome == [ok |-> TRUE, proof |-> None]

OutcomeOfPending(receipt, w) ==
    IF w.phase \in {"prepared", "commitment"} THEN IF receipt # NoReceipt THEN Broken ELSE NoOutcome
    ELSE [ok |-> TRUE, proof |-> w.proof, binding |-> w.binding, receipt |-> receipt]

\* persistedOutcomeFromDatabaseRow: a checkpoint and time bounds come together or not at all.
persistedOutcomeFromDatabaseRow(receipt, w) ==
    IF w.phase \in {"prepared", "commitment"} THEN IF receipt # NoReceipt THEN Broken ELSE NoOutcome
    ELSE LET columns == v7_authority_proof_group_valid(w.proof)
         IN  IF receipt = NoReceipt \/ columns.checkpoint # columns.times THEN Broken
             ELSE [ok |-> TRUE, proof |-> w.proof, binding |-> w.binding, receipt |-> receipt]

\* persistedOutcomeForUpdate: the query the effect kind selects.
persistedOutcomeForUpdate(k, receipt, w) ==
    LET row == CASE k = "grant_create" -> LockEnrollmentGrantCreateOutcome(w)
                 [] k = "grant_claim" -> LockEnrollmentGrantClaimOutcome(w)
                 [] k = "certificate_activate" -> LockCertificateIssuanceActivationOutcome(w)
                 [] k = "certificate_revoke" -> LockCertificateRevocationOutcome(w)
                 [] k \in {"identity_epoch_advance", "operator_transition"} -> LockStateTransitionOutcome(w)
                 [] k = "security_incident_open" -> LockSecurityIncidentOpenOutcome(w)
                 [] k = "security_incident_resolve" -> LockSecurityIncidentResolveOutcome(w)
                 [] k = "resource_envelope_activate" -> LockResourceEnvelopeActivationOutcome(w)
                 [] k \in {"desired_activate", "recovery_activate"} -> LockStateSigningIntentActivationOutcome(w)
                 [] k \in {"root_publish", "metadata_publish"} -> LockRootMetadataPublishIntentActivationOutcome(w)
    IN  IF row = NoOwner THEN IF receipt # NoReceipt THEN Broken ELSE NoOutcome
        ELSE persistedOutcomeFromDatabaseRow(receipt, row)

\* Lock: the fence row and the outcome of its owner.
Lock(k, f, w) ==
    LET stored == storedFenceFromV7Row(f)
        outcome == IF f.profile = "claim_v1"
                   THEN persistedOutcomeForUpdate(k, stored.record.receipt, w) ELSE NoOutcome
    IN  IF ~stored.ok THEN Broken
        ELSE IF ~outcome.ok THEN Broken
        ELSE [ok |-> TRUE, stored |-> stored, outcome |-> outcome]

\* pendingFenceFromRow: the columns ListPendingAuthorityFences selects.
pendingFenceFromRow(f) ==
    [reservation |-> f.reservation, binding |-> f.binding, boundAt |-> f.boundAt,
     reservedAt |-> f.reservedAt, claim |-> NoClaim]

-----------------------------------------------------------------------------
(* The repository calls, as functions of the rows they find: the error,    *)
(* whether a writing statement ran, and the row it leaves.  "raise" is a    *)
(* statement the database refused, which aborts the transaction.            *)

Answer(err, f) == [err |-> err, stmt |-> FALSE, row |-> f]
Update(f, new, w) ==
    IF RowCheck(new) /\ enforce_authority_fence_update(f, new, w)
    THEN [err |-> "ok", stmt |-> TRUE, row |-> new]
    ELSE [err |-> "raise", stmt |-> TRUE, row |-> f]

\* RecordPending: version 7 refuses every legacy insert, retries included.
RecordPending(f) == [err |-> "raise", stmt |-> TRUE, row |-> f]

RecordPendingClaimV1(k, f, act, v, t) ==
    IF k \notin ClaimKinds \/ act \notin Released THEN [err |-> "raise", stmt |-> TRUE, row |-> f]
    ELSE IF f = NoFence THEN [err |-> "ok", stmt |-> TRUE, row |-> NewRow("claim_v1", act, v, t)]
    ELSE LET stored == storedFenceFromV7Row(f)
         IN  [err |-> CASE ~stored.ok -> "failure"
                        [] /\ stored.ok
                           /\ stored.claim = NoClaim /\ f.reservedAt = t
                           /\ f.profile = "claim_v1" /\ f.activation = act
                           /\ stored.record.reservation = v -> "ok"
                        [] OTHER -> "conflict",
              stmt |-> TRUE, row |-> f]

ClaimAlwaysConflicts(f, w, r, t) ==
    IF f = NoFence THEN Answer("missing", f)
    ELSE LET stored == storedFenceFromV7Row(f)
         IN  CASE ~stored.ok -> Answer("failure", f)
               [] f.profile # "claim_v1" -> Answer("conflict", f)
               [] stored.record.receipt # NoReceipt \/ stored.record.binding # None -> Answer("terminal", f)
               [] stored.claim # NoClaim -> Answer("conflict", f)
               [] OTHER -> Update(f, [f EXCEPT !.reason = r, !.claimedAt = t], w)

ClaimAbort(f, w, r, t) ==
    IF f = NoFence THEN Answer("missing", f)
    ELSE LET stored == storedFenceFromV7Row(f)
         IN  CASE ~stored.ok -> Answer("failure", f)
               [] stored.ok /\ f.profile # "claim_v1" -> Answer("conflict", f)
               [] /\ stored.ok /\ f.profile = "claim_v1"
                  /\ (stored.record.receipt # NoReceipt \/ stored.record.binding # None) -> Answer("terminal", f)
               [] /\ stored.ok /\ f.profile = "claim_v1"
                  /\ stored.record.receipt = NoReceipt /\ stored.record.binding = None
                  /\ stored.claim # NoClaim ->
                     Answer(IF stored.claim = [reason |-> r, claimedAt |-> t] THEN "ok" ELSE "conflict", f)
               [] OTHER -> Update(f, [f EXCEPT !.reason = r, !.claimedAt = t], w)

BindEffect(f, w, b, t) ==
    IF f = NoFence THEN Answer("missing", f)
    ELSE LET rec == authorityRecordFromRow(f)
         IN  IF f.status = "reserved" /\ f.reason # None THEN Answer("terminal", f)
             ELSE IF ~rec.ok THEN Answer("failure", f)
             ELSE IF rec.receipt.status = "aborted" THEN Answer("terminal", f)
             ELSE IF rec.binding # None
                  THEN Answer(IF rec.binding = b /\ f.boundAt = t THEN "ok" ELSE "conflict", f)
             ELSE IF rec.receipt # NoReceipt \/ TerminalRow(f) THEN Answer("terminal", f)
             ELSE Update(f, Binding(f, b, t), w)

ActivateCommitted(f, w, rc, t) ==
    IF f = NoFence THEN Answer("missing", f)
    ELSE LET rec == authorityRecordFromRow(f)
         IN  IF f.status = "reserved" /\ f.reason # None THEN Answer("terminal", f)
             ELSE IF ~rec.ok THEN Answer("failure", f)
             ELSE IF rec.reservation # rc.reservation THEN Answer("conflict", f)
             ELSE IF rec.receipt.status = "aborted" THEN Answer("terminal", f)
             ELSE IF rec.receipt # NoReceipt
                  THEN Answer(IF rec.receipt = rc /\ f.terminalAt = t THEN "ok" ELSE "conflict", f)
             ELSE IF rec.binding # rc.binding THEN Answer("conflict", f)
             ELSE Update(f, Terminating(f, rc, t), w)

AbortKeepsReason(f, w, rc, t) ==
    IF f = NoFence THEN Answer("missing", f)
    ELSE LET rec == authorityRecordFromRow(f)
         IN  IF ~rec.ok THEN Answer("failure", f)
             ELSE IF rec.reservation # rc.reservation THEN Answer("conflict", f)
             ELSE IF rec.receipt.status = "committed" THEN Answer("terminal", f)
             ELSE IF rec.receipt # NoReceipt
                  THEN Answer(IF rec.receipt = rc /\ f.terminalAt = t THEN "ok" ELSE "conflict", f)
             ELSE Update(f, Terminating(f, rc, t), w)

RecordAborted(f, w, rc, t) ==
    IF f = NoFence THEN Answer("missing", f)
    ELSE LET claimed == f.status = "reserved" /\ f.reason # None
             rec == authorityRecordFromRow(IF claimed THEN [f EXCEPT !.reason = None] ELSE f)
         IN  IF claimed /\ rc.reason # f.reason THEN Answer("conflict", f)
             ELSE IF ~rec.ok THEN Answer("failure", f)
             ELSE IF rec.reservation # rc.reservation THEN Answer("conflict", f)
             ELSE IF rec.receipt.status = "committed" THEN Answer("terminal", f)
             ELSE IF rec.receipt # NoReceipt
                  THEN Answer(IF rec.receipt = rc /\ f.terminalAt = t THEN "ok" ELSE "conflict", f)
             ELSE IF rc.binding # None /\ rec.binding # rc.binding THEN Answer("conflict", f)
             ELSE Update(f, Terminating(f, rc, t), w)

-----------------------------------------------------------------------------
(* Transactions. *)

Draft == IF tx.open THEN tx
         ELSE [open |-> TRUE, fence |-> fence, owner |-> owner, shared |-> FALSE, dirty |-> FALSE]

\* A writing statement takes the source freeze lock shared and fails once the
\* source is frozen; a failed statement ends the transaction.
MayWrite == Draft.shared \/ sealer = "idle"

Call(answer) ==
    /\ answer.stmt => MayWrite
    /\ tx' = IF answer.stmt /\ (frozen \/ answer.err = "raise") THEN NoTx
             ELSE [Draft EXCEPT !.fence = answer.row, !.shared = @ \/ answer.stmt,
                                !.dirty = @ \/ (Draft.fence # NoFence /\ answer.row # Draft.fence)]
    /\ UNCHANGED <<kind, fence, owner, frozen, sealer, sealed, reader>>

CallRecordPending == Call(RecordPending(Draft.fence))
CallRecordPendingClaimV1 ==
    \E act \in Activations, v \in Reservations, t \in Times :
        Call(RecordPendingClaimV1(kind, Draft.fence, act, v, t))
CallClaimAbort ==
    \E r \in Reasons, t \in Times : Call(ClaimAbort(Draft.fence, Draft.owner, r, t))
CallBindEffect ==
    \E b \in Bindings, t \in Times : Call(BindEffect(Draft.fence, Draft.owner, b, t))
CallActivateCommitted ==
    \E rc \in CommittedReceipts, t \in Times :
        Call(ActivateCommitted(Draft.fence, Draft.owner, rc, t))
CallRecordAborted ==
    \E rc \in AbortedReceipts, t \in Times :
        Call(RecordAborted(Draft.fence, Draft.owner, rc, t))

\* A write of a proof owner under v7_guard_authority_proof_transition, which
\* allows four moves: an owner is prepared, committed, ended and deleted.
OwnerWrite(w) ==
    /\ MayWrite /\ ~frozen
    /\ Draft.fence.profile = "claim_v1" /\ Draft.fence.activation \in Released
    /\ tx' = [Draft EXCEPT !.owner = w, !.shared = TRUE]
    /\ UNCHANGED <<kind, fence, owner, frozen, sealer, sealed, reader>>

PrepareOwner(g, b) ==
    /\ Draft.fence # NoFence /\ kind \in ExpectedKinds[g]
    /\ ~TerminalRow(Draft.fence) /\ ~BoundRow(Draft.fence) /\ ~Claimed(Draft.fence)
    /\ Draft.owner = NoOwner
    /\ OwnerWrite([phase |-> IF g \in DomainPreparable THEN "prepared" ELSE "commitment", group |-> g,
                   binding |-> IF g \in DomainPreparable THEN None ELSE b, proof |-> None])

CommitOwner(b) ==
    /\ Draft.fence # NoFence /\ Draft.owner.phase = "prepared"
    /\ ~TerminalRow(Draft.fence) /\ ~BoundRow(Draft.fence) /\ ~Claimed(Draft.fence)
    /\ OwnerWrite([Draft.owner EXCEPT !.phase = "commitment", !.binding = b])

TerminateOwner(p) ==
    /\ Draft.fence # NoFence /\ Draft.owner.phase = "commitment"
    /\ Draft.fence.status = "committed" /\ Draft.fence.binding = Draft.owner.binding
    /\ OwnerWrite([Draft.owner EXCEPT !.phase = "terminal", !.proof = p])

\* The retention of a row is a matter of time: from its end on, or for some
\* tables from its insertion, it may have elapsed.
DeleteOwner ==
    /\ Draft.fence # NoFence /\ Draft.owner.phase = "terminal"
    /\ Draft.fence.status = "committed" /\ Draft.fence.binding = Draft.owner.binding
    /\ Draft.owner.group \in Retained
    /\ OwnerWrite(NoOwner)

Commit ==
    /\ tx.open
    /\ tx.dirty => v7_assert_activation_barrier(tx.fence, tx.owner, kind)
    /\ fence' = tx.fence /\ owner' = tx.owner /\ tx' = NoTx
    /\ UNCHANGED <<kind, frozen, sealer, sealed, reader>>

\* A rollback, a commit the deferred barrier refuses, or a crash.
Rollback ==
    /\ tx.open
    /\ tx' = NoTx
    /\ UNCHANGED <<kind, fence, owner, frozen, sealer, sealed, reader>>

-----------------------------------------------------------------------------
(* AuthorityV7SourceSealer.Run: the freeze lock first, then the scan.       *)

AcquireWithoutWaiting ==
    /\ sealer = "idle" /\ ~frozen
    /\ sealer' = "holding"
    /\ UNCHANGED <<kind, fence, owner, tx, frozen, sealed, reader>>

AcquireFreeze ==
    /\ sealer = "idle" /\ ~frozen
    /\ tx.open => ~tx.shared
    /\ sealer' = "holding"
    /\ UNCHANGED <<kind, fence, owner, tx, frozen, sealed, reader>>

SealWork ==
    /\ sealer = "holding"
    /\ sealer' = "scanned" /\ sealed' = <<fence, owner>>
    /\ UNCHANGED <<kind, fence, owner, tx, frozen, reader>>

SealCommit ==
    /\ sealer = "scanned"
    /\ sealer' = "idle" /\ frozen' = TRUE
    /\ UNCHANGED <<kind, fence, owner, tx, sealed, reader>>

SealFail ==
    /\ sealer # "idle"
    /\ sealer' = "idle" /\ sealed' = <<>>
    /\ UNCHANGED <<kind, fence, owner, tx, frozen, reader>>

-----------------------------------------------------------------------------
(* GetStoredFence: two statements, each with a snapshot of its own.         *)

ReadFence ==
    /\ reader = NoRead /\ fence # NoFence
    /\ storedFenceFromV7Row(fence).ok /\ fence.profile = "claim_v1"
    /\ reader' = [at |-> "outcome", fence |-> fence, owner |-> owner]
    /\ UNCHANGED <<kind, fence, owner, tx, frozen, sealer, sealed>>

ReadOutcome ==
    /\ reader.at = "outcome"
    /\ tx.open => tx.owner = owner
    /\ LET stored == storedFenceFromV7Row(reader.fence)
       IN  reader' = [at |-> "done", fence |-> reader.fence, owner |-> reader.owner, stored |-> stored,
                      outcome |-> persistedOutcomeForUpdate(kind, stored.record.receipt, owner)]
    /\ UNCHANGED <<kind, fence, owner, tx, frozen, sealer, sealed>>

ReadReturn ==
    /\ reader.at = "done"
    /\ reader' = NoRead
    /\ UNCHANGED <<kind, fence, owner, tx, frozen, sealer, sealed>>

-----------------------------------------------------------------------------
\* Version 6 rows the migration found, one of each shape.
LegacyRows ==
    LET v == CHOOSE v \in Reservations : TRUE
        r == CHOOSE r \in Reasons : TRUE
        b == CHOOSE b \in Bindings : TRUE
        t == CHOOSE t \in Times : TRUE
        reserved == NewRow("legacy_v6", None, v, t)
    IN  {reserved, Binding(reserved, b, t),
         Terminating(Binding(reserved, b, t), Receipt(v, "committed", b, None), t),
         Terminating(reserved, Receipt(v, "aborted", None, r), t),
         Terminating(Binding(reserved, b, t), Receipt(v, "aborted", b, r), t)}

Init ==
    /\ kind \in Kinds
    /\ fence \in LegacyRows \cup {NoFence}
    /\ owner = NoOwner /\ tx = NoTx
    /\ frozen = FALSE /\ sealer = "idle" /\ sealed = <<>>
    /\ reader = NoRead

Next ==
    \/ CallRecordPending \/ CallRecordPendingClaimV1 \/ CallClaimAbort
    \/ CallBindEffect \/ CallActivateCommitted \/ CallRecordAborted
    \/ \E g \in DOMAIN ExpectedKinds, b \in Bindings : PrepareOwner(g, b)
    \/ \E b \in Bindings : CommitOwner(b)
    \/ \E p \in Proofs : TerminateOwner(p)
    \/ DeleteOwner
    \/ Commit \/ Rollback
    \/ AcquireFreeze \/ SealWork \/ SealCommit \/ SealFail
    \/ ReadFence \/ ReadOutcome \/ ReadReturn

Spec == Init /\ [][Next]_vars

-----------------------------------------------------------------------------
(* Properties. *)

\* Every committed row has the shape of a fence, decodes, and obeys its checks:
\* storedFenceFromV7Row accepts whatever the repository and the triggers leave.
RowsDecode ==
    fence # NoFence =>
        /\ storedFenceFromV7Row(fence).ok
        /\ fence.profile = "claim_v1" => RowCheck(fence)

\* The fence row and its proof owner agree in every committed state: only a
\* committed fence has a terminal owner, and no other one; a claimed or aborted
\* one has no owner at all, a bound one the commitment of its very binding.
RowsAgree ==
    /\ owner.phase = "terminal" => fence.status = "committed"
    /\ fence.status = "committed" => owner.phase = "terminal" \/ owner = NoOwner
    /\ Claimed(fence) => owner = NoOwner
    /\ BoundRow(fence) => IF owner = NoOwner THEN fence.status = "committed"
                                            ELSE owner.binding = fence.binding

\* A fence becomes committed together with the terminal proof of its very
\* binding; an owner goes only after that, when its fence is committed and its
\* table knows a retention; and nothing else happens to the two rows then: the
\* fence stays, the proof is not rewritten, and no new owner takes its place.
ProofOutlivesDecision ==
    /\ fence' # NoFence /\ fence' # fence =>
           (fence'.status = "committed" => owner'.phase = "terminal" /\ owner'.binding = fence'.binding)
    /\ owner # NoOwner /\ owner' = NoOwner =>
           owner.phase = "terminal" /\ owner.group \in Retained /\ fence.status = "committed"
    /\ fence # NoFence /\ fence.profile = "claim_v1" =>
           (fence.status = "committed" => fence' = fence /\ owner' \in {owner, NoOwner})

\* The fence row and its proof owner agree in every committed state, and every
\* committed fence had its terminal proof from the moment it was committed
\* until the retention of the proof was over.
FenceAndOwnerAgree ==
    /\ [](fence # NoFence /\ fence.profile = "claim_v1" => RowsAgree)
    /\ [][ProofOutlivesDecision]_<<fence, owner>>

\* Repeating a repository call that just succeeded succeeds again and leaves
\* the row alone, whatever happened to the answer of the first one.
RetriesAreIdempotent ==
    LET Settled(first, second) == first.err = "ok" => second.err = "ok" /\ second.row = first.row
    IN  /\ \A act \in Activations, v \in Reservations, t \in Times :
              LET first == RecordPendingClaimV1(kind, fence, act, v, t)
              IN  Settled(first, RecordPendingClaimV1(kind, first.row, act, v, t))
        /\ \A r \in Reasons, t \in Times :
              LET first == ClaimAbort(fence, owner, r, t)
              IN  Settled(first, ClaimAbort(first.row, owner, r, t))
        /\ \A b \in Bindings, t \in Times :
              LET first == BindEffect(fence, owner, b, t)
              IN  Settled(first, BindEffect(first.row, owner, b, t))
        /\ \A rc \in CommittedReceipts, t \in Times :
              LET first == ActivateCommitted(fence, owner, rc, t)
              IN  Settled(first, ActivateCommitted(first.row, owner, rc, t))
        /\ \A rc \in AbortedReceipts, t \in Times :
              LET first == RecordAborted(fence, owner, rc, t)
              IN  Settled(first, RecordAborted(first.row, owner, rc, t))

\* No decision is a dead end: a claimed fence can still record its abort, and
\* a bound one its commit, through the repository's checks, the triggers and
\* the deferred barrier together.
DecisionCanFinish ==
    fence # NoFence /\ fence.profile = "claim_v1" /\ ~TerminalRow(fence) =>
        /\ Claimed(fence) =>
              \E rc \in AbortedReceipts, t \in Times :
                  LET done == RecordAborted(fence, owner, rc, t)
                  IN  /\ done.err = "ok" /\ TerminalRow(done.row)
                      /\ v7_assert_activation_barrier(done.row, owner, kind)
        /\ BoundRow(fence) =>
              \E rc \in CommittedReceipts, t \in Times :
                  LET done == ActivateCommitted(fence, owner, rc, t)
                  IN  /\ done.err = "ok" /\ TerminalRow(done.row)
                      /\ v7_assert_activation_barrier(done.row, [owner EXCEPT !.phase = "terminal"], kind)

\* A seal records the source as it stays: once frozen, the committed rows are
\* the ones the seal's scan saw, transactions that were open before included.
SealCoversSource == frozen => sealed = <<fence, owner>>

\* GetStoredFence reads row and outcome in two snapshots, yet what it returns
\* was true at one instant: the pair Lock would have returned at the first.
StoredFenceIsOneInstant ==
    reader.at = "done" /\ reader.outcome.ok =>
        Lock(kind, reader.fence, reader.owner) = [ok |-> TRUE, stored |-> reader.stored, outcome |-> reader.outcome]

\* The outcome of an operation that was finally not applied is found by the
\* query its kind selects and comes back as it was written.
FinalOutcomeReadable ==
    owner.phase = "terminal" =>
        (owner.proof = "final_not_applied" =>
            LET locked == Lock(kind, fence, owner)
            IN  /\ locked.ok
                /\ locked.outcome.proof = owner.proof /\ locked.outcome.receipt = fence.receipt)

\* Whatever the repository and the triggers commit, the next step of the
\* operation can start from: the row decodes, its decision can be finished, and
\* a final outcome can be read.
RowsLeadOn == RowsDecode /\ DecisionCanFinish /\ FinalOutcomeReadable

\* The documented reading of Lock: the outcome of every atomically terminal
\* proof group is returned complete.
TerminalOutcomeReadable == owner.phase = "terminal" => Lock(kind, fence, owner).ok

\* The documented reading of Lock: where no terminal proof group exists, as
\* for an aborted operation, the fence is returned with a nil outcome.
AbortedFenceReadable ==
    fence # NoFence => (fence.profile = "claim_v1" /\ fence.status = "aborted" => Lock(kind, fence, owner).ok)

\* The integration test's reading of ListPending: a pending fence comes with
\* its abort claim.
PendingShowsClaim ==
    fence # NoFence => (Claimed(fence) /\ ~TerminalRow(fence) => pendingFenceFromRow(fence).claim # NoClaim)

\* The integration test's reading of ClaimAbort: a claim dated before the
\* reservation is refused with one of the repository's finite errors.
EarlyClaimRefusedFinitely ==
    fence # NoFence =>
        \A r \in Reasons, t \in Times :
            t < fence.reservedAt => ClaimAbort(fence, owner, r, t).err \in {"invalid", "conflict", "terminal"}

=============================================================================
