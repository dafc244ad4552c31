------------------------- MODULE ActivationDecision -------------------------
(***************************************************************************)
(* How the effect of one committed operation is decided: a worker begins a *)
(* capture, asks the domain for its decision material, reads the           *)
(* provider's head and a checkpoint, completes the evidence, and in the    *)
(* activation transaction hands it to the dispatcher, consumes the         *)
(* admission and commits. Other operations commit meanwhile, time passes,  *)
(* proofs are copied between workers, transactions roll back and the       *)
(* process crashes. What was persisted is read back by recovery.           *)
(*                                                                         *)
(* The activation transaction is the domain's: it holds the fence row, and *)
(* consumes the admission after its writes, right before it commits.       *)
(***************************************************************************)
EXTENDS Naturals, Sequences, FiniteSets

(***************************************************************************)
(* The values an authority decision is made of, with the constructors and  *)
(* parsers that guard them: effect commitments, provider head snapshots,   *)
(* checkpoint anchors, activation evidence and effect resolutions. Each    *)
(* has a value, built from an input by New..., and a canonical body, read  *)
(* back by Parse...; its digest is the tagged body.                        *)
(***************************************************************************)

CONSTANTS
    MaxCoordinate,   \* stands for the largest epoch, sequence or policy version
    EvidenceBudget   \* the longest validity of time evidence (5 s)

None == "none"
Zero == "zero"            \* the all-zero digest
NoTime == 0               \* the zero time
NoPolicy == 0             \* the wire text "none" of a policy version
Invalid == [ok |-> FALSE]
Digest(tag, body) == <<tag, body>>
NoDigest == Digest(None, None)

GlobalKinds == {"root_publish", "metadata_publish"}
NodeKinds == {"grant_create", "grant_claim", "certificate_activate", "certificate_revoke",
              "identity_epoch_advance", "security_incident_open", "security_incident_resolve",
              "resource_envelope_activate", "desired_activate", "recovery_activate",
              "operator_transition"}
ReservedKinds == {"trust_bundle_publish", "operator_authorizer_change"}
EffectKinds == GlobalKinds \cup NodeKinds \cup ReservedKinds
ScopeKinds == {"node", "global_node_trust", "global_operator_trust"}
FinalReasons == {"failed", "superseded", "activation_deadline_expired", "validation_rejected"}
EffectReasons == FinalReasons \cup {None}

validPositiveCoordinate(n) == n \in 1..MaxCoordinate

validEffectScope(kind, scope) ==
    \/ kind \in NodeKinds /\ scope = "node"
    \/ kind \in GlobalKinds /\ scope = "global_node_trust"
    \/ kind = "trust_bundle_publish" /\ scope # "node"
    \/ kind = "operator_authorizer_change" /\ scope = "global_operator_trust"

\* The two global scopes have one digest each; a node's digest is neither, nor zero.
validScopeDigest(scope, digest) ==
    CASE scope = "node" -> digest \notin {Zero, "global_node_trust", "global_operator_trust"}
      [] scope # "node" -> digest = scope

ValidReservation(v) ==
    /\ v.op # None /\ v.kind \in EffectKinds /\ v.scopeKind \in ScopeKinds
    /\ validEffectScope(v.kind, v.scopeKind) /\ validScopeDigest(v.scopeKind, v.scope)
    /\ validPositiveCoordinate(v.epoch) /\ validPositiveCoordinate(v.sequence)

\* A digest and its database point come together; a commit needs them, an abort a reason.
ValidReceipt(r) ==
    /\ ValidReservation(r.reservation)
    /\ r.effect # Digest(Zero, Zero)
    /\ (r.effect = NoDigest) = (r.point = None)
    /\ CASE r.status = "committed" -> r.effect # NoDigest /\ r.reason = None
         [] r.status = "aborted" -> r.reason # None
         [] OTHER -> FALSE

-----------------------------------------------------------------------------
(* Effect commitments. *)

NewAuthorityEffectCommitment(in) ==
    LET conditional == /\ in.mode = "conditional_apply" /\ in.reason = None
                       /\ validPositiveCoordinate(in.policy) /\ in.inputs \notin {Zero, "empty"}
        final == /\ in.mode = "final_not_applied" /\ in.reason \in FinalReasons
                 /\ in.policy = NoPolicy /\ in.inputs = Zero
    IN  IF /\ ValidReservation(in) /\ in.kind \notin ReservedKinds
           /\ in.base # Zero /\ (conditional \/ final)
        THEN [ok |-> TRUE, facts |-> [in EXCEPT !.inputs = IF final THEN "empty" ELSE @]]
        ELSE Invalid

\* The body holds the facts; the frozen digest of a final commitment's inputs
\* is read back as no inputs.
ParseAuthorityEffectCommitment(body) ==
    IF body.mode = "final_not_applied" /\ (body.policy # NoPolicy \/ body.inputs # "empty") THEN Invalid
    ELSE IF body.mode = "conditional_apply" /\ body.policy = NoPolicy THEN Invalid
    ELSE IF Zero \in {body.base, body.inputs, body.scope} THEN Invalid
    ELSE LET value == NewAuthorityEffectCommitment(
                          [body EXCEPT !.inputs = IF body.mode = "final_not_applied" THEN Zero ELSE @])
         IN  IF value.ok /\ value.facts = body THEN value ELSE Invalid

\* validAuthorityEffectCommitment: a value is what its facts build.
validAuthorityEffectCommitment(facts) ==
    LET rebuilt == NewAuthorityEffectCommitment(
                       [facts EXCEPT !.inputs = IF facts.mode = "final_not_applied" THEN Zero ELSE @])
    IN  rebuilt.ok /\ rebuilt.facts = facts

CommitmentDigest(facts) == Digest("commitment", facts)

-----------------------------------------------------------------------------
(* Provider heads and checkpoint anchors. *)

ValidHead(h) ==
    /\ validPositiveCoordinate(h.epoch)
    /\ h.reserved \in 0..MaxCoordinate /\ h.committed \in 0..h.reserved
    /\ (h.committed = 0) = (h.op = None)
    /\ (h.committed = 0) = (h.receipt = NoDigest)
    /\ (h.committed = 0) = (h.point = None)

NewAuthorityProviderHeadSnapshot(h) ==
    IF ValidHead(h) /\ h.reserved # 0 /\ h.committed # 0 THEN [ok |-> TRUE, facts |-> h] ELSE Invalid

\* Every decimal of the body is positive.
ParseAuthorityProviderHeadSnapshot(body) ==
    IF 0 \in {body.epoch, body.reserved, body.committed} \/ body.op = None \/ body.receipt = NoDigest THEN Invalid
    ELSE NewAuthorityProviderHeadSnapshot(body)

HeadDigest(facts) == Digest("head", facts)

NoAnchor == [ok |-> FALSE, facts |-> None]

NewAuthorityCheckpointAnchor(kind, scope, epoch, sequence, receipt) ==
    IF /\ validPositiveCoordinate(epoch) /\ validPositiveCoordinate(sequence) /\ receipt # NoDigest
       /\ \/ kind = "node" /\ validScopeDigest("node", scope)
          \/ kind = "global" /\ scope \in {"global_node_trust", "global_operator_trust"}
    THEN [ok |-> TRUE, facts |-> [kind |-> kind, scope |-> scope, epoch |-> epoch,
                                  sequence |-> sequence, receipt |-> receipt]]
    ELSE NoAnchor

ParseAuthorityCheckpointAnchor(body) ==
    IF body.scope = Zero \/ body.receipt = NoDigest THEN NoAnchor
    ELSE NewAuthorityCheckpointAnchor(body.kind, body.scope, body.epoch, body.sequence, body.receipt)

AnchorDigest(facts) == Digest("checkpoint", facts)

-----------------------------------------------------------------------------
(* Activation evidence: what a decision knows of the provider's head, of a   *)
(* higher checkpoint and of trusted time.                                    *)

earlierInstant(a, b) == IF a < b THEN a ELSE b

NoTimes(m) ==
    /\ {m.trusted, m.validUntil, m.attestationExpires, m.deadline} = {NoTime}
    /\ {m.identity, m.expectedIdentity, m.floor} = {Zero}

\* The rollback-resistant branch: evidence outlives neither its attestation,
\* nor its budget, nor (unless the deadline is what it shows) the deadline.
RollbackResistant(m) ==
    /\ NoTime \notin {m.trusted, m.validUntil, m.attestationExpires, m.deadline}
    /\ m.identity # Zero /\ m.identity = m.expectedIdentity /\ m.floor # Zero
    /\ m.trusted < m.validUntil /\ m.trusted < m.attestationExpires
    /\ IF m.reason # "activation_deadline_expired" THEN m.trusted < m.deadline ELSE m.trusted >= m.deadline
    /\ m.validUntil <= earlierInstant(m.attestationExpires, m.trusted + EvidenceBudget)
    /\ m.reason # "activation_deadline_expired" => m.validUntil <= m.deadline

validateEvidenceTimeAndMatrix(m, c) ==
    /\ \/ m.timeKind = None /\ NoTimes(m) /\ m.capability = "not_applied_only"
       \/ m.timeKind = "rollback_resistant" /\ RollbackResistant(m)
    /\ \/ /\ c.mode = "final_not_applied" /\ m.reason = c.reason
          /\ m.checkpointKind = None /\ m.timeKind = None
       \/ /\ c.mode = "conditional_apply" /\ m.reason = None
          /\ m.checkpointKind = None /\ m.timeKind = "rollback_resistant" /\ m.capability = "may_apply"
       \/ /\ c.mode = "conditional_apply"
          /\ m.reason \in {"failed", "validation_rejected", "activation_deadline_expired"}
          /\ m.checkpointKind = None /\ m.timeKind = "rollback_resistant"
          /\ m.capability = "not_applied_only"
       \/ /\ c.mode = "conditional_apply" /\ m.reason = "superseded"
          /\ m.checkpointKind \in {"node", "global"} /\ m.timeKind = None
          /\ m.capability = "not_applied_only"

ScopeOfCheckpoint(kind, c) ==
    IF kind = "node" THEN c.scopeKind = "node" ELSE c.scopeKind # "node"

\* The checkpoint is of the commitment's own scope, above it, and at or below the head.
validateEvidenceCheckpoint(m, c, head, anchor) ==
    IF m.checkpointKind = None THEN m.checkpointScope = Zero /\ anchor = NoAnchor
    ELSE /\ anchor.ok
         /\ anchor.facts.kind = m.checkpointKind /\ anchor.facts.scope = m.checkpointScope
         /\ anchor.facts.epoch = c.epoch /\ anchor.facts.sequence > c.sequence
         /\ head.committed >= anchor.facts.sequence
         /\ head.committed = anchor.facts.sequence => head.receipt = anchor.facts.receipt
         /\ ScopeOfCheckpoint(anchor.facts.kind, c) /\ anchor.facts.scope = c.scope

materialCommitmentMatchesReceipt(m, r) ==
    /\ r.effect = CommitmentDigest(m.commitment)
    /\ \A f \in DOMAIN r.reservation : m.commitment[f] = r.reservation[f]

\* buildActivationDecisionEvidence: the facts that are persisted.  The reason,
\* the attestation's expiry and the deadline are checked and not recorded.
buildActivationDecisionEvidence(in) ==
    LET m == in.material
        c == m.commitment
        head == in.head.facts
    IN  IF /\ m.reason \in EffectReasons /\ ValidReceipt(in.receipt) /\ in.receipt.status = "committed"
           /\ in.head.ok /\ materialCommitmentMatchesReceipt(m, in.receipt)
           /\ head.epoch = in.receipt.reservation.epoch
           /\ head.committed >= in.receipt.reservation.sequence
           /\ head.committed = in.receipt.reservation.sequence =>
                 head.op = in.receipt.reservation.op /\ head.point = in.receipt.point
           /\ validateEvidenceCheckpoint(m, c, head, in.checkpoint)
           /\ validateEvidenceTimeAndMatrix(m, c)
        THEN [ok |-> TRUE,
              facts |-> [op |-> c.op, commitment |-> CommitmentDigest(c), head |-> HeadDigest(head),
                         checkpointKind |-> m.checkpointKind, checkpointScope |-> m.checkpointScope,
                         checkpoint |-> IF in.checkpoint.ok THEN AnchorDigest(in.checkpoint.facts) ELSE NoDigest,
                         timeKind |-> m.timeKind, trusted |-> m.trusted, validUntil |-> m.validUntil,
                         identity |-> m.identity, floor |-> m.floor, capability |-> m.capability]]
        ELSE Invalid

\* ParseActivationDecisionEvidence: the checks a body allows by itself.
ParseActivationDecisionEvidence(body) ==
    IF /\ \/ /\ body.checkpointKind = None
             /\ body.checkpointScope = Zero /\ body.checkpoint = NoDigest
          \/ /\ body.checkpointKind = "node" /\ body.checkpoint # NoDigest
             /\ validScopeDigest("node", body.checkpointScope)
          \/ /\ body.checkpointKind = "global" /\ body.checkpoint # NoDigest
             /\ body.checkpointScope \in {"global_node_trust", "global_operator_trust"}
       /\ \/ /\ body.timeKind = None /\ body.trusted = NoTime /\ body.validUntil = NoTime
             /\ body.identity = Zero /\ body.floor = Zero /\ body.capability = "not_applied_only"
          \/ /\ body.timeKind = "rollback_resistant" /\ NoTime \notin {body.trusted, body.validUntil}
             /\ body.checkpointKind = None /\ body.trusted < body.validUntil
             /\ body.identity # Zero /\ body.floor # Zero
             /\ body.validUntil <= body.trusted + EvidenceBudget
    THEN [ok |-> TRUE, facts |-> body]
    ELSE Invalid

EvidenceDigest(facts) == Digest("evidence", facts)

-----------------------------------------------------------------------------
(* Effect resolutions: the decision itself, tied to what it rests on. *)

AnchorKinds == {"final_commitment", "exact_capture", "higher_authority", "trusted_time"}

Resolution(disposition, reason, anchorKind, anchor, commitment) ==
    [commitment |-> commitment, disposition |-> disposition, reason |-> reason,
     anchorKind |-> anchorKind, anchor |-> anchor]

\* validateResolutionMatrix, without the admission's state.
validateResolutionMatrix(r, c, in, facts) ==
    LET resistant == facts.timeKind = "rollback_resistant"
        refusing == r.disposition = "not_applied" /\ facts.capability = "not_applied_only"
        plain == facts.checkpointKind = None
    IN  /\ facts.commitment = CommitmentDigest(c) /\ in.material.commitment = c
        /\ \/ /\ c.mode = "final_not_applied" /\ refusing /\ plain /\ ~resistant
              /\ r.reason = c.reason /\ r.anchorKind = "final_commitment" /\ r.anchor = CommitmentDigest(c)
           \/ /\ c.mode = "conditional_apply" /\ r.disposition = "applied" /\ plain /\ resistant
              /\ r.reason = None /\ in.material.reason = None /\ facts.capability = "may_apply"
              /\ r.anchorKind = "trusted_time" /\ r.anchor = EvidenceDigest(facts)
           \/ /\ c.mode = "conditional_apply" /\ refusing /\ plain /\ resistant
              /\ r.reason \in {"failed", "validation_rejected"} /\ in.material.reason = r.reason
              /\ r.anchorKind = "exact_capture" /\ r.anchor = Digest("inputs", c.inputs)
           \/ /\ c.mode = "conditional_apply" /\ refusing /\ ~plain /\ ~resistant
              /\ r.reason = "superseded" /\ in.material.reason = r.reason
              /\ in.checkpoint.ok /\ r.anchorKind = "higher_authority"
              /\ r.anchor = AnchorDigest(in.checkpoint.facts)
           \/ /\ c.mode = "conditional_apply" /\ refusing /\ plain /\ resistant
              /\ r.reason = "activation_deadline_expired" /\ in.material.reason = r.reason
              /\ r.anchorKind = "trusted_time" /\ r.anchor = EvidenceDigest(facts)

\* resolutionSelfContainedPairValid: what a body must satisfy by itself.
resolutionSelfContainedPairValid(r) ==
    \/ r.disposition = "applied" /\ r.reason = None /\ r.anchorKind = "trusted_time"
    \/ /\ r.disposition = "not_applied" /\ r.reason \in FinalReasons
       /\ \/ r.anchorKind = "final_commitment"
          \/ r.anchorKind = "exact_capture" /\ r.reason \in {"failed", "validation_rejected"}
          \/ r.anchorKind = "higher_authority" /\ r.reason = "superseded"
          \/ r.anchorKind = "trusted_time" /\ r.reason = "activation_deadline_expired"

ParseAuthorityEffectResolution(body) ==
    IF body.reason \in EffectReasons /\ body.anchorKind \in AnchorKinds
       /\ body.anchor # NoDigest /\ resolutionSelfContainedPairValid(body)
    THEN [ok |-> TRUE, facts |-> body] ELSE Invalid

\* Every resolution a caller might propose for a decision.
Candidates(c, in, facts) ==
    {Resolution(d, r, k, a, CommitmentDigest(c)) :
        d \in {"applied", "not_applied"}, r \in EffectReasons, k \in AnchorKinds,
        a \in {CommitmentDigest(c), Digest("inputs", c.inputs), EvidenceDigest(facts)}
              \cup IF in.checkpoint.ok THEN {AnchorDigest(in.checkpoint.facts)} ELSE {}}

(***************************************************************************)
(* What is built, is written and is read back: the commitment, head and    *)
(* checkpoint artifacts of a decision, over every combination of valid,    *)
(* boundary and invalid inputs.                                            *)
(***************************************************************************)

CommitmentInputs ==
    [op : {"op"}, kind : {"grant_claim", "root_publish", "trust_bundle_publish"}, scopeKind : ScopeKinds,
     scope : {Zero, "n1", "global_node_trust"}, epoch : 0..(MaxCoordinate + 1), sequence : {0, 1},
     base : {Zero, "base"}, mode : {"conditional_apply", "final_not_applied"},
     reason : {None, "failed"}, policy : 0..(MaxCoordinate + 1), inputs : {Zero, "empty", "captured"}]
HeadInputs ==
    [epoch : 0..1, reserved : 0..(MaxCoordinate + 1), committed : 0..MaxCoordinate, op : {None, "op"},
     receipt : {NoDigest, Digest("receipt", 1)}, point : {None, "point"}]
AnchorInputs ==
    [kind : {None, "node", "global"}, scope : {Zero, "n1", "global_node_trust"}, epoch : 0..1,
     sequence : 0..(MaxCoordinate + 1), receipt : {NoDigest, Digest("receipt", 1)}]

Items ==
    {[type |-> "commitment", in |-> in] : in \in CommitmentInputs}
    \cup {[type |-> "head", in |-> in] : in \in HeadInputs}
    \cup {[type |-> "checkpoint", in |-> in] : in \in AnchorInputs}

NewOf(i) ==
    CASE i.type = "commitment" -> NewAuthorityEffectCommitment(i.in)
      [] i.type = "head" -> NewAuthorityProviderHeadSnapshot(i.in)
      [] i.type = "checkpoint" ->
            NewAuthorityCheckpointAnchor(i.in.kind, i.in.scope, i.in.epoch, i.in.sequence, i.in.receipt)

ParseOf(type, body) ==
    CASE type = "commitment" -> ParseAuthorityEffectCommitment(body)
      [] type = "head" -> ParseAuthorityProviderHeadSnapshot(body)
      [] type = "checkpoint" -> ParseAuthorityCheckpointAnchor(body)

\* Every artifact a constructor accepts is read back as it was built, so that
\* recovery works on the very commitment, head and checkpoint that were stored.
ParseInvertsNew(i) == NewOf(i).ok => ParseOf(i.type, NewOf(i).facts) = NewOf(i)

\* A constructed commitment passes the check every later step makes of it, and
\* its coordinates fit the database's signed 64-bit columns.
CommitmentsStayValid(i) ==
    i.type = "commitment" /\ NewOf(i).ok =>
        /\ validAuthorityEffectCommitment(NewOf(i).facts)
        /\ NewOf(i).facts.epoch <= MaxCoordinate /\ NewOf(i).facts.policy <= MaxCoordinate

(***************************************************************************)
(* The decision.                                                           *)
(***************************************************************************)

CONSTANTS
    Workers,      \* goroutines that may decide
    Inputs,       \* commitment inputs: one is the operation's
    Reasons,      \* reasons the domain may give for its decision
    Scopes,       \* scope digests of the operations that commit later
    Deadline,     \* the activation deadline the commitment's inputs fix
    MaxTime       \* bound on the clock

VARIABLES now, commitment, log, worker, admission, holder, outcome, consumed

vars == <<now, commitment, log, worker, admission, holder, outcome, consumed>>

Idle == [at |-> "idle"]
NoHead == Invalid
NoOutcome == [ok |-> FALSE]
NoAdmission == [state |-> None, deadline |-> NoTime]

\* The log of commits: the operation's own first.
receipt ==
    LET c == commitment
    IN  [reservation |-> [op |-> c.op, kind |-> c.kind, scopeKind |-> c.scopeKind, scope |-> c.scope,
                          epoch |-> c.epoch, sequence |-> c.sequence],
         effect |-> CommitmentDigest(c), point |-> "point", status |-> "committed", reason |-> None]

ProviderHead == [epoch |-> 1, reserved |-> Len(log), committed |-> Len(log),
         op |-> IF Len(log) = 1 THEN commitment.op ELSE "other",
         receipt |-> Digest("receipt", Len(log)), point |-> "point"]

Latest(scope) == CHOOSE i \in DOMAIN log : log[i] = scope /\ \A j \in DOMAIN log : log[j] = scope => j <= i

Init ==
    /\ now = 1
    /\ commitment \in {NewAuthorityEffectCommitment(in).facts : in \in Inputs}
    /\ log = <<commitment.scope>>
    /\ worker = [i \in Workers |-> Idle]
    /\ admission = [i \in Workers |-> NoAdmission]
    /\ holder = None /\ outcome = NoOutcome /\ consumed = [i \in Workers |-> 0]

-----------------------------------------------------------------------------
(* Capturing evidence. *)

Begin(i) ==
    /\ worker[i] = Idle
    /\ \A j \in Workers : "admission" \in DOMAIN worker[j] => worker[j].admission # i
    /\ worker' = [worker EXCEPT ![i] = [at |-> "begun", started |-> now]]
    /\ admission' = [admission EXCEPT ![i] = NoAdmission]
    /\ consumed' = [consumed EXCEPT ![i] = 0]
    /\ UNCHANGED <<now, commitment, log, holder, outcome>>

\* What a domain may answer at an instant, right or wrong.
Timeless(m) ==
    [m EXCEPT !.timeKind = None, !.trusted = NoTime, !.validUntil = NoTime, !.attestationExpires = NoTime,
              !.deadline = NoTime, !.identity = Zero, !.expectedIdentity = Zero, !.floor = Zero]
Materials(t) ==
    LET timed == {[commitment |-> commitment, reason |-> reason, checkpointKind |-> kind,
                   checkpointScope |-> IF kind = None THEN Zero ELSE commitment.scope,
                   timeKind |-> "rollback_resistant", trusted |-> t, validUntil |-> until,
                   attestationExpires |-> expires, deadline |-> Deadline, identity |-> "provider",
                   expectedIdentity |-> "provider", floor |-> "floor", capability |-> capability] :
                  reason \in Reasons, kind \in {None, "node", "global"},
                  until \in (t + 1)..(t + EvidenceBudget + 1), expires \in (t + 1)..(t + EvidenceBudget + 1),
                  capability \in {"may_apply", "not_applied_only"}}
    IN  timed \cup {Timeless(m) : m \in timed}

\* validActivationDecisionMaterial: what the dispatcher accepts from the domain.
validActivationDecisionMaterial(m) ==
    /\ validAuthorityEffectCommitment(m.commitment) /\ m.reason \in EffectReasons
    /\ IF m.checkpointKind = None THEN m.checkpointScope = Zero
       ELSE ScopeOfCheckpoint(m.checkpointKind, m.commitment) /\ m.checkpointScope = m.commitment.scope
    /\ validateEvidenceTimeAndMatrix(m, m.commitment)

CaptureActivationDecisionMaterial(i) ==
    /\ worker[i].at = "begun"
    /\ ValidReceipt(receipt)
    /\ \E m \in Materials(now) :
          /\ validActivationDecisionMaterial(m) /\ materialCommitmentMatchesReceipt(m, receipt)
          /\ worker' = [worker EXCEPT ![i] = [at |-> "captured", started |-> worker[i].started,
                                              in |-> [material |-> m, receipt |-> receipt,
                                                      head |-> NoHead, checkpoint |-> NoAnchor]]]
    /\ UNCHANGED <<now, commitment, log, admission, holder, outcome, consumed>>

ReadHead(i) ==
    /\ worker[i].at = "captured" /\ worker[i].in.head = NoHead
    /\ worker' = [worker EXCEPT ![i].in.head = NewAuthorityProviderHeadSnapshot(ProviderHead)]
    /\ UNCHANGED <<now, commitment, log, admission, holder, outcome, consumed>>

\* CommittedNodeCheckpoint of the commitment's scope.
ReadCheckpoint(i) ==
    /\ worker[i].at = "captured" /\ worker[i].in.checkpoint = NoAnchor
    /\ worker[i].in.material.checkpointKind # None
    /\ LET m == worker[i].in.material
           k == Latest(m.checkpointScope)
       IN  worker' = [worker EXCEPT ![i].in.checkpoint =
                         NewAuthorityCheckpointAnchor(m.checkpointKind, m.checkpointScope, 1, k, Digest("receipt", k))]
    /\ UNCHANGED <<now, commitment, log, admission, holder, outcome, consumed>>

Proven(i, evidence, adm) ==
    [at |-> "proven", in |-> worker[i].in, facts |-> evidence.facts, admission |-> adm]

\* NewActivationDecisionEvidence and ValidateActivationDecisionEvidence.
DecideTimeless(i) ==
    /\ worker[i].at = "captured" /\ worker[i].in.head # NoHead
    /\ worker[i].in.material.timeKind = None
    /\ LET evidence == buildActivationDecisionEvidence(worker[i].in)
       IN  worker' = [worker EXCEPT ![i] = IF evidence.ok THEN Proven(i, evidence, None) ELSE Idle]
    /\ UNCHANGED <<now, commitment, log, admission, holder, outcome, consumed>>

CompleteFrom(i, start) ==
    /\ worker[i].at = "captured" /\ worker[i].in.head # NoHead
    /\ worker[i].in.material.timeKind = "rollback_resistant"
    /\ LET m == worker[i].in.material
           evidence == buildActivationDecisionEvidence(worker[i].in)
           budget == earlierInstant(m.validUntil - m.trusted, EvidenceBudget)
       IN  IF evidence.ok /\ now < start + budget
           THEN /\ worker' = [worker EXCEPT ![i] = Proven(i, evidence, i)]
                /\ admission' = [admission EXCEPT ![i] = [state |-> "fresh", deadline |-> start + budget]]
           ELSE worker' = [worker EXCEPT ![i] = Idle] /\ UNCHANGED admission
    /\ UNCHANGED <<now, commitment, log, holder, outcome, consumed>>

CompleteFromNow(i) == CompleteFrom(i, now)

\* ActivationEvidenceCapture.Complete: the budget runs from the capture's start.
Complete(i) == CompleteFrom(i, worker[i].started)

\* A proof is a value: a copy shares the admission.
Copy(i, j) ==
    /\ worker[i].at = "proven" /\ worker[j] = Idle
    /\ worker' = [worker EXCEPT ![j] = worker[i]]
    /\ UNCHANGED <<now, commitment, log, admission, holder, outcome, consumed>>

GiveUp(i) ==
    /\ worker[i].at \in {"begun", "captured", "proven"}
    /\ worker' = [worker EXCEPT ![i] = Idle]
    /\ UNCHANGED <<now, commitment, log, admission, holder, outcome, consumed>>

-----------------------------------------------------------------------------
(* The activation transaction. *)

Unconsumed(i) == worker[i].admission # None => admission[worker[i].admission].state = "fresh"

\* NewAuthorityEffectResolution refuses a proof whose admission is used.
NewAuthorityEffectResolution(i) ==
    {r \in Candidates(commitment, worker[i].in, worker[i].facts) :
        /\ Unconsumed(i)
        /\ validateResolutionMatrix(r, commitment, worker[i].in, worker[i].facts)}

\* effectDispatcher.ActivateAuthorityEffect, and the domain's writes under the fence row.
ActivateAuthorityEffect(i) ==
    /\ worker[i].at = "proven" /\ holder = None /\ ~outcome.ok
    /\ worker[i].in.receipt = receipt
    /\ \E r \in NewAuthorityEffectResolution(i) :
          worker' = [worker EXCEPT ![i] = [at |-> "written", in |-> worker[i].in, facts |-> worker[i].facts,
                                           admission |-> worker[i].admission, resolution |-> r, decided |-> now]]
    /\ holder' = i
    /\ UNCHANGED <<now, commitment, log, admission, outcome, consumed>>

\* consumeActivationAdmission: used up by the first attempt, in time or not.
consumeActivationAdmission(i) ==
    /\ worker[i].at = "written" /\ worker[i].admission # None
    /\ LET a == worker[i].admission
           ok == admission[a].state = "fresh" /\ now < admission[a].deadline
       IN  /\ admission' = [admission EXCEPT ![a].state = "used"]
           /\ worker' = [worker EXCEPT ![i] = IF ok THEN [worker[i] EXCEPT !.at = "admitted", !.decided = now]
                                              ELSE Idle]
           /\ holder' = IF ok THEN holder ELSE None
           /\ consumed' = [consumed EXCEPT ![a] = IF ok THEN @ + 1 ELSE @]
    /\ UNCHANGED <<now, commitment, log, outcome>>

\* The persisted columns: the bodies, and what the evidence does not record.
Commit(i) ==
    /\ worker[i].at = "admitted" \/ (worker[i].at = "written" /\ worker[i].admission = None)
    /\ LET m == worker[i].in.material
       IN  outcome' = [ok |-> TRUE, commitment |-> commitment, head |-> worker[i].in.head.facts,
                       checkpoint |-> worker[i].in.checkpoint, reason |-> m.reason,
                       attestationExpires |-> m.attestationExpires, deadline |-> m.deadline,
                       expectedIdentity |-> m.expectedIdentity, evidence |-> worker[i].facts,
                       resolution |-> worker[i].resolution, decided |-> worker[i].decided]
    /\ worker' = [worker EXCEPT ![i] = Idle] /\ holder' = None
    /\ UNCHANGED <<now, commitment, log, admission, consumed>>

Rollback(i) ==
    /\ holder = i
    /\ worker' = [worker EXCEPT ![i] = Idle] /\ holder' = None
    /\ UNCHANGED <<now, commitment, log, admission, outcome, consumed>>

\* A retry of the transaction with the same proof.
RollbackAndRetry(i) ==
    /\ holder = i
    /\ worker' = [worker EXCEPT ![i] = [at |-> "proven", in |-> worker[i].in, facts |-> worker[i].facts,
                                        admission |-> worker[i].admission]]
    /\ holder' = None
    /\ UNCHANGED <<now, commitment, log, admission, outcome, consumed>>

Crash ==
    /\ worker # [i \in Workers |-> Idle]
    /\ worker' = [i \in Workers |-> Idle] /\ holder' = None
    /\ UNCHANGED <<now, commitment, log, admission, outcome, consumed>>

-----------------------------------------------------------------------------
Tick == now < MaxTime /\ now' = now + 1 /\ UNCHANGED <<commitment, log, worker, admission, holder, outcome, consumed>>

CommitOther ==
    /\ Len(log) < MaxCoordinate
    /\ \E s \in Scopes : log' = Append(log, s)
    /\ UNCHANGED <<now, commitment, worker, admission, holder, outcome, consumed>>

Next ==
    \/ \E i \in Workers :
          \/ Begin(i) \/ CaptureActivationDecisionMaterial(i) \/ ReadHead(i) \/ ReadCheckpoint(i)
          \/ DecideTimeless(i) \/ Complete(i) \/ GiveUp(i)
          \/ ActivateAuthorityEffect(i) \/ consumeActivationAdmission(i)
          \/ Commit(i) \/ Rollback(i) \/ RollbackAndRetry(i)
          \/ \E j \in Workers : Copy(i, j)
    \/ Crash \/ Tick \/ CommitOther

Spec == Init /\ [][Next]_vars

-----------------------------------------------------------------------------
(* Recovery: the evidence input is rebuilt from the persisted columns. *)

RecoveredInput(o) ==
    LET e == o.evidence
    IN  [material |-> [commitment |-> o.commitment, reason |-> o.reason, checkpointKind |-> e.checkpointKind,
                       checkpointScope |-> e.checkpointScope, timeKind |-> e.timeKind, trusted |-> e.trusted,
                       validUntil |-> e.validUntil, attestationExpires |-> o.attestationExpires,
                       deadline |-> o.deadline, identity |-> e.identity,
                       expectedIdentity |-> o.expectedIdentity, floor |-> e.floor, capability |-> e.capability],
         receipt |-> receipt, head |-> ParseAuthorityProviderHeadSnapshot(o.head),
         checkpoint |-> IF o.checkpoint.ok THEN ParseAuthorityCheckpointAnchor(o.checkpoint.facts) ELSE NoAnchor]

\* effectDispatcher.ValidatePersistedAuthorityEffect, from the bodies up.
ValidatePersistedAuthorityEffect(o, r) ==
    LET c == ParseAuthorityEffectCommitment(o.commitment)
        parsed == ParseActivationDecisionEvidence(o.evidence)
        rebuilt == buildActivationDecisionEvidence(RecoveredInput(o))
        resolution == ParseAuthorityEffectResolution(r)
    IN  /\ c.ok /\ parsed.ok /\ rebuilt.ok /\ resolution.ok
        /\ rebuilt.facts = parsed.facts
        /\ resolution.facts.commitment = CommitmentDigest(c.facts)
        /\ validateResolutionMatrix(resolution.facts, c.facts, RecoveredInput(o), parsed.facts)

-----------------------------------------------------------------------------
(* Properties. *)

\* Every variable keeps its shape.
TypeOK ==
    /\ now \in 1..MaxTime /\ Len(log) \in 1..MaxCoordinate
    /\ \A i \in Workers : /\ worker[i].at \in {"idle", "begun", "captured", "proven", "written", "admitted"}
                          /\ admission[i].state \in {None, "fresh", "used"}
    /\ holder \in Workers \cup {None}
    /\ holder # None => worker[holder].at \in {"written", "admitted"}

\* An effect is applied only while its deadline and its attestation stand, in
\* trusted time at the moment its admission is consumed, however long ago the
\* evidence was captured; and it is declared expired only after the deadline.
AppliedInTime ==
    outcome.ok =>
        /\ outcome.resolution.disposition = "applied" =>
              outcome.decided < outcome.deadline /\ outcome.decided < outcome.attestationExpires
        /\ outcome.evidence.timeKind = "rollback_resistant" /\ outcome.reason = "activation_deadline_expired" =>
              outcome.decided >= outcome.deadline

\* One admission lets one transaction through, whatever copies of the proof
\* there are and however often a transaction is rolled back and retried.
AdmissionConsumedOnce == \A i \in Workers : consumed[i] <= 1

\* An operation is superseded only by an operation of its own scope that the
\* provider committed after it.
SupersededByHigher ==
    outcome.ok =>
        (outcome.commitment.mode = "conditional_apply" /\ outcome.reason = "superseded" =>
            \E k \in DOMAIN log : k > commitment.sequence /\ log[k] = commitment.scope)

\* What an activation persisted, recovery accepts: bodies parse, the evidence
\* rebuilt from the columns is the evidence stored, and the resolution stored
\* is the only one that passes.
PersistedOutcomeValidates ==
    outcome.ok =>
        {r \in Candidates(commitment, RecoveredInput(outcome), outcome.evidence) :
            ValidatePersistedAuthorityEffect(outcome, r)} = {outcome.resolution}

\* A proof determines its decision: exactly one resolution passes the matrix.
ResolutionIsDetermined ==
    \A i \in Workers :
        worker[i].at = "proven" /\ Unconsumed(i) => Cardinality(NewAuthorityEffectResolution(i)) = 1

\* At every instant a conditional effect can be decided by time alone, and in
\* one way only: it may be applied before the deadline, and be declared
\* expired from the deadline on.
DeadlineDividesTime ==
    commitment.mode = "conditional_apply" /\ Reasons = EffectReasons =>
        LET Open(reason) == \E m \in Materials(now) : m.reason = reason /\ validActivationDecisionMaterial(m)
        IN  /\ Open(None) <=> now < Deadline
            /\ Open("activation_deadline_expired") <=> now >= Deadline
=============================================================================
