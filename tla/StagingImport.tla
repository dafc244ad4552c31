---------------------------- MODULE StagingImport ----------------------------
(***************************************************************************)
(* The import of a topology into a freshly restored database.  A verified  *)
(* admission, an in-memory handle, is viewed to build the projection and   *)
(* then consumed by one call that applies the projection in the database   *)
(* function begin_staging_import, at most once for each capability.        *)
(***************************************************************************)
EXTENDS Integers, FiniteSets, Sequences

CONSTANTS Workers,     \* callers
          Admissions,  \* handles the verifier may produce
          FactsOf,     \* the facts each of them carries
          Candidates,  \* projections callers build
          MaxTime,     \* bound on the clock
          ProofSpan    \* longest life of a database incarnation proof

None == "none"
Zero == "zero"
\* Opaque digests and identifiers are not zero; a computed digest never is.
Present(value, fields) == \A f \in fields : value[f] # Zero
Agree(left, right, fields) == \A f \in fields : left[f] = right[f]
Within(window, t) == window.issuedAt <= t /\ t < window.expiresAt

(***************************************************************************)
(* Objects.  Types are numbered in the order of their names.               *)
(***************************************************************************)
Profile == 1
FailureDomain == 2
Seed == 3
Pop == 4

\* A payload decodes strictly into the import shape, or into the normalized one,
\* which states that the object is new; a profile has one shape.
validateFreshPayload(type, payload, normalized) ==
    /\ payload.wellFormed
    /\ type # Profile => payload.shape = (IF normalized THEN "normalized" ELSE "import")
    /\ normalized /\ type # Profile => payload.fresh
Before(left, right) == left.type < right.type \/ (left.type = right.type /\ left.key < right.key)
StrictlySorted(objects) == \A i \in 1..(Len(objects) - 1) : Before(objects[i], objects[i + 1])

validImportObjectType(type) == type \in Profile..Pop
ManifestObjectValid(o) ==
    validImportObjectType(o.type) /\ validateFreshPayload(o.type, o.payload, FALSE) /\ o.payload.key = o.key
ProjectionObjectValid(o) ==
    validImportObjectType(o.type) /\ validateFreshPayload(o.type, o.payload, TRUE) /\ o.payload.key = o.key

\* Every payload is canonical and has the digest, separated by type, the manifest gives it.
validateFreshRestoreManifestPayloadDigests(manifest) ==
    \A i \in 1..Len(manifest.objects) :
        manifest.objects[i].digest = <<manifest.objects[i].type, manifest.objects[i].payload>>

(***************************************************************************)
(* The facts of an admission.                                              *)
(***************************************************************************)
ManifestValid(m) ==
    /\ Present(m, {"applyId", "digest", "activation", "deployment", "incarnation"}) /\ m.nodeSet # {}
    /\ m.expiresAt > m.issuedAt /\ m.objects # <<>> /\ m.count = Len(m.objects)
    /\ \A i \in 1..Len(m.objects) : ManifestObjectValid(m.objects[i])
    /\ StrictlySorted(m.objects)

CapabilityValid(c) ==
    /\ Present(c, {"digest", "applyId", "manifest", "activation", "identity", "lineage", "incarnation", "rebind", "binding",
                   "exclusion", "preHead", "preProof", "route", "preInventory"})
    /\ c.phase = "staging_closed" /\ c.expiresAt > c.issuedAt

LeaseValid(l) ==
    /\ Present(l, {"digest", "exclusion", "capability", "activation", "identity", "lineage", "preHead", "preProof",
                   "incarnation", "rebind", "binding", "lockedHead", "servingAbsent"})
    /\ l.leaseId = l.exclusion /\ l.state = "held" /\ l.expiresAt > l.issuedAt /\ l.requestedExpiry = l.expiresAt

\* Manifest, capability and lease are about the same import, and agree with what
\* is current; the lease moved the provider's head from the one the capability saw.
ProjectionInputValid(f) ==
    LET m == f.manifest  c == f.capability  l == f.lease  cur == f.current IN
    /\ ManifestValid(m) /\ CapabilityValid(c) /\ LeaseValid(l)
    /\ Present(cur, {"head", "servingAbsent", "route", "identity", "lineage", "incarnation", "rebind", "binding",
                     "preInventory", "catalog"})
    /\ Agree(m, c, {"applyId", "activation", "expected", "incarnation"}) /\ m.digest = c.manifest
    /\ c.digest = l.capability
    /\ Agree(c, l, {"activation", "identity", "lineage", "incarnation", "rebind", "binding", "exclusion", "preHead", "preProof"})
    /\ Agree(c, cur, {"phase", "route", "identity", "lineage", "incarnation", "rebind", "binding", "preInventory"})
    /\ Agree(l, cur, {"servingAbsent", "state"})
    /\ c.preHead # cur.head /\ l.lockedHead = cur.head /\ f.checkedAt < l.expiresAt

ProjectionValid(p) ==
    /\ p.version = 1 /\ Present(p, {"activation", "deployment", "identity", "catalog"})
    /\ p.count = Len(p.objects) /\ \A i \in 1..Len(p.objects) : ProjectionObjectValid(p.objects[i])
    /\ StrictlySorted(p.objects)

validateFreshRestoreAdmissionCurrentAt(f, t) == Within(f.manifest, t) /\ Within(f.capability, t) /\ Within(f.lease, t)
validateFreshRestoreProofWindow(proof, t) ==
    Within(proof, t) /\ proof.expiresAt - proof.issuedAt <= ProofSpan /\ proof.expiresAt <= proof.attestorExpiresAt
validateFreshRestoreCurrentProofAt(proof, t) == proof.strict /\ validateFreshRestoreProofWindow(proof, t)

Admissible(f, t) ==
    /\ ProjectionInputValid(f) /\ validateFreshRestoreManifestPayloadDigests(f.manifest)
    /\ validateFreshRestoreAdmissionCurrentAt(f, t) /\ validateFreshRestoreCurrentProofAt(f.proof, t)

\* The digest of a projection stands for all of it.
canonicalFreshImportTopologyProjection(p) == <<"fresh-import-topology-projection.v1", p>>

\* What the signers of manifest and capability expect the import to leave behind.
Normalized(o) == [type |-> o.type, key |-> o.key, payload |-> [o.payload EXCEPT !.shape = IF o.type = Profile THEN @ ELSE "normalized"]]
ExpectedProjection(f) ==
    [version |-> 1, activation |-> f.manifest.activation, deployment |-> f.manifest.deployment,
     identity |-> f.current.identity, catalog |-> f.current.catalog, count |-> Len(f.manifest.objects),
     objects |-> [i \in 1..Len(f.manifest.objects) |-> Normalized(f.manifest.objects[i])]]
Facts(a) ==
    LET expected == canonicalFreshImportTopologyProjection(ExpectedProjection(FactsOf[a]))
    IN  [FactsOf[a] EXCEPT !.manifest.expected = expected, !.capability.expected = expected]

(***************************************************************************)
(* State.                                                                  *)
(***************************************************************************)
VARIABLES now,          \* the clock
          verified,     \* handles in use
          consumed,     \* handles whose flag is set
          withdrawn,    \* capabilities revoked, or in recovery
          applications, \* the applications table
          inventory,    \* the imported objects
          run,          \* what each caller is doing
          results       \* what calls returned, and whether they had been applied

vars == <<now, verified, consumed, withdrawn, applications, inventory, run, results>>
Idle == [at |-> "idle"]
Init ==
    /\ now = 0 /\ verified = {} /\ consumed = {} /\ withdrawn = {} /\ applications = {} /\ inventory = {}
    /\ run = [w \in Workers |-> Idle] /\ results = {}

Return(w, outcome, applied, application) ==
    /\ results' = results \cup {[admission |-> run[w].admission, outcome |-> outcome, applied |-> applied, application |-> application]}
    /\ run' = [run EXCEPT ![w] = Idle]

newVerifiedFreshRestoreImportAdmission(a) ==
    /\ a \notin verified /\ Admissible(Facts(a), now) /\ verified' = verified \cup {a}
    /\ UNCHANGED <<now, consumed, withdrawn, applications, inventory, run, results>>

\* Viewing spends nothing; the caller builds a projection from what it sees.
ViewVerifiedFreshRestoreImportAdmission(w, a) ==
    /\ run[w] = Idle /\ a \in verified /\ Admissible(Facts(a), now)
    /\ \E p \in Candidates \cup {ExpectedProjection(FactsOf[a])} :
         run' = [run EXCEPT ![w] = [at |-> "viewed", admission |-> a, projection |-> p]]
    /\ UNCHANGED <<now, verified, consumed, withdrawn, applications, inventory, results>>

\* The flag is set before anything is looked at.
consumeVerifiedFreshRestoreImportAdmission(a) == a \notin consumed /\ Admissible(Facts(a), now)

ProjectionMatches(p, f) ==
    /\ ProjectionValid(p) /\ Agree(p, f.manifest, {"activation", "deployment", "count"}) /\ Agree(p, f.current, {"identity", "catalog"})
    /\ Len(p.objects) = Len(f.manifest.objects)
    /\ \A i \in 1..Len(p.objects) : Agree(p.objects[i], f.manifest.objects[i], {"type", "key"})
    /\ canonicalFreshImportTopologyProjection(p) = f.manifest.expected
    /\ canonicalFreshImportTopologyProjection(p) = f.capability.expected

ConsumeVerifiedFreshRestoreImport(w) ==
    /\ run[w].at = "viewed" /\ consumed' = consumed \cup {run[w].admission}
    /\ LET a == run[w].admission IN
       IF a \in consumed THEN Return(w, "conflict", FALSE, None)
       ELSE IF ~consumeVerifiedFreshRestoreImportAdmission(a) \/ ~ProjectionMatches(run[w].projection, Facts(a))
       THEN Return(w, "invalid", FALSE, None)
       ELSE run' = [run EXCEPT ![w].at = "call"] /\ UNCHANGED results
    /\ UNCHANGED <<now, verified, withdrawn, applications, inventory>>

(***************************************************************************)
(* The database function, one statement and so one transaction.            *)
(***************************************************************************)
NodeSet(objects) == {objects[i].key : i \in {j \in 1..Len(objects) : objects[j].type = Seed}}
\* The row of a capability is what its registration stored: the signed facts.
Application(f, p) ==
    [applyId |-> f.capability.applyId, capability |-> f.capability.digest, manifest |-> f.manifest.digest,
     activation |-> f.capability.activation, identity |-> f.capability.identity, lineage |-> f.capability.lineage,
     incarnation |-> f.capability.incarnation, rebind |-> f.capability.rebind, binding |-> f.capability.binding,
     lease |-> f.lease.digest, lockedHead |-> f.lease.lockedHead, route |-> f.current.route,
     preInventory |-> f.capability.preInventory, expected |-> f.capability.expected, count |-> Len(p.objects),
     nodeSet |-> NodeSet(p.objects), tx |-> Cardinality(applications) + 1]

ApplicableIfWithdrawn(f, p) ==
    /\ \A x \in applications : x.applyId # f.capability.applyId
    /\ NodeSet(p.objects) # {}
Applicable(f, p) ==
    /\ now < f.capability.expiresAt /\ f.capability.digest \notin withdrawn
    /\ \A x \in applications : x.applyId # f.capability.applyId
    /\ \A i \in 1..Len(p.objects) : ProjectionObjectValid(p.objects[i])
    /\ StrictlySorted(p.objects) /\ NodeSet(p.objects) # {}
    /\ canonicalFreshImportTopologyProjection(p) = f.capability.expected
    /\ Agree(p, f.capability, {"activation", "identity"}) /\ p.count = Len(p.objects)
\* Rows collide with rows already there, and a node needs its point of presence.
Stored(p) == {p.objects[i] : i \in 1..Len(p.objects)}
Storable(p) ==
    /\ \A o \in Stored(p), s \in inventory : ~(o.type = s.type /\ o.key = s.key)
    /\ \A o \in Stored(p) : o.type = Seed => \E s \in Stored(p) \cup inventory : s.type = Pop /\ s.key = o.payload.pop

begin_staging_import(w) ==
    /\ run[w].at = "call"
    /\ LET f == Facts(run[w].admission)  p == run[w].projection IN
       IF ~Applicable(f, p) THEN Return(w, "conflict", FALSE, None) /\ UNCHANGED <<applications, inventory>>
       ELSE IF ~Storable(p) THEN Return(w, "failed", FALSE, None) /\ UNCHANGED <<applications, inventory>>
       ELSE /\ applications' = applications \cup {Application(f, p)} /\ inventory' = inventory \cup Stored(p)
            /\ run' = [run EXCEPT ![w] = [at |-> "answer", admission |-> run[w].admission, row |-> Application(f, p)]]
            /\ UNCHANGED results
    /\ UNCHANGED <<now, verified, consumed, withdrawn>>

(***************************************************************************)
(* The answer.  It is compared with the facts after it has been committed. *)
(***************************************************************************)
ApplicationValid(x) ==
    /\ Present(x, {"applyId", "capability", "manifest", "activation", "identity", "lineage", "incarnation", "rebind",
                   "binding", "lease", "lockedHead", "route", "preInventory"})
    /\ x.count > 0 /\ x.tx > 0
freshRestoreImportApplicationFromRow(row) == IF row.count > 0 /\ ApplicationValid(row) THEN {row} ELSE {}

EchoMatches(x, f) ==
    /\ x.applyId = f.manifest.applyId /\ x.capability = f.capability.digest /\ x.manifest = f.manifest.digest
    /\ x.activation = f.manifest.activation
    /\ Agree(x, f.current, {"identity", "lineage", "incarnation", "rebind", "binding", "route", "preInventory"})
    /\ x.lease = f.lease.digest /\ x.lockedHead = f.current.head /\ x.expected = f.manifest.expected
    /\ x.count = f.manifest.count /\ x.nodeSet = f.manifest.nodeSet

Answer(w) ==
    /\ run[w].at = "answer"
    /\ LET f == Facts(run[w].admission) IN
       \/ \E x \in freshRestoreImportApplicationFromRow(run[w].row) : EchoMatches(x, f) /\ Return(w, "applied", TRUE, x)
       \/ /\ \A x \in freshRestoreImportApplicationFromRow(run[w].row) : ~EchoMatches(x, f)
          /\ Return(w, "failed", TRUE, None)
    /\ UNCHANGED <<now, verified, consumed, withdrawn, applications, inventory>>

\* The statement fails before it commits, or its answer is lost after it has.
Lost(w) ==
    /\ run[w].at \in {"call", "answer"}
    /\ Return(w, "failed", run[w].at = "answer", None)
    /\ UNCHANGED <<now, verified, consumed, withdrawn, applications, inventory>>

Withdraw(a) ==
    /\ Facts(a).capability.digest \notin withdrawn /\ withdrawn' = withdrawn \cup {Facts(a).capability.digest}
    /\ UNCHANGED <<now, verified, consumed, applications, inventory, run, results>>
Tick == now < MaxTime /\ now' = now + 1 /\ UNCHANGED <<verified, consumed, withdrawn, applications, inventory, run, results>>

Next ==
    \/ \E a \in Admissions : newVerifiedFreshRestoreImportAdmission(a) \/ Withdraw(a)
    \/ \E w \in Workers, a \in Admissions : ViewVerifiedFreshRestoreImportAdmission(w, a)
    \/ \E w \in Workers : ConsumeVerifiedFreshRestoreImport(w) \/ begin_staging_import(w) \/ Answer(w) \/ Lost(w)
    \/ Tick
Spec == Init /\ [][Next]_vars

(***************************************************************************)
(* Properties.                                                             *)
(***************************************************************************)
TypeOK ==
    /\ now \in 0..MaxTime /\ verified \subseteq Admissions /\ consumed \subseteq verified
    /\ \A w \in Workers : run[w].at \in {"idle", "viewed", "call", "answer"}
    /\ \A r \in results : r.admission \in consumed /\ r.outcome \in {"applied", "conflict", "invalid", "failed"}

\* Whatever admissions are issued, copied, lost and issued again for one
\* capability, its import is applied once.
AppliedOnce == \A x, y \in applications : x.applyId = y.applyId => x = y

\* A caller told that its call was refused knows that this call changed nothing;
\* only a failure may hide an applied import.
RefusalMeansNotApplied == \A r \in results : r.outcome \in {"invalid", "conflict"} => ~r.applied

\* The imported rows are exactly the normalized objects of the manifests that
\* were applied, payloads included.
InventoryIsExpected ==
    inventory = UNION {Stored(ExpectedProjection(Facts(a))) : a \in {b \in Admissions :
        \E x \in applications : x.manifest = Facts(b).manifest.digest}}

AppliedWhileCurrentStep ==
    \A x \in applications' \ applications : \E a \in Admissions :
     /\ Facts(a).capability.digest = x.capability /\ x.capability \notin withdrawn
     /\ now < Facts(a).capability.expiresAt

\* An import is applied only while its capability is neither expired, revoked
\* nor being recovered, however long ago the admission was verified.
AppliedWhileCurrent == [][AppliedWhileCurrentStep]_vars

\* What a successful call returns is the row the database holds, and says the
\* complete node set of the manifest that was signed.
ReturnedIsStored ==
    \A r \in results : r.outcome = "applied" =>
        r.application \in applications /\ r.application.nodeSet = Facts(r.admission).manifest.nodeSet
=============================================================================
