------------------------------ MODULE MCClaim -------------------------------
(***************************************************************************)
(* The version 7 authority database and what is decided, migrated,         *)
(* imported and checked on it, on small instances. A behaviour is one of   *)
(* several scenarios, each of which runs one component; the variables of   *)
(* the others keep their initial value.                                    *)
(***************************************************************************)
EXTENDS AuthorityClaim, Sequences

CONSTANTS
    Scenarios

VARIABLE scenario

VARIABLES
    decisionNow, decisionCommitment, decisionLog, decisionWorker, decisionAdmission,
    decisionHolder, decisionOutcome, decisionConsumed
decisionVars == <<decisionNow, decisionCommitment, decisionLog, decisionWorker, decisionAdmission,
      decisionHolder, decisionOutcome, decisionConsumed>>

VARIABLES
    codecItem
codecVars == <<codecItem>>

VARIABLES
    grantNow, grantDb, grantLock, grantTxs, grantRun, grantConsumed, grantIssued,
    grantHistory
grantVars == <<grantNow, grantDb, grantLock, grantTxs, grantRun, grantConsumed, grantIssued,
      grantHistory>>

VARIABLES
    importNow, importVerified, importConsumed, importWithdrawn, importApplications,
    importInventory, importRun, importResults
importVars == <<importNow, importVerified, importConsumed, importWithdrawn, importApplications,
      importInventory, importRun, importResults>>

(* An operation may be of each sort; callers name two reservations and two *)
(* activations, of which one is released.                                  *)
MCTimes == 1..2

(* Commitments: conditional ones of a node and of the global scope, and    *)
(* final ones.                                                             *)
Conditional(what, scopeKind, scope) ==
    [op |-> "op", kind |-> what, scopeKind |-> scopeKind, scope |-> scope, epoch |-> 1, sequence |-> 1,
     base |-> "base", mode |-> "conditional_apply", reason |-> "none", policy |-> 1, inputs |-> "captured"]
Final(reason) ==
    [Conditional("grant_claim", "node", "n1") EXCEPT !.mode = "final_not_applied", !.reason = reason,
                                                     !.policy = 0, !.inputs = "zero"]

NodeInputs == {Conditional("desired_activate", "node", "n1")}
AllInputs == NodeInputs \cup {Conditional("root_publish", "global_node_trust", "global_node_trust")}
             \cup {Final(r) : r \in {"failed", "superseded"}}

EffectReasons == {"failed", "superseded", "activation_deadline_expired", "validation_rejected", "none"}

(* The grants and authorizations of a migration, and the admissions of an  *)
(* import.                                                                 *)
MCLatch(what) ==
    [installation |-> "i", kind |-> what, identity |-> "d", catalog |-> "c", version |-> 7,
     downState |-> "locked", installedAt |-> 0]
MCIntent ==
    [installation |-> "i", kind |-> "production", identity |-> "d", isolation |-> "s", nonce |-> "n",
     classification |-> "pending"]
MCUp(what, intent, expires) ==
    [latch |-> MCLatch(what), profile |-> IF what = "production" THEN "claim_v1" ELSE "legacy_v6",
     intent |-> intent, isolation |-> "s", nonce |-> "n", expiresAt |-> expires]
MCDown(expires) ==
    [latch |-> MCLatch("disposable_fixture"), profile |-> "legacy_v6", catalog |-> "c", tables |-> <<1, 2>>,
     retirement |-> [installation |-> "i", anchor |-> "a", retirements |-> <<1, 2>>,
                     members |-> <<[key |-> 1, provider |-> 2], [key |-> 2, provider |-> 1]>>],
     anchor |-> "a", scope |-> "down_00007_only", nonce |-> "n", expiresAt |-> expires]

MCUpFacts ==
    [u1 |-> MCUp("disposable_fixture", {}, 2), u2 |-> MCUp("production", {MCIntent}, 2),
     u3 |-> MCUp("production", {}, 2)]
MCDownFacts == [d1 |-> MCDown(2), d2 |-> MCDown(1)]
MCUpIds == {"u1", "u2", "u3"}
MCDownIds == {"d1"}

MCPayload(k, pop) == [wellFormed |-> TRUE, shape |-> "import", fresh |-> TRUE, key |-> k, pop |-> pop]
MCObject(type, k, pop) ==
    [type |-> type, key |-> k, payload |-> MCPayload(k, pop), digest |-> <<type, MCPayload(k, pop)>>]

MCFacts(id, m, c, objects, nodeSet, expires) ==
    [manifest |-> [applyId |-> id, digest |-> m, activation |-> "act", deployment |-> "dep", incarnation |-> "inc",
                   nodeSet |-> nodeSet, expected |-> "x", issuedAt |-> 0, expiresAt |-> 3, count |-> Len(objects), objects |-> objects],
     capability |-> [digest |-> c, applyId |-> id, manifest |-> m, activation |-> "act", identity |-> "d",
                     lineage |-> "lin", incarnation |-> "inc", rebind |-> "reb", binding |-> "bind", exclusion |-> "e",
                     preHead |-> "h0", preProof |-> "p0", route |-> "r", preInventory |-> "pre", expected |-> "x",
                     phase |-> "staging_closed", issuedAt |-> 0, expiresAt |-> expires],
     lease |-> [digest |-> "l", exclusion |-> "e", leaseId |-> "e", capability |-> c, activation |-> "act", identity |-> "d",
                lineage |-> "lin", preHead |-> "h0", preProof |-> "p0", incarnation |-> "inc", rebind |-> "reb", binding |-> "bind",
                lockedHead |-> "h1", servingAbsent |-> "s", state |-> "held", requestedExpiry |-> 3, issuedAt |-> 0, expiresAt |-> 3],
     current |-> [head |-> "h1", phase |-> "staging_closed", servingAbsent |-> "s", state |-> "held", route |-> "r", identity |-> "d",
                  lineage |-> "lin", incarnation |-> "inc", rebind |-> "reb", binding |-> "bind", preInventory |-> "pre", catalog |-> "cat"],
     proof |-> [strict |-> TRUE, issuedAt |-> 0, expiresAt |-> 2, attestorExpiresAt |-> 2], checkedAt |-> 0]

MCNode == <<MCObject(2, 1, 0), MCObject(3, 1, 1), MCObject(4, 1, 0), MCObject(4, 2, 0)>>
MCMixed == <<MCObject(1, 1, 0), MCObject(3, 2, 3), MCObject(4, 3, 0)>>
\* a1 and a2 admit one import; a3's manifest misstates the node set; a4 has no
\* node; a5's node has no point of presence.
MCFactsOf ==
    [a1 |-> MCFacts("i1", "m1", "c1", MCNode, {1}, 1), a2 |-> MCFacts("i1", "m1", "c1", MCNode, {1}, 1), a3 |-> MCFacts("i2", "m2", "c2", MCMixed, {3}, 2),
     a4 |-> MCFacts("i3", "m3", "c3", <<MCObject(4, 7, 0)>>, {7}, 2), a5 |-> MCFacts("i4", "m4", "c4", <<MCObject(3, 8, 9)>>, {8}, 2)]
MCAdmissions == {"a1", "a2"}
MCOdd == {"a3", "a4", "a5"}

-----------------------------------------------------------------------------
Decision == INSTANCE ActivationDecision WITH
    MaxCoordinate <- 2, EvidenceBudget <- 2, Workers <- {"w1"}, Inputs <- AllInputs, Reasons
    <- EffectReasons, Scopes <- {"n1", "global_node_trust"}, Deadline <- 2, MaxTime <- 3,
    now <- decisionNow, commitment <- decisionCommitment, log <- decisionLog, worker <-
    decisionWorker, admission <- decisionAdmission, holder <- decisionHolder, outcome <-
    decisionOutcome, consumed <- decisionConsumed

Copies == INSTANCE ActivationDecision WITH
    MaxCoordinate <- 1, EvidenceBudget <- 2, Workers <- {"w1", "w2"}, Inputs <- NodeInputs,
    Reasons <- {"none"}, Scopes <- {"n1"}, Deadline <- 2, MaxTime <- 3, now <- decisionNow,
    commitment <- decisionCommitment, log <- decisionLog, worker <- decisionWorker,
    admission <- decisionAdmission, holder <- decisionHolder, outcome <- decisionOutcome,
    consumed <- decisionConsumed

Grants == INSTANCE MigrationGrants WITH
    Workers <- {"w1", "w2"}, UpIds <- MCUpIds, DownIds <- MCDownIds, UpFactsOf <- MCUpFacts,
    DownFactsOf <- MCDownFacts, MaxTime <- 2, MaxTx <- 2, MaxRows <- 1, Lifetime <- 1, now
    <- grantNow, db <- grantDb, lock <- grantLock, txs <- grantTxs, run <- grantRun,
    consumed <- grantConsumed, issued <- grantIssued, history <- grantHistory

Facts == INSTANCE StagingImport WITH
    Workers <- {}, Admissions <- {}, FactsOf <- MCFactsOf, Candidates <- {}, MaxTime <- 0, ProofSpan <- 0,
    now <- 0, verified <- 0, consumed <- 0, withdrawn <- 0, applications <- 0, inventory <- 0, run <- 0, results <- 0
\* The right objects with another payload: another point of presence for the node.
MCCandidates ==
    {[Facts!ExpectedProjection(MCFactsOf.a1) EXCEPT !.objects[2].payload.pop = 2],
     [Facts!ExpectedProjection(MCFactsOf.a1) EXCEPT !.objects = <<@[2], @[1], @[3], @[4]>>]}

Import == INSTANCE StagingImport WITH
    Workers <- {"w1", "w2"}, Admissions <- MCAdmissions, FactsOf <- MCFactsOf, Candidates <-
    MCCandidates, MaxTime <- 1, ProofSpan <- 2, now <- importNow, verified <-
    importVerified, consumed <- importConsumed, withdrawn <- importWithdrawn, applications
    <- importApplications, inventory <- importInventory, run <- importRun, results <-
    importResults

Refused == INSTANCE StagingImport WITH
    Workers <- {"w1"}, Admissions <- MCOdd, FactsOf <- MCFactsOf, Candidates <-
    MCCandidates, MaxTime <- 1, ProofSpan <- 2, now <- importNow, verified <-
    importVerified, consumed <- importConsumed, withdrawn <- importWithdrawn, applications
    <- importApplications, inventory <- importInventory, run <- importRun, results <-
    importResults

-----------------------------------------------------------------------------
ScenarioInit ==
    /\ scenario \in Scenarios
    /\ IF scenario = "claim" THEN Init
       ELSE Init /\ kind = "grant_claim" /\ fence = NoFence
    /\ CASE scenario = "decision" -> Decision!Init
         [] scenario = "copies" -> Copies!Init
         [] OTHER -> /\ decisionNow = 0 /\ decisionCommitment = 0 /\ decisionLog = 0 /\ decisionWorker = 0
                     /\ decisionAdmission = 0 /\ decisionHolder = 0 /\ decisionOutcome = 0 /\ decisionConsumed = 0
    /\ IF scenario = "codec" THEN codecItem \in Decision!Items
       ELSE /\ codecItem = 0
    /\ IF scenario = "grants" THEN Grants!Init
       ELSE /\ grantNow = 0 /\ grantDb = 0 /\ grantLock = 0 /\ grantTxs = 0
            /\ grantRun = 0 /\ grantConsumed = 0 /\ grantIssued = 0 /\ grantHistory = 0
    /\ CASE scenario = "import" -> Import!Init
         [] scenario = "refused" -> Refused!Init
         [] OTHER -> /\ importNow = 0 /\ importVerified = 0 /\ importConsumed = 0 /\ importWithdrawn = 0
                     /\ importApplications = 0 /\ importInventory = 0 /\ importRun = 0 /\ importResults = 0

ScenarioNext ==
    /\ UNCHANGED scenario
    /\ \/ scenario = "claim" /\ Next
          /\ UNCHANGED <<decisionVars, codecVars, grantVars, importVars>>
       \/ scenario = "decision" /\ (~decisionOutcome.ok) /\ Decision!Next
          /\ UNCHANGED <<vars, codecVars, grantVars, importVars>>
       \/ scenario = "copies" /\ (~decisionOutcome.ok) /\ Copies!Next
          /\ UNCHANGED <<vars, codecVars, grantVars, importVars>>
       \/ scenario = "grants" /\ Grants!Next
          /\ UNCHANGED <<vars, decisionVars, codecVars, importVars>>
       \/ scenario = "import" /\ Import!Next
          /\ UNCHANGED <<vars, decisionVars, codecVars, grantVars>>
       \/ scenario = "refused" /\ Refused!Next
          /\ UNCHANGED <<vars, decisionVars, codecVars, grantVars>>

scenarioVars == <<scenario, vars, decisionVars, codecVars, grantVars, importVars>>

ScenarioSpec == ScenarioInit /\ [][ScenarioNext]_scenarioVars

-----------------------------------------------------------------------------
(* An effect is applied only while its deadline and its attestation stand, *)
(* in trusted time at the moment its admission is consumed, however long   *)
(* ago the evidence was captured; and it is declared expired only after    *)
(* the deadline.                                                           *)
AppliedInTime == scenario = "decision" => Decision!AppliedInTime

(* An operation is superseded only by an operation of its own scope that   *)
(* the provider committed after it.                                        *)
SupersededByHigher == scenario = "decision" => Decision!SupersededByHigher

(* What an activation persisted, recovery accepts: bodies parse, the       *)
(* evidence rebuilt from the columns is the evidence stored, and the       *)
(* resolution stored is the only one that passes.                          *)
PersistedOutcomeValidates == scenario = "decision" => Decision!PersistedOutcomeValidates

(* A proof determines its decision: exactly one resolution passes the      *)
(* matrix.                                                                 *)
ResolutionIsDetermined == scenario = "decision" => Decision!ResolutionIsDetermined

(* At every instant a conditional effect can be decided by time alone, and *)
(* in one way only: it may be applied before the deadline, and be declared *)
(* expired from the deadline on.                                           *)
DeadlineDividesTime == scenario = "decision" => Decision!DeadlineDividesTime

(* One admission lets one transaction through, whatever copies of the      *)
(* proof there are and however often a transaction is rolled back and      *)
(* retried.                                                                *)
AdmissionConsumedOnce ==
    /\ scenario = "decision" => Decision!AdmissionConsumedOnce
    /\ scenario = "copies" => Copies!AdmissionConsumedOnce

(* Outside a transaction version 7 has exactly one latch and version 6     *)
(* none, and no downgrade authorization is ever seen: the counts go from   *)
(* one and none to one and one and to none and none inside one             *)
(* transaction.                                                            *)
ControlRowsAreConsistent == scenario = "grants" => Grants!ControlRowsAreConsistent

(* However many copies of a grant are used, at most one migration commits  *)
(* by it.                                                                  *)
OneCommitPerGrant == scenario = "grants" => Grants!OneCommitPerGrant

(* Every committed downgrade was signed for its own transaction and        *)
(* consumed inside the window of that signature.                           *)
DowngradeWasAuthorized == scenario = "grants" => Grants!DowngradeWasAuthorized

(* A production catalog always has the pending intent that names its       *)
(* installation, so that activation can start from it.                     *)
ProductionHasIntent == scenario = "grants" => Grants!ProductionHasIntent

(* Going down never destroys rows: it commits only over empty tables of a  *)
(* disposable installation, whatever was written after the grant was       *)
(* issued.                                                                 *)
DownLosesNothing == [][scenario = "grants" => Grants!DownLosesNothingStep]_grantVars

(* Whatever admissions are issued, copied, lost and issued again for one   *)
(* capability, its import is applied once.                                 *)
AppliedOnce ==
    /\ scenario = "import" => Import!AppliedOnce
    /\ scenario = "refused" => Refused!AppliedOnce

(* The imported rows are exactly the normalized objects of the manifests   *)
(* that were applied, payloads included.                                   *)
InventoryIsExpected ==
    /\ scenario = "import" => Import!InventoryIsExpected
    /\ scenario = "refused" => Refused!InventoryIsExpected

(* An import is applied only while its capability is neither expired,      *)
(* revoked nor being recovered, however long ago the admission was         *)
(* verified.                                                               *)
AppliedWhileCurrent ==
    [][/\ scenario = "import" => Import!AppliedWhileCurrentStep
       /\ scenario = "refused" => Refused!AppliedWhileCurrentStep]_importVars

(* A caller told that its call was refused knows that this call changed    *)
(* nothing; only a failure may hide an applied import.                     *)
RefusalMeansNotApplied ==
    /\ scenario = "import" => Import!RefusalMeansNotApplied
    /\ scenario = "refused" => Refused!RefusalMeansNotApplied

(* What a successful call returns is the row the database holds, and says  *)
(* the complete node set of the manifest that was signed.                  *)
ReturnedIsStored ==
    /\ scenario = "import" => Import!ReturnedIsStored
    /\ scenario = "refused" => Refused!ReturnedIsStored

(* Every artifact a constructor accepts is read back as it was built, so   *)
(* that recovery works on the very commitment, head and checkpoint that    *)
(* were stored.                                                            *)
ParseInvertsNew == scenario = "codec" => Decision!ParseInvertsNew(codecItem)

(* A constructed commitment passes the check every later step makes of it, *)
(* and its coordinates fit the database's signed 64-bit columns.           *)
CommitmentsStayValid == scenario = "codec" => Decision!CommitmentsStayValid(codecItem)

(* A decision is taken in time, is determined by its proof, takes effect   *)
(* once and is read back as it was taken.                                  *)
DecisionIsSound ==
    /\ AppliedInTime
    /\ SupersededByHigher
    /\ PersistedOutcomeValidates
    /\ ResolutionIsDetermined
    /\ DeadlineDividesTime
    /\ AdmissionConsumedOnce
    /\ ParseInvertsNew
    /\ CommitmentsStayValid

(* Every migration run keeps the control rows consistent, commits each     *)
(* grant once, goes down only with an authorization that still stood, and  *)
(* destroys no authority row.                                              *)
MigrationIsSafe ==
    /\ [](/\ ControlRowsAreConsistent
          /\ OneCommitPerGrant
          /\ DowngradeWasAuthorized
          /\ ProductionHasIntent)
    /\ DownLosesNothing

(* An import is applied once, while its manifest stood, exactly as it was  *)
(* planned, and every answer says what happened.                           *)
ImportIsExact ==
    /\ [](AppliedOnce /\ InventoryIsExpected /\ RefusalMeansNotApplied /\ ReturnedIsStored)
    /\ AppliedWhileCurrent
=============================================================================
