------------------------------ MODULE MCTrust -------------------------------
(***************************************************************************)
(* The way of a configuration bundle on small instances: the service that  *)
(* issues it and publishes the trust metadata (TrustService), the checks   *)
(* of the client (BundleVerification) and its store (ClientStore). A       *)
(* behaviour is one of several scenarios, each of which runs one           *)
(* component; the variables of the others keep their initial value.        *)
(***************************************************************************)
EXTENDS ClientStore, TLC

CONSTANTS
    Scenarios, Clients, Keys

VARIABLE scenario

VARIABLES
    bundleTime, bundleOffset, bundlePublished, bundleLoaded, bundleSigner, bundleBundles,
    bundleHeld, bundleActive, bundleOutcome
bundleVars == <<bundleTime, bundleOffset, bundlePublished, bundleLoaded, bundleSigner, bundleBundles,
      bundleHeld, bundleActive, bundleOutcome>>

VARIABLES
    issueNow, issueSequence, issueAuthorized, issueHighest, issueBundles, issueAcks,
    issueOutbox, issueIdem, issueBegun, issueRequests, issueAnswers, issueDevice
issueVars == <<issueNow, issueSequence, issueAuthorized, issueHighest, issueBundles, issueAcks,
      issueOutbox, issueIdem, issueBegun, issueRequests, issueAnswers, issueDevice>>

VARIABLES
    metadataRoots, metadataKeyRows, metadataProc, metadataCeremony, metadataRefused
metadataVars == <<metadataRoots, metadataKeyRows, metadataProc, metadataCeremony, metadataRefused>>

Symmetry ==
    Permutations(Processes) \cup Permutations(Clients) \cup Permutations(Keys)

(* Ceremonies for versions 2 and 3, each with a key of its own.            *)
Independent == {[version |-> 2, keys |-> {"second"}], [version |-> 3, keys |-> {"third"}]}

-----------------------------------------------------------------------------
Rotation == INSTANCE BundleVerification WITH
    Devices <- {"d1"}, Skew <- 1, Lifetime <- 3, Trials <- {}, GraceEnd <- 4, ValidFrom <-
    2, ValidUntil <- 8, MaxTime <- 7, MaxVersion <- 2, time <- bundleTime, offset <-
    bundleOffset, published <- bundlePublished, loaded <- bundleLoaded, signer <-
    bundleSigner, bundles <- bundleBundles, held <- bundleHeld, active <- bundleActive,
    outcome <- bundleOutcome

Trial == INSTANCE BundleVerification WITH
    Devices <- {"d1", "d2"}, Skew <- 1, Lifetime <- 2, Trials <- {"d2"}, GraceEnd <- 3,
    ValidFrom <- 2, ValidUntil <- 5, MaxTime <- 4, MaxVersion <- 1, time <- bundleTime,
    offset <- bundleOffset, published <- bundlePublished, loaded <- bundleLoaded, signer <-
    bundleSigner, bundles <- bundleBundles, held <- bundleHeld, active <- bundleActive,
    outcome <- bundleOutcome

Resolve == INSTANCE TrustService WITH
    Authorizations <- {"a1"}, Requests <- Clients, Keys <- Keys, Operations <- {"resolve"},
    BundleLifetime <- 2, Retention <- 2, KeyUntil <- 6, MaxTime <- 2, MaxSequence <- 2,
    Processes <- 0, Ceremonies <- 0, LocalKey <- 0, now <- issueNow, sequence <-
    issueSequence, authorized <- issueAuthorized, highest <- issueHighest, bundles <-
    issueBundles, acks <- issueAcks, outbox <- issueOutbox, idem <- issueIdem, begun <-
    issueBegun, requests <- issueRequests, answers <- issueAnswers, device <- issueDevice,
    roots <- 0, keyRows <- 0, proc <- 0, ceremony <- 0, refused <- 0

Acknowledge == INSTANCE TrustService WITH
    Authorizations <- {"a1", "a2"}, Requests <- {"r1"}, Keys <- Keys, Operations <-
    {"issue", "acknowledge"}, BundleLifetime <- 2, Retention <- 2, KeyUntil <- 3, MaxTime <-
    0, MaxSequence <- 1, Processes <- 0, Ceremonies <- 0, LocalKey <- 0, now <- issueNow,
    sequence <- issueSequence, authorized <- issueAuthorized, highest <- issueHighest,
    bundles <- issueBundles, acks <- issueAcks, outbox <- issueOutbox, idem <- issueIdem,
    begun <- issueBegun, requests <- issueRequests, answers <- issueAnswers, device <-
    issueDevice, roots <- 0, keyRows <- 0, proc <- 0, ceremony <- 0, refused <- 0

Bootstrap == INSTANCE TrustService WITH
    Authorizations <- 0, Requests <- 0, Keys <- 0, Operations <- 0, BundleLifetime <- 0,
    Retention <- 0, KeyUntil <- 0, MaxTime <- 0, MaxSequence <- 0, Processes <- {"n1", "n2",
    "n3"}, Ceremonies <- {}, LocalKey <- "local", now <- 0, sequence <- 0, authorized <- 0,
    highest <- 0, bundles <- 0, acks <- 0, outbox <- 0, idem <- 0, begun <- 0, requests <-
    0, answers <- 0, device <- 0, roots <- metadataRoots, keyRows <- metadataKeyRows, proc
    <- metadataProc, ceremony <- metadataCeremony, refused <- metadataRefused

Publish == INSTANCE TrustService WITH
    Authorizations <- 0, Requests <- 0, Keys <- 0, Operations <- 0, BundleLifetime <- 0,
    Retention <- 0, KeyUntil <- 0, MaxTime <- 0, MaxSequence <- 0, Processes <- {"n1",
    "n2"}, Ceremonies <- Independent, LocalKey <- "local", now <- 0, sequence <- 0,
    authorized <- 0, highest <- 0, bundles <- 0, acks <- 0, outbox <- 0, idem <- 0, begun <-
    0, requests <- 0, answers <- 0, device <- 0, roots <- metadataRoots, keyRows <-
    metadataKeyRows, proc <- metadataProc, ceremony <- metadataCeremony, refused <-
    metadataRefused

-----------------------------------------------------------------------------
ScenarioInit ==
    /\ scenario \in Scenarios
    /\ IF scenario = "store" THEN Init
       ELSE Init
    /\ CASE scenario = "rotation" -> Rotation!Init
         [] scenario = "trial" -> Trial!Init
         [] OTHER -> /\ bundleTime = 0 /\ bundleOffset = 0 /\ bundlePublished = 0 /\ bundleLoaded = 0
                     /\ bundleSigner = 0 /\ bundleBundles = 0 /\ bundleHeld = 0 /\ bundleActive = 0
                     /\ bundleOutcome = 0
    /\ CASE scenario = "resolve" -> Resolve!IssuanceInit
         [] scenario = "acknowledge" -> Acknowledge!IssuanceInit
         [] OTHER -> /\ issueNow = 0 /\ issueSequence = 0 /\ issueAuthorized = 0 /\ issueHighest = 0
                     /\ issueBundles = 0 /\ issueAcks = 0 /\ issueOutbox = 0 /\ issueIdem = 0
                     /\ issueBegun = 0 /\ issueRequests = 0 /\ issueAnswers = 0 /\ issueDevice = 0
    /\ CASE scenario = "bootstrap" -> Bootstrap!MetadataInit
         [] scenario = "publish" -> Publish!MetadataInit
         [] OTHER -> /\ metadataRoots = 0 /\ metadataKeyRows = 0 /\ metadataProc = 0 /\ metadataCeremony = 0
                     /\ metadataRefused = 0

ScenarioNext ==
    /\ UNCHANGED scenario
    /\ \/ scenario = "store" /\ Next
          /\ UNCHANGED <<bundleVars, issueVars, metadataVars>>
       \/ scenario = "rotation" /\ Rotation!Next
          /\ UNCHANGED <<vars, issueVars, metadataVars>>
       \/ scenario = "trial" /\ Trial!Next
          /\ UNCHANGED <<vars, issueVars, metadataVars>>
       \/ scenario = "resolve" /\ Resolve!IssuanceNext
          /\ UNCHANGED <<vars, bundleVars, metadataVars>>
       \/ scenario = "acknowledge" /\ Acknowledge!IssuanceNext
          /\ UNCHANGED <<vars, bundleVars, metadataVars>>
       \/ scenario = "bootstrap" /\ Bootstrap!MetadataNext
          /\ UNCHANGED <<vars, bundleVars, issueVars>>
       \/ scenario = "publish" /\ Publish!MetadataNext
          /\ UNCHANGED <<vars, bundleVars, issueVars>>

scenarioVars == <<scenario, vars, bundleVars, issueVars, metadataVars>>

ScenarioSpec == ScenarioInit /\ [][ScenarioNext]_scenarioVars

-----------------------------------------------------------------------------
(* While the key is rotated as the runbook orders it, a device is never    *)
(* refused the newest bundle it was issued, undamaged and unexpired, for   *)
(* any clock within the skew. Two cases are refused all the same, as the   *)
(* code gives them no skew: metadata that is not yet or no longer valid,   *)
(* and a trial that has ended, on the device's own clock.                  *)
RotationRefusesNobody ==
    /\ scenario = "rotation" => Rotation!RotationRefusesNobody
    /\ scenario = "trial" => Trial!RotationRefusesNobody

(* A rollback is reported, and the durable version thereby compared, only  *)
(* for an envelope whose signature was verified.                           *)
RollbackOnlyAfterSignature ==
    /\ scenario = "rotation" => Rotation!RollbackOnlyAfterSignature
    /\ scenario = "trial" => Trial!RollbackOnlyAfterSignature

(* What is accepted is undamaged, the device's own, newer than what it     *)
(* has, and on the service's clock not expired by twice the skew or more.  *)
AcceptedIsGood ==
    /\ scenario = "rotation" => Rotation!AcceptedIsGood
    /\ scenario = "trial" => Trial!AcceptedIsGood

(* A trial's bundle is never accepted once the trial has ended on the      *)
(* device's own clock, whatever the skew.                                  *)
TrialsEnd ==
    /\ scenario = "rotation" => Rotation!TrialsEnd
    /\ scenario = "trial" => Trial!TrialsEnd

(* The versions issued to an authorization are 1, 2, 3 and so on, one      *)
(* bundle each: no command leaves a gap in what the counter allocates, and *)
(* no two issue the same version.                                          *)
VersionsAreContiguous ==
    /\ scenario = "resolve" => Resolve!VersionsAreContiguous
    /\ scenario = "acknowledge" => Acknowledge!VersionsAreContiguous

(* However often a command is sent with one key, its answers are one.      *)
OneAnswerPerKey ==
    /\ scenario = "resolve" => Resolve!OneAnswerPerKey
    /\ scenario = "acknowledge" => Acknowledge!OneAnswerPerKey

(* Resolve answers a request it had not answered before with a bundle of   *)
(* the device that is valid on the request's clock.                        *)
FreshAnswersAreValid ==
    /\ scenario = "resolve" => Resolve!FreshAnswersAreValid
    /\ scenario = "acknowledge" => Acknowledge!FreshAnswersAreValid

(* Every bundle is announced by exactly one event, and every               *)
(* acknowledgement by at least one.                                        *)
EventsMatchRows ==
    /\ scenario = "resolve" => Resolve!EventsMatchRows
    /\ scenario = "acknowledge" => Acknowledge!EventsMatchRows

(* Only the bundles of an authorization are acknowledged in its name.      *)
AcksAreOwn ==
    /\ scenario = "resolve" => Resolve!AcksAreOwn
    /\ scenario = "acknowledge" => Acknowledge!AcksAreOwn

(* Once its authority is lost a device is issued nothing more, not even by *)
(* a command that was in progress.                                         *)
NoBundleWithoutAuthority ==
    [][/\ scenario = "resolve" => Resolve!NoBundleWithoutAuthorityStep
       /\ scenario = "acknowledge" => Acknowledge!NoBundleWithoutAuthorityStep]_issueVars

(* A client accepts only a bundle that is unexpired when it is served.     *)
DevicesFetchUnexpired ==
    [][/\ scenario = "resolve" => Resolve!DevicesFetchUnexpiredStep
       /\ scenario = "acknowledge" => Acknowledge!DevicesFetchUnexpiredStep]_issueVars

(* Processes that start together all get the one version 1, whoever        *)
(* publishes it and whoever crashes on the way.                            *)
BootstrapNeverFails ==
    /\ scenario = "bootstrap" => Bootstrap!BootstrapNeverFails
    /\ scenario = "publish" => Publish!BootstrapNeverFails

(* Every stored version is there with its complete set of keys, so that    *)
(* List, and with it every later publication, can authenticate it.         *)
StoredSetsAreWhole ==
    /\ scenario = "bootstrap" => Bootstrap!StoredSetsAreWhole
    /\ scenario = "publish" => Publish!StoredSetsAreWhole

(* Across rotations of the keys, what a client accepts is good, no good    *)
(* bundle is refused, and a rollback is reported only of a signed bundle.  *)
VerificationIsSound ==
    /\ RotationRefusesNobody
    /\ RollbackOnlyAfterSignature
    /\ AcceptedIsGood
    /\ TrialsEnd

(* Whatever requests race, bundles are issued in order, to devices that    *)
(* may have them, once for each key, and each with its event.              *)
IssuanceIsSound ==
    /\ [](/\ VersionsAreContiguous
          /\ OneAnswerPerKey
          /\ FreshAnswersAreValid
          /\ EventsMatchRows
          /\ AcksAreOwn)
    /\ NoBundleWithoutAuthority
    /\ DevicesFetchUnexpired

(* Racing processes bootstrap one set of keys, and a stored set is whole.  *)
MetadataIsSound ==
    /\ BootstrapNeverFails
    /\ StoredSetsAreWhole
=============================================================================
