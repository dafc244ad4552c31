----------------------------- MODULE MCServices -----------------------------
(***************************************************************************)
(* The processes around the services on small instances: start and stop    *)
(* (ControlApiProcess), the HTTP handler (ApiRequest) and what is recorded *)
(* of its calls (ObservedCalls), configuration, readiness of the services  *)
(* and of the authority (ServiceReadiness, AuthorityReadiness), protected  *)
(* fields (SensitiveFields), the signer and the reporter of errors         *)
(* (ConfigSigner, ErrorReporter); and the progress of these and of         *)
(* MigrationGrants and ClientStore. A behaviour is one of several          *)
(* scenarios, each of which runs one component with the constants that its *)
(* question needs; the variables of the others keep their initial value.   *)
(***************************************************************************)
EXTENDS FiniteSets, Integers, Sequences, TLC

CONSTANTS
    Scenarios, Requests

VARIABLE scenario

VARIABLES
    processPc, processHeld, processHooks, processTold, processUser, processServer,
    processShutting, processErrCh, processSignalled, processHttpExpired,
    processCloseExpired, processCut, processCloseErr, processResult
processVars == <<processPc, processHeld, processHooks, processTold, processUser, processServer,
      processShutting, processErrCh, processSignalled, processHttpExpired,
      processCloseExpired, processCut, processCloseErr, processResult>>

VARIABLES
    serviceUp, serviceClock, serviceRows, serviceWriter, servicePhase, serviceExpired,
    serviceChecks, serviceReady, serviceProbe, serviceOutcome, serviceNow, serviceRedis,
    serviceBegan, serviceMet, serviceRecent
serviceVars == <<serviceUp, serviceClock, serviceRows, serviceWriter, servicePhase, serviceExpired,
      serviceChecks, serviceReady, serviceProbe, serviceOutcome, serviceNow, serviceRedis,
      serviceBegan, serviceMet, serviceRecent>>

VARIABLES
    checkProv, checkNextSeq, checkDb, checkEffect, checkLsn, checkBackup, checkBackups,
    checkRestores, checkChk
checkVars == <<checkProv, checkNextSeq, checkDb, checkEffect, checkLsn, checkBackup, checkBackups,
      checkRestores, checkChk>>

VARIABLES
    fieldKey, fieldClosed, fieldReaders, fieldWriter, fieldCloses, fieldCall, fieldStored,
    fieldDigests
fieldVars == <<fieldKey, fieldClosed, fieldReaders, fieldWriter, fieldCloses, fieldCall, fieldStored,
      fieldDigests>>

VARIABLES
    apiAbsent, apiLive, apiInput, apiReq, apiEffects, apiPerformed
apiVars == <<apiAbsent, apiLive, apiInput, apiReq, apiEffects, apiPerformed>>

VARIABLES
    observedRequest, observedCryptoChecks, observedSecurityEvents, observedRequests,
    observedVerdicts
observedVars == <<observedRequest, observedCryptoChecks, observedSecurityEvents, observedRequests,
      observedVerdicts>>

VARIABLES
    confEnv, confPhase, confCfg
confVars == <<confEnv, confPhase, confCfg>>

VARIABLES
    signerCaller, signerWorker, signerClosed, signerDone
signerVars == <<signerCaller, signerWorker, signerClosed, signerDone>>

VARIABLES
    reportQueue, reportOpen, reportAccepting, reportReaders, reportCalled, reportAnswered,
    reportRecorded, reportWorker, reportBatch, reportQueueClosed, reportCancelled,
    reportCloser, reportOnce, reportDeadline, reportPanicked
reportVars == <<reportQueue, reportOpen, reportAccepting, reportReaders, reportCalled, reportAnswered,
      reportRecorded, reportWorker, reportBatch, reportQueueClosed, reportCancelled,
      reportCloser, reportOnce, reportDeadline, reportPanicked>>

VARIABLES
    grantNow, grantDb, grantLock, grantTxs, grantRun, grantConsumed, grantIssued,
    grantHistory
grantVars == <<grantNow, grantDb, grantLock, grantTxs, grantRun, grantConsumed, grantIssued,
      grantHistory>>

VARIABLES
    storeStage, storeActive, storeTemps, storeDisk, storeUnsynced, storeTorn, storeProc,
    storeAccepted, storeFaults
storeVars == <<storeStage, storeActive, storeTemps, storeDisk, storeUnsynced, storeTorn, storeProc,
      storeAccepted, storeFaults>>

Symmetry == Permutations(Requests)

(* The tables of the HTTP handler and of the configuration.                *)
Api == INSTANCE ApiRequest WITH
    Requests <- 0, Inputs <- 0, Owner <- 0, Errors <- 0, Missing <- 0, absent <- 0, live <-
    0, input <- 0, req <- 0, effects <- 0, performed <- 0
Settings == INSTANCE Configuration WITH Environments <- 0, env <- 0, phase <- 0, cfg <- 0

(* Requests to the HTTP handler: every operation with every combination of *)
(* a credential with a key or a body; with one field wrong; and with every *)
(* form of the bodies that have several.                                   *)
ApiOwner ==
    ("account 1" :> [kind |-> "account", principal |-> "alice"]) @@ ("device 1" :> [kind |-> "device", principal |-> "tablet"])
ApiErrors ==
    { Api!Unclassified, Api!ZeroError, Api!malformedRequestError, Api!New("state_conflict", "contact_support"), Api!New("version_rollback", "none"),
      Api!NewRetryAfter("rate_limited", "retry", 1000), Api!NewRetryAfter("state_conflict", "retry", 20000) }
ApiMissing == {{}} \cup {{a} : a \in {"Identity", "StrongAuth", "AccountAuth", "Device", "DeviceAuth", "Trust", "ImmutableBundle"}}

ApiOperations ==
    {"createAccount", "createEmailVerificationDelivery", "verifyEmail", "createPasswordResetDelivery", "resetPassword",
     "createAccountSession", "createAccountAuthChallenge", "rotateAccountToken", "changePassword", "revokeAccountSessions",
     "createPasskeyRegistrationOptions", "createPasskeyCredential", "createPasskeyAuthenticationOptions", "revokePasskey",
     "createTOTPEnrollment", "verifyTOTPEnrollment", "revokeTOTP", "rotateRecoveryCodes", "consumeRecoveryCode",
     "createDeviceEnrollmentGrant", "createDeviceAuthChallenge", "registerDevice", "rotateDeviceToken", "revokeDevice",
     "resolveConfigBundle", "acknowledgeConfigBundle"}

GoodKey == [id |-> "key 1", count |-> 1, length |-> 22, plain |-> TRUE]
ApiKeys == {GoodKey, [GoodKey EXCEPT !.length = 86], [GoodKey EXCEPT !.length = 21], [GoodKey EXCEPT !.length = 87],
         [GoodKey EXCEPT !.plain = FALSE], [GoodKey EXCEPT !.count = 0]}
Bearer(token) == [kind |-> "token", token |-> token]
Headers == {Bearer("account 1"), Bearer("device 1"), Bearer("forgotten"), [kind |-> "malformed", token |-> "account 1"]}
Bodies == {"json", "untyped json", "other type", "too large", "not strict"}
Nothing(form) == [f \in DOMAIN form |-> "absent"]

NoForm == [method |-> "absent"]
ReauthForm(m, p, c, i, r) == [method |-> m, password |-> p, code |-> c, ceremony_id |-> i, response |-> r]
Presence == {"absent", "null", "empty", "bad", "good"}
(* At most one member is null or empty: the checks judge each by itself.    *)
OneZero(forms) == {x \in forms : Cardinality({f \in DOMAIN x : x[f] \in {"null", "empty"}}) <= 1}
GoodReauth == ReauthForm("password", "good", "absent", "absent", "absent")
Reauths ==
    OneZero({ReauthForm(m, p, c, i, r) : m \in {"password", "totp", "recovery_code", "passkey", "none"}, p \in Presence,
        c \in {"absent", "null", "empty", "bad", "totp", "recovery"}, i \in Presence, r \in Presence})
Logins ==
    OneZero({[method |-> m, email |-> e, password |-> p, ceremony_id |-> i, response |-> r] :
        m \in {"password", "passkey", "none"}, e \in Presence, p \in Presence, i \in Presence, r \in Presence})
Challenges ==
    {[enrollment_grant |-> g, refresh_token |-> t, signing_public_key |-> s, hpke_public_key |-> h] :
        g \in Presence, t \in Presence, s \in Presence, h \in Presence}
Revocations == {[scope |-> s, session_id |-> i] : s \in {"all", "others", "one", "none"}, i \in Presence}
Versions ==
    {[bundle_version |-> [kind |-> k, padded |-> p, value |-> v]] :
        k \in {"number", "word", "symbols"}, p \in BOOLEAN, v \in {"zero", "fits", "too wide"}}
FormsOf(op) ==
    CASE op = "createAccountSession" -> Logins
      [] op = "createDeviceAuthChallenge" -> Challenges
      [] op = "revokeAccountSessions" -> Revocations
      [] op = "acknowledgeConfigBundle" -> Versions
      [] OTHER -> {NoForm}
GoodForm(op) ==
    CASE op = "createAccountSession" -> [method |-> "password", email |-> "good", password |-> "good", ceremony_id |-> "absent", response |-> "absent"]
      [] op = "createDeviceAuthChallenge" -> [enrollment_grant |-> "absent", refresh_token |-> "good", signing_public_key |-> "absent", hpke_public_key |-> "absent"]
      [] op = "revokeAccountSessions" -> [scope |-> "others", session_id |-> "absent"]
      [] op = "acknowledgeConfigBundle" -> [bundle_version |-> [kind |-> "number", padded |-> FALSE, value |-> "fits"]]
      [] OTHER -> NoForm

HeaderFor(op) == IF Api!ContractOf(op).security = "device" THEN Bearer("device 1") ELSE Bearer("account 1")
Good(op) ==
    [op |-> op, header |-> HeaderFor(op), key |-> GoodKey, body |-> "json", bad |-> {}, form |-> GoodForm(op),
     reauth |-> GoodReauth, subject |-> "alice", content |-> 1]

EnvelopeInputs ==
    LET envelopes(op) == {[Good(op) EXCEPT !.header = h, !.key = k] : h \in Headers, k \in ApiKeys}
                        \cup {[Good(op) EXCEPT !.header = h, !.body = b] : h \in Headers, b \in Bodies}
        oneBad(op) == {[Good(op) EXCEPT !.bad = {f}] : f \in Api!ContractOf(op).required}
        empty(op) ==
            {[Good(op) EXCEPT !.body = b, !.bad = Api!ContractOf(op).required, !.reauth = Nothing(@),
                              !.form = IF op = "acknowledgeConfigBundle" THEN [@ EXCEPT !.bundle_version.kind = "symbols"] ELSE Nothing(@)] :
                b \in {"null", "json"}}
        formed(op) == {[Good(op) EXCEPT !.form = f] : f \in FormsOf(op)}
    IN  UNION {envelopes(op) \cup oneBad(op) \cup empty(op) \cup formed(op) : op \in ApiOperations}
ReauthInputs == {[Good("revokeDevice") EXCEPT !.reauth = x] : x \in Reauths}
BundleInputs ==
    {[Good("getImmutableBundle") EXCEPT !.form = [range |-> x, locator |-> l]] : x \in {"absent", "present"}, l \in {"good", "bad"}}
ApiInputs == EnvelopeInputs \cup ReauthInputs \cup BundleInputs
(* One admissible input of each operation, for a process that lacks a part.*)
ApiGood == {Good(op) : op \in ApiOperations} \cup {x \in BundleInputs : x.form.range = "absent" /\ x.form.locator = "good"}

RepeatedInputs ==
    LET content(op) == [Good(op) EXCEPT !.content = 2]
        key(op) == [Good(op) EXCEPT !.key.id = "key 2"]
        subject(op) == [Good(op) EXCEPT !.subject = "bob"]
    IN  UNION {{Good(op), content(op)} : op \in {"createAccountSession", "registerDevice", "changePassword"}}
        \cup {key("createAccountSession"), subject("createAccountSession"), key("changePassword"),
              subject("registerDevice"), Good("createDeviceAuthChallenge")}

(* Environments of a process: one group of variables varies at a time.     *)
NumberKeys == DOMAIN Settings!DefaultNumbers \cup DOMAIN Settings!DefaultSecurityNumbers \cup {"down_backlog", "down_age"}

Plain ==
    [database |-> "set", http |-> "", metrics |-> "", allow_http |-> "", allow_metrics |-> "",
     number |-> [k \in NumberKeys |-> Settings!Unset],
     profile |-> "", email |-> "", public |-> Settings!NoURL, bundles |-> <<Settings!NoURL, Settings!NoURL, Settings!NoURL>>, rp |-> "",
     origins |-> <<>>, signer |-> "", protector |-> "", sender |-> "", reporter |-> "",
     limit |-> [k \in DOMAIN Settings!RateLimits |-> Settings!Unset], window |-> [k \in DOMAIN Settings!RateLimits |-> Settings!Unset],
     keys |-> [k \in Settings!localKeyNames |-> ""]]

URL(scheme, host, path) == [scheme |-> scheme, host |-> host, path |-> path]

Production ==
    [Plain EXCEPT !.profile = "production", !.email = "grace", !.public = URL("https", "p", ""),
       !.bundles = <<URL("https", "a", ""), URL("https", "b", ""), URL("https", "c", "")>>,
       !.origins = <<URL("https", "p", "")>>, !.signer = "external", !.protector = "external",
       !.sender = "external", !.reporter = "external"]

Addresses ==
    {[Plain EXCEPT !.database = d, !.http = h, !.metrics = m, !.allow_http = x, !.allow_metrics = y] :
       d \in {"", "set"}, h \in {"", "loopback", "nohost", "unspecified", "bad"},
       m \in {"", "localhost", "unspecified", "bad"}, x \in {"", "true", "false", "bad"},
       y \in {"", "true", "bad"}}

Edges(k) ==
    {Settings!Unset, Settings!Unparsable} \cup
    (IF k = "down_backlog" THEN {1000, 1001, 100000, 100001}
     ELSE IF k = "down_age" THEN {60999, 61000, 3600000, 3600001}
     ELSE LET r == IF k \in DOMAIN Settings!DefaultNumbers THEN Settings!DefaultNumbers[k] ELSE Settings!DefaultSecurityNumbers[k]
          IN {r[2] - 1, r[2], r[3], r[3] + 1})

Numbers ==
    {{[Plain EXCEPT !.number[j] = a, !.number[k] = b] : a \in Edges(j), b \in Edges(k)} : j, k \in NumberKeys}

Limits ==
    {{[Plain EXCEPT !.limit[k] = l, !.window[k] = w] :
              l \in {Settings!Unset, Settings!RateLimits[k][2] - 1, Settings!RateLimits[k][2], Settings!RateLimits[k][3], Settings!RateLimits[k][3] + 1},
              w \in {Settings!Unset, Settings!Unparsable, Settings!RateLimits[k][5] - 1, Settings!RateLimits[k][5], Settings!RateLimits[k][6] + 1}} :
             k \in DOMAIN Settings!RateLimits}

Places == {Settings!NoURL, Settings!BadURL, URL("https", "a", ""), URL("https", "a", "/"), URL("http", "a", ""), URL("https", "b", "")}
URLs ==
    {[e EXCEPT !.public = p, !.bundles = <<a, b, c>>] :
       e \in {Plain, Production}, p \in {Settings!NoURL, URL("https", "a", "/"), URL("http", "a", "")},
       a \in Places, b \in Places, c \in Places}

Adapters ==
    {[e EXCEPT !.profile = f, !.email = m, !.signer = s, !.protector = p, !.sender = d, !.reporter = r,
               !.origins = o, !.keys["lookup"] = k, !.rp = i] :
       e \in {Production}, f \in {"", "test", "production", "bad"}, m \in {"", "grace", "disabled", "bad"},
       s \in {"", "external", "discard", "bad"}, p \in {"local", "external"}, d \in {"local", "external", "discard"},
       r \in {"", "local", "external"},
       o \in {<<>>, <<URL("https", "p", "")>>, <<URL("https", "p", ""), URL("http", "p", "")>>, <<URL("https", "p", "/")>>},
       k \in {"", "good", "bad"}, i \in {"", "blank"}}

ConfEnvironments == Numbers \cup Limits \cup {Addresses, URLs, Adapters}

(* Routes with a proof, with tokens, with tokens and a signature, with     *)
(* neither, and none; providers that answer, refuse, fail and panic, with  *)
(* and without a value left over.                                          *)
ObservedRoutes == {"POST /v1/devices", "POST /v1/device-revocations",
             "POST /v1/config-bundle-resolutions", ""}
ObservedOutcomes == {[value |-> "value", error |-> "none"], [value |-> "none", error |-> "authentication_failed"],
               [value |-> "value", error |-> "driver failure"], [value |-> "none", error |-> "panic"]}

(* Two domains of which one is the other with a byte more, a domain with   *)
(* the separator in it, and a field of an earlier key.                     *)
SensitiveDomains == {<<1>>, <<1, 1>>, <<1, 0>>}
SensitivePlaintexts == {<<2>>, <<1, 2>>}
OldFields == {[version |-> 2, key |-> "old", aad |-> <<1, 0, 2>>, plain |-> <<2>>]}

(* Facts of the grants of a migration.                                     *)
GrantLatch(kind) ==
    [installation |-> "i", kind |-> kind, identity |-> "d", catalog |-> "c", version |-> 7,
     downState |-> "locked", installedAt |-> 0]
GrantIntent ==
    [installation |-> "i", kind |-> "production", identity |-> "d", isolation |-> "s", nonce |-> "n",
     classification |-> "pending"]
GrantUp(kind, intent, expires) ==
    [latch |-> GrantLatch(kind), profile |-> IF kind = "production" THEN "claim_v1" ELSE "legacy_v6",
     intent |-> intent, isolation |-> "s", nonce |-> "n", expiresAt |-> expires]
GrantDown(expires) ==
    [latch |-> GrantLatch("disposable_fixture"), profile |-> "legacy_v6", catalog |-> "c", tables |-> <<1, 2>>,
     retirement |-> [installation |-> "i", anchor |-> "a", retirements |-> <<1, 2>>,
                     members |-> <<[key |-> 1, provider |-> 2], [key |-> 2, provider |-> 1]>>],
     anchor |-> "a", scope |-> "down_00007_only", nonce |-> "n", expiresAt |-> expires]

GrantUpFacts ==
    [u1 |-> GrantUp("disposable_fixture", {}, 2), u2 |-> GrantUp("production", {GrantIntent}, 2),
     u3 |-> GrantUp("production", {}, 2)]
GrantDownFacts == [d1 |-> GrantDown(2)]
GrantUpIds == {"u1", "u2", "u3"}
GrantDownIds == {"d1"}

(* Bounds of the ready scenario: the operations are reserved in one order, *)
(* and a check begins when both are.                                       *)
BothReserved ==
    /\ (checkProv["o2"].seq # 0 => checkProv["o1"].seq # 0)'
    /\ (checkNextSeq < 2 => checkChk.pc = "idle")'
    /\ (checkEffect["o2"].state # "absent" => checkEffect["o1"].state # "absent")'

(* Bounds of the scrapes and stopping scenarios: the publisher is at rest; *)
(* and the metrics server does not fail, one call or worker is busy at a   *)
(* time, and the signal comes to a process that has started its workers.   *)
PublisherRests == processUser'["publisher"] \notin {"first", "call", "second"}
OneServerFails ==
    /\ PublisherRests
    /\ processServer'["metrics"] # "failed"
    /\ processUser'["q1"] \in {"off", "done"} \/ processUser'["intake"] \notin {"first", "call", "second"}
    /\ processSignalled' => processHooks' # {}

-----------------------------------------------------------------------------
Calling == INSTANCE ControlApiProcess WITH
    Requests <- {"q1"}, Scrapes <- {}, pc <- processPc, held <- processHeld, hooks <-
    processHooks, told <- processTold, user <- processUser, server <- processServer,
    shutting <- processShutting, errCh <- processErrCh, signalled <- processSignalled,
    httpExpired <- processHttpExpired, closeExpired <- processCloseExpired, cut <-
    processCut, closeErr <- processCloseErr, result <- processResult

Stopping == INSTANCE ControlApiProcess WITH
    Requests <- {"q1"}, Scrapes <- {}, pc <- processPc, held <- processHeld, hooks <-
    processHooks, told <- processTold, user <- processUser, server <- processServer,
    shutting <- processShutting, errCh <- processErrCh, signalled <- processSignalled,
    httpExpired <- processHttpExpired, closeExpired <- processCloseExpired, cut <-
    processCut, closeErr <- processCloseErr, result <- processResult

Scraping == INSTANCE ControlApiProcess WITH
    Requests <- {}, Scrapes <- {"q1"}, pc <- processPc, held <- processHeld, hooks <-
    processHooks, told <- processTold, user <- processUser, server <- processServer,
    shutting <- processShutting, errCh <- processErrCh, signalled <- processSignalled,
    httpExpired <- processHttpExpired, closeExpired <- processCloseExpired, cut <-
    processCut, closeErr <- processCloseErr, result <- processResult

WindowOf == INSTANCE ServiceReadiness WITH
    Checks <- Requests, Probes <- {"redis"}, RedisDownAfterFailures <- 3,
    RedisRecoverAfterSuccesses <- 2, OutboxDegradedBacklog <- 1, OutboxDownBacklog <- 2,
    OutboxDegradedAge <- 1, OutboxDownAge <- 2, MaxTime <- 0, MaxRows <- 0, up <- serviceUp,
    clock <- serviceClock, rows <- serviceRows, writer <- serviceWriter, phase <-
    servicePhase, expired <- serviceExpired, checks <- serviceChecks, ready <- serviceReady,
    probe <- serviceProbe, outcome <- serviceOutcome, now <- serviceNow, redis <-
    serviceRedis, began <- serviceBegan, met <- serviceMet, recent <- serviceRecent

Probing == INSTANCE ServiceReadiness WITH
    Checks <- {"q1"}, Probes <- {"authority", "outbox"}, RedisDownAfterFailures <- 3,
    RedisRecoverAfterSuccesses <- 2, OutboxDegradedBacklog <- 1, OutboxDownBacklog <- 2,
    OutboxDegradedAge <- 1, OutboxDownAge <- 2, MaxTime <- 2, MaxRows <- 2, up <- serviceUp,
    clock <- serviceClock, rows <- serviceRows, writer <- serviceWriter, phase <-
    servicePhase, expired <- serviceExpired, checks <- serviceChecks, ready <- serviceReady,
    probe <- serviceProbe, outcome <- serviceOutcome, now <- serviceNow, redis <-
    serviceRedis, began <- serviceBegan, met <- serviceMet, recent <- serviceRecent

Whole == INSTANCE AuthorityReadiness WITH
    Ops <- {"o1", "o2"}, NoOp <- "noOp", Digests <- {"d1"}, NoDigest <- "noDigest", Reasons
    <- {"validation_failed"}, ValidationFailed <- "validation_failed", NoReason <-
    "noReason", Stride <- 100, CaptureLag <- 0, MaxBackups <- 0, MaxRestores <- 0, prov <-
    checkProv, nextSeq <- checkNextSeq, db <- checkDb, effect <- checkEffect, lsn <-
    checkLsn, backup <- checkBackup, backups <- checkBackups, restores <- checkRestores, chk
    <- checkChk

Restoring == INSTANCE AuthorityReadiness WITH
    Ops <- {"o1"}, NoOp <- "noOp", Digests <- {"d1"}, NoDigest <- "noDigest", Reasons <-
    {"validation_failed"}, ValidationFailed <- "validation_failed", NoReason <- "noReason",
    Stride <- 100, CaptureLag <- 9, MaxBackups <- 1, MaxRestores <- 1, prov <- checkProv,
    nextSeq <- checkNextSeq, db <- checkDb, effect <- checkEffect, lsn <- checkLsn, backup
    <- checkBackup, backups <- checkBackups, restores <- checkRestores, chk <- checkChk

Protecting == INSTANCE SensitiveFields WITH
    Calls <- Requests, Domains <- SensitiveDomains, Plaintexts <- SensitivePlaintexts, Old
    <- OldFields, MaxCloses <- 2, key <- fieldKey, closed <- fieldClosed, readers <-
    fieldReaders, writer <- fieldWriter, closes <- fieldCloses, call <- fieldCall, stored <-
    fieldStored, digests <- fieldDigests

Closing == INSTANCE SensitiveFields WITH
    Calls <- {"q1", "q2"}, Domains <- {<<1>>}, Plaintexts <- {<<2>>}, Old <- OldFields,
    MaxCloses <- 2, key <- fieldKey, closed <- fieldClosed, readers <- fieldReaders, writer
    <- fieldWriter, closes <- fieldCloses, call <- fieldCall, stored <- fieldStored, digests
    <- fieldDigests

Handling == INSTANCE ApiRequest WITH
    Requests <- {"q1"}, Inputs <- ApiInputs, Owner <- ApiOwner, Errors <- {}, Missing <-
    {{}}, absent <- apiAbsent, live <- apiLive, input <- apiInput, req <- apiReq, effects <-
    apiEffects, performed <- apiPerformed

Lacking == INSTANCE ApiRequest WITH
    Requests <- {"q1"}, Inputs <- ApiGood, Owner <- ApiOwner, Errors <- ApiErrors, Missing
    <- ApiMissing, absent <- apiAbsent, live <- apiLive, input <- apiInput, req <- apiReq,
    effects <- apiEffects, performed <- apiPerformed

Repeating == INSTANCE ApiRequest WITH
    Requests <- Requests, Inputs <- RepeatedInputs, Owner <- ApiOwner, Errors <-
    {Api!New("state_conflict", "contact_support")}, Missing <- {{}}, absent <- apiAbsent,
    live <- apiLive, input <- apiInput, req <- apiReq, effects <- apiEffects, performed <-
    apiPerformed

Recording == INSTANCE ObservedCalls WITH
    Codes <- Api!Codes, StatusOf <- Api!StatusOf, Requests <- Requests, Routes <-
    ObservedRoutes, Outcomes <- ObservedOutcomes, request <- observedRequest, cryptoChecks
    <- observedCryptoChecks, securityEvents <- observedSecurityEvents, requests <-
    observedRequests, verdicts <- observedVerdicts

Loading == INSTANCE Configuration WITH
    Environments <- ConfEnvironments, env <- confEnv, phase <- confPhase, cfg <- confCfg

Signing == INSTANCE ConfigSigner WITH
    Callers <- {"q1", "q2"}, MaxCalls <- 1, caller <- signerCaller, worker <- signerWorker,
    closed <- signerClosed, done <- signerDone

Reporting == INSTANCE ErrorReporter WITH
    Reports <- {"q1", "q2", "q3"}, InvalidReports <- {"q3"}, Capacity <- 1, BatchMax <- 2,
    Closers <- {"c1", "c2"}, ImpatientClosers <- {"c2"}, queue <- reportQueue, open <-
    reportOpen, accepting <- reportAccepting, readers <- reportReaders, called <-
    reportCalled, answered <- reportAnswered, recorded <- reportRecorded, worker <-
    reportWorker, batch <- reportBatch, queueClosed <- reportQueueClosed, cancelled <-
    reportCancelled, closer <- reportCloser, once <- reportOnce, deadline <- reportDeadline,
    panicked <- reportPanicked

Draining == INSTANCE ErrorReporter WITH
    Reports <- {"q1", "q2"}, InvalidReports <- {}, Capacity <- 2, BatchMax <- 2, Closers <-
    {"c1", "c2"}, ImpatientClosers <- {"c2"}, queue <- reportQueue, open <- reportOpen,
    accepting <- reportAccepting, readers <- reportReaders, called <- reportCalled, answered
    <- reportAnswered, recorded <- reportRecorded, worker <- reportWorker, batch <-
    reportBatch, queueClosed <- reportQueueClosed, cancelled <- reportCancelled, closer <-
    reportCloser, once <- reportOnce, deadline <- reportDeadline, panicked <- reportPanicked

Granting == INSTANCE MigrationGrants WITH
    Workers <- {"q1", "q2"}, UpIds <- GrantUpIds, DownIds <- GrantDownIds, UpFactsOf <-
    GrantUpFacts, DownFactsOf <- GrantDownFacts, MaxTime <- 1, MaxTx <- 1, MaxRows <- 1,
    Lifetime <- 1, now <- grantNow, db <- grantDb, lock <- grantLock, txs <- grantTxs, run
    <- grantRun, consumed <- grantConsumed, issued <- grantIssued, history <- grantHistory

Staging == INSTANCE ClientStore WITH
    Processes <- {"q1", "q2"}, Versions <- {1, 2}, MaxEntries <- 8, MaxFaults <- 0, stage <-
    storeStage, active <- storeActive, temps <- storeTemps, disk <- storeDisk, unsynced <-
    storeUnsynced, torn <- storeTorn, proc <- storeProc, accepted <- storeAccepted, faults
    <- storeFaults

-----------------------------------------------------------------------------
ScenarioInit ==
    /\ scenario \in Scenarios
    /\ CASE scenario = "calls" -> Calling!Init
         [] scenario = "stopping" -> Stopping!Init
         [] scenario = "scrapes" -> Scraping!Init
         [] OTHER -> Calling!Init
    /\ CASE scenario = "redis" -> WindowOf!Init
         [] scenario = "probes" -> Probing!Init
         [] OTHER -> /\ serviceUp = 0 /\ serviceClock = 0 /\ serviceRows = 0 /\ serviceWriter = 0
                     /\ servicePhase = 0 /\ serviceExpired = 0 /\ serviceChecks = 0 /\ serviceReady = 0
                     /\ serviceProbe = 0 /\ serviceOutcome = 0 /\ serviceNow = 0 /\ serviceRedis = 0
                     /\ serviceBegan = 0 /\ serviceMet = 0 /\ serviceRecent = 0
    /\ CASE scenario = "ready" -> Whole!ReadinessInit
         [] scenario = "restore" -> Restoring!ReadinessInit
         [] OTHER -> /\ checkProv = 0 /\ checkNextSeq = 0 /\ checkDb = 0 /\ checkEffect = 0
                     /\ checkLsn = 0 /\ checkBackup = 0 /\ checkBackups = 0 /\ checkRestores = 0
                     /\ checkChk = 0
    /\ CASE scenario = "fields" -> Protecting!Init
         [] scenario = "closing" -> Closing!Init
         [] OTHER -> Protecting!Init
    /\ CASE scenario = "request" -> Handling!Init
         [] scenario = "unwired" -> Lacking!Init
         [] scenario = "repeat" -> Repeating!Init
         [] OTHER -> /\ apiAbsent = 0 /\ apiLive = 0 /\ apiInput = 0 /\ apiReq = 0
                     /\ apiEffects = 0 /\ apiPerformed = 0
    /\ IF scenario = "observed" THEN Recording!Init
       ELSE /\ observedRequest = 0 /\ observedCryptoChecks = 0 /\ observedSecurityEvents = 0 /\ observedRequests = 0
            /\ observedVerdicts = 0
    /\ IF scenario = "configuration" THEN Loading!Init
       ELSE /\ confEnv = 0 /\ confPhase = 0 /\ confCfg = 0
    /\ IF scenario = "signer" THEN Signing!Init
       ELSE Signing!Init
    /\ CASE scenario = "reports" -> Reporting!Init
         [] scenario = "drain" -> Draining!Init
         [] OTHER -> Reporting!Init
    /\ IF scenario = "grants" THEN Granting!Init
       ELSE Granting!Init
    /\ IF scenario = "staging" THEN Staging!Init
       ELSE Staging!Init

ScenarioNext ==
    /\ UNCHANGED scenario
    /\ \/ scenario = "calls" /\ Calling!Next
          /\ UNCHANGED <<serviceVars, checkVars, fieldVars, apiVars, observedVars, confVars, signerVars, reportVars, grantVars, storeVars>>
       \/ scenario = "stopping" /\ Stopping!Next /\ OneServerFails
          /\ UNCHANGED <<serviceVars, checkVars, fieldVars, apiVars, observedVars, confVars, signerVars, reportVars, grantVars, storeVars>>
       \/ scenario = "scrapes" /\ Scraping!Next /\ PublisherRests
          /\ UNCHANGED <<serviceVars, checkVars, fieldVars, apiVars, observedVars, confVars, signerVars, reportVars, grantVars, storeVars>>
       \/ scenario = "redis" /\ WindowOf!Next
          /\ UNCHANGED <<processVars, checkVars, fieldVars, apiVars, observedVars, confVars, signerVars, reportVars, grantVars, storeVars>>
       \/ scenario = "probes" /\ Probing!Next
          /\ UNCHANGED <<processVars, checkVars, fieldVars, apiVars, observedVars, confVars, signerVars, reportVars, grantVars, storeVars>>
       \/ scenario = "ready" /\ Whole!ReadinessNext /\ BothReserved
          /\ UNCHANGED <<processVars, serviceVars, fieldVars, apiVars, observedVars, confVars, signerVars, reportVars, grantVars, storeVars>>
       \/ scenario = "restore" /\ Restoring!ReadinessNext
          /\ UNCHANGED <<processVars, serviceVars, fieldVars, apiVars, observedVars, confVars, signerVars, reportVars, grantVars, storeVars>>
       \/ scenario = "fields" /\ Protecting!Next
          /\ UNCHANGED <<processVars, serviceVars, checkVars, apiVars, observedVars, confVars, signerVars, reportVars, grantVars, storeVars>>
       \/ scenario = "closing" /\ Closing!Next
          /\ UNCHANGED <<processVars, serviceVars, checkVars, apiVars, observedVars, confVars, signerVars, reportVars, grantVars, storeVars>>
       \/ scenario = "request" /\ Handling!Next
          /\ UNCHANGED <<processVars, serviceVars, checkVars, fieldVars, observedVars, confVars, signerVars, reportVars, grantVars, storeVars>>
       \/ scenario = "unwired" /\ Lacking!Next
          /\ UNCHANGED <<processVars, serviceVars, checkVars, fieldVars, observedVars, confVars, signerVars, reportVars, grantVars, storeVars>>
       \/ scenario = "repeat" /\ Repeating!Next
          /\ UNCHANGED <<processVars, serviceVars, checkVars, fieldVars, observedVars, confVars, signerVars, reportVars, grantVars, storeVars>>
       \/ scenario = "observed" /\ Recording!Next
          /\ UNCHANGED <<processVars, serviceVars, checkVars, fieldVars, apiVars, confVars, signerVars, reportVars, grantVars, storeVars>>
       \/ scenario = "configuration" /\ Loading!Next
          /\ UNCHANGED <<processVars, serviceVars, checkVars, fieldVars, apiVars, observedVars, signerVars, reportVars, grantVars, storeVars>>
       \/ scenario = "signer" /\ Signing!Next
          /\ UNCHANGED <<processVars, serviceVars, checkVars, fieldVars, apiVars, observedVars, confVars, reportVars, grantVars, storeVars>>
       \/ scenario = "reports" /\ Reporting!Next
          /\ UNCHANGED <<processVars, serviceVars, checkVars, fieldVars, apiVars, observedVars, confVars, signerVars, grantVars, storeVars>>
       \/ scenario = "drain" /\ Draining!Next
          /\ UNCHANGED <<processVars, serviceVars, checkVars, fieldVars, apiVars, observedVars, confVars, signerVars, grantVars, storeVars>>
       \/ scenario = "grants" /\ Granting!Next
          /\ UNCHANGED <<processVars, serviceVars, checkVars, fieldVars, apiVars, observedVars, confVars, signerVars, reportVars, storeVars>>
       \/ scenario = "staging" /\ Staging!Next
          /\ UNCHANGED <<processVars, serviceVars, checkVars, fieldVars, apiVars, observedVars, confVars, signerVars, reportVars, grantVars>>

scenarioVars == <<scenario, processVars, serviceVars, checkVars, fieldVars, apiVars, observedVars, confVars, signerVars, reportVars, grantVars, storeVars>>

ScenarioSpec == ScenarioInit /\ [][ScenarioNext]_scenarioVars

-----------------------------------------------------------------------------
(* Whatever start-up step failed and whatever deadline passed, everything  *)
(* that was opened has been closed when the process returns.               *)
NothingLeaked ==
    /\ scenario = "calls" => Calling!NothingLeaked
    /\ scenario = "stopping" => Stopping!NothingLeaked
    /\ scenario = "scrapes" => Scraping!NothingLeaked

(* What a call or a worker uses is open while it is at work, unless the    *)
(* deadline it was given has passed.                                       *)
OpenWhileUsed ==
    /\ scenario = "calls" => Calling!OpenWhileUsed
    /\ scenario = "stopping" => Stopping!OpenWhileUsed
    /\ scenario = "scrapes" => Scraping!OpenWhileUsed

(* A shutdown that reports no error has waited for both workers, and an    *)
(* error of the intake is not replaced by the publisher's answer.          *)
CleanCloseIsComplete ==
    /\ scenario = "calls" => Calling!CleanCloseIsComplete
    /\ scenario = "stopping" => Stopping!CleanCloseIsComplete
    /\ scenario = "scrapes" => Scraping!CleanCloseIsComplete

(* The process reports success only if it was told to stop and cut no call *)
(* off: a server that fails by itself makes the process fail.              *)
SuccessMeansAsked ==
    /\ scenario = "calls" => Calling!SuccessMeansAsked
    /\ scenario = "stopping" => Stopping!SuccessMeansAsked
    /\ scenario = "scrapes" => Scraping!SuccessMeansAsked

(* However overlapping checks record their results, Redis is down exactly  *)
(* when the last results are failures enough, and up exactly when the last *)
(* ones are successes enough.                                              *)
RedisFollowsItsWindow == scenario = "redis" => WindowOf!RedisFollowsItsWindow

(* A check that answers ready found the database and the authority up, and *)
(* the outbox below its limits, at some moment between its start and its   *)
(* answer.                                                                 *)
ReadyWasTrue == scenario = "probes" => Probing!ReadyWasTrue

(* CheckReady answers ready only if, when it read the database head, the   *)
(* database held every decision the provider had taken up to the provider  *)
(* head, each with the provider's receipt, and the effect of every         *)
(* committed operation: no restore that lost one goes unnoticed.           *)
ReadyMeansWhole ==
    /\ scenario = "ready" => Whole!ReadyMeansWhole
    /\ scenario = "restore" => Restoring!ReadyMeansWhole

(* An operation that the provider aborted although its effect was written  *)
(* is never reported as merely unresolved while its row is pending.        *)
SplitIsReported ==
    /\ scenario = "ready" => Whole!SplitIsReported
    /\ scenario = "restore" => Restoring!SplitIsReported

(* No digest is answered and no field is stored under keys that were       *)
(* already erased, whatever a call had checked before the protector was    *)
(* closed.                                                                 *)
NothingUnderErasedKeys == scenario = "fields" => Protecting!NothingUnderErasedKeys

(* Equal digests are of the same value in the same domain: no value of one *)
(* domain looks up a row that another domain stored.                       *)
DigestsSeparateDomains == scenario = "fields" => Protecting!DigestsSeparateDomains

(* What a decryption answers was encrypted for the domain that asks, by a  *)
(* key of this version.                                                    *)
OpensOnlyItsDomain == scenario = "fields" => Protecting!OpensOnlyItsDomain

(* A call is observed once, with the result that its caller sees.          *)
ObservedOnce == scenario = "fields" => Protecting!ObservedOnce

(* A command is called only for a request that the published contract      *)
(* admits, its key, its media type, every required member and exactly one  *)
(* of the forms, or would admit without members that are null or empty     *)
(* strings, and with {} for a null body.                                   *)
AdmittedMeetsContract ==
    /\ scenario = "request" => Handling!AdmittedMeetsContract
    /\ scenario = "unwired" => Lacking!AdmittedMeetsContract
    /\ scenario = "repeat" => Repeating!AdmittedMeetsContract

(* The principal of a command is the owner of the credential the request   *)
(* presented, of the kind the contract's security scheme names; an         *)
(* operation without a scheme acts for no principal.                       *)
CommandsAreAuthorized ==
    /\ scenario = "request" => Handling!CommandsAreAuthorized
    /\ scenario = "unwired" => Lacking!CommandsAreAuthorized
    /\ scenario = "repeat" => Repeating!CommandsAreAuthorized

(* Whatever an application answers, classified or not, the client sees a   *)
(* status of the contract, and with an error a code, an action, a delay    *)
(* and a trace of the published schema.                                    *)
AnswersAreContracted ==
    /\ scenario = "request" => Handling!AnswersAreContracted
    /\ scenario = "unwired" => Lacking!AnswersAreContracted
    /\ scenario = "repeat" => Repeating!AnswersAreContracted

(* An answer that blames the request's input means that the request did    *)
(* nothing, even if an earlier step of it could have: an application has   *)
(* not run, or has refused before its effect.                              *)
InputErrorsMeanNothingHappened ==
    /\ scenario = "request" => Handling!InputErrorsMeanNothingHappened
    /\ scenario = "unwired" => Lacking!InputErrorsMeanNothingHappened
    /\ scenario = "repeat" => Repeating!InputErrorsMeanNothingHappened

(* Requests of one command for one party under one key take effect once,   *)
(* however they are interleaved and whatever answers were lost; only       *)
(* device challenges keep no record.                                       *)
OneEffectPerKey == scenario = "repeat" => Repeating!OneEffectPerKey

(* A replay or a conflict comes from an earlier request of the same        *)
(* command and the same party: one account's keys never answer for         *)
(* another's.                                                              *)
ReplaysAreOwn == scenario = "repeat" => Repeating!ReplaysAreOwn

(* An answer of the device application or of the signer has a value or an  *)
(* error and never both, and its error is one that the API knows, whatever *)
(* the provider did.                                                       *)
AnswersAreClean == scenario = "observed" => Recording!AnswersAreClean

(* The counters of verifications are the verifications that took place:    *)
(* each is counted once, with the verdict that its caller saw, also where  *)
(* the provider panicked or the request failed afterwards.                 *)
VerificationsAreCounted == scenario = "observed" => Recording!VerificationsAreCounted

(* The status that the middleware records is the one that the client got.  *)
RecordedIsSent == scenario = "observed" => Recording!RecordedIsSent

(* The security counters of an operation are the answers of its requests.  *)
SecurityEventsAreAnswers == scenario = "observed" => Recording!SecurityEventsAreAnswers

(* No request that was answered with success had a verification that       *)
(* failed, and where the route authorises with a token one passed.         *)
SuccessWasVerified == scenario = "observed" => Recording!SuccessWasVerified

(* A process that is open works with the local adapters it really has,     *)
(* holds its four keys, and its thresholds are in order; no production     *)
(* process opens, since its adapters do not exist yet.                     *)
OpensWithWhatItHas == scenario = "configuration" => Loading!OpensWithWhatItHas

(* A production process that lacks only its adapters has HTTPS everywhere, *)
(* the origins included, which Load takes unchecked when none is           *)
(* configured.                                                             *)
ProductionIsHTTPS == scenario = "configuration" => Loading!ProductionIsHTTPS

(* The three places a bundle is read from differ in scheme or host, with   *)
(* the path "/" or without; nothing else of the spelling is normalised.    *)
BundlePlacesDiffer == scenario = "configuration" => Loading!BundlePlacesDiffer

(* A production configuration is loaded only when no local key is in the   *)
(* environment.                                                            *)
ProductionHasNoLocalKeys == scenario = "configuration" => Loading!ProductionHasNoLocalKeys

(* A batch of error reports fits the queue, whichever of the two is        *)
(* configured.                                                             *)
BatchFitsQueue == scenario = "configuration" => Loading!BatchFitsQueue

(* A caller never gets the signature of another message: not one that the  *)
(* provider returned after the deadline of an earlier call.                *)
SignaturesAreOwn == scenario = "signer" => Signing!SignaturesAreOwn

(* No report is sent on the closed queue, which would end the process:     *)
(* Close waits for the senders that saw the reporter accepting.            *)
NeverPanics ==
    /\ scenario = "reports" => Reporting!NeverPanics
    /\ scenario = "drain" => Draining!NeverPanics

(* Every report is told to the observer at most once, and an accepted one  *)
(* is in the queue, in the worker's batch or told: none is lost or         *)
(* delivered twice.                                                        *)
AccountedOnce ==
    /\ scenario = "reports" => Reporting!AccountedOnce
    /\ scenario = "drain" => Draining!AccountedOnce

(* When the worker has ended, nothing accepted is left behind: a report    *)
(* still in the queue at the deadline is told as dropped.                  *)
NothingLeftBehind ==
    /\ scenario = "reports" => Reporting!NothingLeftBehind
    /\ scenario = "drain" => Draining!NothingLeftBehind

(* The steps that the processes keep taking, as the components state it, by*)
(* scenario: a weak fairness condition each.                               *)
movingVars == <<processVars, signerVars, reportVars, fieldVars, grantVars, storeVars>>

FairStep(i) ==
    \/ /\ scenario = "stopping"
       /\ \/ i = 1 /\ Stopping!Main
          \/ i = 2 /\ Stopping!HttpDeadline
          \/ i = 3 /\ Stopping!CloseDeadline
          \/ i = 4 /\ Stopping!QueryEnds("intake")
          \/ i = 5 /\ Stopping!QueryEnds("publisher")
          \/ i = 6 /\ Stopping!QueryEnds("q1")
       /\ UNCHANGED <<signerVars, reportVars, fieldVars, grantVars, storeVars>>
    \/ /\ scenario = "signer"
       /\ \/ i = 1 /\ Signing!WorkerCheck
          \/ i = 2 /\ (\E c \in {"q1", "q2"} : Signing!Deliver(c) \/ Signing!HandOver(c))
          \/ i = 3 /\ Signing!Drop
          \/ i = 4 /\ Signing!WorkerStop
          \/ i = 5 /\ Signing!CloseDone
          \/ i = 6 /\ Signing!Expire("q1")
          \/ i = 7 /\ (Signing!GiveUpOffer("q1") \/ Signing!GiveUpWait("q1"))
          \/ i = 8 /\ Signing!Expire("q2")
          \/ i = 9 /\ (Signing!GiveUpOffer("q2") \/ Signing!GiveUpWait("q2"))
       /\ UNCHANGED <<processVars, reportVars, fieldVars, grantVars, storeVars>>
    \/ /\ scenario = "reports"
       /\ \/ i = 1 /\ Reporting!Run
          \/ i = 2 /\ Reporting!Deadline
          \/ i = 3 /\ Reporting!Send("q1")
          \/ i = 4 /\ Reporting!Send("q2")
          \/ i = 5 /\ Reporting!Send("q3")
          \/ i = 6 /\ (reportCloser["c1"] # "idle" /\ Reporting!Close("c1"))
          \/ i = 7 /\ (reportCloser["c2"] # "idle" /\ Reporting!Close("c2"))
       /\ UNCHANGED <<processVars, signerVars, fieldVars, grantVars, storeVars>>
    \/ /\ scenario = "drain"
       /\ \/ i = 1 /\ Draining!Run
          \/ i = 2 /\ Draining!Deadline
          \/ i = 3 /\ Draining!Send("q1")
          \/ i = 4 /\ Draining!Send("q2")
          \/ i = 5 /\ (reportCloser["c1"] # "idle" /\ Draining!Close("c1"))
          \/ i = 6 /\ (reportCloser["c2"] # "idle" /\ Draining!Close("c2"))
          \/ i = 7 /\ Draining!ProviderAnswers
       /\ UNCHANGED <<processVars, signerVars, fieldVars, grantVars, storeVars>>
    \/ /\ scenario = "closing"
       /\ \/ i = 1 /\ (Closing!CloseLocked \/ Closing!CloseEnd)
          \/ i = 2 /\ (Closing!Refuse("q1") \/ Closing!RLock("q1") \/ Closing!Compute("q1") \/ Closing!Release("q1"))
          \/ i = 3 /\ (Closing!Refuse("q2") \/ Closing!RLock("q2") \/ Closing!Compute("q2") \/ Closing!Release("q2"))
       /\ UNCHANGED <<processVars, signerVars, reportVars, grantVars, storeVars>>
    \/ /\ scenario = "grants"
       /\ \/ i = 1 /\ Granting!Step("q1")
          \/ i = 2 /\ Granting!Step("q2")
       /\ UNCHANGED <<processVars, signerVars, reportVars, fieldVars, storeVars>>
    \/ /\ scenario = "staging"
       /\ \/ i = 1 /\ Staging!StageAndAdvance("q1")
          \/ i = 2 /\ Staging!Activate("q1")
          \/ i = 3 /\ (Staging!LoadMarker("q1") \/ Staging!LoadActiveEnd("q1"))
          \/ i = 4 /\ Staging!StageAndAdvance("q2")
          \/ i = 5 /\ Staging!Activate("q2")
          \/ i = 6 /\ (Staging!LoadMarker("q2") \/ Staging!LoadActiveEnd("q2"))
       /\ UNCHANGED <<processVars, signerVars, reportVars, fieldVars, grantVars>>

ScenarioFairSpec == ScenarioSpec /\ \A i \in 1..9 : WF_movingVars(FairStep(i))

(* A process that is told to stop, or one of whose servers fails, returns, *)
(* even if a call outside the database never ends.                         *)
Stops == scenario = "stopping" => Stopping!Stops

(* Every call returns, also while the provider is stuck in another one.    *)
CallsReturn == scenario = "signer" => Signing!CallsReturn

(* After Close the worker ends, or it is stuck in the provider.            *)
WorkerEnds == scenario = "signer" => Signing!WorkerEnds

(* A provider that returns late has its result dropped: the worker serves  *)
(* the next call.                                                          *)
WorkerRecovers == scenario = "signer" => Signing!WorkerRecovers

(* A closer with a deadline returns, even if the provider never answers.   *)
CloseReturns == scenario = "reports" => Reporting!CloseReturns

(* If the provider answers, the worker ends after Close and every closer   *)
(* returns.                                                                *)
DrainsWhenProviderAnswers == scenario = "drain" => Draining!DrainsWhenProviderAnswers

(* Closing is never starved by calls: it waits for those that hold the     *)
(* lock and keeps others out.                                              *)
CloseFinishes == scenario = "closing" => Closing!CloseFinishes

(* The exclusive catalog lock, held while the authorizer is asked, is      *)
(* released.                                                               *)
LockIsReleased == scenario = "grants" => Granting!LockIsReleased

(* Without faults the highest version staged always becomes the one that   *)
(* is served, however many processes race.                                 *)
StagedIsServed == scenario = "staging" => Staging!StagedIsServed

(* Whatever fails while the process starts or stops, it leaks nothing,     *)
(* uses nothing that is closed within its deadlines, and reports success   *)
(* only for a complete stop that was asked for.                            *)
ProcessIsSafe ==
    /\ NothingLeaked
    /\ OpenWhileUsed
    /\ CleanCloseIsComplete
    /\ SuccessMeansAsked

(* A check that answers ready was right at some moment while it ran, in    *)
(* both processes, and a restore that lost a decision is noticed.          *)
ReadinessIsTrue ==
    /\ RedisFollowsItsWindow
    /\ ReadyWasTrue
    /\ ReadyMeansWhole
    /\ SplitIsReported

(* Fields are digested and encrypted for one domain, under keys that are   *)
(* not erased, however calls race with Close.                              *)
FieldsAreSafe ==
    /\ NothingUnderErasedKeys
    /\ DigestsSeparateDomains
    /\ OpensOnlyItsDomain
    /\ ObservedOnce

(* A request runs its command only as the contract, read without null and  *)
(* empty members, and its credential allow, once for each key of its       *)
(* party, and its answer is in the contract and true.                      *)
RequestsAreSound ==
    /\ AdmittedMeetsContract
    /\ CommandsAreAuthorized
    /\ AnswersAreContracted
    /\ InputErrorsMeanNothingHappened
    /\ OneEffectPerKey
    /\ ReplaysAreOwn

(* What is counted and recorded is what happened and what the client got,  *)
(* also where a provider panics.                                           *)
ObservationIsTrue ==
    /\ AnswersAreClean
    /\ VerificationsAreCounted
    /\ RecordedIsSent
    /\ SecurityEventsAreAnswers
    /\ SuccessWasVerified

(* No environment opens a process with adapters, keys, origins, places or  *)
(* thresholds other than its profile allows.                               *)
ConfigurationIsSound ==
    /\ OpensWithWhatItHas
    /\ ProductionIsHTTPS
    /\ BundlePlacesDiffer
    /\ ProductionHasNoLocalKeys
    /\ BatchFitsQueue

(* However senders, closers and the worker race, no report is sent on a    *)
(* closed queue, lost or told twice.                                       *)
ReportsAreKept ==
    /\ NeverPanics
    /\ AccountedOnce
    /\ NothingLeftBehind

(* What has begun ends, under the fairness of each component: stopping,    *)
(* calls, workers, closing, locks, and the staging of a version.           *)
EverythingEnds ==
    /\ Stops
    /\ CallsReturn
    /\ WorkerEnds
    /\ WorkerRecovers
    /\ CloseReturns
    /\ DrainsWhenProviderAnswers
    /\ CloseFinishes
    /\ LockIsReleased
    /\ StagedIsServed
=============================================================================
