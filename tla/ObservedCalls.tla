---------------------------- MODULE ObservedCalls ----------------------------
(***************************************************************************)
(* What the metrics of the control API say of its requests: the decorators *)
(* of the device application and of the config signer, which contain a     *)
(* panic, collapse an error and report every verification, the runtime     *)
(* observer and the registry that filter the reports, and the middleware   *)
(* that reads the status off the response writer.                          *)
(*                                                                         *)
(* A request makes the calls of its route until one fails, it needs no     *)
(* more of them (a replay, a bundle that is still current) or it fails of  *)
(* itself, and then writes a response; or its handler panics and nothing   *)
(* is written.                                                             *)
(***************************************************************************)
EXTENDS Integers, Sequences, FiniteSets, SequencesExt, Functions

CONSTANTS
    Codes, StatusOf(_), \* the codes of ApiRequest, and the status of each
    Requests, Routes,
    Outcomes            \* of a delegate: a value and an error, both or either
VARIABLES
    request,
    cryptoChecks,       \* counters by <<operation, result, reason>>
    securityEvents,     \* counters by <<operation, result, reason>>
    requests,           \* counters by <<route, status class>>
    verdicts            \* the verifications that took place: <<request, operation, passed>>
vars == <<request, cryptoChecks, securityEvents, requests, verdicts>>

\* The calls of a route on the device application and on the signer, in order.
DeviceCalls(route) ==
    CASE route = "POST /v1/devices" -> <<"RegisterDevice">>
      [] route = "POST /v1/device-token-rotations" -> <<"RotateDeviceToken">>
      [] route = "POST /v1/device-revocations" -> <<"RevokeDevice">>
      [] route = "POST /v1/device-auth-challenges" -> <<"CreateChallenge">>
      [] route = "POST /v1/config-bundle-resolutions" -> <<"Authenticate", "AuthorizeBundleInTransaction", "Sign">>
      [] route = "POST /v1/config-bundle-acknowledgements" -> <<"Authenticate", "AuthorizeBundleInTransaction">>
      [] OTHER -> <<>>
ProofCalls == {"RegisterDevice", "RotateDeviceToken"}
TokenCalls == {"AuthorizeBundle", "Authenticate", "AuthorizeBundleInTransaction"}

NoAnswer == [value |-> "none", error |-> "none"]
Idle == [pc |-> "idle", route |-> "", calls |-> <<>>, proved |-> "unasked", answer |-> NoAnswer, writes |-> <<>>, status |-> 0, sent |-> 0, recorded |-> 0]
Init ==
    /\ request = [r \in Requests |-> Idle]
    /\ cryptoChecks = <<>> /\ securityEvents = <<>> /\ requests = <<>> /\ verdicts = {}

Count(counters, labels) == IF labels \in DOMAIN counters THEN counters[labels] ELSE 0
Inc(counters, labels) == [l \in DOMAIN counters \cup {labels} |-> IF l = labels THEN Count(counters, l) + 1 ELSE counters[l]]

---------------------------------------------------------------------------
\* The registry and the runtime observer accept the finite values of their tables only.
validCryptoOperation(operation) ==
    operation \in {"lookup", "encrypt", "decrypt", "token_verify", "proof_verify", "metadata_verify", "bundle_verify", "bundle_decrypt", "bundle_sign"}
validCryptoReason(reason) ==
    reason \in {"none", "malformed", "invalid", "expired", "revoked", "rollback", "key_unavailable", "wrong_domain"}
validMetricResult(result) == result \in {"success", "failure"}
RecordCrypto(counters, operation, result, reason) ==
    IF validCryptoOperation(operation) /\ validMetricResult(result) /\ validCryptoReason(reason)
      THEN Inc(counters, <<operation, result, reason>>) ELSE counters

validRuntimeCryptoOutcome(result, reason) ==
    (result = "success" /\ reason = "none") \/ (result = "failure" /\ reason # "none")
ObserveDeviceCrypto(counters, event) ==
    IF /\ event.operation \in {"token_verify", "proof_verify"} /\ event.reason \in {"none", "invalid", "key_unavailable"}
       /\ event.result \in {"success", "failure"} /\ validRuntimeCryptoOutcome(event.result, event.reason)
      THEN RecordCrypto(counters, event.operation, event.result, event.reason) ELSE counters
ObserveTrustCrypto(counters, event) ==
    IF /\ event.operation = "bundle_sign" /\ event.reason \in {"none", "key_unavailable"}
       /\ event.result \in {"success", "failure"} /\ validRuntimeCryptoOutcome(event.result, event.reason)
      THEN RecordCrypto(counters, "bundle_sign", event.result, event.reason) ELSE counters

---------------------------------------------------------------------------
\* The decorators. A panic leaves no value; an error that is not classified becomes
\* dependency_unavailable; an answer with an error keeps no value.
sanitizeObservedDeviceError(error) == IF error \in Codes \cup {"none"} THEN error ELSE "dependency_unavailable"
Contained(outcome) ==
    LET error == sanitizeObservedDeviceError(outcome.error)
    IN  [value |-> IF error = "none" THEN outcome.value ELSE "none", error |-> error]
SignContained(outcome) ==
    IF outcome.error = "none" THEN outcome ELSE [value |-> "none", error |-> "signing_unavailable"]

observedDeviceReason(error) ==
    IF error \in {"authentication_failed", "malformed_request", "action_not_allowed"} THEN "invalid" ELSE "key_unavailable"
TokenEvent(error) ==
    IF error = "none" THEN [operation |-> "token_verify", result |-> "success", reason |-> "none"]
    ELSE [operation |-> "token_verify", result |-> "failure", reason |-> observedDeviceReason(error)]
ProofEvent(verified) ==
    IF verified THEN [operation |-> "proof_verify", result |-> "success", reason |-> "none"]
    ELSE [operation |-> "proof_verify", result |-> "failure", reason |-> "invalid"]
SignEvent(error) ==
    IF error = "none" THEN [operation |-> "bundle_sign", result |-> "success", reason |-> "none"]
    ELSE [operation |-> "bundle_sign", result |-> "failure", reason |-> "key_unavailable"]

Begin(r) ==
    /\ request[r].pc = "idle"
    /\ \E route \in Routes : request' = [request EXCEPT ![r] = [Idle EXCEPT !.pc = "calling", !.route = route, !.calls = DeviceCalls(route)]]
    /\ UNCHANGED <<cryptoChecks, securityEvents, requests, verdicts>>

Calling(r, calls) == request[r].pc = "calling" /\ request[r].calls # <<>> /\ request[r].answer.error = "none" /\ Head(request[r].calls) \in calls
Answered(r, answer) == request' = [request EXCEPT ![r].answer = answer, ![r].proved = "unasked", ![r].calls = Tail(@)]

\* Registration and rotation verify the proof in the middle of their work, and report at that point.
VerifyProof(r) ==
    /\ Calling(r, ProofCalls) /\ request[r].proved = "unasked"
    /\ \E verified \in BOOLEAN :
        /\ request' = [request EXCEPT ![r].proved = IF verified THEN "verified" ELSE "refuted"]
        /\ cryptoChecks' = ObserveDeviceCrypto(cryptoChecks, ProofEvent(verified))
        /\ verdicts' = verdicts \cup {<<r, "proof_verify", verified>>}
    /\ UNCHANGED <<securityEvents, requests>>

\* A proof that is refuted fails the call; a replay answers tokens before any proof, and anything
\* else may fail before or after it.
ProofCall(r) ==
    /\ Calling(r, ProofCalls)
    /\ \E outcome \in Outcomes :
        /\ request[r].proved = "refuted" => outcome = [value |-> "none", error |-> "authentication_failed"]
        /\ Answered(r, Contained(outcome))
    /\ UNCHANGED <<cryptoChecks, securityEvents, requests, verdicts>>

PlainCall(r) ==
    /\ Calling(r, {"RevokeDevice", "CreateChallenge"})
    /\ \E outcome \in Outcomes : Answered(r, Contained(outcome))
    /\ UNCHANGED <<cryptoChecks, securityEvents, requests, verdicts>>

TokenCallBeforeRecovery(r) ==
    /\ Calling(r, TokenCalls)
    /\ \E outcome \in Outcomes :
        LET answer == Contained(outcome)
        IN  /\ Answered(r, answer)
            /\ cryptoChecks' = IF outcome.error = "panic" THEN cryptoChecks ELSE ObserveDeviceCrypto(cryptoChecks, TokenEvent(answer.error))
            /\ verdicts' = verdicts \cup {<<r, Head(request[r].calls), answer.error = "none">>}
    /\ UNCHANGED <<securityEvents, requests>>
TokenCall(r) ==
    /\ Calling(r, TokenCalls)
    /\ \E outcome \in Outcomes :
        LET answer == Contained(outcome)
        IN  /\ Answered(r, answer)
            /\ cryptoChecks' = ObserveDeviceCrypto(cryptoChecks, TokenEvent(answer.error))
            /\ verdicts' = verdicts \cup {<<r, Head(request[r].calls), answer.error = "none">>}
    /\ UNCHANGED <<securityEvents, requests>>

Sign(r) ==
    /\ Calling(r, {"Sign"})
    /\ \E outcome \in Outcomes :
        LET answer == SignContained(outcome)
        IN  /\ Answered(r, answer)
            /\ cryptoChecks' = ObserveTrustCrypto(cryptoChecks, SignEvent(answer.error))
            /\ verdicts' = verdicts \cup {<<r, "bundle_sign", answer.error = "none">>}
    /\ UNCHANGED <<securityEvents, requests>>

---------------------------------------------------------------------------
\* A write is a status, a body or a flush. What a handler writes: a header and a body, a header alone, an informational header before
\* them, a body alone, a second header that comes too late, or nothing at all.
Body == 1
Flush == 2
Writes(status) == {<<status, Body>>, <<status>>, <<103, status, Body>>, <<status, 500>>} \cup (IF status = 200 THEN {<<Body>>, <<Flush, 500>>, <<>>} ELSE {})
Failures == {400, 409, 503}
StatusesFor(r) ==
    LET calls == DeviceCalls(request[r].route)
    IN  IF request[r].route = "" THEN {404}
        ELSE IF request[r].answer.error # "none" THEN {StatusOf(request[r].answer.error)}
        ELSE Failures \cup (IF calls # <<>> /\ request[r].calls = calls THEN {}
                            ELSE IF request[r].route = "POST /v1/device-revocations" THEN {204} ELSE {200})
Respond(r) ==
    /\ request[r].pc = "calling" /\ request[r].proved = "unasked"
    /\ \E status \in StatusesFor(r) : \E writes \in Writes(status) :
        request' = [request EXCEPT ![r].pc = "writing", ![r].writes = writes, ![r].answer = NoAnswer, ![r].calls = <<>>]
    /\ UNCHANGED <<cryptoChecks, securityEvents, requests, verdicts>>

\* net/http sends the first final status, and 200 with a body that has none before it.
Sent(sent, write) ==
    IF sent # 0 THEN sent ELSE IF write \in {Body, Flush} THEN 200 ELSE IF write \in 100..199 THEN 0 ELSE write
Status(status, write) ==
    IF write \in {Body, Flush} THEN (IF status = 0 THEN 200 ELSE status)
    ELSE IF (write < 100 \/ write > 199) /\ status = 0 THEN write ELSE status
Write(r) ==
    /\ request[r].pc = "writing" /\ request[r].writes # <<>>
    /\ request' = [request EXCEPT ![r].writes = Tail(@), ![r].sent = Sent(@, Head(request[r].writes)),
                        ![r].status = Status(@, Head(request[r].writes))]
    /\ UNCHANGED <<cryptoChecks, securityEvents, requests, verdicts>>

securityOperationForPattern(pattern) ==
    CASE pattern \in {"POST /v1/accounts", "POST /v1/email-verification-deliveries", "POST /v1/email-verifications"} -> "account_register"
      [] pattern \in {"POST /v1/password-reset-deliveries", "POST /v1/password-resets", "POST /v1/recovery-code-consumptions"} -> "account_recovery"
      [] pattern \in {"POST /v1/password-changes", "POST /v1/account-sessions", "POST /v1/account-auth-challenges",
                      "POST /v1/account-token-rotations", "POST /v1/account-session-revocations",
                      "POST /v1/passkey-registration-options", "POST /v1/passkey-credentials",
                      "POST /v1/passkey-authentication-options", "POST /v1/passkey-revocations", "POST /v1/totp-enrollments",
                      "POST /v1/totp-verifications", "POST /v1/totp-revocations", "POST /v1/recovery-code-rotations"} -> "account_auth"
      [] pattern \in {"POST /v1/device-enrollment-grants", "POST /v1/device-auth-challenges", "POST /v1/devices"} -> "device_enroll"
      [] pattern = "POST /v1/device-token-rotations" -> "device_auth"
      [] pattern = "POST /v1/device-revocations" -> "device_revoke"
      [] pattern \in {"POST /v1/config-bundle-resolutions", "GET /b/{bundle_locator}"} -> "bundle_resolve"
      [] pattern = "POST /v1/config-bundle-acknowledgements" -> "bundle_ack"
      [] OTHER -> ""
securityResultForStatus(status) ==
    CASE status >= 200 /\ status < 300 -> <<"success", "none">>
      [] status \in {401, 403} -> <<"failure", "invalid_credential">>
      [] status = 409 -> <<"failure", "replay">>
      [] status = 429 -> <<"failure", "rate_limited">>
      [] status \in {502, 503, 504} -> <<"failure", "dependency">>
      [] OTHER -> <<"failure", "internal">>
recordSecurityOutcome(counters, pattern, status) ==
    LET operation == securityOperationForPattern(pattern)
    IN  IF operation = "" THEN counters ELSE Inc(counters, <<operation>> \o securityResultForStatus(status))
boundedRoute(route) == CASE route \in {"/livez", "GET /livez"} -> "/livez" [] route \in {"/readyz", "GET /readyz"} -> "/readyz" [] OTHER -> "unmatched"

Finish(r) ==
    LET status == IF request[r].status = 0 THEN 200 ELSE request[r].status
    IN  /\ request[r].pc = "writing" /\ request[r].writes = <<>>
        /\ securityEvents' = recordSecurityOutcome(securityEvents, request[r].route, status)
        /\ requests' = Inc(requests, <<boundedRoute(request[r].route), status \div 100>>)
        /\ request' = [request EXCEPT ![r].pc = "done", ![r].sent = IF @ = 0 THEN 200 ELSE @, ![r].recorded = status, ![r].status = 0]
        /\ UNCHANGED <<cryptoChecks, verdicts>>

\* A handler that panics outside the decorators: the middleware records nothing and the server closes the connection.
Abort(r) ==
    /\ request[r].pc \in {"calling", "writing"}
    /\ request' = [request EXCEPT ![r] = [Idle EXCEPT !.pc = "aborted"]]
    /\ UNCHANGED <<cryptoChecks, securityEvents, requests, verdicts>>

Next == \E r \in Requests :
    Begin(r) \/ VerifyProof(r) \/ ProofCall(r) \/ PlainCall(r) \/ TokenCall(r) \/ Sign(r) \/ Respond(r) \/ Write(r) \/ Finish(r) \/ Abort(r)
Spec == Init /\ [][Next]_vars

---------------------------------------------------------------------------
Total(counters, labels) == FoldFunctionOnSet(+, 0, counters, {l \in DOMAIN counters : l[1] = labels[1] /\ l[2] = labels[2]})
Finished == {r \in Requests : request[r].pc = "done"}
Succeeded(r) == request[r].sent \in 200..299

TypeOK ==
    /\ \A r \in Requests : request[r].pc \in {"idle", "calling", "writing", "done", "aborted"} /\ request[r].route \in Routes \cup {""}
    /\ \A r \in Requests : request[r].status \in {0} \cup 200..599
    /\ \A l \in DOMAIN cryptoChecks : (l[2] = "success") = (l[3] = "none")

\* An answer of the device application or of the signer has a value or an error and never both,
\* and its error is one that the API knows, whatever the provider did.
AnswersAreClean ==
    \A r \in Requests :
        /\ request[r].answer.error \in Codes \cup {"none"}
        /\ request[r].answer.error # "none" => request[r].answer.value = "none"

\* The counters of verifications are the verifications that took place: each is counted once, with the
\* verdict that its caller saw, also where the provider panicked or the request failed afterwards.
VerificationsAreCounted ==
    \A passed \in BOOLEAN :
        LET result == IF passed THEN "success" ELSE "failure"
        IN  /\ Total(cryptoChecks, <<"proof_verify", result>>) = Cardinality({v \in verdicts : v[2] = "proof_verify" /\ v[3] = passed})
            /\ Total(cryptoChecks, <<"token_verify", result>>) = Cardinality({v \in verdicts : v[2] \in TokenCalls /\ v[3] = passed})
            /\ Total(cryptoChecks, <<"bundle_sign", result>>) = Cardinality({v \in verdicts : v[2] = "bundle_sign" /\ v[3] = passed})

\* The status that the middleware records is the one that the client got.
RecordedIsSent == \A r \in Finished : request[r].recorded = request[r].sent

\* The security counters of an operation are the answers of its requests.
SecurityEventsAreAnswers ==
    \A operation \in {"device_enroll", "device_auth", "device_revoke", "bundle_resolve", "bundle_ack"} :
        LET of == {r \in Finished : securityOperationForPattern(request[r].route) = operation}
        IN  /\ Total(securityEvents, <<operation, "success">>) = Cardinality({r \in of : Succeeded(r)})
            /\ Total(securityEvents, <<operation, "failure">>) = Cardinality({r \in of : ~Succeeded(r)})

\* No request that was answered with success had a verification that failed, and where the route
\* authorises with a token one passed.
SuccessWasVerified ==
    \A r \in Finished : Succeeded(r) =>
        /\ \A v \in verdicts : v[1] = r => v[3]
        /\ "Authenticate" \in Range(DeviceCalls(request[r].route)) => <<r, "Authenticate", TRUE>> \in verdicts
=============================================================================
