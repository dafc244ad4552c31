----------------------------- MODULE ApiRequest -----------------------------
(***************************************************************************)
(* Requests to the control API against applications that keep an           *)
(* idempotency record for every key. Credentials are revoked, deadlines    *)
(* pass and answers of an application are lost at any step; two requests   *)
(* with the same input are a client's request and its repetition.          *)
(***************************************************************************)
EXTENDS Integers, Sequences, FiniteSets, FiniteSetsExt

(***************************************************************************)
(* The errors of the control API: the finite codes and actions, the        *)
(* constructors that fail closed, the public projection and the status. An *)
(* error is a record; the zero value of the Go type has the code "", and   *)
(* Unclassified stands for any error that is not of this type.             *)
(***************************************************************************)

Codes == {"malformed_request", "authentication_failed", "action_not_allowed", "idempotency_conflict", "state_conflict",
          "version_rollback", "request_too_large", "unsupported_schema", "rate_limited", "dependency_unavailable",
          "signing_unavailable"}
Actions == {"retry", "reauthenticate", "reenroll", "upgrade_client", "contact_support"}
validCode(code) == code \in Codes
validAction(action) == action \in Actions

ZeroError == [code |-> "", action |-> "", retry |-> 0]
Unclassified == [code |-> "unclassified", action |-> "", retry |-> 0]

fallbackError == [code |-> "dependency_unavailable", action |-> "contact_support", retry |-> 0]
New(code, action) ==
    IF validCode(code) /\ validAction(action) THEN [code |-> code, action |-> action, retry |-> 0] ELSE fallbackError
NewRetryAfter(code, action, ms) ==
    IF validCode(code) /\ action = "retry" /\ ms >= 1 /\ ms <= 10000
      THEN [code |-> code, action |-> action, retry |-> ms]
      ELSE fallbackError

categoryFor(code) ==
    CASE code \in {"malformed_request", "request_too_large", "unsupported_schema"} -> "input"
      [] code = "authentication_failed" -> "authentication"
      [] code = "action_not_allowed" -> "authorization"
      [] code \in {"idempotency_conflict", "state_conflict", "version_rollback"} -> "conflict"
      [] code = "rate_limited" -> "rate limit"
      [] code = "signing_unavailable" -> "signing"
      [] OTHER -> "dependency"

\* A trace identifier is its length: 16 random bytes in base64, or the fixed text.
TraceUnavailable == 17
traceID(random) == IF random THEN 22 ELSE TraceUnavailable
validTraceID(trace) == trace >= 16 /\ trace <= 64

Public(err, trace) ==
    LET known == validCode(err.code) /\ validAction(err.action)
        shown == IF known THEN err ELSE fallbackError
    IN  [code |-> shown.code, action |-> shown.action,
         retry |-> IF err.retry >= 1 /\ err.retry <= 10000 THEN err.retry ELSE 0,
         trace |-> IF validTraceID(trace) THEN trace ELSE TraceUnavailable]

StatusOf(code) ==
    CASE code = "malformed_request" -> 400
      [] code = "authentication_failed" -> 401
      [] code = "action_not_allowed" -> 403
      [] code \in {"idempotency_conflict", "state_conflict", "version_rollback"} -> 409
      [] code = "request_too_large" -> 413
      [] code = "unsupported_schema" -> 415
      [] code = "rate_limited" -> 429
      [] OTHER -> 503
writeError(err, random) ==
    LET classified == IF err = Unclassified THEN New("dependency_unavailable", "contact_support") ELSE err
        public == Public(classified, traceID(random))
    IN  [status |-> StatusOf(public.code), error |-> public]

malformedRequestError == New("malformed_request", "contact_support")
authenticationFailedError == New("authentication_failed", "reauthenticate")
dependencyUnavailableError == New("dependency_unavailable", "retry")

(***************************************************************************)
(* What api/openapi/control-api.v1.yaml says of each operation: its        *)
(* security scheme, the required members of its request body, the bodies   *)
(* that are one of several forms, and the status of a success.             *)
(***************************************************************************)

ErrorStatuses == {400, 401, 403, 409, 413, 415, 429, 503}

Operation(security, required, forms, reauth, success) ==
    [security |-> security, required |-> required, forms |-> forms, reauth |-> reauth, success |-> success]

\* A form is the members it requires with the values that suit it; no other member may be present,
\* not even as null or as an empty string (additionalProperties is false).
ReauthForms ==
    { [method |-> "password", password |-> "good"],
      [method |-> "totp", code |-> "totp"],
      [method |-> "passkey", ceremony_id |-> "good", response |-> "good"],
      [method |-> "recovery_code", code |-> "recovery"] }
SessionForms ==
    { [method |-> "password", email |-> "good", password |-> "good"],
      [method |-> "passkey", ceremony_id |-> "good", response |-> "good"] }
ChallengeForms ==
    { [enrollment_grant |-> "good", signing_public_key |-> "good", hpke_public_key |-> "good"],
      [refresh_token |-> "good"] }
RevocationForms == { [scope |-> "all"], [scope |-> "others"], [scope |-> "one", session_id |-> "good"] }

Matches(body, form) ==
    /\ DOMAIN form \subseteq DOMAIN body
    /\ \A f \in DOMAIN body : body[f] = IF f \in DOMAIN form THEN form[f] ELSE "absent"
OneOf(body, forms) == Cardinality({form \in forms : Matches(body, form)}) = 1

ContractOf(op) ==
    CASE op = "createAccount" -> Operation("none", {"email", "password", "locale"}, {}, FALSE, 202)
      [] op = "createEmailVerificationDelivery" -> Operation("none", {"email", "locale"}, {}, FALSE, 202)
      [] op = "verifyEmail" -> Operation("none", {"token"}, {}, FALSE, 204)
      [] op = "createPasswordResetDelivery" -> Operation("none", {"email", "locale"}, {}, FALSE, 202)
      [] op = "resetPassword" ->
            Operation("none", {"email", "token", "new_password", "client_signing_public_key"}, {}, FALSE, 200)
      [] op = "createAccountSession" -> Operation("none", {"client_signing_public_key"}, SessionForms, FALSE, 200)
      [] op = "createAccountAuthChallenge" -> Operation("none", {"refresh_token", "request_nonce"}, {}, FALSE, 201)
      [] op = "rotateAccountToken" ->
            Operation("none", {"refresh_token", "challenge_id", "request_nonce", "signature"}, {}, FALSE, 200)
      [] op = "changePassword" ->
            Operation("account", {"current_password", "new_password", "client_signing_public_key"}, {}, TRUE, 200)
      [] op = "revokeAccountSessions" -> Operation("account", {}, RevocationForms, TRUE, 204)
      [] op = "createPasskeyRegistrationOptions" -> Operation("account", {}, {}, TRUE, 200)
      [] op = "createPasskeyCredential" -> Operation("account", {"ceremony_id", "response"}, {}, TRUE, 204)
      [] op = "createPasskeyAuthenticationOptions" -> Operation("none", {}, {}, FALSE, 200)
      [] op = "revokePasskey" -> Operation("account", {"credential_id"}, {}, TRUE, 204)
      [] op = "createTOTPEnrollment" -> Operation("account", {}, {}, TRUE, 201)
      [] op = "verifyTOTPEnrollment" -> Operation("account", {"code"}, {}, TRUE, 204)
      [] op = "revokeTOTP" -> Operation("account", {}, {}, TRUE, 204)
      [] op = "rotateRecoveryCodes" -> Operation("account", {}, {}, TRUE, 201)
      [] op = "consumeRecoveryCode" -> Operation("none", {"email", "code", "client_signing_public_key"}, {}, FALSE, 200)
      [] op = "createDeviceEnrollmentGrant" -> Operation("account", {}, {}, TRUE, 201)
      [] op = "createDeviceAuthChallenge" -> Operation("none", {"request_nonce"}, ChallengeForms, FALSE, 201)
      [] op = "registerDevice" ->
            Operation("none", {"enrollment_grant", "challenge_id", "request_nonce", "signing_public_key",
                               "hpke_public_key", "display_name", "signature"}, {}, FALSE, 201)
      [] op = "rotateDeviceToken" ->
            Operation("none", {"refresh_token", "challenge_id", "request_nonce", "signature"}, {}, FALSE, 200)
      [] op = "revokeDevice" -> Operation("account", {"device_id"}, {}, TRUE, 204)
      [] op = "resolveConfigBundle" -> Operation("device", {}, {}, FALSE, 200)
      [] op = "acknowledgeConfigBundle" -> Operation("device", {"bundle_id"}, {}, FALSE, 204)
      [] op = "getImmutableBundle" -> Operation("none", {}, {}, FALSE, 200)

\* The pattern of a bundle version: letters, digits and three more characters.
VersionPattern(text) == text.kind \in {"number", "word"}

\* The contract admits a request: its key, its body, its required members and its forms.
Admits(in) ==
    LET c == ContractOf(in.op)
    IN  /\ in.key.length \in 22 .. 86 /\ in.key.plain
        /\ in.body \in {"json", "untyped json"}
        /\ c.required \cap in.bad = {}
        /\ c.forms # {} => OneOf(in.form, c.forms)
        /\ in.op = "acknowledgeConfigBundle" => VersionPattern(in.form.bundle_version)
        /\ c.reauth => OneOf(in.reauth, ReauthForms)

(***************************************************************************)
(* The operations of the control API. A handler runs its checks in order   *)
(* and answers the first fault, then asks whether its application exists,  *)
(* calls one command with what the authenticated credential binds, and     *)
(* shapes the reply; a Route is that much of a handler. A request is [op,  *)
(* header, key, body, bad, form, reauth]: `bad` holds the body fields that *)
(* are missing or not well formed, `form` and `reauth` the fields of the   *)
(* bodies that come in several forms. A member is absent, null, an empty   *)
(* string, bad or what its name says; a body may be null itself, and then  *)
(* has no members. `subject` is the account that the email, the token or   *)
(* the proof in the body belongs to.                                       *)
(***************************************************************************)

None == [code |-> "none", action |-> "", retry |-> 0]
Malformed(ok) == IF ok THEN None ELSE malformedRequestError

\* A key is its length and whether it has only base64url characters.
validIdempotencyKey(key) == key.length >= 22 /\ key.length <= 86 /\ key.plain

decodeBody(body) ==
    CASE body = "other type" -> New("unsupported_schema", "upgrade_client")
      [] body = "too large" -> New("request_too_large", "contact_support")
      [] body \in {"none", "not strict"} -> malformedRequestError
      [] body \in {"json", "untyped json", "null"} -> None

\* Decoding does not tell a member that is absent from one that is null, nor from an empty string:
\* each leaves the zero value of its field.
Zero(value) == value \in {"absent", "null", "empty"}
Absent(form, fields) == \A f \in fields : Zero(form[f])

\* The members that decode themselves refuse what does not suit them: ceremony_id is a value and
\* refuses null as well, session_id and response are pointers and take null for absent.
UnmarshalJSON(form) ==
    /\ "ceremony_id" \in DOMAIN form => form.ceremony_id \in {"absent", "good"}
    /\ "session_id" \in DOMAIN form => form.session_id \in {"absent", "null", "good"}
    /\ "response" \in DOMAIN form => form.response # "empty"

\* The four forms of a reauthentication: each wants its own proof and no other.
reauthentication(form) ==
    \/ form.method = "password" /\ form.password = "good" /\ Absent(form, {"code", "ceremony_id", "response"})
    \/ form.method = "totp" /\ form.code = "totp" /\ Absent(form, {"password", "ceremony_id", "response"})
    \/ form.method = "recovery_code" /\ form.code = "recovery" /\ Absent(form, {"password", "ceremony_id", "response"})
    \/ form.method = "passkey" /\ form.ceremony_id = "good" /\ form.response = "good" /\ Absent(form, {"password", "code"})

PasswordLogin(form) ==
    form.method = "password" /\ form.email = "good" /\ form.password = "good" /\ Absent(form, {"ceremony_id", "response"})
PasskeyLogin(form) ==
    form.method = "passkey" /\ form.ceremony_id = "good" /\ form.response = "good" /\ Absent(form, {"email", "password"})

RegistrationChallenge(form) ==
    /\ form.enrollment_grant = "good" /\ Zero(form.refresh_token)
    /\ form.signing_public_key = "good" /\ form.hpke_public_key = "good"
RotationChallenge(form) ==
    form.refresh_token = "good" /\ Absent(form, {"enrollment_grant", "signing_public_key", "hpke_public_key"})

\* The scope of a revocation and the session it names.
ScopeFits(form) ==
    \/ form.scope \in {"all", "others"} /\ Zero(form.session_id)
    \/ form.scope = "one" /\ form.session_id = "good"

\* A bundle version is the shortest decimal text of a nonzero 64-bit number.
CanonicalVersion(text) == text.kind = "number" /\ ~text.padded /\ text.value = "fits"

(***************************************************************************)
(* Routes.                                                                 *)
(***************************************************************************)
Body(fields) == [kind |-> "body", fields |-> fields]
Decodes(fields) == [kind |-> "decode", fields |-> fields]
Reauthenticates == [kind |-> "reauth", fields |-> {}]
HasForm(ok) == [kind |-> IF ok THEN "form" ELSE "no form", fields |-> {}]
Call(name, bound) == [name |-> name, bound |-> bound]
Reply(status, shape) == [status |-> status, shape |-> shape]
Route(auth, checks, app, call, reply) == [auth |-> auth, checks |-> checks, app |-> app, call |-> call, reply |-> reply]

ByPrincipal == {"principal"}
ByPrincipalAndSession == {"principal", "session"}

CreateAccount ==
    Route("none", <<Body({"email", "locale", "password"})>>,
          "Identity", Call("RegisterAccount", {}), Reply(202, "plain"))
CreateEmailVerificationDelivery ==
    Route("none", <<Body({"email", "locale"})>>,
          "Identity", Call("CreateEmailVerificationDelivery", {}), Reply(202, "plain"))
VerifyEmail ==
    Route("none", <<Body({}), Decodes({"token"})>>,
          "Identity", Call("VerifyEmail", {}), Reply(204, "plain"))
CreatePasswordResetDelivery ==
    Route("none", <<Body({"email", "locale"})>>,
          "Identity", Call("CreatePasswordResetDelivery", {}), Reply(202, "plain"))
ResetPassword ==
    Route("none", <<Body({"email", "new_password"}), Decodes({"token"}), Decodes({"client_signing_public_key"})>>,
          "Identity", Call("ResetPassword", {}), Reply(200, "session tokens"))
CreateAccountSession(form) ==
    LET checks == <<Body({}), Decodes({"client_signing_public_key"}), HasForm(PasswordLogin(form) \/ PasskeyLogin(form))>>
    IN  IF form.method = "passkey"
          THEN Route("none", checks, "StrongAuth", Call("FinishPasskeyAuthentication", {}), Reply(200, "session tokens"))
          ELSE Route("none", checks, "Identity", Call("CreateSession", {}), Reply(200, "session tokens"))
CreateAccountAuthChallenge ==
    Route("none", <<Body({}), Decodes({"refresh_token"}), Decodes({"request_nonce"})>>,
          "Identity", Call("CreateSessionChallenge", {}), Reply(201, "challenge"))
RotateAccountToken ==
    Route("none", <<Body({"challenge_id"}), Decodes({"refresh_token"}), Decodes({"request_nonce"}), Decodes({"signature"})>>,
          "Identity", Call("RotateSession", {}), Reply(200, "session tokens"))
ChangePassword ==
    Route("account", <<Body({"current_password", "new_password"}), Reauthenticates, Decodes({"client_signing_public_key"})>>,
          "Identity", Call("ChangePassword", ByPrincipal), Reply(200, "session tokens"))
RevokeAccountSessions(form) ==
    Route("account", <<Body({}), Reauthenticates, HasForm(ScopeFits(form))>>,
          "Identity", Call("RevokeSessions", IF form.scope = "others" THEN ByPrincipalAndSession ELSE ByPrincipal),
          Reply(204, "plain"))
CreatePasskeyRegistrationOptions ==
    Route("account", <<Body({}), Reauthenticates>>,
          "StrongAuth", Call("BeginPasskeyRegistration", ByPrincipal), Reply(200, "raw"))
CreatePasskeyCredential ==
    Route("account", <<Body({"ceremony_id", "response"}), Reauthenticates>>,
          "StrongAuth", Call("FinishPasskeyRegistration", ByPrincipal), Reply(204, "plain"))
CreatePasskeyAuthenticationOptions ==
    Route("none", <<Body({})>>,
          "StrongAuth", Call("BeginPasskeyAuthentication", {}), Reply(200, "raw"))
RevokePasskey ==
    Route("account", <<Body({}), Decodes({"credential_id"}), Reauthenticates>>,
          "StrongAuth", Call("RevokePasskey", ByPrincipal), Reply(204, "plain"))
CreateTOTPEnrollment ==
    Route("account", <<Body({}), Reauthenticates>>,
          "StrongAuth", Call("BeginTOTPEnrollment", ByPrincipal), Reply(201, "plain"))
VerifyTOTPEnrollment ==
    Route("account", <<Body({"code"}), Reauthenticates>>,
          "StrongAuth", Call("VerifyTOTPEnrollment", ByPrincipal), Reply(204, "plain"))
RevokeTOTP ==
    Route("account", <<Body({}), Reauthenticates>>,
          "StrongAuth", Call("RevokeTOTP", ByPrincipal), Reply(204, "plain"))
RotateRecoveryCodes ==
    Route("account", <<Body({}), Reauthenticates>>,
          "StrongAuth", Call("RotateRecoveryCodes", ByPrincipal), Reply(201, "plain"))
ConsumeRecoveryCode ==
    Route("none", <<Body({"email", "code"}), Decodes({"client_signing_public_key"})>>,
          "StrongAuth", Call("ConsumeRecoveryCode", {}), Reply(200, "session tokens"))
CreateDeviceEnrollmentGrant ==
    Route("account", <<Body({}), Reauthenticates>>,
          "Identity", Call("CreateEnrollmentGrant", ByPrincipalAndSession), Reply(201, "grant"))
CreateDeviceAuthChallenge(form) ==
    Route("none", <<Body({}), Decodes({"request_nonce"}), HasForm(RegistrationChallenge(form) \/ RotationChallenge(form))>>,
          "Device", Call("CreateChallenge", {}), Reply(201, "challenge"))
RegisterDevice ==
    Route("none", <<Body({"challenge_id", "display_name"}), Decodes({"enrollment_grant"}), Decodes({"request_nonce"}),
                    Decodes({"signing_public_key"}), Decodes({"hpke_public_key"}), Decodes({"signature"})>>,
          "Device", Call("RegisterDevice", {}), Reply(201, "device tokens"))
RotateDeviceToken ==
    Route("none", <<Body({"challenge_id"}), Decodes({"refresh_token"}), Decodes({"request_nonce"}), Decodes({"signature"})>>,
          "Device", Call("RotateDeviceToken", {}), Reply(200, "device tokens"))
RevokeDevice ==
    Route("account", <<Body({"device_id"}), Reauthenticates>>,
          "Device", Call("RevokeDevice", ByPrincipal), Reply(204, "plain"))
ResolveConfigBundle ==
    Route("device", <<Body({})>>,
          "Trust", Call("Resolve", ByPrincipal), Reply(200, "plain"))
AcknowledgeConfigBundle(form) ==
    Route("device", <<Body({"bundle_id"}), HasForm(CanonicalVersion(form.bundle_version))>>,
          "Trust", Call("Acknowledge", ByPrincipal), Reply(204, "plain"))

RouteOf(in) ==
    CASE in.op = "createAccount" -> CreateAccount
      [] in.op = "createEmailVerificationDelivery" -> CreateEmailVerificationDelivery
      [] in.op = "verifyEmail" -> VerifyEmail
      [] in.op = "createPasswordResetDelivery" -> CreatePasswordResetDelivery
      [] in.op = "resetPassword" -> ResetPassword
      [] in.op = "createAccountSession" -> CreateAccountSession(in.form)
      [] in.op = "createAccountAuthChallenge" -> CreateAccountAuthChallenge
      [] in.op = "rotateAccountToken" -> RotateAccountToken
      [] in.op = "changePassword" -> ChangePassword
      [] in.op = "revokeAccountSessions" -> RevokeAccountSessions(in.form)
      [] in.op = "createPasskeyRegistrationOptions" -> CreatePasskeyRegistrationOptions
      [] in.op = "createPasskeyCredential" -> CreatePasskeyCredential
      [] in.op = "createPasskeyAuthenticationOptions" -> CreatePasskeyAuthenticationOptions
      [] in.op = "revokePasskey" -> RevokePasskey
      [] in.op = "createTOTPEnrollment" -> CreateTOTPEnrollment
      [] in.op = "verifyTOTPEnrollment" -> VerifyTOTPEnrollment
      [] in.op = "revokeTOTP" -> RevokeTOTP
      [] in.op = "rotateRecoveryCodes" -> RotateRecoveryCodes
      [] in.op = "consumeRecoveryCode" -> ConsumeRecoveryCode
      [] in.op = "createDeviceEnrollmentGrant" -> CreateDeviceEnrollmentGrant
      [] in.op = "createDeviceAuthChallenge" -> CreateDeviceAuthChallenge(in.form)
      [] in.op = "registerDevice" -> RegisterDevice
      [] in.op = "rotateDeviceToken" -> RotateDeviceToken
      [] in.op = "revokeDevice" -> RevokeDevice
      [] in.op = "resolveConfigBundle" -> ResolveConfigBundle
      [] in.op = "acknowledgeConfigBundle" -> AcknowledgeConfigBundle(in.form)

\* What one check of a handler answers, and the first fault of all of them.
Fault(check, in) ==
    CASE check.kind = "body" ->
            IF decodeBody(in.body) # None THEN decodeBody(in.body)
            ELSE Malformed(UnmarshalJSON(in.form) /\ UnmarshalJSON(in.reauth) /\ check.fields \cap in.bad = {})
      [] check.kind = "decode" -> Malformed(check.fields \cap in.bad = {})
      [] check.kind = "reauth" -> Malformed(reauthentication(in.reauth))
      [] check.kind \in {"form", "no form"} -> Malformed(check.kind = "form")
FirstFault(checks, in) ==
    LET faults == {i \in DOMAIN checks : Fault(checks[i], in) # None}
    IN  IF faults = {} THEN None ELSE Fault(checks[Min(faults)], in)

(***************************************************************************)
(* The handling of a request.                                              *)
(***************************************************************************)

CONSTANTS Requests, Inputs,
    Owner,      \* credential -> [kind, principal]
    Errors,     \* what an application may answer instead of a result
    Missing     \* sets of applications a process may run without

VARIABLES
    absent,     \* the applications this process runs without
    live,       \* the credentials that are not revoked
    input, req,
    effects,    \* idempotency records: [id, content, live]
    performed   \* requests whose command took effect
vars == <<absent, live, input, req, effects, performed>>

NoAuthority == [principal |-> "none", session |-> "none"]
NoCommand == [name |-> "none", principal |-> "none", session |-> "none", id |-> <<>>]
NoAnswer == [status |-> 0, error |-> None]
Idle == [pc |-> "idle", authority |-> NoAuthority, command |-> NoCommand, answer |-> NoAnswer]

Init ==
    /\ absent \in Missing /\ live = DOMAIN Owner /\ input \in [Requests -> Inputs]
    /\ req = [r \in Requests |-> Idle] /\ effects = {} /\ performed = {}

RouteFor(r) == RouteOf(input[r])
Becomes(r, pc) == req' = [req EXCEPT ![r].pc = pc]
writeJSON(r, status) == req' = [req EXCEPT ![r].pc = "answered", ![r].answer = [status |-> status, error |-> None]]
fail(r, err) ==
    \E random \in BOOLEAN : req' = [req EXCEPT ![r].pc = "answered", ![r].answer = writeError(err, random)]
OfRequests == <<absent, input>>

\* The generated wrapper wants the key's header exactly once.
Receive(r) ==
    /\ req[r].pc = "idle" /\ input[r].op # "getImmutableBundle"
    /\ IF input[r].key.count = 1 THEN Becomes(r, "received") ELSE fail(r, malformedRequestError)
    /\ UNCHANGED <<OfRequests, live, effects, performed>>

\* exactBearerToken and DecodeOpaqueToken: anything but one well-formed token is refused alike.
exactBearerToken(header) == header.kind = "token"
authenticatorOf(auth) == IF auth = "account" THEN "AccountAuth" ELSE "DeviceAuth"
Identifies(token, auth) == token \in live /\ Owner[token].kind = auth

\* authenticateAccount and authenticatedDeviceRequest; other routes have no authority.
Authenticate(r) ==
    LET auth == RouteFor(r).auth
        header == input[r].header
        token == header.token
    IN  /\ req[r].pc = "received"
        /\ \/ auth = "none" /\ Becomes(r, "authenticated")
           \/ auth # "none" /\ ~exactBearerToken(header) /\ fail(r, authenticationFailedError)
           \/ auth # "none" /\ exactBearerToken(header) /\ authenticatorOf(auth) \in absent /\ fail(r, dependencyUnavailableError)
           \/ /\ auth # "none" /\ exactBearerToken(header) /\ authenticatorOf(auth) \notin absent
              /\ \/ ~Identifies(token, auth) /\ fail(r, authenticationFailedError)
                 \/ fail(r, dependencyUnavailableError)
                 \/ /\ Identifies(token, auth)
                    /\ req' = [req EXCEPT ![r].pc = "authenticated",
                                          ![r].authority = [principal |-> Owner[token].principal, session |-> token]]
        /\ UNCHANGED <<OfRequests, live, effects, performed>>

\* The namespace of a key: one for all clients where nobody is known yet, the account that the
\* proof in the request belongs to, or the principal of the credential. A device challenge is made
\* anew for every request; its key is only checked.
Anonymous == {"RegisterAccount", "CreateEmailVerificationDelivery", "CreatePasswordResetDelivery", "RegisterDevice",
              "BeginPasskeyAuthentication"}
ByProof == {"VerifyEmail", "ResetPassword", "CreateSession", "FinishPasskeyAuthentication", "CreateSessionChallenge",
            "RotateSession", "ConsumeRecoveryCode", "RotateDeviceToken"}
Unrecorded == {"CreateChallenge"}
ScopeOf(name, principal, subject) ==
    IF name \in Anonymous THEN "anonymous" ELSE IF name \in ByProof THEN subject ELSE principal

FreshKey(r) == <<r>>
CommandKey(r) == input[r].key.id
\* The key and the checks of the route in order, then the application, then the command.
Validate(r) ==
    LET route == RouteFor(r)
        fault == FirstFault(route.checks, input[r])
        of(part) == IF part \in route.call.bound THEN req[r].authority[part] ELSE "none"
    IN  /\ req[r].pc = "authenticated"
        /\ IF ~validIdempotencyKey(input[r].key) THEN fail(r, malformedRequestError)
           ELSE IF fault # None THEN fail(r, fault)
           ELSE IF route.app \in absent THEN fail(r, dependencyUnavailableError)
           ELSE req' = [req EXCEPT ![r].pc = "valid",
                            ![r].command = [name |-> route.call.name, principal |-> of("principal"), session |-> of("session"),
                                            id |-> <<route.call.name, ScopeOf(route.call.name, of("principal"), input[r].subject), CommandKey(r)>>]]
        /\ UNCHANGED <<OfRequests, live, effects, performed>>

\* What a record answers: its response, or a conflict when the request was another one.
privateIdempotencyOutcome(r, known) ==
    IF \A e \in known : e.content = input[r].content
      THEN Becomes(r, "executed")
      ELSE fail(r, New("idempotency_conflict", "contact_support"))

\* The application: refuses the proof in the request or a credential that was revoked since, replays
\* a record or refuses another content under its key, takes effect with a record of it, or fails;
\* after it took effect its answer may still be an error.
Execute(r) ==
    LET command == req[r].command
        known == {e \in effects : e.id = command.id}
    IN  /\ req[r].pc = "valid"
        /\ \/ /\ known # {} /\ privateIdempotencyOutcome(r, known)
              /\ UNCHANGED <<effects, performed>>
           \/ /\ command.name \in ByProof \/ (command.principal # "none" /\ req[r].authority.session \notin live)
              /\ fail(r, authenticationFailedError)
              /\ UNCHANGED <<effects, performed>>
           \/ /\ known = {} /\ (command.name \in ByProof => input[r].subject # "nobody")
              /\ effects' = IF command.name \in Unrecorded THEN effects
                            ELSE effects \cup {[id |-> command.id, content |-> input[r].content, live |-> TRUE]}
              /\ performed' = performed \cup {r}
              /\ Becomes(r, "executed") \/ fail(r, dependencyUnavailableError)
           \/ /\ \E e \in Errors : fail(r, e)
              /\ UNCHANGED <<effects, performed>>
        /\ UNCHANGED <<OfRequests, live>>

\* sessionTokensBody authenticates the new access token; deviceTokensBody, challengeBody and
\* writeRawJSON refuse a result that is not complete or not sound.
sessionTokensBody(r) ==
    LET issued == {e \in effects : e.id = req[r].command.id /\ e.live}
    IN  \/ "AccountAuth" \in absent /\ fail(r, dependencyUnavailableError)
        \/ "AccountAuth" \notin absent /\ issued = {} /\ fail(r, authenticationFailedError)
        \/ "AccountAuth" \notin absent /\ fail(r, dependencyUnavailableError)
        \/ "AccountAuth" \notin absent /\ issued # {} /\ writeJSON(r, RouteFor(r).reply.status)
deviceTokensBody(r) == writeJSON(r, RouteFor(r).reply.status) \/ fail(r, dependencyUnavailableError)
challengeBody(r) == writeJSON(r, RouteFor(r).reply.status) \/ fail(r, dependencyUnavailableError)
writeRawJSON(r) == writeJSON(r, RouteFor(r).reply.status) \/ fail(r, dependencyUnavailableError)
Respond(r) ==
    LET shape == RouteFor(r).reply.shape
    IN  /\ req[r].pc = "executed"
        /\ CASE shape = "session tokens" -> sessionTokensBody(r)
             [] shape \in {"device tokens", "grant"} -> deviceTokensBody(r)
             [] shape = "challenge" -> challengeBody(r)
             [] shape = "raw" -> writeRawJSON(r)
             [] shape = "plain" -> writeJSON(r, RouteFor(r).reply.status)
        /\ UNCHANGED <<OfRequests, live, effects, performed>>

\* GetImmutableBundle hands the request to the distribution, which answers by a status alone.
ServeHTTP(in) ==
    IF in.form.range = "present" THEN {416} ELSE IF in.form.locator # "good" THEN {404} ELSE {200, 404, 503}
GetImmutableBundle(r) ==
    /\ req[r].pc = "idle" /\ input[r].op = "getImmutableBundle"
    /\ IF "ImmutableBundle" \in absent
         THEN fail(r, dependencyUnavailableError)
         ELSE \E status \in ServeHTTP(input[r]) : writeJSON(r, status)
    /\ UNCHANGED <<OfRequests, live, effects, performed>>

Revoke(c) == live' = live \ {c} /\ c \in live /\ UNCHANGED <<OfRequests, req, effects, performed>>
RevokeIssued(e) ==
    /\ e.live /\ effects' = (effects \ {e}) \cup {[e EXCEPT !.live = FALSE]}
    /\ UNCHANGED <<OfRequests, live, req, performed>>

Next ==
    \/ \E r \in Requests : Receive(r) \/ Authenticate(r) \/ Validate(r) \/ Execute(r) \/ Respond(r) \/ GetImmutableBundle(r)
    \/ \E c \in live : Revoke(c)
    \/ \E e \in effects : RevokeIssued(e)
Spec == Init /\ [][Next]_vars

TypeOK ==
    /\ live \subseteq DOMAIN Owner /\ performed \subseteq Requests
    /\ \A r \in Requests : req[r].pc \in {"idle", "received", "authenticated", "valid", "executed", "answered"}
    /\ \A r \in Requests : (req[r].pc = "answered") <=> (req[r].answer # NoAnswer)

Called(r) == req[r].command # NoCommand
Answered(r) == req[r].pc = "answered"

\* The request as the handler understands it: a null body is an empty one, and a member with the
\* zero value is absent.
Understood(in) ==
    LET read(form) == [f \in DOMAIN form |-> IF Zero(form[f]) THEN "absent" ELSE form[f]]
    IN  [in EXCEPT !.body = IF @ = "null" THEN "json" ELSE @, !.reauth = read(@),
                   !.form = IF in.op = "acknowledgeConfigBundle" THEN @ ELSE read(@)]

\* A command is called only for a request that the published contract admits, its key, its media
\* type, every required member and exactly one of the forms, or that becomes one when a null body
\* is read as {} and members that are null or empty strings are left out. The contract, whose forms
\* are closed, refuses the latter.
AdmittedMeetsContract == \A r \in Requests : Called(r) => Admits(Understood(input[r]))

\* The contract as it is written: a form has no foreign member, whatever its value.
AdmittedIsContracted == \A r \in Requests : Called(r) => Admits(input[r])

\* The principal of a command is the owner of the credential the request presented, of the kind
\* the contract's security scheme names; an operation without a scheme acts for no principal.
CommandsAreAuthorized ==
    \A r \in Requests : Called(r) =>
        LET security == ContractOf(input[r].op).security
            token == input[r].header.token
        IN  IF security = "none"
              THEN req[r].command.principal = "none"
              ELSE /\ token \in DOMAIN Owner /\ Owner[token].kind = security
                   /\ req[r].command.principal = Owner[token].principal
                   /\ req[r].command.session \in {"none", token}

\* Whatever an application answers, classified or not, the client sees a status of the contract,
\* and with an error a code, an action, a delay and a trace of the published schema.
AnswersAreContracted ==
    \A r \in Requests : (Answered(r) /\ input[r].op # "getImmutableBundle") =>
        LET a == req[r].answer
        IN  IF a.error = None
              THEN a.status = ContractOf(input[r].op).success
              ELSE /\ a.status \in ErrorStatuses /\ a.error.code \in Codes /\ a.error.action \in Actions
                   /\ a.error.retry \in 0 .. 10000 /\ a.error.trace \in 16 .. 64

\* An answer that blames the request's input means that the request did nothing, even if an
\* earlier step of it could have: an application has not run, or has refused before its effect.
InputErrorsMeanNothingHappened ==
    \A r \in Requests : (Answered(r) /\ categoryFor(req[r].answer.error.code) = "input") => r \notin performed

\* Who a request acts for: the owner of its credential, else the account its proof belongs to. A
\* request that nothing ties to an account acts for anyone.
Party(r) ==
    CASE ContractOf(input[r].op).security # "none" -> Owner[input[r].header.token].principal
      [] input[r].op \in {"createAccount", "createEmailVerificationDelivery", "createPasswordResetDelivery", "registerDevice",
                          "createPasskeyAuthenticationOptions"} -> "anyone"
      [] OTHER -> input[r].subject
SameCommand(r, s) ==
    /\ req[r].command.name = req[s].command.name /\ Party(r) = Party(s)
    /\ input[r].key.id = input[s].key.id

\* Requests of one command for one party under one key take effect once, however they are
\* interleaved and whatever answers were lost; only device challenges keep no record.
OneEffectPerKey ==
    \A r, s \in performed : r # s /\ SameCommand(r, s) => req[r].command.name \in Unrecorded

\* A request that succeeds without an effect of its own got the response of the same command,
\* with the same content and for the same party, and one that is told of a conflict met another
\* content of its own: one account's keys never answer for another's.
ReplaysAreOwn ==
    \A r \in Requests \ performed :
        LET a == req[r].answer
            others == {s \in performed : SameCommand(r, s)}
            succeeded == req[r].pc = "executed" \/ (Answered(r) /\ a.error = None /\ input[r].op # "getImmutableBundle")
        IN  /\ succeeded => \E s \in others : input[s].content = input[r].content
            /\ Called(r) /\ Answered(r) /\ a.error.code = "idempotency_conflict" =>
                  \E s \in others : input[s].content # input[r].content

\* The handler refuses as malformed only what the contract refuses.
ContractValidIsAdmitted ==
    \A r \in Requests : (Answered(r) /\ r \notin performed /\ Admits(input[r]) /\ input[r].key.count = 1)
        => req[r].answer.error.code # "malformed_request"

\* The statuses of GET /b/{bundle_locator} are those its description lists.
BundleAnswersAreContracted ==
    \A r \in Requests : (Answered(r) /\ input[r].op = "getImmutableBundle") => req[r].answer.status \in {200} \cup ErrorStatuses
=============================================================================
