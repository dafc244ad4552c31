----------------------------- MODULE DeviceAuth -----------------------------
(***************************************************************************)
(* Device authorisation with the parts of internal/identity it depends on: *)
(* grants are made by account sessions, the account may be verified or a   *)
(* session revoked at any time, and devices enroll, rotate their tokens    *)
(* and are revoked by requests that overlap and fail between their steps.  *)
(* The handlers are those of internal/deviceauth (register.go, rotate.go,  *)
(* revoke.go, token.go) with the challenge store of                        *)
(* redis_challenge_store.go and the part of internal/identity they call    *)
(* through their own transaction (postgres_repository.go).                 *)
(*                                                                         *)
(* A request keeps the time it began at. One tick of the clock is two      *)
(* units of time, so that the unit stands for the nanosecond the code      *)
(* counts with. A transaction that finds tokens inserted between its two   *)
(* readings of a family is run once more, so that the transactions here    *)
(* read a family once.                                                     *)
(***************************************************************************)
EXTENDS AccountHandlers

(***************************************************************************)
(* CreateChallenge for a registration, and RegisterDevice.                 *)
(***************************************************************************)

CONSTANTS
    Requests,    \* requests in progress at a time
    DeviceKeys,  \* pairs of public keys devices show
    MaxDevices,  \* devices that can be registered
    Second       \* the units of time in a second; 1 when every instant is a whole one

Goto(r, pc) == req' = [req EXCEPT ![r].pc = pc]

End(r) == req' = [req EXCEPT ![r] = Idle]

TickTwo ==
    /\ now + 2 <= MaxTime
    /\ now' = now + 2
    /\ UNCHANGED <<db, redis, req>>

-----------------------------------------------------------------------------
(* The challenge store.  A challenge is made for a grant or for a refresh  *)
(* token, its subject, and for a context: the keys to be registered, or    *)
(* the family of the token.                                                *)

NoChallenge == [state |-> "unissued", kind |-> "none", subject |-> Null, context |-> Null,
                expires |-> 0]

(* Create with SETNX under a new identifier; the lifetime must be left.    *)
ChallengeCreated(c, kind, subject, context, expires, at) ==
    /\ redis[c] = NoChallenge
    /\ \A b \in 1..(c - 1) : redis[b] # NoChallenge
    /\ expires > at
    /\ redis' = [redis EXCEPT ![c] = [state |-> "present", kind |-> kind, subject |-> subject,
                                      context |-> context, expires |-> expires]]

Matches(c, subject, context) ==
    /\ redis[c].state = "present"
    /\ redis[c].subject = subject
    /\ redis[c].context = context
    /\ redis[c].expires > now

(* Consume: GETDEL removes the challenge, and what does not match the      *)
(* request or has expired is not handed out.                               *)
ChallengeConsumed(c, subject, context, found) ==
    /\ found = Matches(c, subject, context)
    /\ redis' = [redis EXCEPT ![c].state = IF @ = "present" THEN "gone" ELSE @]

ChallengeEvicted(c) ==
    /\ redis[c].state = "present"
    /\ redis[c].expires <= now
    /\ redis' = [redis EXCEPT ![c].state = "gone"]
    /\ UNCHANGED <<now, db, req>>

-----------------------------------------------------------------------------
(* ValidateDeviceEnrollment: the grant is unused, its session active and   *)
(* not bound to a device, and its account still what the grant was made    *)
(* for.  A trial is for an account none of whose sessions has a device.    *)
ValidateDeviceEnrollment(d, token, n) ==
    {[principal |-> d.grants[g].principal, session |-> d.grants[g].session,
      policy |-> d.grants[g].policy, until |-> d.grants[g].provisionalUntil] :
       g \in {g \in GetGrantForChallenge(d.grants, token, n) :
                LET grant == d.grants[g]
                    account == d.accounts[grant.principal]
                    bound == d.sessions[grant.session]
                IN /\ grant.expires > n
                   /\ bound.state = "active"
                   /\ bound.accessExpires > n
                   /\ bound.absolute > n
                   /\ bound.device = Null
                   /\ \/ /\ grant.policy = "standard"
                         /\ account.state = "active"
                      \/ /\ grant.policy = "trial_restricted"
                         /\ account.state = "pending_email"
                         /\ AccountFixedGraceDeadline(account) > n
                         /\ grant.provisionalUntil = AccountFixedGraceDeadline(account)
                         /\ grant.expires <= grant.provisionalUntil
                         /\ bound.absolute = grant.provisionalUntil
                         /\ bound.accessExpires <= grant.provisionalUntil
                         /\ \A s \in LockPrincipalAccountSessions(d.sessions, grant.principal) :
                              d.sessions[s].device = Null}}

(* A trial is honoured only while the service gives grace.                 *)
ValidEnrollmentAuthorityMode(authority, n) ==
    \/ authority.policy = "standard" /\ authority.until = Null
    \/ authority.policy = "trial_restricted" /\ EmailPolicy = "grace" /\ authority.until > n

EnrollmentAuthority(d, token, n) ==
    {a \in ValidateDeviceEnrollment(d, token, n) : ValidEnrollmentAuthorityMode(a, n)}

(* CreateChallenge: a transaction that is rolled back, the rate limit, and *)
(* then Redis.  The challenge ends with the trial at the latest.           *)
RegistrationChallengeBegin(r, grant, keys) ==
    /\ req[r] = Idle
    /\ \E a \in EnrollmentAuthority(db, grant, now) :
         req' = [req EXCEPT ![r] = [pc |-> "challenge", kind |-> "registration", subject |-> grant,
                                    context |-> keys, at |-> now, until |-> a.until]]
    /\ UNCHANGED <<now, db, redis>>

ChallengeExpiry(q) ==
    IF q.until # Null /\ q.at + ChallengeTTL > q.until THEN q.until ELSE q.at + ChallengeTTL

ChallengeStored(r) ==
    /\ req[r].pc = "challenge"
    /\ \E c \in 1..MaxChallenges :
         ChallengeCreated(c, req[r].kind, req[r].subject, req[r].context, ChallengeExpiry(req[r]),
                          req[r].at)
    /\ End(r)
    /\ UNCHANGED <<now, db>>

-----------------------------------------------------------------------------
(* RegisterDevice.                                                         *)

(* privateRegistrationBinding without display name and signature.          *)
RegisterDigest(q) == <<q.grant, q.challenge, q.keys>>

RegisterStarted(q) ==
    BeginIdempotency(db, Anonymous, "register_device", q.key, RegisterDigest(q)) = "started"

(* The first transaction, rolled back unless it finds the response.        *)
RegisterPreflight(r, grant, challenge, keys, key) ==
    /\ req[r] = Idle
    /\ redis[challenge] # NoChallenge
    /\ LET q == [pc |-> "register", grant |-> grant, challenge |-> challenge, keys |-> keys,
                 key |-> key, at |-> now]
       IN /\ RegisterStarted(q)
          /\ \E a \in EnrollmentAuthority(db, grant, now) :
               req' = [req EXCEPT ![r] = q @@ [authority |-> a]]
    /\ UNCHANGED <<now, db, redis>>

(* The challenge is consumed and its signature verified.  Every failure    *)
(* ends the request; an answer of Redis may be lost after it has acted.    *)
RegisterConsume(r) ==
    /\ req[r].pc = "register"
    /\ \E found \in BOOLEAN :
         /\ ChallengeConsumed(req[r].challenge, req[r].grant, req[r].keys, found)
         /\ \/ /\ found
               /\ redis[req[r].challenge].expires > req[r].at
               /\ redis[req[r].challenge].kind = "registration"
               /\ Goto(r, "final")
            \/ End(r)
    /\ UNCHANGED <<now, db>>

(* policyForAuthority: the end of a trial must lie ahead and on a whole    *)
(* second, which is all its policy can say.                                *)
PolicyForAuthority(authority, n) ==
    \/ authority.policy = "standard" /\ authority.until = Null
    \/ /\ authority.policy = "trial_restricted"
       /\ authority.until > n
       /\ authority.until % Second = 0

(* The state and the expiries of prepareRegistration.                      *)
PrepareRegistration(authority, n) ==
    [state |-> IF authority.policy = "standard" THEN "active" ELSE "provisional",
     access |-> IF authority.until # Null /\ n + AccessTTL > authority.until
                THEN authority.until ELSE n + AccessTTL,
     idle |-> n + IdleTTL,
     absolute |-> n + AbsoluteTTL]

NextDevice(d) == Cardinality(Rows(d.devices)) + 1

NextDeviceToken(d) == Cardinality(Rows(d.deviceRefresh)) + 1

AuthorizationChanged(authorization, state, version) ==
    [authorization |-> authorization, state |-> state, version |-> version]

(* The graph of a new device: the device, its authorization, policy and    *)
(* token family have one number here.                                      *)
DeviceGraph(d, authority, grant, keys, n) ==
    LET new == PrepareRegistration(authority, n)
        device == NextDevice(d)
        token == NextDeviceToken(d)
        p == authority.principal
    IN [d EXCEPT
          !.devices = CreateDevice(@, device, p, keys),
          !.grants = ConsumeEnrollmentGrant(@, grant, device, n),
          !.authorizations = CreateDeviceAuthorization(@, device, p, device, new.state,
                                                       authority.until),
          !.sessions = BindAccountSessionToAuthorization(@, authority.session, device),
          !.snapshots = CreateDevicePolicySnapshot(@, device, authority.policy, authority.until),
          !.families = CreateDeviceTokenFamily(@, device, device, token, new.access, new.idle,
                                               new.absolute),
          !.deviceRefresh = InsertDeviceRefreshToken(@, token, device, Null),
          !.events = InsertSecurityEvent(d, "device_registered", device),
          !.outbox = @ \cup {AuthorizationChanged(device, new.state, 1)}]

(* The final transaction: what the first one found must hold still; it is  *)
(* rolled back when a constraint refuses a row or the session is not the   *)
(* one row that gets bound.                                                *)
RegisterFinal(r) ==
    /\ req[r].pc = "final"
    /\ NextDevice(db) <= MaxDevices
    /\ NextDeviceToken(db) <= MaxTokens
    /\ LET q == req[r]
           d == DeviceGraph(db, q.authority, q.grant, q.keys, q.at)
       IN db' = IF /\ RegisterStarted(q)
                   /\ q.authority \in EnrollmentAuthority(db, q.grant, q.at)
                   /\ PolicyForAuthority(q.authority, q.at)
                   /\ DeviceKeysFree(db.devices, q.authority.principal, q.keys)
                   /\ Affected(db.grants, d.grants) # {}
                   /\ OneProvisionalAuthorization(d.authorizations)
                   /\ Affected(db.sessions, d.sessions) # {}
                THEN [d EXCEPT !.idem = Complete(db, Anonymous, "register_device", q.key,
                                                 RegisterDigest(q), 201, NextDevice(db))]
                ELSE db
    /\ End(r)
    /\ UNCHANGED <<now, redis>>

(* A deadline, a crash or an unavailable dependency ends a request.        *)
Abandon(r) ==
    /\ req[r] # Idle
    /\ End(r)
    /\ UNCHANGED <<now, db, redis>>

EnrollmentStep(r) == ChallengeStored(r) \/ RegisterConsume(r) \/ RegisterFinal(r)

(***************************************************************************)
(* Rotation challenges, RotateDeviceToken, RevokeDevice and                *)
(* AuthorizeBundle.                                                        *)
(***************************************************************************)

(* ValidateDeviceAccountAuthority: active, or within the fixed grace.      *)
ValidateDeviceAccountAuthority(d, principal, n) ==
    LET account == d.accounts[principal]
    IN \/ account.state = "active"
       \/ account.state = "pending_email" /\ AccountFixedGraceDeadline(account) > n

ValidAuthorizationMarker(authorization, n) ==
    \/ authorization.state = "active" /\ authorization.until = Null
    \/ authorization.state = "provisional" /\ authorization.until > n

(* What the lock of a family's graph (lockDeviceRefreshAuthority) returns  *)
(* of a refresh token: the families it can be rotated in.                  *)
LockDeviceRefreshAuthority(d, token, n, allowUsed) ==
    {f \in Rows(d.families) :
        LET family == d.families[f]
            authorization == d.authorizations[family.authorization]
            refresh == d.deviceRefresh[token]
        IN /\ DiscoverDeviceRefreshToken(d.deviceRefresh, token) # {}
           /\ token \in LockDeviceFamilyRefreshTokens(d.deviceRefresh, f)
           /\ refresh.state = "active" \/ (allowUsed /\ refresh.state = "used")
           /\ family.state = "active"
           /\ family.absolute > n
           /\ refresh.state = "used" \/ family.idle > n
           /\ ValidAuthorizationMarker(authorization, n)
           /\ authorization.state = "provisional" => EmailPolicy = "grace"
           /\ d.devices[authorization.device].state = "active"
           /\ ValidateDeviceAccountAuthority(d, authorization.principal, n)}

(* createRotationChallenge up to the rate limit.                           *)
RotationChallengeBegin(r, token) ==
    /\ req[r] = Idle
    /\ \E f \in LockDeviceRefreshAuthority(db, token, now, FALSE) :
         req' = [req EXCEPT ![r] =
                   [pc |-> "challenge", kind |-> "rotation", subject |-> token, context |-> f,
                    at |-> now, until |-> db.authorizations[db.families[f].authorization].until]]
    /\ UNCHANGED <<now, db, redis>>

-----------------------------------------------------------------------------
(* RotateDeviceToken.                                                      *)

DeviceRotateDigest(q) == <<q.token, q.challenge>>

DeviceOwner(token) ==
    db.authorizations[db.families[db.deviceRefresh[token].family].authorization].principal

DeviceRotateStarted(q) ==
    BeginIdempotency(db, DeviceOwner(q.token), "device_refresh", q.key, DeviceRotateDigest(q))
      = "started"

CompleteDeviceRotation(q, status, body) ==
    Complete(db, DeviceOwner(q.token), "device_refresh", q.key, DeviceRotateDigest(q), status, body)

(* A used token was shown again: the family and its tokens are dead.       *)
CompromiseUsedDeviceRefresh(q, f) ==
    LET compromised == CompromiseDeviceTokenFamily(db.families, f)
    IN [db EXCEPT
          !.families = compromised,
          !.deviceRefresh = RevokeDeviceRefreshTokens(@, f),
          !.events = InsertSecurityEvent(db, "device_token_replay", f),
          !.outbox = @ \cup {[family |-> f, version |-> compromised[f].version]},
          !.idem = CompleteDeviceRotation(q, 401, Null)]

(* What the first transaction hands to the last: the graph that the        *)
(* signature was checked against, as sameDeviceRefreshAuthority has it.    *)
RefreshAuthority(f) ==
    [family |-> f, absolute |-> db.families[f].absolute,
     version |-> db.authorizations[db.families[f].authorization].version,
     keys |-> db.devices[db.authorizations[db.families[f].authorization].device].keys]

DeviceRotatePreflight(r, token, challenge, key) ==
    /\ req[r] = Idle
    /\ redis[challenge] # NoChallenge
    /\ \E f \in LockDeviceRefreshAuthority(db, token, now, TRUE) :
         LET q == [pc |-> "consume", token |-> token, challenge |-> challenge, key |-> key,
                   at |-> now, authority |-> RefreshAuthority(f)]
         IN /\ DeviceRotateStarted(q)
            /\ \/ /\ db.deviceRefresh[token].state = "used"
                  /\ db' = CompromiseUsedDeviceRefresh(q, f)
                  /\ UNCHANGED req
               \/ /\ db.deviceRefresh[token].state = "active"
                  /\ req' = [req EXCEPT ![r] = q]
                  /\ UNCHANGED db
    /\ UNCHANGED <<now, redis>>

(* A late answer of Redis is ambiguous: the challenge may be gone or not.  *)
DeviceRotateConsume(r) ==
    /\ req[r].pc = "consume"
    /\ \/ \E found \in BOOLEAN :
            /\ ChallengeConsumed(req[r].challenge, req[r].token, req[r].authority.family, found)
            /\ \/ /\ found
                  /\ redis[req[r].challenge].expires > req[r].at
                  /\ redis[req[r].challenge].kind = "rotation"
                  /\ Goto(r, "rotate")
               \/ found /\ End(r)
               \/ Goto(r, "reclassify")
       \/ /\ UNCHANGED redis
          /\ Goto(r, "reclassify")
    /\ UNCHANGED <<now, db>>

(* reclassifyDeviceRotationAfterChallengeFailure: the token may have been  *)
(* used by the request that took the challenge.                            *)
DeviceRotateReclassify(r) ==
    /\ req[r].pc = "reclassify"
    /\ LET q == req[r]
           locked == LockDeviceRefreshAuthority(db, q.token, q.at, TRUE)
       IN \/ /\ DeviceRotateStarted(q)
             /\ db.deviceRefresh[q.token].state = "used"
             /\ \E f \in locked : db' = CompromiseUsedDeviceRefresh(q, f)
          \/ /\ ~DeviceRotateStarted(q) \/ db.deviceRefresh[q.token].state # "used" \/ locked = {}
             /\ UNCHANGED db
    /\ End(r)
    /\ UNCHANGED <<now, redis>>

(* prepareDeviceRotation: the new expiries, or none when the access token  *)
(* would not end before the idle expiry, and that before the absolute one. *)
PrepareDeviceRotation(f, n) ==
    LET family == db.families[f]
        until == db.authorizations[family.authorization].until
        access == IF until # Null /\ n + AccessTTL > until THEN until ELSE n + AccessTTL
        idle == IF n + IdleTTL >= family.absolute THEN family.absolute - 1 ELSE n + IdleTTL
    IN {[access |-> a, idle |-> idle] : a \in {a \in {access} : a < family.absolute /\ a < idle}}

DeviceRotated(q, f, new) ==
    LET token == NextDeviceToken(db)
    IN [db EXCEPT
          !.deviceRefresh = InsertDeviceRefreshToken(MarkDeviceRefreshUsed(@, q.token), token, f,
                                                     q.token),
          !.families = RotateDeviceFamilyAccess(@, f, token, new.access, new.idle, q.at),
          !.idem = CompleteDeviceRotation(q, 200, <<token, new.access, new.idle,
                                                    db.families[f].absolute>>)]

(* Mutant: the graph is not compared with the one of the first transaction. *)
DeviceRotateAnyGraph(r) ==
    /\ req[r].pc = "rotate"
    /\ NextDeviceToken(db) <= MaxTokens
    /\ \E f \in LockDeviceRefreshAuthority(db, req[r].token, req[r].at, FALSE) :
         \E new \in PrepareDeviceRotation(f, req[r].at) : db' = DeviceRotated(req[r], f, new)
    /\ End(r)
    /\ UNCHANGED <<now, redis>>

(* The last transaction: the graph must be the one of the first, and a     *)
(* token used meanwhile is a replay.                                       *)
DeviceRotateFinal(r) ==
    /\ req[r].pc = "rotate"
    /\ NextDeviceToken(db) <= MaxTokens
    /\ LET q == req[r]
           f == q.authority.family
           new == PrepareDeviceRotation(f, q.at)
           goes == /\ DeviceRotateStarted(q)
                   /\ f \in LockDeviceRefreshAuthority(db, q.token, q.at, TRUE)
                   /\ RefreshAuthority(f) = q.authority
           used == db.deviceRefresh[q.token].state = "used"
       IN \/ goes /\ used /\ db' = CompromiseUsedDeviceRefresh(q, f)
          \/ goes /\ ~used /\ \E n \in new : db' = DeviceRotated(q, f, n)
          \/ (~goes \/ (~used /\ new = {})) /\ UNCHANGED db
    /\ End(r)
    /\ UNCHANGED <<now, redis>>

RotationStep(r) ==
    DeviceRotateConsume(r) \/ DeviceRotateReclassify(r) \/ DeviceRotateFinal(r)

-----------------------------------------------------------------------------
(* ValidateDeviceRevocation: the password, on an active session.           *)
ValidateDeviceRevocation(d, principal, session, password, n) ==
    /\ GetPasswordCredential(d.credentials, principal) # {}
    /\ FindLockedAccountSession(d, session, principal)
    /\ d.accounts[principal].state = "active"
    /\ d.sessions[session].state = "active"
    /\ d.sessions[session].accessExpires > n
    /\ d.sessions[session].absolute > n
    /\ d.credentials[principal].password = password

(* lockDeviceRevocationAuthority: the authorization of the device, with    *)
(* families none of which is revoked.                                      *)
LockDeviceRevocationAuthority(d, principal, device) ==
    {a \in DiscoverDeviceAuthorization(d.authorizations, device) :
        /\ d.authorizations[a].principal = principal
        /\ d.authorizations[a].state # "revoked"
        /\ d.devices[device].state # "revoked"
        /\ ListDeviceAuthorizationFamilies(d.families, a) # {}
        /\ \A f \in ListDeviceAuthorizationFamilies(d.families, a) :
             d.families[f].state # "revoked"}

(* RevokeDevice is one transaction.  An authorization has one family, made *)
(* with it.                                                                *)
RevokeDevice(principal, device, session, password, key) ==
    /\ BeginIdempotency(db, principal, "revoke_device", key, <<device, session, password>>)
         = "started"
    /\ ValidateDeviceRevocation(db, principal, session, password, now)
    /\ \E a \in LockDeviceRevocationAuthority(db, principal, device) :
         \E f \in ListDeviceAuthorizationFamilies(db.families, a) :
           db' = [db EXCEPT
                    !.deviceRefresh = RevokeDeviceRefreshTokens(@, f),
                    !.families = RevokeDeviceTokenFamily(@, f),
                    !.authorizations = RevokeDeviceAuthorization(@, a),
                    !.devices = RevokeDeviceRecord(@, device),
                    !.sessions = RevokeDeviceBoundAccountSessions(@, a),
                    !.outbox = @ \cup {AuthorizationChanged(a, "revoked",
                                                            db.authorizations[a].version + 1)},
                    !.idem = Complete(db, principal, "revoke_device", key,
                                      <<device, session, password>>, 204, Null)]
    /\ UNCHANGED <<now, redis, req>>

-----------------------------------------------------------------------------
(* AuthorizeBundle changes nothing.  It answers an access token with the   *)
(* policy of its authorization: the stored one of a trial, and the         *)
(* standard one once the trial has become a full authorization.            *)
ValidDevicePolicy(d, a, n) ==
    \E s \in GetDevicePolicySnapshot(d.snapshots, a) :
        \/ d.authorizations[a].state = "active"
        \/ /\ d.snapshots[s].mode = "trial_restricted"
           /\ d.authorizations[a].until > n
           /\ d.snapshots[s].expires = d.authorizations[a].until

EffectiveDevicePolicy(d, a) ==
    IF d.authorizations[a].state = "active" THEN "standard" ELSE d.snapshots[a].mode

AuthorizeBundle(d, access, n) ==
    {[authorization |-> d.families[f].authorization,
      policy |-> EffectiveDevicePolicy(d, d.families[f].authorization)] :
       f \in {f \in DiscoverDeviceAccessToken(d.families, access) :
                LET family == d.families[f]
                    a == family.authorization
                    authorization == d.authorizations[a]
                IN /\ family.state = "active"
                   /\ family.accessExpires > n
                   /\ family.idle > n
                   /\ family.absolute > n
                   /\ d.devices[authorization.device].state = "active"
                   /\ ValidAuthorizationMarker(authorization, n)
                   /\ authorization.state = "provisional" => EmailPolicy = "grace"
                   /\ ValidateDeviceAccountAuthority(d, authorization.principal, n)
                   /\ ValidDevicePolicy(d, a, n)}}

(***************************************************************************)
(* The composition, and what it keeps.                                     *)
(***************************************************************************)

CONSTANTS
    Account, Email, Password,
    AccountState,  \* the state the account starts in
    Enrolled,      \* whether a device has enrolled already
    Operations,    \* the operations that are called
    MaxGrants,     \* enrollment grants that can be made
    EmailToken     \* the verification token of a pending account

vars == <<now, db, redis, req>>

(* The account has MaxSessions sessions opened at the first instant.       *)
LoggedIn ==
    LET new == NewSessionTokensUntil(1, IF AccountState = "active" THEN Null ELSE 1 + GraceTTL)
    IN [EmptyDatabase EXCEPT
          !.accounts = CreateAccount(@, Account, AccountState, 1),
          !.emails = CreateEmailIdentity(@, Email, Account, EmailToken, 1 + EmailTTL, Null),
          !.credentials = CreatePasswordCredential(@, Account, Password),
          !.sessions = [s \in 1..MaxSessions |->
                          SessionRow(Account, s, new.access, new.absolute)]]

Authority == [principal |-> Account, session |-> 1,
              policy |-> IF AccountState = "active" THEN "standard" ELSE "trial_restricted",
              until |-> IF AccountState = "active" THEN Null ELSE 1 + GraceTTL]

Init ==
    /\ now = 1
    /\ redis = [c \in 1..MaxChallenges |-> NoChallenge]
    /\ req = [r \in Requests |-> Idle]
    /\ \/ ~Enrolled /\ db = LoggedIn
       \/ /\ Enrolled
          /\ \E keys \in DeviceKeys :
               db = DeviceGraph([LoggedIn EXCEPT
                       !.grants = CreateGrant(@, 1, Account, 1, Authority.policy, Authority.until,
                                              1 + GrantTTL)], Authority, 1, keys, 1)

Tokens == Rows(db.deviceRefresh)

Next ==
    \/ TickTwo
    \/ \E k \in Keys : "verify" \in Operations /\ VerifyEmail(EmailToken, k)
    \/ \E s \in Rows(db.sessions), k \in Keys :
         /\ Cardinality(Rows(db.grants)) < MaxGrants
         /\ CreateEnrollmentGrant(Account, s, Password, k)
    \/ \E s \in Rows(db.sessions), k \in Keys :
         /\ "revoke_sessions" \in Operations
         /\ RevokeSessions(Account, s, Password, "all", Null, k)
    \/ \E s \in Rows(db.sessions), d \in Rows(db.devices), k \in Keys :
         /\ "revoke_device" \in Operations
         /\ RevokeDevice(Account, d, s, Password, k)
    \/ \E r \in Requests, g \in Rows(db.grants), keys \in DeviceKeys :
         /\ "enroll" \in Operations
         /\ \/ RegistrationChallengeBegin(r, g, keys)
            \/ \E c \in 1..MaxChallenges, k \in Keys : RegisterPreflight(r, g, c, keys, k)
    \/ \E r \in Requests, t \in Tokens :
         /\ "rotate" \in Operations
         /\ \/ RotationChallengeBegin(r, t)
            \/ \E c \in 1..MaxChallenges, k \in Keys : DeviceRotatePreflight(r, t, c, k)
    \/ \E r \in Requests : EnrollmentStep(r) \/ RotationStep(r) \/ Abandon(r)
    \/ \E c \in 1..MaxChallenges : ChallengeEvicted(c)

Spec == Init /\ [][Next]_vars

-----------------------------------------------------------------------------
TypeOK ==
    /\ now \in 1..MaxTime
    /\ \A d \in Rows(db.devices) : db.devices[d].state \in {"active", "revoked"}
    /\ \A a \in Rows(db.authorizations) :
         db.authorizations[a].state \in {"provisional", "active", "revoked"}
    /\ \A f \in Rows(db.families) : db.families[f].state \in {"active", "compromised", "revoked"}
    /\ \A t \in Tokens : db.deviceRefresh[t].state \in {"active", "used", "revoked"}
    /\ \A c \in 1..MaxChallenges : redis[c].state \in {"unissued", "present", "gone"}
    /\ OneProvisionalAuthorization(db.authorizations)

(* A grant enrolls one device, whole or not at all: a used grant names a   *)
(* device that no other grant names, with its authorization, policy, token *)
(* family, first token and event, and the session of the grant is bound to *)
(* it; and every device comes from a grant.  Two registrations on one      *)
(* grant that overlap never both commit (RegisterDevice).                  *)
EnrollmentIsWhole ==
    /\ \A g \in Rows(db.grants) : db.grants[g].consumed =>
         LET d == db.grants[g].device
         IN /\ d \in Rows(db.devices) \cap Rows(db.snapshots)
            /\ d \in Rows(db.authorizations) \cap Rows(db.families)
            /\ LockDeviceFamilyRefreshTokens(db.deviceRefresh, d) # {}
            /\ db.sessions[db.grants[g].session].device = d
            /\ \E e \in db.outbox : e.version = 1 /\ e.authorization = d
    /\ \A d \in Rows(db.devices) :
         Cardinality({g \in Rows(db.grants) : db.grants[g].device = d}) = 1

(* A challenge answers for one proof: no two requests have it at a time,   *)
(* and it is gone from Redis while one has it (Consume).                   *)
ChallengeTakenOnce ==
    \A r, s \in Requests : req[r].pc \in {"final", "rotate"} =>
        /\ redis[req[r].challenge].state = "gone"
        /\ s # r /\ req[s].pc \in {"final", "rotate"} => req[s].challenge # req[r].challenge

-----------------------------------------------------------------------------
Rotations == {k \in Rows(db.idem) : k[2] = "device_refresh" /\ db.idem[k].status = 200}

Replays == {k \in Rows(db.idem) : k[2] = "device_refresh" /\ db.idem[k].status = 401}

(* The stored answer of a rotation can be decoded again: the access token  *)
(* ends before the idle expiry and that before the absolute one, at every  *)
(* distance from the end of the family (tokensFromReplayRecord).           *)
AnswersDecode ==
    \A k \in Rotations :
        LET body == db.idem[k].body
        IN body[2] < body[3] /\ body[3] < body[4]

(* The tokens of a family form one chain, of which at most the last one is *)
(* active, and each rotation that answered 200 spent a token of its own.   *)
DeviceRefreshChain ==
    /\ \A f \in Rows(db.families) :
         LET family == ListDeviceFamilyRefreshTokens(db.deviceRefresh, f)
         IN /\ Cardinality({t \in family : db.deviceRefresh[t].previous = Null}) = 1
            /\ Cardinality({t \in family : db.deviceRefresh[t].state = "active"}) <= 1
            /\ \A t \in family : db.deviceRefresh[t].previous # Null =>
                 db.deviceRefresh[db.deviceRefresh[t].previous].state = "used"
    /\ \A j, k \in Rotations : db.idem[j].digest[1] = db.idem[k].digest[1] => j = k

(* A family is compromised only when one of its tokens was shown under two *)
(* keys, one of which has rotated it: a request that is sent again after a *)
(* lost answer, or that lost the race for its challenge, does not cost the *)
(* device its tokens.  From then on it has no active token.                *)
CompromiseHasTwoUses ==
    \A f \in Rows(db.families) : db.families[f].state = "compromised" =>
        /\ \E k \in Replays, j \in Rotations :
             /\ db.idem[k].digest[1] = db.idem[j].digest[1]
             /\ db.deviceRefresh[db.idem[j].digest[1]].family = f
        /\ \A t \in ListDeviceFamilyRefreshTokens(db.deviceRefresh, f) :
             db.deviceRefresh[t].state # "active"

OnlyLiveRotatesStep ==
    \A k \in Rows(db'.idem) \ Rows(db.idem) :
      k[2] = "device_refresh" /\ db'.idem[k].status = 200 =>
        LET t == db'.idem[k].digest[1]
            f == db.deviceRefresh[t].family
        IN /\ db.deviceRefresh[t].state = "active"
           /\ db.families[f].state = "active"
           /\ \E r \in Requests : req[r].pc = "rotate" /\ req[r].authority = RefreshAuthority(f)

(* A rotation commits only on the graph its proof was checked on, still in *)
(* force: no revocation, replay, verification or other rotation has come   *)
(* between (RotateDeviceToken, last transaction).                          *)
OnlyLiveRotates == [][OnlyLiveRotatesStep]_vars

(* A revoked device is cut off at once: none of its refresh tokens is      *)
(* active, none of its access tokens is honoured, and no session bound to  *)
(* it is active (RevokeDevice).                                            *)
RevokedDeviceIsDead ==
    \A a \in Rows(db.authorizations) : db.authorizations[a].state = "revoked" =>
        /\ \A f \in ListDeviceAuthorizationFamilies(db.families, a) :
             /\ AuthorizeBundle(db, db.families[f].access, now) = {}
             /\ \A t \in ListDeviceFamilyRefreshTokens(db.deviceRefresh, f) :
                  db.deviceRefresh[t].state # "active"
        /\ \A s \in Rows(db.sessions) : db.sessions[s].device = a => db.sessions[s].state # "active"

-----------------------------------------------------------------------------
(* What a pending account lends to a device ends with its grace: a bundle  *)
(* is authorised only before the deadline, under the restricted policy,    *)
(* and for one device.                                                     *)
TrialEndsWithGrace ==
    db.accounts[Account].state = "pending_email" =>
        LET live == UNION {AuthorizeBundle(db, db.families[f].access, now) : f \in Rows(db.families)}
        IN /\ live # {} => now < AccountFixedGraceDeadline(db.accounts[Account])
           /\ \A b \in live : b.policy = "trial_restricted"
           /\ Cardinality(Rows(db.devices)) <= 1

(* The expiries handed out under a trial do not pass its end, wherever the *)
(* clock stood when they were made: of access tokens while the             *)
(* authorization is provisional, and of the challenges asked for then.     *)
TrialExpiriesAreCapped ==
    \A a \in Rows(db.authorizations) : db.authorizations[a].state = "provisional" =>
        /\ \A f \in ListDeviceAuthorizationFamilies(db.families, a) :
             db.families[f].accessExpires <= db.authorizations[a].until
        /\ \A c \in 1..MaxChallenges : redis[c].kind = "rotation" =>
             redis[c].expires <= db.authorizations[a].until

EndedTrialStaysEndedStep ==
    \A a \in Rows(db.authorizations) :
      db.authorizations[a].state = "provisional" /\ db.authorizations[a].until < now =>
        db'.authorizations[a].state # "active"

(* A trial that has run out stays so: verifying the address afterwards     *)
(* makes the account active and leaves the device where it was             *)
(* (ActivateProvisionalAuthorization).                                     *)
EndedTrialStaysEnded == [][EndedTrialStaysEndedStep]_vars

(* Under grace an open grant of a trial can enroll a device: what          *)
(* CreateEnrollmentGrant took from the account's creation time is what     *)
(* policyForAuthority accepts.                                             *)
TrialGrantsEnroll ==
    \A g \in Rows(db.grants) : \A a \in EnrollmentAuthority(db, g, now) : PolicyForAuthority(a, now)
=============================================================================
