--------------------------- MODULE IdentityStore ----------------------------
(***************************************************************************)
(* The tables of PostgreSQL that hold accounts, sessions, factors and      *)
(* devices, the queries of internal/store/identity.sql.go and              *)
(* deviceauth.sql.go, and the state and helpers the handlers of            *)
(* internal/identity and internal/deviceauth share. A table is a function  *)
(* from keys to rows; a query that changes rows returns the new table, so  *)
(* that the rows it affected are those on which the two tables differ.     *)
(* Tokens, codes and identifiers stand for their digests; 0 is NULL.       *)
(*                                                                         *)
(* PostgreSQL is one record of tables: a transaction that commits replaces *)
(* it, one that fails leaves it alone. A handler whose work is one         *)
(* transaction is one action, since it locks every row it reads before it  *)
(* decides (module RowLocks); a handler that also calls Redis has one      *)
(* action per transaction and per call.                                    *)
(*                                                                         *)
(* Time is counted in ticks. A refusal (malformed request, authentication  *)
(* failure, idempotency conflict, unavailable dependency) changes nothing  *)
(* and is a stuttering step unless the handler has steps left.             *)
(***************************************************************************)
EXTENDS Naturals, FiniteSets, FiniteSetsExt, TLC, IdempotencyRecords

Null == 0

Rows(table) == DOMAIN table

Insert(table, key, row) == (key :> row) @@ table

(* UPDATE ... WHERE: the rows that satisfy the condition are changed.      *)
UpdateWhere(table, Where(_, _), Set(_)) ==
    [k \in Rows(table) |-> IF Where(k, table[k]) THEN Set(table[k]) ELSE table[k]]

(* The number of rows an UPDATE has changed is told from zero by this.     *)
Affected(before, after) == {k \in Rows(after) : k \notin Rows(before) \/ before[k] # after[k]}

-----------------------------------------------------------------------------
(* accounts                                                                *)

AccountRow(state, at) == [state |-> state, createdAt |-> at]

CreateAccount(accounts, id, state, at) == Insert(accounts, id, AccountRow(state, at))

ActivateVerifiedAccount(accounts, id) ==
    LET Where(k, row) == k = id /\ row.state = "pending_email"
        Set(row) == [row EXCEPT !.state = "active"]
    IN UpdateWhere(accounts, Where, Set)

(* email_identities, by lookup digest                                      *)

EmailRow(principal, token, expires, delivery) ==
    [principal |-> principal, token |-> token, expires |-> expires, consumed |-> FALSE,
     delivery |-> delivery, verified |-> FALSE]

CreateEmailIdentity(emails, digest, principal, token, expires, delivery) ==
    Insert(emails, digest, EmailRow(principal, token, expires, delivery))

(* The lookup with and without a row lock reads the same row.              *)
FindIdentityByLookupDigest(emails, digest) == {e \in Rows(emails) : e = digest}

FindIdentityByLookupDigestRead(emails, digest) == {e \in Rows(emails) : e = digest}

GetEmailVerificationForUpdate(emails, token) == {e \in Rows(emails) : emails[e].token = token}

ConsumeEmailVerification(emails, principal, token, at) ==
    LET Where(k, row) == /\ row.principal = principal
                         /\ row.token = token
                         /\ ~row.consumed
                         /\ row.expires >= at
        Set(row) == [row EXCEPT !.consumed = TRUE, !.verified = TRUE]
    IN UpdateWhere(emails, Where, Set)

ResetEmailVerification(emails, principal, token, expires, delivery) ==
    LET Where(k, row) == row.principal = principal /\ ~row.verified
        Set(row) == [row EXCEPT !.token = token, !.expires = expires, !.consumed = FALSE,
                                !.delivery = delivery]
    IN UpdateWhere(emails, Where, Set)

GetPendingEmailDelivery(emails, delivery) ==
    {e \in Rows(emails) : emails[e].delivery = delivery /\ ~emails[e].consumed}

(* Mutant: whatever delivery is pending is cleared.                        *)
ClearAnyEmailDelivery(emails, delivery) ==
    [e \in Rows(emails) |-> [emails[e] EXCEPT !.delivery = Null]]

ClearPendingEmailDelivery(emails, delivery) ==
    LET Where(k, row) == row.delivery = delivery
        Set(row) == [row EXCEPT !.delivery = Null]
    IN UpdateWhere(emails, Where, Set)

(* password_credentials, by principal                                      *)

CredentialRow(password) ==
    [password |-> password, reset |-> Null, expires |-> 0, consumed |-> FALSE, delivery |-> Null]

CreatePasswordCredential(credentials, principal, password) ==
    Insert(credentials, principal, CredentialRow(password))

GetPasswordCredential(credentials, principal) == {c \in Rows(credentials) : c = principal}

GetPasswordResetForUpdate(credentials, reset) ==
    {c \in Rows(credentials) : credentials[c].reset = reset}

UpdatePasswordCredential(credentials, principal, password) ==
    LET Where(k, row) == k = principal
        Set(row) == [row EXCEPT !.password = password]
    IN UpdateWhere(credentials, Where, Set)

SetPasswordReset(credentials, principal, reset, expires, delivery) ==
    LET Where(k, row) == k = principal
        Set(row) == [row EXCEPT !.reset = reset, !.expires = expires, !.consumed = FALSE,
                                !.delivery = delivery]
    IN UpdateWhere(credentials, Where, Set)

GetPendingPasswordResetDelivery(credentials, delivery) ==
    {c \in Rows(credentials) : credentials[c].delivery = delivery /\ ~credentials[c].consumed}

ClearPendingPasswordResetDelivery(credentials, delivery) ==
    LET Where(k, row) == row.delivery = delivery
        Set(row) == [row EXCEPT !.delivery = Null]
    IN UpdateWhere(credentials, Where, Set)

ConsumePasswordReset(credentials, principal, reset, password, at) ==
    LET Where(k, row) == /\ k = principal
                         /\ row.reset = reset
                         /\ ~row.consumed
                         /\ row.expires >= at
        Set(row) == [row EXCEPT !.password = password, !.consumed = TRUE, !.delivery = Null]
    IN UpdateWhere(credentials, Where, Set)

-----------------------------------------------------------------------------
(* account_sessions                                                        *)

SessionRow(principal, access, accessExpires, absolute) ==
    [principal |-> principal, state |-> "active", access |-> access,
     accessExpires |-> accessExpires, absolute |-> absolute, device |-> Null]

CreateAccountSession(sessions, id, principal, access, accessExpires, absolute) ==
    Insert(sessions, id, SessionRow(principal, access, accessExpires, absolute))

GetAccountSessionForUpdate(sessions, id, principal) ==
    {s \in Rows(sessions) : s = id /\ sessions[s].principal = principal}

LockPrincipalAccountSessions(sessions, principal) ==
    {s \in Rows(sessions) : sessions[s].principal = principal}

FindAccountAccessToken(sessions, access) ==
    {s \in Rows(sessions) : sessions[s].access = access}

RotateAccountSessionAccess(sessions, id, access, accessExpires, at) ==
    LET Where(k, row) == k = id /\ row.state = "active" /\ row.absolute >= at
        Set(row) == [row EXCEPT !.access = access, !.accessExpires = accessExpires]
    IN UpdateWhere(sessions, Where, Set)

MarkAccountSessionCompromised(sessions, id) ==
    LET Where(k, row) == k = id /\ row.state \in {"active", "review_required"}
        Set(row) == [row EXCEPT !.state = "compromised"]
    IN UpdateWhere(sessions, Where, Set)

MarkPrincipalSessionsReviewRequired(sessions, ids) ==
    LET Where(k, row) == k \in ids /\ row.state = "active"
        Set(row) == [row EXCEPT !.state = "review_required"]
    IN UpdateWhere(sessions, Where, Set)

(* The statement revokes the tokens it names and the sessions it names.    *)
RevokePrincipalAccountSessions(sessions, ids) ==
    LET Where(k, row) == k \in ids /\ row.state \in {"active", "review_required"}
        Set(row) == [row EXCEPT !.state = "revoked"]
    IN UpdateWhere(sessions, Where, Set)

(* account_refresh_tokens                                                  *)

RefreshRow(session, previous, idle, absolute) ==
    [session |-> session, previous |-> previous, state |-> "active", idle |-> idle,
     absolute |-> absolute]

InsertAccountRefreshToken(refresh, token, session, previous, idle, absolute) ==
    Insert(refresh, token, RefreshRow(session, previous, idle, absolute))

DiscoverRefreshToken(refresh, token) == {t \in Rows(refresh) : t = token}

LockSessionRefreshTokens(refresh, session) == {t \in Rows(refresh) : refresh[t].session = session}

MarkAccountRefreshUsed(refresh, token) ==
    LET Where(k, row) == k = token /\ row.state = "active"
        Set(row) == [row EXCEPT !.state = "used"]
    IN UpdateWhere(refresh, Where, Set)

RevokeAccountRefreshTokens(refresh, tokens) ==
    LET Where(k, row) == k \in tokens /\ row.state = "active"
        Set(row) == [row EXCEPT !.state = "revoked"]
    IN UpdateWhere(refresh, Where, Set)

(***************************************************************************)
(* Devices, their authorizations and token families.                       *)
(***************************************************************************)

-----------------------------------------------------------------------------
(* enrollment_grants, by token digest                                      *)

GrantRow(principal, session, policy, until, expires) ==
    [principal |-> principal, session |-> session, policy |-> policy,
     provisionalUntil |-> until, expires |-> expires, consumed |-> FALSE, device |-> Null]

CreateGrant(grants, token, principal, session, policy, until, expires) ==
    Insert(grants, token, GrantRow(principal, session, policy, until, expires))

GetGrantForChallenge(grants, token, at) ==
    {g \in Rows(grants) : g = token /\ ~grants[g].consumed /\ grants[g].expires >= at}

ConsumeEnrollmentGrant(grants, token, device, at) ==
    LET Where(k, row) == k = token /\ ~row.consumed /\ row.expires >= at
        Set(row) == [row EXCEPT !.consumed = TRUE, !.device = device]
    IN UpdateWhere(grants, Where, Set)

-----------------------------------------------------------------------------
(* devices: a principal registers no key twice                             *)

DeviceRow(principal, keys) == [principal |-> principal, keys |-> keys, state |-> "active"]

DeviceKeysFree(devices, principal, keys) ==
    \A d \in Rows(devices) : devices[d].principal = principal => devices[d].keys # keys

CreateDevice(devices, id, principal, keys) == Insert(devices, id, DeviceRow(principal, keys))

RevokeDeviceRecord(devices, id) ==
    LET Where(k, row) == k = id /\ row.state \in {"active", "suspended"}
        Set(row) == [row EXCEPT !.state = "revoked"]
    IN UpdateWhere(devices, Where, Set)

(* device_authorizations: one per device, and at most one provisional      *)
(* authorization of a principal                                            *)

AuthorizationRow(principal, device, state, until) ==
    [principal |-> principal, device |-> device, state |-> state, version |-> 1, until |-> until]

OneProvisionalAuthorization(authorizations) ==
    \A a, b \in Rows(authorizations) :
        /\ authorizations[a].principal = authorizations[b].principal
        /\ authorizations[a].state = "provisional"
        /\ authorizations[b].state = "provisional"
        => a = b

CreateDeviceAuthorization(authorizations, id, principal, device, state, until) ==
    Insert(authorizations, id, AuthorizationRow(principal, device, state, until))

DiscoverDeviceAuthorization(authorizations, device) ==
    {a \in Rows(authorizations) : authorizations[a].device = device}

ActivateProvisionalAuthorization(authorizations, principal, at) ==
    LET Where(k, row) == /\ row.principal = principal
                         /\ row.state = "provisional"
                         /\ row.until >= at
        Set(row) == [row EXCEPT !.state = "active", !.version = @ + 1, !.until = Null]
    IN UpdateWhere(authorizations, Where, Set)

RevokeDeviceAuthorization(authorizations, id) ==
    LET Where(k, row) == k = id /\ row.state \in {"provisional", "active", "suspended"}
        Set(row) == [row EXCEPT !.state = "revoked", !.version = @ + 1]
    IN UpdateWhere(authorizations, Where, Set)

(* device_policy_snapshots, by authorization                               *)

PolicySnapshotRow(mode, until) == [mode |-> mode, expires |-> until]

CreateDevicePolicySnapshot(snapshots, authorization, mode, until) ==
    Insert(snapshots, authorization, PolicySnapshotRow(mode, until))

GetDevicePolicySnapshot(snapshots, authorization) == {s \in Rows(snapshots) : s = authorization}

-----------------------------------------------------------------------------
(* device_token_families                                                   *)

FamilyRow(authorization, access, accessExpires, idle, absolute) ==
    [authorization |-> authorization, state |-> "active", version |-> 1, access |-> access,
     accessExpires |-> accessExpires, idle |-> idle, absolute |-> absolute]

CreateDeviceTokenFamily(families, id, authorization, access, accessExpires, idle, absolute) ==
    Insert(families, id, FamilyRow(authorization, access, accessExpires, idle, absolute))

ListDeviceAuthorizationFamilies(families, authorization) ==
    {f \in Rows(families) : families[f].authorization = authorization}

DiscoverDeviceAccessToken(families, access) ==
    {f \in Rows(families) : families[f].access = access}

RotateDeviceFamilyAccess(families, id, access, accessExpires, idle, at) ==
    LET Where(k, row) == k = id /\ row.state = "active" /\ row.idle >= at /\ row.absolute >= at
        Set(row) == [row EXCEPT !.access = access, !.accessExpires = accessExpires,
                                !.idle = idle, !.version = @ + 1]
    IN UpdateWhere(families, Where, Set)

CompromiseDeviceTokenFamily(families, id) ==
    LET Where(k, row) == k = id /\ row.state = "active"
        Set(row) == [row EXCEPT !.state = "compromised", !.version = @ + 1]
    IN UpdateWhere(families, Where, Set)

RevokeDeviceTokenFamily(families, id) ==
    LET Where(k, row) == k = id /\ row.state \in {"active", "compromised"}
        Set(row) == [row EXCEPT !.state = "revoked", !.version = @ + 1]
    IN UpdateWhere(families, Where, Set)

(* device_refresh_tokens                                                   *)

DeviceRefreshRow(family, previous) ==
    [family |-> family, previous |-> previous, state |-> "active"]

InsertDeviceRefreshToken(tokens, token, family, previous) ==
    Insert(tokens, token, DeviceRefreshRow(family, previous))

DiscoverDeviceRefreshToken(tokens, token) == {t \in Rows(tokens) : t = token}

(* The statements with and without row locks name the same rows.           *)
LockDeviceFamilyRefreshTokens(tokens, family) ==
    {t \in Rows(tokens) : tokens[t].family = family}

ListDeviceFamilyRefreshTokens(tokens, family) ==
    {t \in Rows(tokens) : tokens[t].family = family}

MarkDeviceRefreshUsed(tokens, token) ==
    LET Where(k, row) == k = token /\ row.state = "active"
        Set(row) == [row EXCEPT !.state = "used"]
    IN UpdateWhere(tokens, Where, Set)

RevokeDeviceRefreshTokens(tokens, family) ==
    LET Where(k, row) == row.family = family /\ row.state = "active"
        Set(row) == [row EXCEPT !.state = "revoked"]
    IN UpdateWhere(tokens, Where, Set)

-----------------------------------------------------------------------------
(* The columns of account_sessions that device authorisation writes.       *)

BindAccountSessionToAuthorization(sessions, id, authorization) ==
    LET Where(k, row) == k = id /\ row.state = "active" /\ row.device = Null
        Set(row) == [row EXCEPT !.device = authorization]
    IN UpdateWhere(sessions, Where, Set)

RevokeDeviceBoundAccountSessions(sessions, authorization) ==
    LET Where(k, row) == row.device = authorization /\ row.state \in {"active", "review_required"}
        Set(row) == [row EXCEPT !.state = "revoked"]
    IN UpdateWhere(sessions, Where, Set)

(***************************************************************************)
(* The state of the handlers, and the helpers they share.                  *)
(***************************************************************************)

CONSTANTS
    Keys,          \* idempotency keys
    Passwords,     \* passwords
    EmailPolicy,   \* "disabled", "grace" or "required"
    AccessTTL, IdleTTL, AbsoluteTTL, ChallengeTTL, GraceTTL,
    MaxTime,       \* the clock stops here
    MaxSessions,   \* sessions that can be created
    MaxTokens,     \* refresh tokens that can be issued
    MaxChallenges  \* rotation challenges that can be issued

VARIABLES
    now,    \* the clock
    db,     \* the tables of PostgreSQL
    redis,  \* the rotation challenges of Redis
    req     \* the requests in progress

(* The scope of a key: the principal, or anonymous, and the operation.     *)
RecordOf(d, principal, operation, key) ==
    IF <<principal, operation, key>> \in Rows(d.idem)
    THEN d.idem[<<principal, operation, key>>]
    ELSE NoRecord

BeginIdempotency(d, principal, operation, key, digest) ==
    Begin(RecordOf(d, principal, operation, key), digest)

Complete(d, principal, operation, key, digest, status, body) ==
    Insert(d.idem, <<principal, operation, key>>, Completed(digest, status, body))

InsertSecurityEvent(d, category, subject) == d.events \cup {<<category, subject>>}

-----------------------------------------------------------------------------
(* An account in its fixed grace may act until this instant.               *)
AccountFixedGraceDeadline(account) == account.createdAt + GraceTTL

(* Whether the account may act now, and the deadline of what it obtains.   *)
AuthorityEligible(account, n) ==
    \/ account.state = "active"
    \/ /\ account.state = "pending_email"
       /\ EmailPolicy = "grace"
       /\ account.createdAt <= n
       /\ AccountFixedGraceDeadline(account) > n

AuthorityDeadline(account) ==
    IF account.state = "pending_email" THEN AccountFixedGraceDeadline(account) ELSE Null

(* The expiries of a new session, none later than the deadline.            *)
NewSessionTokensUntil(n, deadline) ==
    LET Cap(t) == IF deadline # Null /\ t > deadline THEN deadline ELSE t
    IN [access |-> Cap(n + AccessTTL), idle |-> Cap(n + IdleTTL),
        absolute |-> Cap(n + AbsoluteTTL)]

(* The expiries of a rotated session, none later than its absolute one.    *)
NewRotatedSessionTokens(n, absolute) ==
    LET Cap(t) == IF t > absolute THEN absolute ELSE t
    IN [access |-> Cap(n + AccessTTL), idle |-> Cap(n + IdleTTL), absolute |-> absolute]

NextSession(d) == Cardinality(Rows(d.sessions)) + 1

(* The access and the refresh token of one issue have the same number.     *)
NextToken(d) == Cardinality(Rows(d.refresh)) + 1

IssueAccountSessionUntil(d, principal, n, deadline) ==
    LET new == NewSessionTokensUntil(n, deadline)
        session == NextSession(d)
        token == NextToken(d)
    IN [d EXCEPT
          !.sessions = CreateAccountSession(@, session, principal, token, new.access, new.absolute),
          !.refresh = InsertAccountRefreshToken(@, token, session, Null, new.idle, new.absolute)]

CanIssueSession(d) == NextSession(d) <= MaxSessions /\ NextToken(d) <= MaxTokens

(* The lock of a principal's tokens, sessions and account returns the      *)
(* sessions; its caller has seen every one of them (module RowLocks).      *)
LockPrincipalRefreshAuthority(d, principal) ==
    LockPrincipalAccountSessions(d.sessions, principal)

FindLockedAccountSession(d, session, principal) ==
    session \in LockPrincipalAccountSessions(d.sessions, principal)

(* The password proof that guards account changes.                         *)
VerifyLockedPasswordReauthentication(d, principal, session, password, n) ==
    /\ GetPasswordCredential(d.credentials, principal) # {}
    /\ GetAccountSessionForUpdate(d.sessions, session, principal) # {}
    /\ d.accounts[principal].state = "active"
    /\ d.sessions[session].state = "active"
    /\ d.sessions[session].accessExpires > n
    /\ d.sessions[session].absolute > n
    /\ d.credentials[principal].password = password

-----------------------------------------------------------------------------
Idle == [pc |-> "idle"]

Unissued == [state |-> "unissued", token |-> Null, expires |-> 0]

EmptyDatabase ==
    [accounts |-> <<>>, emails |-> <<>>, credentials |-> <<>>, sessions |-> <<>>,
     refresh |-> <<>>, idem |-> <<>>, grants |-> <<>>, events |-> {}, outbox |-> {},
     devices |-> <<>>, authorizations |-> <<>>, snapshots |-> <<>>, families |-> <<>>,
     deviceRefresh |-> <<>>]

Tick ==
    /\ now < MaxTime
    /\ now' = now + 1
    /\ UNCHANGED <<db, redis, req>>

(***************************************************************************)
(* The factors of an account: TOTP secrets, recovery code sets and         *)
(* passkeys.                                                               *)
(***************************************************************************)

(* totp_credentials, by principal.  Step 0 is no step.                     *)

TotpRow(secret) == [secret |-> secret, state |-> "pending", step |-> 0]

GetTOTPForUpdate(totp, principal) == {t \in Rows(totp) : t = principal}

(* A factor that is pending or active is not replaced.                     *)
CreateTOTPEnrollment(totp, principal, secret) ==
    IF principal \in Rows(totp) /\ totp[principal].state # "revoked" THEN totp
    ELSE Insert(totp, principal, TotpRow(secret))

ActivateTOTP(totp, principal) ==
    LET Where(k, row) == k = principal /\ row.state = "pending"
        Set(row) == [row EXCEPT !.state = "active"]
    IN UpdateWhere(totp, Where, Set)

AcceptTOTPStep(totp, principal, step) ==
    LET Where(k, row) == k = principal /\ row.state = "active" /\ row.step < step
        Set(row) == [row EXCEPT !.step = step]
    IN UpdateWhere(totp, Where, Set)

RevokeTOTPFactor(totp, principal) ==
    LET Where(k, row) == k = principal /\ row.state \in {"pending", "active"}
        Set(row) == [row EXCEPT !.state = "revoked"]
    IN UpdateWhere(totp, Where, Set)

-----------------------------------------------------------------------------
(* recovery_code_sets, by identifier: the generation is unique.            *)

RecoverySetRow(principal, codes) == [principal |-> principal, codes |-> codes, state |-> "active"]

GetActiveRecoveryCodeSetForUpdate(sets, principal) ==
    {g \in Rows(sets) : sets[g].principal = principal /\ sets[g].state = "active"}

GetNextRecoveryCodeGeneration(sets, principal) ==
    1 + Max({0} \cup {g \in Rows(sets) : sets[g].principal = principal})

CreateRecoveryCodeSet(sets, generation, principal, codes) ==
    Insert(sets, generation, RecoverySetRow(principal, codes))

(* The code leaves the set, and the set that becomes empty is exhausted.   *)
ConsumeRecoveryCodeOf(sets, generation, code) ==
    LET Where(k, row) == k = generation /\ row.state = "active" /\ code \in row.codes
        Set(row) == [row EXCEPT !.codes = @ \ {code},
                                !.state = IF row.codes = {code} THEN "exhausted" ELSE @]
    IN UpdateWhere(sets, Where, Set)

(* The constraint on the table: no set has no codes.                       *)
CodeHashesCheck(sets) == \A g \in Rows(sets) : sets[g].codes # {}

RevokeRecoveryCodeSets(sets, principal, state) ==
    LET Where(k, row) == row.principal = principal /\ row.state = "active"
        Set(row) == [row EXCEPT !.state = state]
    IN UpdateWhere(sets, Where, Set)

-----------------------------------------------------------------------------
(* passkey_credentials, by credential.                                     *)

PasskeyRow(principal, count) == [principal |-> principal, count |-> count, state |-> "active"]

ListActivePasskeys(passkeys, principal) ==
    {c \in Rows(passkeys) : passkeys[c].principal = principal /\ passkeys[c].state = "active"}

CreatePasskeyCredential(passkeys, credential, principal, count) ==
    Insert(passkeys, credential, PasskeyRow(principal, count))

UpdatePasskeyCounter(passkeys, credential, principal, count) ==
    LET Where(k, row) == /\ k = credential
                         /\ row.principal = principal
                         /\ row.state = "active"
                         /\ row.count < count \/ (row.count = 0 /\ count = 0)
        Set(row) == [row EXCEPT !.count = count]
    IN UpdateWhere(passkeys, Where, Set)

RevokePasskeyCredential(passkeys, credential, principal) ==
    LET Where(k, row) == k = credential /\ row.principal = principal /\ row.state = "active"
        Set(row) == [row EXCEPT !.state = "revoked"]
    IN UpdateWhere(passkeys, Where, Set)

-----------------------------------------------------------------------------
(* One active account with a password and an open session.                 *)
ActiveAccount(password) ==
    LET d == [EmptyDatabase EXCEPT
                !.accounts = CreateAccount(@, 1, "active", 0),
                !.emails = CreateEmailIdentity(@, 1, 1, Null, 0, Null),
                !.credentials = CreatePasswordCredential(@, 1, password)]
    IN IssueAccountSessionUntil(d, 1, 1, Null) @@
         [totp |-> <<>>, recovery |-> <<>>, passkeys |-> <<>>]

(* loadPasswordReauthenticationCredential, the lock of the factor and      *)
(* verifyLockedPasswordReauthentication, as every handler does.            *)
Reauthenticated(session, password) ==
    \E s \in Rows(db.sessions) :
        /\ s = session
        /\ VerifyLockedPasswordReauthentication(db, db.sessions[s].principal, s, password, now)
=============================================================================
