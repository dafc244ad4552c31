-------------------------- MODULE AccountHandlers ---------------------------
(***************************************************************************)
(* The handlers of internal/identity that need only PostgreSQL:            *)
(* registration, email verification, password reset and enrollment grants  *)
(* (register.go, email_verification.go), and CreateSession,                *)
(* RevokeSessions, ChangePassword and Authenticate (session.go). Each is   *)
(* one transaction. A delivery, its one-time token and its outbox event    *)
(* are made together and share one number.                                 *)
(***************************************************************************)
EXTENDS IdentityStore

CONSTANTS
    EmailTTL, ResetTTL, GrantTTL,
    MaxDeliveries  \* deliveries that can be requested

VerifyEmailTemplate == "verify_email"

ResetPasswordTemplate == "reset_password"

(* The key scope of requests without a principal.                          *)
Anonymous == Null

(* The outbox event of a delivery.                                         *)
EmailDeliveryEvent(delivery, template) == [delivery |-> delivery, template |-> template]

NewProtectedDelivery(d) == Cardinality(d.outbox) + 1

CanDeliver(d) == NewProtectedDelivery(d) <= MaxDeliveries

-----------------------------------------------------------------------------
(* A known address is answered like a new one, and nothing is created.     *)
RegisterExisting(email, password, key) ==
    /\ FindIdentityByLookupDigest(db.emails, email) # {}
    /\ BeginIdempotency(db, Anonymous, "register_account", key, <<email, password>>) = "started"
    /\ db' = [db EXCEPT !.idem = Complete(db, Anonymous, "register_account", key,
                                          <<email, password>>, 202, Null)]
    /\ UNCHANGED <<now, redis, req>>

(* The advisory lock on the address lets one registration of it pass at a  *)
(* time, so that the lookup and the inserts are one step.                  *)
RegisterNew(email, password, key) ==
    /\ FindIdentityByLookupDigest(db.emails, email) = {}
    /\ BeginIdempotency(db, Anonymous, "register_account", key, <<email, password>>) = "started"
    /\ EmailPolicy # "disabled" => CanDeliver(db)
    /\ LET p == Cardinality(Rows(db.accounts)) + 1
           verify == EmailPolicy # "disabled"
           delivery == IF verify THEN NewProtectedDelivery(db) ELSE Null
       IN db' = [db EXCEPT
                   !.accounts = CreateAccount(@, p, IF verify THEN "pending_email" ELSE "active", now),
                   !.emails = CreateEmailIdentity(@, email, p, delivery,
                                                  IF verify THEN now + EmailTTL ELSE 0, delivery),
                   !.credentials = CreatePasswordCredential(@, p, password),
                   !.events = InsertSecurityEvent(db, "account_registered", p),
                   !.outbox = IF verify
                              THEN @ \cup {EmailDeliveryEvent(delivery, VerifyEmailTemplate)} ELSE @,
                   !.idem = Complete(db, Anonymous, "register_account", key, <<email, password>>,
                                     202, Null)]
    /\ UNCHANGED <<now, redis, req>>

RegisterAccount(email, password, key) ==
    RegisterExisting(email, password, key) \/ RegisterNew(email, password, key)

-----------------------------------------------------------------------------
(* Which addresses get a delivery: an unverified one of a pending account, *)
(* or one whose account has a password.                                    *)
DeliveryEligible(email, template) ==
    /\ FindIdentityByLookupDigest(db.emails, email) # {}
    /\ LET row == db.emails[email]
           account == db.accounts[row.principal]
       IN \/ /\ template = VerifyEmailTemplate
             /\ EmailPolicy # "disabled"
             /\ account.state = "pending_email"
             /\ ~row.verified
          \/ /\ template = ResetPasswordTemplate
             /\ GetPasswordCredential(db.credentials, row.principal) # {}
             /\ account.state \in {"active", "pending_email"}

(* The new token replaces the one before it, its delivery included.        *)
WithDelivery(email, template) ==
    LET p == db.emails[email].principal
        delivery == NewProtectedDelivery(db)
    IN [db EXCEPT
          !.emails = IF template = VerifyEmailTemplate
                     THEN ResetEmailVerification(@, p, delivery, now + EmailTTL, delivery) ELSE @,
          !.credentials = IF template = ResetPasswordTemplate
                          THEN SetPasswordReset(@, p, delivery, now + ResetTTL, delivery) ELSE @,
          !.outbox = @ \cup {EmailDeliveryEvent(delivery, template)}]

(* createDelivery answers every address alike.                             *)
CreateDelivery(email, template, key) ==
    /\ BeginIdempotency(db, Anonymous, template, key, email) = "started"
    /\ DeliveryEligible(email, template) => CanDeliver(db)
    /\ LET d == IF DeliveryEligible(email, template) THEN WithDelivery(email, template) ELSE db
       IN db' = [d EXCEPT !.idem = Complete(db, Anonymous, template, key, email, 202, Null)]
    /\ UNCHANGED <<now, redis, req>>

-----------------------------------------------------------------------------
(* VerifyEmail consumes the token, drops its pending delivery, and makes   *)
(* the account active, with the device it has on trial.                    *)
VerifyEmail(token, key) ==
    \E e \in GetEmailVerificationForUpdate(db.emails, token) :
        LET p == db.emails[e].principal
            consumed == ConsumeEmailVerification(db.emails, p, token, now)
            activated == ActivateVerifiedAccount(db.accounts, p)
        IN /\ BeginIdempotency(db, p, "verify_email", key, token) = "started"
           /\ ~db.emails[e].consumed
           /\ db.emails[e].expires >= now
           /\ Affected(db.emails, consumed) # {}
           /\ Affected(db.accounts, activated) # {}
           /\ db' = [db EXCEPT
                       !.emails = IF db.emails[e].delivery = Null THEN consumed
                                  ELSE ClearPendingEmailDelivery(consumed, db.emails[e].delivery),
                       !.accounts = activated,
                       !.authorizations = ActivateProvisionalAuthorization(@, p, now),
                       !.idem = Complete(db, p, "verify_email", key, token, 204, Null)]
           /\ UNCHANGED <<now, redis, req>>

(* The sessions of the principal are put under review.                     *)
ReviewAfterReset(d, p) ==
    MarkPrincipalSessionsReviewRequired(d.sessions, LockPrincipalRefreshAuthority(d, p))

(* ResetPassword consumes the token and opens a session, bounded by the    *)
(* grace of an account that is still pending.                              *)
ResetPassword(email, token, password, key) ==
    \E p \in GetPasswordResetForUpdate(db.credentials, token) :
        LET digest == <<email, token, password>>
            consumed == ConsumePasswordReset(db.credentials, p, token, password, now)
        IN /\ FindIdentityByLookupDigestRead(db.emails, email) # {}
           /\ db.emails[email].principal = p
           /\ CanIssueSession(db)
           /\ BeginIdempotency(db, p, "reset_password", key, digest) = "started"
           /\ AuthorityEligible(db.accounts[p], now)
           /\ Affected(db.credentials, consumed) # {}
           /\ LET d == IssueAccountSessionUntil(
                         [db EXCEPT !.credentials = consumed, !.sessions = ReviewAfterReset(db, p)],
                         p, now, AuthorityDeadline(db.accounts[p]))
              IN db' = [d EXCEPT !.events = InsertSecurityEvent(d, "password_reset", p),
                                 !.idem = Complete(d, p, "reset_password", key, digest, 200,
                                                   NextToken(db))]
           /\ UNCHANGED <<now, redis, req>>

-----------------------------------------------------------------------------
GrantExpiry(deadline) ==
    IF deadline # Null /\ now + GrantTTL > deadline THEN deadline ELSE now + GrantTTL

(* CreateEnrollmentGrant: an active session proves its password and gets   *)
(* the capability to enroll one device; an account in grace gets a         *)
(* restricted one.                                                         *)
CreateEnrollmentGrant(p, session, password, key) ==
    LET account == db.accounts[p]
        row == db.sessions[session]
        deadline == AuthorityDeadline(account)
        grant == Cardinality(Rows(db.grants)) + 1
    IN /\ FindLockedAccountSession(db, session, p)
       /\ db.credentials[p].password = password
       /\ BeginIdempotency(db, p, "create_enrollment_grant", key, <<session, password>>) = "started"
       /\ row.state = "active"
       /\ row.accessExpires > now
       /\ row.absolute > now
       /\ AuthorityEligible(account, now)
       /\ deadline # Null => row.absolute = deadline /\ row.accessExpires <= deadline
       /\ db' = [db EXCEPT
                   !.grants = CreateGrant(@, grant, p, session,
                                IF deadline = Null THEN "standard" ELSE "trial_restricted",
                                deadline, GrantExpiry(deadline)),
                   !.idem = Complete(db, p, "create_enrollment_grant", key, <<session, password>>,
                                     200, grant)]
       /\ UNCHANGED <<now, redis, req>>

(***************************************************************************)
(* Sessions.                                                               *)
(***************************************************************************)

(* CreateSession with a password.  A stored credential of an older policy  *)
(* is hashed again, which keeps the password.                              *)
CreateSession(email, password, key) ==
    /\ FindIdentityByLookupDigestRead(db.emails, email) # {}
    /\ CanIssueSession(db)
    /\ LET p == db.emails[email].principal
           digest == <<email, password>>
           account == db.accounts[p]
       IN /\ GetPasswordCredential(db.credentials, p) # {}
          /\ db.credentials[p].password = password
          /\ BeginIdempotency(db, p, "create_account_session", key, digest) = "started"
          /\ AuthorityEligible(account, now)
          /\ LET d == IssueAccountSessionUntil(db, p, now, AuthorityDeadline(account))
             IN db' = [d EXCEPT !.idem = Complete(d, p, "create_account_session", key, digest,
                                                  200, NextToken(db))]
    /\ UNCHANGED <<now, redis, req>>

-----------------------------------------------------------------------------
(* The sessions each scope names; the current one must be the principal's. *)
SelectRevokedSessions(locked, scope, current) ==
    CASE scope = "all" -> locked
      [] scope = "current" -> locked \cap {current}
      [] scope = "others" -> locked \ {current}

RefreshTokenHashesForSessions(d, ids) == {t \in Rows(d.refresh) : d.refresh[t].session \in ids}

RevokeSessions(p, session, password, scope, current, key) ==
    /\ VerifyLockedPasswordReauthentication(db, p, session, password, now)
    /\ LET digest == <<scope, current, session, password>>
           targets == SelectRevokedSessions(LockPrincipalRefreshAuthority(db, p), scope, current)
       IN /\ BeginIdempotency(db, p, "revoke_account_sessions", key, digest) = "started"
          /\ scope # "all" => FindLockedAccountSession(db, current, p)
          /\ db' = [db EXCEPT
               !.refresh = RevokeAccountRefreshTokens(@, RefreshTokenHashesForSessions(db, targets)),
               !.sessions = RevokePrincipalAccountSessions(@, targets),
               !.idem = Complete(db, p, "revoke_account_sessions", key, digest, 204, Null)]
    /\ UNCHANGED <<now, redis, req>>

-----------------------------------------------------------------------------
(* ChangePassword puts every session of the principal under review and     *)
(* opens a new one.                                                        *)
ChangePassword(p, session, password, newPassword, key) ==
    /\ FindLockedAccountSession(db, session, p)
    /\ db.accounts[p].state = "active"
    /\ db.sessions[session].state \in {"active", "review_required"}
    /\ db.sessions[session].absolute > now
    /\ db.credentials[p].password = password
    /\ CanIssueSession(db)
    /\ LET digest == <<session, password, newPassword>>
           d == IssueAccountSessionUntil(
                  [db EXCEPT
                     !.credentials = UpdatePasswordCredential(@, p, newPassword),
                     !.sessions = MarkPrincipalSessionsReviewRequired(@,
                                    LockPrincipalRefreshAuthority(db, p))],
                  p, now, Null)
       IN /\ BeginIdempotency(db, p, "change_password", key, digest) = "started"
          /\ db' = [d EXCEPT !.events = InsertSecurityEvent(d, "password_changed", p),
                             !.idem = Complete(d, p, "change_password", key, digest, 200,
                                               NextToken(db))]
    /\ UNCHANGED <<now, redis, req>>

-----------------------------------------------------------------------------
(* Whether Authenticate accepts a session row read earlier, once it holds  *)
(* the account.                                                            *)
AcceptsAccess(row, accountState, account, n) ==
    /\ accountState = account.state
    /\ AuthorityEligible(account, n)
    /\ row.state \in {"active", "review_required"}
    /\ row.accessExpires > n
    /\ row.absolute > n
    /\ AuthorityDeadline(account) # Null =>
         /\ row.absolute = AuthorityDeadline(account)
         /\ row.accessExpires <= AuthorityDeadline(account)

(* Authenticate reads the session of the access token; then it waits for   *)
(* the account's row lock and decides on what it has read.                 *)
AuthenticateFind(r, access) ==
    /\ req[r] = Idle
    /\ FindAccountAccessToken(db.sessions, access) # {}
    /\ LET s == CHOOSE s \in FindAccountAccessToken(db.sessions, access) : TRUE
       IN req' = [req EXCEPT ![r] =
                    [pc |-> "authenticate", session |-> s, row |-> db.sessions[s],
                     account |-> db.accounts[db.sessions[s].principal].state]]
    /\ UNCHANGED <<now, db, redis>>

Authenticate(r) ==
    /\ req[r].pc = "authenticate"
    /\ LET c == req[r]
       IN req' = [req EXCEPT ![r] =
                    IF AcceptsAccess(c.row, c.account, db.accounts[c.row.principal], now)
                    THEN [pc |-> "accepted", session |-> c.session, row |-> c.row]
                    ELSE Idle]
    /\ UNCHANGED <<now, db, redis>>

Answered(r) ==
    /\ req[r].pc = "accepted"
    /\ req' = [req EXCEPT ![r] = Idle]
    /\ UNCHANGED <<now, db, redis>>
=============================================================================
