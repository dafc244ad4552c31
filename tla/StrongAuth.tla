----------------------------- MODULE StrongAuth -----------------------------
(***************************************************************************)
(* The factors of an account beside its password. TOTP factors and         *)
(* recovery codes (internal/identity/totp.go, recovery.go): every handler  *)
(* is one transaction; a TOTP secret is a number, a code of it the pair of *)
(* secret and time step, and a recovery code the pair of its set's         *)
(* generation and its place in the set. The clock counts the periods of    *)
(* TOTP.                                                                   *)
(*                                                                         *)
(* Passkeys (webauthn.go, with the ceremonies of                           *)
(* redis_challenge_store.go): a handler runs a transaction that is rolled  *)
(* back, a call of Redis, the check of the WebAuthn library, and a second  *)
(* transaction; every other request may run in between, and each call may  *)
(* fail or its answer be lost. The library is external: it accepts a       *)
(* response made for the ceremony it is given, and refuses a signature     *)
(* counter that has not grown since the row it is shown.                   *)
(***************************************************************************)
EXTENDS IdentityStore

(***************************************************************************)
(* TOTP factors and recovery codes.                                        *)
(***************************************************************************)

CONSTANTS
    CodeCount,      \* recovery codes in a set
    MaxSecrets,     \* TOTP secrets that can be enrolled
    MaxGenerations  \* recovery sets that can be made

P == 1

(* How a handler that checks its key goes on.                              *)
FactorStarted(operation, key, digest) == BeginIdempotency(db, P, operation, key, digest) = "started"

FactorDone(d, operation, key, digest, status, body) ==
    db' = [d EXCEPT !.idem = Complete(db, P, operation, key, digest, status, body)]

Enrolled == {i \in Rows(db.idem) : i[2] = "begin_totp_enrollment"}

-----------------------------------------------------------------------------
(* A new secret becomes the pending factor.                                *)
BeginTOTPEnrollment(session, password, key) ==
    LET digest == <<session, password>>
        secret == Cardinality(Enrolled) + 1
        created == CreateTOTPEnrollment(db.totp, P, secret)
    IN /\ secret <= MaxSecrets
       /\ Reauthenticated(session, password)
       /\ FactorStarted("begin_totp_enrollment", key, digest)
       /\ Affected(db.totp, created) # {}
       /\ FactorDone([db EXCEPT !.totp = created], "begin_totp_enrollment", key, digest, 200, secret)
       /\ UNCHANGED <<now, redis, req>>

(* The period of the code, if it is this one or one beside it.             *)
VerifyTOTPStep(secret, code, n) ==
    {s \in {n, n - 1, n + 1} : code = <<secret, s>>}

(* The pending factor becomes active, and the period of the code is taken. *)
VerifyTOTPEnrollment(session, password, code, key) ==
    LET digest == <<session, code, password>>
    IN /\ Reauthenticated(session, password)
       /\ FactorStarted("verify_totp_enrollment", key, digest)
       /\ GetTOTPForUpdate(db.totp, P) # {}
       /\ db.totp[P].state = "pending"
       /\ \E step \in VerifyTOTPStep(db.totp[P].secret, code, now) :
            LET activated == ActivateTOTP(db.totp, P)
                accepted == AcceptTOTPStep(activated, P, step)
            IN /\ Affected(db.totp, activated) # {}
               /\ Affected(activated, accepted) # {}
               /\ FactorDone([db EXCEPT !.totp = accepted], "verify_totp_enrollment", key, digest, 204, Null)
       /\ UNCHANGED <<now, redis, req>>

RevokeTOTP(session, password, key) ==
    LET digest == <<session, password>>
        revoked == RevokeTOTPFactor(db.totp, P)
    IN /\ Reauthenticated(session, password)
       /\ FactorStarted("revoke_totp", key, digest)
       /\ Affected(db.totp, revoked) # {}
       /\ FactorDone([db EXCEPT !.totp = revoked], "revoke_totp", key, digest, 204, Null)
       /\ UNCHANGED <<now, redis, req>>

-----------------------------------------------------------------------------
GenerateRecoveryCodeSet(generation) == {<<generation, i>> : i \in 1..CodeCount}

(* A new set replaces the one in force.                                    *)
RotateRecoveryCodes(session, password, key) ==
    LET digest == <<session, password>>
        active == GetActiveRecoveryCodeSetForUpdate(db.recovery, P)
        generation == GetNextRecoveryCodeGeneration(db.recovery, P)
        codes == GenerateRecoveryCodeSet(generation)
        revoked == RevokeRecoveryCodeSets(db.recovery, P, "superseded")
    IN /\ generation <= MaxGenerations
       /\ Reauthenticated(session, password)
       /\ FactorStarted("rotate_recovery_codes", key, digest)
       /\ \A g \in active : generation > g
       /\ FactorDone([db EXCEPT !.recovery = CreateRecoveryCodeSet(revoked, generation, P, codes)],
               "rotate_recovery_codes", key, digest, 200, generation)
       /\ UNCHANGED <<now, redis, req>>

(* The code is taken from the set in force and opens a session.            *)
ConsumeRecoveryCode(email, code, key) ==
    LET digest == <<email, code>>
    IN /\ FindIdentityByLookupDigestRead(db.emails, email) # {}
       /\ db.accounts[P].state = "active"
       /\ FactorStarted("consume_recovery_code", key, digest)
       /\ \E g \in GetActiveRecoveryCodeSetForUpdate(db.recovery, P) :
            LET consumed == ConsumeRecoveryCodeOf(db.recovery, g, code)
            IN /\ code \in db.recovery[g].codes
               /\ CodeHashesCheck(consumed)
               /\ CanIssueSession(db)
               /\ FactorDone(IssueAccountSessionUntil([db EXCEPT !.recovery = consumed], P, now, Null),
                       "consume_recovery_code", key, digest, 200, NextToken(db))
       /\ UNCHANGED <<now, redis, req>>

(* The last code of a set: the database refuses the set without codes, the *)
(* transaction is rolled back, and the request is answered with an         *)
(* unavailable dependency.                                                 *)
ConsumeLastRecoveryCode(email, code, key) ==
    /\ FindIdentityByLookupDigestRead(db.emails, email) # {}
    /\ FactorStarted("consume_recovery_code", key, <<email, code>>)
    /\ \E g \in GetActiveRecoveryCodeSetForUpdate(db.recovery, P) :
         /\ code \in db.recovery[g].codes
         /\ ~CodeHashesCheck(ConsumeRecoveryCodeOf(db.recovery, g, code))
    /\ req' = [answer |-> "dependency_unavailable", code |-> code]
    /\ UNCHANGED <<now, db, redis>>

-----------------------------------------------------------------------------
factorVars == <<now, db, redis, req>>

FactorInit ==
    /\ now = 1
    /\ \E w \in Passwords : db = ActiveAccount(w)
    /\ redis = <<>>
    /\ req = Idle

Secrets == 1..MaxSecrets

FactorNext ==
    \/ Tick
    \/ \E s \in Rows(db.sessions), w \in Passwords, k \in Keys :
         \/ BeginTOTPEnrollment(s, w, k)
         \/ \E code \in Secrets \X ((now - 1)..(now + 2)) : VerifyTOTPEnrollment(s, w, code, k)
         \/ RevokeTOTP(s, w, k)
         \/ RotateRecoveryCodes(s, w, k)
    \/ \E e \in Rows(db.emails), k \in Keys : \E g \in Rows(db.recovery) :
         \E code \in GenerateRecoveryCodeSet(g) :
            ConsumeRecoveryCode(e, code, k) \/ ConsumeLastRecoveryCode(e, code, k)

FactorSpec == FactorInit /\ [][FactorNext]_factorVars

-----------------------------------------------------------------------------
FactorTypeOK ==
    /\ now \in 1..MaxTime
    /\ \A t \in Rows(db.totp) : /\ db.totp[t].state \in {"pending", "active", "revoked"}
                                /\ db.totp[t].secret \in Secrets
                                /\ db.totp[t].step > 0 => db.totp[t].state # "pending"
    /\ \A g \in Rows(db.recovery) :
         /\ db.recovery[g].state \in {"active", "superseded", "exhausted"}
         /\ db.recovery[g].codes \subseteq GenerateRecoveryCodeSet(g)

(* The keys under which a recovery code has opened a session.              *)
Consumptions(code) ==
    {i \in Rows(db.idem) : i[2] = "consume_recovery_code" /\ db.idem[i].digest[2] = code}

(* The factor in force is proven: its own secret was shown in a code, and  *)
(* not the one of an enrollment that was revoked before it (totp.go,       *)
(* VerifyTOTPEnrollment).                                                  *)
ActiveFactorWasProven ==
    \A t \in Rows(db.totp) : db.totp[t].state = "active" =>
        \E i \in Rows(db.idem) :
            i[2] = "verify_totp_enrollment" /\ db.idem[i].digest[2] = <<db.totp[t].secret, db.totp[t].step>>

(* Only the newest recovery set can be in force.                           *)
NewestRecoverySetOnly ==
    \A g \in Rows(db.recovery) : db.recovery[g].state = "active" =>
        \A h \in Rows(db.recovery) : h <= g

(* Every code of a set is either unused or has opened one session, under   *)
(* any number of keys and retries: none is lost, none opens two.           *)
RecoveryCodesAddUp ==
    \A g \in Rows(db.recovery) : \A code \in GenerateRecoveryCodeSet(g) :
        IF code \in db.recovery[g].codes THEN Consumptions(code) = {}
        ELSE Cardinality(Consumptions(code)) = 1

(* What the handler and its tests expect: the code that is left last opens *)
(* a session too, and the set is exhausted.                                *)
LastCodeIsAccepted == req = Idle

(***************************************************************************)
(* Passkeys.                                                               *)
(***************************************************************************)

CONSTANTS
    Requests,       \* requests in progress at a time
    Credentials,    \* authenticator credentials
    Counters,       \* values of a signature counter
    MaxPasskeys,    \* maximumActivePasskeys
    MaxCeremonies,  \* ceremonies that can be created
    Lossy,          \* whether the answer of a commit may be lost
    Kinds,          \* ceremonies that are asked for
    Held            \* the passkeys the account starts with

S == 1

Goto(r, pc) == req' = [req EXCEPT ![r].pc = pc]

End(r) == req' = [req EXCEPT ![r] = Idle]

Operation(phase, kind) == <<phase, kind>>

Started(operation, key, digest) == BeginIdempotency(db, P, operation, key, digest) = "started"

Done(d, operation, key, digest, status, body) ==
    [d EXCEPT !.idem = Complete(db, P, operation, key, digest, status, body)]

Active == ListActivePasskeys(db.passkeys, P)

PasswordProven == \E w \in Passwords : Reauthenticated(S, w)

-----------------------------------------------------------------------------
(* The ceremony store.                                                     *)

NoCeremony == [state |-> "unissued", kind |-> "none", expires |-> 0]

(* CreateWebAuthnCeremony, under a new identifier.                         *)
CeremonyCreated(c, kind) ==
    /\ redis[c] = NoCeremony
    /\ \A b \in 1..(c - 1) : redis[b] # NoCeremony
    /\ redis' = [redis EXCEPT ![c] = [state |-> "present", kind |-> kind,
                                      expires |-> now + ChallengeTTL]]

(* ConsumeWebAuthnCeremony: the key holds the kind, so that a ceremony of  *)
(* the other kind is not found; one past its expiry is removed and refused.*)
CeremonyConsumed(c, kind, found) ==
    /\ found = (redis[c].state = "present" /\ redis[c].kind = kind /\ redis[c].expires > now)
    /\ redis' = [redis EXCEPT ![c].state =
                   IF @ = "present" /\ redis[c].kind = kind THEN "consumed" ELSE @]

(* DeleteWebAuthnCeremonyIfOwned removes the exact record of the caller.   *)
CeremonyDeleted(c) ==
    redis' = [redis EXCEPT ![c].state = IF @ = "present" THEN "deleted" ELSE @]

CeremonyEvicted(c) ==
    /\ redis[c].state = "present"
    /\ redis[c].expires <= now
    /\ redis' = [redis EXCEPT ![c].state = "evicted"]
    /\ UNCHANGED <<now, db, req>>

-----------------------------------------------------------------------------
(* BeginPasskeyRegistration and BeginPasskeyAuthentication.  Only the      *)
(* registration is authenticated.                                          *)

BeginAllowed(kind) ==
    kind = "registration" => PasswordProven /\ Cardinality(Active) < MaxPasskeys

BeginPreflight(r, kind, key) ==
    /\ req[r] = Idle
    /\ Started(Operation("begin", kind), key, kind)
    /\ BeginAllowed(kind)
    /\ req' = [req EXCEPT ![r] = [pc |-> "create", kind |-> kind, key |-> key]]
    /\ UNCHANGED <<now, db, redis>>

(* A call that is late may have stored the ceremony; its owner removes it. *)
BeginCreate(r) ==
    /\ req[r].pc = "create"
    /\ \E c \in 1..MaxCeremonies : \E next \in {"complete", "discard"} :
         /\ CeremonyCreated(c, req[r].kind)
         /\ req' = [req EXCEPT ![r] = [pc |-> next, kind |-> @.kind, key |-> @.key, ceremony |-> c]]
    /\ UNCHANGED <<now, db>>

(* Whether the caller takes its own options for the recorded ones.  With   *)
(* the answer of the commit lost, the registration does and the            *)
(* authentication does not.                                                *)
OwnOptionsUsed(kind, committed, answered) ==
    committed /\ (kind = "registration" \/ answered)

(* The options are recorded under the key, unless another request was      *)
(* first: then its options are the answer, and the own ceremony goes.      *)
BeginComplete(r) ==
    /\ req[r].pc = "complete"
    /\ LET q == req[r]
           operation == Operation("begin", q.kind)
       IN \E committed \in BOOLEAN, answered \in {TRUE} \cup {~Lossy} :
            /\ committed => Started(operation, q.key, q.kind) /\ BeginAllowed(q.kind)
            /\ db' = IF committed
                     THEN Done(db, operation, q.key, q.kind, 200, q.ceremony) ELSE db
            /\ IF OwnOptionsUsed(q.kind, committed, answered) THEN End(r) ELSE Goto(r, "discard")
    /\ UNCHANGED <<now, redis>>

(* The removal may fail too; Redis then drops the ceremony when it expires.*)
BeginDiscard(r) ==
    /\ req[r].pc = "discard"
    /\ CeremonyDeleted(req[r].ceremony) \/ UNCHANGED redis
    /\ End(r)
    /\ UNCHANGED <<now, db>>

-----------------------------------------------------------------------------
(* FinishPasskeyRegistration and FinishPasskeyAuthentication.              *)

Digest(q) == <<q.ceremony, q.credential, q.count>>

(* No request with this key has completed, nor one with another digest.    *)
ProbeStarted(q) == Started(Operation("finish", q.kind), q.key, Digest(q))

RegistrationPreflight(r, ceremony, credential, count, key) ==
    LET q == [pc |-> "consume", kind |-> "registration", key |-> key, ceremony |-> ceremony,
              credential |-> credential, count |-> count]
    IN /\ req[r] = Idle
       /\ redis[ceremony] # NoCeremony
       /\ PasswordProven
       /\ ProbeStarted(q)
       /\ Cardinality(Active) < MaxPasskeys
       /\ req' = [req EXCEPT ![r] = q]
       /\ UNCHANGED <<now, db, redis>>

(* The user shown to the library is the row of the credential as it is now.*)
AuthenticationPreflight(r, ceremony, credential, count, key) ==
    \E c \in Active \cap {credential} :
        LET q == [pc |-> "consume", kind |-> "authentication", key |-> key, ceremony |-> ceremony,
                  credential |-> c, count |-> count, seen |-> db.passkeys[c].count]
        IN /\ req[r] = Idle
           /\ redis[ceremony] # NoCeremony
           /\ db.accounts[P].state = "active"
           /\ ProbeStarted(q)
           /\ req' = [req EXCEPT ![r] = q]
           /\ UNCHANGED <<now, db, redis>>

(* The ceremony is consumed; late is an answer that did not come in time.  *)
RegistrationConsume(r) ==
    /\ req[r].pc = "consume" /\ req[r].kind = "registration"
    /\ \E found \in BOOLEAN, late \in BOOLEAN :
         /\ CeremonyConsumed(req[r].ceremony, "registration", found)
         /\ IF found /\ ~late THEN Goto(r, "persist") ELSE End(r)
    /\ UNCHANGED <<now, db>>

(* external: the library refuses a counter that has not grown.             *)
ValidatePasskeyLogin(q) == q.count > q.seen \/ (q.count = 0 /\ q.seen = 0)

(* Without the ceremony an authentication looks once more for a completed  *)
(* request with its key, and ends; that changes nothing.                   *)
AuthenticationConsume(r) ==
    /\ req[r].pc = "consume" /\ req[r].kind = "authentication"
    /\ \E found \in BOOLEAN, late \in BOOLEAN :
         /\ CeremonyConsumed(req[r].ceremony, "authentication", found)
         /\ IF found /\ ~late /\ ValidatePasskeyLogin(req[r]) THEN Goto(r, "persist") ELSE End(r)
    /\ UNCHANGED <<now, db>>

(* The second transaction of a registration proves the password again and  *)
(* counts the passkeys under the lock of the account; a credential that    *)
(* has a row already is refused, by the list or by the table's key.        *)
PersistPasskeyRegistration(r) ==
    /\ req[r].pc = "persist" /\ req[r].kind = "registration"
    /\ LET q == req[r]
       IN db' = IF /\ PasswordProven
                   /\ ProbeStarted(q)
                   /\ Cardinality(Active) < MaxPasskeys
                   /\ q.credential \notin Rows(db.passkeys)
                THEN Done([db EXCEPT !.passkeys = CreatePasskeyCredential(@, q.credential, P, q.count)],
                          Operation("finish", q.kind), q.key, Digest(q), 204, Null)
                ELSE db
    /\ End(r)
    /\ UNCHANGED <<now, redis>>

(* Mutant: the second transaction relies on the rows of the first.         *)
CompleteStale(r) ==
    /\ req[r].pc = "persist" /\ req[r].kind = "authentication"
    /\ CanIssueSession(db)
    /\ LET q == req[r]
       IN db' = IF ProbeStarted(q)
                THEN Done(IssueAccountSessionUntil([db EXCEPT !.passkeys[q.credential].count = q.count],
                                                   P, now, Null),
                          Operation("finish", q.kind), q.key, Digest(q), 200, NextToken(db))
                ELSE db
    /\ End(r)
    /\ UNCHANGED <<now, redis>>

(* The second transaction of an authentication looks at the credential     *)
(* again, takes its counter, and opens a session.                          *)
CompletePasskeyAuthentication(r) ==
    /\ req[r].pc = "persist" /\ req[r].kind = "authentication"
    /\ CanIssueSession(db)
    /\ LET q == req[r]
           updated == UpdatePasskeyCounter(db.passkeys, q.credential, P, q.count)
           stored == db.passkeys[q.credential].count
       IN db' = IF /\ q.credential \in Active
                   /\ db.accounts[P].state = "active"
                   /\ stored > 0 => q.count > stored
                   /\ ProbeStarted(q)
                THEN Done(IssueAccountSessionUntil([db EXCEPT !.passkeys = updated], P, now, Null),
                          Operation("finish", q.kind), q.key, Digest(q), 200, NextToken(db))
                ELSE db
    /\ End(r)
    /\ UNCHANGED <<now, redis>>

RevokePasskey(credential, key) ==
    LET operation == Operation("revoke", "passkey")
    IN /\ PasswordProven
       /\ Started(operation, key, credential)
       /\ credential \in Active
       /\ db' = Done([db EXCEPT !.passkeys = RevokePasskeyCredential(@, credential, P)],
                     operation, key, credential, 204, Null)
       /\ UNCHANGED <<now, redis, req>>

(* A deadline, an unavailable dependency or a crash ends a request.        *)
Abandon(r) ==
    /\ req[r] # Idle
    /\ End(r)
    /\ UNCHANGED <<now, db, redis>>

-----------------------------------------------------------------------------
passkeyVars == <<now, db, redis, req>>

PasskeyInit ==
    /\ now = 1
    /\ \E w \in Passwords :
         db = [ActiveAccount(w) EXCEPT !.passkeys = [c \in Held |-> PasskeyRow(P, 0)]]
    /\ redis = [c \in 1..MaxCeremonies |-> NoCeremony]
    /\ req = [r \in Requests |-> Idle]

PasskeyNext ==
    \/ Tick
    \/ \E c \in 1..MaxCeremonies : CeremonyEvicted(c)
    \/ \E r \in Requests, kind \in Kinds, k \in Keys : BeginPreflight(r, kind, k)
    \/ \E r \in Requests, c \in 1..MaxCeremonies, credential \in Credentials,
          count \in Counters, k \in Keys :
         \/ "registration" \in Kinds /\ RegistrationPreflight(r, c, credential, count, k)
         \/ "authentication" \in Kinds /\ AuthenticationPreflight(r, c, credential, count, k)
    \/ \E r \in Requests :
         \/ BeginCreate(r) \/ BeginComplete(r) \/ BeginDiscard(r)
         \/ RegistrationConsume(r) \/ AuthenticationConsume(r)
         \/ PersistPasskeyRegistration(r) \/ CompletePasskeyAuthentication(r)
         \/ Abandon(r)
    \/ \E credential \in Credentials, k \in Keys : RevokePasskey(credential, k)

PasskeySpec == PasskeyInit /\ [][PasskeyNext]_passkeyVars

-----------------------------------------------------------------------------
PasskeyTypeOK ==
    /\ now \in 1..MaxTime
    /\ \A c \in 1..MaxCeremonies :
         redis[c].state \in {"unissued", "present", "consumed", "deleted", "evicted"}
    /\ \A r \in Requests : req[r].pc \in {"idle", "create", "complete", "discard", "consume", "persist"}
    /\ Rows(db.passkeys) \subseteq Credentials

Records(operation) == {i \in Rows(db.idem) : i[2] = operation}

(* The account never has more active passkeys than the limit, however many *)
(* registrations passed the first count together.                          *)
PasskeyLimitHolds == Cardinality(Active) <= MaxPasskeys

(* One ceremony registers one passkey or opens one session, under any      *)
(* number of keys, retries and copies of the response.                     *)
CeremonyServesOnce ==
    \A first, second \in Kinds :
        \A i \in Records(Operation("finish", first)), j \in Records(Operation("finish", second)) :
            db.idem[i].digest[1] = db.idem[j].digest[1] => i = j

AddedUnderLiveSessionStep ==
    Rows(db'.passkeys) # Rows(db.passkeys) =>
      db.sessions[S].state = "active" /\ db.sessions[S].accessExpires > now

(* A passkey is added only while the session that proved the password is   *)
(* alive, although the proof came before the ceremony was consumed.        *)
AddedUnderLiveSession == [][AddedUnderLiveSessionStep]_passkeyVars

(* The authentications a step completes.                                   *)
Opened == {i \in Rows(db'.idem) \ Rows(db.idem) : i[2] = Operation("finish", "authentication")}

RevokedOpensNothingStep ==
    \A i \in Opened : db.passkeys[db'.idem[i].digest[2]].state = "active"

(* A passkey that is revoked opens no session, even for the request that   *)
(* found it active before.                                                 *)
RevokedOpensNothing == [][RevokedOpensNothingStep]_passkeyVars

CounterGrowsStep ==
    \A i \in Opened, j \in Records(Operation("finish", "authentication")) :
      /\ db.idem[j].digest[2] = db'.idem[i].digest[2]
      /\ db.idem[j].digest[3] > 0
      => db'.idem[i].digest[3] > db.idem[j].digest[3]

(* Each session opened with a counting authenticator has a higher counter  *)
(* than every one before it, also when two requests saw the same row.      *)
CounterGrows == [][CounterGrowsStep]_passkeyVars

(* The ceremony of recorded registration options is removed by nobody but  *)
(* its use or its expiry: not by the request that lost the race for the    *)
(* key, nor by one that did not learn that its commit succeeded.           *)
RecordedOptionsKeepCeremony ==
    \A i \in Records(Operation("begin", "registration")) :
        redis[db.idem[i].body].state # "deleted"
=============================================================================
