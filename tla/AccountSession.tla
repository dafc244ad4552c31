--------------------------- MODULE AccountSession ---------------------------
(***************************************************************************)
(* The sessions of an account: opened with a password, rotated with a      *)
(* refresh token and a challenge, revoked, and put under review when the   *)
(* password changes, by requests that overlap, fail between their steps    *)
(* and are sent again.                                                     *)
(*                                                                         *)
(* CreateSessionChallenge and RotateSession of                             *)
(* internal/identity/session.go, with the challenge store of               *)
(* redis_challenge_store.go, run a transaction, a call of Redis and a      *)
(* second transaction; the transaction that only classifies the request is *)
(* rolled back. Between these steps every other request may run, and any   *)
(* of them may fail.                                                       *)
(***************************************************************************)
EXTENDS AccountHandlers

Goto(r, pc) == req' = [req EXCEPT ![r].pc = pc]

End(r) == req' = [req EXCEPT ![r] = Idle]

(* Whether the refresh token with its session and account may be used.     *)
ValidRefreshAuthority(d, token, n, allowUsed) ==
    LET row == d.refresh[token]
        session == d.sessions[row.session]
        account == d.accounts[session.principal]
    IN /\ AuthorityEligible(account, n)
       /\ session.state = "active" \/ (allowUsed /\ session.state = "review_required")
       /\ row.absolute > n
       /\ row.idle <= row.absolute
       /\ AuthorityDeadline(account) # Null => row.absolute = AuthorityDeadline(account)
       /\ \/ row.state = "active" /\ row.idle > n
          \/ row.state = "used" /\ allowUsed

(* The principal whose key scope a request on this token uses.             *)
Owner(d, token) == d.sessions[d.refresh[token].session].principal

-----------------------------------------------------------------------------
(* The challenge store.                                                    *)

(* Create stores the challenge; SETNX may have been applied although its   *)
(* answer is late.  A lifetime cut by the account's deadline is refused.   *)
ChallengeCreated(c, token, expires, n) ==
    /\ expires - n = ChallengeTTL
    /\ redis' = [redis EXCEPT ![c] = [state |-> "present", token |-> token, expires |-> expires]]

(* Consume: GETDEL removes the challenge whatever its context, and only a  *)
(* challenge of the same context is handed out.                            *)
ChallengeConsumed(c, outcome, token) ==
    /\ outcome = (IF redis[c].state = "present" /\ redis[c].token = token THEN "found" ELSE "absent")
    /\ redis' = [redis EXCEPT ![c].state = IF @ = "present" THEN "gone" ELSE @]

(* The key's lifetime in Redis ends.                                       *)
ChallengeEvicted(c) ==
    /\ redis[c].state = "present"
    /\ redis[c].expires <= now
    /\ redis' = [redis EXCEPT ![c].state = "gone"]
    /\ UNCHANGED <<now, db, req>>

-----------------------------------------------------------------------------
(* CreateSessionChallenge.                                                 *)

(* The first transaction: a key not used before, on an authority in force. *)
ChallengePreflight(r, token, key) ==
    /\ req[r] = Idle
    /\ DiscoverRefreshToken(db.refresh, token) # {}
    /\ BeginIdempotency(db, Owner(db, token), "challenge", key, token) = "started"
    /\ ValidRefreshAuthority(db, token, now, FALSE)
    /\ req' = [req EXCEPT ![r] = [pc |-> "create", token |-> token, key |-> key, at |-> now]]
    /\ UNCHANGED <<now, db, redis>>

(* The rate limit has let it pass; the challenge goes to Redis.            *)
ChallengeCreate(r) ==
    /\ req[r].pc = "create"
    /\ \E c \in 1..MaxChallenges :
         /\ redis[c] = Unissued
         /\ \A b \in 1..(c - 1) : redis[b] # Unissued
         /\ LET q == req[r]
                deadline == AuthorityDeadline(db.accounts[Owner(db, q.token)])
                expires == IF deadline # Null /\ q.at + ChallengeTTL > deadline
                           THEN deadline ELSE q.at + ChallengeTTL
            IN /\ ChallengeCreated(c, q.token, expires, q.at)
               /\ req' = [req EXCEPT ![r] =
                            [pc |-> "issue", token |-> @.token, key |-> @.key, at |-> @.at,
                             challenge |-> c]]
    /\ UNCHANGED <<now, db>>

(* The second transaction records the response under the key.              *)
ChallengeIssue(r) ==
    /\ req[r].pc = "issue"
    /\ LET c == req[r]
           p == Owner(db, c.token)
           started == BeginIdempotency(db, p, "challenge", c.key, c.token) = "started"
       IN db' = IF started /\ ValidRefreshAuthority(db, c.token, c.at, FALSE)
                THEN [db EXCEPT !.idem = Complete(db, p, "challenge", c.key, c.token, 201,
                                                  c.challenge)]
                ELSE db
    /\ End(r)
    /\ UNCHANGED <<now, redis>>

-----------------------------------------------------------------------------
(* RotateSession.                                                          *)

(* The digest of a rotation request, without its signature: a request     *)
(* whose signature is wrong ends at RotateConsume.                         *)
RotateDigest(c) == <<c.token, c.challenge>>

RotateBegin(c) == BeginIdempotency(db, Owner(db, c.token), "rotate", c.key, RotateDigest(c))

(* A used token was presented again: the session and its tokens are dead.  *)
CompromiseUsedRefresh(c) ==
    LET s == db.refresh[c.token].session
    IN [db EXCEPT
          !.sessions = MarkAccountSessionCompromised(@, s),
          !.refresh = RevokeAccountRefreshTokens(@, LockSessionRefreshTokens(db.refresh, s)),
          !.events = InsertSecurityEvent(db, "account_refresh_replay", s),
          !.idem = Complete(db, Owner(db, c.token), "rotate", c.key, RotateDigest(c), 401, Null)]

(* The classification both transactions start with: only a started key on  *)
(* a valid authority goes on, and there a used token is a replay.          *)
Rotatable(c) ==
    /\ RotateBegin(c) = "started"
    /\ ValidRefreshAuthority(db, c.token, c.at, TRUE)

RotatePreflight(r, token, challenge, key) ==
    /\ req[r] = Idle
    /\ DiscoverRefreshToken(db.refresh, token) # {}
    /\ redis[challenge] # Unissued
    /\ LET c == [pc |-> "consume", token |-> token, challenge |-> challenge, key |-> key,
                 at |-> now]
       IN /\ Rotatable(c)
          /\ \/ /\ db.refresh[token].state = "active"
                /\ req' = [req EXCEPT ![r] = c]
                /\ UNCHANGED db
             \/ /\ db.refresh[token].state = "used"
                /\ db' = CompromiseUsedRefresh(c)
                /\ UNCHANGED req
    /\ UNCHANGED <<now, redis>>

(* The challenge is consumed.  A late answer of Redis is ambiguous: the    *)
(* challenge may be gone.  A found challenge must not have expired when    *)
(* the request came, and must carry the signature of the session's key.    *)
RotateConsume(r) ==
    /\ req[r].pc = "consume"
    /\ \/ \E outcome \in {"found", "absent"} :
            /\ ChallengeConsumed(req[r].challenge, outcome, req[r].token)
            /\ \/ outcome = "absent" /\ Goto(r, "reclassify")
               \/ /\ outcome = "found"
                  /\ redis[req[r].challenge].expires > req[r].at
                  /\ Goto(r, "final")
               \/ outcome = "found" /\ End(r)
       \/ /\ \E outcome \in {"found", "absent"} :
               ChallengeConsumed(req[r].challenge, outcome, req[r].token)
          /\ Goto(r, "ambiguous")
       \/ /\ Goto(r, "ambiguous")
          /\ UNCHANGED redis
    /\ UNCHANGED <<now, db>>

(* After a challenge failure a transaction looks whether the same request  *)
(* has succeeded meanwhile, or its token was used by another one.          *)
RotateReclassify(r) ==
    /\ req[r].pc \in {"reclassify", "ambiguous"}
    /\ LET c == req[r]
       IN db' = IF Rotatable(c) /\ db.refresh[c.token].state = "used"
                THEN CompromiseUsedRefresh(c)
                ELSE db
    /\ End(r)
    /\ UNCHANGED <<now, redis>>

(* The rotation proper: the token is used, its session gets a new access   *)
(* token, and the family a new refresh token.                              *)
Rotated(c) ==
    LET row == db.refresh[c.token]
        new == NewRotatedSessionTokens(c.at, row.absolute)
        token == NextToken(db)
    IN [db EXCEPT
          !.sessions = RotateAccountSessionAccess(@, row.session, token, new.access, c.at),
          !.refresh = InsertAccountRefreshToken(MarkAccountRefreshUsed(@, c.token), token,
                                                row.session, c.token, new.idle, new.absolute),
          !.idem = Complete(db, Owner(db, c.token), "rotate", c.key, RotateDigest(c), 200, token)]

(* Mutant: what the preflight found is not checked again.                  *)
RotateStale(r) ==
    /\ req[r].pc = "final"
    /\ NextToken(db) <= MaxTokens
    /\ db' = Rotated(req[r])
    /\ End(r)
    /\ UNCHANGED <<now, redis>>

(* The second transaction of RotateSession.                                *)
RotateFinal(r) ==
    /\ req[r].pc = "final"
    /\ NextToken(db) <= MaxTokens
    /\ LET c == req[r]
           row == db.refresh[c.token]
           session == db.sessions[row.session]
       IN db' = IF ~Rotatable(c) THEN db
                ELSE IF row.state = "used" THEN CompromiseUsedRefresh(c)
                ELSE IF session.state = "active" /\ row.idle > c.at /\ row.absolute > c.at
                     THEN Rotated(c)
                     ELSE db
    /\ End(r)
    /\ UNCHANGED <<now, redis>>

(* A deadline, an unavailable dependency or a crash ends a request that is *)
(* under way; what it has committed or consumed stays.                     *)
Abandon(r) ==
    /\ req[r] # Idle
    /\ End(r)
    /\ UNCHANGED <<now, db, redis>>

RotationStep(r) ==
    \/ ChallengeCreate(r) \/ ChallengeIssue(r)
    \/ RotateConsume(r) \/ RotateReclassify(r) \/ RotateFinal(r)

(***************************************************************************)
(* The composition, and what it keeps.                                     *)
(***************************************************************************)

CONSTANTS Requests, Readers, Account, Email, InitialState

vars == <<now, db, redis, req>>

(* The account has been registered with the first password.                *)
Init ==
    /\ now = 1
    /\ redis = [c \in 1..MaxChallenges |-> Unissued]
    /\ req = [r \in Requests \cup Readers |-> Idle]
    /\ \E w \in Passwords :
         db = [EmptyDatabase EXCEPT
                 !.accounts = CreateAccount(@, Account, InitialState, 1),
                 !.emails = CreateEmailIdentity(@, Email, Account, Null, 0, Null),
                 !.credentials = CreatePasswordCredential(@, Account, w)]

Next ==
    \/ Tick
    \/ \E w \in Passwords, k \in Keys : CreateSession(Email, w, k)
    \/ \E s \in Rows(db.sessions), w, v \in Passwords, k \in Keys :
         ChangePassword(Account, s, w, v, k)
    \/ \E s \in Rows(db.sessions), w \in Passwords, k \in Keys :
         \/ RevokeSessions(Account, s, w, "all", Null, k)
         \/ \E c \in Rows(db.sessions), scope \in {"current", "others"} :
              RevokeSessions(Account, s, w, scope, c, k)
    \/ \E r \in Readers : Authenticate(r) \/ Answered(r)
    \/ \E r \in Readers, t \in Rows(db.refresh) : AuthenticateFind(r, t)
    \/ \E r \in Requests : RotationStep(r) \/ Abandon(r)
    \/ \E r \in Requests, t \in Rows(db.refresh), k \in Keys : ChallengePreflight(r, t, k)
    \/ \E r \in Requests, t \in Rows(db.refresh), c \in 1..MaxChallenges, k \in Keys :
         RotatePreflight(r, t, c, k)
    \/ \E c \in 1..MaxChallenges : ChallengeEvicted(c)

Spec == Init /\ [][Next]_vars

-----------------------------------------------------------------------------
SessionStates == {"active", "review_required", "revoked", "compromised"}

TypeOK ==
    /\ now \in 1..MaxTime
    /\ \A s \in Rows(db.sessions) :
         /\ s \in 1..MaxSessions
         /\ db.sessions[s].state \in SessionStates
         /\ db.sessions[s].accessExpires <= db.sessions[s].absolute
    /\ \A t \in Rows(db.refresh) :
         /\ t \in 1..MaxTokens
         /\ db.refresh[t].state \in {"active", "used", "revoked"}
         /\ db.refresh[t].session \in Rows(db.sessions)
         /\ db.refresh[t].idle <= db.refresh[t].absolute
    /\ \A c \in 1..MaxChallenges : redis[c].state \in {"unissued", "present", "gone"}

Tokens(s) == LockSessionRefreshTokens(db.refresh, s)

(* The refresh tokens of a session form one chain: each but the first was  *)
(* issued for a token of the session that is spent, no two for the same    *)
(* one, and at most one can still be used.  Two rotations of one token     *)
(* that overlap never both succeed (RotateSession, final transaction).     *)
RefreshChain ==
    \A s \in Rows(db.sessions) :
        /\ Cardinality({t \in Tokens(s) : db.refresh[t].state = "active"}) <= 1
        /\ Cardinality({t \in Tokens(s) : db.refresh[t].previous = Null}) = 1
        /\ \A t \in Tokens(s) : db.refresh[t].previous # Null =>
             /\ db.refresh[t].previous \in Tokens(s)
             /\ db.refresh[db.refresh[t].previous].state # "active"
             /\ \A u \in Tokens(s) : db.refresh[u].previous = db.refresh[t].previous => u = t

(* The rotations recorded with a status, by key.                           *)
RotateRecords(status) ==
    {k \in Keys : LET r == RecordOf(db, Account, "rotate", k)
                  IN r # NoRecord /\ r.status = status}

RotateRequest(k) == RecordOf(db, Account, "rotate", k).digest

(* A session is compromised only when one of its tokens was presented      *)
(* under two keys and used by one of them: repeating a request, however    *)
(* its attempts overlap, never costs the session (compromiseUsedRefresh).  *)
CompromiseHasTwoUses ==
    \A s \in Rows(db.sessions) : db.sessions[s].state = "compromised" =>
        \E k \in RotateRecords(200), m \in RotateRecords(401) :
            /\ RotateRequest(k)[1] = RotateRequest(m)[1]
            /\ RotateRequest(k)[1] \in Tokens(s)

(* Every rotation took a challenge out of Redis that was issued for the    *)
(* very token it spent, and no later request can take it again.            *)
RotationSpentItsChallenge ==
    \A k \in RotateRecords(200) :
        LET c == redis[RotateRequest(k)[2]]
        IN c.state = "gone" /\ c.token = RotateRequest(k)[1]

(* A session that was revoked or compromised has no usable refresh token:  *)
(* a rotation that began before cannot leave one behind.                   *)
DeadSessionsStayDead ==
    \A s \in Rows(db.sessions) :
        db.sessions[s].state \in {"revoked", "compromised"} =>
            \A t \in Tokens(s) : db.refresh[t].state # "active"

OnlyActiveRotatesStep ==
    \A t \in Rows(db'.refresh) \ Rows(db.refresh) :
      LET row == db'.refresh[t]
      IN row.previous # Null =>
           /\ db.sessions[row.session].state = "active"
           /\ db.refresh[row.previous].state = "active"

(* A chain goes on only from a token that is usable when the rotation      *)
(* commits, in a session that is active then, whatever the request found   *)
(* when it began (RotateSession, final transaction).                       *)
OnlyActiveRotates == [][OnlyActiveRotatesStep]_vars

NothingRevivesStep ==
    \A s \in Rows(db.sessions) : db'.sessions[s].state # db.sessions[s].state =>
      /\ db.sessions[s].state \in {"active", "review_required"}
      /\ db'.sessions[s].state # "active"

(* The state of a session only moves away from active, and what is revoked *)
(* or compromised stays so.                                                *)
NothingRevives == [][NothingRevivesStep]_vars

ChangeLeavesOneActiveStep ==
    db'.credentials[Account].password # db.credentials[Account].password =>
      {s \in Rows(db'.sessions) : db'.sessions[s].state = "active"}
        = Rows(db'.sessions) \ Rows(db.sessions)

(* Changing the password leaves one active session, the one it opened: a   *)
(* session opened with the old password is put under review.               *)
ChangeLeavesOneActive == [][ChangeLeavesOneActiveStep]_vars

(* While the account is in its grace nothing it was issued outlives the    *)
(* grace, through any number of rotations (accountAuthorityDeadline).      *)
GraceBoundsSessions ==
    db.accounts[Account].state = "pending_email" =>
        \A s \in Rows(db.sessions) :
            /\ db.sessions[s].absolute = AuthorityDeadline(db.accounts[Account])
            /\ \A t \in Tokens(s) : db.refresh[t].absolute = db.sessions[s].absolute
=============================================================================
