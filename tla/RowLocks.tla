------------------------------ MODULE RowLocks ------------------------------
(***************************************************************************)
(* The row locks the transactions of one principal take: which queries     *)
(* lock (FOR UPDATE, advisory, unique insert), in which order a handler    *)
(* issues them, and what it sees.  Every transaction is READ COMMITTED: a  *)
(* statement selects among the rows committed when it starts, then locks   *)
(* what it selected one row at a time in the order of its ORDER BY, and    *)
(* waits for a row another transaction holds.  The modules of the handlers *)
(* treat a transaction as one step; this module is the ground for that.    *)
(*                                                                         *)
(* A row is <<table, session, rank>>: statements lock in the order of the  *)
(* ranks.  Token digests and session ids are random, so a new row may take *)
(* any free rank.  A table in which one row matters has the row            *)
(* <<table, 0, 0>>.  Updates touch only locked rows and foreign keys point *)
(* only at locked or new rows, so neither adds a wait.                     *)
(***************************************************************************)
EXTENDS Naturals, Sequences, FiniteSets, WellFoundedInduction, TLAPS

CONSTANTS Workers,     \* concurrent requests of one principal
          Operations,  \* the handlers they run: a subset of DOMAIN Program
          Ranks,       \* the places a token or a session may have in its order
          Named        \* the session the requests name, and the rank of its first token

VARIABLES rows,        \* the committed rows
          tx           \* tx[w]: the transaction of worker w

vars == <<rows, tx>>

(* A transaction is before its statement "at"; once the statement runs,    *)
(* "todo" are the rows it still has to lock.                               *)
Idle ==
    [op |-> "none", at |-> 0, runs |-> FALSE, todo |-> {}, held |-> {}, seen |-> {}, new |-> {}]

-----------------------------------------------------------------------------
(* Statements.  What a statement selects is a set of rows.                 *)

Lock(table) == [do |-> "lock", of |-> table]
LockNoWait(table) == [do |-> "nowait", of |-> table]
Relist(table) == [do |-> "relist", of |-> table]
Insert(table) == [do |-> "insert", of |-> table]

Selected(of, db) ==
    CASE of = "session_tokens" -> {r \in db : r[1] = "tokens" /\ r[2] = Named}
      [] of = "session" -> {r \in db : r[1] = "sessions" /\ r[2] = Named}
      [] OTHER -> {r \in db : r[1] = of}

(* ORDER BY id, ORDER BY token_hash                                        *)
First(todo) == CHOOSE r \in todo : \A s \in todo : r[3] <= s[3]

-----------------------------------------------------------------------------
(* What the handlers lock, in order                                        *)

(* LockPrincipalRefreshTokens is issued twice: the second statement sees   *)
(* what was committed while the first one waited.                          *)
LockPrincipalRefreshAuthority ==
    <<Lock("tokens"), Lock("tokens"), Lock("sessions"), Lock("account"), Relist("tokens")>>

LockSessionRefreshAuthority ==
    <<Lock("session_tokens"), Lock("session_tokens"), Lock("sessions"), Lock("account"),
      Relist("session_tokens")>>

PasswordReauthentication(factor) == <<Lock("credential")>> \o factor \o <<Lock("session"), Lock("account")>>

CreateSession ==
    <<Lock("credential")>> \o LockPrincipalRefreshAuthority \o <<Lock("key_create"), Insert("session")>>

RotateSession == LockSessionRefreshAuthority \o <<Lock("key_rotate"), Insert("session_tokens")>>

ChangePassword ==
    <<Lock("credential")>> \o LockPrincipalRefreshAuthority \o <<Lock("key_change"), Insert("session")>>

ResetPassword ==
    <<Lock("credential")>> \o LockPrincipalRefreshAuthority \o <<Lock("key_reset"), Insert("session")>>

RevokeSessions ==
    PasswordReauthentication(<<>>) \o <<Lock("key_revoke")>> \o LockPrincipalRefreshAuthority

VerifyEmailWaiting == <<Lock("identity"), Lock("key_verify"), Lock("account"), Lock("authorization")>>

(* It locks the address, then the account, and may not wait for a device   *)
(* authorization, which device handlers lock before the account.           *)
VerifyEmail == <<Lock("identity"), Lock("key_verify"), Lock("account"), LockNoWait("authorization")>>

CreateDelivery == <<Lock("key_delivery"), Lock("identity"), Lock("credential"), Lock("account")>>

CreateEnrollmentGrant ==
    <<Lock("credential"), Lock("sessions"), Lock("account"), Lock("key_grant")>>

RotateRecoveryCodes == PasswordReauthentication(<<Lock("recovery")>>) \o <<Lock("key_codes")>>

ConsumeRecoveryCode == <<Lock("recovery"), Lock("account"), Lock("key_recover"), Insert("session")>>

BeginTOTPEnrollment == PasswordReauthentication(<<Lock("totp")>>) \o <<Lock("key_totp")>>

FinishPasskeyRegistration ==
    PasswordReauthentication(<<Lock("passkeys")>>) \o <<Lock("key_passkey"), Lock("passkeys")>>

FinishPasskeyAuthentication ==
    <<Lock("passkeys"), Lock("account"), Lock("key_login"), Insert("session")>>

RegisterDeviceAccountFirst == <<Lock("key_device"), Lock("account"), Lock("sessions")>>
RegisterDevice == <<Lock("key_device"), Lock("sessions"), Lock("account")>>

LockDeviceRefreshAuthority ==
    <<Lock("device_tokens"), Lock("family"), Lock("authorization"), Lock("device")>>

RotateDeviceToken == <<Lock("key_rotate_device")>> \o LockDeviceRefreshAuthority \o <<Lock("account")>>

RevokeDevice ==
    <<Lock("key_revoke_device")>> \o LockDeviceRefreshAuthority
        \o <<Lock("credential"), Lock("sessions"), Lock("account")>>

AuthorizeBundle == LockDeviceRefreshAuthority \o <<Lock("account")>>

Program ==
    [createSession |-> CreateSession, rotateSession |-> RotateSession,
     changePassword |-> ChangePassword, resetPassword |-> ResetPassword,
     revokeSessions |-> RevokeSessions, verifyEmail |-> VerifyEmail,
     createDelivery |-> CreateDelivery, createGrant |-> CreateEnrollmentGrant,
     rotateCodes |-> RotateRecoveryCodes, recover |-> ConsumeRecoveryCode,
     totp |-> BeginTOTPEnrollment, registerPasskey |-> FinishPasskeyRegistration,
     passkeyLogin |-> FinishPasskeyAuthentication, registerDevice |-> RegisterDevice,
     rotateDevice |-> RotateDeviceToken, revokeDevice |-> RevokeDevice, bundle |-> AuthorizeBundle]

ASSUME LocksAssumption == Operations \subseteq DOMAIN Program /\ Named \in Nat /\ Ranks \subseteq Nat

RowSets == {"tokens", "session_tokens", "sessions", "session"}
SingleRows ==
    (UNION {{Program[op][i].of : i \in DOMAIN Program[op]} : op \in Operations}) \ RowSets

-----------------------------------------------------------------------------
(* A transaction                                                           *)

Statement(w) == Program[tx[w].op][tx[w].at]
Executing(w, kinds) ==
    tx[w].op # "none" /\ tx[w].at \in DOMAIN Program[tx[w].op] /\ Statement(w).do \in kinds

Free(w, r) == \A v \in Workers \ {w} : r \notin tx[v].held

(* The statement is over when it has locked all it selected.               *)
Advanced(t) == IF t.todo = {} THEN [t EXCEPT !.at = @ + 1, !.runs = FALSE] ELSE t

Begin(w) ==
    /\ tx[w] = Idle
    /\ \E op \in Operations : tx' = [tx EXCEPT ![w] = [Idle EXCEPT !.op = op, !.at = 1]]
    /\ UNCHANGED rows

(* The statement takes its snapshot.                                       *)
StartLock(w) ==
    /\ Executing(w, {"lock"}) /\ ~tx[w].runs
    /\ LET found == Selected(Statement(w).of, rows)
           sees == IF Statement(w).of \in {"tokens", "session_tokens"} THEN found ELSE tx[w].seen
       IN tx' = [tx EXCEPT ![w] =
              Advanced([@ EXCEPT !.runs = TRUE, !.todo = found \ tx[w].held, !.seen = sees])]
    /\ UNCHANGED rows

TakeRow(w) ==
    /\ tx[w].todo # {}
    /\ LET row == First(tx[w].todo)
       IN /\ Free(w, row)
          /\ tx' = [tx EXCEPT ![w] =
                 Advanced([@ EXCEPT !.todo = tx[w].todo \ {row}, !.held = tx[w].held \cup {row}])]
    /\ UNCHANGED rows

(* FOR UPDATE NOWAIT: an error, which ends the transaction, instead of a   *)
(* wait.                                                                   *)
LockWithoutWait(w) ==
    /\ Executing(w, {"nowait"})
    /\ LET found == Selected(Statement(w).of, rows)
       IN tx' = [tx EXCEPT ![w] =
              IF \A r \in found : Free(w, r)
              THEN Advanced([@ EXCEPT !.held = tx[w].held \cup found]) ELSE Idle]
    /\ UNCHANGED rows

(* sameRefreshCollection: the tokens listed under the account lock are     *)
(* those that were locked, or the transaction fails.                       *)
RelistTokens(w) ==
    /\ Executing(w, {"relist"})
    /\ tx' = [tx EXCEPT ![w] =
           IF Selected(Statement(w).of, rows) = @.seen THEN Advanced(@) ELSE Idle]
    /\ UNCHANGED rows

(* A new token of the session, or a new session with its first token.      *)
UsedRanks(table) ==
    {r[3] : r \in {s \in rows \cup UNION {tx[w].new : w \in Workers} : s[1] = table}}

InsertRows(w) ==
    /\ Executing(w, {"insert"})
    /\ \E token \in Ranks \ UsedRanks("tokens") :
           \E session \in IF Statement(w).of = "session" THEN Ranks \ UsedRanks("sessions") ELSE {Named} :
              tx' = [tx EXCEPT ![w] = Advanced(
                  [@ EXCEPT !.new = {<<"tokens", session, token>>, <<"sessions", session, session>>} \ rows])]
    /\ UNCHANGED rows

Commit(w) ==
    /\ tx[w].op # "none" /\ tx[w].at > Len(Program[tx[w].op])
    /\ rows' = rows \cup tx[w].new
    /\ tx' = [tx EXCEPT ![w] = Idle]

(* A refusal, an error, the deadline of the request, or PostgreSQL's       *)
(* deadlock detector: ROLLBACK.                                            *)
Rollback(w) ==
    /\ tx[w] # Idle
    /\ tx' = [tx EXCEPT ![w] = Idle]
    /\ UNCHANGED rows

-----------------------------------------------------------------------------
Init ==
    /\ rows = {<<t, 0, 0>> : t \in SingleRows}
               \cup {<<"sessions", Named, Named>>, <<"tokens", Named, Named>>}
    /\ tx = [w \in Workers |-> Idle]

Step(w) ==
    \/ StartLock(w) \/ TakeRow(w) \/ LockWithoutWait(w) \/ RelistTokens(w) \/ InsertRows(w) \/ Commit(w)

Next == \E w \in Workers : Begin(w) \/ Step(w) \/ Rollback(w)

Spec == Init /\ [][Next]_vars

(* PostgreSQL serves the waiters of a row in turn, so a transaction that   *)
(* could go on again and again does.                                       *)
FairSpec == Spec /\ \A w \in Workers : SF_vars(Step(w))

-----------------------------------------------------------------------------
(* Properties                                                              *)

WaitsFor(w, v) == w # v /\ tx[w].todo # {} /\ First(tx[w].todo) \in tx[v].held

(* Workers each of which waits for another of them                         *)
Knot(W) == W # {} /\ \A w \in W : \E v \in W : WaitsFor(w, v)

(* A row is locked by one transaction, and locks are only held inside one. *)
TypeOK ==
    /\ \A w \in Workers : tx[w].held \subseteq rows /\ tx[w].todo \subseteq rows \ tx[w].held
    /\ \A w, v \in Workers : w # v => tx[w].held \cap tx[v].held = {}

(* No set of transactions waits on itself: what the handlers lock, in the  *)
(* order they lock it, cannot deadlock.                                    *)
NoDeadlock == \A W \in SUBSET Workers : ~Knot(W)

(* Handlers that lock refresh tokens do so before everything but the       *)
(* credential and the devices lock before the account: whatever they run,  *)
(* a set of transactions waits on itself only over the tokens of a session *)
(* that is being rotated.                                                  *)
DeadlockOnlyOnTokens ==
    \A W \in SUBSET Workers : Knot(W) => \E w \in W : First(tx[w].todo)[1] = "tokens"

HasRelisted(w) ==
    tx[w].op # "none" /\ \E i \in 1..tx[w].at - 1 :
        i \in DOMAIN Program[tx[w].op] /\ Program[tx[w].op][i] = Relist("tokens")

(* Once a handler has listed the tokens again under the account lock, and  *)
(* until it ends, it holds every token and every session the principal     *)
(* has: none is added behind it, so what it revokes or marks is all of     *)
(* them.                                                                   *)
SeesEveryRow ==
    \A w \in Workers : HasRelisted(w) =>
        Selected("tokens", rows) \cup Selected("sessions", rows) \subseteq tx[w].held

(* The transactions never wait for each other in a circle, and each sees   *)
(* every row that it locks.                                                *)
LocksAreSound ==
    /\ NoDeadlock
    /\ SeesEveryRow

(* Every transaction ends, whoever else keeps coming.                      *)
TransactionsEnd == \A w \in Workers : tx[w] # Idle ~> tx[w] = Idle

-----------------------------------------------------------------------------
(* Proofs: what the programs have in common.                               *)

(* The table whose rows a statement locks.                                 *)
Table(of) ==
    CASE of = "session_tokens" -> "tokens"
      [] of = "session" -> "sessions"
      [] OTHER -> of

(* The order in which every handler but one reaches the tables: device     *)
(* rows, the identity, the credential, the factors, sessions, the account, *)
(* and last the keys of requests.  Tokens have no place in it.             *)
Level(table) ==
    CASE table \in {"key_delivery", "key_device", "key_rotate_device", "key_revoke_device"} -> 0
      [] table = "device_tokens" -> 1
      [] table = "family" -> 2
      [] table = "authorization" -> 3
      [] table = "device" -> 4
      [] table = "identity" -> 5
      [] table = "key_verify" -> 6
      [] table = "credential" -> 7
      [] table \in {"recovery", "totp", "passkeys"} -> 8
      [] table = "sessions" -> 9
      [] table = "account" -> 10
      [] OTHER -> 11

(* A statement that locks rows outside the tokens.                         *)
Takes(st) == st.do \in {"lock", "nowait"} /\ Table(st.of) # "tokens"

(* A statement that may wait for a row outside the tokens.                 *)
Waits(st) == st.do = "lock" /\ Table(st.of) # "tokens"

(* The statement was issued before and its table gains no rows, so it      *)
(* finds every row already locked.                                         *)
Relocks(p, j) == p[j].of \notin RowSets /\ \E k \in 1..j-1 : p[k] = p[j]

(* A statement that waits finds its row locked already, or comes after the *)
(* statements of lower tables only.                                        *)
Ordered(p) ==
    \A j \in 1..Len(p) : Waits(p[j]) =>
        \/ Relocks(p, j)
        \/ \A i \in 1..j-1 : Takes(p[i]) => Level(Table(p[i].of)) < Level(Table(p[j].of))

(* New rows are inserted under the account lock, and the tokens are listed *)
(* again right after the tokens, the sessions and the account were locked, *)
(* and are locked no more.                                                 *)
Sound(p) ==
    /\ Len(p) \in Nat /\ DOMAIN p = 1..Len(p)
    /\ \A j \in 1..Len(p) :
        /\ p[j].do = "insert" => \E i \in 1..j-1 : p[i] = Lock("account")
        /\ p[j] = Relist("tokens") =>
              /\ j > 4 /\ p[j-1] = Lock("account") /\ p[j-2] = Lock("sessions") /\ p[j-3] = Lock("tokens")
              /\ \A i \in j-2..Len(p) : p[i].do = "lock" => p[i].of \notin {"tokens", "session_tokens"}

(* Tokens are locked under the credential lock.                            *)
CredentialFirst(p) ==
    \A j \in 1..Len(p) : p[j].do \in {"lock", "nowait"} /\ Table(p[j].of) = "tokens" =>
        \E i \in 1..j-1 : p[i] = Lock("credential")

(* What every program but RevokeSessions satisfies.                        *)
Fits(p) == Sound(p) /\ Ordered(p)

(* Sequences with the same elements are the same.                          *)
LEMMA SeqAlike ==
    ASSUME NEW S, NEW s \in Seq(S), NEW t \in Seq(S), Len(s) = Len(t), \A i \in 1 .. Len(s) : s[i] = t[i]
    PROVE  s = t
OBVIOUS

(* The levels and tables of the statements the programs use.               *)
LEMMA Levels ==
    /\ Level("credential") = 7 /\ Level("sessions") = 9 /\ Level("account") = 10
    /\ Level("key_create") = 11 /\ Level("key_rotate") = 11 /\ Level("key_change") = 11
    /\ Level("key_reset") = 11 /\ Level("key_revoke") = 11 /\ Level("recovery") = 8
    /\ Level("key_codes") = 11 /\ Level("totp") = 8 /\ Level("key_totp") = 11
    /\ Level("passkeys") = 8 /\ Level("key_passkey") = 11 /\ Level("key_rotate_device") = 0
    /\ Level("device_tokens") = 1 /\ Level("family") = 2 /\ Level("authorization") = 3
    /\ Level("device") = 4 /\ Level("key_revoke_device") = 0 /\ Level("identity") = 5
    /\ Level("key_verify") = 6 /\ Level("key_delivery") = 0 /\ Level("key_grant") = 11
    /\ Level("key_recover") = 11 /\ Level("key_login") = 11 /\ Level("key_device") = 0
    /\ Table("credential") = "credential" /\ Table("tokens") = "tokens"
    /\ Table("sessions") = "sessions" /\ Table("account") = "account"
    /\ Table("key_create") = "key_create" /\ Table("session") = "sessions"
    /\ Table("session_tokens") = "tokens" /\ Table("key_rotate") = "key_rotate"
    /\ Table("key_change") = "key_change" /\ Table("key_reset") = "key_reset"
    /\ Table("key_revoke") = "key_revoke" /\ Table("recovery") = "recovery"
    /\ Table("key_codes") = "key_codes" /\ Table("totp") = "totp" /\ Table("key_totp") = "key_totp"
    /\ Table("passkeys") = "passkeys" /\ Table("key_passkey") = "key_passkey"
    /\ Table("key_rotate_device") = "key_rotate_device" /\ Table("device_tokens") = "device_tokens"
    /\ Table("family") = "family" /\ Table("authorization") = "authorization"
    /\ Table("device") = "device" /\ Table("key_revoke_device") = "key_revoke_device"
    /\ Table("identity") = "identity" /\ Table("key_verify") = "key_verify"
    /\ Table("key_delivery") = "key_delivery" /\ Table("key_grant") = "key_grant"
    /\ Table("key_recover") = "key_recover" /\ Table("key_login") = "key_login"
    /\ Table("key_device") = "key_device"
BY Zenon DEF Level, Table

(* The statements of CreateSession.                                        *)
LEMMA CreateSessionFits == Fits(CreateSession) /\ CredentialFirst(CreateSession)
<1> DEFINE S == {Lock("credential"), Lock("tokens"), Lock("sessions"), Lock("account"), 
                  Relist("tokens"), Lock("key_create"), Insert("session")}
           u == <<Lock("credential"), Lock("tokens"), Lock("tokens"), Lock("sessions"), 
                  Lock("account"), Relist("tokens"), Lock("key_create"), Insert("session")>>
<1>1. CreateSession \in Seq(S) /\ Len(CreateSession) = 8  BY DEF CreateSession, LockPrincipalRefreshAuthority
<1>2. \A i \in 1 .. 8 : CreateSession[i] = u[i]  BY DEF CreateSession, LockPrincipalRefreshAuthority
<1>3. u \in Seq(S) /\ Len(u) = 8  OBVIOUS
<1>4. Sound(u)  BY DEF Sound, Lock, LockNoWait, Relist, Insert
<1>5. Ordered(u)  BY Levels DEF Ordered, Waits, Takes, Lock, Relist, Insert
<1>7. CredentialFirst(u)  BY Levels DEF CredentialFirst, Lock, Relist, Insert
<1> HIDE DEF u, S
<1>6. CreateSession = u  BY Zenon, <1>1, <1>2, <1>3, SeqAlike
<1> QED BY Zenon, <1>4, <1>5, <1>6, <1>7 DEF Fits

(* The statements of RotateSession.                                        *)
LEMMA RotateSessionFits == Fits(RotateSession)
<1> DEFINE S == {Lock("session_tokens"), Lock("sessions"), Lock("account"), 
                  Relist("session_tokens"), Lock("key_rotate"), Insert("session_tokens")}
           u == <<Lock("session_tokens"), Lock("session_tokens"), Lock("sessions"), 
                  Lock("account"), Relist("session_tokens"), Lock("key_rotate"), 
                  Insert("session_tokens")>>
<1>1. RotateSession \in Seq(S) /\ Len(RotateSession) = 7  BY DEF RotateSession, LockSessionRefreshAuthority
<1>2. \A i \in 1 .. 7 : RotateSession[i] = u[i]  BY DEF RotateSession, LockSessionRefreshAuthority
<1>3. u \in Seq(S) /\ Len(u) = 7  OBVIOUS
<1>4. Sound(u)  BY DEF Sound, Lock, LockNoWait, Relist, Insert
<1>5. Ordered(u)  BY Levels DEF Ordered, Waits, Takes, Lock, Relist, Insert
<1> HIDE DEF u, S
<1>6. RotateSession = u  BY Zenon, <1>1, <1>2, <1>3, SeqAlike
<1> QED BY Zenon, <1>4, <1>5, <1>6 DEF Fits

(* The statements of ChangePassword.                                       *)
LEMMA ChangePasswordFits == Fits(ChangePassword) /\ CredentialFirst(ChangePassword)
<1> DEFINE S == {Lock("credential"), Lock("tokens"), Lock("sessions"), Lock("account"), 
                  Relist("tokens"), Lock("key_change"), Insert("session")}
           u == <<Lock("credential"), Lock("tokens"), Lock("tokens"), Lock("sessions"), 
                  Lock("account"), Relist("tokens"), Lock("key_change"), Insert("session")>>
<1>1. ChangePassword \in Seq(S) /\ Len(ChangePassword) = 8  BY DEF ChangePassword, LockPrincipalRefreshAuthority
<1>2. \A i \in 1 .. 8 : ChangePassword[i] = u[i]  BY DEF ChangePassword, LockPrincipalRefreshAuthority
<1>3. u \in Seq(S) /\ Len(u) = 8  OBVIOUS
<1>4. Sound(u)  BY DEF Sound, Lock, LockNoWait, Relist, Insert
<1>5. Ordered(u)  BY Levels DEF Ordered, Waits, Takes, Lock, Relist, Insert
<1>7. CredentialFirst(u)  BY Levels DEF CredentialFirst, Lock, Relist, Insert
<1> HIDE DEF u, S
<1>6. ChangePassword = u  BY Zenon, <1>1, <1>2, <1>3, SeqAlike
<1> QED BY Zenon, <1>4, <1>5, <1>6, <1>7 DEF Fits

(* The statements of ResetPassword.                                        *)
LEMMA ResetPasswordFits == Fits(ResetPassword) /\ CredentialFirst(ResetPassword)
<1> DEFINE S == {Lock("credential"), Lock("tokens"), Lock("sessions"), Lock("account"), 
                  Relist("tokens"), Lock("key_reset"), Insert("session")}
           u == <<Lock("credential"), Lock("tokens"), Lock("tokens"), Lock("sessions"), 
                  Lock("account"), Relist("tokens"), Lock("key_reset"), Insert("session")>>
<1>1. ResetPassword \in Seq(S) /\ Len(ResetPassword) = 8  BY DEF ResetPassword, LockPrincipalRefreshAuthority
<1>2. \A i \in 1 .. 8 : ResetPassword[i] = u[i]  BY DEF ResetPassword, LockPrincipalRefreshAuthority
<1>3. u \in Seq(S) /\ Len(u) = 8  OBVIOUS
<1>4. Sound(u)  BY DEF Sound, Lock, LockNoWait, Relist, Insert
<1>5. Ordered(u)  BY Levels DEF Ordered, Waits, Takes, Lock, Relist, Insert
<1>7. CredentialFirst(u)  BY Levels DEF CredentialFirst, Lock, Relist, Insert
<1> HIDE DEF u, S
<1>6. ResetPassword = u  BY Zenon, <1>1, <1>2, <1>3, SeqAlike
<1> QED BY Zenon, <1>4, <1>5, <1>6, <1>7 DEF Fits

(* The statements of RevokeSessions.                                       *)
LEMMA RevokeSessionsFits == Sound(RevokeSessions) /\ CredentialFirst(RevokeSessions)
<1> DEFINE S == {Lock("credential"), Lock("session"), Lock("account"), Lock("key_revoke"), 
                  Lock("tokens"), Lock("sessions"), Relist("tokens")}
           u == <<Lock("credential"), Lock("session"), Lock("account"), Lock("key_revoke"), 
                  Lock("tokens"), Lock("tokens"), Lock("sessions"), Lock("account"), 
                  Relist("tokens")>>
<1>1. RevokeSessions \in Seq(S) /\ Len(RevokeSessions) = 9  BY DEF RevokeSessions, LockPrincipalRefreshAuthority, PasswordReauthentication
<1>2. \A i \in 1 .. 9 : RevokeSessions[i] = u[i]  BY DEF RevokeSessions, LockPrincipalRefreshAuthority, PasswordReauthentication
<1>3. u \in Seq(S) /\ Len(u) = 9  OBVIOUS
<1>4. Sound(u)  BY DEF Sound, Lock, LockNoWait, Relist, Insert
<1>7. CredentialFirst(u)  BY Levels DEF CredentialFirst, Lock, Relist, Insert
<1> HIDE DEF u, S
<1>6. RevokeSessions = u  BY Zenon, <1>1, <1>2, <1>3, SeqAlike
<1> QED BY Zenon, <1>4, <1>6, <1>7 DEF Fits

(* The statements of VerifyEmail.                                          *)
LEMMA VerifyEmailFits == Fits(VerifyEmail) /\ CredentialFirst(VerifyEmail)
<1>1. Sound(VerifyEmail)  BY DEF VerifyEmail, Sound, Lock, LockNoWait, Relist, Insert
<1>2. Ordered(VerifyEmail)  BY Levels DEF VerifyEmail, Ordered, Waits, Takes, Lock, LockNoWait
<1>3. CredentialFirst(VerifyEmail)  BY Levels DEF VerifyEmail, CredentialFirst, Lock, LockNoWait
<1> QED BY Zenon, <1>1, <1>2, <1>3 DEF Fits

(* The statements of CreateDelivery.                                       *)
LEMMA CreateDeliveryFits == Fits(CreateDelivery) /\ CredentialFirst(CreateDelivery)
<1>1. Sound(CreateDelivery)  BY DEF CreateDelivery, Sound, Lock, LockNoWait, Relist, Insert
<1>2. Ordered(CreateDelivery)  BY Levels DEF CreateDelivery, Ordered, Waits, Takes, Lock
<1>3. CredentialFirst(CreateDelivery)  BY Levels DEF CreateDelivery, CredentialFirst, Lock
<1> QED BY Zenon, <1>1, <1>2, <1>3 DEF Fits

(* The statements of CreateEnrollmentGrant.                                *)
LEMMA CreateEnrollmentGrantFits == Fits(CreateEnrollmentGrant) /\ CredentialFirst(CreateEnrollmentGrant)
<1>1. Sound(CreateEnrollmentGrant)  BY DEF CreateEnrollmentGrant, Sound, Lock, LockNoWait, Relist, Insert
<1>2. Ordered(CreateEnrollmentGrant)  BY Levels DEF CreateEnrollmentGrant, Ordered, Waits, Takes, Lock
<1>3. CredentialFirst(CreateEnrollmentGrant)  BY Levels DEF CreateEnrollmentGrant, CredentialFirst, Lock
<1> QED BY Zenon, <1>1, <1>2, <1>3 DEF Fits

(* The statements of RotateRecoveryCodes.                                  *)
LEMMA RotateRecoveryCodesFits == Fits(RotateRecoveryCodes) /\ CredentialFirst(RotateRecoveryCodes)
<1> DEFINE S == {Lock("credential"), Lock("recovery"), Lock("session"), Lock("account"), 
                  Lock("key_codes")}
           u == <<Lock("credential"), Lock("recovery"), Lock("session"), Lock("account"), 
                  Lock("key_codes")>>
<1>1. RotateRecoveryCodes \in Seq(S) /\ Len(RotateRecoveryCodes) = 5  BY DEF RotateRecoveryCodes, PasswordReauthentication
<1>2. \A i \in 1 .. 5 : RotateRecoveryCodes[i] = u[i]  BY DEF RotateRecoveryCodes, PasswordReauthentication
<1>3. u \in Seq(S) /\ Len(u) = 5  OBVIOUS
<1>4. Sound(u)  BY DEF Sound, Lock, LockNoWait, Relist, Insert
<1>5. Ordered(u)  BY Levels DEF Ordered, Waits, Takes, Lock, Relist, Insert
<1>7. CredentialFirst(u)  BY Levels DEF CredentialFirst, Lock, Relist, Insert
<1> HIDE DEF u, S
<1>6. RotateRecoveryCodes = u  BY Zenon, <1>1, <1>2, <1>3, SeqAlike
<1> QED BY Zenon, <1>4, <1>5, <1>6, <1>7 DEF Fits

(* The statements of ConsumeRecoveryCode.                                  *)
LEMMA ConsumeRecoveryCodeFits == Fits(ConsumeRecoveryCode) /\ CredentialFirst(ConsumeRecoveryCode)
<1>1. Sound(ConsumeRecoveryCode)  BY DEF ConsumeRecoveryCode, Sound, Lock, LockNoWait, Relist, Insert
<1>2. Ordered(ConsumeRecoveryCode)  BY Levels DEF ConsumeRecoveryCode, Ordered, Waits, Takes, Insert, Lock
<1>3. CredentialFirst(ConsumeRecoveryCode)  BY Levels DEF ConsumeRecoveryCode, CredentialFirst, Insert, Lock
<1> QED BY Zenon, <1>1, <1>2, <1>3 DEF Fits

(* The statements of BeginTOTPEnrollment.                                  *)
LEMMA BeginTOTPEnrollmentFits == Fits(BeginTOTPEnrollment) /\ CredentialFirst(BeginTOTPEnrollment)
<1> DEFINE S == {Lock("credential"), Lock("totp"), Lock("session"), Lock("account"), 
                  Lock("key_totp")}
           u == <<Lock("credential"), Lock("totp"), Lock("session"), Lock("account"), 
                  Lock("key_totp")>>
<1>1. BeginTOTPEnrollment \in Seq(S) /\ Len(BeginTOTPEnrollment) = 5  BY DEF BeginTOTPEnrollment, PasswordReauthentication
<1>2. \A i \in 1 .. 5 : BeginTOTPEnrollment[i] = u[i]  BY DEF BeginTOTPEnrollment, PasswordReauthentication
<1>3. u \in Seq(S) /\ Len(u) = 5  OBVIOUS
<1>4. Sound(u)  BY DEF Sound, Lock, LockNoWait, Relist, Insert
<1>5. Ordered(u)  BY Levels DEF Ordered, Waits, Takes, Lock, Relist, Insert
<1>7. CredentialFirst(u)  BY Levels DEF CredentialFirst, Lock, Relist, Insert
<1> HIDE DEF u, S
<1>6. BeginTOTPEnrollment = u  BY Zenon, <1>1, <1>2, <1>3, SeqAlike
<1> QED BY Zenon, <1>4, <1>5, <1>6, <1>7 DEF Fits

(* The statements of FinishPasskeyRegistration.                            *)
LEMMA FinishPasskeyRegistrationFits == Fits(FinishPasskeyRegistration) /\ CredentialFirst(FinishPasskeyRegistration)
<1> DEFINE S == {Lock("credential"), Lock("passkeys"), Lock("session"), Lock("account"), 
                  Lock("key_passkey")}
           u == <<Lock("credential"), Lock("passkeys"), Lock("session"), Lock("account"), 
                  Lock("key_passkey"), Lock("passkeys")>>
<1>1. FinishPasskeyRegistration \in Seq(S) /\ Len(FinishPasskeyRegistration) = 6  BY DEF FinishPasskeyRegistration, PasswordReauthentication
<1>2. \A i \in 1 .. 6 : FinishPasskeyRegistration[i] = u[i]  BY DEF FinishPasskeyRegistration, PasswordReauthentication
<1>3. u \in Seq(S) /\ Len(u) = 6  OBVIOUS
<1>4. Sound(u)  BY DEF Sound, Lock, LockNoWait, Relist, Insert
<1>5. Ordered(u)  BY Levels DEF Ordered, Waits, Takes, Relocks, RowSets, Lock, Relist, Insert
<1>7. CredentialFirst(u)  BY Levels DEF CredentialFirst, Lock, Relist, Insert
<1> HIDE DEF u, S
<1>6. FinishPasskeyRegistration = u  BY Zenon, <1>1, <1>2, <1>3, SeqAlike
<1> QED BY Zenon, <1>4, <1>5, <1>6, <1>7 DEF Fits

(* The statements of FinishPasskeyAuthentication.                          *)
LEMMA FinishPasskeyAuthenticationFits == Fits(FinishPasskeyAuthentication) /\ CredentialFirst(FinishPasskeyAuthentication)
<1>1. Sound(FinishPasskeyAuthentication)  BY DEF FinishPasskeyAuthentication, Sound, Lock, LockNoWait, Relist, Insert
<1>2. Ordered(FinishPasskeyAuthentication)  BY Levels DEF FinishPasskeyAuthentication, Ordered, Waits, Takes, Insert, Lock
<1>3. CredentialFirst(FinishPasskeyAuthentication)  BY Levels DEF FinishPasskeyAuthentication, CredentialFirst, Insert, Lock
<1> QED BY Zenon, <1>1, <1>2, <1>3 DEF Fits

(* The statements of RegisterDevice.                                       *)
LEMMA RegisterDeviceFits == Fits(RegisterDevice) /\ CredentialFirst(RegisterDevice)
<1>1. Sound(RegisterDevice)  BY DEF RegisterDevice, Sound, Lock, LockNoWait, Relist, Insert
<1>2. Ordered(RegisterDevice)  BY Levels DEF RegisterDevice, Ordered, Waits, Takes, Lock
<1>3. CredentialFirst(RegisterDevice)  BY Levels DEF RegisterDevice, CredentialFirst, Lock
<1> QED BY Zenon, <1>1, <1>2, <1>3 DEF Fits

(* The statements of RotateDeviceToken.                                    *)
LEMMA RotateDeviceTokenFits == Fits(RotateDeviceToken) /\ CredentialFirst(RotateDeviceToken)
<1> DEFINE S == {Lock("key_rotate_device"), Lock("device_tokens"), Lock("family"), 
                  Lock("authorization"), Lock("device"), Lock("account")}
           u == <<Lock("key_rotate_device"), Lock("device_tokens"), Lock("family"), 
                  Lock("authorization"), Lock("device"), Lock("account")>>
<1>1. RotateDeviceToken \in Seq(S) /\ Len(RotateDeviceToken) = 6  BY DEF RotateDeviceToken, LockDeviceRefreshAuthority
<1>2. \A i \in 1 .. 6 : RotateDeviceToken[i] = u[i]  BY DEF RotateDeviceToken, LockDeviceRefreshAuthority
<1>3. u \in Seq(S) /\ Len(u) = 6  OBVIOUS
<1>4. Sound(u)  BY DEF Sound, Lock, LockNoWait, Relist, Insert
<1>5. Ordered(u)  BY Levels DEF Ordered, Waits, Takes, Lock, Relist, Insert
<1>7. CredentialFirst(u)  BY Levels DEF CredentialFirst, Lock, Relist, Insert
<1> HIDE DEF u, S
<1>6. RotateDeviceToken = u  BY Zenon, <1>1, <1>2, <1>3, SeqAlike
<1> QED BY Zenon, <1>4, <1>5, <1>6, <1>7 DEF Fits

(* The statements of RevokeDevice.                                         *)
LEMMA RevokeDeviceFits == Fits(RevokeDevice) /\ CredentialFirst(RevokeDevice)
<1> DEFINE S == {Lock("key_revoke_device"), Lock("device_tokens"), Lock("family"), 
                  Lock("authorization"), Lock("device"), Lock("credential"), Lock("sessions"), 
                  Lock("account")}
           u == <<Lock("key_revoke_device"), Lock("device_tokens"), Lock("family"), 
                  Lock("authorization"), Lock("device"), Lock("credential"), Lock("sessions"), 
                  Lock("account")>>
<1>1. RevokeDevice \in Seq(S) /\ Len(RevokeDevice) = 8  BY DEF RevokeDevice, LockDeviceRefreshAuthority
<1>2. \A i \in 1 .. 8 : RevokeDevice[i] = u[i]  BY DEF RevokeDevice, LockDeviceRefreshAuthority
<1>3. u \in Seq(S) /\ Len(u) = 8  OBVIOUS
<1>4. Sound(u)  BY DEF Sound, Lock, LockNoWait, Relist, Insert
<1>5. Ordered(u)  BY Levels DEF Ordered, Waits, Takes, Lock, Relist, Insert
<1>7. CredentialFirst(u)  BY Levels DEF CredentialFirst, Lock, Relist, Insert
<1> HIDE DEF u, S
<1>6. RevokeDevice = u  BY Zenon, <1>1, <1>2, <1>3, SeqAlike
<1> QED BY Zenon, <1>4, <1>5, <1>6, <1>7 DEF Fits

(* The statements of AuthorizeBundle.                                      *)
LEMMA AuthorizeBundleFits == Fits(AuthorizeBundle) /\ CredentialFirst(AuthorizeBundle)
<1> DEFINE S == {Lock("device_tokens"), Lock("family"), Lock("authorization"), Lock("device"), 
                  Lock("account")}
           u == <<Lock("device_tokens"), Lock("family"), Lock("authorization"), Lock("device"), 
                  Lock("account")>>
<1>1. AuthorizeBundle \in Seq(S) /\ Len(AuthorizeBundle) = 5  BY DEF AuthorizeBundle, LockDeviceRefreshAuthority
<1>2. \A i \in 1 .. 5 : AuthorizeBundle[i] = u[i]  BY DEF AuthorizeBundle, LockDeviceRefreshAuthority
<1>3. u \in Seq(S) /\ Len(u) = 5  OBVIOUS
<1>4. Sound(u)  BY DEF Sound, Lock, LockNoWait, Relist, Insert
<1>5. Ordered(u)  BY Levels DEF Ordered, Waits, Takes, Lock, Relist, Insert
<1>7. CredentialFirst(u)  BY Levels DEF CredentialFirst, Lock, Relist, Insert
<1> HIDE DEF u, S
<1>6. AuthorizeBundle = u  BY Zenon, <1>1, <1>2, <1>3, SeqAlike
<1> QED BY Zenon, <1>4, <1>5, <1>6, <1>7 DEF Fits

(* Every program is sound, all but one are ordered, and all but            *)
(* RotateSession lock the credential before any token.                     *)
LEMMA ProgramsFit ==
    \A op \in DOMAIN Program : Sound(Program[op]) /\ (op # "revokeSessions" => Ordered(Program[op])) /\ (op # "rotateSession" => CredentialFirst(Program[op]))
BY CreateSessionFits, RotateSessionFits, ChangePasswordFits, ResetPasswordFits, RevokeSessionsFits, VerifyEmailFits, CreateDeliveryFits, CreateEnrollmentGrantFits, RotateRecoveryCodesFits, ConsumeRecoveryCodeFits, BeginTOTPEnrollmentFits, FinishPasskeyRegistrationFits, FinishPasskeyAuthenticationFits, RegisterDeviceFits, RotateDeviceTokenFits, RevokeDeviceFits, AuthorizeBundleFits DEF Program, Fits

-----------------------------------------------------------------------------
(* Proofs: the inductive invariant                                         *)

(* The number of statements of a program.                                  *)
Size(op) == Len(Program[op])

(* Their places.                                                           *)
Steps(op) == 1 .. Size(op)

(* What a statement does.                                                  *)
Do(op, i) == Program[op][i].do

(* What it does it to.                                                     *)
Of(op, i) == Program[op][i].of

(* The table whose rows it locks.                                          *)
TableOf(op, i) == Table(Of(op, i))

(* It locks rows.                                                          *)
Locks(op, i) == Do(op, i) \in {"lock", "nowait"}

(* It lists the tokens of the principal again.                             *)
Relists(op, i) == Program[op][i] = Relist("tokens")

(* A transaction has the fields of Idle.                                   *)
IsTx(t) ==
    t = [op |-> t.op, at |-> t.at, runs |-> t.runs, todo |-> t.todo, held |-> t.held, seen |-> t.seen, new |-> t.new]

(* A row: a session is its own rank, and a table of one row has the row 0. *)
RowIs(r) ==
    /\ r = <<r[1], r[2], r[3]>> /\ r[2] \in Nat /\ r[3] \in {0, Named} \cup Ranks
    /\ r[1] = "sessions" => r[2] = r[3]
    /\ r[1] \notin {"tokens", "sessions"} => r[2] = 0 /\ r[3] = 0

(* The committed rows: the single rows are there, a token has its session, *)
(* and a session has a token.                                              *)
RowsHold(R) ==
    /\ \A r \in R : RowIs(r)
    /\ \A t \in SingleRows : <<t, 0, 0>> \in R
    /\ <<"sessions", Named, Named>> \in R
    /\ \A r \in R : r[1] = "tokens" => <<"sessions", r[2], r[2]>> \in R
    /\ \A r \in R : r[1] = "sessions" => \E s \in R : s[1] = "tokens" /\ s[2] = r[2]

(* A transaction is before one of its statements, or past the last.        *)
Placed(t) == t.op \in Operations /\ t.at \in Nat /\ t.at >= 1 /\ t.at <= Size(t.op) + 1

(* It waits only inside a lock statement, for rows of its table.           *)
Waiting(t) ==
    t.todo # {} =>
        /\ t.runs /\ t.at <= Size(t.op) /\ Do(t.op, t.at) = "lock"
        /\ \A s \in t.todo : s[1] = TableOf(t.op, t.at)

(* It has begun the statement i.                                           *)
Begun(t, i) == i < t.at \/ (i = t.at /\ t.todo # {})

(* It holds only what a statement it has begun locks.                      *)
Behind(t) ==
    \A r \in t.held : \E i \in Steps(t.op) : Begun(t, i) /\ Locks(t.op, i) /\ r[1] = TableOf(t.op, i)

(* Where a transaction is.                                                 *)
Place(t) == Placed(t) /\ Waiting(t) /\ Behind(t)

(* It waits for committed rows that it does not hold, and holds committed  *)
(* rows.                                                                   *)
Lists(t, R) == t.held \subseteq R /\ t.todo \subseteq R \ t.held

(* S has every row of the table.                                           *)
Has(S, table, R) == \A r \in R : r[1] = table => r \in S

(* A statement that locks a table of one row.                              *)
Single(op, i) == Do(op, i) = "lock" /\ Of(op, i) \notin RowSets

(* Statements that have run on a table of one row hold that row, and the   *)
(* one that runs holds it or has it to do.                                 *)
Covers(t, R) ==
    /\ \A i \in Steps(t.op) : i < t.at /\ Single(t.op, i) => Has(t.held, Of(t.op, i), R)
    /\ t.todo # {} /\ Single(t.op, t.at) => Has(t.held \cup t.todo, Of(t.op, t.at), R)

(* Within a statement the rows held come before the rows to do.            *)
InOrder(t) ==
    t.op # "revokeSessions" =>
        \A r \in t.held, s \in t.todo : r[1] = s[1] /\ r[1] # "tokens" => r[3] < s[3]

(* What was seen is a set of committed tokens, all in S.                   *)
TokensIn(t, R, S) == t.seen \subseteq S /\ \A s \in t.seen : s \in R /\ s[1] = "tokens"

(* The sessions of the tokens seen are in S.                               *)
SessionsIn(t, R, S) == \A r \in R : r[1] = "sessions" /\ (\E s \in t.seen : s[2] = r[2]) => r \in S

(* Every token and session is held.                                        *)
AllIn(t, R) == \A r \in R : r[1] \in {"tokens", "sessions"} => r \in t.held

(* Around the second listing, at j: first the tokens seen are locked, then *)
(* their sessions, and once the listing agreed nothing is left out.        *)
SeesAt(t, R, j) ==
    /\ t.at = j - 3 /\ t.todo # {} => TokensIn(t, R, t.held \cup t.todo)
    /\ t.at >= j - 2 => TokensIn(t, R, t.held)
    /\ t.at = j - 2 /\ t.todo # {} => SessionsIn(t, R, t.held \cup t.todo)
    /\ t.at > j - 2 => SessionsIn(t, R, t.held)
    /\ t.at > j => AllIn(t, R)

(* Around the second listing: first the tokens seen are locked, then their *)
(* sessions, and once the listing agreed nothing is left out.              *)
Sees(t, R) == \A j \in Steps(t.op) : Relists(t.op, j) => SeesAt(t, R, j)

(* A row not yet committed: a token with its session, or a session with a  *)
(* token.                                                                  *)
NewRow(r, new, R) ==
    /\ RowIs(r) /\ r \notin R /\ r[1] \in {"tokens", "sessions"}
    /\ r[1] = "tokens" => <<"sessions", r[2], r[2]>> \in R \cup new
    /\ r[1] = "sessions" => \E s \in new : s[1] = "tokens" /\ s[2] = r[2]

(* Rows not yet committed come from an insert, are new, and a new session  *)
(* comes with a token.                                                     *)
News(t, R) ==
    /\ t.new # {} => \E i \in Steps(t.op) : i < t.at /\ Do(t.op, i) = "insert"
    /\ \A r \in t.new : NewRow(r, t.new, R)

(* What a running transaction satisfies over the committed rows.           *)
Runs(t, R) == Place(t) /\ Lists(t, R) /\ Covers(t, R) /\ InOrder(t) /\ Sees(t, R) /\ News(t, R)

(* What a transaction satisfies over the committed rows.                   *)
Holds(t, R) == IsTx(t) /\ (t.op = "none" => t = Idle) /\ (t.op # "none" => Runs(t, R))

(* The inductive invariant: the rows and every transaction hold, and no    *)
(* row is locked or inserted by two.                                       *)
IInv ==
    /\ RowsHold(rows)
    /\ tx = [w \in Workers |-> tx[w]]
    /\ \A w \in Workers : Holds(tx[w], rows)
    /\ \A w, v \in Workers : w # v => tx[w].held \cap tx[v].held = {} /\ tx[w].new \cap tx[v].new = {}

(* No program is named "none".                                             *)
LEMMA NoneIsNot == "none" \notin DOMAIN Program
BY Zenon DEF Program

(* Programs are finite sequences, none of them named "none".               *)
LEMMA StepsOf ==
    ASSUME NEW op \in Operations
    PROVE  /\ op # "none" /\ Size(op) \in Nat /\ DOMAIN Program[op] = Steps(op)
           /\ \A i \in Steps(op) : i \in Nat /\ i >= 1 /\ i <= Size(op)
           /\ \A i \in Nat : i >= 1 /\ i <= Size(op) => i \in Steps(op)
<1>1. op \in DOMAIN Program  BY Zenon, LocksAssumption
<1>2. Sound(Program[op]) /\ op # "none"  BY Zenon, <1>1, ProgramsFit, NoneIsNot
<1>3. Size(op) \in Nat /\ DOMAIN Program[op] = Steps(op)  BY Zenon, <1>2 DEF Sound, Size, Steps
<1> QED BY <1>2, <1>3 DEF Steps

(* Rows are inserted after the account was locked.                         *)
LEMMA InsertsUnderAccount ==
    ASSUME NEW op \in Operations, NEW j \in Steps(op), Do(op, j) = "insert"
    PROVE  \E i \in Steps(op) : i < j /\ Do(op, i) = "lock" /\ Of(op, i) = "account"
<1> DEFINE p == Program[op]
<1>1. Sound(p)  BY Zenon, LocksAssumption, ProgramsFit
<1>2. j \in 1 .. Len(p) /\ p[j].do = "insert"  BY Zenon DEF Steps, Size, Do
<1> HIDE DEF p
<1>3. PICK i \in 1 .. j - 1 : p[i] = Lock("account")  BY Zenon, <1>1, <1>2 DEF Sound
<1>4. p[i].do = "lock" /\ p[i].of = "account"  BY <1>3 DEF Lock
<1>5. i < j /\ i \in 1 .. Len(p)  BY <1>1, <1>2 DEF Sound
<1> QED BY Zenon, <1>4, <1>5 DEF Do, Of, Steps, Size, p

(* What stands around a second listing of the tokens.                      *)
LEMMA RelistAt ==
    ASSUME NEW op \in Operations, NEW j \in Steps(op), Relists(op, j)
    PROVE  /\ j \in Nat /\ j > 4 /\ j - 1 \in Steps(op) /\ Do(op, j) = "relist" /\ Of(op, j) = "tokens"
           /\ Do(op, j - 1) = "lock" /\ Of(op, j - 1) = "account"
           /\ Do(op, j - 2) = "lock" /\ Of(op, j - 2) = "sessions"
           /\ Do(op, j - 3) = "lock" /\ Of(op, j - 3) = "tokens"
           /\ \A i \in Steps(op) : i >= j - 2 /\ Do(op, i) = "lock" => Of(op, i) \notin {"tokens", "session_tokens"}
<1> DEFINE p == Program[op]
<1>1. Sound(p)  BY Zenon, LocksAssumption, ProgramsFit
<1>2. j \in 1 .. Len(p) /\ p[j] = Relist("tokens")  BY Zenon DEF Steps, Size, Relists
<1> HIDE DEF p
<1>3. /\ j > 4 /\ p[j-1] = Lock("account") /\ p[j-2] = Lock("sessions") /\ p[j-3] = Lock("tokens")
      /\ \A i \in j-2..Len(p) : p[i].do = "lock" => p[i].of \notin {"tokens", "session_tokens"}
  BY Zenon, <1>1, <1>2 DEF Sound
<1>4. \A x : Lock(x).do = "lock" /\ Lock(x).of = x /\ Relist(x).do = "relist" /\ Relist(x).of = x  BY Zenon DEF Lock, Relist
<1>5. Len(p) \in Nat  BY Zenon, <1>1 DEF Sound
<1>6. j \in Nat /\ j > 4 /\ j - 1 \in 1 .. Len(p) /\ \A i \in 1 .. Len(p) : i >= j - 2 => i \in j-2..Len(p)
  BY ONLY <1>2, <1>3, <1>5
<1> QED BY Zenon, <1>2, <1>3, <1>4, <1>6 DEF Do, Of, Steps, Size, p

(* A statement that waits locks a row that is held already, or comes after *)
(* statements of lower tables only.                                        *)
LEMMA OrderIs ==
    ASSUME NEW op \in Operations, op # "revokeSessions", NEW j \in Steps(op), Do(op, j) = "lock", TableOf(op, j) # "tokens"
    PROVE  \/ Single(op, j) /\ \E k \in Steps(op) : k < j /\ Single(op, k) /\ Of(op, k) = Of(op, j)
           \/ \A i \in Steps(op) : i < j /\ Locks(op, i) /\ TableOf(op, i) # "tokens" =>
                 Level(TableOf(op, i)) < Level(TableOf(op, j))
<1> DEFINE p == Program[op]
<1>1. Sound(p) /\ Ordered(p)  BY Zenon, LocksAssumption, ProgramsFit
<1>2. j \in 1 .. Len(p) /\ Waits(p[j]) /\ p[j].do = "lock"  BY Zenon DEF Steps, Size, Do, Of, TableOf, Waits
<1> HIDE DEF p
<1>3. Relocks(p, j) \/ \A i \in 1..j-1 : Takes(p[i]) => Level(Table(p[i].of)) < Level(Table(p[j].of))
  BY Zenon, <1>1, <1>2 DEF Ordered
<1>4. Len(p) \in Nat  BY Zenon, <1>1 DEF Sound
<1>5. \A i \in 1 .. j - 1 : i \in 1 .. Len(p) /\ i < j  BY ONLY <1>2, <1>4
<1>6. \A i \in 1 .. Len(p) : i < j => i \in 1 .. j - 1  BY ONLY <1>2, <1>4
<1>7. CASE Relocks(p, j)
  <2>1. PICK k \in 1 .. j - 1 : p[k] = p[j]  BY Zenon, <1>7 DEF Relocks
  <2>2. p[j].of \notin RowSets  BY Zenon, <1>7 DEF Relocks
  <2> QED BY Zenon, <1>2, <1>5, <2>1, <2>2 DEF Single, Do, Of, Steps, Size, p
<1>8. CASE \A i \in 1..j-1 : Takes(p[i]) => Level(Table(p[i].of)) < Level(Table(p[j].of))
  BY Zenon, <1>6, <1>8 DEF Takes, Locks, TableOf, Do, Of, Steps, Size, p
<1> QED BY Zenon, <1>3, <1>7, <1>8

(* Tokens are locked after the credential, except in RotateSession.        *)
LEMMA CredentialIsFirst ==
    ASSUME NEW op \in Operations, op # "rotateSession", NEW j \in Steps(op), Locks(op, j), TableOf(op, j) = "tokens"
    PROVE  \E i \in Steps(op) : i < j /\ Do(op, i) = "lock" /\ Of(op, i) = "credential"
<1> DEFINE p == Program[op]
<1>1. Sound(p) /\ CredentialFirst(p)  BY Zenon, LocksAssumption, ProgramsFit
<1>2. j \in 1 .. Len(p) /\ p[j].do \in {"lock", "nowait"} /\ Table(p[j].of) = "tokens"
  BY Zenon DEF Steps, Size, Do, Of, TableOf, Locks
<1> HIDE DEF p
<1>3. PICK i \in 1 .. j - 1 : p[i] = Lock("credential")  BY Zenon, <1>1, <1>2 DEF CredentialFirst
<1>4. Len(p) \in Nat  BY Zenon, <1>1 DEF Sound
<1>5. i \in 1 .. Len(p) /\ i < j  BY ONLY <1>2, <1>4, i \in 1 .. j - 1
<1>6. Lock("credential").do = "lock" /\ Lock("credential").of = "credential"  BY Zenon DEF Lock
<1> QED BY Zenon, <1>3, <1>5, <1>6 DEF Do, Of, Steps, Size, p

(* The fields of an idle transaction.                                      *)
LEMMA IdleIs == IsTx(Idle) /\ Idle.op = "none" /\ Idle.held = {} /\ Idle.new = {} /\ Idle.todo = {} /\ Idle.at = 0 /\ Idle.runs = FALSE /\ Idle.seen = {}
BY Zenon DEF IsTx, Idle

(* A level is a natural number.                                            *)
LEMMA LevelIsNat == \A t : Level(t) \in Nat /\ Level(t) <= 11
BY DEF Level

(* What a statement selects: rows of its table, all of them unless it      *)
(* names one session.                                                      *)
LEMMA SelectedIs ==
    ASSUME NEW of, NEW R
    PROVE  /\ \A r \in Selected(of, R) : r \in R /\ r[1] = Table(of)
           /\ of \notin {"session_tokens", "session"} => Has(Selected(of, R), of, R)
           /\ of \notin RowSets => Table(of) = of
BY Zenon DEF Selected, Table, RowSets, Has

(* The transaction after a statement took its snapshot.                    *)
LEMMA Starts ==
    ASSUME NEW t, IsTx(t), NEW todo, NEW seen, NEW u,
           u = Advanced([t EXCEPT !.runs = TRUE, !.todo = todo, !.seen = seen])
    PROVE  /\ IsTx(u) /\ u.op = t.op /\ u.held = t.held /\ u.new = t.new /\ u.todo = todo /\ u.seen = seen
           /\ todo = {} => u.at = t.at + 1
           /\ todo # {} => u.at = t.at /\ u.runs
BY Zenon DEF IsTx, Advanced

(* A transaction that has locked one more row.                             *)
WithRow(t, todo, held) == Advanced([t EXCEPT !.todo = todo, !.held = held])

(* Its fields.                                                             *)
LEMMA TakesOne ==
    ASSUME NEW t, IsTx(t), t.runs, NEW todo, NEW held, NEW u, u = WithRow(t, todo, held)
    PROVE  /\ IsTx(u) /\ u.op = t.op /\ u.held = held /\ u.new = t.new /\ u.todo = todo /\ u.seen = t.seen
           /\ todo = {} => u.at = t.at + 1
           /\ todo # {} => u.at = t.at /\ u.runs
BY Zenon DEF IsTx, Advanced, WithRow

(* A transaction that has locked all it found, without waiting.            *)
WithFound(t, held) == Advanced([t EXCEPT !.held = held])

(* Its fields.                                                             *)
LEMMA TakesFound ==
    ASSUME NEW t, IsTx(t), t.todo = {}, NEW held, NEW u, u = WithFound(t, held)
    PROVE  /\ IsTx(u) /\ u.op = t.op /\ u.held = held /\ u.new = t.new
           /\ u.todo = {} /\ u.seen = t.seen /\ u.at = t.at + 1
BY Zenon DEF IsTx, Advanced, WithFound

(* The fields of a transaction past a statement that locks nothing.        *)
LEMMA Passes ==
    ASSUME NEW t, IsTx(t), t.todo = {}, NEW u, u = Advanced(t)
    PROVE  /\ IsTx(u) /\ u.op = t.op /\ u.held = t.held /\ u.new = t.new
           /\ u.todo = {} /\ u.seen = t.seen /\ u.at = t.at + 1
BY Zenon DEF IsTx, Advanced

(* A transaction that has inserted rows.                                   *)
WithNew(t, new) == Advanced([t EXCEPT !.new = new])

(* Its fields.                                                             *)
LEMMA Adds ==
    ASSUME NEW t, IsTx(t), t.todo = {}, NEW new, NEW u, u = WithNew(t, new)
    PROVE  /\ IsTx(u) /\ u.op = t.op /\ u.held = t.held /\ u.new = new
           /\ u.todo = {} /\ u.seen = t.seen /\ u.at = t.at + 1
BY Zenon DEF IsTx, Advanced, WithNew

(* The fields of a transaction that begins.                                *)
LEMMA Begins ==
    ASSUME NEW op, NEW u, u = [Idle EXCEPT !.op = op, !.at = 1]
    PROVE  IsTx(u) /\ u.op = op /\ u.held = {} /\ u.new = {} /\ u.todo = {} /\ u.seen = {} /\ u.at = 1
BY Zenon DEF IsTx, Idle

(* A step of the statement t.at: it goes on, or is over, and takes rows of *)
(* its table only.                                                         *)
Moves(t, u) ==
    /\ u.op = t.op /\ t.at \in Steps(t.op) /\ t.held \subseteq u.held
    /\ u.todo = {} => u.at = t.at + 1
    /\ u.todo # {} => u.at = t.at /\ u.runs /\ Do(t.op, t.at) = "lock"
    /\ \A r \in (u.held \ t.held) \cup u.todo : Locks(t.op, t.at) /\ r[1] = TableOf(t.op, t.at)

(* Where such a step leads.                                                *)
LEMMA AtMoves ==
    ASSUME NEW t, NEW u, Place(t), Moves(t, u)
    PROVE  /\ t.op \in Operations /\ t.at \in Nat /\ t.at >= 1 /\ t.at <= Size(t.op) /\ Size(t.op) \in Nat
           /\ (u.todo = {} /\ u.at = t.at + 1) \/ (u.todo # {} /\ u.at = t.at)
<1>1. t.op \in Operations /\ t.at \in Steps(t.op)  BY Zenon DEF Place, Placed, Moves
<1>2. (u.todo = {} /\ u.at = t.at + 1) \/ (u.todo # {} /\ u.at = t.at)  BY Zenon DEF Moves
<1> QED BY Zenon, <1>1, <1>2, StepsOf

(* Such a step keeps Place.                                                *)
LEMMA MovesPlace ==
    ASSUME NEW t, NEW u, Place(t), Moves(t, u)
    PROVE  Place(u)
<1>1. /\ t.op \in Operations /\ t.at \in Nat /\ t.at >= 1 /\ t.at <= Size(t.op) /\ Size(t.op) \in Nat
      /\ (u.todo = {} /\ u.at = t.at + 1) \/ (u.todo # {} /\ u.at = t.at)
  BY Zenon, AtMoves
<1>2. u.op = t.op  BY Zenon DEF Moves
<1>3. Placed(u)
  <2>1. u.at \in Nat /\ u.at >= 1 /\ u.at <= Size(t.op) + 1  BY ONLY <1>1
  <2> QED BY Zenon, <1>1, <1>2, <2>1 DEF Placed
<1>4. Waiting(u)
  <2>1. u.todo # {} => u.at <= Size(u.op)  BY Zenon, <1>1, <1>2
  <2> QED BY Zenon, <1>1, <1>2, <2>1 DEF Waiting, Moves
<1>5. \A i \in Nat : i < t.at \/ i = t.at => Begun(u, i)
  <2>1. \A i \in Nat : i < t.at \/ i = t.at => i < u.at \/ (i = u.at /\ u.todo # {})  BY ONLY <1>1
  <2> QED BY Zenon, <2>1 DEF Begun
<1>6. \A i \in Steps(t.op) : i \in Nat  BY Zenon, <1>1, StepsOf
<1>7. ASSUME NEW r \in u.held
      PROVE  \E i \in Steps(u.op) : Begun(u, i) /\ Locks(u.op, i) /\ r[1] = TableOf(u.op, i)
  <2>1. CASE r \in t.held
    <3>1. PICK i \in Steps(t.op) : Begun(t, i) /\ Locks(t.op, i) /\ r[1] = TableOf(t.op, i)
      BY Zenon, <2>1 DEF Place, Behind
    <3>2. Begun(u, i)  BY Zenon, <1>5, <1>6, <3>1 DEF Begun
    <3> QED BY Zenon, <1>2, <3>1, <3>2
  <2>2. CASE r \notin t.held
    <3>1. t.at \in Steps(t.op) /\ Locks(t.op, t.at) /\ r[1] = TableOf(t.op, t.at)  BY Zenon, <2>2 DEF Moves
    <3>2. Begun(u, t.at)  BY Zenon, <1>1, <1>5
    <3> QED BY Zenon, <1>2, <3>1, <3>2
  <2> QED BY Zenon, <2>1, <2>2
<1> QED BY Zenon, <1>3, <1>4, <1>7 DEF Place, Behind

(* It keeps Covers, if a single row is held or awaited once its statement  *)
(* has begun.                                                              *)
LEMMA MovesCovers ==
    ASSUME NEW t, NEW u, NEW R, Place(t), Moves(t, u), Covers(t, R),
           Single(t.op, t.at) => Has(u.held \cup u.todo, Of(t.op, t.at), R)
    PROVE  Covers(u, R)
<1>1. /\ t.op \in Operations /\ t.at \in Nat /\ t.at >= 1 /\ t.at <= Size(t.op) /\ Size(t.op) \in Nat
      /\ (u.todo = {} /\ u.at = t.at + 1) \/ (u.todo # {} /\ u.at = t.at)
  BY Zenon, AtMoves
<1>2. u.op = t.op /\ t.held \subseteq u.held  BY Zenon DEF Moves
<1>3. ASSUME NEW i \in Steps(u.op), i < u.at, Single(u.op, i) PROVE Has(u.held, Of(u.op, i), R)
  <2>1. i \in Nat  BY Zenon, <1>1, <1>2, StepsOf
  <2>2. i < t.at \/ (i = t.at /\ u.todo = {})  BY ONLY <1>1, <1>3, <2>1
  <2>3. CASE i < t.at
    <3>1. Has(t.held, Of(t.op, i), R)  BY Zenon, <1>2, <1>3, <2>3 DEF Covers
    <3> QED BY Zenon, <1>2, <3>1 DEF Has
  <2>4. CASE i = t.at /\ u.todo = {}
    <3>1. u.held \cup u.todo = u.held  BY Zenon, <2>4
    <3> QED BY Zenon, <1>2, <1>3, <2>4, <3>1
  <2> QED BY Zenon, <2>2, <2>3, <2>4
<1>4. u.todo # {} /\ Single(u.op, u.at) => Has(u.held \cup u.todo, Of(u.op, u.at), R)  BY Zenon, <1>1, <1>2
<1> QED BY Zenon, <1>3, <1>4 DEF Covers

(* It keeps News, if it inserts nothing.                                   *)
LEMMA MovesNews ==
    ASSUME NEW t, NEW u, NEW R, Place(t), Moves(t, u), News(t, R), u.new = t.new
    PROVE  News(u, R)
<1>1. /\ t.op \in Operations /\ t.at \in Nat /\ t.at >= 1 /\ t.at <= Size(t.op) /\ Size(t.op) \in Nat
      /\ (u.todo = {} /\ u.at = t.at + 1) \/ (u.todo # {} /\ u.at = t.at)
  BY Zenon, AtMoves
<1>2. u.op = t.op  BY Zenon DEF Moves
<1>3. \A i \in Steps(t.op) : i \in Nat  BY Zenon, <1>1, StepsOf
<1>4. \A i \in Nat : i < t.at => i < u.at  BY ONLY <1>1
<1> QED BY Zenon, <1>2, <1>3, <1>4 DEF News

(* What SeesAt needs of a step.                                            *)
SeesNext(t, u, R, j) ==
    /\ t.at = j - 3 => TokensIn(u, R, u.held \cup u.todo)
    /\ t.at >= j - 2 => TokensIn(u, R, u.held)
    /\ t.at = j - 2 => SessionsIn(u, R, u.held \cup u.todo)
    /\ t.at > j - 2 => SessionsIn(u, R, u.held)
    /\ t.at >= j => AllIn(u, R)

(* It keeps Sees, if it keeps what each second listing needs.              *)
LEMMA MovesSees ==
    ASSUME NEW t, NEW u, NEW R, Place(t), Moves(t, u),
           \A j \in Steps(t.op) : Relists(t.op, j) => SeesNext(t, u, R, j)
    PROVE  Sees(u, R)
<1>1. /\ t.op \in Operations /\ t.at \in Nat /\ t.at >= 1 /\ t.at <= Size(t.op) /\ Size(t.op) \in Nat
      /\ (u.todo = {} /\ u.at = t.at + 1) \/ (u.todo # {} /\ u.at = t.at)
  BY Zenon, AtMoves
<1>2. u.op = t.op  BY Zenon DEF Moves
<1> SUFFICES ASSUME NEW j \in Steps(t.op), Relists(t.op, j) PROVE SeesAt(u, R, j)  BY Zenon, <1>2 DEF Sees
<1>3. SeesNext(t, u, R, j)  BY Zenon
<1>4. j \in Nat /\ j > 4  BY Zenon, <1>1, RelistAt
<1>5. u.todo = {} => u.held \cup u.todo = u.held  BY Zenon
<1>6. u.at = j - 3 /\ u.todo # {} => t.at = j - 3  BY Zenon, <1>1
<1>7. u.at >= j - 2 => t.at >= j - 2 \/ (t.at = j - 3 /\ u.todo = {})  BY ONLY <1>1, <1>4
<1>8. u.at = j - 2 /\ u.todo # {} => t.at = j - 2  BY Zenon, <1>1
<1>9. u.at > j - 2 => t.at > j - 2 \/ (t.at = j - 2 /\ u.todo = {})  BY ONLY <1>1, <1>4
<1>10. u.at > j => t.at >= j  BY ONLY <1>1, <1>4
<1> QED BY Zenon, <1>3, <1>5, <1>6, <1>7, <1>8, <1>9, <1>10 DEF SeesAt, SeesNext

(* A step that inserts nothing keeps what a transaction satisfies.         *)
LEMMA MovesHolds ==
    ASSUME NEW t, NEW u, NEW R, IsTx(u), Runs(t, R), Moves(t, u), Lists(u, R),
           Single(t.op, t.at) => Has(u.held \cup u.todo, Of(t.op, t.at), R),
           InOrder(u), \A j \in Steps(t.op) : Relists(t.op, j) => SeesNext(t, u, R, j), u.new = t.new
    PROVE  Holds(u, R)
<1>1. Place(t) /\ Covers(t, R) /\ News(t, R)  BY Zenon DEF Runs
<1>2. Place(u) /\ Covers(u, R) /\ Sees(u, R) /\ News(u, R)
  BY Zenon, <1>1, MovesPlace, MovesCovers, MovesSees, MovesNews
<1>3. u.op # "none"  BY Zenon, <1>2, StepsOf DEF Place, Placed
<1> QED BY Zenon, <1>2, <1>3 DEF Holds, Runs

(* A step that changes one transaction and no row keeps the invariant when *)
(* the new transaction holds and shares nothing.                           *)
LEMMA Changed ==
    ASSUME IInv, NEW w \in Workers, NEW t, tx' = [tx EXCEPT ![w] = t], UNCHANGED rows, Holds(t, rows),
           \A v \in Workers \ {w} : t.held \cap tx[v].held = {} /\ t.new \cap tx[v].new = {}
    PROVE  IInv'
<1>1. tx'[w] = t /\ \A v \in Workers \ {w} : tx'[v] = tx[v]  BY Zenon DEF IInv
<1>2. tx' = [v \in Workers |-> tx'[v]]  BY Zenon DEF IInv
<1>3. \A v \in Workers : Holds(tx'[v], rows)  BY Zenon, <1>1 DEF IInv
<1>4. \A x, v \in Workers : x # v => tx'[x].held \cap tx'[v].held = {} /\ tx'[x].new \cap tx'[v].new = {}
  BY <1>1 DEF IInv
<1>5. rows' = rows  BY Zenon
<1> QED BY Zenon, <1>2, <1>3, <1>4, <1>5 DEF IInv

(* A transaction that ends without committing keeps the invariant.         *)
LEMMA ToIdle == ASSUME IInv, NEW w \in Workers, tx' = [tx EXCEPT ![w] = Idle], UNCHANGED rows PROVE IInv'
<1>1. Holds(Idle, rows)  BY Zenon, IdleIs DEF Holds
<1>2. \A v \in Workers \ {w} : Idle.held \cap tx[v].held = {} /\ Idle.new \cap tx[v].new = {}  BY Zenon, IdleIs
<1> QED BY Zenon, <1>1, <1>2, Changed

(* The invariant holds initially.                                          *)
LEMMA InitInv == Init => IInv
<1> SUFFICES ASSUME Init PROVE IInv  BY Zenon
<1> USE DEF Init
<1>1. "tokens" \notin SingleRows /\ "sessions" \notin SingleRows
  <2>1. \A t \in SingleRows : t \notin RowSets  BY Zenon DEF SingleRows
  <2>2. "tokens" \in RowSets /\ "sessions" \in RowSets  BY ONLY Zenon DEF RowSets
  <2> QED BY ONLY Zenon, <2>1, <2>2
<1>2. \A r \in rows : (\E t \in SingleRows : r = <<t, 0, 0>>) \/ r = <<"sessions", Named, Named>> \/ r = <<"tokens", Named, Named>>
  BY Zenon
<1>3. \A r \in rows : RowIs(r)
  <2> SUFFICES ASSUME NEW r \in rows PROVE RowIs(r)  BY Zenon
  <2>1. CASE \E t \in SingleRows : r = <<t, 0, 0>>
    <3>1. PICK t \in SingleRows : r = <<t, 0, 0>>  BY Zenon, <2>1
    <3> QED BY Zenon, <3>1, <1>1 DEF RowIs
  <2>2. CASE r = <<"sessions", Named, Named>> \/ r = <<"tokens", Named, Named>>
    BY <2>2, LocksAssumption DEF RowIs
  <2> QED BY Zenon, <1>2, <2>1, <2>2
<1>4. RowsHold(rows)
  <2>1. <<"sessions", Named, Named>> \in rows /\ <<"tokens", Named, Named>> \in rows  BY Zenon
  <2>2. \A t \in SingleRows : <<t, 0, 0>> \in rows  BY Zenon
  <2>3. \A r \in rows : r[1] = "tokens" => r = <<"tokens", Named, Named>>
    BY <1>1, <1>2
  <2>4. \A r \in rows : r[1] = "sessions" => r = <<"sessions", Named, Named>>
    BY <1>1, <1>2
  <2> HIDE DEF Init
  <2>5. \A r \in rows : r[1] = "tokens" => <<"sessions", r[2], r[2]>> \in rows
    BY <2>1, <2>3
  <2>6. \A r \in rows : r[1] = "sessions" => \E s \in rows : s[1] = "tokens" /\ s[2] = r[2]
    BY <2>1, <2>4
  <2> QED BY Zenon, <1>3, <2>1, <2>2, <2>5, <2>6 DEF RowsHold
<1>5. \A w \in Workers : tx[w] = Idle  BY Zenon
<1>6. \A w \in Workers : Holds(tx[w], rows)  BY Zenon, <1>5, IdleIs DEF Holds
<1>7. \A w, v \in Workers : w # v => tx[w].held \cap tx[v].held = {} /\ tx[w].new \cap tx[v].new = {}
  BY Zenon, <1>5, IdleIs
<1> QED BY Zenon, <1>4, <1>6, <1>7 DEF IInv

(* Beginning keeps the invariant.                                          *)
LEMMA BeginInv == ASSUME IInv, NEW w \in Workers, Begin(w) PROVE IInv'
<1>1. PICK op \in Operations : tx' = [tx EXCEPT ![w] = [Idle EXCEPT !.op = op, !.at = 1]]  BY Zenon DEF Begin
<1> DEFINE u == [Idle EXCEPT !.op = op, !.at = 1]
<1>2. IsTx(u) /\ u.op = op /\ u.held = {} /\ u.new = {} /\ u.todo = {} /\ u.seen = {} /\ u.at = 1  BY Zenon, Begins
<1>3. op # "none" /\ Size(op) \in Nat  BY Zenon, StepsOf
<1>4. UNCHANGED rows  BY Zenon DEF Begin
<1>5. tx' = [tx EXCEPT ![w] = u]  BY Zenon, <1>1
<1> HIDE DEF u
<1>6. Place(u)
  <2>1. 1 \in Nat /\ 1 >= 1 /\ 1 <= Size(op) + 1  BY ONLY <1>3
  <2> QED BY Zenon, <1>2, <2>1 DEF Place, Placed, Waiting, Behind
<1>7. \A i \in Steps(op) : ~(i < 1)  BY StepsOf
<1>8. Lists(u, rows) /\ Covers(u, rows) /\ InOrder(u) /\ News(u, rows)
  BY Zenon, <1>2, <1>7 DEF Lists, Covers, InOrder, News
<1>9. \A j \in Steps(op) : Relists(op, j) => ~(1 >= j - 2) /\ 1 # j - 3 /\ ~(1 > j - 2) /\ ~(1 > j)
  <2> SUFFICES ASSUME NEW j \in Steps(op), Relists(op, j) PROVE ~(1 >= j - 2) /\ ~(1 > j - 2) /\ ~(1 > j) /\ 1 # j - 3
    BY Zenon
  <2>1. j \in Nat /\ j > 4  BY Zenon, RelistAt
  <2> QED BY ONLY <2>1
<1>10. Sees(u, rows)  BY Zenon, <1>2, <1>9 DEF Sees, SeesAt
<1>11. Holds(u, rows)  BY Zenon, <1>2, <1>3, <1>6, <1>8, <1>10 DEF Holds, Runs
<1>12. \A v \in Workers \ {w} : u.held \cap tx[v].held = {} /\ u.new \cap tx[v].new = {}  BY Zenon, <1>2
<1> QED BY Zenon, <1>4, <1>5, <1>11, <1>12, Changed

(* What the invariant says of a transaction before a statement of a kind.  *)
LEMMA Running ==
    ASSUME IInv, NEW w \in Workers, NEW kinds, Executing(w, kinds)
    PROVE  /\ IsTx(tx[w]) /\ Runs(tx[w], rows) /\ tx[w].op \in Operations /\ tx[w].at \in Steps(tx[w].op)
           /\ Do(tx[w].op, tx[w].at) \in kinds /\ Statement(w).of = Of(tx[w].op, tx[w].at)
<1>1. tx[w].op # "none" /\ tx[w].at \in DOMAIN Program[tx[w].op]  BY Zenon DEF Executing
<1>2. Holds(tx[w], rows)  BY Zenon DEF IInv
<1>3. IsTx(tx[w]) /\ Runs(tx[w], rows)  BY Zenon, <1>1, <1>2 DEF Holds
<1>4. tx[w].op \in Operations  BY Zenon, <1>3 DEF Runs, Place, Placed
<1>5. tx[w].at \in Steps(tx[w].op)  BY Zenon, <1>1, <1>4, StepsOf
<1>6. Do(tx[w].op, tx[w].at) \in kinds /\ Statement(w).of = Of(tx[w].op, tx[w].at)  BY Zenon DEF Executing, Statement, Do, Of
<1> QED BY Zenon, <1>3, <1>4, <1>5, <1>6

(* Only a lock statement that runs has rows to do.                         *)
LEMMA StillTodo ==
    ASSUME NEW t, NEW R, Runs(t, R), Do(t.op, t.at) # "lock" \/ ~t.runs
    PROVE  t.todo = {}
BY Zenon DEF Runs, Place, Waiting

(* The snapshot of a statement keeps the invariant.                        *)
LEMMA StartLockInv == ASSUME IInv, NEW w \in Workers, StartLock(w) PROVE IInv'
<1> DEFINE t == tx[w]
           of == Of(t.op, t.at)
           found == Selected(of, rows)
           todo == found \ t.held
           sees == IF of \in {"tokens", "session_tokens"} THEN found ELSE t.seen
           u == Advanced([t EXCEPT !.runs = TRUE, !.todo = todo, !.seen = sees])
<1>1. Executing(w, {"lock"}) /\ ~t.runs /\ UNCHANGED rows  BY Zenon DEF StartLock
<1>2. /\ IsTx(t) /\ Runs(t, rows) /\ t.op \in Operations /\ t.at \in Steps(t.op)
      /\ Do(t.op, t.at) \in {"lock"} /\ Statement(w).of = of
  <2> HIDE DEF t
  <2> QED BY Zenon, <1>1, Running DEF t
<1>3. tx' = [tx EXCEPT ![w] = u]
  <2>1. tx' = [tx EXCEPT ![w] = Advanced([@ EXCEPT !.runs = TRUE, !.todo = todo, !.seen = sees])]
    <3> HIDE DEF of
    <3> QED BY Zenon, <1>2 DEF StartLock
  <2> HIDE DEF todo, sees
  <2> QED BY Zenon, <2>1 DEF IInv
<1>4. t.todo = {} /\ Do(t.op, t.at) = "lock"  BY Zenon, <1>1, <1>2, StillTodo
<1> HIDE DEF t
<1>5. /\ IsTx(u) /\ u.op = t.op /\ u.held = t.held /\ u.new = t.new /\ u.todo = todo /\ u.seen = sees
      /\ todo = {} => u.at = t.at + 1
      /\ todo # {} => u.at = t.at /\ u.runs
  <2> HIDE DEF todo, sees, u
  <2> QED BY Zenon, <1>2, Starts DEF u
<1>6. /\ \A r \in found : r \in rows /\ r[1] = Table(of)
      /\ of \notin {"session_tokens", "session"} => Has(found, of, rows)
      /\ of \notin RowSets => Table(of) = of
  BY Zenon, SelectedIs
<1>7. sees = IF of \in {"tokens", "session_tokens"} THEN found ELSE t.seen  BY Zenon
<1>8. todo = found \ t.held  BY Zenon
<1> HIDE DEF found, u, todo, sees
<1>9. Moves(t, u)
  <2>1. \A r \in (u.held \ t.held) \cup u.todo : r[1] = TableOf(t.op, t.at)  BY Zenon, <1>5, <1>6, <1>8 DEF TableOf
  <2>2. Locks(t.op, t.at)  BY Zenon, <1>4 DEF Locks
  <2> QED BY Zenon, <1>2, <1>4, <1>5, <2>1, <2>2 DEF Moves
<1>10. Place(t) /\ Lists(t, rows) /\ Covers(t, rows) /\ Sees(t, rows)  BY Zenon, <1>2 DEF Runs
<1>11. Lists(u, rows)  BY Zenon, <1>5, <1>6, <1>8, <1>10 DEF Lists
<1>12. found \subseteq u.held \cup u.todo  BY Zenon, <1>5, <1>8
<1>13. Single(t.op, t.at) => Has(u.held \cup u.todo, Of(t.op, t.at), rows)
  <2>1. "session_tokens" \in RowSets /\ "session" \in RowSets  BY Zenon DEF RowSets
  <2> QED BY Zenon, <1>6, <1>12, <2>1 DEF Single, Has
<1>14. InOrder(u)
  <2> SUFFICES ASSUME t.op # "revokeSessions", NEW r \in t.held, NEW s \in todo, r[1] = s[1], r[1] # "tokens"
               PROVE  FALSE
    BY Zenon, <1>5 DEF InOrder
  <2>1. s[1] = TableOf(t.op, t.at) /\ s \in rows /\ s \notin t.held  BY Zenon, <1>6, <1>8 DEF TableOf
  <2>2. CASE Single(t.op, t.at) /\ \E k \in Steps(t.op) : k < t.at /\ Single(t.op, k) /\ Of(t.op, k) = Of(t.op, t.at)
    <3>1. Has(t.held, of, rows)  BY Zenon, <1>10, <2>2 DEF Covers
    <3>2. Table(of) = of  BY Zenon, <1>6, <2>2 DEF Single
    <3> QED BY Zenon, <2>1, <3>1, <3>2 DEF Has, TableOf
  <2>3. CASE \A i \in Steps(t.op) : i < t.at /\ Locks(t.op, i) /\ TableOf(t.op, i) # "tokens" =>
                Level(TableOf(t.op, i)) < Level(TableOf(t.op, t.at))
    <3>1. PICK i \in Steps(t.op) : i < t.at /\ Locks(t.op, i) /\ r[1] = TableOf(t.op, i)
      BY Zenon, <1>4, <1>10 DEF Place, Behind, Begun
    <3>2. Level(r[1]) < Level(r[1])  BY Zenon, <2>1, <2>3, <3>1
    <3>3. Level(r[1]) \in Nat  BY Zenon, LevelIsNat
    <3> QED BY ONLY <3>2, <3>3
  <2> QED BY Zenon, <1>2, <1>4, <2>1, <2>2, <2>3, OrderIs
<1>15. ASSUME NEW j \in Steps(t.op), Relists(t.op, j) PROVE SeesNext(t, u, rows, j)
  <2>1. /\ j \in Nat /\ j > 4 /\ Do(t.op, j) = "relist"
        /\ Of(t.op, j - 2) = "sessions" /\ Of(t.op, j - 3) = "tokens"
        /\ \A i \in Steps(t.op) : i >= j - 2 /\ Do(t.op, i) = "lock" => Of(t.op, i) \notin {"tokens", "session_tokens"}
    BY Zenon, <1>2, <1>15, RelistAt
  <2>2. SeesAt(t, rows, j)  BY Zenon, <1>10, <1>15 DEF Sees
  <2>3. t.at \in Nat  BY Zenon, <1>2, StepsOf
  <2>4. t.at # j  BY Zenon, <1>4, <2>1
  <2>5. t.at = j - 3 => TokensIn(u, rows, u.held \cup u.todo)
    <3> SUFFICES ASSUME t.at = j - 3 PROVE TokensIn(u, rows, u.held \cup u.todo)  BY Zenon
    <3>1. of = "tokens" /\ Table("tokens") = "tokens"  BY Zenon, <2>1, Levels
    <3>2. u.seen = found  BY Zenon, <1>5, <1>7, <3>1
    <3> QED BY Zenon, <1>6, <1>12, <3>1, <3>2 DEF TokensIn
  <2>6. t.at >= j - 2 => u.seen = t.seen  BY Zenon, <1>2, <1>4, <1>5, <1>7, <2>1
  <2>7. t.at >= j - 2 => TokensIn(u, rows, u.held)  BY Zenon, <1>5, <2>2, <2>6 DEF SeesAt, TokensIn
  <2>8. t.at = j - 2 => SessionsIn(u, rows, u.held \cup u.todo)
    <3> SUFFICES ASSUME t.at = j - 2 PROVE SessionsIn(u, rows, u.held \cup u.todo)  BY Zenon
    <3>1. of = "sessions"  BY Zenon, <2>1
    <3>2. Has(found, "sessions", rows)  BY Zenon, <1>6, <3>1
    <3> QED BY Zenon, <1>12, <3>2 DEF SessionsIn, Has
  <2>9. t.at > j - 2 => t.at >= j - 2  BY ONLY <2>1, <2>3
  <2>10. t.at > j - 2 => SessionsIn(u, rows, u.held)  BY Zenon, <1>5, <2>2, <2>6, <2>9 DEF SeesAt, SessionsIn
  <2>11. t.at >= j => t.at > j  BY ONLY <2>1, <2>3, <2>4
  <2>12. t.at >= j => AllIn(u, rows)  BY Zenon, <1>5, <2>2, <2>11 DEF SeesAt, AllIn
  <2> QED BY Zenon, <2>5, <2>7, <2>8, <2>10, <2>12 DEF SeesNext
<1>16. Holds(u, rows)  BY Zenon, <1>2, <1>5, <1>9, <1>11, <1>13, <1>14, <1>15, MovesHolds
<1>17. \A v \in Workers \ {w} : u.held \cap tx[v].held = {} /\ u.new \cap tx[v].new = {}  BY Zenon, <1>5 DEF IInv, t
<1> QED BY Zenon, <1>1, <1>3, <1>16, <1>17, Changed

(* A set of naturals that is not empty has a least member.                 *)
LEMMA LeastMember == ASSUME NEW T, T \subseteq Nat, T # {} PROVE \E x \in T : \A y \in T : x <= y
<1>1. PICK x \in T : \A y \in T : ~(<<y, x>> \in OpToRel(<, Nat))
  BY Zenon, NatLessThanWellFounded, WFMin
<1>2. \A y \in T : <<y, x>> \in Nat \X Nat /\ <<y, x>>[1] = y /\ <<y, x>>[2] = x
  BY Zenon
<1>3. \A y \in T : ~(y < x)
  BY Zenon, <1>1, <1>2 DEF OpToRel
<1>. QED
  BY <1>3

(* The first row to do is one of them, and none comes before it.           *)
LEMMA FirstIs ==
    ASSUME NEW todo, todo # {}, \A r \in todo : RowIs(r)
    PROVE  First(todo) \in todo /\ \A s \in todo : First(todo)[3] <= s[3]
<1> DEFINE T == {r[3] : r \in todo}
<1>1. T \subseteq Nat /\ T # {}  BY LocksAssumption DEF RowIs
<1>2. PICK x \in T : \A y \in T : x <= y  BY Zenon, <1>1, LeastMember
<1>3. \E r \in todo : \A s \in todo : r[3] <= s[3]  BY Zenon, <1>2
<1> QED BY Zenon, <1>3 DEF First

(* Outside the tokens a row is known by its table and rank.                *)
LEMMA SameRow ==
    ASSUME NEW r, NEW s, RowIs(r), RowIs(s), r[1] = s[1], r[3] = s[3], r[1] # "tokens"
    PROVE  r = s
<1>1. r[2] = s[2]  BY Zenon DEF RowIs
<1> QED BY Zenon, <1>1 DEF RowIs

(* Locking a row keeps the invariant.                                      *)
LEMMA TakeRowInv == ASSUME IInv, NEW w \in Workers, TakeRow(w) PROVE IInv'
<1> DEFINE t == tx[w]
           row == First(t.todo)
           todo == t.todo \ {row}
           held == t.held \cup {row}
           u == WithRow(t, todo, held)
<1>1. t.todo # {} /\ Free(w, row) /\ UNCHANGED rows  BY Zenon DEF TakeRow
<1>2. tx' = [tx EXCEPT ![w] = u]
  <2>1. tx' = [tx EXCEPT ![w] = WithRow(@, todo, held)]  BY Zenon DEF TakeRow, WithRow
  <2> HIDE DEF todo, held
  <2> QED BY Zenon, <2>1 DEF IInv
<1>3. Holds(t, rows)  BY Zenon DEF IInv
<1> HIDE DEF t
<1>4. IsTx(t) /\ Runs(t, rows)
  <2>1. t.op # "none"  BY Zenon, <1>1, <1>3, IdleIs DEF Holds
  <2> QED BY Zenon, <1>3, <2>1 DEF Holds
<1>5. Place(t) /\ Lists(t, rows) /\ Covers(t, rows) /\ InOrder(t) /\ Sees(t, rows)  BY Zenon, <1>4 DEF Runs
<1>6. /\ t.op \in Operations /\ t.at \in Nat /\ t.at >= 1 /\ t.at <= Size(t.op) /\ t.runs
      /\ Do(t.op, t.at) = "lock" /\ \A s \in t.todo : s[1] = TableOf(t.op, t.at)
  BY Zenon, <1>1, <1>5 DEF Place, Placed, Waiting
<1>7. t.at \in Steps(t.op)  BY Zenon, <1>6, StepsOf
<1>8. \A r \in rows : RowIs(r)  BY Zenon DEF IInv, RowsHold
<1>9. row \in t.todo /\ \A s \in t.todo : row[3] <= s[3]  BY Zenon, <1>1, <1>5, <1>8, FirstIs DEF Lists
<1> HIDE DEF row
<1>10. /\ IsTx(u) /\ u.op = t.op /\ u.held = t.held \cup {row} /\ u.new = t.new
       /\ u.todo = t.todo \ {row} /\ u.seen = t.seen
       /\ u.todo = {} => u.at = t.at + 1
       /\ u.todo # {} => u.at = t.at /\ u.runs
  <2>1. t.runs  BY Zenon, <1>6
  <2>2. IsTx(t)  BY Zenon, <1>4
  <2> HIDE DEF u, todo, held
  <2>3. u = WithRow(t, todo, held)  BY Zenon DEF u
  <2>4. /\ IsTx(u) /\ u.op = t.op /\ u.held = held /\ u.new = t.new /\ u.todo = todo /\ u.seen = t.seen
        /\ todo = {} => u.at = t.at + 1
        /\ todo # {} => u.at = t.at /\ u.runs
    BY ONLY <2>1, <2>2, <2>3, TakesOne
  <2> QED BY Zenon, <2>4 DEF todo, held
<1> HIDE DEF u
<1>11. u.held \cup u.todo = t.held \cup t.todo  BY Zenon, <1>9, <1>10
<1>12. Moves(t, u)
  <2>1. Locks(t.op, t.at)  BY Zenon, <1>6 DEF Locks
  <2>2. \A r \in (u.held \ t.held) \cup u.todo : r \in t.todo  BY Zenon, <1>9, <1>10
  <2> QED BY Zenon, <1>6, <1>7, <1>10, <2>1, <2>2 DEF Moves
<1>13. Lists(u, rows)  BY Zenon, <1>5, <1>9, <1>10 DEF Lists
<1>14. Single(t.op, t.at) => Has(u.held \cup u.todo, Of(t.op, t.at), rows)  BY Zenon, <1>1, <1>5, <1>11 DEF Covers
<1>15. InOrder(u)
  <2> SUFFICES ASSUME t.op # "revokeSessions", NEW r \in u.held, NEW s \in u.todo, r[1] = s[1], r[1] # "tokens"
               PROVE  r[3] < s[3]
    BY Zenon, <1>10 DEF InOrder
  <2>1. CASE r \in t.held  BY Zenon, <1>5, <1>10, <2>1 DEF InOrder
  <2>2. CASE r = row
    <3>1. RowIs(r) /\ RowIs(s) /\ r # s /\ r[3] <= s[3]  BY Zenon, <1>5, <1>8, <1>9, <1>10, <2>2 DEF Lists
    <3>2. r[3] # s[3]  BY Zenon, <3>1, SameRow
    <3>3. r[3] \in Nat /\ s[3] \in Nat
      <4>1. \A x \in {0, Named} \cup Ranks : x \in Nat  BY LocksAssumption
      <4> QED BY Zenon, <3>1, <4>1 DEF RowIs
    <3> QED BY ONLY <3>1, <3>2, <3>3
  <2> QED BY Zenon, <1>10, <2>1, <2>2
<1>16. ASSUME NEW j \in Steps(t.op), Relists(t.op, j) PROVE SeesNext(t, u, rows, j)
  <2>1. j \in Nat /\ j > 4 /\ Do(t.op, j) = "relist"  BY Zenon, <1>6, <1>16, RelistAt
  <2>2. SeesAt(t, rows, j)  BY Zenon, <1>5, <1>16 DEF Sees
  <2>3. t.at # j  BY Zenon, <1>6, <2>1
  <2>4. t.at = j - 3 => TokensIn(u, rows, u.held \cup u.todo)
    BY Zenon, <1>1, <1>10, <1>11, <2>2 DEF SeesAt, TokensIn
  <2>5. t.at >= j - 2 => TokensIn(u, rows, u.held)  BY Zenon, <1>10, <2>2 DEF SeesAt, TokensIn
  <2>6. t.at = j - 2 => SessionsIn(u, rows, u.held \cup u.todo)
    BY Zenon, <1>1, <1>10, <1>11, <2>2 DEF SeesAt, SessionsIn
  <2>7. t.at > j - 2 => SessionsIn(u, rows, u.held)  BY Zenon, <1>10, <2>2 DEF SeesAt, SessionsIn
  <2>8. t.at >= j => t.at > j  BY ONLY <1>6, <2>1, <2>3
  <2>9. t.at >= j => AllIn(u, rows)  BY Zenon, <1>10, <2>2, <2>8 DEF SeesAt, AllIn
  <2> QED BY Zenon, <2>4, <2>5, <2>6, <2>7, <2>9 DEF SeesNext
<1>17. Holds(u, rows)  BY Zenon, <1>4, <1>10, <1>12, <1>13, <1>14, <1>15, <1>16, MovesHolds
<1>18. \A v \in Workers \ {w} : u.held \cap tx[v].held = {} /\ u.new \cap tx[v].new = {}
  <2>1. \A v \in Workers \ {w} : t.held \cap tx[v].held = {} /\ t.new \cap tx[v].new = {}  BY Zenon DEF IInv, t
  <2>2. \A v \in Workers \ {w} : row \notin tx[v].held  BY Zenon, <1>1 DEF Free
  <2> QED BY Zenon, <1>10, <2>1, <2>2
<1> QED BY Zenon, <1>1, <1>2, <1>17, <1>18, Changed

(* Going past a statement that is not a lock keeps what was seen.          *)
LEMMA PastSees ==
    ASSUME NEW R, NEW t, NEW u, Runs(t, R), t.op \in Operations, t.at \in Steps(t.op), Do(t.op, t.at) # "lock",
           u.seen = t.seen, t.held \subseteq u.held,
           Relists(t.op, t.at) => AllIn(u, R),
           NEW j \in Steps(t.op), Relists(t.op, j)
    PROVE  SeesNext(t, u, R, j)
<1>1. /\ j \in Nat /\ j > 4 /\ Do(t.op, j - 2) = "lock" /\ Do(t.op, j - 3) = "lock"  BY Zenon, RelistAt
<1>2. t.at # j - 2 /\ t.at # j - 3  BY Zenon, <1>1
<1>3. t.at \in Nat  BY Zenon, StepsOf
<1>4. SeesAt(t, R, j)  BY Zenon DEF Runs, Sees
<1>5. t.at >= j - 2 => TokensIn(u, R, u.held)  BY Zenon, <1>4 DEF SeesAt, TokensIn
<1>6. t.at > j - 2 => SessionsIn(u, R, u.held)  BY Zenon, <1>4 DEF SeesAt, SessionsIn
<1>7. t.at >= j => t.at > j \/ t.at = j  BY ONLY <1>1, <1>3
<1>8. t.at >= j => AllIn(u, R)  BY Zenon, <1>4, <1>7 DEF SeesAt, AllIn
<1> QED BY Zenon, <1>2, <1>5, <1>6, <1>8 DEF SeesNext

(* Locking without waiting keeps the invariant.                            *)
LEMMA LockWithoutWaitInv == ASSUME IInv, NEW w \in Workers, LockWithoutWait(w) PROVE IInv'
<1> DEFINE t == tx[w]
           found == Selected(Of(t.op, t.at), rows)
           held == t.held \cup found
           u == WithFound(t, held)
<1>1. Executing(w, {"nowait"}) /\ UNCHANGED rows  BY Zenon DEF LockWithoutWait
<1>2. /\ IsTx(t) /\ Runs(t, rows) /\ t.op \in Operations /\ t.at \in Steps(t.op)
      /\ Do(t.op, t.at) \in {"nowait"} /\ Statement(w).of = Of(t.op, t.at)
  <2> HIDE DEF t
  <2> QED BY Zenon, <1>1, Running DEF t
<1>3. tx' = [tx EXCEPT ![w] = IF \A r \in found : Free(w, r) THEN u ELSE Idle]
  <2>1. tx' = [tx EXCEPT ![w] = IF \A r \in found : Free(w, r) THEN WithFound(@, held) ELSE Idle]
    BY Zenon, <1>2 DEF LockWithoutWait, WithFound
  <2> HIDE DEF found, held
  <2> QED BY Zenon, <2>1 DEF IInv
<1>4. Do(t.op, t.at) = "nowait" /\ "nowait" # "lock"  BY Zenon, <1>2
<1>5. t.todo = {}  BY Zenon, <1>2, <1>4, StillTodo
<1>6. \A r \in found : r \in rows /\ r[1] = Table(Of(t.op, t.at))  BY Zenon, SelectedIs
<1> HIDE DEF t, found
<1>7. /\ IsTx(u) /\ u.op = t.op /\ u.held = t.held \cup found /\ u.new = t.new
      /\ u.todo = {} /\ u.seen = t.seen /\ u.at = t.at + 1
  <2>1. IsTx(t)  BY Zenon, <1>2
  <2> HIDE DEF u, held
  <2>2. u = WithFound(t, held)  BY Zenon DEF u
  <2>3. /\ IsTx(u) /\ u.op = t.op /\ u.held = held /\ u.new = t.new
        /\ u.todo = {} /\ u.seen = t.seen /\ u.at = t.at + 1
    BY ONLY <1>5, <2>1, <2>2, TakesFound
  <2> QED BY Zenon, <2>3 DEF held
<1> HIDE DEF u
<1>8. Moves(t, u)
  <2>1. Locks(t.op, t.at)  BY Zenon, <1>4 DEF Locks
  <2> QED BY Zenon, <1>2, <1>6, <1>7, <2>1 DEF Moves, TableOf
<1>9. Lists(u, rows) /\ InOrder(u)
  <2>1. Lists(t, rows)  BY Zenon, <1>2 DEF Runs
  <2> QED BY Zenon, <1>6, <1>7, <2>1 DEF Lists, InOrder
<1>10. ASSUME NEW j \in Steps(t.op), Relists(t.op, j) PROVE SeesNext(t, u, rows, j)
  <2>1. ~Relists(t.op, t.at)  BY Zenon, <1>2, <1>4, RelistAt
  <2>2. t.held \subseteq u.held  BY Zenon, <1>7
  <2> QED BY Zenon, <1>2, <1>4, <1>7, <1>10, <2>1, <2>2, PastSees
<1>11. ~Single(t.op, t.at)  BY Zenon, <1>4 DEF Single
<1>12. Holds(u, rows)  BY Zenon, <1>2, <1>7, <1>8, <1>9, <1>10, <1>11, MovesHolds
<1>13. CASE \A r \in found : Free(w, r)
  <2>1. \A v \in Workers \ {w} : t.held \cap tx[v].held = {} /\ t.new \cap tx[v].new = {}  BY Zenon DEF IInv, t
  <2>2. \A v \in Workers \ {w} : found \cap tx[v].held = {}  BY Zenon, <1>13 DEF Free
  <2>3. \A v \in Workers \ {w} : u.held \cap tx[v].held = {} /\ u.new \cap tx[v].new = {}  BY Zenon, <1>7, <2>1, <2>2
  <2>4. tx' = [tx EXCEPT ![w] = u]  BY Zenon, <1>3, <1>13
  <2> QED BY Zenon, <1>1, <1>12, <2>3, <2>4, Changed
<1>14. CASE ~(\A r \in found : Free(w, r))
  <2>1. tx' = [tx EXCEPT ![w] = Idle]  BY Zenon, <1>3, <1>14
  <2> QED BY Zenon, <1>1, <2>1, ToIdle
<1> QED BY Zenon, <1>13, <1>14

(* The second listing keeps the invariant: when it agrees, every token is  *)
(* held, hence every session.                                              *)
LEMMA RelistTokensInv == ASSUME IInv, NEW w \in Workers, RelistTokens(w) PROVE IInv'
<1> DEFINE t == tx[w]
           of == Of(t.op, t.at)
           u == Advanced(t)
<1>1. Executing(w, {"relist"}) /\ UNCHANGED rows  BY Zenon DEF RelistTokens
<1>2. /\ IsTx(t) /\ Runs(t, rows) /\ t.op \in Operations /\ t.at \in Steps(t.op)
      /\ Do(t.op, t.at) \in {"relist"} /\ Statement(w).of = of
  <2> HIDE DEF t
  <2> QED BY Zenon, <1>1, Running DEF t
<1>3. tx' = [tx EXCEPT ![w] = IF Selected(of, rows) = t.seen THEN u ELSE Idle]
  <2>1. tx' = [tx EXCEPT ![w] = IF Selected(of, rows) = @.seen THEN Advanced(@) ELSE Idle]
    <3> HIDE DEF of
    <3> QED BY Zenon, <1>2 DEF RelistTokens
  <2> HIDE DEF of
  <2> QED BY Zenon, <2>1 DEF IInv
<1>4. Do(t.op, t.at) = "relist" /\ "relist" # "lock"  BY Zenon, <1>2
<1>5. t.todo = {}  BY Zenon, <1>2, <1>4, StillTodo
<1>6. CASE Selected(of, rows) = t.seen
  <2>1. /\ IsTx(u) /\ u.op = t.op /\ u.held = t.held /\ u.new = t.new
        /\ u.todo = {} /\ u.seen = t.seen /\ u.at = t.at + 1
    <3>1. IsTx(t)  BY Zenon, <1>2
    <3> HIDE DEF t, u
    <3>2. u = Advanced(t)  BY Zenon DEF u
    <3> QED BY ONLY Zenon, <1>5, <3>1, <3>2, Passes
  <2>2. \A v \in Workers \ {w} : u.held \cap tx[v].held = {} /\ u.new \cap tx[v].new = {}
    <3> HIDE DEF u
    <3> QED BY Zenon, <2>1 DEF IInv
  <2>3. tx' = [tx EXCEPT ![w] = u]  BY Zenon, <1>3, <1>6
  <2> HIDE DEF t, u
  <2>4. Moves(t, u)  BY Zenon, <1>2, <2>1 DEF Moves
  <2>5. Lists(u, rows) /\ InOrder(u)
    <3>1. Lists(t, rows)  BY Zenon, <1>2 DEF Runs
    <3> QED BY Zenon, <2>1, <3>1 DEF Lists, InOrder
  <2>6. Relists(t.op, t.at) => AllIn(u, rows)
    <3> SUFFICES ASSUME Relists(t.op, t.at) PROVE AllIn(u, rows)  BY Zenon
    <3>1. SeesAt(t, rows, t.at)  BY Zenon, <1>2 DEF Runs, Sees
    <3>2. t.at \in Nat  BY Zenon, <1>2, StepsOf
    <3>3. t.at >= t.at - 2 /\ t.at > t.at - 2  BY ONLY <3>2
    <3>4. TokensIn(t, rows, t.held) /\ SessionsIn(t, rows, t.held)  BY Zenon, <3>1, <3>3 DEF SeesAt
    <3>5. Of(t.op, t.at) = "tokens"  BY Zenon, <1>2, RelistAt
    <3>6. Has(t.seen, "tokens", rows)
      <4>1. Has(Selected("tokens", rows), "tokens", rows)
        <5>1. "tokens" \notin {"session_tokens", "session"}  BY Zenon
        <5> QED BY Zenon, <5>1, SelectedIs
      <4> QED BY Zenon, <1>6, <3>5, <4>1
    <3>7. \A r \in rows : r[1] = "sessions" => \E s \in rows : s[1] = "tokens" /\ s[2] = r[2]
      BY Zenon DEF IInv, RowsHold
    <3>8. \A r \in rows : r[1] = "tokens" => r \in t.held  BY Zenon, <3>4, <3>6 DEF TokensIn, Has
    <3>9. \A r \in rows : r[1] = "sessions" => r \in t.held  BY Zenon, <3>4, <3>6, <3>7 DEF SessionsIn, Has
    <3> QED BY Zenon, <2>1, <3>8, <3>9 DEF AllIn
  <2>7. ASSUME NEW j \in Steps(t.op), Relists(t.op, j) PROVE SeesNext(t, u, rows, j)
    BY Zenon, <1>2, <1>4, <2>1, <2>6, <2>7, PastSees
  <2>8. ~Single(t.op, t.at)  BY Zenon, <1>4 DEF Single
  <2>9. Holds(u, rows)  BY Zenon, <1>2, <2>1, <2>4, <2>5, <2>7, <2>8, MovesHolds
  <2> QED BY Zenon, <1>1, <2>2, <2>3, <2>9, Changed
<1>7. CASE Selected(of, rows) # t.seen
  <2>1. tx' = [tx EXCEPT ![w] = Idle]  BY Zenon, <1>3, <1>7
  <2> QED BY Zenon, <1>1, <2>1, ToIdle
<1> QED BY Zenon, <1>6, <1>7

(* The rows an insert adds.                                                *)
RowsOf(session, token) == {<<"tokens", session, token>>, <<"sessions", session, session>>} \ rows

(* Rows that are new to everyone, with each session's token.               *)
Fresh(new) == (\A r \in new : NewRow(r, new, rows)) /\ \A v \in Workers : new \cap tx[v].new = {}

(* The rows an insert adds are new: the ranks are free.                    *)
LEMMA NewRows ==
    ASSUME IInv, NEW token \in Ranks \ UsedRanks("tokens"),
           NEW session, session \in Ranks \ UsedRanks("sessions") \/ session = Named
    PROVE  Fresh(RowsOf(session, token))
<1> DEFINE new == RowsOf(session, token)
<1>0. new = {<<"tokens", session, token>>, <<"sessions", session, session>>} \ rows  BY Zenon DEF RowsOf
<1> HIDE DEF new
<1> DEFINE a == <<"tokens", session, token>>
           b == <<"sessions", session, session>>
<1>1. a[1] = "tokens" /\ a[2] = session /\ a[3] = token /\ b[1] = "sessions" /\ b[2] = session /\ b[3] = session
  BY Zenon
<1>2. session \in Nat /\ session \in {0, Named} \cup Ranks  BY Zenon, LocksAssumption
<1>3. RowIs(a) /\ RowIs(b)  BY Zenon, <1>2 DEF RowIs
<1>4. \A r \in rows : r[1] = "tokens" => r[3] # token  BY Zenon DEF UsedRanks
<1>5. \A v \in Workers : \A r \in tx[v].new : r[1] = "tokens" => r[3] # token  BY Zenon DEF UsedRanks
<1>6. a \in new /\ a \notin rows  BY Zenon, <1>0, <1>1, <1>4
<1>7. <<"sessions", Named, Named>> \in rows  BY Zenon DEF IInv, RowsHold
<1>8. b \notin rows => \A v \in Workers : b \notin tx[v].new
  <2> SUFFICES ASSUME b \notin rows, NEW v \in Workers, b \in tx[v].new PROVE FALSE  BY Zenon
  <2>1. session \in Ranks \ UsedRanks("sessions")  BY Zenon, <1>7
  <2>2. b \in {s \in rows \cup UNION {tx[x].new : x \in Workers} : s[1] = "sessions"}  BY Zenon, <1>1
  <2> HIDE DEF b
  <2>3. b[3] \in UsedRanks("sessions")  BY Zenon, <2>2 DEF UsedRanks
  <2> QED BY Zenon, <1>1, <2>1, <2>3
<1>9. \A r \in new : r = a \/ (r = b /\ b \notin rows)  BY Zenon, <1>0
<1>10. b \in rows \cup new  BY Zenon, <1>0
<1>11. <<"sessions", a[2], a[2]>> = b  BY Zenon
<1> HIDE DEF a, b
<1>12. ASSUME NEW r \in new PROVE NewRow(r, new, rows)
  <2>1. CASE r = a
    <3>1. RowIs(r) /\ r \notin rows /\ r[1] = "tokens"  BY Zenon, <1>1, <1>3, <1>6, <2>1
    <3>2. <<"sessions", r[2], r[2]>> \in rows \cup new  BY Zenon, <1>10, <1>11, <2>1
    <3> QED BY Zenon, <3>1, <3>2 DEF NewRow
  <2>2. CASE r = b /\ b \notin rows  BY Zenon, <1>1, <1>3, <1>6, <2>2 DEF NewRow
  <2> QED BY Zenon, <1>9, <2>1, <2>2
<1>13. ASSUME NEW v \in Workers PROVE new \cap tx[v].new = {}
  <2>1. a \notin tx[v].new  BY Zenon, <1>1, <1>5
  <2> QED BY Zenon, <1>8, <1>9, <2>1
<1>14. Fresh(new)  BY Zenon, <1>12, <1>13 DEF Fresh
<1> QED BY Zenon, <1>14 DEF new

(* Inserting keeps the invariant.                                          *)
LEMMA InsertRowsInv == ASSUME IInv, NEW w \in Workers, InsertRows(w) PROVE IInv'
<1> DEFINE t == tx[w]
<1>1. Executing(w, {"insert"}) /\ UNCHANGED rows  BY Zenon DEF InsertRows
<1>2. PICK token \in Ranks \ UsedRanks("tokens"),
           session \in (IF Statement(w).of = "session" THEN Ranks \ UsedRanks("sessions") ELSE {Named}) :
              tx' = [tx EXCEPT ![w] = WithNew(@, RowsOf(session, token))]
  BY Zenon DEF InsertRows, WithNew, RowsOf
<1> DEFINE new == RowsOf(session, token)
           u == WithNew(t, new)
<1>3. session \in Ranks \ UsedRanks("sessions") \/ session = Named  BY Zenon
<1>4. Fresh(new)  BY Zenon, <1>3, NewRows
<1>5. tx' = [tx EXCEPT ![w] = u]
  <2> HIDE DEF new
  <2> QED BY Zenon, <1>2 DEF IInv, new
<1> HIDE DEF new
<1>6. /\ IsTx(t) /\ Runs(t, rows) /\ t.op \in Operations /\ t.at \in Steps(t.op)
      /\ Do(t.op, t.at) \in {"insert"}
  <2> HIDE DEF t
  <2> QED BY Zenon, <1>1, Running DEF t
<1>7. Do(t.op, t.at) = "insert" /\ "insert" # "lock" /\ "insert" # "relist"  BY Zenon, <1>6
<1>8. t.todo = {}  BY Zenon, <1>6, <1>7, StillTodo
<1> HIDE DEF t
<1>9. /\ IsTx(u) /\ u.op = t.op /\ u.held = t.held /\ u.new = new
      /\ u.todo = {} /\ u.seen = t.seen /\ u.at = t.at + 1
  <2>1. IsTx(t)  BY Zenon, <1>6
  <2> HIDE DEF u
  <2>2. u = WithNew(t, new)  BY Zenon DEF u
  <2> QED BY ONLY <1>8, <2>1, <2>2, Adds
<1> HIDE DEF u
<1>10. Moves(t, u)  BY Zenon, <1>6, <1>9 DEF Moves
<1>11. Place(t) /\ Lists(t, rows) /\ Covers(t, rows)  BY Zenon, <1>6 DEF Runs
<1>12. Lists(u, rows) /\ InOrder(u)  BY Zenon, <1>9, <1>11 DEF Lists, InOrder
<1>13. ASSUME NEW j \in Steps(t.op), Relists(t.op, j) PROVE SeesNext(t, u, rows, j)
  <2>1. ~Relists(t.op, t.at)  BY Zenon, <1>6, <1>7, RelistAt
  <2>2. t.held \subseteq u.held  BY Zenon, <1>9
  <2> QED BY Zenon, <1>6, <1>7, <1>9, <1>13, <2>1, <2>2, PastSees
<1>14. ~Single(t.op, t.at)  BY Zenon, <1>7 DEF Single
<1>15. Place(u) /\ Covers(u, rows) /\ Sees(u, rows)
  BY Zenon, <1>10, <1>11, <1>13, <1>14, MovesPlace, MovesCovers, MovesSees
<1>16. News(u, rows)
  <2>1. t.at \in Nat  BY Zenon, <1>6, StepsOf
  <2>2. t.at < u.at  BY ONLY <1>9, <2>1
  <2>3. t.at \in Steps(u.op) /\ Do(u.op, t.at) = "insert"  BY Zenon, <1>6, <1>7, <1>9
  <2> QED BY Zenon, <1>4, <1>9, <2>2, <2>3 DEF News, Fresh
<1>17. u.op # "none"  BY Zenon, <1>6, <1>9, StepsOf
<1>18. Holds(u, rows)  BY Zenon, <1>9, <1>12, <1>15, <1>16, <1>17 DEF Holds, Runs
<1>19. \A v \in Workers \ {w} : u.held \cap tx[v].held = {} /\ u.new \cap tx[v].new = {}
  BY Zenon, <1>4, <1>9 DEF IInv, t, Fresh
<1> QED BY Zenon, <1>1, <1>5, <1>18, <1>19, Changed

(* The transaction is past the lock of the table.                          *)
HasLocked(t, table) == \E i \in Steps(t.op) : i < t.at /\ Do(t.op, i) = "lock" /\ Of(t.op, i) = table

(* It then holds the row, when the table has one.                          *)
LEMMA SingleIsHeld ==
    ASSUME NEW R, RowsHold(R), NEW t, t.op \in Operations, Covers(t, R),
           NEW table, table \notin RowSets, HasLocked(t, table)
    PROVE  <<table, 0, 0>> \in t.held
<1>1. PICK i \in Steps(t.op) : i < t.at /\ Do(t.op, i) = "lock" /\ Of(t.op, i) = table  BY Zenon DEF HasLocked
<1>2. i \in DOMAIN Program[t.op]  BY Zenon, StepsOf
<1>3. table \in {Program[t.op][k].of : k \in DOMAIN Program[t.op]}  BY Zenon, <1>1, <1>2 DEF Of
<1>4. table \in SingleRows  BY <1>3 DEF SingleRows
<1>5. <<table, 0, 0>> \in R  BY Zenon, <1>4 DEF RowsHold
<1>6. <<table, 0, 0>>[1] = table  BY Zenon
<1>7. Has(t.held, table, R)  BY Zenon, <1>1 DEF Covers, Single
<1> QED BY Zenon, <1>5, <1>6, <1>7 DEF Has

(* A transaction that listed the tokens again has locked the account.      *)
LEMMA RelistedHasAccount ==
    ASSUME NEW t, t.op \in Operations, t.at \in Nat, NEW j \in Steps(t.op), Relists(t.op, j), t.at > j
    PROVE  HasLocked(t, "account")
<1>1. j \in Nat /\ j - 1 \in Steps(t.op) /\ Do(t.op, j - 1) = "lock" /\ Of(t.op, j - 1) = "account"  BY Zenon, RelistAt
<1>2. j - 1 < t.at  BY ONLY <1>1, t.at \in Nat, t.at > j
<1> QED BY Zenon, <1>1, <1>2 DEF HasLocked

(* A transaction that inserted rows has locked the account.                *)
LEMMA InserterHasAccount ==
    ASSUME NEW R, NEW t, t.op \in Operations, t.at \in Nat, News(t, R), t.new # {}
    PROVE  HasLocked(t, "account")
<1>1. PICK j \in Steps(t.op) : j < t.at /\ Do(t.op, j) = "insert"  BY Zenon DEF News
<1>2. PICK i \in Steps(t.op) : i < j /\ Do(t.op, i) = "lock" /\ Of(t.op, i) = "account"  BY Zenon, <1>1, InsertsUnderAccount
<1>3. i \in Nat /\ j \in Nat  BY Zenon, StepsOf
<1>4. i < t.at  BY ONLY <1>1, <1>2, <1>3, t.at \in Nat
<1> QED BY Zenon, <1>2, <1>4 DEF HasLocked

(* New tokens and sessions leave a transaction as it was, unless it holds  *)
(* the account.                                                            *)
LEMMA MoreRows ==
    ASSUME NEW R, RowsHold(R), NEW t, Holds(t, R), NEW N,
           \A r \in N : RowIs(r) /\ r \notin R /\ r[1] \in {"tokens", "sessions"},
           N # {} => ~(t.op # "none" /\ HasLocked(t, "account")), t.new \cap N = {}
    PROVE  Holds(t, R \cup N)
<1> SUFFICES ASSUME t.op # "none" PROVE Holds(t, R \cup N)  BY Zenon DEF Holds
<1> DEFINE Q == R \cup N
<1>1. IsTx(t) /\ Place(t) /\ Lists(t, R) /\ Covers(t, R) /\ InOrder(t) /\ Sees(t, R) /\ News(t, R)
  BY Zenon DEF Holds, Runs
<1>2. t.op \in Operations /\ t.at \in Nat  BY Zenon, <1>1 DEF Place, Placed
<1>3. Lists(t, Q)  BY Zenon, <1>1 DEF Lists
<1>4. Covers(t, Q)
  <2>1. "tokens" \in RowSets /\ "sessions" \in RowSets  BY Zenon DEF RowSets
  <2>2. \A S, x : x \notin RowSets /\ Has(S, x, R) => Has(S, x, Q)  BY Zenon, <2>1 DEF Has
  <2> HIDE DEF Q
  <2> QED BY Zenon, <1>1, <2>2 DEF Covers, Single
<1>5. Sees(t, Q)
  <2> SUFFICES ASSUME NEW j \in Steps(t.op), Relists(t.op, j) PROVE SeesAt(t, Q, j)  BY Zenon DEF Sees
  <2>1. SeesAt(t, R, j)  BY Zenon, <1>1 DEF Sees
  <2>2. \A S : TokensIn(t, R, S) => TokensIn(t, Q, S)  BY Zenon DEF TokensIn
  <2>3. ASSUME NEW S, TokensIn(t, R, t.held) \/ TokensIn(t, R, S), SessionsIn(t, R, S) PROVE SessionsIn(t, Q, S)
    <3> SUFFICES ASSUME NEW r \in N, r[1] = "sessions", NEW s \in t.seen, s[2] = r[2] PROVE FALSE
      BY Zenon, <2>3 DEF SessionsIn
    <3>1. s \in R /\ s[1] = "tokens"  BY Zenon, <2>3 DEF TokensIn
    <3>2. <<"sessions", s[2], s[2]>> \in R  BY Zenon, <3>1 DEF RowsHold
    <3>3. r = <<r[1], r[2], r[3]>> /\ r[2] = r[3]  BY Zenon DEF RowIs
    <3>4. r = <<"sessions", s[2], s[2]>>  BY Zenon, <3>3
    <3> QED BY Zenon, <3>2, <3>4
  <2>4. t.at > j => N = {}  BY Zenon, <1>2, RelistedHasAccount
  <2>5. N = {} => Q = R  BY Zenon
  <2>6. j \in Nat  BY Zenon, <1>2, StepsOf
  <2>7. t.at = j - 2 \/ t.at > j - 2 => t.at >= j - 2  BY ONLY <1>2, <2>6
  <2> HIDE DEF Q
  <2>8. t.at > j => AllIn(t, Q)  BY Zenon, <2>1, <2>4, <2>5 DEF SeesAt
  <2> QED BY Zenon, <2>1, <2>2, <2>3, <2>7, <2>8 DEF SeesAt
<1>6. News(t, Q)  BY Zenon, <1>1 DEF News, NewRow
<1> HIDE DEF Q
<1>7. Holds(t, Q)  BY Zenon, <1>1, <1>3, <1>4, <1>5, <1>6 DEF Holds, Runs
<1> QED BY Zenon, <1>7 DEF Q

(* Committing keeps the invariant: whoever commits rows held the account,  *)
(* so no transaction that listed the tokens again is still running.        *)
LEMMA CommitInv == ASSUME IInv, NEW w \in Workers, Commit(w) PROVE IInv'
<1> DEFINE t == tx[w]
           N == t.new
<1>1. t.op # "none" /\ rows' = rows \cup N /\ tx' = [tx EXCEPT ![w] = Idle]  BY Zenon DEF Commit
<1>2. Holds(t, rows)  BY Zenon DEF IInv
<1>3. Place(t) /\ Covers(t, rows) /\ News(t, rows)  BY Zenon, <1>1, <1>2 DEF Holds, Runs
<1>4. t.op \in Operations /\ t.at \in Nat  BY Zenon, <1>3 DEF Place, Placed
<1>5. \A r \in N : RowIs(r) /\ r \notin rows /\ r[1] \in {"tokens", "sessions"}  BY Zenon, <1>3 DEF News, NewRow
<1>6. RowsHold(rows)  BY Zenon DEF IInv
<1>7. RowsHold(rows \cup N)
  <2>1. \A r \in N : r[1] = "tokens" => <<"sessions", r[2], r[2]>> \in rows \cup N  BY Zenon, <1>3 DEF News, NewRow
  <2>2. \A r \in N : r[1] = "sessions" => \E s \in N : s[1] = "tokens" /\ s[2] = r[2]  BY Zenon, <1>3 DEF News, NewRow
  <2> HIDE DEF N, t
  <2> QED BY Zenon, <1>5, <1>6, <2>1, <2>2 DEF RowsHold
<1>8. tx'[w] = Idle /\ \A v \in Workers \ {w} : tx'[v] = tx[v]  BY Zenon, <1>1 DEF IInv
<1>9. tx' = [v \in Workers |-> tx'[v]]  BY Zenon, <1>1 DEF IInv
<1>10. ASSUME NEW v \in Workers PROVE Holds(tx'[v], rows \cup N)
  <2>1. CASE v = w  BY Zenon, <1>8, <2>1, IdleIs DEF Holds
  <2>2. CASE v # w
    <3> DEFINE s == tx[v]
    <3>1. Holds(s, rows) /\ t.held \cap s.held = {} /\ s.new \cap N = {}  BY Zenon, <2>2 DEF IInv
    <3> HIDE DEF s, t
    <3>2. N # {} => ~(s.op # "none" /\ HasLocked(s, "account"))
      <4> SUFFICES ASSUME N # {}, s.op # "none", HasLocked(s, "account") PROVE FALSE  BY Zenon
      <4>1. "account" \notin RowSets  BY Zenon DEF RowSets
      <4>2. <<"account", 0, 0>> \in t.held  BY Zenon, <1>3, <1>4, <1>6, <4>1, InserterHasAccount, SingleIsHeld
      <4>3. s.op \in Operations /\ Covers(s, rows)  BY Zenon, <3>1 DEF Holds, Runs, Place, Placed
      <4>4. <<"account", 0, 0>> \in s.held  BY Zenon, <1>6, <4>1, <4>3, SingleIsHeld
      <4> QED BY Zenon, <3>1, <4>2, <4>4
    <3> HIDE DEF N
    <3>3. Holds(s, rows \cup N)  BY Zenon, <1>5, <1>6, <3>1, <3>2, MoreRows
    <3> QED BY Zenon, <1>8, <2>2, <3>3 DEF s
  <2> QED BY Zenon, <2>1, <2>2
<1>11. \A x, v \in Workers : x # v => tx'[x].held \cap tx'[v].held = {} /\ tx'[x].new \cap tx'[v].new = {}
  <2>1. \A x, v \in Workers : x # v => tx[x].held \cap tx[v].held = {} /\ tx[x].new \cap tx[v].new = {}  BY Zenon DEF IInv
  <2> QED BY Zenon, <1>8, <2>1, IdleIs
<1> HIDE DEF N
<1> QED BY Zenon, <1>1, <1>7, <1>9, <1>10, <1>11 DEF IInv

(* Every step keeps the invariant.                                         *)
LEMMA NextInv == IInv /\ [Next]_vars => IInv'
<1> SUFFICES ASSUME IInv, [Next]_vars PROVE IInv'  BY Zenon
<1>1. CASE UNCHANGED vars
  <2>1. rows' = rows /\ tx' = tx  BY Zenon, <1>1 DEF vars
  <2> QED BY Zenon, <2>1 DEF IInv
<1>2. CASE Next
  <2>1. PICK w \in Workers : Begin(w) \/ Step(w) \/ Rollback(w)  BY Zenon, <1>2 DEF Next
  <2>2. CASE Rollback(w)  BY Zenon, <2>2, ToIdle DEF Rollback
  <2>3. CASE Step(w)
    BY Zenon, <2>3, StartLockInv, TakeRowInv, LockWithoutWaitInv, RelistTokensInv, InsertRowsInv, CommitInv DEF Step
  <2> QED BY Zenon, <2>1, <2>2, <2>3, BeginInv
<1> QED BY Zenon, <1>1, <1>2

-----------------------------------------------------------------------------
(* Proofs: the properties                                                  *)

(* What the invariant says of a transaction that runs.                     *)
LEMMA HoldsTx ==
    ASSUME IInv, NEW w \in Workers, tx[w].op # "none"
    PROVE  /\ Place(tx[w]) /\ Lists(tx[w], rows) /\ Covers(tx[w], rows) /\ InOrder(tx[w]) /\ Sees(tx[w], rows)
           /\ tx[w].op \in Operations /\ tx[w].at \in Nat
<1>1. Holds(tx[w], rows)  BY Zenon DEF IInv
<1> QED BY Zenon, <1>1 DEF Holds, Runs, Place, Placed

(* A transaction that holds or awaits a row runs a handler.                *)
LEMMA Busy == ASSUME IInv, NEW w \in Workers, tx[w].todo # {} \/ tx[w].held # {} PROVE tx[w].op # "none"
<1>1. Holds(tx[w], rows)  BY Zenon DEF IInv
<1> QED BY Zenon, <1>1, IdleIs DEF Holds

(* A row is locked by one transaction at a time, and a transaction holds   *)
(* and awaits committed rows only, whatever handlers run, on however many  *)
(* workers.                                                                *)
THEOREM LocksAreExclusive == Spec => []TypeOK
<1>1. IInv => TypeOK
  <2> SUFFICES ASSUME IInv PROVE TypeOK  BY Zenon
  <2>1. ASSUME NEW w \in Workers PROVE tx[w].held \subseteq rows /\ tx[w].todo \subseteq rows \ tx[w].held
    <3>1. CASE tx[w].op = "none"
      <4>1. tx[w].held = {} /\ tx[w].todo = {}  BY Zenon, <3>1, Busy
      <4> QED BY Zenon, <4>1
    <3>2. CASE tx[w].op # "none"  BY Zenon, <3>2, HoldsTx DEF Lists
    <3> QED BY Zenon, <3>1, <3>2
  <2> QED BY Zenon, <2>1 DEF TypeOK, IInv
<1> QED BY <1>1, InitInv, NextInv, PTL DEF Spec

(* The invariant implies that nothing is added behind a second listing.    *)
LEMMA InvSeesEveryRow == IInv => SeesEveryRow
<1> SUFFICES ASSUME IInv, NEW w \in Workers, HasRelisted(w),
                    NEW r \in Selected("tokens", rows) \cup Selected("sessions", rows)
             PROVE  r \in tx[w].held
  BY Zenon DEF SeesEveryRow
<1> DEFINE t == tx[w]
<1>1. t.op # "none" /\ \E i \in 1 .. t.at - 1 : i \in DOMAIN Program[t.op] /\ Relists(t.op, i)
  BY Zenon DEF HasRelisted, Relists
<1>2. Sees(t, rows) /\ t.op \in Operations /\ t.at \in Nat  BY Zenon, <1>1, HoldsTx
<1> HIDE DEF t
<1>3. PICK j \in 1 .. t.at - 1 : j \in Steps(t.op) /\ Relists(t.op, j)  BY Zenon, <1>1, <1>2, StepsOf
<1>4. t.at > j  BY ONLY <1>2, j \in 1 .. t.at - 1
<1>5. AllIn(t, rows)  BY Zenon, <1>2, <1>3, <1>4 DEF Sees, SeesAt
<1>6. r \in rows /\ r[1] \in {"tokens", "sessions"}
  <2>1. Table("tokens") = "tokens" /\ Table("sessions") = "sessions"  BY Zenon, Levels
  <2> QED BY Zenon, <2>1, SelectedIs
<1> QED BY Zenon, <1>5, <1>6 DEF t, AllIn

(* Whatever handlers run: once a handler has listed the tokens again under *)
(* the account lock, it holds every token and session until it ends.       *)
THEOREM NothingIsAddedBehind == Spec => []SeesEveryRow
BY InitInv, NextInv, InvSeesEveryRow, PTL DEF Spec

(* What a transaction waits for lies above everything it holds: in a       *)
(* higher table, or later in the same one.                                 *)
LEMMA Climbs ==
    ASSUME IInv, NEW v \in Workers, tx[v].op # "revokeSessions",
           NEW r \in tx[v].held, r[1] # "tokens", NEW s \in tx[v].todo, s[1] # "tokens"
    PROVE  Level(r[1]) < Level(s[1]) \/ (r[1] = s[1] /\ r[3] < s[3])
<1> DEFINE t == tx[v]
<1>1. t.op # "none" /\ t.todo # {}  BY Zenon, Busy
<1>2. Place(t) /\ Lists(t, rows) /\ Covers(t, rows) /\ InOrder(t) /\ t.op \in Operations /\ t.at \in Nat
  BY Zenon, <1>1, HoldsTx
<1>3. r \in t.held /\ s \in t.todo /\ t.op # "revokeSessions"  BY Zenon
<1> HIDE DEF t
<1>4. t.at >= 1 /\ t.at <= Size(t.op) /\ Do(t.op, t.at) = "lock" /\ s[1] = TableOf(t.op, t.at)
  BY Zenon, <1>1, <1>2, <1>3 DEF Place, Placed, Waiting
<1>5. t.at \in Steps(t.op)  BY Zenon, <1>2, <1>4, StepsOf
<1>6. PICK i \in Steps(t.op) : (i < t.at \/ i = t.at) /\ Locks(t.op, i) /\ r[1] = TableOf(t.op, i)
  BY Zenon, <1>2, <1>3 DEF Place, Behind, Begun
<1>7. CASE Single(t.op, t.at) /\ \E k \in Steps(t.op) : k < t.at /\ Single(t.op, k) /\ Of(t.op, k) = Of(t.op, t.at)
  <2>1. Has(t.held, Of(t.op, t.at), rows)  BY Zenon, <1>2, <1>7 DEF Covers
  <2>2. TableOf(t.op, t.at) = Of(t.op, t.at)  BY Zenon, <1>7, SelectedIs DEF Single, TableOf
  <2>3. s \in rows /\ s \notin t.held  BY Zenon, <1>2, <1>3 DEF Lists
  <2> QED BY Zenon, <1>4, <2>1, <2>2, <2>3 DEF Has
<1>8. CASE \A k \in Steps(t.op) : k < t.at /\ Locks(t.op, k) /\ TableOf(t.op, k) # "tokens" =>
              Level(TableOf(t.op, k)) < Level(TableOf(t.op, t.at))
  <2>1. CASE i < t.at  BY Zenon, <1>4, <1>6, <1>8, <2>1
  <2>2. CASE i = t.at
    <3>1. r[1] = s[1]  BY Zenon, <1>4, <1>6, <2>2
    <3> QED BY Zenon, <1>2, <1>3, <3>1 DEF InOrder
  <2> QED BY Zenon, <1>6, <2>1, <2>2
<1> QED BY Zenon, <1>2, <1>3, <1>4, <1>5, <1>7, <1>8, OrderIs

(* A bounded set of naturals that is not empty has a greatest member.      *)
LEMMA GreatestOfBounded ==
    ASSUME NEW S, S \subseteq Nat, S # {}, NEW n \in Nat, \A x \in S : x <= n
    PROVE  \E m \in S : \A x \in S : x <= m
<1> DEFINE U == {m \in Nat : \A x \in S : x <= m}
<1>1. U \subseteq Nat /\ U # {}  BY Zenon
<1> HIDE DEF U
<1>2. PICK m \in U : \A u \in U : m <= u  BY Zenon, <1>1, LeastMember
<1>3. m \in Nat /\ \A x \in S : x <= m  BY Zenon, <1>2 DEF U
<1>4. m \in S
  <2> SUFFICES ASSUME m \notin S PROVE FALSE  BY Zenon
  <2>1. \A x \in S : x < m  BY <1>3
  <2>2. PICK x \in S : x \in Nat /\ x < m  BY Zenon, <2>1
  <2>3. m - 1 \in U  BY <1>3, <2>1, <2>2 DEF U
  <2> QED BY <1>2, <1>3, <2>3
<1> QED BY Zenon, <1>3, <1>4

(* Were no token among the rows a knot waits for, the holder of the        *)
(* highest of them would wait for a higher one.                            *)
LEMMA KnotHasTokens ==
    ASSUME IInv, "revokeSessions" \notin Operations, NEW n \in Nat, Ranks \subseteq 0 .. n,
           NEW W \in SUBSET Workers, Knot(W)
    PROVE  \E w \in W : First(tx[w].todo)[1] = "tokens"
<1> SUFFICES ASSUME \A w \in W : First(tx[w].todo)[1] # "tokens" PROVE FALSE  BY Zenon
<1> DEFINE row(w) == First(tx[w].todo)
           Up(r, s) == Level(r[1]) < Level(s[1]) \/ (r[1] = s[1] /\ r[3] < s[3])
<1>1. \A r \in rows : RowIs(r)  BY Zenon DEF IInv, RowsHold
<1>2. ASSUME NEW w \in W PROVE row(w) \in tx[w].todo /\ row(w) \in rows
  <2>1. tx[w].todo # {}  BY Zenon DEF Knot, WaitsFor
  <2>2. tx[w].todo \subseteq rows  BY Zenon, <2>1, Busy, HoldsTx DEF Lists
  <2> QED BY Zenon, <1>1, <2>1, <2>2, FirstIs
<1>3. \A w \in W : tx[w].op # "revokeSessions"
  <2>1. \A w \in W : tx[w].op # "none" /\ tx[w].op \in Operations  BY Zenon, <1>2, Busy, HoldsTx
  <2> QED BY Zenon, <2>1
<1>4. ASSUME NEW w \in W PROVE \E v \in W : Up(row(w), row(v))
  <2>1. PICK v \in W : row(w) \in tx[v].held  BY Zenon DEF Knot, WaitsFor
  <2>2. row(v) \in tx[v].todo /\ row(v)[1] # "tokens" /\ row(w)[1] # "tokens"  BY Zenon, <1>2
  <2>3. v \in Workers /\ tx[v].op # "revokeSessions"  BY Zenon, <1>3
  <2> HIDE DEF row
  <2> QED BY Zenon, <2>1, <2>2, <2>3, Climbs
<1>5. \A w \in W : row(w)[3] \in Nat /\ row(w)[3] <= n + Named
  <2>1. \A w \in W : row(w)[3] \in {0, Named} \cup Ranks  BY Zenon, <1>1, <1>2 DEF RowIs
  <2>2. \A x \in {0, Named} \cup Ranks : x \in Nat /\ x <= n + Named
    <3>1. \A x \in Ranks : x \in Nat /\ x <= n  OBVIOUS
    <3>2. Named \in Nat  BY Zenon, LocksAssumption
    <3> QED BY ONLY n \in Nat, <3>1, <3>2
  <2> HIDE DEF row
  <2> QED BY Zenon, <2>1, <2>2
<1> HIDE DEF row
<1> DEFINE S == {Level(row(w)[1]) : w \in W}
<1>6. S \subseteq Nat /\ S # {} /\ \A x \in S : x <= 11  BY Zenon, LevelIsNat DEF Knot
<1> HIDE DEF S
<1>7. PICK m \in S : \A x \in S : x <= m  BY Zenon, <1>6, GreatestOfBounded
<1>8. \A w \in W : Level(row(w)[1]) <= m  BY Zenon, <1>7 DEF S
<1> DEFINE R == {row(w)[3] : w \in {x \in W : Level(row(x)[1]) = m}}
<1>9. R \subseteq Nat /\ R # {} /\ \A x \in R : x <= n + Named  BY Zenon, <1>5, <1>7 DEF S
<1> HIDE DEF R
<1>10. n + Named \in Nat  BY LocksAssumption
<1>11. PICK k \in R : \A x \in R : x <= k  BY Zenon, <1>9, <1>10, GreatestOfBounded
<1>12. PICK w \in W : Level(row(w)[1]) = m /\ row(w)[3] = k  BY Zenon, <1>11 DEF R
<1>13. PICK v \in W : Up(row(w), row(v))  BY Zenon, <1>4
<1>14. m \in Nat /\ Level(row(v)[1]) \in Nat /\ Level(row(v)[1]) <= m  BY Zenon, <1>6, <1>7, <1>8, LevelIsNat
<1>15. row(w)[1] = row(v)[1] /\ k < row(v)[3]  BY <1>12, <1>13, <1>14
<1>16. row(v)[3] \in R  BY Zenon, <1>12, <1>15 DEF R
<1>17. k \in Nat /\ row(v)[3] \in Nat  BY Zenon, <1>5, <1>9
<1> QED BY <1>11, <1>15, <1>16, <1>17

(* However many requests run and however many sessions and tokens there    *)
(* are, the handlers other than RevokeSessions deadlock over refresh       *)
(* tokens only.  (RevokeSessions locks the account before the sessions.)   *)
(* The ranks are bounded, as digests and identifiers of a fixed size are.  *)
THEOREM OnlyTokensDeadlock ==
    ASSUME "revokeSessions" \notin Operations, NEW n \in Nat, Ranks \subseteq 0 .. n
    PROVE  Spec => []DeadlockOnlyOnTokens
<1>1. IInv => DeadlockOnlyOnTokens  BY Zenon, KnotHasTokens DEF DeadlockOnlyOnTokens
<1> QED BY <1>1, InitInv, NextInv, PTL DEF Spec

(* Outside RotateSession, whoever holds or awaits a token holds the        *)
(* credential.                                                             *)
LEMMA HoldsCredential ==
    ASSUME IInv, NEW w \in Workers, tx[w].op # "rotateSession",
           NEW r \in tx[w].held \cup tx[w].todo, r[1] = "tokens"
    PROVE  <<"credential", 0, 0>> \in tx[w].held
<1> DEFINE t == tx[w]
<1>1. t.op # "none"  BY Zenon, Busy
<1>2. Place(t) /\ Covers(t, rows) /\ t.op \in Operations /\ t.at \in Nat  BY Zenon, <1>1, HoldsTx
<1>3. r \in t.held \/ r \in t.todo  BY Zenon
<1>4. RowsHold(rows) /\ t.op # "rotateSession"  BY Zenon DEF IInv
<1> HIDE DEF t
<1>5. \E j \in Steps(t.op) : (j < t.at \/ j = t.at) /\ Locks(t.op, j) /\ TableOf(t.op, j) = "tokens"
  <2>1. CASE r \in t.held  BY Zenon, <1>2, <2>1 DEF Place, Behind, Begun
  <2>2. CASE r \in t.todo
    <3>1. t.at >= 1 /\ t.at <= Size(t.op) /\ Do(t.op, t.at) = "lock" /\ r[1] = TableOf(t.op, t.at)
      BY Zenon, <1>2, <2>2 DEF Place, Placed, Waiting
    <3>2. t.at \in Steps(t.op)  BY Zenon, <1>2, <3>1, StepsOf
    <3> QED BY Zenon, <3>1, <3>2 DEF Locks
  <2> QED BY Zenon, <1>3, <2>1, <2>2
<1>6. PICK j \in Steps(t.op) : (j < t.at \/ j = t.at) /\ Locks(t.op, j) /\ TableOf(t.op, j) = "tokens"  BY Zenon, <1>5
<1>7. PICK i \in Steps(t.op) : i < j /\ Do(t.op, i) = "lock" /\ Of(t.op, i) = "credential"
  BY Zenon, <1>2, <1>4, <1>6, CredentialIsFirst
<1>8. i \in Nat /\ j \in Nat  BY Zenon, <1>2, StepsOf
<1>9. i < t.at  BY ONLY <1>2, <1>6, <1>7, <1>8
<1>10. HasLocked(t, "credential")  BY Zenon, <1>7, <1>9 DEF HasLocked
<1>11. "credential" \notin RowSets  BY Zenon DEF RowSets
<1>12. <<"credential", 0, 0>> \in t.held  BY Zenon, <1>2, <1>4, <1>10, <1>11, SingleIsHeld
<1> QED BY Zenon, <1>12 DEF t

(* Two transactions cannot both hold the credential, so no knot forms over *)
(* tokens either.                                                          *)
LEMMA InvNoDeadlock ==
    ASSUME IInv, {"rotateSession", "revokeSessions"} \cap Operations = {}, NEW n \in Nat, Ranks \subseteq 0 .. n
    PROVE  NoDeadlock
<1> SUFFICES ASSUME NEW W \in SUBSET Workers, Knot(W) PROVE FALSE  BY Zenon DEF NoDeadlock
<1>1. PICK w \in W : First(tx[w].todo)[1] = "tokens"  BY Zenon, KnotHasTokens
<1>2. PICK v \in W : w # v /\ tx[w].todo # {} /\ First(tx[w].todo) \in tx[v].held  BY Zenon DEF Knot, WaitsFor
<1>3. First(tx[w].todo) \in tx[w].todo
  <2>1. tx[w].todo \subseteq rows  BY Zenon, <1>2, Busy, HoldsTx DEF Lists
  <2>2. \A r \in rows : RowIs(r)  BY Zenon DEF IInv, RowsHold
  <2> QED BY Zenon, <1>2, <2>1, <2>2, FirstIs
<1>4. tx[w].op # "rotateSession" /\ tx[v].op # "rotateSession"
  <2>1. tx[w].op \in Operations /\ tx[v].op \in Operations  BY Zenon, <1>2, Busy, HoldsTx
  <2> QED BY Zenon, <2>1
<1>5. <<"credential", 0, 0>> \in tx[w].held \cap tx[v].held  BY <1>1, <1>2, <1>3, <1>4, HoldsCredential
<1> QED BY Zenon, <1>2, <1>5 DEF IInv

(* Without session rotation, which locks tokens without the credential,    *)
(* and RevokeSessions, the handlers never deadlock, and each sees every    *)
(* row that it locks.                                                      *)
THEOREM HandlersDoNotDeadlock ==
    ASSUME {"rotateSession", "revokeSessions"} \cap Operations = {}, NEW n \in Nat, Ranks \subseteq 0 .. n
    PROVE  Spec => []LocksAreSound
<1>1. IInv => LocksAreSound  BY Zenon, InvNoDeadlock, InvSeesEveryRow DEF LocksAreSound
<1> QED BY <1>1, InitInv, NextInv, PTL DEF Spec

=============================================================================
