----------------------------- MODULE MCIdentity -----------------------------
(***************************************************************************)
(* Accounts, sessions, deliveries, second factors and devices on small     *)
(* instances (AccountSession, AccountEmail, StrongAuth, DeviceAuth), and   *)
(* the row locks of their transactions (RowLocks). A behaviour is one of   *)
(* several scenarios, each of which runs one component with the constants  *)
(* that its question needs; the variables of the others keep their initial *)
(* value.                                                                  *)
(***************************************************************************)
EXTENDS RowLocks, TLC

CONSTANTS
    Scenarios, Requests, Keys

VARIABLE scenario

VARIABLES
    sessionNow, sessionDb, sessionRedis, sessionReq
sessionVars == <<sessionNow, sessionDb, sessionRedis, sessionReq>>

VARIABLES
    emailNow, emailDb, emailRedis, emailReq, emailWorker, emailConsumed, emailAcked,
    emailMail
emailVars == <<emailNow, emailDb, emailRedis, emailReq, emailWorker, emailConsumed, emailAcked,
      emailMail>>

VARIABLES
    factorNow, factorDb, factorRedis, factorReq
factorVars == <<factorNow, factorDb, factorRedis, factorReq>>

VARIABLES
    passkeyNow, passkeyDb, passkeyRedis, passkeyReq
passkeyVars == <<passkeyNow, passkeyDb, passkeyRedis, passkeyReq>>

VARIABLES
    deviceNow, deviceDb, deviceRedis, deviceReq
deviceVars == <<deviceNow, deviceDb, deviceRedis, deviceReq>>

Symmetry == Permutations(Requests) \cup Permutations(Keys)

(* Bound of the rotation scenario: sessions are revoked in the others.     *)
RotationBound == \A k \in DOMAIN sessionDb'.idem : k[2] # "revoke_account_sessions"

-----------------------------------------------------------------------------
Rotating == INSTANCE AccountSession WITH
    Keys <- Keys, Passwords <- {"w1"}, EmailPolicy <- "grace", AccessTTL <- 1, IdleTTL <- 2,
    AbsoluteTTL <- 3, ChallengeTTL <- 1, GraceTTL <- 2, MaxTime <- 1, MaxSessions <- 1,
    MaxTokens <- 3, MaxChallenges <- 2, EmailTTL <- 2, ResetTTL <- 1, GrantTTL <- 2,
    MaxDeliveries <- 0, Requests <- Requests, Readers <- {}, Account <- 1, Email <- 1,
    InitialState <- "active", now <- sessionNow, db <- sessionDb, redis <- sessionRedis, req
    <- sessionReq

Grace == INSTANCE AccountSession WITH
    Keys <- Keys, Passwords <- {"w1"}, EmailPolicy <- "grace", AccessTTL <- 1, IdleTTL <- 2,
    AbsoluteTTL <- 3, ChallengeTTL <- 2, GraceTTL <- 2, MaxTime <- 3, MaxSessions <- 1,
    MaxTokens <- 3, MaxChallenges <- 2, EmailTTL <- 2, ResetTTL <- 1, GrantTTL <- 2,
    MaxDeliveries <- 0, Requests <- {"r1"}, Readers <- {"r2"}, Account <- 1, Email <- 1,
    InitialState <- "pending_email", now <- sessionNow, db <- sessionDb, redis <-
    sessionRedis, req <- sessionReq

Changing == INSTANCE AccountSession WITH
    Keys <- Keys, Passwords <- {"w1", "w2"}, EmailPolicy <- "grace", AccessTTL <- 1, IdleTTL
    <- 2, AbsoluteTTL <- 3, ChallengeTTL <- 1, GraceTTL <- 2, MaxTime <- 1, MaxSessions <-
    3, MaxTokens <- 3, MaxChallenges <- 1, EmailTTL <- 2, ResetTTL <- 1, GrantTTL <- 2,
    MaxDeliveries <- 0, Requests <- {}, Readers <- {}, Account <- 1, Email <- 1,
    InitialState <- "active", now <- sessionNow, db <- sessionDb, redis <- sessionRedis, req
    <- sessionReq

Revoking == INSTANCE AccountSession WITH
    Keys <- {"k1"}, Passwords <- {"w1"}, EmailPolicy <- "grace", AccessTTL <- 1, IdleTTL <-
    2, AbsoluteTTL <- 3, ChallengeTTL <- 1, GraceTTL <- 2, MaxTime <- 1, MaxSessions <- 2,
    MaxTokens <- 3, MaxChallenges <- 2, EmailTTL <- 2, ResetTTL <- 1, GrantTTL <- 2,
    MaxDeliveries <- 0, Requests <- {"r1"}, Readers <- {"r2"}, Account <- 1, Email <- 1,
    InitialState <- "active", now <- sessionNow, db <- sessionDb, redis <- sessionRedis, req
    <- sessionReq

Delivering == INSTANCE AccountEmail WITH
    Keys <- {"k1"}, Passwords <- {"w1"}, EmailPolicy <- "grace", AccessTTL <- 1, IdleTTL <-
    3, AbsoluteTTL <- 4, ChallengeTTL <- 1, GraceTTL <- 2, MaxTime <- 1, MaxSessions <- 1,
    MaxTokens <- 3, MaxChallenges <- 1, EmailTTL <- 2, ResetTTL <- 1, GrantTTL <- 2,
    MaxDeliveries <- 2, Workers <- {"m1", "m2"}, Emails <- {1}, now <- emailNow, db <-
    emailDb, redis <- emailRedis, req <- emailReq, worker <- emailWorker, consumed <-
    emailConsumed, acked <- emailAcked, mail <- emailMail

Pending == INSTANCE AccountEmail WITH
    Keys <- {"k1"}, Passwords <- {"w1"}, EmailPolicy <- "grace", AccessTTL <- 1, IdleTTL <-
    3, AbsoluteTTL <- 4, ChallengeTTL <- 1, GraceTTL <- 2, MaxTime <- 3, MaxSessions <- 1,
    MaxTokens <- 3, MaxChallenges <- 1, EmailTTL <- 2, ResetTTL <- 1, GrantTTL <- 2,
    MaxDeliveries <- 2, Workers <- {"c1"}, Emails <- {1}, now <- emailNow, db <- emailDb,
    redis <- emailRedis, req <- emailReq, worker <- emailWorker, consumed <- emailConsumed,
    acked <- emailAcked, mail <- emailMail

Resetting == INSTANCE AccountEmail WITH
    Keys <- Keys, Passwords <- {"w1"}, EmailPolicy <- "disabled", AccessTTL <- 1, IdleTTL <-
    3, AbsoluteTTL <- 4, ChallengeTTL <- 1, GraceTTL <- 2, MaxTime <- 1, MaxSessions <- 2,
    MaxTokens <- 3, MaxChallenges <- 1, EmailTTL <- 2, ResetTTL <- 1, GrantTTL <- 2,
    MaxDeliveries <- 2, Workers <- {"c1"}, Emails <- {1}, now <- emailNow, db <- emailDb,
    redis <- emailRedis, req <- emailReq, worker <- emailWorker, consumed <- emailConsumed,
    acked <- emailAcked, mail <- emailMail

Resolving == INSTANCE AccountEmail WITH
    Keys <- {"k1"}, Passwords <- {"w1"}, EmailPolicy <- "required", AccessTTL <- 1, IdleTTL
    <- 3, AbsoluteTTL <- 4, ChallengeTTL <- 1, GraceTTL <- 2, MaxTime <- 2, MaxSessions <-
    1, MaxTokens <- 3, MaxChallenges <- 1, EmailTTL <- 2, ResetTTL <- 1, GrantTTL <- 2,
    MaxDeliveries <- 2, Workers <- {"c1"}, Emails <- {1}, now <- emailNow, db <- emailDb,
    redis <- emailRedis, req <- emailReq, worker <- emailWorker, consumed <- emailConsumed,
    acked <- emailAcked, mail <- emailMail

Totp == INSTANCE StrongAuth WITH
    Keys <- Keys \cup {"k3"}, Passwords <- {"w1"}, EmailPolicy <- "grace", AccessTTL <- 2,
    IdleTTL <- 3, AbsoluteTTL <- 4, ChallengeTTL <- 1, GraceTTL <- 2, MaxTime <- 2,
    MaxSessions <- 1, MaxTokens <- 2, MaxChallenges <- 1, CodeCount <- 2, MaxSecrets <- 2,
    MaxGenerations <- 1, Requests <- {}, Credentials <- {}, Counters <- {}, MaxPasskeys <-
    0, MaxCeremonies <- 0, Lossy <- FALSE, Kinds <- {}, Held <- {}, now <- factorNow, db <-
    factorDb, redis <- factorRedis, req <- factorReq

Codes == INSTANCE StrongAuth WITH
    Keys <- Keys \cup {"k3"}, Passwords <- {"w1"}, EmailPolicy <- "grace", AccessTTL <- 2,
    IdleTTL <- 3, AbsoluteTTL <- 4, ChallengeTTL <- 1, GraceTTL <- 2, MaxTime <- 2,
    MaxSessions <- 4, MaxTokens <- 4, MaxChallenges <- 1, CodeCount <- 3, MaxSecrets <- 0,
    MaxGenerations <- 2, Requests <- {}, Credentials <- {}, Counters <- {}, MaxPasskeys <-
    0, MaxCeremonies <- 0, Lossy <- FALSE, Kinds <- {}, Held <- {}, now <- factorNow, db <-
    factorDb, redis <- factorRedis, req <- factorReq

Register == INSTANCE StrongAuth WITH
    Keys <- Keys, Passwords <- {"w1"}, EmailPolicy <- "grace", AccessTTL <- 1, IdleTTL <- 3,
    AbsoluteTTL <- 4, ChallengeTTL <- 1, GraceTTL <- 2, MaxTime <- 2, MaxSessions <- 3,
    MaxTokens <- 3, MaxChallenges <- 1, CodeCount <- 0, MaxSecrets <- 0, MaxGenerations <-
    0, Requests <- Requests, Credentials <- {"p1", "p2"}, Counters <- {0}, MaxPasskeys <- 1,
    MaxCeremonies <- 2, Lossy <- TRUE, Kinds <- {"registration"}, Held <- {}, now <-
    passkeyNow, db <- passkeyDb, redis <- passkeyRedis, req <- passkeyReq

Login == INSTANCE StrongAuth WITH
    Keys <- Keys, Passwords <- {"w1"}, EmailPolicy <- "grace", AccessTTL <- 2, IdleTTL <- 3,
    AbsoluteTTL <- 4, ChallengeTTL <- 1, GraceTTL <- 2, MaxTime <- 1, MaxSessions <- 3,
    MaxTokens <- 3, MaxChallenges <- 1, CodeCount <- 0, MaxSecrets <- 0, MaxGenerations <-
    0, Requests <- Requests, Credentials <- {"p1"}, Counters <- {0, 1}, MaxPasskeys <- 1,
    MaxCeremonies <- 2, Lossy <- FALSE, Kinds <- {"authentication"}, Held <- {"p1"}, now <-
    passkeyNow, db <- passkeyDb, redis <- passkeyRedis, req <- passkeyReq

Ceremony == INSTANCE StrongAuth WITH
    Keys <- Keys, Passwords <- {"w1"}, EmailPolicy <- "grace", AccessTTL <- 2, IdleTTL <- 3,
    AbsoluteTTL <- 4, ChallengeTTL <- 1, GraceTTL <- 2, MaxTime <- 1, MaxSessions <- 3,
    MaxTokens <- 3, MaxChallenges <- 1, CodeCount <- 0, MaxSecrets <- 0, MaxGenerations <-
    0, Requests <- {"r1"}, Credentials <- {"p1", "p2"}, Counters <- {0}, MaxPasskeys <- 2,
    MaxCeremonies <- 2, Lossy <- TRUE, Kinds <- {"registration", "authentication"}, Held <-
    {"p1"}, now <- passkeyNow, db <- passkeyDb, redis <- passkeyRedis, req <- passkeyReq

Enroll == INSTANCE DeviceAuth WITH
    Keys <- Keys, Passwords <- {1}, EmailPolicy <- "grace", AccessTTL <- 4, IdleTTL <- 4,
    AbsoluteTTL <- 6, ChallengeTTL <- 2, GraceTTL <- 6, MaxTime <- 1, MaxSessions <- 2,
    MaxTokens <- 2, MaxChallenges <- 2, EmailTTL <- 10, ResetTTL <- 2, GrantTTL <- 4,
    MaxDeliveries <- 0, Requests <- Requests, DeviceKeys <- {1}, MaxDevices <- 2, Second <-
    1, Account <- 1, Email <- 1, Password <- 1, AccountState <- "active", Enrolled <- FALSE,
    Operations <- {"enroll", "revoke_sessions"}, MaxGrants <- 2, EmailToken <- 1, now <-
    deviceNow, db <- deviceDb, redis <- deviceRedis, req <- deviceReq

Rotate == INSTANCE DeviceAuth WITH
    Keys <- Keys, Passwords <- {1}, EmailPolicy <- "grace", AccessTTL <- 2, IdleTTL <- 4,
    AbsoluteTTL <- 6, ChallengeTTL <- 2, GraceTTL <- 6, MaxTime <- 3, MaxSessions <- 1,
    MaxTokens <- 3, MaxChallenges <- 2, EmailTTL <- 10, ResetTTL <- 2, GrantTTL <- 4,
    MaxDeliveries <- 0, Requests <- Requests, DeviceKeys <- {1}, MaxDevices <- 1, Second <-
    1, Account <- 1, Email <- 1, Password <- 1, AccountState <- "active", Enrolled <- TRUE,
    Operations <- {"rotate", "revoke_device"}, MaxGrants <- 1, EmailToken <- 1, now <-
    deviceNow, db <- deviceDb, redis <- deviceRedis, req <- deviceReq

Expire == INSTANCE DeviceAuth WITH
    Keys <- Keys, Passwords <- {1}, EmailPolicy <- "grace", AccessTTL <- 2, IdleTTL <- 4,
    AbsoluteTTL <- 6, ChallengeTTL <- 4, GraceTTL <- 3, MaxTime <- 6, MaxSessions <- 1,
    MaxTokens <- 2, MaxChallenges <- 2, EmailTTL <- 10, ResetTTL <- 2, GrantTTL <- 4,
    MaxDeliveries <- 0, Requests <- {"r1"}, DeviceKeys <- {1, 2}, MaxDevices <- 2, Second <-
    1, Account <- 1, Email <- 1, Password <- 1, AccountState <- "pending_email", Enrolled <-
    FALSE, Operations <- {"verify", "enroll", "rotate"}, MaxGrants <- 2, EmailToken <- 1,
    now <- deviceNow, db <- deviceDb, redis <- deviceRedis, req <- deviceReq

-----------------------------------------------------------------------------
ScenarioInit ==
    /\ scenario \in Scenarios
    /\ CASE scenario = "rotation" -> Rotating!Init
         [] scenario = "grace" -> Grace!Init
         [] scenario = "password" -> Changing!Init
         [] scenario = "revocation" -> Revoking!Init
         [] OTHER -> /\ sessionNow = 0 /\ sessionDb = 0 /\ sessionRedis = 0 /\ sessionReq = 0
    /\ CASE scenario = "delivery" -> Delivering!Init
         [] scenario = "trial" -> Pending!Init
         [] scenario = "reset" -> Resetting!Init
         [] scenario = "resolve" -> Resolving!Init
         [] OTHER -> /\ emailNow = 0 /\ emailDb = 0 /\ emailRedis = 0 /\ emailReq = 0
                     /\ emailWorker = 0 /\ emailConsumed = 0 /\ emailAcked = 0 /\ emailMail = 0
    /\ CASE scenario = "totp" -> Totp!FactorInit
         [] scenario = "codes" -> Codes!FactorInit
         [] OTHER -> /\ factorNow = 0 /\ factorDb = 0 /\ factorRedis = 0 /\ factorReq = 0
    /\ CASE scenario = "register" -> Register!PasskeyInit
         [] scenario = "login" -> Login!PasskeyInit
         [] scenario = "ceremony" -> Ceremony!PasskeyInit
         [] OTHER -> /\ passkeyNow = 0 /\ passkeyDb = 0 /\ passkeyRedis = 0 /\ passkeyReq = 0
    /\ CASE scenario = "enroll" -> Enroll!Init
         [] scenario = "rotate" -> Rotate!Init
         [] scenario = "expire" -> Expire!Init
         [] OTHER -> /\ deviceNow = 0 /\ deviceDb = 0 /\ deviceRedis = 0 /\ deviceReq = 0
    /\ IF scenario = "locks" THEN Init
       ELSE Init

ScenarioNext ==
    /\ UNCHANGED scenario
    /\ \/ scenario = "rotation" /\ Rotating!Next /\ RotationBound
          /\ UNCHANGED <<emailVars, factorVars, passkeyVars, deviceVars, vars>>
       \/ scenario = "grace" /\ Grace!Next
          /\ UNCHANGED <<emailVars, factorVars, passkeyVars, deviceVars, vars>>
       \/ scenario = "password" /\ Changing!Next
          /\ UNCHANGED <<emailVars, factorVars, passkeyVars, deviceVars, vars>>
       \/ scenario = "revocation" /\ Revoking!Next
          /\ UNCHANGED <<emailVars, factorVars, passkeyVars, deviceVars, vars>>
       \/ scenario = "delivery" /\ Delivering!Next
          /\ UNCHANGED <<sessionVars, factorVars, passkeyVars, deviceVars, vars>>
       \/ scenario = "trial" /\ Pending!Next
          /\ UNCHANGED <<sessionVars, factorVars, passkeyVars, deviceVars, vars>>
       \/ scenario = "reset" /\ Resetting!Next
          /\ UNCHANGED <<sessionVars, factorVars, passkeyVars, deviceVars, vars>>
       \/ scenario = "resolve" /\ Resolving!Next
          /\ UNCHANGED <<sessionVars, factorVars, passkeyVars, deviceVars, vars>>
       \/ scenario = "totp" /\ Totp!FactorNext
          /\ UNCHANGED <<sessionVars, emailVars, passkeyVars, deviceVars, vars>>
       \/ scenario = "codes" /\ Codes!FactorNext
          /\ UNCHANGED <<sessionVars, emailVars, passkeyVars, deviceVars, vars>>
       \/ scenario = "register" /\ Register!PasskeyNext
          /\ UNCHANGED <<sessionVars, emailVars, factorVars, deviceVars, vars>>
       \/ scenario = "login" /\ Login!PasskeyNext
          /\ UNCHANGED <<sessionVars, emailVars, factorVars, deviceVars, vars>>
       \/ scenario = "ceremony" /\ Ceremony!PasskeyNext
          /\ UNCHANGED <<sessionVars, emailVars, factorVars, deviceVars, vars>>
       \/ scenario = "enroll" /\ Enroll!Next
          /\ UNCHANGED <<sessionVars, emailVars, factorVars, passkeyVars, vars>>
       \/ scenario = "rotate" /\ Rotate!Next
          /\ UNCHANGED <<sessionVars, emailVars, factorVars, passkeyVars, vars>>
       \/ scenario = "expire" /\ Expire!Next
          /\ UNCHANGED <<sessionVars, emailVars, factorVars, passkeyVars, vars>>
       \/ scenario = "locks" /\ Next
          /\ UNCHANGED <<sessionVars, emailVars, factorVars, passkeyVars, deviceVars>>

scenarioVars == <<scenario, sessionVars, emailVars, factorVars, passkeyVars, deviceVars, vars>>

ScenarioSpec == ScenarioInit /\ [][ScenarioNext]_scenarioVars

-----------------------------------------------------------------------------
(* The refresh tokens of a session form one chain: each but the first was  *)
(* issued for a token of the session that is spent, no two for the same    *)
(* one, and at most one can still be used. Two rotations of one token that *)
(* overlap never both succeed (RotateSession, final transaction).          *)
RefreshChain ==
    /\ scenario = "rotation" => Rotating!RefreshChain
    /\ scenario = "grace" => Grace!RefreshChain
    /\ scenario = "password" => Changing!RefreshChain
    /\ scenario = "revocation" => Revoking!RefreshChain

(* A session is compromised only when one of its tokens was presented      *)
(* under two keys and used by one of them: repeating a request, however    *)
(* its attempts overlap, never costs the session (compromiseUsedRefresh).  *)
CompromiseHasTwoUses ==
    /\ scenario = "rotation" => Rotating!CompromiseHasTwoUses
    /\ scenario = "grace" => Grace!CompromiseHasTwoUses
    /\ scenario = "password" => Changing!CompromiseHasTwoUses
    /\ scenario = "revocation" => Revoking!CompromiseHasTwoUses

(* Every rotation took a challenge out of Redis that was issued for the    *)
(* very token it spent, and no later request can take it again.            *)
RotationSpentItsChallenge ==
    /\ scenario = "rotation" => Rotating!RotationSpentItsChallenge
    /\ scenario = "grace" => Grace!RotationSpentItsChallenge
    /\ scenario = "password" => Changing!RotationSpentItsChallenge
    /\ scenario = "revocation" => Revoking!RotationSpentItsChallenge

(* A session that was revoked or compromised has no usable refresh token:  *)
(* a rotation that began before cannot leave one behind.                   *)
DeadSessionsStayDead ==
    /\ scenario = "rotation" => Rotating!DeadSessionsStayDead
    /\ scenario = "grace" => Grace!DeadSessionsStayDead
    /\ scenario = "password" => Changing!DeadSessionsStayDead
    /\ scenario = "revocation" => Revoking!DeadSessionsStayDead

(* While the account is in its grace nothing it was issued outlives the    *)
(* grace, through any number of rotations (accountAuthorityDeadline).      *)
GraceBoundsSessions == scenario = "grace" => Grace!GraceBoundsSessions

(* A chain goes on only from a token that is usable when the rotation      *)
(* commits, in a session that is active then, whatever the request found   *)
(* when it began (RotateSession, final transaction).                       *)
OnlyActiveRotates ==
    [][/\ scenario = "rotation" => Rotating!OnlyActiveRotatesStep
       /\ scenario = "grace" => Grace!OnlyActiveRotatesStep
       /\ scenario = "password" => Changing!OnlyActiveRotatesStep
       /\ scenario = "revocation" => Revoking!OnlyActiveRotatesStep]_sessionVars

(* The state of a session only moves away from active, and what is revoked *)
(* or compromised stays so.                                                *)
NothingRevives ==
    [][/\ scenario = "rotation" => Rotating!NothingRevivesStep
       /\ scenario = "grace" => Grace!NothingRevivesStep
       /\ scenario = "password" => Changing!NothingRevivesStep
       /\ scenario = "revocation" => Revoking!NothingRevivesStep]_sessionVars

(* Changing the password leaves one active session, the one it opened: a   *)
(* session opened with the old password is put under review.               *)
ChangeLeavesOneActive ==
    [][/\ scenario = "rotation" => Rotating!ChangeLeavesOneActiveStep
       /\ scenario = "grace" => Grace!ChangeLeavesOneActiveStep
       /\ scenario = "password" => Changing!ChangeLeavesOneActiveStep
       /\ scenario = "revocation" => Revoking!ChangeLeavesOneActiveStep]_sessionVars

(* An event is recorded as consumed only when the provider has accepted    *)
(* the delivery, and acknowledged only when it is recorded: no crash or    *)
(* lost answer between the three loses a delivery.                         *)
ConsumedWasMailed ==
    /\ scenario = "delivery" => Delivering!ConsumedWasMailed
    /\ scenario = "trial" => Pending!ConsumedWasMailed
    /\ scenario = "reset" => Resetting!ConsumedWasMailed

(* The token that would be accepted now is never lost: until the provider  *)
(* has accepted its delivery, the delivery is still pending and its event  *)
(* still comes again. A worker late with an older delivery cannot clear    *)
(* the new one (ClearPending by delivery id).                              *)
CurrentTokenIsDeliverable ==
    /\ scenario = "delivery" => Delivering!CurrentTokenIsDeliverable
    /\ scenario = "trial" => Pending!CurrentTokenIsDeliverable
    /\ scenario = "reset" => Resetting!CurrentTokenIsDeliverable

(* A reset token changes the password once, whatever keys it comes with.   *)
ResetTokenUsedOnce ==
    /\ scenario = "delivery" => Delivering!ResetTokenUsedOnce
    /\ scenario = "trial" => Pending!ResetTokenUsedOnce
    /\ scenario = "reset" => Resetting!ResetTokenUsedOnce

(* What an account obtains while it is pending ends with its grace: its    *)
(* sessions, and the grants it passes on to devices. An account that may   *)
(* not act before it is verified obtains nothing.                          *)
PendingObtainsOnlyGrace ==
    /\ scenario = "delivery" => Delivering!PendingObtainsOnlyGrace
    /\ scenario = "trial" => Pending!PendingObtainsOnlyGrace
    /\ scenario = "reset" => Resetting!PendingObtainsOnlyGrace

(* The password under which an active session was opened is the current    *)
(* one: a session left from before a reset is under review.                *)
ResetLeavesOneActive ==
    [][/\ scenario = "delivery" => Delivering!ResetLeavesOneActiveStep
       /\ scenario = "trial" => Pending!ResetLeavesOneActiveStep
       /\ scenario = "reset" => Resetting!ResetLeavesOneActiveStep]_emailVars

(* The factor in force is proven: its own secret was shown in a code, and  *)
(* not the one of an enrollment that was revoked before it (totp.go,       *)
(* VerifyTOTPEnrollment).                                                  *)
ActiveFactorWasProven ==
    /\ scenario = "totp" => Totp!ActiveFactorWasProven
    /\ scenario = "codes" => Codes!ActiveFactorWasProven

(* Only the newest recovery set can be in force.                           *)
NewestRecoverySetOnly ==
    /\ scenario = "totp" => Totp!NewestRecoverySetOnly
    /\ scenario = "codes" => Codes!NewestRecoverySetOnly

(* Every code of a set is either unused or has opened one session, under   *)
(* any number of keys and retries: none is lost, none opens two.           *)
RecoveryCodesAddUp ==
    /\ scenario = "totp" => Totp!RecoveryCodesAddUp
    /\ scenario = "codes" => Codes!RecoveryCodesAddUp

(* The account never has more active passkeys than the limit, however many *)
(* registrations passed the first count together.                          *)
PasskeyLimitHolds ==
    /\ scenario = "register" => Register!PasskeyLimitHolds
    /\ scenario = "login" => Login!PasskeyLimitHolds
    /\ scenario = "ceremony" => Ceremony!PasskeyLimitHolds

(* One ceremony registers one passkey or opens one session, under any      *)
(* number of keys, retries and copies of the response.                     *)
CeremonyServesOnce ==
    /\ scenario = "register" => Register!CeremonyServesOnce
    /\ scenario = "login" => Login!CeremonyServesOnce
    /\ scenario = "ceremony" => Ceremony!CeremonyServesOnce

(* The ceremony of recorded registration options is removed by nobody but  *)
(* its use or its expiry: not by the request that lost the race for the    *)
(* key, nor by one that did not learn that its commit succeeded.           *)
RecordedOptionsKeepCeremony ==
    /\ scenario = "register" => Register!RecordedOptionsKeepCeremony
    /\ scenario = "login" => Login!RecordedOptionsKeepCeremony
    /\ scenario = "ceremony" => Ceremony!RecordedOptionsKeepCeremony

(* A passkey is added only while the session that proved the password is   *)
(* alive, although the proof came before the ceremony was consumed.        *)
AddedUnderLiveSession ==
    [][/\ scenario = "register" => Register!AddedUnderLiveSessionStep
       /\ scenario = "login" => Login!AddedUnderLiveSessionStep
       /\ scenario = "ceremony" => Ceremony!AddedUnderLiveSessionStep]_passkeyVars

(* A passkey that is revoked opens no session, even for the request that   *)
(* found it active before.                                                 *)
RevokedOpensNothing ==
    [][/\ scenario = "register" => Register!RevokedOpensNothingStep
       /\ scenario = "login" => Login!RevokedOpensNothingStep
       /\ scenario = "ceremony" => Ceremony!RevokedOpensNothingStep]_passkeyVars

(* Each session opened with a counting authenticator has a higher counter  *)
(* than every one before it, also when two requests saw the same row.      *)
CounterGrows ==
    [][/\ scenario = "register" => Register!CounterGrowsStep
       /\ scenario = "login" => Login!CounterGrowsStep
       /\ scenario = "ceremony" => Ceremony!CounterGrowsStep]_passkeyVars

(* A grant enrolls one device, whole or not at all: a used grant names a   *)
(* device that no other grant names, with its authorization, policy, token *)
(* family, first token and event, and the session of the grant is bound to *)
(* it; and every device comes from a grant. Two registrations on one grant *)
(* that overlap never both commit (RegisterDevice).                        *)
EnrollmentIsWhole ==
    /\ scenario = "enroll" => Enroll!EnrollmentIsWhole
    /\ scenario = "rotate" => Rotate!EnrollmentIsWhole
    /\ scenario = "expire" => Expire!EnrollmentIsWhole

(* A challenge answers for one proof: no two requests have it at a time,   *)
(* and it is gone from Redis while one has it (Consume).                   *)
ChallengeTakenOnce ==
    /\ scenario = "enroll" => Enroll!ChallengeTakenOnce
    /\ scenario = "rotate" => Rotate!ChallengeTakenOnce
    /\ scenario = "expire" => Expire!ChallengeTakenOnce

(* The stored answer of a rotation can be decoded again: the access token  *)
(* ends before the idle expiry and that before the absolute one, at every  *)
(* distance from the end of the family (tokensFromReplayRecord).           *)
AnswersDecode ==
    /\ scenario = "enroll" => Enroll!AnswersDecode
    /\ scenario = "rotate" => Rotate!AnswersDecode
    /\ scenario = "expire" => Expire!AnswersDecode

(* The tokens of a family form one chain, of which at most the last one is *)
(* active, and each rotation that answered 200 spent a token of its own.   *)
DeviceRefreshChain ==
    /\ scenario = "enroll" => Enroll!DeviceRefreshChain
    /\ scenario = "rotate" => Rotate!DeviceRefreshChain
    /\ scenario = "expire" => Expire!DeviceRefreshChain

(* A revoked device is cut off at once: none of its refresh tokens is      *)
(* active, none of its access tokens is honoured, and no session bound to  *)
(* it is active (RevokeDevice).                                            *)
RevokedDeviceIsDead ==
    /\ scenario = "enroll" => Enroll!RevokedDeviceIsDead
    /\ scenario = "rotate" => Rotate!RevokedDeviceIsDead
    /\ scenario = "expire" => Expire!RevokedDeviceIsDead

(* What a pending account lends to a device ends with its grace: a bundle  *)
(* is authorised only before the deadline, under the restricted policy,    *)
(* and for one device.                                                     *)
TrialEndsWithGrace ==
    /\ scenario = "enroll" => Enroll!TrialEndsWithGrace
    /\ scenario = "rotate" => Rotate!TrialEndsWithGrace
    /\ scenario = "expire" => Expire!TrialEndsWithGrace

(* The expiries handed out under a trial do not pass its end, wherever the *)
(* clock stood when they were made: of access tokens while the             *)
(* authorization is provisional, and of the challenges asked for then.     *)
TrialExpiriesAreCapped ==
    /\ scenario = "enroll" => Enroll!TrialExpiriesAreCapped
    /\ scenario = "rotate" => Rotate!TrialExpiriesAreCapped
    /\ scenario = "expire" => Expire!TrialExpiriesAreCapped

(* A family is compromised only when one of its tokens was shown under two *)
(* keys, one of which has rotated it: a request that is sent again after a *)
(* lost answer, or that lost the race for its challenge, does not cost the *)
(* device its tokens. From then on it has no active token.                 *)
DeviceCompromiseHasTwoUses ==
    /\ scenario = "enroll" => Enroll!CompromiseHasTwoUses
    /\ scenario = "rotate" => Rotate!CompromiseHasTwoUses
    /\ scenario = "expire" => Expire!CompromiseHasTwoUses

(* A rotation commits only on the graph its proof was checked on, still in *)
(* force: no revocation, replay, verification or other rotation has come   *)
(* between (RotateDeviceToken, last transaction).                          *)
OnlyLiveRotates ==
    [][/\ scenario = "enroll" => Enroll!OnlyLiveRotatesStep
       /\ scenario = "rotate" => Rotate!OnlyLiveRotatesStep
       /\ scenario = "expire" => Expire!OnlyLiveRotatesStep]_deviceVars

(* A trial that has run out stays so: verifying the address afterwards     *)
(* makes the account active and leaves the device where it was             *)
(* (ActivateProvisionalAuthorization).                                     *)
EndedTrialStaysEnded ==
    [][/\ scenario = "enroll" => Enroll!EndedTrialStaysEndedStep
       /\ scenario = "rotate" => Rotate!EndedTrialStaysEndedStep
       /\ scenario = "expire" => Expire!EndedTrialStaysEndedStep]_deviceVars

(* The deliveries under the fairness AccountEmail states, that of the      *)
(* stream included.                                                        *)
EmailLiveSpec == ScenarioSpec /\ Resolving!Fairness /\ Resolving!StreamIsFair

(* Over a fair stream every delivery is mailed in the end, unless it was   *)
(* replaced or used, or expired first.                                     *)
DeliveriesResolve == Resolving!DeliveriesResolve

(* However rotations, password changes and revocations race, a session has *)
(* one usable token, dead sessions stay dead, and only two uses of a token *)
(* compromise one.                                                         *)
SessionsAreSafe ==
    /\ [](/\ RefreshChain
          /\ CompromiseHasTwoUses
          /\ RotationSpentItsChallenge
          /\ DeadSessionsStayDead
          /\ GraceBoundsSessions)
    /\ OnlyActiveRotates
    /\ NothingRevives
    /\ ChangeLeavesOneActive

(* Whatever consumers race, a token is consumed only after it was mailed   *)
(* and at most once, the current one stays deliverable, and a reset leaves *)
(* one session.                                                            *)
DeliveriesAreSafe ==
    /\ [](/\ ConsumedWasMailed
          /\ CurrentTokenIsDeliverable
          /\ ResetTokenUsedOnce
          /\ PendingObtainsOnlyGrace)
    /\ ResetLeavesOneActive

(* However enrolments, uses and revocations race, a factor opens a session *)
(* only if it was proven and is not revoked, and each code and ceremony    *)
(* serves once.                                                            *)
FactorsAreSafe ==
    /\ [](/\ ActiveFactorWasProven
          /\ NewestRecoverySetOnly
          /\ RecoveryCodesAddUp
          /\ PasskeyLimitHolds
          /\ CeremonyServesOnce
          /\ RecordedOptionsKeepCeremony)
    /\ AddedUnderLiveSession
    /\ RevokedOpensNothing
    /\ CounterGrows

(* However enrolments, rotations, expiry and revocations race, a device is *)
(* enrolled whole, has one usable token, and stays dead or out of its      *)
(* trial once it is.                                                       *)
DevicesAreSafe ==
    /\ [](/\ EnrollmentIsWhole
          /\ ChallengeTakenOnce
          /\ AnswersDecode
          /\ DeviceRefreshChain
          /\ RevokedDeviceIsDead
          /\ TrialEndsWithGrace
          /\ TrialExpiriesAreCapped
          /\ DeviceCompromiseHasTwoUses)
    /\ OnlyLiveRotates
    /\ EndedTrialStaysEnded
=============================================================================
