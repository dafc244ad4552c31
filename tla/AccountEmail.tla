---------------------------- MODULE AccountEmail ----------------------------
(***************************************************************************)
(* The life of an account up to its verification, with the delivery of its *)
(* email: registration, deliveries asked for again, verification, reset,   *)
(* login, enrollment grants and the intake workers.                        *)
(*                                                                         *)
(* EmailConsumer.Consume, called by the intake loop of cmd/control-api,    *)
(* looks the event up, loads the pending delivery, calls the provider and  *)
(* only then records the event and clears the delivery. A worker may stop  *)
(* or fail at every step, a message that is not acknowledged comes again,  *)
(* and acceptance by the provider cannot be undone.                        *)
(***************************************************************************)
EXTENDS AccountHandlers

CONSTANT Workers

VARIABLES
    worker,    \* what each intake worker is doing
    consumed,  \* the events recorded as consumed
    acked,     \* the events acknowledged to the stream
    mail       \* the deliveries the provider has accepted

Waiting == [pc |-> "next"]

(* The pending delivery of an event, if it is still the current one.       *)
LoadPending(event) ==
    IF event.template = VerifyEmailTemplate
    THEN {db.emails[e].expires : e \in GetPendingEmailDelivery(db.emails, event.delivery)}
    ELSE {db.credentials[c].expires :
            c \in GetPendingPasswordResetDelivery(db.credentials, event.delivery)}

ClearPending(event) ==
    [db EXCEPT
       !.emails = IF event.template = VerifyEmailTemplate
                  THEN ClearPendingEmailDelivery(@, event.delivery) ELSE @,
       !.credentials = IF event.template = ResetPasswordTemplate
                       THEN ClearPendingPasswordResetDelivery(@, event.delivery) ELSE @]

Work(w, pc) == worker' = [worker EXCEPT ![w].pc = pc]

(* The stream hands a message that is not acknowledged to a worker; the    *)
(* acknowledgement wait of one that is in work may have run out.           *)
IntakeNext(w, event) ==
    /\ worker[w] = Waiting
    /\ event \in db.outbox \ acked
    /\ worker' = [worker EXCEPT ![w] = [pc |-> "lookup", event |-> event, at |-> now]]
    /\ UNCHANGED <<now, db, redis, req, consumed, acked, mail>>

(* HasConsumed, outside a transaction: a recorded event is only            *)
(* acknowledged.  Otherwise its delivery is loaded; a delivery that was    *)
(* replaced, used or has expired is refused.                               *)
ConsumeLookup(w) ==
    /\ worker[w].pc = "lookup"
    /\ LET event == worker[w].event
       IN \/ event \in consumed /\ Work(w, "ack")
          \/ /\ event \notin consumed
             /\ \E expires \in LoadPending(event) : expires > worker[w].at
             /\ Work(w, "send")
          \/ /\ event \notin consumed
             /\ ~\E expires \in LoadPending(event) : expires > worker[w].at
             /\ Work(w, "nak")
    /\ UNCHANGED <<now, db, redis, req, consumed, acked, mail>>

(* The provider accepts the delivery, or it fails, having accepted it or   *)
(* not.                                                                    *)
ConsumeSend(w) ==
    /\ worker[w].pc = "send"
    /\ \/ mail' = mail \cup {worker[w].event} /\ Work(w, "record")
       \/ mail' = mail \cup {worker[w].event} /\ Work(w, "nak")
       \/ mail' = mail /\ Work(w, "nak")
    /\ UNCHANGED <<now, db, redis, req, consumed, acked>>

(* One transaction records the event and clears its delivery; the worker   *)
(* that finds it recorded changes nothing.                                 *)
ConsumeRecord(w) ==
    /\ worker[w].pc = "record"
    /\ LET event == worker[w].event
       IN \/ /\ event \notin consumed
             /\ consumed' = consumed \cup {event}
             /\ db' = ClearPending(event)
             /\ Work(w, "ack")
          \/ /\ event \in consumed
             /\ UNCHANGED <<db, consumed>>
             /\ Work(w, "ack")
          \/ Work(w, "nak") /\ UNCHANGED <<db, consumed>>
    /\ UNCHANGED <<now, redis, req, acked, mail>>

(* Mutant: a failed delivery is acknowledged like one that succeeded.      *)
IntakeAcknowledges(w) ==
    /\ worker[w].pc \in {"ack", "nak"}
    /\ acked' = acked \cup {worker[w].event}
    /\ worker' = [worker EXCEPT ![w] = Waiting]
    /\ UNCHANGED <<now, db, redis, req, consumed, mail>>

(* The answer to the stream; it may be lost.                               *)
IntakeAnswer(w) ==
    /\ worker[w].pc \in {"ack", "nak"}
    /\ \/ worker[w].pc = "ack" /\ acked' = acked \cup {worker[w].event}
       \/ acked' = acked
    /\ worker' = [worker EXCEPT ![w] = Waiting]
    /\ UNCHANGED <<now, db, redis, req, consumed, mail>>

(* The process stops; a worker that comes later starts over.               *)
IntakeStop(w) ==
    /\ worker[w] # Waiting
    /\ worker' = [worker EXCEPT ![w] = Waiting]
    /\ UNCHANGED <<now, db, redis, req, consumed, acked, mail>>

ConsumerStep(w) ==
    \/ ConsumeLookup(w) \/ ConsumeSend(w) \/ ConsumeRecord(w) \/ IntakeAnswer(w)

(***************************************************************************)
(* The composition, and what it keeps.                                     *)
(***************************************************************************)

CONSTANT Emails

vars == <<now, db, redis, req, worker, consumed, acked, mail>>

delivery == <<worker, consumed, acked, mail>>

Init ==
    /\ now = 1
    /\ db = EmptyDatabase
    /\ redis = <<>>
    /\ req = <<>>
    /\ worker = [w \in Workers |-> Waiting]
    /\ consumed = {}
    /\ acked = {}
    /\ mail = {}

(* A person has the tokens that were mailed to them.                       *)
MailedTokens(template) == {m.delivery : m \in {n \in mail : n.template = template}}

Request ==
    \/ \E e \in Emails, w \in Passwords, k \in Keys : RegisterAccount(e, w, k)
    \/ \E e \in Emails, k \in Keys, t \in {VerifyEmailTemplate, ResetPasswordTemplate} :
         CreateDelivery(e, t, k)
    \/ \E t \in MailedTokens(VerifyEmailTemplate), k \in Keys : VerifyEmail(t, k)
    \/ \E e \in Emails, t \in MailedTokens(ResetPasswordTemplate), w \in Passwords, k \in Keys :
         ResetPassword(e, t, w, k)
    \/ \E e \in Emails, w \in Passwords, k \in Keys : CreateSession(e, w, k)
    \/ \E s \in Rows(db.sessions), w \in Passwords, k \in Keys :
         CreateEnrollmentGrant(db.sessions[s].principal, s, w, k)

Consumer(w) == ConsumerStep(w) \/ \E event \in db.outbox : IntakeNext(w, event)

Next ==
    \/ Tick /\ UNCHANGED delivery
    \/ Request /\ UNCHANGED delivery
    \/ \E w \in Workers : Consumer(w) \/ IntakeStop(w)

Spec == Init /\ [][Next]_vars

(* The intake loop keeps running, and neither the process, the provider    *)
(* nor the database fails every time.                                      *)
Fairness ==
    \A w \in Workers :
        /\ WF_vars(ConsumerStep(w))
        /\ WF_vars(\E event \in db.outbox : IntakeNext(w, event))
        /\ \A d \in 1..MaxDeliveries :
             /\ SF_vars(ConsumeLookup(w) /\ worker[w].event.delivery = d)
             /\ SF_vars(ConsumeSend(w) /\ worker[w].event.delivery = d /\ worker'[w].pc = "record")

(* An assumption on the stream, which nothing in the intake ensures: every *)
(* message that is not acknowledged is handed out again and again.  An     *)
(* obsolete delivery is put back at once each time; a stream that always   *)
(* returned it first would starve the others.                              *)
StreamIsFair ==
    \A w \in Workers, d \in 1..MaxDeliveries, t \in {VerifyEmailTemplate, ResetPasswordTemplate} :
        SF_vars(IntakeNext(w, EmailDeliveryEvent(d, t)))

LiveSpec == Spec /\ Fairness /\ StreamIsFair

-----------------------------------------------------------------------------
TypeOK ==
    /\ now \in 1..MaxTime
    /\ \A a \in Rows(db.accounts) : db.accounts[a].state \in {"pending_email", "active"}
    /\ Rows(db.credentials) = Rows(db.accounts)
    /\ Cardinality(Rows(db.emails)) = Cardinality(Rows(db.accounts))
    /\ \A w \in Workers : worker[w].pc \in {"next", "lookup", "send", "record", "ack", "nak"}
    /\ acked \cup consumed \cup mail \subseteq db.outbox

(* An event is recorded as consumed only when the provider has accepted    *)
(* the delivery, and acknowledged only when it is recorded: no crash or    *)
(* lost answer between the three loses a delivery.                         *)
ConsumedWasMailed == acked \subseteq consumed /\ consumed \subseteq mail

(* The current token of an address or password: its event and whether it   *)
(* can still be used.                                                      *)
Current(event) ==
    IF event.template = VerifyEmailTemplate
    THEN \E e \in Rows(db.emails) :
            db.emails[e].token = event.delivery /\ ~db.emails[e].consumed
    ELSE \E c \in Rows(db.credentials) :
            db.credentials[c].reset = event.delivery /\ ~db.credentials[c].consumed

(* The token that would be accepted now is never lost: until the provider  *)
(* has accepted its delivery, the delivery is still pending and its event  *)
(* still comes again.  A worker late with an older delivery cannot clear   *)
(* the new one (ClearPending by delivery id).                              *)
CurrentTokenIsDeliverable ==
    \A event \in db.outbox : Current(event) =>
        event \in mail \/ (LoadPending(event) # {} /\ event \notin acked)

(* A reset token changes the password once, whatever keys it comes with.   *)
ResetTokenUsedOnce ==
    \A p \in Rows(db.accounts) : \A k, m \in Keys :
        LET a == RecordOf(db, p, "reset_password", k)
            b == RecordOf(db, p, "reset_password", m)
        IN a # NoRecord /\ b # NoRecord /\ a.digest[2] = b.digest[2] => k = m

(* What an account obtains while it is pending ends with its grace: its    *)
(* sessions, and the grants it passes on to devices.  An account that may  *)
(* not act before it is verified obtains nothing.                          *)
PendingObtainsOnlyGrace ==
    \A p \in Rows(db.accounts) : db.accounts[p].state = "pending_email" =>
        /\ \A s \in LockPrincipalAccountSessions(db.sessions, p) :
             EmailPolicy = "grace" /\ db.sessions[s].absolute = AccountFixedGraceDeadline(db.accounts[p])
        /\ \A g \in Rows(db.grants) : db.grants[g].principal = p =>
             /\ db.grants[g].policy = "trial_restricted"
             /\ db.grants[g].expires <= AccountFixedGraceDeadline(db.accounts[p])

ResetLeavesOneActiveStep ==
    \A p \in Rows(db.credentials) :
      (~db.credentials[p].consumed /\ db'.credentials[p].consumed) =>
         {s \in LockPrincipalAccountSessions(db'.sessions, p) : db'.sessions[s].state = "active"}
           = Rows(db'.sessions) \ Rows(db.sessions)

(* The password under which an active session was opened is the current    *)
(* one: a session left from before a reset is under review.                *)
ResetLeavesOneActive == [][ResetLeavesOneActiveStep]_vars

(* A delivery nobody waits for: replaced, used or expired.                 *)
Obsolete(event) == LoadPending(event) = {} \/ \A expires \in LoadPending(event) : expires <= now

(* Over a fair stream every delivery is mailed in the end, unless it was   *)
(* replaced or used, or expired first.                                     *)
DeliveriesResolve ==
    \A d \in 1..MaxDeliveries : \A t \in {VerifyEmailTemplate, ResetPasswordTemplate} :
        (EmailDeliveryEvent(d, t) \in db.outbox)
          ~> (EmailDeliveryEvent(d, t) \in mail \/ Obsolete(EmailDeliveryEvent(d, t)))
=============================================================================
