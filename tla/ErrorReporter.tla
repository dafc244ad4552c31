---------------------------- MODULE ErrorReporter ----------------------------
(***************************************************************************)
(* The asynchronous error reporter: requests put reports into a bounded    *)
(* queue without waiting, one worker takes them out in batches and hands   *)
(* each batch to a provider, and Close stops the intake, lets the worker   *)
(* drain the queue until a deadline and then drops the rest.  Senders hold *)
(* a read lock while they look at `accepting` and send; Close takes the    *)
(* write lock to clear it and to close the queue, on which a send panics.  *)
(***************************************************************************)
EXTENDS Integers, Sequences, FiniteSets

CONSTANTS Reports, InvalidReports, Capacity, BatchMax, Closers, ImpatientClosers

VARIABLES
    queue, open, accepting,
    readers,    \* reports whose sender holds the read lock
    called,     \* reports whose TryReport has begun
    answered,   \* what TryReport returned
    recorded,   \* what the observer was told, in order
    worker, batch, queueClosed, cancelled,
    closer, once, deadline, panicked
vars == <<queue, open, accepting, readers, called, answered, recorded, worker, batch, queueClosed, cancelled, closer, once, deadline, panicked>>

NoAnswer == "none"
Init ==
    /\ queue = <<>> /\ open = TRUE /\ accepting = TRUE /\ readers = {} /\ called = {}
    /\ answered = [r \in Reports |-> NoAnswer] /\ recorded = <<>>
    /\ worker = "receive" /\ batch = <<>> /\ queueClosed = FALSE /\ cancelled = FALSE
    /\ closer = [c \in Closers |-> "idle"] /\ once = "unused" /\ deadline = FALSE /\ panicked = FALSE

validReport(r) == r \notin InvalidReports
record(rs, result) == recorded' = recorded \o [i \in DOMAIN rs |-> [report |-> rs[i], result |-> result]]
OfWorker == <<worker, batch, queueClosed>>
OfClose == <<closer, once, deadline>>

(***************************************************************************)
(* TryReport.                                                              *)
(***************************************************************************)
Refuse(r) ==
    /\ answered' = [answered EXCEPT ![r] = "refused"]
    /\ UNCHANGED <<queue, open, accepting, recorded, cancelled, panicked, OfWorker, OfClose>>
Check(r) ==
    /\ r \notin called /\ called' = called \cup {r}
    /\ \/ ~validReport(r) /\ Refuse(r) /\ UNCHANGED readers
       \/ /\ validReport(r) /\ once # "locked"
          /\ \/ ~accepting /\ Refuse(r) /\ UNCHANGED readers
             \/ /\ accepting /\ readers' = readers \cup {r}
                /\ UNCHANGED <<queue, open, accepting, answered, recorded, cancelled, panicked, OfWorker, OfClose>>
Send(r) ==
    /\ r \in readers /\ readers' = readers \ {r}
    /\ \/ /\ ~open /\ panicked' = TRUE /\ UNCHANGED <<queue, answered, recorded>>
       \/ /\ open /\ Len(queue) < Capacity /\ queue' = Append(queue, r)
          /\ answered' = [answered EXCEPT ![r] = "accepted"] /\ UNCHANGED <<recorded, panicked>>
       \/ /\ open /\ Len(queue) = Capacity /\ record(<<r>>, "dropped")
          /\ answered' = [answered EXCEPT ![r] = "refused"] /\ UNCHANGED <<queue, panicked>>
    /\ UNCHANGED <<open, accepting, called, cancelled, OfWorker, OfClose>>
TryReport(r) == Check(r) \/ Send(r)

(***************************************************************************)
(* The worker.                                                             *)
(***************************************************************************)
OfSenders == <<open, accepting, readers, called, answered>>
Receive ==
    /\ worker = "receive"
    /\ \/ /\ queue # <<>> /\ batch' = <<queue[1]>> /\ queue' = Tail(queue) /\ queueClosed' = FALSE
          /\ worker' = IF BatchMax = 1 THEN "deliver" ELSE "gather"
          /\ UNCHANGED cancelled
       \/ /\ queue = <<>> /\ ~open /\ worker' = "done" /\ cancelled' = TRUE
          /\ UNCHANGED <<queue, batch, queueClosed>>
    /\ UNCHANGED <<recorded, panicked, OfSenders, OfClose>>

\* One turn of the inner loop: take a report, see the closed queue or nothing,
\* and go on unless the queue is closed, the batch full or the queue empty.
Gather ==
    /\ worker = "gather"
    /\ \/ queue # <<>> /\ batch' = Append(batch, queue[1]) /\ queue' = Tail(queue) /\ UNCHANGED queueClosed
       \/ queue = <<>> /\ queueClosed' = ~open /\ UNCHANGED <<batch, queue>>
    /\ worker' = IF queueClosed' \/ Len(batch') = BatchMax \/ queue' = <<>> THEN "deliver" ELSE "gather"
    /\ UNCHANGED <<cancelled, recorded, panicked, OfSenders, OfClose>>

Delivered == worker' = IF queueClosed THEN "done" ELSE "receive"
Deliver ==
    /\ worker = "deliver"
    /\ IF cancelled THEN record(batch, "dropped") /\ Delivered ELSE worker' = "sending" /\ UNCHANGED recorded
    /\ UNCHANGED <<queue, batch, queueClosed, cancelled, panicked, OfSenders, OfClose>>
ProviderAnswers ==
    /\ worker = "sending"
    /\ \/ record(batch, "sent")
       \/ record(batch, IF cancelled THEN "dropped" ELSE "provider_failed")
    /\ Delivered
    /\ UNCHANGED <<queue, batch, queueClosed, cancelled, panicked, OfSenders, OfClose>>

(***************************************************************************)
(* Close.  An impatient closer has no context: it cancels at once.         *)
(***************************************************************************)
CloseWaitingForReaders(c) ==
    /\ closer[c] = "idle" /\ once = "unused" /\ once' = "locked"
    /\ closer' = [closer EXCEPT ![c] = "closing"]
    /\ UNCHANGED <<queue, recorded, cancelled, deadline, panicked, OfWorker, OfSenders>>
\* Senders that saw the reporter accepting are not waited for.
CloseQueueUnlocked(c) ==
    /\ closer[c] = "closing"
    /\ accepting' = FALSE /\ open' = FALSE /\ once' = "used"
    /\ closer' = [closer EXCEPT ![c] = "waiting"]
    /\ UNCHANGED <<queue, readers, called, answered, recorded, cancelled, deadline, panicked, OfWorker>>
CloseQueue(c) ==
    /\ closer[c] = "closing" /\ readers = {}
    /\ accepting' = FALSE /\ open' = FALSE /\ once' = "used"
    /\ closer' = [closer EXCEPT ![c] = "waiting"]
    /\ UNCHANGED <<queue, readers, called, answered, recorded, cancelled, deadline, panicked, OfWorker>>
CloseAgain(c) ==
    /\ closer[c] = "idle" /\ once = "used"
    /\ closer' = [closer EXCEPT ![c] = "waiting"]
    /\ UNCHANGED <<queue, recorded, cancelled, once, deadline, panicked, OfWorker, OfSenders>>
CloseDone(c) ==
    /\ closer[c] \in {"waiting", "forced"} /\ worker = "done"
    /\ c \in ImpatientClosers => cancelled
    /\ closer' = [closer EXCEPT ![c] = "returned"]
    /\ UNCHANGED <<queue, recorded, cancelled, once, deadline, panicked, OfWorker, OfSenders>>
CloseCancels(c) ==
    /\ closer[c] = "waiting" /\ (c \in ImpatientClosers \/ deadline) /\ cancelled' = TRUE
    /\ closer' = [closer EXCEPT ![c] = IF c \in ImpatientClosers THEN "waiting" ELSE "forced"]
    /\ UNCHANGED <<queue, recorded, once, deadline, panicked, OfWorker, OfSenders>>
CloseGivesUp(c) ==
    /\ closer[c] = "forced" /\ closer' = [closer EXCEPT ![c] = "returned"]
    /\ UNCHANGED <<queue, recorded, cancelled, once, deadline, panicked, OfWorker, OfSenders>>
Deadline ==
    /\ ~deadline /\ \E c \in Closers : closer[c] # "idle" /\ deadline' = TRUE
    /\ UNCHANGED <<queue, recorded, cancelled, closer, once, panicked, OfWorker, OfSenders>>

Close(c) ==
    CloseWaitingForReaders(c) \/ CloseQueue(c) \/ CloseAgain(c) \/ CloseDone(c) \/ CloseCancels(c) \/ CloseGivesUp(c)
Run == Receive \/ Gather \/ Deliver
Next == (\E r \in Reports : TryReport(r)) \/ Run \/ ProviderAnswers \/ (\E c \in Closers : Close(c)) \/ Deadline

\* Goroutines run, and time passes; the provider need not ever answer.
Spec ==
    /\ Init /\ [][Next]_vars /\ WF_vars(Run) /\ WF_vars(Deadline)
    /\ \A r \in Reports : WF_vars(Send(r))
    /\ \A c \in Closers : WF_vars(closer[c] # "idle" /\ Close(c))
SpecProviderAnswers == Spec /\ WF_vars(ProviderAnswers)

(***************************************************************************)
(* Properties.                                                             *)
(***************************************************************************)
TypeOK ==
    /\ Len(queue) <= Capacity /\ Len(batch) <= BatchMax
    /\ worker \in {"receive", "gather", "deliver", "sending", "done"}
    /\ \A i \in DOMAIN queue : queue[i] \in Reports
    /\ once \in {"unused", "locked", "used"}
RecordsOf(r) == Cardinality({i \in DOMAIN recorded : recorded[i].report = r})

\* No report is sent on the closed queue, which would end the process: Close
\* waits for the senders that saw the reporter accepting.
NeverPanics == ~panicked

\* Every report is told to the observer at most once, and an accepted one is in
\* the queue, in the worker's batch or told: none is lost or delivered twice.
AccountedOnce ==
    \A r \in Reports :
        /\ RecordsOf(r) <= 1
        /\ answered[r] = "accepted" =>
             \/ \E i \in DOMAIN queue : queue[i] = r
             \/ RecordsOf(r) = 1
             \/ worker \in {"gather", "deliver", "sending"} /\ \E i \in DOMAIN batch : batch[i] = r

\* When the worker has ended, nothing accepted is left behind: a report still
\* in the queue at the deadline is told as dropped.
NothingLeftBehind == worker = "done" => queue = <<>> /\ \A r \in Reports : answered[r] = "accepted" => RecordsOf(r) = 1

\* A closer with a deadline returns, even if the provider never answers.
CloseReturns == \A c \in Closers \ ImpatientClosers : closer[c] # "idle" ~> closer[c] = "returned"

\* If the provider answers, the worker ends after Close and every closer returns.
DrainsWhenProviderAnswers == \A c \in Closers : closer[c] # "idle" ~> (worker = "done" /\ closer[c] = "returned")
=============================================================================
