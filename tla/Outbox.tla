------------------------------- MODULE Outbox -------------------------------
(***************************************************************************)
(* internal/outbox: rows that business transactions append, the polling    *)
(* publishers of several processes, the broker's stream and the consumer   *)
(* that records an event and runs its handler in one transaction.          *)
(*                                                                         *)
(* Each query is one statement outside a larger transaction and is one     *)
(* step.  The answer of a query or of the broker may be lost: the caller   *)
(* then sees an error although the change was made.  A process may crash   *)
(* between any two steps.                                                  *)
(*                                                                         *)
(* Times are kept relative to now, as what is left of a lease or a delay;  *)
(* Tick lets one unit pass.  A publisher reads the clock once per batch,   *)
(* so a retry time it writes later is short by the age of its batch.       *)
(* The broker's two-minute deduplication window is not relied on: whatever *)
(* is in the stream may be delivered any number of times.                  *)
(***************************************************************************)
EXTENDS Integers, FiniteSets, FiniteSetsExt

CONSTANTS
    Publishers,   \* processes that run a publisher
    Events,       \* event identifiers: numbers in the order of occurred_at
    Registered,   \* events whose stored envelope is valid and of a known type
    ClaimLimit,   \* publisherClaimLimit
    Lease,        \* publisherLease, in ticks
    MinRetry,     \* minimumRetryDelay, in ticks
    MaxRetry,     \* maximumRetryDelay, in ticks
    MaxFaults     \* bound on the crashes and shutdowns of all processes

ASSUME OutboxAssumption ==
    /\ Events \subseteq Nat
    /\ Registered \subseteq Events
    /\ ClaimLimit \in Nat \ {0}
    /\ Lease \in Nat \ {0}
    /\ MinRetry \in Nat \ {0}
    /\ MaxRetry \in Nat /\ MinRetry <= MaxRetry
    /\ MaxFaults \in Nat

VARIABLES
    stored,     \* events with a row in transactional_outbox
    wait,       \* ticks until a row's available_at
    lease,      \* ticks until a row's claimed_until has passed; 0 when unclaimed
    attempts,   \* a row's attempts, up to the count at which the delay stays
    published,  \* rows with published_at
    stream,     \* events the broker has stored
    consumed,   \* events in consumed_event_ids
    effects,    \* how often the handler's effect on an event was committed
    pub,        \* the publisher of each process
    faults      \* crashes and shutdowns so far

rows == <<stored, wait, lease, attempts, published>>
sink == <<stream, consumed, effects>>
vars == <<rows, sink, pub, faults>>

NoPublisher == [pc |-> "off", closed |-> FALSE, batch |-> {}, current |-> 0,
                tries |-> [e \in Events |-> 0], age |-> 0]

(* The attempts from which retryBase answers maximumRetryDelay.            *)
Saturated == MaxRetry + 1

(* Past this age a batch writes retry times that have passed.              *)
MaxAge == (MaxRetry * 12 + 9) \div 10

(* retryBase doubles the minimum for every attempt after the first; at     *)
(* half the maximum or more it answers the maximum.                        *)
RetryBase(n) ==
    LET doubled[k \in 1 .. Saturated] ==
            IF k = 1 THEN MinRetry
            ELSE IF 2 * doubled[k - 1] >= MaxRetry THEN MaxRetry ELSE 2 * doubled[k - 1]
    IN doubled[IF n < 1 THEN 1 ELSE IF n > Saturated THEN Saturated ELSE n]

(* retryDelay spreads the base by a fifth either way, rounded outwards to  *)
(* whole ticks; without randomness it is the base itself.                  *)
RetryDelays(n) == ((RetryBase(n) * 8) \div 10) .. ((RetryBase(n) * 12 + 9) \div 10)

Init ==
    /\ stored = {}
    /\ wait = [e \in Events |-> 0]
    /\ lease = [e \in Events |-> 0]
    /\ attempts = [e \in Events |-> 0]
    /\ published = {}
    /\ stream = {}
    /\ consumed = {}
    /\ effects = [e \in Events |-> 0]
    /\ pub = [p \in Publishers |-> NoPublisher]
    /\ faults = 0

-----------------------------------------------------------------------------
(* The statements on transactional_outbox.                                 *)

InsertOutboxEvent(e) ==
    /\ e \notin stored
    /\ stored' = stored \cup {e}

Claimable == {e \in stored \ published : wait[e] = 0 /\ lease[e] = 0}

(* Mutant: claiming a row counts as publishing it.                         *)
ClaimMarks(batch) ==
    /\ batch = {e \in Claimable : Cardinality({f \in Claimable : f < e}) < ClaimLimit}
    /\ published' = published \cup batch
    /\ UNCHANGED <<stored, wait, lease, attempts>>

ClaimOutboxBatch(batch) ==
    /\ batch = {e \in Claimable : Cardinality({f \in Claimable : f < e}) < ClaimLimit}
    /\ lease' = [e \in Events |-> IF e \in batch THEN Lease ELSE lease[e]]
    /\ attempts' = [e \in Events |-> IF e \in batch
                                     THEN Min({attempts[e] + 1, Saturated}) ELSE attempts[e]]
    /\ UNCHANGED <<stored, wait, published>>

MarkOutboxPublished(e) ==
    /\ published' = published \cup {e}
    /\ lease' = IF e \in published THEN lease ELSE [lease EXCEPT ![e] = 0]
    /\ UNCHANGED <<stored, wait, attempts>>

ReleaseOutboxClaim(e, delay) ==
    /\ lease' = IF e \in published THEN lease ELSE [lease EXCEPT ![e] = 0]
    /\ wait' = IF e \in published THEN wait ELSE [wait EXCEPT ![e] = delay]
    /\ UNCHANGED <<stored, attempts, published>>

-----------------------------------------------------------------------------
(* Repository.Append inside a business transaction that commits.           *)
AppendEvent(e) ==
    /\ InsertOutboxEvent(e)
    /\ UNCHANGED <<wait, lease, attempts, published, sink, pub, faults>>

Start(p) ==
    /\ pub[p].pc = "off"
    /\ ~pub[p].closed
    /\ pub' = [pub EXCEPT ![p].pc = "idle"]
    /\ UNCHANGED <<rows, sink, faults>>

(* Close cancels the worker's context; before Start it only keeps it from  *)
(* starting.                                                               *)
Close(p) ==
    /\ faults < MaxFaults
    /\ ~pub[p].closed
    /\ pub' = [pub EXCEPT ![p].closed = TRUE]
    /\ faults' = faults + 1
    /\ UNCHANGED <<rows, sink>>

(* run's select sees the canceled context and the goroutine ends.          *)
RunStops(p) ==
    /\ pub[p].pc = "idle"
    /\ pub[p].closed
    /\ pub' = [pub EXCEPT ![p].pc = "done"]
    /\ UNCHANGED <<rows, sink, faults>>

(* run's timer fires and PublishAvailable claims a batch.                  *)
Claim(p) ==
    /\ pub[p].pc = "idle"
    /\ ~pub[p].closed
    /\ \E batch \in SUBSET Events :
        /\ ClaimOutboxBatch(batch)
        /\ pub' = [pub EXCEPT ![p] = [@ EXCEPT !.pc = IF batch = {} THEN "idle" ELSE "batch",
                       !.batch = batch, !.age = 0,
                       !.tries = [e \in Events |-> IF e \in batch THEN attempts'[e] ELSE 0]]]
    /\ UNCHANGED <<sink, faults>>

(* The claim was made and its answer lost; the rows wait for their lease.  *)
ClaimLost(p) ==
    /\ pub[p].pc = "idle"
    /\ \E batch \in SUBSET Events : batch # {} /\ ClaimOutboxBatch(batch)
    /\ UNCHANGED <<sink, pub, faults>>

-----------------------------------------------------------------------------
(* The rows of a batch, in the order the statement returned them.          *)

NextRow(p) ==
    LET left == pub[p].batch \ {pub[p].current}
    IN pub' = [pub EXCEPT ![p] = [@ EXCEPT !.pc = IF left = {} THEN "idle" ELSE "batch",
                                           !.batch = left, !.current = 0]]

(* validatePublisherRow refuses the row.                                   *)
RowRefused(p) ==
    /\ pub[p].pc = "batch"
    /\ \E e \in pub[p].batch \ Registered :
        pub' = [pub EXCEPT ![p] = [@ EXCEPT !.pc = "release", !.current = e]]
    /\ UNCHANGED <<rows, sink, faults>>

(* The broker acknowledged the message, or had stored it before.           *)
PublishAcked(p, e) ==
    /\ pub[p].pc = "batch"
    /\ ~pub[p].closed
    /\ e \in pub[p].batch \cap Registered
    /\ stream' = stream \cup {e}
    /\ pub' = [pub EXCEPT ![p] = [@ EXCEPT !.pc = "mark", !.current = e]]
    /\ UNCHANGED <<rows, consumed, effects, faults>>

(* Publish failed or its acknowledgement was lost.                         *)
PublishFailed(p, e) ==
    /\ pub[p].pc = "batch"
    /\ e \in pub[p].batch \cap Registered
    /\ stream' \in {stream, stream \cup {e}}
    /\ pub' = [pub EXCEPT ![p] = [@ EXCEPT !.pc = "release", !.current = e]]
    /\ UNCHANGED <<rows, consumed, effects, faults>>

MarkPublished(p) ==
    /\ pub[p].pc = "mark"
    /\ ~pub[p].closed
    /\ MarkOutboxPublished(pub[p].current)
    /\ NextRow(p)
    /\ UNCHANGED <<sink, faults>>

(* The update failed, or was made and its answer lost.                     *)
MarkFailed(p) ==
    /\ pub[p].pc = "mark"
    /\ \/ UNCHANGED rows
       \/ MarkOutboxPublished(pub[p].current)
    /\ NextRow(p)
    /\ UNCHANGED <<sink, faults>>

(* Release schedules the next attempt after the time the batch was         *)
(* claimed; a failure of the update is ignored.                            *)
Release(p) ==
    /\ pub[p].pc = "release"
    /\ \/ \E d \in RetryDelays(pub[p].tries[pub[p].current]) :
            ReleaseOutboxClaim(pub[p].current, Max({0, d - pub[p].age}))
       \/ UNCHANGED rows
    /\ NextRow(p)
    /\ UNCHANGED <<sink, faults>>

(* The process dies and comes back with a new publisher.                  *)
Crash(p) ==
    /\ faults < MaxFaults
    /\ pub[p].pc # "off"
    /\ pub' = [pub EXCEPT ![p] = NoPublisher]
    /\ faults' = faults + 1
    /\ UNCHANGED <<rows, sink>>

(* A process that has shut down is replaced by a new one.                  *)
Replace(p) ==
    /\ pub[p].closed
    /\ pub[p].pc \in {"off", "done"}
    /\ pub' = [pub EXCEPT ![p] = NoPublisher]
    /\ UNCHANGED <<rows, sink, faults>>

-----------------------------------------------------------------------------
(* Mutant: the handler runs in a transaction of its own, before the event  *)
(* is recorded.                                                            *)
HandleThenRecord(e) ==
    /\ e \in stream \ consumed
    /\ effects' = [effects EXCEPT ![e] = @ + 1]
    /\ effects[e] < 2
    /\ consumed' \in {consumed, consumed \cup {e}}
    /\ UNCHANGED <<rows, stream, pub, faults>>

(* Consumer.Consume on a delivery: RecordConsumedEvent inserts nothing for *)
(* an event that is recorded already, and then the handler does not run.   *)
Consume(e) ==
    /\ e \in stream \ consumed
    /\ consumed' = consumed \cup {e}
    /\ effects' = [effects EXCEPT ![e] = @ + 1]
    /\ UNCHANGED <<rows, stream, pub, faults>>

Countdown(f) == [e \in Events |-> Max({0, f[e] - 1})]

Tick ==
    /\ wait' = Countdown(wait)
    /\ lease' = Countdown(lease)
    /\ pub' = [p \in Publishers |-> [pub[p] EXCEPT !.age =
                  IF pub[p].pc \in {"batch", "mark", "release"} THEN Min({@ + 1, MaxAge}) ELSE 0]]
    /\ UNCHANGED <<stored, attempts, published, sink, faults>>

PublisherStep(p) ==
    \/ RunStops(p) \/ Claim(p) \/ ClaimLost(p) \/ RowRefused(p)
    \/ \E e \in Events : PublishAcked(p, e) \/ PublishFailed(p, e)
    \/ MarkPublished(p) \/ MarkFailed(p) \/ Release(p)

Next ==
    \/ \E e \in Events : AppendEvent(e) \/ Consume(e)
    \/ \E p \in Publishers : Start(p) \/ Close(p) \/ Crash(p) \/ Replace(p) \/ PublisherStep(p)
    \/ Tick

Spec == Init /\ [][Next]_vars

(* The goroutines and the clock run; a process that shut down is replaced  *)
(* and started; the database, the broker and the handler, asked again and  *)
(* again, answer in the end.                                               *)
Fairness ==
    /\ WF_vars(Tick)
    /\ \A p \in Publishers :
        /\ WF_vars(Start(p)) /\ WF_vars(Replace(p)) /\ WF_vars(PublisherStep(p))
        /\ SF_vars(Claim(p)) /\ SF_vars(MarkPublished(p))
        /\ \A e \in Events : SF_vars(PublishAcked(p, e))
    /\ \A e \in Events : SF_vars(Consume(e))

FairSpec == Spec /\ Fairness

-----------------------------------------------------------------------------
TypeOK ==
    /\ stored \subseteq Events
    /\ wait \in [Events -> Nat]
    /\ lease \in [Events -> 0 .. Lease]
    /\ attempts \in [Events -> 0 .. Saturated]
    /\ published \subseteq Events
    /\ stream \subseteq Events
    /\ consumed \subseteq Events
    /\ effects \in [Events -> Nat]
    /\ pub \in [Publishers ->
           [pc : {"off", "idle", "batch", "mark", "release", "done"}, closed : BOOLEAN,
            batch : SUBSET Events, current : Nat, tries : [Events -> 0 .. Saturated],
            age : Nat]]
    /\ faults \in Nat

(* A row is marked published only after the broker stored its event: no    *)
(* crash, lost answer, expired lease or release by another publisher makes *)
(* PublishAvailable drop an event.                                         *)
PublishedIsInStream == published \subseteq stream

(* Only events of committed business transactions reach the stream.        *)
StreamIsRecorded == stream \subseteq stored

(* The publishers and the consumer implement the abstract delivery: an     *)
(* event takes effect once although it may be published and delivered      *)
(* again, and under Fairness it does take effect.                          *)
Delivery == INSTANCE EventDelivery WITH recorded <- stored, Publishable <- Registered

DeliverySafety == Delivery!DeliverySafety

DeliverySpec == Delivery!DeliverySpec

(* A registered row is published in the end, also when its lease expires   *)
(* in the middle of a batch or its claim is released by a publisher that   *)
(* no longer holds it.                                                     *)
EveryRowIsPublished == \A e \in Registered : e \in stored ~> e \in published

(* Close ends the publisher's goroutine, whatever it is doing.             *)
CloseEnds == \A p \in Publishers : pub[p].closed ~> pub[p].pc \in {"off", "done"}
=============================================================================
