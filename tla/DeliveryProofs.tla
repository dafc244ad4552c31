---------------------------- MODULE DeliveryProofs ----------------------------
(***************************************************************************)
(* For any set of events, any number of publishers and any number of       *)
(* crashes, shutdowns and lost answers, the outbox publishes what was      *)
(* recorded, marks only what the broker has stored and lets every event    *)
(* take effect at most once: it implements EventDelivery.  For any number  *)
(* of requests in progress, any keys, digests and bodies and any pattern   *)
(* of retries, failures and lost answers, the idempotency records of the   *)
(* commands that append those events implement ExactlyOnce, and no request *)
(* meets a record in progress.                                             *)
(***************************************************************************)
EXTENDS Outbox, TLAPS

-----------------------------------------------------------------------------
Places == {"off", "idle", "batch", "mark", "release", "done"}

Worker == [pc : Places, closed : BOOLEAN, batch : SUBSET Events, current : Nat,
           tries : [Events -> Nat], age : Nat]

Typed ==
    /\ stored \subseteq Events
    /\ attempts \in [Events -> Nat]
    /\ effects \in [Events -> Nat]
    /\ pub \in [Publishers -> Worker]

(* What a publisher knows of its batch: every row of it exists, and the    *)
(* row it is about to mark is in the stream.                               *)
Knows(q) ==
    /\ q.batch \subseteq stored
    /\ q.pc = "mark" => q.current \in stream

(* The events: the stream holds registered events of committed             *)
(* transactions, the consumer's record decides how often one took effect.  *)
Flow ==
    /\ published \subseteq stream
    /\ stream \subseteq stored
    /\ stream \subseteq Registered
    /\ consumed \subseteq stream
    /\ \A e \in Events : effects[e] = IF e \in consumed THEN 1 ELSE 0

IInv == Typed /\ Flow /\ \A p \in Publishers : Knows(pub[p])

-----------------------------------------------------------------------------
(* The smaller of two numbers, as the claim's saturating count and a       *)
(* batch's saturating age use it, is one of them.                          *)
LEMMA MinOfTwo ==
    ASSUME NEW a \in Nat, NEW b \in Nat
    PROVE  Min({a, b}) \in Nat
<1>1. \E x \in {a, b} : \A y \in {a, b} : x <= y
  <2>1. CASE a <= b  BY <2>1
  <2>2. CASE ~(a <= b)  BY <2>2
  <2>3. QED  BY Zenon, <2>1, <2>2
<1>2. Min({a, b}) \in {a, b}  BY Zenon, <1>1 DEF Min
<1>3. QED  BY Zenon, <1>2

(* The bounds of the model are numbers.                                    *)
LEMMA Bounds == Saturated \in Nat /\ MaxAge \in Nat
BY OutboxAssumption DEF Saturated, MaxAge

(* Initially nothing is recorded and nobody knows anything.                *)
LEMMA InitInv == Init => IInv
<1> SUFFICES ASSUME Init PROVE IInv  BY Zenon
<1>1. NoPublisher \in Worker  BY Zenon DEF NoPublisher, Worker, Places
<1>2. Typed  BY Zenon, <1>1 DEF Init, Typed
<1>3. Flow  BY Zenon DEF Init, Flow
<1>4. \A p \in Publishers : Knows(pub[p])  BY Zenon DEF Init, Knows, NoPublisher
<1>5. QED  BY Zenon, <1>2, <1>3, <1>4 DEF IInv

-----------------------------------------------------------------------------
(* A claim finds its rows in the table and writes their leases and counts. *)
LEMMA ClaimRows ==
    ASSUME IInv, NEW batch \in SUBSET Events, ClaimOutboxBatch(batch)
    PROVE  /\ batch \subseteq stored
           /\ attempts' \in [Events -> Nat]
           /\ stored' = stored /\ published' = published
<1>1. batch \subseteq stored  BY Zenon DEF ClaimOutboxBatch, Claimable
<1>2. \A e \in Events : Min({attempts[e] + 1, Saturated}) \in Nat
  BY MinOfTwo, Bounds DEF IInv, Typed
<1>3. attempts' \in [Events -> Nat]  BY Zenon, <1>2 DEF ClaimOutboxBatch, IInv, Typed
<1>4. QED  BY Zenon, <1>1, <1>3 DEF ClaimOutboxBatch

(* NextRow leaves the publisher's other rows and nothing to mark.          *)
LEMMA NextRowKnows ==
    ASSUME IInv, NEW p \in Publishers, NextRow(p), stored' = stored, stream' = stream
    PROVE  pub' \in [Publishers -> Worker] /\ \A q \in Publishers : Knows(pub[q])'
<1> DEFINE left == pub[p].batch \ {pub[p].current}
           next == [pub[p] EXCEPT !.pc = IF left = {} THEN "idle" ELSE "batch", !.batch = left, !.current = 0]
<1>1. pub[p] \in Worker  BY Zenon DEF IInv, Typed
<1>2. next \in Worker  BY Zenon, <1>1 DEF Worker, Places
<1>3. pub' = [pub EXCEPT ![p] = next]  BY Zenon DEF NextRow
<1>4. pub' \in [Publishers -> Worker]  BY Zenon, <1>2, <1>3 DEF IInv, Typed
<1>5. next.batch \subseteq stored /\ next.pc # "mark"
  BY Zenon, <1>1 DEF IInv, Knows, Worker
<1>6. ASSUME NEW q \in Publishers PROVE Knows(pub[q])'
  <2>1. CASE q = p
    <3>1. pub'[q] = next  BY Zenon, <1>3, <2>1 DEF IInv, Typed
    <3>2. QED  BY Zenon, <3>1, <1>5 DEF Knows
  <2>2. CASE q # p
    <3>1. pub'[q] = pub[q]  BY Zenon, <1>3, <2>2 DEF IInv, Typed
    <3>2. QED  BY Zenon, <3>1 DEF IInv, Knows
  <2>3. QED  BY Zenon, <2>1, <2>2
<1>7. QED  BY Zenon, <1>4, <1>6

(* A publisher moves to a record that knows what it should while the       *)
(* stream and the table only grow; the others keep what they know.         *)
LEMMA WorkerMoves ==
    ASSUME IInv, NEW p \in Publishers, NEW next \in Worker, pub' = [pub EXCEPT ![p] = next],
           stored \subseteq stored', stream \subseteq stream',
           next.batch \subseteq stored', next.pc = "mark" => next.current \in stream'
    PROVE  pub' \in [Publishers -> Worker] /\ \A q \in Publishers : Knows(pub[q])'
<1>1. pub' \in [Publishers -> Worker]  BY Zenon DEF IInv, Typed
<1>2. ASSUME NEW q \in Publishers PROVE Knows(pub[q])'
  <2>1. CASE q = p
    <3>1. pub'[q] = next  BY Zenon, <2>1 DEF IInv, Typed
    <3>2. QED  BY Zenon, <3>1 DEF Knows
  <2>2. CASE q # p
    <3>1. pub'[q] = pub[q]  BY Zenon, <2>2 DEF IInv, Typed
    <3>2. QED  BY Zenon, <3>1 DEF IInv, Knows
  <2>3. QED  BY Zenon, <2>1, <2>2
<1>3. QED  BY Zenon, <1>1, <1>2

(* The same while no publisher moves.                                      *)
LEMMA WorkersRest ==
    ASSUME IInv, pub' = pub, stored \subseteq stored', stream \subseteq stream'
    PROVE  pub' \in [Publishers -> Worker] /\ \A q \in Publishers : Knows(pub[q])'
BY Zenon DEF IInv, Typed, Knows

-----------------------------------------------------------------------------
(* A business transaction appends an event.                                *)
LEMMA AppendStep == ASSUME IInv, NEW e \in Events, AppendEvent(e) PROVE IInv'
<1>1. pub' \in [Publishers -> Worker] /\ \A q \in Publishers : Knows(pub[q])'
  BY Zenon, WorkersRest DEF AppendEvent, InsertOutboxEvent, sink
<1>2. Typed'  BY Zenon, <1>1 DEF AppendEvent, InsertOutboxEvent, IInv, Typed, sink
<1>3. Flow'  BY Zenon DEF AppendEvent, InsertOutboxEvent, IInv, Flow, sink
<1>4. QED  BY Zenon, <1>1, <1>2, <1>3 DEF IInv

(* The consumer records an event of the stream and commits its effect.     *)
LEMMA ConsumeStep == ASSUME IInv, NEW e \in Events, Consume(e) PROVE IInv'
<1>1. pub' \in [Publishers -> Worker] /\ \A q \in Publishers : Knows(pub[q])'
  BY Zenon, WorkersRest DEF Consume, rows
<1>2. effects[e] = 0  BY Zenon DEF Consume, IInv, Flow
<1>3. effects' = [effects EXCEPT ![e] = 1]  BY <1>2 DEF Consume
<1>4. Typed'  BY <1>1, <1>3 DEF Consume, IInv, Typed, rows
<1>5. \A f \in Events : effects'[f] = IF f \in consumed' THEN 1 ELSE 0
  BY Zenon, <1>3 DEF Consume, IInv, Flow, Typed
<1>6. Flow'  BY Zenon, <1>5 DEF Consume, IInv, Flow, rows
<1>7. QED  BY Zenon, <1>1, <1>4, <1>6 DEF IInv

(* A publisher's own steps that touch neither rows nor stream.             *)
LEMMA QuietStep ==
    ASSUME IInv, NEW p \in Publishers, Start(p) \/ Close(p) \/ RunStops(p) \/ Crash(p) \/ Replace(p) \/ RowRefused(p)
    PROVE  IInv'
<1>0. pub[p] \in Worker /\ Knows(pub[p])  BY Zenon DEF IInv, Typed
<1>1. UNCHANGED <<rows, sink>>
  BY Zenon DEF Start, Close, RunStops, Crash, Replace, RowRefused
<1>2. stored' = stored /\ stream' = stream  BY Zenon, <1>1 DEF rows, sink
<1>3. pub' \in [Publishers -> Worker] /\ \A q \in Publishers : Knows(pub[q])'
  <2>1. CASE Start(p)
    <3> DEFINE next == [pub[p] EXCEPT !.pc = "idle"]
    <3>1. next \in Worker /\ next.batch = pub[p].batch /\ next.pc = "idle"  BY Zenon, <1>0 DEF Worker, Places
    <3>2. pub' = [pub EXCEPT ![p] = next]  BY Zenon, <2>1 DEF Start
    <3> HIDE DEF next
    <3>3. QED  BY Zenon, <3>1, <3>2, <1>0, <1>2, WorkerMoves DEF Knows
  <2>2. CASE Close(p)
    <3> DEFINE next == [pub[p] EXCEPT !.closed = TRUE]
    <3>1. next \in Worker /\ next.batch = pub[p].batch /\ next.pc = pub[p].pc /\ next.current = pub[p].current
      BY Zenon, <1>0 DEF Worker, Places
    <3>2. pub' = [pub EXCEPT ![p] = next]  BY Zenon, <2>2 DEF Close
    <3> HIDE DEF next
    <3>3. QED  BY Zenon, <3>1, <3>2, <1>0, <1>2, WorkerMoves DEF Knows
  <2>3. CASE RunStops(p)
    <3> DEFINE next == [pub[p] EXCEPT !.pc = "done"]
    <3>1. next \in Worker /\ next.batch = pub[p].batch /\ next.pc = "done"  BY Zenon, <1>0 DEF Worker, Places
    <3>2. pub' = [pub EXCEPT ![p] = next]  BY Zenon, <2>3 DEF RunStops
    <3> HIDE DEF next
    <3>3. QED  BY Zenon, <3>1, <3>2, <1>0, <1>2, WorkerMoves DEF Knows
  <2>4. CASE Crash(p) \/ Replace(p)
    <3>1. NoPublisher \in Worker /\ NoPublisher.batch = {} /\ NoPublisher.pc = "off"
      BY Zenon DEF NoPublisher, Worker, Places
    <3>2. pub' = [pub EXCEPT ![p] = NoPublisher]  BY Zenon, <2>4 DEF Crash, Replace
    <3>3. QED  BY Zenon, <3>1, <3>2, <1>2, WorkerMoves
  <2>5. CASE RowRefused(p)
    <3>1. PICK e \in pub[p].batch \ Registered :
              pub' = [pub EXCEPT ![p] = [@ EXCEPT !.pc = "release", !.current = e]]
      BY Zenon, <2>5 DEF RowRefused
    <3> DEFINE next == [pub[p] EXCEPT !.pc = "release", !.current = e]
    <3>2. e \in Nat  BY Zenon, <1>0, OutboxAssumption DEF Worker
    <3>3. next \in Worker /\ next.batch = pub[p].batch /\ next.pc = "release"  BY Zenon, <1>0, <3>2 DEF Worker, Places
    <3>4. pub' = [pub EXCEPT ![p] = next]  BY Zenon, <3>1
    <3> HIDE DEF next
    <3>5. QED  BY Zenon, <3>3, <3>4, <1>0, <1>2, WorkerMoves DEF Knows
  <2>6. QED  BY Zenon, <2>1, <2>2, <2>3, <2>4, <2>5
<1>4. Typed' /\ Flow'  BY Zenon, <1>1, <1>3 DEF IInv, Typed, Flow, rows, sink
<1>5. QED  BY Zenon, <1>3, <1>4 DEF IInv

(* The claim of a batch whose answer arrives.                              *)
LEMMA ClaimStep == ASSUME IInv, NEW p \in Publishers, Claim(p) PROVE IInv'
<1>1. PICK batch \in SUBSET Events :
        /\ ClaimOutboxBatch(batch)
        /\ pub' = [pub EXCEPT ![p] = [@ EXCEPT !.pc = IF batch = {} THEN "idle" ELSE "batch",
                       !.batch = batch, !.age = 0,
                       !.tries = [e \in Events |-> IF e \in batch THEN attempts'[e] ELSE 0]]]
  BY Zenon DEF Claim
<1>2. batch \subseteq stored /\ attempts' \in [Events -> Nat] /\ stored' = stored /\ published' = published
  BY Zenon, <1>1, ClaimRows
<1>3. UNCHANGED sink  BY Zenon DEF Claim
<1> DEFINE tries == [e \in Events |-> IF e \in batch THEN attempts'[e] ELSE 0]
           next == [pub[p] EXCEPT !.pc = IF batch = {} THEN "idle" ELSE "batch",
                       !.batch = batch, !.age = 0, !.tries = tries]
<1>4. tries \in [Events -> Nat]  BY Zenon, <1>2
<1>5. pub[p] \in Worker  BY Zenon DEF IInv, Typed
<1> HIDE DEF tries
<1>6. next \in Worker /\ next.batch = batch /\ next.pc # "mark"  BY Zenon, <1>4, <1>5 DEF Worker, Places
<1>7. pub' = [pub EXCEPT ![p] = next]  BY Zenon, <1>1 DEF tries
<1>8. stream' = stream  BY Zenon, <1>3 DEF sink
<1> HIDE DEF next
<1>9. pub' \in [Publishers -> Worker] /\ \A q \in Publishers : Knows(pub[q])'
  BY Zenon, <1>2, <1>6, <1>7, <1>8, WorkerMoves
<1>10. Typed' /\ Flow'  BY Zenon, <1>2, <1>3, <1>9 DEF IInv, Typed, Flow, sink
<1>11. QED  BY Zenon, <1>9, <1>10 DEF IInv

(* The claim of a batch whose answer is lost.                              *)
LEMMA ClaimLostStep == ASSUME IInv, NEW p \in Publishers, ClaimLost(p) PROVE IInv'
<1>1. PICK batch \in SUBSET Events : ClaimOutboxBatch(batch)  BY Zenon DEF ClaimLost
<1>2. attempts' \in [Events -> Nat] /\ stored' = stored /\ published' = published
  BY Zenon, <1>1, ClaimRows
<1>3. UNCHANGED <<sink, pub>>  BY Zenon DEF ClaimLost
<1>4. pub' \in [Publishers -> Worker] /\ \A q \in Publishers : Knows(pub[q])'
  BY Zenon, <1>2, <1>3, WorkersRest DEF sink
<1>5. Typed' /\ Flow'  BY Zenon, <1>2, <1>3, <1>4 DEF IInv, Typed, Flow, sink
<1>6. QED  BY Zenon, <1>4, <1>5 DEF IInv

(* The broker stores a row of the batch, acknowledged or not.              *)
LEMMA PublishStep ==
    ASSUME IInv, NEW p \in Publishers, NEW e \in Events, PublishAcked(p, e) \/ PublishFailed(p, e)
    PROVE  IInv'
<1>0. pub[p] \in Worker /\ Knows(pub[p])  BY Zenon DEF IInv, Typed
<1>1. e \in pub[p].batch /\ e \in Registered /\ UNCHANGED <<rows, consumed, effects>>
  BY Zenon DEF PublishAcked, PublishFailed
<1>2. stream' = stream \cup {e} \/ stream' = stream  BY Zenon DEF PublishAcked, PublishFailed
<1>3. e \in stored  BY Zenon, <1>0, <1>1 DEF Knows
<1>4. e \in Nat  BY Zenon, OutboxAssumption
<1>5. stored' = stored /\ stream \subseteq stream'  BY Zenon, <1>1, <1>2 DEF rows
<1>6. pub' \in [Publishers -> Worker] /\ \A q \in Publishers : Knows(pub[q])'
  <2>1. CASE PublishAcked(p, e)
    <3> DEFINE next == [pub[p] EXCEPT !.pc = "mark", !.current = e]
    <3>1. next \in Worker /\ next.batch = pub[p].batch /\ next.current = e  BY Zenon, <1>0, <1>4 DEF Worker, Places
    <3>2. pub' = [pub EXCEPT ![p] = next] /\ e \in stream'  BY Zenon, <2>1 DEF PublishAcked
    <3> HIDE DEF next
    <3>3. QED  BY Zenon, <3>1, <3>2, <1>0, <1>5, WorkerMoves DEF Knows
  <2>2. CASE PublishFailed(p, e)
    <3> DEFINE next == [pub[p] EXCEPT !.pc = "release", !.current = e]
    <3>1. next \in Worker /\ next.batch = pub[p].batch /\ next.pc = "release"  BY Zenon, <1>0, <1>4 DEF Worker, Places
    <3>2. pub' = [pub EXCEPT ![p] = next]  BY Zenon, <2>2 DEF PublishFailed
    <3> HIDE DEF next
    <3>3. QED  BY Zenon, <3>1, <3>2, <1>0, <1>5, WorkerMoves DEF Knows
  <2>3. QED  BY Zenon, <2>1, <2>2
<1>7. Typed'  BY Zenon, <1>1, <1>6 DEF IInv, Typed, rows
<1>8. Flow'  BY Zenon, <1>1, <1>2, <1>3 DEF IInv, Flow, rows
<1>9. QED  BY Zenon, <1>6, <1>7, <1>8 DEF IInv

(* The update after an acknowledgement, whether or not it is made and      *)
(* whether or not its answer arrives.                                      *)
LEMMA MarkStep ==
    ASSUME IInv, NEW p \in Publishers, MarkPublished(p) \/ MarkFailed(p)
    PROVE  IInv'
<1>1. pub[p].pc = "mark" /\ NextRow(p) /\ UNCHANGED sink  BY Zenon DEF MarkPublished, MarkFailed
<1>2. pub[p].current \in stream  BY Zenon, <1>1 DEF IInv, Knows
<1>3. UNCHANGED rows \/ MarkOutboxPublished(pub[p].current)  BY Zenon DEF MarkPublished, MarkFailed
<1>4. stored' = stored /\ attempts' = attempts /\ published' \subseteq stream
  BY Zenon, <1>2, <1>3 DEF MarkOutboxPublished, rows, IInv, Flow
<1>5. stream' = stream  BY Zenon, <1>1 DEF sink
<1>6. pub' \in [Publishers -> Worker] /\ \A q \in Publishers : Knows(pub[q])'
  BY Zenon, <1>1, <1>4, <1>5, NextRowKnows
<1>7. Typed' /\ Flow'  BY Zenon, <1>1, <1>4, <1>6 DEF IInv, Typed, Flow, sink
<1>8. QED  BY Zenon, <1>6, <1>7 DEF IInv

(* The release of a row whose publication failed or was refused.           *)
LEMMA ReleaseStep == ASSUME IInv, NEW p \in Publishers, Release(p) PROVE IInv'
<1>1. NextRow(p) /\ UNCHANGED sink  BY Zenon DEF Release
<1>2. stored' = stored /\ attempts' = attempts /\ published' = published
  BY Zenon DEF Release, ReleaseOutboxClaim, rows
<1>3. stream' = stream  BY Zenon, <1>1 DEF sink
<1>4. pub' \in [Publishers -> Worker] /\ \A q \in Publishers : Knows(pub[q])'
  BY Zenon, <1>1, <1>2, <1>3, NextRowKnows
<1>5. Typed' /\ Flow'  BY Zenon, <1>1, <1>2, <1>4 DEF IInv, Typed, Flow, sink
<1>6. QED  BY Zenon, <1>4, <1>5 DEF IInv

(* Time passes.                                                            *)
LEMMA TickStep == ASSUME IInv, Tick PROVE IInv'
<1>1. stored' = stored /\ attempts' = attempts /\ published' = published /\ UNCHANGED sink  BY Zenon DEF Tick
<1>2. ASSUME NEW q \in Publishers
      PROVE  /\ pub'[q] \in Worker
             /\ pub'[q].batch = pub[q].batch /\ pub'[q].pc = pub[q].pc /\ pub'[q].current = pub[q].current
  <2>1. pub[q] \in Worker  BY Zenon DEF IInv, Typed
  <2> DEFINE age == IF pub[q].pc \in {"batch", "mark", "release"} THEN Min({pub[q].age + 1, MaxAge}) ELSE 0
  <2>2. age \in Nat  BY <2>1, MinOfTwo, Bounds DEF Worker
  <2>3. pub'[q] = [pub[q] EXCEPT !.age = age]  BY Zenon DEF Tick
  <2> HIDE DEF age
  <2>4. QED  BY Zenon, <2>1, <2>2, <2>3 DEF Worker
<1>3. pub' \in [Publishers -> Worker]
  <2>1. pub' = [q \in Publishers |-> pub'[q]]  BY Zenon DEF Tick
  <2>2. QED  BY Zenon, <1>2, <2>1
<1>4. \A q \in Publishers : Knows(pub[q])'  BY Zenon, <1>1, <1>2 DEF IInv, Knows, sink
<1>5. Typed' /\ Flow'  BY Zenon, <1>1, <1>3 DEF IInv, Typed, Flow, sink
<1>6. QED  BY Zenon, <1>4, <1>5 DEF IInv

-----------------------------------------------------------------------------
(* Every step keeps the invariant.                                         *)
LEMMA StepInv == IInv /\ [Next]_vars => IInv'
<1> SUFFICES ASSUME IInv, [Next]_vars PROVE IInv'  BY Zenon
<1>1. CASE UNCHANGED vars
  BY Zenon, <1>1 DEF vars, rows, sink, IInv, Typed, Flow, Knows
<1>2. ASSUME NEW e \in Events, AppendEvent(e) \/ Consume(e) PROVE IInv'
  BY Zenon, <1>2, AppendStep, ConsumeStep
<1>3. ASSUME NEW p \in Publishers, Start(p) \/ Close(p) \/ Crash(p) \/ Replace(p) PROVE IInv'
  BY Zenon, <1>3, QuietStep
<1>4. ASSUME NEW p \in Publishers, PublisherStep(p) PROVE IInv'
  <2>1. CASE RunStops(p) \/ RowRefused(p)  BY Zenon, <2>1, QuietStep
  <2>2. CASE Claim(p)  BY Zenon, <2>2, ClaimStep
  <2>3. CASE ClaimLost(p)  BY <2>3, ClaimLostStep
  <2>4. CASE \E e \in Events : PublishAcked(p, e) \/ PublishFailed(p, e)  BY Zenon, <2>4, PublishStep
  <2>5. CASE MarkPublished(p) \/ MarkFailed(p)  BY Zenon, <2>5, MarkStep
  <2>6. CASE Release(p)  BY <2>6, ReleaseStep
  <2>7. QED  BY Zenon, <1>4, <2>1, <2>2, <2>3, <2>4, <2>5, <2>6 DEF PublisherStep
<1>5. CASE Tick  BY Zenon, <1>5, TickStep
<1>6. QED  BY Zenon, <1>1, <1>2, <1>3, <1>4, <1>5 DEF Next

(* The invariant holds in every behaviour.                                 *)
LEMMA Inductive == Spec => []IInv
BY InitInv, StepInv, PTL DEF Spec

(* A row is marked published only after the broker has stored its event,   *)
(* for any number of publishers, crashes and lost answers.                 *)
THEOREM NoEventIsDropped == Spec => []PublishedIsInStream
<1>1. IInv => PublishedIsInStream  BY Zenon DEF IInv, Flow, PublishedIsInStream
<1>2. QED  BY Inductive, <1>1, PTL

(* Only events of committed business transactions reach the stream.        *)
THEOREM NothingIsInvented == Spec => []StreamIsRecorded
<1>1. IInv => StreamIsRecorded  BY Zenon DEF IInv, Flow, StreamIsRecorded
<1>2. QED  BY Inductive, <1>1, PTL

-----------------------------------------------------------------------------
(* The outbox implements EventDelivery: recording is Record, consuming is  *)
(* TakeEffect and nothing else is visible.                                 *)
THEOREM OutboxDelivers == Spec => DeliverySafety
<1>1. Init => Delivery!DeliveryInit  BY Zenon DEF Init, Delivery!DeliveryInit
<1>2. IInv /\ [Next]_vars => [Delivery!DeliveryNext]_<<stored, effects>>
  <2> SUFFICES ASSUME IInv, [Next]_vars
               PROVE  Delivery!DeliveryNext \/ UNCHANGED <<stored, effects>>
    BY Zenon
  <2>1. CASE UNCHANGED vars  BY Zenon, <2>1 DEF vars, rows, sink
  <2>2. ASSUME NEW e \in Events, AppendEvent(e) PROVE Delivery!DeliveryNext
    <3>1. Delivery!Record(e)  BY Zenon, <2>2 DEF AppendEvent, InsertOutboxEvent, sink, Delivery!Record
    <3>2. QED  BY Zenon, <3>1 DEF Delivery!DeliveryNext
  <2>3. ASSUME NEW e \in Events, Consume(e) PROVE Delivery!DeliveryNext
    <3>1. effects[e] = 0 /\ e \in stored /\ e \in Registered  BY Zenon, <2>3 DEF Consume, IInv, Flow
    <3>2. effects' = [effects EXCEPT ![e] = 1] /\ stored' = stored  BY <2>3, <3>1 DEF Consume, rows
    <3>3. Delivery!TakeEffect(e)  BY Zenon, <3>1, <3>2 DEF Delivery!TakeEffect
    <3>4. QED  BY Zenon, <3>3 DEF Delivery!DeliveryNext
  <2>4. ASSUME NEW p \in Publishers, Start(p) \/ Close(p) \/ Crash(p) \/ Replace(p)
        PROVE  UNCHANGED <<stored, effects>>
    BY Zenon, <2>4 DEF Start, Close, Crash, Replace, rows, sink
  <2>5. ASSUME NEW p \in Publishers, PublisherStep(p) PROVE UNCHANGED <<stored, effects>>
    <3>1. CASE RunStops(p) \/ RowRefused(p)  BY ZenonT(60), <3>1 DEF RunStops, RowRefused, rows, sink
    <3>2. CASE Claim(p) \/ ClaimLost(p)  BY Zenon, <3>2 DEF Claim, ClaimLost, ClaimOutboxBatch, sink
    <3>3. CASE \E e \in Events : PublishAcked(p, e) \/ PublishFailed(p, e)
      BY Zenon, <3>3 DEF PublishAcked, PublishFailed, rows
    <3>4. CASE MarkPublished(p) \/ MarkFailed(p)
      BY Zenon, <3>4 DEF MarkPublished, MarkFailed, MarkOutboxPublished, rows, sink
    <3>5. CASE Release(p)  BY Zenon, <3>5 DEF Release, ReleaseOutboxClaim, rows, sink
    <3>6. QED  BY Zenon, <2>5, <3>1, <3>2, <3>3, <3>4, <3>5 DEF PublisherStep
  <2>6. CASE Tick  BY Zenon, <2>6 DEF Tick, sink
  <2>7. QED  BY Zenon, <2>1, <2>2, <2>3, <2>4, <2>5, <2>6 DEF Next
<1>3. QED
  BY Inductive, <1>1, <1>2, PTL DEF Spec, DeliverySafety, Delivery!DeliverySafety, Delivery!dvars

-----------------------------------------------------------------------------
(* The commands whose transactions record the events, under their          *)
(* idempotency keys.                                                       *)
CONSTANTS Workers, Keys, Digests, Bodies

VARIABLES records, tx, executed, answered

Commands == INSTANCE Idempotency

(* The only committed record there is besides none: a completed one.       *)
Done(d, b, x) == [state |-> "completed", digest |-> d, expired |-> x, status |-> 200, body |-> b]

Execution(d, b) == [digest |-> d, body |-> b]

Tx(pc, k, d) == [pc |-> pc, key |-> k, digest |-> d]

FullTx(k, d, b) == [pc |-> "completed", key |-> k, digest |-> d, record |-> Done(d, b, FALSE)]

(* A key has neither record nor execution, or one of each that agree.      *)
Agrees(k) ==
    \/ records[k] = Commands!NoRecord /\ executed[k] = {}
    \/ \E d \in Digests, b \in Bodies, x \in BOOLEAN :
          records[k] = Done(d, b, x) /\ executed[k] = {Execution(d, b)}

(* What a transaction can be, and what it knows of its key's record.       *)
Ended(t) == t = Commands!Idle \/ \E pc \in {"begin", "conflict", "unavailable"}, k \in Keys, d \in Digests : t = Tx(pc, k, d)

Started(t) == \E k \in Keys, d \in Digests : t = Tx("started", k, d) /\ records[k] = Commands!NoRecord

Working(t) == \E k \in Keys, d \in Digests, b \in Bodies : t = FullTx(k, d, b) /\ records[k] = Commands!NoRecord

Replaying(t) ==
    \E k \in Keys, d \in Digests, b \in Bodies, x \in BOOLEAN :
        t = Tx("replay", k, d) /\ records[k] = Done(d, b, x)

Fits(t) == Ended(t) \/ Started(t) \/ Working(t) \/ Replaying(t)

Holds(w, k) == tx[w].pc \in {"started", "completed"} /\ tx[w].key = k

CommandsTyped ==
    /\ records = [k \in Keys |-> records[k]]
    /\ executed = [k \in Keys |-> executed[k]]
    /\ tx = [w \in Workers |-> tx[w]]

(* At most one transaction holds the uncommitted record of a key.          *)
Exclusive == \A k \in Keys : \A v, w \in Workers : Holds(v, k) /\ Holds(w, k) => v = w

CommandsInv ==
    /\ CommandsTyped
    /\ \A k \in Keys : Agrees(k)
    /\ \A w \in Workers : Fits(tx[w])
    /\ Exclusive

-----------------------------------------------------------------------------
(* A completed record is a record, and keeps what it was completed with.   *)
LEMMA DoneFacts ==
    \A d, b, x :
        /\ Done(d, b, x) # Commands!NoRecord
        /\ Done(d, b, x).state = "completed" /\ Done(d, b, x).digest = d
        /\ Done(d, b, x).expired = x /\ Done(d, b, x).body = b
<1> SUFFICES ASSUME NEW d, NEW b, NEW x
             PROVE  /\ Done(d, b, x) # Commands!NoRecord
                    /\ Done(d, b, x).state = "completed" /\ Done(d, b, x).digest = d
                    /\ Done(d, b, x).expired = x /\ Done(d, b, x).body = b
  BY Zenon
<1>1. /\ Done(d, b, x).state = "completed" /\ Done(d, b, x).digest = d
      /\ Done(d, b, x).expired = x /\ Done(d, b, x).body = b
  BY Zenon DEF Done
<1>2. Commands!NoRecord.state = "absent"  BY Zenon DEF Commands!NoRecord
<1>3. QED  BY Zenon, <1>1, <1>2

(* Changing a completed record's expiry leaves a completed record.         *)
LEMMA DoneExpires ==
    ASSUME NEW d, NEW b, NEW x, NEW y
    PROVE  [Done(d, b, x) EXCEPT !.expired = y] = Done(d, b, y)
BY DEF Done

(* The fields of a transaction.                                            *)
LEMMA TxFacts ==
    /\ Commands!Idle.pc = "idle"
    /\ \A pc, k, d : Tx(pc, k, d).pc = pc /\ Tx(pc, k, d).key = k /\ Tx(pc, k, d).digest = d
    /\ \A k, d, b : /\ FullTx(k, d, b).pc = "completed" /\ FullTx(k, d, b).key = k
                    /\ FullTx(k, d, b).digest = d /\ FullTx(k, d, b).record = Done(d, b, FALSE)
BY Zenon DEF Commands!Idle, Tx, FullTx

(* CompleteIdempotency on the record its transaction has just begun.       *)
LEMMA CompleteFresh ==
    ASSUME NEW d, NEW b
    PROVE  Commands!CompleteIdempotency(Commands!TryBeginIdempotency(d), d, 200, b) = Done(d, b, FALSE)
BY Zenon DEF Commands!CompleteIdempotency, Commands!TryBeginIdempotency, Done

(* What Begin answers: "started" without a record, else one of the three   *)
(* other outcomes, never "in_progress".                                    *)
LEMMA BeginAnswers ==
    ASSUME NEW k \in Keys, NEW d \in Digests, Agrees(k)
    PROVE  \/ Commands!Begin(records[k], d) = "started" /\ records[k] = Commands!NoRecord
           \/ Commands!Begin(records[k], d) \in {"conflict", "unavailable"}
           \/ /\ Commands!Begin(records[k], d) = "replay"
              /\ \E b \in Bodies, x \in BOOLEAN : records[k] = Done(d, b, x)
<1>1. CASE records[k] = Commands!NoRecord  BY Zenon, <1>1 DEF Commands!Begin
<1>2. ASSUME NEW e \in Digests, NEW b \in Bodies, NEW x \in BOOLEAN, records[k] = Done(e, b, x)
      PROVE  \/ Commands!Begin(records[k], d) \in {"conflict", "unavailable"}
             \/ /\ Commands!Begin(records[k], d) = "replay"
                /\ \E c \in Bodies, y \in BOOLEAN : records[k] = Done(d, c, y)
  <2>1. /\ records[k] # Commands!NoRecord /\ records[k].state = "completed"
        /\ records[k].digest = e /\ records[k].expired = x
    BY <1>2, DoneFacts
  <2>2. CASE x  BY Zenon, <2>1, <2>2 DEF Commands!Begin
  <2>3. CASE ~x /\ e # d  BY Zenon, <2>1, <2>3 DEF Commands!Begin
  <2>4. CASE ~x /\ e = d
    <3>1. Commands!Begin(records[k], d) = "replay"  BY Zenon, <2>1, <2>4 DEF Commands!Begin
    <3>2. QED  BY Zenon, <3>1, <2>4, <1>2
  <2>5. QED  BY Zenon, <2>2, <2>3, <2>4
<1>3. QED  BY Zenon, <1>1, <1>2 DEF Agrees

(* Which shape a transaction has follows from where it stands.             *)
LEMMA ShapeOf ==
    ASSUME NEW t, Fits(t)
    PROVE  /\ t.pc = "begin" => \E k \in Keys, d \in Digests : t = Tx("begin", k, d)
           /\ t.pc = "started" => Started(t)
           /\ t.pc = "completed" => Working(t)
           /\ t.pc = "replay" => Replaying(t)
           /\ t.pc # "in_progress"
<1>1. CASE t = Commands!Idle  BY Zenon, <1>1, TxFacts
<1>2. CASE \E pc \in {"begin", "conflict", "unavailable"}, k \in Keys, d \in Digests : t = Tx(pc, k, d)
  <2>1. PICK pc \in {"begin", "conflict", "unavailable"}, k \in Keys, d \in Digests : t = Tx(pc, k, d)  BY Zenon, <1>2
  <2>2. t.pc = pc  BY <2>1, TxFacts
  <2>3. QED  BY Zenon, <2>1, <2>2
<1>3. CASE Started(t)
  <2>1. t.pc = "started"  BY <1>3, TxFacts DEF Started
  <2>2. QED  BY Zenon, <1>3, <2>1
<1>4. CASE Working(t)
  <2>1. t.pc = "completed"  BY <1>4, TxFacts DEF Working
  <2>2. QED  BY Zenon, <1>4, <2>1
<1>5. CASE Replaying(t)
  <2>1. t.pc = "replay"  BY SMTT(60), <1>5, TxFacts DEF Replaying
  <2>2. QED  BY Zenon, <1>5, <2>1
<1>6. QED  BY Zenon, <1>1, <1>2, <1>3, <1>4, <1>5 DEF Fits, Ended

-----------------------------------------------------------------------------
(* One transaction moves to a value that fits, while the records stay; it  *)
(* takes no key that another one holds.                                    *)
LEMMA TxMoves ==
    ASSUME CommandsInv, NEW w \in Workers, NEW t, Fits(t), tx' = [tx EXCEPT ![w] = t],
           UNCHANGED <<records, executed>>,
           \A k \in Keys, v \in Workers :
              t.pc \in {"started", "completed"} /\ t.key = k /\ Holds(v, k) => v = w
    PROVE  CommandsInv'
<1>1. \A v \in Workers : tx'[v] = IF v = w THEN t ELSE tx[v]  BY Zenon DEF CommandsInv, CommandsTyped
<1>2. CommandsTyped'  BY Zenon DEF CommandsInv, CommandsTyped
<1>3. \A k \in Keys : Agrees(k)'  BY SMTT(60) DEF CommandsInv, Agrees
<1>4. ASSUME NEW s, Fits(s) PROVE Fits(s)'
  BY Zenon, <1>4 DEF Fits, Ended, Started, Working, Replaying
<1>5. \A v \in Workers : Fits(tx[v])'
  <2> TAKE v \in Workers
  <2>1. CASE v = w  BY Zenon, <1>1, <1>4, <2>1
  <2>2. CASE v # w  BY Zenon, <1>1, <1>4, <2>2 DEF CommandsInv
  <2>3. QED  BY Zenon, <2>1, <2>2
<1>6. Exclusive'  BY <1>1 DEF CommandsInv, Exclusive, Holds
<1>7. QED  BY Zenon, <1>2, <1>3, <1>5, <1>6 DEF CommandsInv

(* A caller sends a command.                                               *)
LEMMA RequestStep ==
    ASSUME CommandsInv, NEW w \in Workers, NEW k \in Keys, NEW d \in Digests, Commands!Request(w, k, d)
    PROVE  CommandsInv'
<1>1. tx' = [tx EXCEPT ![w] = Tx("begin", k, d)] /\ UNCHANGED <<records, executed>>  BY Zenon DEF Commands!Request, Tx
<1>2. Fits(Tx("begin", k, d))  BY Zenon DEF Fits, Ended
<1>3. Tx("begin", k, d).pc = "begin"  BY TxFacts
<1>4. QED  BY Zenon, <1>1, <1>2, <1>3, TxMoves

(* A transaction ends, with an answer or without.                          *)
LEMMA EndStep ==
    ASSUME CommandsInv, NEW w \in Workers, Commands!Reply(w) \/ Commands!Fail(w)
    PROVE  CommandsInv'
<1>1. tx' = [tx EXCEPT ![w] = Commands!Idle] /\ UNCHANGED <<records, executed>>  BY Zenon DEF Commands!Reply, Commands!Fail
<1>2. Fits(Commands!Idle) /\ Commands!Idle.pc = "idle"  BY Zenon, TxFacts DEF Fits, Ended
<1>3. QED  BY Zenon, <1>1, <1>2, TxMoves

(* The insert of a key nobody holds.                                       *)
LEMMA BeginStep ==
    ASSUME CommandsInv, NEW w \in Workers, Commands!BeginKey(w)
    PROVE  CommandsInv'
<1>1. PICK k \in Keys, d \in Digests : tx[w] = Tx("begin", k, d)
  BY Zenon, ShapeOf DEF CommandsInv, Commands!BeginKey
<1>2. tx[w].key = k /\ tx[w].digest = d  BY <1>1, TxFacts
<1> DEFINE outcome == Commands!Begin(records[k], d)
<1>3. tx' = [tx EXCEPT ![w].pc = outcome] /\ UNCHANGED <<records, executed>> /\ Commands!Inserted(k) = {}
  BY Zenon, <1>2 DEF Commands!BeginKey
<1>4. [tx[w] EXCEPT !.pc = outcome] = Tx(outcome, k, d)  BY <1>1 DEF Tx
<1>5. tx' = [tx EXCEPT ![w] = Tx(outcome, k, d)]  BY Zenon, <1>3, <1>4
<1>6. Fits(Tx(outcome, k, d))
  <2>1. Agrees(k)  BY Zenon DEF CommandsInv
  <2>2. CASE outcome = "started" /\ records[k] = Commands!NoRecord  BY Zenon, <2>2 DEF Fits, Started
  <2>3. CASE outcome \in {"conflict", "unavailable"}  BY Zenon, <2>3 DEF Fits, Ended
  <2>4. CASE outcome = "replay" /\ \E b \in Bodies, x \in BOOLEAN : records[k] = Done(d, b, x)
    BY Zenon, <2>4 DEF Fits, Replaying
  <2>5. QED  BY Zenon, <2>1, <2>2, <2>3, <2>4, BeginAnswers
<1> HIDE DEF outcome
<1>7. Tx(outcome, k, d).key = k  BY TxFacts
<1>8. \A v \in Workers : ~Holds(v, k)  BY Zenon, <1>3 DEF Commands!Inserted, Holds
<1>9. QED  BY ZenonT(60), <1>3, <1>5, <1>6, <1>7, <1>8, TxMoves

(* The work of a transaction that holds its key.                           *)
LEMMA WorkStep ==
    ASSUME CommandsInv, NEW w \in Workers, NEW b \in Bodies, Commands!Work(w, b)
    PROVE  CommandsInv'
<1>1. PICK k \in Keys, d \in Digests : tx[w] = Tx("started", k, d) /\ records[k] = Commands!NoRecord
  BY Zenon, ShapeOf DEF CommandsInv, Commands!Work, Started
<1>2. tx[w].key = k /\ tx[w].digest = d /\ tx[w].pc = "started"  BY <1>1, TxFacts
<1>3. tx' = [tx EXCEPT ![w] = FullTx(k, d, b)] /\ UNCHANGED <<records, executed>>
  BY ZenonT(60), <1>2, CompleteFresh DEF Commands!Work, FullTx
<1>4. Fits(FullTx(k, d, b))  BY Zenon, <1>1 DEF Fits, Working
<1>5. FullTx(k, d, b).key = k  BY TxFacts
<1>6. Holds(w, k)  BY Zenon, <1>2 DEF Holds
<1>7. \A v \in Workers : Holds(v, k) => v = w  BY Zenon, <1>6 DEF CommandsInv, Exclusive
<1>8. QED  BY Zenon, <1>3, <1>4, <1>5, <1>7, TxMoves

(* What a commit finds and leaves.                                         *)
LEMMA CommitFacts ==
    ASSUME CommandsInv, NEW w \in Workers, Commands!Commit(w)
    PROVE  \E k \in Keys, d \in Digests, b \in Bodies :
              /\ tx[w] = FullTx(k, d, b) /\ records[k] = Commands!NoRecord /\ executed[k] = {}
              /\ records' = [records EXCEPT ![k] = Done(d, b, FALSE)]
              /\ executed' = [executed EXCEPT ![k] = {Execution(d, b)}]
              /\ tx' = [tx EXCEPT ![w] = Tx("replay", k, d)]
<1>1. PICK k \in Keys, d \in Digests, b \in Bodies : tx[w] = FullTx(k, d, b) /\ records[k] = Commands!NoRecord
  BY Zenon, ShapeOf DEF CommandsInv, Commands!Commit, Working
<1>2. tx[w].key = k /\ tx[w].digest = d /\ tx[w].record = Done(d, b, FALSE)  BY <1>1 DEF FullTx
<1>3. executed[k] = {}
  <2>1. Agrees(k)  BY Zenon DEF CommandsInv
  <2>2. QED  BY <2>1, <1>1, DoneFacts DEF Agrees
<1>4. tx[w].record.body = b  BY <1>2 DEF Done
<1>5. records' = [records EXCEPT ![k] = Done(d, b, FALSE)]  BY Zenon, <1>2 DEF Commands!Commit
<1>6. executed' = [executed EXCEPT ![k] = {Execution(d, b)}]
  <2>1. executed' = [executed EXCEPT ![k] = executed[k] \cup {Execution(d, b)}]
    BY Zenon, <1>2, <1>4 DEF Commands!Commit, Execution
  <2>2. QED  BY Zenon, <2>1, <1>3
<1>7. tx' = [tx EXCEPT ![w] = Tx("replay", k, d)]  BY Zenon, <1>2 DEF Commands!Commit, Tx
<1>8. QED  BY Zenon, <1>1, <1>3, <1>5, <1>6, <1>7

(* A commit: no other transaction relied on the key having no record.      *)
LEMMA CommitStep ==
    ASSUME CommandsInv, NEW w \in Workers, Commands!Commit(w)
    PROVE  CommandsInv'
<1>1. PICK k \in Keys, d \in Digests, b \in Bodies :
              /\ tx[w] = FullTx(k, d, b) /\ records[k] = Commands!NoRecord /\ executed[k] = {}
              /\ records' = [records EXCEPT ![k] = Done(d, b, FALSE)]
              /\ executed' = [executed EXCEPT ![k] = {Execution(d, b)}]
              /\ tx' = [tx EXCEPT ![w] = Tx("replay", k, d)]
  BY Zenon, CommitFacts
<1>2. \A v \in Workers : tx'[v] = IF v = w THEN Tx("replay", k, d) ELSE tx[v]  BY Zenon, <1>1 DEF CommandsInv, CommandsTyped
<1>3. \A j \in Keys : records'[j] = IF j = k THEN Done(d, b, FALSE) ELSE records[j]  BY Zenon, <1>1 DEF CommandsInv, CommandsTyped
<1>4. \A j \in Keys : executed'[j] = IF j = k THEN {Execution(d, b)} ELSE executed[j]  BY Zenon, <1>1 DEF CommandsInv, CommandsTyped
<1>5. CommandsTyped'  BY Zenon, <1>1 DEF CommandsInv, CommandsTyped
<1>6. ASSUME NEW j \in Keys PROVE Agrees(j)'
  <2>1. CASE j = k  BY Zenon, <2>1, <1>3, <1>4 DEF Agrees
  <2>2. CASE j # k
    <3>1. Agrees(j)  BY Zenon DEF CommandsInv
    <3>2. records'[j] = records[j] /\ executed'[j] = executed[j]  BY Zenon, <2>2, <1>3, <1>4
    <3>3. QED  BY Zenon, <3>1, <3>2 DEF Agrees
  <2>3. QED  BY Zenon, <2>1, <2>2
<1>7. Holds(w, k)  BY <1>1, TxFacts DEF Holds
<1>8. ASSUME NEW v \in Workers PROVE Fits(tx[v])'
  <2>1. CASE v = w
    <3>1. Replaying(Tx("replay", k, d))'  BY Zenon, <1>3 DEF Replaying
    <3>2. QED  BY Zenon, <2>1, <1>2, <3>1 DEF Fits
  <2>2. CASE v # w
    <3>1. tx'[v] = tx[v] /\ Fits(tx[v])  BY Zenon, <2>2, <1>2 DEF CommandsInv
    <3>2. ~Holds(v, k)  BY Zenon, <2>2, <1>7 DEF CommandsInv, Exclusive
    <3>3. CASE Ended(tx[v])  BY Zenon, <3>1, <3>3 DEF Fits, Ended
    <3>4. CASE Started(tx[v])
      <4>1. PICK j \in Keys, e \in Digests : tx[v] = Tx("started", j, e) /\ records[j] = Commands!NoRecord
        BY Zenon, <3>4 DEF Started
      <4>2. j # k  BY SMTT(60), <4>1, <3>2, TxFacts DEF Holds
      <4>3. Started(tx[v])'  BY ZenonT(60), <4>1, <4>2, <1>3, <3>1 DEF Started
      <4>4. QED  BY Zenon, <4>3 DEF Fits
    <3>5. CASE Working(tx[v])
      <4>1. PICK j \in Keys, e \in Digests, c \in Bodies : tx[v] = FullTx(j, e, c) /\ records[j] = Commands!NoRecord
        BY Zenon, <3>5 DEF Working
      <4>2. j # k  BY SMTT(60), <4>1, <3>2, TxFacts DEF Holds
      <4>3. Working(tx[v])'  BY Zenon, <4>1, <4>2, <1>3, <3>1 DEF Working
      <4>4. QED  BY Zenon, <4>3 DEF Fits
    <3>6. CASE Replaying(tx[v])
      <4>1. PICK j \in Keys, e \in Digests, c \in Bodies, x \in BOOLEAN :
                tx[v] = Tx("replay", j, e) /\ records[j] = Done(e, c, x)
        BY Zenon, <3>6 DEF Replaying
      <4>2. j # k  BY <4>1, <1>1, DoneFacts
      <4>3. Replaying(tx[v])'  BY Zenon, <4>1, <4>2, <1>3, <3>1 DEF Replaying
      <4>4. QED  BY Zenon, <4>3 DEF Fits
    <3>7. QED  BY Zenon, <3>1, <3>3, <3>4, <3>5, <3>6 DEF Fits
  <2>3. QED  BY Zenon, <2>1, <2>2
<1>9. Exclusive'
  <2>1. Tx("replay", k, d).pc = "replay"  BY TxFacts
  <2>2. QED  BY <2>1, <1>2 DEF CommandsInv, Exclusive, Holds
<1>10. QED  BY Zenon, <1>5, <1>6, <1>8, <1>9 DEF CommandsInv

(* The retention of a record ends; who replays it keeps its answer.        *)
LEMMA ExpireStep ==
    ASSUME CommandsInv, NEW k \in Keys, Commands!Expire(k)
    PROVE  CommandsInv'
<1>1. PICK d \in Digests, b \in Bodies, x \in BOOLEAN :
          records[k] = Done(d, b, x) /\ executed[k] = {Execution(d, b)}
  <2>1. Agrees(k) /\ records[k].state = "completed"  BY Zenon DEF CommandsInv, Commands!Expire
  <2>2. records[k] # Commands!NoRecord  BY <2>1 DEF Commands!NoRecord
  <2>3. QED  BY Zenon, <2>1, <2>2 DEF Agrees
<1>2. [records[k] EXCEPT !.expired = TRUE] = Done(d, b, TRUE)
  <2> DEFINE late == TRUE
  <2> HIDE DEF late
  <2>1. [Done(d, b, x) EXCEPT !.expired = late] = Done(d, b, late)  BY DoneExpires
  <2>2. [records[k] EXCEPT !.expired = late] = Done(d, b, late)  BY Zenon, <2>1, <1>1
  <2>3. QED  BY Zenon, <2>2 DEF late
<1>3. records' = [records EXCEPT ![k] = Done(d, b, TRUE)] /\ UNCHANGED <<tx, executed>>
  BY Zenon, <1>2 DEF Commands!Expire
<1>4. \A j \in Keys : records'[j] = IF j = k THEN Done(d, b, TRUE) ELSE records[j]  BY Zenon, <1>3 DEF CommandsInv, CommandsTyped
<1>5. CommandsTyped'  BY Zenon, <1>3 DEF CommandsInv, CommandsTyped
<1>6. ASSUME NEW j \in Keys PROVE Agrees(j)'
  <2>1. CASE j = k  BY Zenon, <2>1, <1>1, <1>3, <1>4 DEF Agrees
  <2>2. CASE j # k
    <3>1. Agrees(j)  BY Zenon DEF CommandsInv
    <3>2. records'[j] = records[j] /\ executed'[j] = executed[j]  BY Zenon, <2>2, <1>3, <1>4
    <3>3. QED  BY Zenon, <3>1, <3>2 DEF Agrees
  <2>3. QED  BY Zenon, <2>1, <2>2
<1>7. records[k] # Commands!NoRecord  BY SMTT(60), <1>1, DoneFacts
<1>8. ASSUME NEW v \in Workers PROVE Fits(tx[v])'
  <2>1. tx'[v] = tx[v] /\ Fits(tx[v])  BY Zenon, <1>3 DEF CommandsInv
  <2>2. CASE Ended(tx[v])  BY Zenon, <2>1, <2>2 DEF Fits, Ended
  <2>3. CASE Started(tx[v])
    <3>1. Started(tx[v])'  BY Zenon, <2>1, <2>3, <1>4, <1>7 DEF Started
    <3>2. QED  BY Zenon, <3>1 DEF Fits
  <2>4. CASE Working(tx[v])
    <3>1. Working(tx[v])'  BY Zenon, <2>1, <2>4, <1>4, <1>7 DEF Working
    <3>2. QED  BY Zenon, <3>1 DEF Fits
  <2>5. CASE Replaying(tx[v])
    <3>1. PICK j \in Keys, e \in Digests, c \in Bodies, y \in BOOLEAN :
              tx[v] = Tx("replay", j, e) /\ records[j] = Done(e, c, y)
      BY Zenon, <2>5 DEF Replaying
    <3>2. CASE j # k
      <4>1. Replaying(tx[v])'  BY Zenon, <3>1, <3>2, <1>4, <2>1 DEF Replaying
      <4>2. QED  BY Zenon, <4>1 DEF Fits
    <3>3. CASE j = k
      <4>1. e = d  BY <3>1, <3>3, <1>1, DoneFacts
      <4>2. Replaying(tx[v])'  BY Zenon, <3>1, <3>3, <4>1, <1>4, <2>1 DEF Replaying
      <4>3. QED  BY <4>2 DEF Fits
    <3>4. QED  BY Zenon, <3>2, <3>3
  <2>6. QED  BY Zenon, <2>1, <2>2, <2>3, <2>4, <2>5 DEF Fits
<1>9. Exclusive'  BY Zenon, <1>3 DEF CommandsInv, Exclusive, Holds
<1>10. QED  BY Zenon, <1>5, <1>6, <1>8, <1>9 DEF CommandsInv

-----------------------------------------------------------------------------
(* Initially there is no record, no execution and no transaction.          *)
LEMMA CommandsStart == Commands!Init => CommandsInv
<1> SUFFICES ASSUME Commands!Init PROVE CommandsInv  BY Zenon
<1>1. CommandsTyped  BY Zenon DEF Commands!Init, CommandsTyped
<1>2. \A k \in Keys : Agrees(k)  BY Zenon DEF Commands!Init, Agrees
<1>3. \A w \in Workers : tx[w] = Commands!Idle  BY Zenon DEF Commands!Init
<1>4. \A w \in Workers : Fits(tx[w])  BY Zenon, <1>3 DEF Fits, Ended
<1>5. Exclusive  BY Zenon, <1>3, TxFacts DEF Exclusive, Holds
<1>6. QED  BY Zenon, <1>1, <1>2, <1>4, <1>5 DEF CommandsInv

(* Every step keeps the invariant.                                         *)
LEMMA CommandsStep == CommandsInv /\ [Commands!Next]_Commands!vars => CommandsInv'
<1> SUFFICES ASSUME CommandsInv, [Commands!Next]_Commands!vars PROVE CommandsInv'  BY Zenon
<1>1. CASE UNCHANGED Commands!vars
  BY <1>1 DEF Commands!vars, CommandsInv, CommandsTyped, Agrees, Fits, Ended, Started, Working, Replaying, Exclusive, Holds
<1>2. ASSUME NEW w \in Workers, NEW k \in Keys, NEW d \in Digests, Commands!Request(w, k, d) PROVE CommandsInv'
  BY Zenon, <1>2, RequestStep
<1>3. ASSUME NEW w \in Workers, Commands!WorkerStep(w) PROVE CommandsInv'
  BY Zenon, <1>3, BeginStep, WorkStep, CommitStep, EndStep DEF Commands!WorkerStep
<1>4. ASSUME NEW k \in Keys, Commands!Expire(k) PROVE CommandsInv'
  BY Zenon, <1>4, ExpireStep
<1>5. QED  BY Zenon, <1>1, <1>2, <1>3, <1>4 DEF Commands!Next

(* The invariant holds in every behaviour.                                 *)
LEMMA CommandsInductive == Commands!Spec => []CommandsInv
BY CommandsStart, CommandsStep, PTL DEF Commands!Spec

(* No request ever meets a record in progress, so the services' answer to  *)
(* InProgress is never given, however many requests share a key.           *)
THEOREM NobodySeesInProgress == Commands!Spec => []Commands!InProgressIsNeverSeen
<1>1. CommandsInv => Commands!InProgressIsNeverSeen  BY Zenon, ShapeOf DEF CommandsInv, Commands!InProgressIsNeverSeen
<1>2. QED  BY CommandsInductive, <1>1, PTL

-----------------------------------------------------------------------------
(* The idempotency records implement ExactlyOnce: a commit executes the    *)
(* command, a reply answers with what was executed, nothing else shows.    *)
THEOREM CommandsRunOnce == Commands!Spec => Commands!ExactlyOnceSpec
<1>1. Commands!Init => Commands!Once!ExactlyOnceInit  BY Zenon DEF Commands!Init, Commands!Once!ExactlyOnceInit
<1>2. CommandsInv /\ [Commands!Next]_Commands!vars => [Commands!Once!ExactlyOnceNext]_<<executed, answered>>
  <2> SUFFICES ASSUME CommandsInv, [Commands!Next]_Commands!vars
               PROVE  Commands!Once!ExactlyOnceNext \/ UNCHANGED <<executed, answered>>
    BY Zenon
  <2>1. CASE UNCHANGED Commands!vars  BY Zenon, <2>1 DEF Commands!vars
  <2>2. ASSUME NEW w \in Workers, NEW k \in Keys, NEW d \in Digests, Commands!Request(w, k, d)
        PROVE  UNCHANGED <<executed, answered>>
    BY Zenon, <2>2 DEF Commands!Request
  <2>3. ASSUME NEW k \in Keys, Commands!Expire(k) PROVE UNCHANGED <<executed, answered>>
    BY Zenon, <2>3 DEF Commands!Expire
  <2>4. ASSUME NEW w \in Workers, Commands!BeginKey(w) \/ (\E b \in Bodies : Commands!Work(w, b)) \/ Commands!Fail(w)
        PROVE  UNCHANGED <<executed, answered>>
    BY Zenon, <2>4 DEF Commands!BeginKey, Commands!Work, Commands!Fail
  <2>5. ASSUME NEW w \in Workers, Commands!Commit(w) PROVE Commands!Once!ExactlyOnceNext
    <3>1. PICK k \in Keys, d \in Digests, b \in Bodies :
              /\ tx[w] = FullTx(k, d, b) /\ records[k] = Commands!NoRecord /\ executed[k] = {}
              /\ records' = [records EXCEPT ![k] = Done(d, b, FALSE)]
              /\ executed' = [executed EXCEPT ![k] = {Execution(d, b)}]
              /\ tx' = [tx EXCEPT ![w] = Tx("replay", k, d)]
      BY ZenonT(60), <2>5, CommitFacts
    <3>2. answered' = answered  BY Zenon, <2>5 DEF Commands!Commit
    <3>3. Commands!Once!Execute(k, d, b)  BY Zenon, <3>1, <3>2 DEF Commands!Once!Execute, Execution
    <3>4. QED  BY Zenon, <3>3 DEF Commands!Once!ExactlyOnceNext
  <2>6. ASSUME NEW w \in Workers, Commands!Reply(w) PROVE Commands!Once!ExactlyOnceNext
    <3>1. PICK k \in Keys, d \in Digests, b \in Bodies, x \in BOOLEAN :
              tx[w] = Tx("replay", k, d) /\ records[k] = Done(d, b, x)
      BY Zenon, <2>6, ShapeOf DEF CommandsInv, Commands!Reply, Replaying
    <3>2. tx[w].key = k /\ tx[w].digest = d /\ records[k].body = b  BY SMTT(60), <3>1, TxFacts, DoneFacts
    <3>3. Execution(d, b) \in executed[k]
      <4>1. Agrees(k)  BY Zenon DEF CommandsInv
      <4>2. records[k] # Commands!NoRecord  BY SMTT(60), <3>1, DoneFacts
      <4>3. PICK e \in Digests, c \in Bodies, y \in BOOLEAN :
                records[k] = Done(e, c, y) /\ executed[k] = {Execution(e, c)}
        BY Zenon, <4>1, <4>2 DEF Agrees
      <4>4. e = d /\ c = b  BY SMTT(60), <3>1, <4>3 DEF Done
      <4>5. QED  BY Zenon, <4>3, <4>4
    <3>4. answered' = answered \cup {[key |-> k, digest |-> d, body |-> b]} /\ executed' = executed
      BY Zenon, <2>6, <3>2 DEF Commands!Reply
    <3>5. Commands!Once!Answer(k, d, b)  BY Zenon, <3>3, <3>4 DEF Commands!Once!Answer, Execution
    <3>6. QED  BY Zenon, <3>5 DEF Commands!Once!ExactlyOnceNext
  <2>7. QED  BY Zenon, <2>1, <2>2, <2>3, <2>4, <2>5, <2>6 DEF Commands!Next, Commands!WorkerStep
<1>3. QED
  BY CommandsInductive, <1>1, <1>2, PTL DEF Commands!Spec, Commands!ExactlyOnceSpec, Commands!Once!ExactlyOnceSpec, Commands!Once!evars
=============================================================================
