---------------------------- MODULE ServiceProofs ----------------------------
(***************************************************************************)
(* Three services of the process that share a lock or a worker.  For any   *)
(* number of reports and closers, any capacity and batch size, the error   *)
(* reporter sends no report on its closed queue, tells every accepted      *)
(* report exactly once and leaves nothing behind.  For any callers of the  *)
(* configuration signer, a caller gets only a signature of its own bytes.  *)
(* For any calls of the protector of sensitive fields and any domains and  *)
(* values, nothing is protected with erased keys, digests of different     *)
(* domains differ, and a field opens only in the domain it was sealed for. *)
(***************************************************************************)
EXTENDS ErrorReporter, TLAPS

-----------------------------------------------------------------------------
(* Where a report can be.                                                  *)
In(s, r) == \E i \in DOMAIN s : s[i] = r
Tells(rec, r) == \E i \in DOMAIN rec : rec[i].report = r
Busy == worker \in {"gather", "deliver", "sending"}
Held(r) == Busy /\ In(batch, r)
Nowhere(r) == ~In(queue, r) /\ ~Held(r) /\ ~Tells(recorded, r)

Distinct(s) == \A i, j \in DOMAIN s : s[i] = s[j] => i = j
TellsOnce(rec) == \A i, j \in DOMAIN rec : rec[i].report = rec[j].report => i = j

Results == {"dropped", "sent", "provider_failed"}
Told == [report : Reports, result : Results]

Typed ==
    /\ queue \in Seq(Reports) /\ batch \in Seq(Reports) /\ recorded \in Seq(Told)
    /\ answered \in [Reports -> {"none", "accepted", "refused"}]
    /\ readers \subseteq called /\ called \subseteq Reports
    /\ worker \in {"receive", "gather", "deliver", "sending", "done"}

(* A sender inside the lock, or not yet there, has its report nowhere.     *)
Fresh ==
    /\ \A r \in Reports \ called : Nowhere(r) /\ answered[r] # "accepted"
    /\ \A r \in readers : Nowhere(r) /\ answered[r] # "accepted"

(* The queue, the batch and what is told have no report twice or in common.*)
Apart ==
    /\ Distinct(queue) /\ TellsOnce(recorded) /\ (Busy => Distinct(batch))
    /\ \A r \in Reports : /\ In(queue, r) => ~Held(r) /\ ~Tells(recorded, r)
                          /\ Held(r) => ~Tells(recorded, r)

Kept == \A r \in Reports : answered[r] = "accepted" => ~Nowhere(r)

(* The lock: a sender that saw the reporter accepting finds the queue open.*)
Locked == (accepting => open) /\ (readers # {} => open) /\ ~panicked

(* The worker ends, or knows that it must, only at the end of the queue.   *)
Drained == (worker = "done" \/ (Busy /\ queueClosed)) => ~open /\ queue = <<>>

IInv == Typed /\ Fresh /\ Apart /\ Kept /\ Locked /\ Drained

-----------------------------------------------------------------------------
(* Sequences with the same elements are the same.                          *)
LEMMA SeqAlike ==
    ASSUME NEW S, NEW s \in Seq(S), NEW t \in Seq(S), Len(s) = Len(t), \A i \in 1 .. Len(s) : s[i] = t[i]
    PROVE  s = t
OBVIOUS

(* Joining to the empty sequence.                                          *)
LEMMA SeqAfterNone == ASSUME NEW S, NEW s \in Seq(S) PROVE <<>> \o s = s
<1>1. <<>> \o s \in Seq(S) /\ Len(<<>> \o s) = Len(s)
  OBVIOUS
<1>2. \A i \in 1 .. Len(s) : (<<>> \o s)[i] = s[i]
  OBVIOUS
<1> QED BY Zenon, <1>1, <1>2, SeqAlike

(* Joining keeps the elements and adds the lengths.                        *)
LEMMA SeqJoined ==
    ASSUME NEW S, NEW s \in Seq(S), NEW t \in Seq(S)
    PROVE  s \o t \in Seq(S) /\ Len(s \o t) = Len(s) + Len(t)
OBVIOUS

(* What sending a report does to the queue, or a batch.                    *)
LEMMA Appended ==
    ASSUME NEW X, NEW s \in Seq(X), NEW r \in X
    PROVE  /\ Append(s, r) \in Seq(X)
           /\ \A q : In(Append(s, r), q) <=> In(s, q) \/ q = r
           /\ Distinct(s) /\ ~In(s, r) => Distinct(Append(s, r))
<1>1. Append(s, r) \in Seq(X) /\ Len(Append(s, r)) = Len(s) + 1
  OBVIOUS
<1>2. DOMAIN s = 1 .. Len(s) /\ DOMAIN Append(s, r) = 1 .. (Len(s) + 1) /\ Len(s) \in Nat
  BY <1>1
<1>3. /\ \A i \in 1 .. Len(s) : Append(s, r)[i] = s[i]
      /\ Append(s, r)[Len(s) + 1] = r
  OBVIOUS
<1>4. ASSUME NEW q PROVE In(Append(s, r), q) <=> In(s, q) \/ q = r
  BY <1>2, <1>3 DEF In
<1>5. Distinct(s) /\ ~In(s, r) => Distinct(Append(s, r))
  BY <1>2, <1>3 DEF In, Distinct
<1> QED BY Zenon, <1>1, <1>4, <1>5

(* What taking a report from the queue does to it.                         *)
LEMMA Taken ==
    ASSUME NEW X, NEW s \in Seq(X), s # <<>>
    PROVE  /\ Tail(s) \in Seq(X) /\ s[1] \in X
           /\ \A q : In(s, q) <=> In(Tail(s), q) \/ q = s[1]
           /\ Distinct(s) => Distinct(Tail(s)) /\ ~In(Tail(s), s[1])
<1>1. Len(s) \in Nat \ {0} /\ DOMAIN s = 1 .. Len(s)
  OBVIOUS
<1>2. Tail(s) \in Seq(X) /\ Len(Tail(s)) = Len(s) - 1 /\ s[1] \in X
  BY <1>1
<1>3. DOMAIN Tail(s) = 1 .. (Len(s) - 1)
  BY <1>2
<1>4. \A i \in 1 .. (Len(s) - 1) : Tail(s)[i] = s[i + 1]
  BY <1>1
<1>5. ASSUME NEW q PROVE In(s, q) <=> In(Tail(s), q) \/ q = s[1]
  <2>1. ASSUME NEW i \in 1 .. Len(s), s[i] = q, i # 1 PROVE In(Tail(s), q)
    <3>1. i - 1 \in 1 .. (Len(s) - 1) /\ Tail(s)[i - 1] = s[i]
      BY <1>1, <1>4, <2>1
    <3> QED BY Zenon, <1>3, <2>1, <3>1 DEF In
  <2>2. ASSUME In(Tail(s), q) PROVE In(s, q)
    <3>1. PICK i \in 1 .. (Len(s) - 1) : Tail(s)[i] = q
      BY Zenon, <1>3, <2>2 DEF In
    <3>2. i + 1 \in 1 .. Len(s) /\ s[i + 1] = q
      BY <1>1, <1>4, <3>1
    <3> QED BY Zenon, <1>1, <3>2 DEF In
  <2>3. 1 \in 1 .. Len(s)
    BY <1>1
  <2> QED BY Zenon, <1>1, <2>1, <2>2, <2>3 DEF In
<1>6. ASSUME Distinct(s) PROVE Distinct(Tail(s)) /\ ~In(Tail(s), s[1])
  <2>1. ASSUME NEW i \in 1 .. (Len(s) - 1)
        PROVE  i + 1 \in 1 .. Len(s) /\ 1 \in 1 .. Len(s) /\ i + 1 # 1 /\ Tail(s)[i] = s[i + 1]
    BY <1>1, <1>4
  <2>2. ~In(Tail(s), s[1])
    BY Zenon, <1>1, <1>3, <1>6, <2>1 DEF In, Distinct
  <2>3. ASSUME NEW i \in 1 .. (Len(s) - 1), NEW j \in 1 .. (Len(s) - 1), Tail(s)[i] = Tail(s)[j]
        PROVE  i = j
    <3>1. i + 1 = j + 1
      BY <1>1, <1>6, <2>1, <2>3 DEF Distinct
    <3> QED BY <3>1
  <2> QED BY Zenon, <1>3, <2>2, <2>3 DEF Distinct
<1> QED BY Zenon, <1>2, <1>5, <1>6

(* A batch of one report.                                                  *)
LEMMA Single ==
    ASSUME NEW X, NEW r \in X
    PROVE  /\ <<r>> \in Seq(X) /\ Distinct(<<r>>)
           /\ \A q : In(<<r>>, q) <=> q = r
BY DEF In, Distinct

(* Telling the reports of a sequence to the observer.                      *)
LEMMA Recorded ==
    ASSUME Typed, NEW rs \in Seq(Reports), NEW x \in Results, record(rs, x)
    PROVE  /\ recorded' \in Seq(Told)
           /\ \A q : Tells(recorded', q) <=> Tells(recorded, q) \/ In(rs, q)
           /\ TellsOnce(recorded) /\ Distinct(rs) /\ (\A r \in Reports : In(rs, r) => ~Tells(recorded, r))
                => TellsOnce(recorded')
<1> DEFINE new == [i \in DOMAIN rs |-> [report |-> rs[i], result |-> x]]
           m == Len(recorded)
           n == Len(rs)
<1>1. m \in Nat /\ n \in Nat /\ DOMAIN recorded = 1 .. m /\ DOMAIN rs = 1 .. n
  BY DEF Typed
<1>2. new \in Seq(Told) /\ Len(new) = n /\ \A i \in 1 .. n : new[i].report = rs[i]
  <2>1. new \in [1 .. n -> Told]
    BY <1>1 DEF Told
  <2> QED BY <1>1, <2>1
<1>3. recorded' = recorded \o new
  BY Zenon DEF record
<1> HIDE DEF new
<1>4. recorded' \in Seq(Told) /\ Len(recorded') = m + n /\ DOMAIN recorded' = 1 .. (m + n)
  <2>1. recorded \in Seq(Told)
    BY Zenon DEF Typed
  <2>2. recorded \o new \in Seq(Told) /\ Len(recorded \o new) = Len(recorded) + Len(new)
    BY Zenon, <1>2, <2>1, SeqJoined
  <2> QED BY <1>1, <1>2, <1>3, <2>2
<1>5. \A i \in 1 .. m : recorded'[i] = recorded[i]
  BY <1>1, <1>2, <1>3 DEF Typed
<1>6. \A i \in 1 .. n : recorded'[m + i].report = rs[i]
  BY <1>1, <1>2, <1>3 DEF Typed
<1>7. \A k \in 1 .. (m + n) : k \in 1 .. m \/ (k - m \in 1 .. n /\ k = m + (k - m))
  BY <1>1
<1>8. \A i \in 1 .. m : i \in 1 .. (m + n)
  BY <1>1
<1>9. \A i \in 1 .. n : m + i \in 1 .. (m + n)
  BY <1>1
<1> HIDE DEF m, n
<1>10. ASSUME NEW q PROVE Tells(recorded', q) <=> Tells(recorded, q) \/ In(rs, q)
  <2>1. ASSUME NEW k \in 1 .. (m + n), recorded'[k].report = q PROVE Tells(recorded, q) \/ In(rs, q)
    <3>1. CASE k \in 1 .. m
      BY Zenon, <1>1, <1>5, <2>1, <3>1 DEF Tells
    <3>2. CASE k - m \in 1 .. n /\ k = m + (k - m)
      <4>1. recorded'[m + (k - m)].report = rs[k - m]
        BY Zenon, <1>6, <3>2
      <4> QED BY Zenon, <1>1, <2>1, <3>2, <4>1 DEF In
    <3> QED BY Zenon, <1>7, <3>1, <3>2
  <2>2. Tells(recorded, q) => Tells(recorded', q)
    BY Zenon, <1>1, <1>4, <1>5, <1>8 DEF Tells
  <2>3. In(rs, q) => Tells(recorded', q)
    BY Zenon, <1>1, <1>4, <1>6, <1>9 DEF Tells, In
  <2> QED BY Zenon, <1>4, <2>1, <2>2, <2>3 DEF Tells
<1>11. ASSUME TellsOnce(recorded), Distinct(rs), \A r \in Reports : In(rs, r) => ~Tells(recorded, r),
              NEW i \in 1 .. (m + n), NEW j \in 1 .. (m + n), recorded'[i].report = recorded'[j].report
       PROVE  i = j
  <2>1. ASSUME NEW k \in 1 .. m, NEW l \in 1 .. n PROVE recorded'[k].report # recorded'[m + l].report
    <3>1. rs[l] \in Reports /\ In(rs, rs[l])
      BY <1>1 DEF In
    <3>2. ~Tells(recorded, rs[l])
      BY Zenon, <1>11, <3>1
    <3>3. recorded[k].report # rs[l]
      BY Zenon, <1>1, <3>2 DEF Tells
    <3> QED BY Zenon, <1>5, <1>6, <3>3
  <2>2. CASE i \in 1 .. m /\ j \in 1 .. m
    BY Zenon, <1>1, <1>5, <1>11, <2>2 DEF TellsOnce
  <2>3. CASE i - m \in 1 .. n /\ j - m \in 1 .. n
    <3>1. i = m + (i - m) /\ j = m + (j - m)
      BY <1>1
    <3>2. rs[i - m] = rs[j - m]
      BY Zenon, <1>6, <1>11, <2>3, <3>1
    <3>3. i - m = j - m
      BY Zenon, <1>1, <1>11, <2>3, <3>2 DEF Distinct
    <3> QED BY Zenon, <3>1, <3>3
  <2>4. CASE i \in 1 .. m /\ j - m \in 1 .. n
    <3>1. j = m + (j - m)
      BY <1>1
    <3> QED BY Zenon, <1>11, <2>1, <2>4, <3>1
  <2>5. CASE j \in 1 .. m /\ i - m \in 1 .. n
    <3>1. i = m + (i - m)
      BY <1>1
    <3> QED BY Zenon, <1>11, <2>1, <2>5, <3>1
  <2> QED BY Zenon, <1>7, <2>2, <2>3, <2>4, <2>5
<1> QED BY Zenon, <1>4, <1>10, <1>11 DEF TellsOnce

-----------------------------------------------------------------------------
(* At the start there is no report anywhere.                               *)
LEMMA InitInv == Init => IInv
<1> SUFFICES ASSUME Init PROVE IInv
  BY Zenon
<1>1. \A r : ~In(<<>>, r) /\ ~Tells(<<>>, r)
  BY DEF In, Tells
<1>2. Typed /\ \A r : Nowhere(r)
  BY <1>1 DEF Init, Typed, Nowhere, Held, Busy, NoAnswer
<1>3. Distinct(queue) /\ TellsOnce(recorded) /\ ~Busy
  BY DEF Init, Distinct, TellsOnce, Busy
<1> QED BY Zenon, <1>2, <1>3 DEF Init, IInv, Fresh, Apart, Kept, Locked, Drained, Nowhere, Held, NoAnswer

(* TryReport up to the lock: the report is still nowhere.                  *)
LEMMA CheckStep == ASSUME IInv, NEW r \in Reports, Check(r) PROVE IInv'
<1> USE DEF IInv
<1>1. UNCHANGED <<queue, batch, recorded, worker, queueClosed, open, accepting, panicked>>
  BY Zenon DEF Check, Refuse, OfWorker
<1>2. \A q : Nowhere(q)' = Nowhere(q) /\ Held(q)' = Held(q)
  BY Zenon, <1>1 DEF Nowhere, Held, Busy
<1>3. called' = called \cup {r} /\ r \notin called
  BY Zenon DEF Check
<1>4. \/ readers' = readers /\ answered' = [answered EXCEPT ![r] = "refused"]
      \/ accepting /\ readers' = readers \cup {r} /\ answered' = answered
  BY Zenon DEF Check, Refuse
<1>5. Typed'
  BY Zenon, <1>1, <1>3, <1>4 DEF Typed
<1>6. \A q \in Reports : answered'[q] = "accepted" <=> answered[q] = "accepted"
  BY Zenon, <1>3, <1>4 DEF Fresh, Typed
<1>7. Fresh'
  BY Zenon, <1>2, <1>3, <1>4, <1>6 DEF Fresh, Typed
<1>8. Apart' /\ Kept'
  BY Zenon, <1>1, <1>2, <1>6 DEF Apart, Kept, Busy
<1>9. Locked' /\ Drained'
  BY Zenon, <1>1, <1>4 DEF Locked, Drained, Busy
<1> QED BY Zenon, <1>5, <1>7, <1>8, <1>9

(* A send finds the queue open; its report enters the queue or is told.    *)
LEMMA SendStep == ASSUME IInv, NEW r \in Reports, Send(r) PROVE IInv'
<1> USE DEF IInv
<1>1. UNCHANGED <<batch, worker, queueClosed, open, accepting, called>>
  BY Zenon DEF Send, OfWorker
<1>2. readers' = readers \ {r} /\ r \in readers /\ open
  BY Zenon DEF Send, Locked
<1>3. Nowhere(r) /\ answered[r] # "accepted"
  BY Zenon, <1>2 DEF Fresh
<1>4. \A q : Held(q)' = Held(q)
  BY Zenon, <1>1 DEF Held, Busy
<1>5. CASE queue' = Append(queue, r) /\ answered' = [answered EXCEPT ![r] = "accepted"] /\ UNCHANGED <<recorded, panicked>>
  <2>1. /\ queue' \in Seq(Reports)
        /\ \A q : In(queue', q) <=> In(queue, q) \/ q = r
        /\ Distinct(queue')
    BY Zenon, <1>3, <1>5, Appended DEF Typed, Apart, Nowhere
  <2>2. Typed'
    BY Zenon, <1>1, <1>2, <1>5, <2>1 DEF Typed
  <2>3. \A q : q # r => Nowhere(q)' = Nowhere(q)
    BY Zenon, <1>4, <1>5, <2>1 DEF Nowhere
  <2>4. ~Nowhere(r)'
    BY Zenon, <2>1 DEF Nowhere
  <2>5. Fresh'
    BY Zenon, <1>1, <1>2, <1>5, <2>3 DEF Fresh, Typed
  <2>6. Apart'
    BY Zenon, <1>1, <1>3, <1>4, <1>5, <2>1 DEF Apart, Busy, Nowhere
  <2>7. Kept'
    BY Zenon, <1>5, <2>3, <2>4 DEF Kept, Typed
  <2> QED BY Zenon, <1>1, <1>2, <1>5, <2>2, <2>5, <2>6, <2>7 DEF Locked, Drained, Busy
<1>6. CASE record(<<r>>, "dropped") /\ answered' = [answered EXCEPT ![r] = "refused"] /\ UNCHANGED <<queue, panicked>>
  <2>1. <<r>> \in Seq(Reports) /\ Distinct(<<r>>) /\ \A q : In(<<r>>, q) <=> q = r
    BY Zenon, Single
  <2>2. \A q \in Reports : In(<<r>>, q) => ~Tells(recorded, q)
    BY Zenon, <1>3, <2>1 DEF Nowhere
  <2>3. "dropped" \in Results
    BY Zenon DEF Results
  <2>4. /\ recorded' \in Seq(Told)
        /\ \A q : Tells(recorded', q) <=> Tells(recorded, q) \/ q = r
        /\ TellsOnce(recorded')
    BY Zenon, <1>6, <2>1, <2>2, <2>3, Recorded DEF Apart
  <2>5. Typed'
    BY Zenon, <1>1, <1>2, <1>6, <2>4 DEF Typed
  <2>6. \A q : q # r => Nowhere(q)' = Nowhere(q)
    BY Zenon, <1>4, <1>6, <2>4 DEF Nowhere
  <2>7. Fresh'
    BY Zenon, <1>1, <1>2, <1>6, <2>6 DEF Fresh, Typed
  <2>8. Apart'
    BY Zenon, <1>1, <1>3, <1>4, <1>6, <2>4 DEF Apart, Busy, Nowhere
  <2>9. Kept'
    BY Zenon, <1>6, <2>6 DEF Kept, Typed
  <2> QED BY Zenon, <1>1, <1>2, <1>6, <2>5, <2>7, <2>8, <2>9 DEF Locked, Drained, Busy
<1> QED BY Zenon, <1>2, <1>5, <1>6 DEF Send

(* A step of the worker that leaves every report somewhere, or nowhere, as *)
(* it was keeps what the senders rely on.                                  *)
LEMMA WorkerRest ==
    ASSUME IInv, UNCHANGED OfSenders, UNCHANGED panicked, NEW w \in {"receive", "gather", "deliver", "sending", "done"},
           worker' = w, queue' \in Seq(Reports), batch' \in Seq(Reports), recorded' \in Seq(Told),
           \A r \in Reports : Nowhere(r)' <=> Nowhere(r)
    PROVE  Typed' /\ Fresh' /\ Kept' /\ Locked'
<1> USE DEF IInv, OfSenders
<1>1. Typed'
  BY Zenon DEF Typed
<1>2. Fresh' /\ Kept'
  BY Zenon DEF Fresh, Kept, Typed
<1> QED BY Zenon, <1>1, <1>2 DEF Locked

(* The first report of a batch leaves the queue, or the worker ends.       *)
LEMMA ReceiveStep == ASSUME IInv, Receive PROVE IInv'
<1> USE DEF IInv
<1>1. UNCHANGED OfSenders /\ UNCHANGED panicked /\ recorded' = recorded /\ worker = "receive"
  BY Zenon DEF Receive
<1>2. ~Busy /\ \A q : ~Held(q)
  BY Zenon, <1>1 DEF Busy, Held
<1>3. CASE queue # <<>> /\ batch' = <<queue[1]>> /\ queue' = Tail(queue) /\ queueClosed' = FALSE
           /\ worker' = IF BatchMax = 1 THEN "deliver" ELSE "gather"
  <2>1. /\ queue' \in Seq(Reports) /\ queue[1] \in Reports
        /\ \A q : In(queue, q) <=> In(queue', q) \/ q = queue[1]
        /\ Distinct(queue') /\ ~In(queue', queue[1])
    BY Zenon, <1>3, Taken DEF Typed, Apart
  <2>2. batch' \in Seq(Reports) /\ Distinct(batch') /\ \A q : In(batch', q) <=> q = queue[1]
    BY Zenon, <1>3, <2>1, Single
  <2>3. Busy' /\ \A q : Held(q)' <=> q = queue[1]
    BY Zenon, <1>3, <2>2 DEF Busy, Held
  <2>4. \A q \in Reports : Nowhere(q)' <=> Nowhere(q)
    BY Zenon, <1>1, <1>2, <2>1, <2>3 DEF Nowhere
  <2>5. Typed' /\ Fresh' /\ Kept' /\ Locked'
    BY Zenon, <1>1, <1>3, <2>1, <2>2, <2>4, WorkerRest DEF Typed
  <2>6. Apart'
    BY Zenon, <1>1, <2>1, <2>2, <2>3 DEF Apart
  <2>7. Drained'
    BY Zenon, <1>3 DEF Drained, Busy
  <2> QED BY Zenon, <2>5, <2>6, <2>7
<1>4. CASE queue = <<>> /\ ~open /\ worker' = "done" /\ UNCHANGED <<queue, batch, queueClosed>>
  <2>1. \A q : Held(q)' <=> Held(q)
    BY Zenon, <1>2, <1>4 DEF Held, Busy
  <2>2. \A q : Nowhere(q)' <=> Nowhere(q)
    BY Zenon, <1>1, <1>4, <2>1 DEF Nowhere
  <2>3. Typed' /\ Fresh' /\ Kept' /\ Locked'
    BY Zenon, <1>1, <1>4, <2>2, WorkerRest DEF Typed
  <2>4. Apart'
    BY Zenon, <1>1, <1>4, <2>1 DEF Apart, Busy
  <2>5. Drained'
    BY Zenon, <1>1, <1>4 DEF Drained, OfSenders
  <2> QED BY <2>3, <2>4, <2>5
<1> QED BY Zenon, <1>3, <1>4 DEF Receive

(* The batch grows, or the worker sees the end of the queue.               *)
LEMMA GatherStep == ASSUME IInv, Gather PROVE IInv'
<1> USE DEF IInv
<1>1. UNCHANGED OfSenders /\ UNCHANGED panicked /\ recorded' = recorded /\ worker = "gather"
  BY Zenon DEF Gather
<1>2. worker' \in {"gather", "deliver"}
  BY Zenon DEF Gather
<1>3. Busy /\ Busy' /\ (\A q : Held(q) <=> In(batch, q)) /\ (\A q : Held(q)' <=> In(batch', q))
  BY Zenon, <1>1, <1>2 DEF Busy, Held
<1>4. CASE queue # <<>> /\ batch' = Append(batch, queue[1]) /\ queue' = Tail(queue) /\ queueClosed' = queueClosed
  <2>1. /\ queue' \in Seq(Reports) /\ queue[1] \in Reports
        /\ \A q : In(queue, q) <=> In(queue', q) \/ q = queue[1]
        /\ Distinct(queue') /\ ~In(queue', queue[1])
    BY Zenon, <1>4, Taken DEF Typed, Apart
  <2>2. ~In(batch, queue[1]) /\ ~Tells(recorded, queue[1])
    BY Zenon, <1>3, <2>1 DEF Apart
  <2>3. batch' \in Seq(Reports) /\ Distinct(batch') /\ \A q : In(batch', q) <=> In(batch, q) \/ q = queue[1]
    BY SMTT(60), <1>3, <1>4, <2>1, <2>2, Appended DEF Typed, Apart
  <2>4. \A q \in Reports : Nowhere(q)' <=> Nowhere(q)
    BY Zenon, <1>1, <1>3, <2>1, <2>3 DEF Nowhere
  <2>5. Typed' /\ Fresh' /\ Kept' /\ Locked'
    BY Zenon, <1>1, <1>2, <2>1, <2>3, <2>4, WorkerRest DEF Typed
  <2>6. Apart'
    BY Zenon, <1>1, <1>3, <2>1, <2>2, <2>3 DEF Apart
  <2>7. Drained'
    BY Zenon, <1>2, <1>3, <1>4 DEF Drained
  <2> QED BY Zenon, <2>5, <2>6, <2>7
<1>5. CASE queue = <<>> /\ queueClosed' = ~open /\ UNCHANGED <<batch, queue>>
  <2>1. \A q : Nowhere(q)' <=> Nowhere(q)
    BY Zenon, <1>1, <1>3, <1>5 DEF Nowhere
  <2>2. Typed' /\ Fresh' /\ Kept' /\ Locked'
    BY Zenon, <1>1, <1>2, <1>5, <2>1, WorkerRest DEF Typed
  <2>3. Apart'
    BY Zenon, <1>1, <1>3, <1>5 DEF Apart
  <2>4. Drained'
    BY Zenon, <1>1, <1>2, <1>5 DEF Drained, OfSenders
  <2> QED BY <2>2, <2>3, <2>4
<1> QED BY Zenon, <1>4, <1>5 DEF Gather

(* Telling the batch ends it.                                              *)
LEMMA TellStep ==
    ASSUME IInv, Busy, NEW x \in Results, record(batch, x), Delivered,
           UNCHANGED <<queue, batch, queueClosed, panicked>>, UNCHANGED OfSenders
    PROVE  IInv'
<1> USE DEF IInv
<1>1. \A r \in Reports : In(batch, r) => ~Tells(recorded, r)
  BY Zenon DEF Apart, Held
<1>2. /\ recorded' \in Seq(Told) /\ TellsOnce(recorded')
      /\ \A q : Tells(recorded', q) <=> Tells(recorded, q) \/ In(batch, q)
  BY Zenon, <1>1, Recorded DEF Typed, Apart
<1>3. worker' \in {"receive", "done"} /\ ~Busy' /\ \A q : ~Held(q)'
  BY Zenon DEF Delivered, Busy, Held
<1>4. \A q : Nowhere(q)' <=> Nowhere(q)
  BY Zenon, <1>2, <1>3 DEF Nowhere, Held
<1>5. Typed' /\ Fresh' /\ Kept' /\ Locked'
  BY Zenon, <1>2, <1>3, <1>4, WorkerRest DEF Typed
<1>6. Apart'
  BY Zenon, <1>2, <1>3 DEF Apart, Held
<1>7. Drained'
  BY Zenon, <1>3 DEF Drained, Delivered, OfSenders
<1> QED BY Zenon, <1>5, <1>6, <1>7

(* Delivering hands the batch to the provider, or drops it.                *)
LEMMA DeliverStep == ASSUME IInv, Deliver PROVE IInv'
<1> USE DEF IInv
<1>1. Busy /\ worker = "deliver" /\ UNCHANGED <<queue, batch, queueClosed, panicked>> /\ UNCHANGED OfSenders
  BY Zenon DEF Deliver, Busy
<1>2. CASE cancelled
  <2>1. record(batch, "dropped") /\ Delivered /\ "dropped" \in Results
    BY Zenon, <1>2 DEF Deliver, Results
  <2> QED BY Zenon, <1>1, <2>1, TellStep
<1>3. CASE ~cancelled
  <2>1. worker' = "sending" /\ recorded' = recorded
    BY Zenon, <1>3 DEF Deliver
  <2>2. Busy' /\ \A q : Held(q)' <=> Held(q)
    BY Zenon, <1>1, <2>1 DEF Busy, Held
  <2>3. \A q : Nowhere(q)' <=> Nowhere(q)
    BY Zenon, <1>1, <2>1, <2>2 DEF Nowhere
  <2>4. Typed' /\ Fresh' /\ Kept' /\ Locked'
    BY Zenon, <1>1, <2>1, <2>3, WorkerRest DEF Typed
  <2>5. Apart'
    BY Zenon, <1>1, <2>1, <2>2 DEF Apart
  <2>6. Drained'
    BY Zenon, <1>1, <2>1 DEF Drained, OfSenders
  <2> QED BY Zenon, <2>4, <2>5, <2>6
<1> QED BY Zenon, <1>2, <1>3

(* The provider's answer, whatever it is, ends the batch.                  *)
LEMMA ProviderStep == ASSUME IInv, ProviderAnswers PROVE IInv'
<1>1. /\ Busy /\ Delivered
      /\ UNCHANGED <<queue, batch, queueClosed, panicked>> /\ UNCHANGED OfSenders
  BY Zenon DEF ProviderAnswers, Busy
<1>2. "sent" \in Results /\ (IF cancelled THEN "dropped" ELSE "provider_failed") \in Results
  BY Zenon DEF Results
<1>3. CASE record(batch, "sent")
  BY Zenon, <1>1, <1>2, <1>3, TellStep
<1>4. CASE record(batch, IF cancelled THEN "dropped" ELSE "provider_failed")
  BY Zenon, <1>1, <1>2, <1>4, TellStep
<1> QED BY Zenon, <1>3, <1>4 DEF ProviderAnswers

(* Close moves no report, and closes the queue on no sender.               *)
LEMMA CloseStep ==
    ASSUME IInv, UNCHANGED <<queue, batch, recorded, worker, queueClosed, readers, called, answered, panicked>>,
           \/ UNCHANGED <<open, accepting>>
           \/ accepting' = FALSE /\ open' = FALSE /\ readers = {}
    PROVE  IInv'
<1> USE DEF IInv
<1>1. \A q : (Held(q)' <=> Held(q)) /\ (Nowhere(q)' <=> Nowhere(q))
  BY Zenon DEF Held, Nowhere, Busy
<1>2. Typed' /\ Fresh' /\ Kept'
  BY Zenon, <1>1 DEF Typed, Fresh, Kept
<1>3. Apart'
  BY Zenon, <1>1 DEF Apart, Busy
<1>4. Locked' /\ Drained'
  BY DEF Locked, Drained, Busy
<1> QED BY Zenon, <1>2, <1>3, <1>4

(* Every step keeps the invariant.                                         *)
LEMMA StepInv == IInv /\ [Next]_vars => IInv'
<1> SUFFICES ASSUME IInv, [Next]_vars PROVE IInv'
  BY Zenon
<1>1. ASSUME NEW r \in Reports, TryReport(r) PROVE IInv'
  BY Zenon, <1>1, CheckStep, SendStep DEF TryReport
<1>2. CASE Run
  BY Zenon, <1>2, ReceiveStep, GatherStep, DeliverStep DEF Run
<1>3. CASE ProviderAnswers
  BY Zenon, <1>3, ProviderStep
<1>4. ASSUME NEW c \in Closers, Close(c) PROVE IInv'
  <2>1. CASE CloseQueue(c)
    BY Zenon, <2>1, CloseStep DEF CloseQueue, OfWorker
  <2>2. CASE CloseWaitingForReaders(c) \/ CloseAgain(c) \/ CloseDone(c) \/ CloseCancels(c) \/ CloseGivesUp(c)
    <3>1. UNCHANGED <<queue, recorded, panicked, OfWorker, OfSenders>>
      BY Zenon, <2>2 DEF CloseWaitingForReaders, CloseAgain, CloseDone, CloseCancels, CloseGivesUp
    <3> QED BY Zenon, <3>1, CloseStep DEF OfWorker, OfSenders
  <2> QED BY Zenon, <1>4, <2>1, <2>2 DEF Close
<1>5. CASE Deadline \/ UNCHANGED vars
  <2>1. UNCHANGED <<queue, recorded, panicked, OfWorker, OfSenders>>
    BY Zenon, <1>5 DEF Deadline, vars, OfWorker, OfSenders
  <2> QED BY Zenon, <2>1, CloseStep DEF OfWorker, OfSenders
<1> QED BY Zenon, <1>1, <1>2, <1>3, <1>4, <1>5 DEF Next

-----------------------------------------------------------------------------
(* The sizes of the sets of places a report is told in.                    *)
LEMMA EmptyCount == Cardinality({}) = 0
BY Zenon DEF Cardinality

(* A set of one place.                                                     *)
LEMMA SingletonCount == ASSUME NEW x PROVE Cardinality({x}) = 1
<1> DEFINE Counts(CS) == CS = [T \in SUBSET {x} |-> IF T = {} THEN 0 ELSE 1 + CS[T \ {CHOOSE y : y \in T}]]
           F == [T \in SUBSET {x} |-> IF T = {} THEN 0 ELSE 1]
           G == CHOOSE CS : Counts(CS)
<1>1. \A T \in SUBSET {x} : T # {} => T = {x}
  BY Zenon
<1>2. (CHOOSE y : y \in {x}) = x /\ {x} \ {x} = {}
  BY Zenon
<1>3. Counts(F)
  BY <1>1, <1>2
<1>4. Counts(G)
  BY Zenon, <1>3
<1>5. G[{}] = 0 /\ G[{x}] = 1 + G[{x} \ {CHOOSE y : y \in {x}}]
  BY Zenon, <1>4
<1>6. G[{x}] = 1
  BY <1>2, <1>5
<1>7. Cardinality({x}) = G[{x}]
  BY Zenon DEF Cardinality
<1> QED BY Zenon, <1>6, <1>7

(* How often a report is told: once if it is told at all.                  *)
LEMMA Counted ==
    ASSUME IInv, NEW r \in Reports
    PROVE  RecordsOf(r) = IF Tells(recorded, r) THEN 1 ELSE 0
<1> DEFINE places == {i \in DOMAIN recorded : recorded[i].report = r}
<1>1. CASE Tells(recorded, r)
  <2>1. PICK i \in DOMAIN recorded : recorded[i].report = r
    BY Zenon, <1>1 DEF Tells
  <2>2. places = {i}
    BY Zenon, <2>1 DEF IInv, Apart, TellsOnce
  <2> QED BY Zenon, <1>1, <2>2, SingletonCount DEF RecordsOf
<1>2. CASE ~Tells(recorded, r)
  <2>1. places = {}
    BY Zenon, <1>2 DEF Tells
  <2> QED BY Zenon, <1>2, <2>1, EmptyCount DEF RecordsOf
<1> QED BY Zenon, <1>1, <1>2

(* TryReport never sends on the queue that Close has closed.               *)
THEOREM SendsFindTheQueueOpen == Spec => []NeverPanics
<1>1. IInv => NeverPanics
  BY Zenon DEF IInv, Locked, NeverPanics
<1> QED BY <1>1, InitInv, StepInv, PTL DEF Spec

(* A report TryReport accepted is told to the observer once, or still in   *)
(* the queue or the batch; no report is told twice.                        *)
THEOREM ReportsAreAccountedFor == Spec => []AccountedOnce
<1>1. IInv => AccountedOnce
  <2> SUFFICES ASSUME IInv, NEW r \in Reports
               PROVE  /\ RecordsOf(r) <= 1
                      /\ answered[r] = "accepted" =>
                           \/ \E i \in DOMAIN queue : queue[i] = r
                           \/ RecordsOf(r) = 1
                           \/ worker \in {"gather", "deliver", "sending"} /\ \E i \in DOMAIN batch : batch[i] = r
    BY Zenon DEF AccountedOnce
  <2>1. RecordsOf(r) <= 1
    BY Counted
  <2>2. answered[r] = "accepted" => In(queue, r) \/ Held(r) \/ RecordsOf(r) = 1
    BY Zenon, Counted DEF IInv, Kept, Nowhere
  <2> QED BY Zenon, <2>1, <2>2 DEF In, Held, Busy
<1> QED BY <1>1, InitInv, StepInv, PTL DEF Spec

(* When the worker has ended the queue is empty and every accepted report  *)
(* was told: Close loses none.                                             *)
THEOREM CloseLosesNothing == Spec => []NothingLeftBehind
<1>1. IInv => NothingLeftBehind
  <2> SUFFICES ASSUME IInv, worker = "done"
               PROVE  queue = <<>> /\ \A r \in Reports : answered[r] = "accepted" => RecordsOf(r) = 1
    BY Zenon DEF NothingLeftBehind
  <2>1. queue = <<>>
    BY Zenon DEF IInv, Drained
  <2>2. ASSUME NEW r \in Reports, answered[r] = "accepted" PROVE RecordsOf(r) = 1
    <3>1. ~In(queue, r) /\ ~Held(r)
      BY <2>1 DEF In, Held, Busy
    <3>2. Tells(recorded, r)
      BY Zenon, <2>2, <3>1 DEF IInv, Kept, Nowhere
    <3> QED BY Zenon, <3>2, Counted
  <2> QED BY Zenon, <2>1, <2>2
<1> QED BY <1>1, InitInv, StepInv, PTL DEF Spec

(***************************************************************************)
(* The signer of configurations.  What a caller gets is a signature of its *)
(* message: the worker replies on the channel of the request it took.      *)
(***************************************************************************)
CONSTANTS Callers, MaxCalls

VARIABLES caller, signer, signerClosed, signerDone

Signer == INSTANCE ConfigSigner WITH worker <- signer, closed <- signerClosed, done <- signerDone

Messages == {Signer!NoCall} \cup [caller : Callers, call : Nat]

SignerTyped ==
    /\ caller \in [Callers -> [at : {"idle", "offer", "wait"}, call : Nat, expired : BOOLEAN,
                               result : Messages]]
    /\ signer \in [at : {"select", "check", "provider", "reply", "stopped"}, request : Messages,
                   signed : Messages]

(* What the worker is about to send is a signature of the request it took, *)
(* or nothing.  This is what SignaturesAreOwn lacks: that the result       *)
(* channel belongs to the request says who gets it, not what it is.        *)
ReplyIsOfRequest == signer.at = "reply" => signer.signed \in {Signer!NoCall, signer.request}

SignerInv == SignerTyped /\ ReplyIsOfRequest /\ Signer!SignaturesAreOwn

-----------------------------------------------------------------------------
(* Nobody has a signature at the start.                                    *)
LEMMA SignerStart == Signer!Init => SignerInv
BY DEF Signer!Init, SignerInv, SignerTyped, ReplyIsOfRequest, Signer!SignaturesAreOwn, Messages, Signer!NoCall

(* A caller that moves without a new result keeps the one it has, and its  *)
(* call number with it.                                                    *)
LEMMA CallerMoves ==
    ASSUME SignerInv, NEW c \in Callers,
           \/ \E e \in BOOLEAN : caller' = [caller EXCEPT ![c].expired = e]
           \/ caller' = [caller EXCEPT ![c].at = "wait"]
    PROVE  /\ caller' \in [Callers -> [at : {"idle", "offer", "wait"}, call : Nat, expired : BOOLEAN,
                                       result : Messages]]
           /\ Signer!SignaturesAreOwn'
<1> USE DEF SignerInv, SignerTyped, Signer!SignaturesAreOwn, Signer!Message
<1>1. CASE \E e \in BOOLEAN : caller' = [caller EXCEPT ![c].expired = e]
  <2>1. PICK e \in BOOLEAN : caller' = [caller EXCEPT ![c].expired = e]
    BY Zenon, <1>1
  <2> QED BY <2>1
<1>2. CASE caller' = [caller EXCEPT ![c].at = "wait"]
  BY <1>2
<1> QED BY Zenon, <1>1, <1>2

(* A caller that returns has nothing, or a signature of its message.       *)
LEMMA CallerReturns ==
    ASSUME SignerInv, NEW c \in Callers, NEW r \in {Signer!NoCall, Signer!Message(c)}, Signer!Returned(c, r)
    PROVE  /\ caller' \in [Callers -> [at : {"idle", "offer", "wait"}, call : Nat, expired : BOOLEAN,
                                       result : Messages]]
           /\ Signer!SignaturesAreOwn'
<1> USE DEF SignerInv, SignerTyped, Signer!Returned
<1>1. r \in Messages
  BY DEF Messages, Signer!Message
<1>2. caller' \in [Callers -> [at : {"idle", "offer", "wait"}, call : Nat, expired : BOOLEAN,
                               result : Messages]]
  BY ZenonT(60), <1>1
<1>3. \A d \in Callers : caller'[d].call = caller[d].call
  BY Zenon
<1>4. caller'[c].result = r /\ \A d \in Callers \ {c} : caller'[d].result = caller[d].result
  BY Zenon
<1>5. Signer!SignaturesAreOwn'
  BY Zenon, <1>3, <1>4 DEF Signer!SignaturesAreOwn, Signer!Message
<1> QED BY Zenon, <1>2, <1>5

(* A caller that begins a call forgets the result of the one before.       *)
LEMMA CallerBegins ==
    ASSUME SignerInv, NEW c \in Callers, Signer!SignBegin(c)
    PROVE  SignerInv'
<1> USE DEF SignerInv, SignerTyped
<1> DEFINE at == IF signerClosed THEN "idle" ELSE "offer"
           next == [at |-> at, call |-> caller[c].call + 1, expired |-> FALSE, result |-> Signer!NoCall]
<1>1. caller' = [caller EXCEPT ![c] = next]
  BY Zenon DEF Signer!SignBegin
<1>2. next \in [at : {"idle", "offer", "wait"}, call : Nat, expired : BOOLEAN, result : Messages]
  <2>1. caller[c].call + 1 \in Nat
    OBVIOUS
  <2>2. at \in {"idle", "offer", "wait"}
    BY Zenon
  <2>3. Signer!NoCall \in Messages
    BY Zenon DEF Messages
  <2> QED BY Zenon, <2>1, <2>2, <2>3
<1>3. next.result = Signer!NoCall
  BY Zenon
<1> HIDE DEF next
<1>4. Signer!SignaturesAreOwn'
  BY Zenon, <1>1, <1>3 DEF Signer!SignaturesAreOwn, Signer!Message
<1>5. signer' = signer
  BY Zenon DEF Signer!SignBegin
<1> QED BY Zenon, <1>1, <1>2, <1>4, <1>5 DEF ReplyIsOfRequest

(* Every step keeps the invariant.                                         *)
LEMMA SignerStep == SignerInv /\ [Signer!Next]_Signer!vars => SignerInv'
<1> SUFFICES ASSUME SignerInv, [Signer!Next]_Signer!vars PROVE SignerInv'
  BY Zenon
<1> USE DEF SignerInv
<1>1. ASSUME NEW c \in Callers, Signer!SignBegin(c) PROVE SignerInv'
  BY Zenon, <1>1, CallerBegins
<1>2. ASSUME NEW c \in Callers, Signer!Expire(c) PROVE SignerInv'
  BY Zenon, <1>2, CallerMoves DEF Signer!Expire, SignerTyped, ReplyIsOfRequest
<1>3. ASSUME NEW c \in Callers, Signer!HandOver(c) PROVE SignerInv'
  <2>1. Signer!Message(c) \in Messages
    BY Zenon DEF SignerTyped, Messages, Signer!Message
  <2> QED BY Zenon, <1>3, <2>1, CallerMoves DEF Signer!HandOver, SignerTyped, ReplyIsOfRequest
<1>4. ASSUME NEW c \in Callers, Signer!GiveUpOffer(c) \/ Signer!GiveUpWait(c) PROVE SignerInv'
  BY Zenon, <1>4, CallerReturns DEF Signer!GiveUpOffer, Signer!GiveUpWait, SignerTyped, ReplyIsOfRequest
<1>5. ASSUME NEW c \in Callers, Signer!Deliver(c) PROVE SignerInv'
  <2>1. signer.signed \in {Signer!NoCall, Signer!Message(c)} /\ Signer!Returned(c, signer.signed)
    BY Zenon, <1>5 DEF Signer!Deliver, ReplyIsOfRequest
  <2> QED BY Zenon, <1>5, <2>1, CallerReturns DEF Signer!Deliver, SignerTyped, ReplyIsOfRequest
<1>6. CASE Signer!WorkerCheck \/ Signer!Drop \/ Signer!WorkerStop
  BY Zenon, <1>6 DEF Signer!WorkerCheck, Signer!Drop, Signer!WorkerStop, SignerTyped, ReplyIsOfRequest, Signer!SignaturesAreOwn, Signer!Message
<1>7. CASE Signer!ProviderReturns
  <2>1. PICK ok \in BOOLEAN :
          signer' = [signer EXCEPT !.at = "reply", !.signed = IF ok THEN signer.request ELSE Signer!NoCall]
    BY Zenon, <1>7 DEF Signer!ProviderReturns
  <2>2. signer.request \in Messages /\ Signer!NoCall \in Messages
    BY Zenon DEF SignerTyped, Messages
  <2> QED BY Zenon, <1>7, <2>1, <2>2 DEF Signer!ProviderReturns, SignerTyped, ReplyIsOfRequest, Signer!SignaturesAreOwn, Signer!Message
<1>8. CASE Signer!CloseFlag \/ Signer!CloseDone \/ UNCHANGED Signer!vars
  BY Zenon, <1>8 DEF Signer!CloseFlag, Signer!CloseDone, Signer!vars, SignerTyped, ReplyIsOfRequest, Signer!SignaturesAreOwn, Signer!Message
<1> QED BY Zenon, <1>1, <1>2, <1>3, <1>4, <1>5, <1>6, <1>7, <1>8 DEF Signer!Next

-----------------------------------------------------------------------------
(* Sign returns the signature of the message it was called with, or none:  *)
(* a signature that comes after the deadline of an earlier call reaches    *)
(* nobody.                                                                 *)
THEOREM NoForeignSignature == Signer!Spec => []Signer!SignaturesAreOwn
<1>1. SignerInv => Signer!SignaturesAreOwn
  BY Zenon DEF SignerInv
<1> QED BY <1>1, SignerStart, SignerStep, PTL DEF Signer!Spec

(***************************************************************************)
(* The protector of sensitive fields, closed while calls are at work.      *)
(***************************************************************************)
CONSTANTS Calls, Domains, Plaintexts, Old, MaxCloses

VARIABLES key, closed, holders, writer, closes, call, stored, digests

Fields == INSTANCE SensitiveFields WITH readers <- holders

(* Domains and values are sequences of bytes, and the keys of fields that  *)
(* exist were not erased ones.                                             *)
FieldsAssumed == Domains \subseteq Seq(Nat) /\ Plaintexts \subseteq Seq(Nat) /\ \A f \in Old : f.key # "erased"

(* A call with these fields.                                               *)
CallOf(pc, op, domain, value, field, result, events) ==
    [pc |-> pc, op |-> op, domain |-> domain, value |-> value, field |-> field, result |-> result, events |-> events]

(* A call has all its fields.                                              *)
Shape(r) == r = CallOf(r.pc, r.op, r.domain, r.value, r.field, r.result, r.events)

(* A digest is of the current key, and of a domain without zeros.          *)
DigestHolds(d) ==
    /\ d.domain \in Seq(Nat) /\ d.value \in Seq(Nat) /\ Fields!validDomain(d.domain)
    /\ d.digest = <<"current", Fields!LookupMaterial(d.domain, d.value)>>

(* The one event of a call that is done.                                   *)
Reported(r) ==
    /\ Len(r.events) = 1
    /\ (r.events[1].event.result = "success") = (r.result.error = "none")
    /\ (r.events[1].event.reason = "none") = (r.result.error = "none")

OpensOwn(r, fields) == \E f \in fields : f.aad = Fields!fieldAAD(r.domain, Fields!keyVersion) /\ f.plain = r.result.value

CallHolds(r, fields) ==
    /\ Shape(r)
    /\ r.pc \in {"idle", "begun", "locked", "computed", "done"}
    /\ r.pc # "idle" => r.domain \in Domains /\ r.op \in {"lookup", "encrypt", "decrypt"}
    /\ r.pc # "idle" /\ r.op # "decrypt" => r.value \in Plaintexts
    /\ r.pc \in {"begun", "locked"} /\ r.op = "decrypt" => r.field \in fields
    /\ r.pc \in {"locked", "computed"} => Fields!validDomain(r.domain)
    /\ r.pc \in {"computed", "done"} /\ r.op = "decrypt" /\ r.result.error = "none" => OpensOwn(r, fields)
    /\ r.pc \in {"begun", "locked", "computed"} => r.events = <<>>
    /\ r.pc = "done" => Reported(r)

KeysHold ==
    /\ closed \in BOOLEAN /\ key \in {"current", "erased"} /\ ((key = "erased") = closed)
    /\ \A f \in stored : f.key # "erased"
    /\ \A d \in digests : DigestHolds(d)

LockHolds ==
    /\ writer \in {"none", "waiting", "held"} /\ (writer = "held" => holders = {})
    /\ holders = {c \in Calls : call[c].pc \in {"locked", "computed"}}

FieldsInv ==
    /\ FieldsAssumed /\ KeysHold /\ LockHolds
    /\ call = [c \in Calls |-> call[c]]
    /\ \A c \in Calls : CallHolds(call[c], stored)

(* A zero byte between two sequences of bytes.                             *)
LEMMA ZeroBetween ==
    ASSUME NEW a \in Seq(Nat), NEW u \in Seq(Nat)
    PROVE  /\ a \o <<0>> \o u \in Seq(Nat)
           /\ Len(a \o <<0>> \o u) = Len(a) + 1 + Len(u)
           /\ (a \o <<0>> \o u)[Len(a) + 1] = 0
           /\ \A i \in 1 .. Len(a) : (a \o <<0>> \o u)[i] = a[i]
           /\ \A i \in 1 .. Len(u) : (a \o <<0>> \o u)[Len(a) + 1 + i] = u[i]
<1> DEFINE z == a \o <<0>>
<1>1. z \in Seq(Nat) /\ Len(z) = Len(a) + 1 /\ z[Len(a) + 1] = 0 /\ \A i \in 1 .. Len(a) : z[i] = a[i]
  OBVIOUS
<1>2. Len(a) \in Nat /\ Len(u) \in Nat  OBVIOUS
<1> HIDE DEF z
<1>3. z \o u \in Seq(Nat) /\ Len(z \o u) = Len(z) + Len(u)  BY ONLY Zenon, <1>1, u \in Seq(Nat), SeqJoined
<1>4. \A i \in 1 .. Len(a) + 1 : (z \o u)[i] = z[i]  BY <1>1
<1>5. \A i \in 1 .. Len(u) : (z \o u)[Len(a) + 1 + i] = u[i]  BY SMTT(60), <1>1, <1>2
<1> QED BY SMTT(60), <1>1, <1>2, <1>3, <1>4, <1>5 DEF z

(* The zero byte after the domain separates it from the value.             *)
LEMMA ZeroSeparates ==
    ASSUME NEW a \in Seq(Nat), NEW b \in Seq(Nat), NEW u \in Seq(Nat), NEW v \in Seq(Nat),
           \A i \in DOMAIN a : a[i] # 0, \A i \in DOMAIN b : b[i] # 0,
           Fields!LookupMaterial(a, u) = Fields!LookupMaterial(b, v)
    PROVE  a = b /\ u = v
<1> DEFINE s == Fields!LookupMaterial(a, u)
           t == Fields!LookupMaterial(b, v)
<1>0. /\ Fields!LookupMaterial(a, u) = a \o <<0>> \o u
      /\ Fields!LookupMaterial(b, v) = b \o <<0>> \o v
  BY Zenon DEF Fields!LookupMaterial
<1>1. /\ s \in Seq(Nat) /\ Len(s) = Len(a) + 1 + Len(u) /\ s[Len(a) + 1] = 0
      /\ \A i \in 1 .. Len(a) : s[i] = a[i]
      /\ \A i \in 1 .. Len(u) : s[Len(a) + 1 + i] = u[i]
  <2>1. s = a \o <<0>> \o u  BY Zenon, <1>0
  <2> HIDE DEF s
  <2> QED BY ONLY SMTT(60), <2>1, ZeroBetween, a \in Seq(Nat), u \in Seq(Nat)
<1>2. /\ t \in Seq(Nat) /\ Len(t) = Len(b) + 1 + Len(v) /\ t[Len(b) + 1] = 0
      /\ \A i \in 1 .. Len(b) : t[i] = b[i]
      /\ \A i \in 1 .. Len(v) : t[Len(b) + 1 + i] = v[i]
  <2>1. t = b \o <<0>> \o v  BY Zenon, <1>0
  <2> HIDE DEF t
  <2> QED BY ONLY SMTT(60), <2>1, ZeroBetween, b \in Seq(Nat), v \in Seq(Nat)
<1>3. s = t  BY Zenon
<1> HIDE DEF s, t
<1>4. Len(a) \in Nat /\ Len(b) \in Nat /\ DOMAIN a = 1 .. Len(a) /\ DOMAIN b = 1 .. Len(b)
  OBVIOUS
<1>5. ~(Len(a) < Len(b))
  <2> SUFFICES ASSUME Len(a) < Len(b) PROVE FALSE  BY Zenon
  <2>1. Len(a) + 1 \in 1 .. Len(b)  BY SMTT(60), <1>4
  <2>2. t[Len(a) + 1] = b[Len(a) + 1]  BY Zenon, <1>2, <2>1
  <2>3. b[Len(a) + 1] # 0  BY Zenon, <1>4, <2>1
  <2> QED BY Zenon, <1>1, <1>3, <2>2, <2>3
<1>6. ~(Len(b) < Len(a))
  <2> SUFFICES ASSUME Len(b) < Len(a) PROVE FALSE  BY Zenon
  <2>1. Len(b) + 1 \in 1 .. Len(a)  BY SMTT(60), <1>4
  <2>2. s[Len(b) + 1] = a[Len(b) + 1]  BY Zenon, <1>1, <2>1
  <2>3. a[Len(b) + 1] # 0  BY Zenon, <1>4, <2>1
  <2> QED BY Zenon, <1>2, <1>3, <2>2, <2>3
<1>7. Len(a) = Len(b) /\ Len(u) = Len(v)
  <2>1. Len(s) = Len(t)  BY Zenon, <1>3
  <2>2. Len(s) = Len(a) + 1 + Len(u) /\ Len(t) = Len(b) + 1 + Len(v)  BY Zenon, <1>1, <1>2
  <2>3. Len(a) \in Nat /\ Len(b) \in Nat /\ Len(u) \in Nat /\ Len(v) \in Nat  OBVIOUS
  <2>4. Len(a) = Len(b)  BY SMTT(60), <2>3, <1>5, <1>6
  <2>5. \A i, j, k \in Nat : i + 1 + j = i + 1 + k => j = k  OBVIOUS
  <2>6. Len(a) + 1 + Len(u) = Len(a) + 1 + Len(v)  BY Zenon, <2>1, <2>2, <2>4
  <2> QED BY Zenon, <2>3, <2>4, <2>5, <2>6
<1>8. a = b
  <2>1. \A i \in 1 .. Len(a) : a[i] = b[i]  BY Zenon, <1>1, <1>2, <1>3, <1>7
  <2> QED BY Zenon, <2>1, <1>7, SeqAlike
<1>9. u = v
  <2>1. ASSUME NEW i \in 1 .. Len(u) PROVE u[i] = v[i]
    <3>1. u[i] = s[Len(a) + 1 + i]  BY Zenon, <1>1
    <3>2. v[i] = t[Len(b) + 1 + i]  BY Zenon, <1>2, <1>7
    <3> QED BY Zenon, <3>1, <3>2, <1>3, <1>7
  <2> QED BY Zenon, <2>1, <1>7, SeqAlike
<1> QED BY Zenon, <1>8, <1>9


(* A call with one field, or two, or three set.                            *)
LEMMA PcSet ==
    ASSUME NEW r, Shape(r), NEW p
    PROVE  [r EXCEPT !.pc = p] = CallOf(p, r.op, r.domain, r.value, r.field, r.result, r.events)
BY SMTT(60) DEF Shape, CallOf

LEMMA RecIs ==
    ASSUME NEW r, NEW a, NEW b, NEW c, NEW d, NEW e, NEW f, NEW g, r = CallOf(a, b, c, d, e, f, g)
    PROVE  /\ Shape(r) /\ r.pc = a /\ r.op = b /\ r.domain = c /\ r.value = d /\ r.field = e /\ r.result = f
           /\ r.events = g
BY Zenon DEF CallOf, Shape

LEMMA ResultSet ==
    ASSUME NEW r, Shape(r), NEW p, NEW x
    PROVE  [r EXCEPT !.pc = p, !.result = x] = CallOf(p, r.op, r.domain, r.value, r.field, x, r.events)
<1> DEFINE q == CallOf(p, r.op, r.domain, r.value, r.field, r.result, r.events)
<1>1. [r EXCEPT !.pc = p, !.result = x] = [[r EXCEPT !.pc = p] EXCEPT !.result = x]  BY Zenon
<1>2. [r EXCEPT !.pc = p] = q  BY Zenon, PcSet
<1>3. [q EXCEPT !.result = x] = CallOf(p, r.op, r.domain, r.value, r.field, x, r.events)  BY DEF CallOf
<1> QED BY Zenon, <1>1, <1>2, <1>3

(* More stored fields: what a call knows of them stays.                    *)
LEMMA CallStays ==
    ASSUME NEW r, NEW S, NEW T, S \subseteq T, CallHolds(r, S)
    PROVE  CallHolds(r, T)
BY Zenon DEF CallHolds, OpensOwn

(* One call moves.                                                         *)
LEMMA CallMoves ==
    ASSUME FieldsInv, NEW c \in Calls, NEW r, call' = [call EXCEPT ![c] = r],
           stored \subseteq stored', KeysHold', CallHolds(r, stored'),
           writer' = writer,
           holders' = IF r.pc \in {"locked", "computed"} THEN holders \cup {c} ELSE holders \ {c},
           writer = "held" => r.pc \notin {"locked", "computed"}
    PROVE  FieldsInv'
<1>1. call' = [d \in Calls |-> IF d = c THEN r ELSE call[d]]  BY Zenon DEF FieldsInv
<1>2. call' = [d \in Calls |-> call'[d]]  BY Zenon, <1>1
<1>3. ASSUME NEW d \in Calls PROVE CallHolds(call'[d], stored')
  <2>1. CASE d = c  BY Zenon, <2>1, <1>1
  <2>2. CASE d # c
    <3>1. call'[d] = call[d]  BY Zenon, <2>2, <1>1
    <3>2. CallHolds(call[d], stored)  BY Zenon DEF FieldsInv
    <3>3. CallHolds(call[d], stored')  BY Zenon, <3>2, CallStays
    <3> QED BY Zenon, <3>1, <3>3
  <2> QED BY Zenon, <2>1, <2>2
<1>4. holders' = {d \in Calls : call'[d].pc \in {"locked", "computed"}}
  BY Zenon, <1>1 DEF FieldsInv, LockHolds
<1>5. LockHolds'  BY Zenon, <1>4 DEF FieldsInv, LockHolds
<1> QED BY Zenon, <1>2, <1>3, <1>5 DEF FieldsInv

(* Every call reports once, and the report agrees with what it answers.    *)
LEMMA ObservedHolds ==
    ASSUME FieldsInv, NEW c \in Calls, NEW x, Fields!Observed(c, x), call[c].pc \in {"begun", "computed"},
           call[c].op = "decrypt" /\ x.error = "none" => \E f \in stored : f.aad = Fields!fieldAAD(call[c].domain, Fields!keyVersion) /\ f.plain = x.value,
           UNCHANGED <<key, closed, writer, stored, digests>>, holders' = holders \ {c}
    PROVE  FieldsInv'
<1> DEFINE shown == IF x.error = "none" THEN x ELSE Fields!Fails("protection failed")
           k == call[c]
<1>1. CallHolds(k, stored) /\ Shape(k) /\ k.events = <<>>  BY Zenon DEF FieldsInv, CallHolds
<1>2. PICK heard \in BOOLEAN :
        call' = [call EXCEPT ![c].pc = "done", ![c].result = shown,
                    ![c].events = @ \o <<[heard |-> heard, event |-> Fields!Event(k.op, x)]>>]
  BY Zenon DEF Fields!Observed
<1> DEFINE e == [heard |-> heard, event |-> Fields!Event(k.op, x)]
           es == <<e>>
           r == CallOf("done", k.op, k.domain, k.value, k.field, shown, k.events \o es)
<1>3. call' = [call EXCEPT ![c] = [k EXCEPT !.pc = "done", !.result = shown, !.events = @ \o es]]
  BY ZenonT(60), <1>2
<1>4. Len(es) = 1 /\ es[1] = e /\ e.event = Fields!Event(k.op, x) /\ <<>> \o es = es
  <2>1. Len(es) = 1 /\ es[1] = e /\ es \in Seq({e})  BY SMTT(60)
  <2>2. e.event = Fields!Event(k.op, x)  BY Zenon
  <2> HIDE DEF es
  <2>3. <<>> \o es = es  BY ONLY Zenon, <2>1, SeqAfterNone
  <2> QED BY ZenonT(60), <2>1, <2>2, <2>3
<1>5. shown.error = "none" <=> x.error = "none"  BY Zenon DEF Fields!Fails
<1>6. x.error = "none" => shown = x  BY Zenon
<1>7. /\ (Fields!Event(k.op, x).result = "success") <=> (x.error = "none")
      /\ (Fields!Event(k.op, x).reason = "none") <=> (x.error = "none")
  BY Zenon DEF Fields!Event, Fields!observedReason
<1> HIDE DEF shown, k, es, e
<1>8. call' = [call EXCEPT ![c] = r]
  <2>0. Shape(k)  BY Zenon, <1>1
  <2>1. PICK n : n = k /\ Shape(n)  BY Zenon, <2>0
  <2> DEFINE z == n.events \o es
             one == CallOf("done", n.op, n.domain, n.value, n.field, n.result, n.events)
             two == CallOf("done", n.op, n.domain, n.value, n.field, shown, n.events)
  <2>2. call' = [call EXCEPT ![c] = [[[n EXCEPT !.pc = "done"] EXCEPT !.result = shown] EXCEPT !.events = z]]
    BY Zenon, <1>3, <2>1
  <2> HIDE DEF z
  <2>3. [n EXCEPT !.pc = "done"] = one  BY ONLY Zenon, <2>1, PcSet
  <2>4. [one EXCEPT !.result = shown] = two  BY ONLY TRUE DEF CallOf
  <2>5. [two EXCEPT !.events = z] = CallOf("done", n.op, n.domain, n.value, n.field, shown, z)  BY ONLY SMTT(60), TRUE DEF CallOf
  <2>6. [[[n EXCEPT !.pc = "done"] EXCEPT !.result = shown] EXCEPT !.events = z] =
        CallOf("done", n.op, n.domain, n.value, n.field, shown, z)
    BY ONLY ZenonT(60), <2>3, <2>4, <2>5
  <2>7. r = CallOf("done", n.op, n.domain, n.value, n.field, shown, z)  BY ONLY Zenon, <2>1 DEF z
  <2> QED BY ONLY Zenon, <2>2, <2>6, <2>7
<1>9. /\ Shape(r) /\ r.pc = "done" /\ r.op = k.op /\ r.domain = k.domain /\ r.value = k.value
      /\ r.result = shown /\ r.events = es
  <2>1. r = CallOf("done", k.op, k.domain, k.value, k.field, shown, k.events \o es)  BY Zenon
  <2>2. k.events \o es = es  BY Zenon, <1>1, <1>4
  <2> HIDE DEF r, es
  <2> QED BY ONLY <2>1, <2>2, RecIs
<1> HIDE DEF r
<1>10. Reported(r)  BY Zenon, <1>4, <1>5, <1>7, <1>9 DEF Reported
<1>11. CallHolds(r, stored)
  <2>1. r.domain \in Domains /\ r.op \in {"lookup", "encrypt", "decrypt"} /\ (r.op # "decrypt" => r.value \in Plaintexts)
    BY Zenon, <1>1, <1>9 DEF CallHolds, k
  <2>2. r.op = "decrypt" /\ r.result.error = "none" => OpensOwn(r, stored)
    BY Zenon, <1>5, <1>6, <1>9 DEF OpensOwn, k
  <2> QED BY Zenon, <2>1, <2>2, <1>9, <1>10 DEF CallHolds
<1>12. KeysHold'  BY Zenon DEF FieldsInv, KeysHold
<1> QED BY Zenon, <1>8, <1>9, <1>11, <1>12, CallMoves

(* A call begins.                                                          *)
LEMMA BeginHolds == ASSUME FieldsInv, NEW c \in Calls, Fields!Begin(c) PROVE FieldsInv'
<1>1. PICK domain \in Domains :
        \/ \E op \in {"lookup", "encrypt"}, value \in Plaintexts :
             call' = [call EXCEPT ![c] = [Fields!Idle EXCEPT !.pc = "begun", !.op = op, !.domain = domain, !.value = value]]
        \/ \E field \in stored :
             call' = [call EXCEPT ![c] = [Fields!Idle EXCEPT !.pc = "begun", !.op = "decrypt", !.domain = domain, !.field = field]]
  BY ZenonT(60) DEF Fields!Begin
<1> DEFINE Began(op, value, field) ==
        /\ op \in {"lookup", "encrypt", "decrypt"}
        /\ call' = [call EXCEPT ![c] = CallOf("begun", op, domain, value, field, Fields!NoResult, <<>>)]
        /\ op # "decrypt" => value \in Plaintexts
        /\ op = "decrypt" => field \in stored
<1>2. PICK op, value, field : Began(op, value, field)
  <2>1. CASE \E op \in {"lookup", "encrypt"}, value \in Plaintexts :
             call' = [call EXCEPT ![c] = [Fields!Idle EXCEPT !.pc = "begun", !.op = op, !.domain = domain, !.value = value]]
    <3>1. PICK op \in {"lookup", "encrypt"}, value \in Plaintexts :
             call' = [call EXCEPT ![c] = [Fields!Idle EXCEPT !.pc = "begun", !.op = op, !.domain = domain, !.value = value]]
      BY Zenon, <2>1
    <3>2. [Fields!Idle EXCEPT !.pc = "begun", !.op = op, !.domain = domain, !.value = value]
          = CallOf("begun", op, domain, value, Fields!NoField, Fields!NoResult, <<>>)
      <4>0. Fields!Idle = CallOf("idle", "none", <<>>, <<>>, Fields!NoField, Fields!NoResult, <<>>)  BY Zenon DEF Fields!Idle, CallOf
      <4>1. [CallOf("idle", "none", <<>>, <<>>, Fields!NoField, Fields!NoResult, <<>>) EXCEPT !.pc = "begun"]
            = CallOf("begun", "none", <<>>, <<>>, Fields!NoField, Fields!NoResult, <<>>)
        BY DEF CallOf
      <4>2. [CallOf("begun", "none", <<>>, <<>>, Fields!NoField, Fields!NoResult, <<>>) EXCEPT !.op = op]
            = CallOf("begun", op, <<>>, <<>>, Fields!NoField, Fields!NoResult, <<>>)
        BY DEF CallOf
      <4>3. [CallOf("begun", op, <<>>, <<>>, Fields!NoField, Fields!NoResult, <<>>) EXCEPT !.domain = domain]
            = CallOf("begun", op, domain, <<>>, Fields!NoField, Fields!NoResult, <<>>)
        BY DEF CallOf
      <4>4. [CallOf("begun", op, domain, <<>>, Fields!NoField, Fields!NoResult, <<>>) EXCEPT !.value = value]
            = CallOf("begun", op, domain, value, Fields!NoField, Fields!NoResult, <<>>)
        BY DEF CallOf
      <4> QED BY ONLY Zenon, <4>0, <4>1, <4>2, <4>3, <4>4
    <3>3. call' = [call EXCEPT ![c] = CallOf("begun", op, domain, value, Fields!NoField, Fields!NoResult, <<>>)]  BY Zenon, <3>1, <3>2
    <3>4. Began(op, value, Fields!NoField)  BY Zenon, <3>3
    <3> HIDE DEF Began
    <3> QED BY Zenon, <3>4
  <2>2. CASE \E field \in stored :
             call' = [call EXCEPT ![c] = [Fields!Idle EXCEPT !.pc = "begun", !.op = "decrypt", !.domain = domain, !.field = field]]
    <3>1. PICK field \in stored :
             call' = [call EXCEPT ![c] = [Fields!Idle EXCEPT !.pc = "begun", !.op = "decrypt", !.domain = domain, !.field = field]]
      BY Zenon, <2>2
    <3>2. [Fields!Idle EXCEPT !.pc = "begun", !.op = "decrypt", !.domain = domain, !.field = field]
          = CallOf("begun", "decrypt", domain, <<>>, field, Fields!NoResult, <<>>)
      <4>0. Fields!Idle = CallOf("idle", "none", <<>>, <<>>, Fields!NoField, Fields!NoResult, <<>>)  BY Zenon DEF Fields!Idle, CallOf
      <4>1. [CallOf("idle", "none", <<>>, <<>>, Fields!NoField, Fields!NoResult, <<>>) EXCEPT !.pc = "begun"]
            = CallOf("begun", "none", <<>>, <<>>, Fields!NoField, Fields!NoResult, <<>>)
        BY DEF CallOf
      <4>2. [CallOf("begun", "none", <<>>, <<>>, Fields!NoField, Fields!NoResult, <<>>) EXCEPT !.op = "decrypt"]
            = CallOf("begun", "decrypt", <<>>, <<>>, Fields!NoField, Fields!NoResult, <<>>)
        BY DEF CallOf
      <4>3. [CallOf("begun", "decrypt", <<>>, <<>>, Fields!NoField, Fields!NoResult, <<>>) EXCEPT !.domain = domain]
            = CallOf("begun", "decrypt", domain, <<>>, Fields!NoField, Fields!NoResult, <<>>)
        BY DEF CallOf
      <4>4. [CallOf("begun", "decrypt", domain, <<>>, Fields!NoField, Fields!NoResult, <<>>) EXCEPT !.field = field]
            = CallOf("begun", "decrypt", domain, <<>>, field, Fields!NoResult, <<>>)
        BY DEF CallOf
      <4> QED BY ONLY Zenon, <4>0, <4>1, <4>2, <4>3, <4>4
    <3>3. call' = [call EXCEPT ![c] = CallOf("begun", "decrypt", domain, <<>>, field, Fields!NoResult, <<>>)]  BY Zenon, <3>1, <3>2
    <3>4. Began("decrypt", <<>>, field)  BY Zenon, <3>3
    <3> HIDE DEF Began
    <3> QED BY Zenon, <3>4
  <2> QED BY Zenon, <1>1, <2>1, <2>2
<1> DEFINE r == CallOf("begun", op, domain, value, field, Fields!NoResult, <<>>)
<1>3. /\ Shape(r) /\ r.pc = "begun" /\ r.op = op /\ r.domain = domain /\ r.value = value /\ r.field = field
      /\ r.events = <<>>
  <2>1. r = CallOf("begun", op, domain, value, field, Fields!NoResult, <<>>)  BY Zenon
  <2> HIDE DEF r
  <2> QED BY ONLY <2>1, RecIs
<1>4. call' = [call EXCEPT ![c] = r]  BY Zenon, <1>2
<1> HIDE DEF r
<1>5. CallHolds(r, stored)  BY Zenon, <1>2, <1>3 DEF CallHolds
<1>6. UNCHANGED <<key, closed, holders, writer, stored, digests>> /\ call[c].pc = "idle"  BY Zenon DEF Fields!Begin
<1>7. KeysHold' /\ c \notin holders  BY Zenon, <1>6 DEF FieldsInv, KeysHold, LockHolds
<1> QED BY ZenonT(60), <1>3, <1>4, <1>5, <1>6, <1>7, CallMoves

(* A call is refused before it takes the lock.                             *)
LEMMA RefuseHolds == ASSUME FieldsInv, NEW c \in Calls, Fields!Refuse(c) PROVE FieldsInv'
<1>1. call[c].pc = "begun" /\ Fields!Observed(c, Fields!Fails("invalid argument")) /\ UNCHANGED <<key, closed, holders, writer, stored, digests>>
  BY Zenon DEF Fields!Refuse
<1>2. Fields!Fails("invalid argument").error # "none"  BY Zenon DEF Fields!Fails
<1>3. c \notin holders  BY Zenon, <1>1 DEF FieldsInv, LockHolds
<1> QED BY ZenonT(60), <1>1, <1>2, <1>3, ObservedHolds

(* A call takes the lock: nobody holds it for writing.                     *)
LEMMA RLockHolds == ASSUME FieldsInv, NEW c \in Calls, Fields!RLock(c) PROVE FieldsInv'
<1> DEFINE k == call[c]
           r == CallOf("locked", k.op, k.domain, k.value, k.field, k.result, k.events)
<1>1. CallHolds(k, stored) /\ Shape(k)  BY Zenon DEF FieldsInv, CallHolds
<1>2. /\ k.pc = "begun" /\ Fields!validDomain(k.domain) /\ writer = "none" /\ holders' = holders \cup {c}
      /\ call' = [call EXCEPT ![c] = [k EXCEPT !.pc = "locked"]]
      /\ UNCHANGED <<key, closed, writer, stored, digests>>
  BY Zenon DEF Fields!RLock
<1> HIDE DEF k
<1>3. [k EXCEPT !.pc = "locked"] = r  BY ONLY Zenon, <1>1, PcSet
<1>4. call' = [call EXCEPT ![c] = r]  BY Zenon, <1>2, <1>3
<1>5. /\ Shape(r) /\ r.pc = "locked" /\ r.op = k.op /\ r.domain = k.domain /\ r.value = k.value /\ r.field = k.field
      /\ r.events = k.events
  <2>1. r = CallOf("locked", k.op, k.domain, k.value, k.field, k.result, k.events)  BY Zenon
  <2> HIDE DEF r
  <2> QED BY ONLY SMTT(60), <2>1, RecIs
<1> HIDE DEF r
<1>6. CallHolds(r, stored)  BY Zenon, <1>1, <1>2, <1>5 DEF CallHolds
<1>7. KeysHold'  BY Zenon, <1>2 DEF FieldsInv, KeysHold
<1> QED BY Zenon, <1>2, <1>4, <1>5, <1>6, <1>7, CallMoves

(* A call has computed its result.                                         *)
LEMMA ComputedHolds ==
    ASSUME FieldsInv, NEW c \in Calls, NEW x, Fields!Computed(c, x), call[c].pc = "locked",
           call[c].op = "decrypt" /\ x.error = "none" => \E f \in stored' : f.aad = Fields!fieldAAD(call[c].domain, Fields!keyVersion) /\ f.plain = x.value,
           KeysHold', stored \subseteq stored', UNCHANGED <<holders, writer>>
    PROVE  FieldsInv'
<1> DEFINE k == call[c]
           r == CallOf("computed", k.op, k.domain, k.value, k.field, x, k.events)
<1>1. CallHolds(k, stored) /\ Shape(k) /\ k.pc = "locked"  BY Zenon DEF FieldsInv, CallHolds
<1>2. call' = [call EXCEPT ![c] = [[k EXCEPT !.pc = "computed"] EXCEPT !.result = x]]  BY Zenon DEF Fields!Computed
<1>3. k.op = "decrypt" /\ x.error = "none" => \E f \in stored' : f.aad = Fields!fieldAAD(k.domain, Fields!keyVersion) /\ f.plain = x.value
  BY Zenon
<1>4. c \in holders /\ writer # "held"  BY Zenon DEF FieldsInv, LockHolds
<1> HIDE DEF k
<1>5. [[k EXCEPT !.pc = "computed"] EXCEPT !.result = x] = r
  <2> DEFINE one == CallOf("computed", k.op, k.domain, k.value, k.field, k.result, k.events)
  <2>1. [k EXCEPT !.pc = "computed"] = one  BY ONLY Zenon, <1>1, PcSet
  <2>2. [one EXCEPT !.result = x] = r  BY ONLY TRUE DEF CallOf
  <2> QED BY ONLY Zenon, <2>1, <2>2
<1>6. call' = [call EXCEPT ![c] = r]  BY ONLY ZenonT(60), <1>2, <1>5
<1>7. /\ Shape(r) /\ r.pc = "computed" /\ r.op = k.op /\ r.domain = k.domain /\ r.value = k.value /\ r.result = x
      /\ r.events = k.events
  <2>1. r = CallOf("computed", k.op, k.domain, k.value, k.field, x, k.events)  BY Zenon
  <2> HIDE DEF r
  <2> QED BY ONLY <2>1, RecIs
<1> HIDE DEF r
<1>8. OpensOwn(r, stored') \/ ~(r.op = "decrypt" /\ r.result.error = "none")  BY Zenon, <1>3, <1>7 DEF OpensOwn
<1>9. CallHolds(r, stored')  BY ZenonT(60), <1>1, <1>7, <1>8 DEF CallHolds
<1>10. holders' = holders \cup {c}  BY Zenon, <1>4
<1> QED BY ZenonT(60), <1>4, <1>6, <1>7, <1>9, <1>10, CallMoves

(* What a call computes is under the current key, and only for its domain. *)
LEMMA ComputeHolds == ASSUME FieldsInv, NEW c \in Calls, Fields!Compute(c) PROVE FieldsInv'
<1> DEFINE k == call[c]
<1>1. /\ CallHolds(k, stored) /\ k.pc = "locked"
      /\ UNCHANGED <<key, closed, holders, writer>>
  BY Zenon DEF FieldsInv, Fields!Compute
<1>2. /\ k.domain \in Domains /\ Fields!validDomain(k.domain) /\ (k.op # "decrypt" => k.value \in Plaintexts)
      /\ (k.op = "decrypt" => k.field \in stored)
  BY Zenon, <1>1 DEF CallHolds
<1>3. \A e : Fields!Fails(e).error = e /\ \A v : Fields!Gives(v).error = "none" /\ Fields!Gives(v).value = v  BY Zenon DEF Fields!Fails, Fields!Gives
<1>4. ~closed => key = "current"  BY Zenon DEF FieldsInv, KeysHold
<1>5. ASSUME stored' = stored, digests' = digests PROVE KeysHold'
  BY Zenon, <1>1, <1>5 DEF FieldsInv, KeysHold
<1>6. CASE \E e \in {"closed", "protection failed", "panic"} : Fields!Computed(c, Fields!Fails(e)) /\ UNCHANGED <<stored, digests>>
  <2>1. PICK e \in {"closed", "protection failed", "panic"} : Fields!Computed(c, Fields!Fails(e)) /\ UNCHANGED <<stored, digests>>
    BY Zenon, <1>6
  <2>2. Fields!Fails(e).error # "none"  BY ZenonT(60), <1>3
  <2> QED BY ZenonT(60), <2>1, <2>2, <1>1, <1>5, ComputedHolds
<1>7. CASE k.op = "lookup" /\ Fields!LookupDigest(c) /\ UNCHANGED stored /\ ~closed
  <2> DEFINE d == [digest |-> <<key, Fields!LookupMaterial(k.domain, k.value)>>, domain |-> k.domain, value |-> k.value]
  <2>1. Fields!Computed(c, Fields!Gives(k.value)) /\ digests' = digests \cup {d}  BY ZenonT(60), <1>7 DEF Fields!LookupDigest
  <2>2. DigestHolds(d)  BY Zenon, <1>2, <1>4, <1>7 DEF DigestHolds, FieldsInv, FieldsAssumed
  <2> HIDE DEF d
  <2>3. KeysHold'  BY Zenon, <1>1, <1>7, <2>1, <2>2 DEF FieldsInv, KeysHold
  <2> QED BY Zenon, <1>1, <1>7, <2>1, <2>3, ComputedHolds
<1>8. CASE k.op = "encrypt" /\ Fields!Encrypt(c) /\ UNCHANGED digests /\ ~closed /\ stored' # stored
  <2> DEFINE f == [version |-> Fields!keyVersion, key |-> key, aad |-> Fields!fieldAAD(k.domain, Fields!keyVersion), plain |-> k.value]
  <2>1. Fields!Computed(c, Fields!Gives(k.value)) /\ stored' = stored \cup {f}  BY ZenonT(60), <1>8 DEF Fields!Encrypt
  <2>2. f.key # "erased"  BY ZenonT(60), <1>4, <1>8
  <2> HIDE DEF f
  <2>3. KeysHold'  BY Zenon, <1>1, <1>8, <2>1, <2>2 DEF FieldsInv, KeysHold
  <2>4. stored \subseteq stored'  BY Zenon, <2>1
  <2> QED BY Zenon, <1>1, <1>8, <2>1, <2>3, <2>4, ComputedHolds
<1>9. CASE k.op = "encrypt" /\ Fields!Computed(c, Fields!Gives(k.value)) /\ UNCHANGED <<stored, digests>>
  BY Zenon, <1>1, <1>5, <1>9, ComputedHolds
<1>10. CASE /\ k.op = "decrypt" /\ Fields!Computed(c, Fields!Gives(k.field.plain)) /\ UNCHANGED <<stored, digests>>
            /\ k.field.aad = Fields!fieldAAD(k.domain, k.field.version) /\ k.field.version = Fields!keyVersion
  <2>1. Fields!Gives(k.field.plain).value = k.field.plain  BY Zenon, <1>3
  <2>2. \E f \in stored' : f.aad = Fields!fieldAAD(k.domain, Fields!keyVersion) /\ f.plain = Fields!Gives(k.field.plain).value
    BY Zenon, <1>2, <1>10, <2>1
  <2> QED BY Zenon, <1>1, <1>5, <1>10, <2>2, ComputedHolds
<1>11. \/ k.op = "lookup" /\ Fields!LookupDigest(c) /\ UNCHANGED stored
       \/ k.op = "encrypt" /\ Fields!Encrypt(c) /\ UNCHANGED digests
       \/ k.op = "decrypt" /\ Fields!Decrypt(c) /\ UNCHANGED <<stored, digests>>
       \/ Fields!Computed(c, Fields!Fails("panic")) /\ UNCHANGED <<stored, digests>>
  BY Zenon DEF Fields!Compute
<1>12. CASE k.op = "lookup" /\ Fields!LookupDigest(c) /\ UNCHANGED stored
  <2>1. closed => Fields!Computed(c, Fields!Fails("closed")) /\ UNCHANGED digests  BY Zenon, <1>12 DEF Fields!LookupDigest
  <2> QED BY ZenonT(60), <1>6, <1>7, <1>12, <2>1
<1>13. CASE k.op = "encrypt" /\ Fields!Encrypt(c) /\ UNCHANGED digests
  <2>1. \/ \E e \in {"closed", "protection failed", "panic"} : Fields!Computed(c, Fields!Fails(e)) /\ UNCHANGED stored
        \/ ~closed /\ Fields!Computed(c, Fields!Gives(k.value))
    BY ZenonT(60), <1>13 DEF Fields!Encrypt
  <2> QED BY ZenonT(60), <1>6, <1>8, <1>9, <1>13, <2>1
<1>14. CASE k.op = "decrypt" /\ Fields!Decrypt(c) /\ UNCHANGED <<stored, digests>>
  <2>1. \/ Fields!Computed(c, Fields!Fails("closed")) \/ Fields!Computed(c, Fields!Fails("protection failed"))
        \/ /\ Fields!Computed(c, Fields!Gives(k.field.plain))
           /\ k.field.aad = Fields!fieldAAD(k.domain, k.field.version) /\ k.field.version = Fields!keyVersion
    BY ZenonT(60), <1>14 DEF Fields!Decrypt
  <2> QED BY ZenonT(60), <1>6, <1>10, <1>14, <2>1
<1> QED BY ZenonT(60), <1>6, <1>11, <1>12, <1>13, <1>14

(* The call gives the lock back and reports.                               *)
LEMMA ReleaseHolds == ASSUME FieldsInv, NEW c \in Calls, Fields!Release(c) PROVE FieldsInv'
<1>1. /\ call[c].pc = "computed" /\ Fields!Observed(c, call[c].result) /\ holders' = holders \ {c}
      /\ UNCHANGED <<key, closed, writer, stored, digests>>
  BY Zenon DEF Fields!Release
<1>2. CallHolds(call[c], stored)  BY Zenon DEF FieldsInv
<1>3. call[c].op = "decrypt" /\ call[c].result.error = "none" =>
        \E f \in stored : f.aad = Fields!fieldAAD(call[c].domain, Fields!keyVersion) /\ f.plain = call[c].result.value
  BY Zenon, <1>1, <1>2 DEF CallHolds, OpensOwn
<1> QED BY Zenon, <1>1, <1>3, ObservedHolds

(* The protector is closed: the keys are erased while nobody holds the     *)
(* lock.                                                                   *)
LEMMA CloseHolds == ASSUME FieldsInv, Fields!CloseBegin \/ Fields!CloseLocked \/ Fields!CloseEnd PROVE FieldsInv'
<1>1. UNCHANGED <<holders, call, stored, digests>>  BY Zenon DEF Fields!CloseBegin, Fields!CloseLocked, Fields!CloseEnd
<1>2. KeysHold'  BY ZenonT(60), <1>1 DEF FieldsInv, KeysHold, Fields!CloseBegin, Fields!CloseLocked, Fields!CloseEnd, Fields!Erase
<1>3. LockHolds'  BY Zenon, <1>1 DEF FieldsInv, LockHolds, Fields!CloseBegin, Fields!CloseLocked, Fields!CloseEnd
<1> QED BY Zenon, <1>1, <1>2, <1>3 DEF FieldsInv

(* Every step keeps the invariant.                                         *)
LEMMA FieldsStep == FieldsInv /\ [Fields!Next]_Fields!vars => FieldsInv'
<1> SUFFICES ASSUME FieldsInv, [Fields!Next]_Fields!vars PROVE FieldsInv'  BY Zenon
<1>1. CASE UNCHANGED Fields!vars  BY Zenon, <1>1 DEF Fields!vars, FieldsInv, KeysHold, LockHolds
<1> QED BY Zenon, <1>1, BeginHolds, RefuseHolds, RLockHolds, ComputeHolds, ReleaseHolds, CloseHolds DEF Fields!Next

(* Initially no call was made.                                             *)
LEMMA FieldsStart == FieldsAssumed /\ Fields!Init => FieldsInv
<1> SUFFICES ASSUME FieldsAssumed, Fields!Init PROVE FieldsInv  BY Zenon
<1>1. Fields!Idle.pc = "idle" /\ Shape(Fields!Idle)  BY Zenon DEF Fields!Idle, Shape, CallOf
<1>2. CallHolds(Fields!Idle, stored)  BY Zenon, <1>1 DEF CallHolds
<1>3. KeysHold /\ LockHolds  BY Zenon, <1>1 DEF Fields!Init, KeysHold, LockHolds, FieldsAssumed
<1> QED BY Zenon, <1>2, <1>3 DEF Fields!Init, FieldsInv

(* The invariant holds throughout.                                         *)
LEMMA FieldsHold == ASSUME FieldsAssumed PROVE Fields!Spec => []FieldsInv
BY FieldsStart, FieldsStep, PTL DEF Fields!Spec

(* For any number of calls and closings: the keys are erased only while no *)
(* call holds the lock.                                                    *)
THEOREM ErasedAlone == ASSUME FieldsAssumed PROVE Fields!Spec => []Fields!TypeOK
<1>1. FieldsInv => Fields!TypeOK  BY Zenon DEF FieldsInv, KeysHold, LockHolds, Fields!TypeOK
<1> QED BY <1>1, FieldsHold, PTL

(* Nothing is digested or stored under erased keys.                        *)
THEOREM ErasedKeysAreUnused == ASSUME FieldsAssumed PROVE Fields!Spec => []Fields!NothingUnderErasedKeys
<1>1. FieldsInv => Fields!NothingUnderErasedKeys
  BY SMTT(60) DEF FieldsInv, KeysHold, DigestHolds, Fields!NothingUnderErasedKeys
<1> QED BY <1>1, FieldsHold, PTL

(* Whatever bytes domains and values are made of: equal digests are of     *)
(* equal domains and values.                                               *)
THEOREM DigestsAreSeparate == ASSUME FieldsAssumed PROVE Fields!Spec => []Fields!DigestsSeparateDomains
<1>1. FieldsInv => Fields!DigestsSeparateDomains
  <2> SUFFICES ASSUME FieldsInv, NEW d \in digests, NEW e \in digests, d.digest = e.digest
               PROVE  d.domain = e.domain /\ d.value = e.value
    BY Zenon DEF Fields!DigestsSeparateDomains
  <2>1. DigestHolds(d) /\ DigestHolds(e)  BY Zenon DEF FieldsInv, KeysHold
  <2>2. d.digest[2] = Fields!LookupMaterial(d.domain, d.value) /\ e.digest[2] = Fields!LookupMaterial(e.domain, e.value)
    <3>1. \A m : <<"current", m>>[2] = m  BY Zenon
    <3>2. /\ d.digest = <<"current", Fields!LookupMaterial(d.domain, d.value)>>
          /\ e.digest = <<"current", Fields!LookupMaterial(e.domain, e.value)>>
      BY ZenonT(60), <2>1 DEF DigestHolds
    <3> QED BY ONLY Zenon, <3>1, <3>2
  <2>3. Fields!LookupMaterial(d.domain, d.value) = Fields!LookupMaterial(e.domain, e.value)  BY Zenon, <2>2
  <2>4. /\ d.domain \in Seq(Nat) /\ d.value \in Seq(Nat) /\ e.domain \in Seq(Nat) /\ e.value \in Seq(Nat)
        /\ (\A i \in DOMAIN d.domain : d.domain[i] # 0) /\ (\A i \in DOMAIN e.domain : e.domain[i] # 0)
    BY Zenon, <2>1 DEF DigestHolds, Fields!validDomain
  <2> QED BY SMTT(60), <2>3, <2>4, ZeroSeparates
<1> QED BY <1>1, FieldsHold, PTL

(* A decryption opens only what was encrypted for its domain.              *)
THEOREM FieldsStayInTheirDomain == ASSUME FieldsAssumed PROVE Fields!Spec => []Fields!OpensOnlyItsDomain
<1>1. FieldsInv => Fields!OpensOnlyItsDomain
  BY Zenon DEF FieldsInv, CallHolds, OpensOwn, Fields!OpensOnlyItsDomain
<1> QED BY <1>1, FieldsHold, PTL

(* Every call is observed once, and as what its caller sees.               *)
THEOREM CallsAreObservedOnce == ASSUME FieldsAssumed PROVE Fields!Spec => []Fields!ObservedOnce
<1>1. FieldsInv => Fields!ObservedOnce
  BY Zenon DEF FieldsInv, CallHolds, Reported, Fields!ObservedOnce
<1> QED BY <1>1, FieldsHold, PTL
=============================================================================
