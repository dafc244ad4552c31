---------------------------- MODULE Idempotency ----------------------------
(***************************************************************************)
(* Commands that carry an idempotency key, as their services run them: one *)
(* transaction that begins the key, does the work, completes the key with  *)
(* the response and commits.  Callers retry with the same key because an   *)
(* answer was lost, because a request timed out and is still running, or   *)
(* because the process died.                                               *)
(*                                                                         *)
(* TryBeginIdempotency inserts under a unique index: while a transaction   *)
(* holds an uncommitted record of a key, another one's insert waits for    *)
(* it to end.                                                              *)
(***************************************************************************)
EXTENDS Naturals, FiniteSets, IdempotencyRecords

CONSTANTS
    Workers,   \* requests that can be in progress at a time
    Keys,      \* scope, operation and key of a record
    Digests,   \* request digests
    Bodies     \* responses an execution of the work can produce

VARIABLES
    records,   \* the committed record of each key
    tx,        \* the transaction of each worker
    executed,  \* the committed executions of each key
    answered   \* the answers callers received

vars == <<records, tx, executed, answered>>

Idle == [pc |-> "idle"]

Init ==
    /\ records = [k \in Keys |-> NoRecord]
    /\ tx = [w \in Workers |-> Idle]
    /\ executed = [k \in Keys |-> {}]
    /\ answered = {}

(* A caller sends the command, for the first time or again.                *)
Request(w, k, d) ==
    /\ tx[w].pc = "idle"
    /\ tx' = [tx EXCEPT ![w] = [pc |-> "begin", key |-> k, digest |-> d]]
    /\ UNCHANGED <<records, executed, answered>>

(* The unique index makes the insert wait for these.                       *)
Inserted(k) == {w \in Workers : tx[w].pc \in {"started", "completed"} /\ tx[w].key = k}

(* Mutant: the insert does not wait for a transaction in progress.         *)
BeginUnserialized(w) ==
    /\ tx[w].pc = "begin"
    /\ LET outcome == Begin(records[tx[w].key], tx[w].digest)
       IN tx' = [tx EXCEPT ![w].pc = outcome]
    /\ UNCHANGED <<records, executed, answered>>

BeginKey(w) ==
    /\ tx[w].pc = "begin"
    /\ Inserted(tx[w].key) = {}
    /\ LET outcome == Begin(records[tx[w].key], tx[w].digest)
       IN tx' = [tx EXCEPT ![w].pc = outcome]
    /\ UNCHANGED <<records, executed, answered>>

(* The work of the command and Complete, inside the transaction.           *)
Work(w, b) ==
    /\ tx[w].pc = "started"
    /\ tx' = [tx EXCEPT ![w] = [pc |-> "completed", key |-> @.key, digest |-> @.digest,
                  record |-> CompleteIdempotency(TryBeginIdempotency(@.digest), @.digest, 200, b)]]
    /\ UNCHANGED <<records, executed, answered>>

(* The transaction commits the work and the record.                        *)
Commit(w) ==
    /\ tx[w].pc = "completed"
    /\ records' = [records EXCEPT ![tx[w].key] = tx[w].record]
    /\ executed' = [executed EXCEPT ![tx[w].key] =
                        @ \cup {[digest |-> tx[w].digest, body |-> tx[w].record.body]}]
    /\ tx' = [tx EXCEPT ![w] = [pc |-> "replay", key |-> @.key, digest |-> @.digest]]
    /\ UNCHANGED answered

(* The response that was committed, now or by an earlier request, is       *)
(* returned and reaches the caller.                                        *)
Reply(w) ==
    /\ tx[w].pc = "replay"
    /\ tx' = [tx EXCEPT ![w] = Idle]
    /\ answered' = answered \cup {[key |-> tx[w].key, digest |-> tx[w].digest,
                                   body |-> records[tx[w].key].body]}
    /\ UNCHANGED <<records, executed>>

(* An error of the work, a deadline or a crash rolls the transaction back; *)
(* so do a conflict, a record in progress and an expired record.  After    *)
(* the commit only the answer is lost.                                     *)
Fail(w) ==
    /\ tx[w].pc # "idle"
    /\ tx' = [tx EXCEPT ![w] = Idle]
    /\ UNCHANGED <<records, executed, answered>>

(* The retention of a record ends.                                         *)
Expire(k) ==
    /\ records[k].state = "completed"
    /\ ~records[k].expired
    /\ records' = [records EXCEPT ![k].expired = TRUE]
    /\ UNCHANGED <<tx, executed, answered>>

WorkerStep(w) ==
    BeginKey(w) \/ (\E b \in Bodies : Work(w, b)) \/ Commit(w) \/ Reply(w) \/ Fail(w)

Next ==
    \/ \E w \in Workers, k \in Keys, d \in Digests : Request(w, k, d)
    \/ \E w \in Workers : WorkerStep(w)
    \/ \E k \in Keys : Expire(k)

Spec == Init /\ [][Next]_vars

-----------------------------------------------------------------------------
Record ==
    {NoRecord}
    \cup [state : {"in_progress"}, digest : Digests, expired : BOOLEAN]
    \cup [state : {"completed"}, digest : Digests, expired : BOOLEAN, status : {200},
          body : Bodies]

Executions == [digest : Digests, body : Bodies]

Transaction ==
    {Idle}
    \cup [pc : {"begin", "started", "replay", "conflict", "in_progress", "unavailable"},
          key : Keys, digest : Digests]
    \cup [pc : {"completed"}, key : Keys, digest : Digests, record : Record]

TypeOK ==
    /\ records \in [Keys -> Record]
    /\ tx \in [Workers -> Transaction]
    /\ executed \in [Keys -> SUBSET Executions]
    /\ answered \subseteq [key : Keys, digest : Digests, body : Bodies]

(* However often a command is sent, and however its transactions overlap,  *)
(* it is executed once and all its answers are the answer of that          *)
(* execution.                                                              *)
Once == INSTANCE ExactlyOnce

ExactlyOnceSpec == Once!ExactlyOnceSpec

(* No request ever meets a record in progress: the record exists only      *)
(* inside a transaction that will complete it, and others wait for that    *)
(* one.  The services' answer to InProgress is never given.                *)
InProgressIsNeverSeen == \A w \in Workers : tx[w].pc # "in_progress"
=============================================================================
