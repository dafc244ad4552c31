------------------------- MODULE IdempotencyRecords -------------------------
(***************************************************************************)
(* internal/idempotency: one record per scope, operation and key, used by  *)
(* every command of the identity, deviceauth and trust services.  A        *)
(* request is told from another by its digest, a response by its status    *)
(* and body.                                                               *)
(***************************************************************************)

NoRecord == [state |-> "absent"]

(* TryBeginIdempotency inserts a record unless the key has one.            *)
TryBeginIdempotency(digest) ==
    [state |-> "in_progress", digest |-> digest, expired |-> FALSE]

(* What Begin answers for the record found under the key.  A record past   *)
(* its retention is never used again, nor replaced.                        *)
Begin(record, digest) ==
    IF record = NoRecord THEN "started"
    ELSE IF record.expired THEN "unavailable"
    ELSE IF record.digest # digest THEN "conflict"
    ELSE IF record.state = "completed" THEN "replay"
    ELSE "in_progress"

(* CompleteIdempotency changes only a record in progress of the digest.    *)
CompleteIdempotency(record, digest, status, body) ==
    IF record.state = "in_progress" /\ record.digest = digest
    THEN [state |-> "completed", digest |-> digest, expired |-> FALSE,
          status |-> status, body |-> body]
    ELSE record

(* The record a transaction leaves that begins and completes a key.        *)
Completed(digest, status, body) ==
    CompleteIdempotency(TryBeginIdempotency(digest), digest, status, body)
=============================================================================
