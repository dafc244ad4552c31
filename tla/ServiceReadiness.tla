-------------------------- MODULE ServiceReadiness --------------------------
(***************************************************************************)
(* The readiness checker: every call of /readyz starts one probe of each   *)
(* dependency on a goroutine of its own, collects their results until a    *)
(* deadline and answers.  Calls overlap; they share only the Redis state,  *)
(* which turns single results into up, degraded and down.  The outbox      *)
(* probe compares the clock, read first, with the table, read afterwards,  *)
(* while handlers insert events that carry their own reading of the clock. *)
(***************************************************************************)
EXTENDS Integers, Sequences, FiniteSets

CONSTANTS
    Checks,                         \* calls that may overlap
    Probes,                         \* a subset of Kinds
    RedisDownAfterFailures, RedisRecoverAfterSuccesses,
    OutboxDegradedBacklog, OutboxDownBacklog, OutboxDegradedAge, OutboxDownAge,
    MaxTime, MaxRows                \* bounds on the clock and on the table

\* The relations of the policy; its ranges (1 to 10 results, 100 to 100000 rows,
\* 10 s to 1 h) are scaled down.
validPolicy ==
    /\ RedisDownAfterFailures >= 1 /\ RedisRecoverAfterSuccesses >= 1
    /\ OutboxDegradedBacklog >= 1 /\ OutboxDownBacklog > OutboxDegradedBacklog
    /\ OutboxDegradedAge >= 1 /\ OutboxDownAge > OutboxDegradedAge
Kinds == {"postgres", "redis", "nats", "outbox", "authority"}
Dependencies == Kinds \ {"outbox"}

VARIABLES
    up,         \* dependencies that answer
    clock, rows,
    writer,     \* the occurrence time of an event that is about to be committed, or -1
    phase, expired, checks, ready,
    probe,      \* per check and probe: idle, running, reading (outbox), done or gathered
    outcome,    \* per check and probe: what the probe returned
    now,        \* per check: the clock the outbox probe read
    redis,      \* redisState
    began, met, recent      \* history: for the properties only
vars == <<up, clock, rows, writer, phase, expired, checks, ready, probe, outcome, now, redis, began, met, recent>>

OfWorld == <<up, clock, rows, writer>>
OfCheck == <<phase, expired, checks, ready, probe, outcome, now>>
OfHistory == <<began, met, recent>>

initialStatus(kind) == IF kind \in {"redis", "nats"} THEN "degraded" ELSE "down"
Init ==
    /\ up = Dependencies /\ clock = 0 /\ rows = {} /\ writer = -1
    /\ phase = [c \in Checks |-> "idle"] /\ expired = [c \in Checks |-> FALSE]
    /\ checks = [c \in Checks |-> [p \in Probes |-> initialStatus(p)]] /\ ready = [c \in Checks |-> FALSE]
    /\ probe = [c \in Checks |-> [p \in Probes |-> "idle"]] /\ outcome = [c \in Checks |-> [p \in Probes |-> "none"]]
    /\ now = [c \in Checks |-> 0]
    /\ redis = [status |-> "up", failures |-> 0, successes |-> 0]
    /\ began = [c \in Checks |-> 0] /\ met = [c \in Checks |-> {}] /\ recent = <<>>

(***************************************************************************)
(* The world, and what was true of it at some moment of each check.        *)
(***************************************************************************)
Overdue(t, table) == Cardinality(table) >= OutboxDownBacklog \/ \E r \in table : t - r >= OutboxDownAge
MetNow(t) == (up' \cap Probes) \cup (IF Overdue(t, rows') THEN {} ELSE {"outbox"}) \cup (IF Overdue(clock', rows') THEN {"overdue"} ELSE {})
Observe == met' = [c \in Checks |-> IF phase[c] = "running" THEN met[c] \cup MetNow(began[c]) ELSE met[c]]
WorldOnly == Observe /\ UNCHANGED <<OfCheck, redis, began, recent>>
Flip(d) ==
    /\ d \in Probes /\ up' = (IF d \in up THEN up \ {d} ELSE up \cup {d})
    /\ UNCHANGED <<clock, rows, writer>> /\ WorldOnly
Tick == clock < MaxTime /\ clock' = clock + 1 /\ UNCHANGED <<up, rows, writer>> /\ WorldOnly
ReadClock == "outbox" \in Probes /\ writer = -1 /\ writer' = clock /\ UNCHANGED <<up, clock, rows>> /\ WorldOnly
Commit ==
    /\ writer # -1 /\ Cardinality(rows) < MaxRows /\ rows' = rows \cup {writer} /\ writer' = -1
    /\ UNCHANGED <<up, clock>> /\ WorldOnly
Publish == rows # {} /\ (\E r \in rows : rows' = rows \ {r}) /\ UNCHANGED <<up, clock, writer>> /\ WorldOnly

(***************************************************************************)
(* The probes.                                                             *)
(***************************************************************************)
PingStatus(kind, answers) ==
    CASE kind \in {"postgres", "authority"} -> IF answers THEN "up" ELSE "down"
      [] kind = "redis" -> IF answers THEN "success" ELSE "failure"
      [] kind = "nats" -> IF answers THEN "up" ELSE "degraded"
Ends(c, p, value) ==
    /\ probe' = [probe EXCEPT ![c][p] = "done"] /\ outcome' = [outcome EXCEPT ![c][p] = value]
    /\ UNCHANGED <<OfWorld, phase, expired, checks, ready, now, redis, OfHistory>>
\* A ping answers, fails, or fails because its half of the time is over.
Ping(c, p) ==
    /\ p \in Dependencies /\ probe[c][p] = "running"
    /\ (p \in up /\ Ends(c, p, PingStatus(p, TRUE))) \/ Ends(c, p, PingStatus(p, FALSE))
SnapshotClock(c) ==
    /\ "outbox" \in Probes /\ probe[c]["outbox"] = "running"
    /\ probe' = [probe EXCEPT ![c]["outbox"] = "reading"] /\ now' = [now EXCEPT ![c] = clock]
    /\ UNCHANGED <<OfWorld, phase, expired, checks, ready, outcome, redis, OfHistory>>
GetOutboxHealth(t) ==
    [backlog |-> Cardinality(rows),
     oldest |-> IF rows = {} THEN 0 ELSE t - (CHOOSE r \in rows : \A s \in rows : r <= s)]
outboxStatus(row) ==
    CASE row.oldest < 0 -> "down"
      [] row.oldest >= 0 /\ (row.backlog >= OutboxDownBacklog \/ row.oldest >= OutboxDownAge) -> "down"
      [] OTHER -> IF row.backlog >= OutboxDegradedBacklog \/ row.oldest >= OutboxDegradedAge THEN "degraded" ELSE "up"
\* The query answers, or fails with the database or with the deadline.
Snapshot(c) ==
    /\ "outbox" \in Probes /\ probe[c]["outbox"] = "reading"
    /\ \/ "postgres" \in up /\ Ends(c, "outbox", outboxStatus(GetOutboxHealth(now[c])))
       \/ Ends(c, "outbox", "failed")

(***************************************************************************)
(* redisState.record.  The counters are capped where they stop mattering.  *)
(***************************************************************************)
Capped(n, limit) == IF n > limit THEN limit ELSE n
record(success) ==
    LET failures == Capped(redis.failures + 1, RedisDownAfterFailures)
    IN IF ~success
       THEN [failures |-> failures, successes |-> 0,
             status |-> IF failures >= RedisDownAfterFailures THEN "down" ELSE "degraded"]
       ELSE IF redis.status = "up" \/ redis.successes + 1 >= RedisRecoverAfterSuccesses
       THEN [status |-> "up", failures |-> 0, successes |-> 0]
       ELSE [status |-> "degraded", failures |-> 0, successes |-> redis.successes + 1]

(***************************************************************************)
(* Check.                                                                  *)
(***************************************************************************)
Begin(c) ==
    /\ phase[c] \in {"idle", "answered"} /\ phase' = [phase EXCEPT ![c] = "running"]
    /\ expired' = [expired EXCEPT ![c] = FALSE] /\ ready' = [ready EXCEPT ![c] = TRUE]
    /\ checks' = [checks EXCEPT ![c] = [p \in Probes |-> initialStatus(p)]]
    /\ probe' = [probe EXCEPT ![c] = [p \in Probes |-> "running"]]
    /\ outcome' = [outcome EXCEPT ![c] = [p \in Probes |-> "none"]] /\ now' = [now EXCEPT ![c] = 0]
    /\ began' = [began EXCEPT ![c] = clock]
    /\ UNCHANGED <<OfWorld, redis, recent>> /\ met' = [met EXCEPT ![c] = MetNow(clock)]
Window == IF RedisDownAfterFailures > RedisRecoverAfterSuccesses THEN RedisDownAfterFailures ELSE RedisRecoverAfterSuccesses
Last(s, n) == SubSeq(s, IF Len(s) > n THEN Len(s) - n + 1 ELSE 1, Len(s))
Gather(c, p) ==
    LET success == outcome[c][p] = "success"
        status == CASE p = "redis" -> record(success).status
                    [] p # "redis" -> IF outcome[c][p] = "failed" THEN "down" ELSE outcome[c][p]
    IN
    /\ phase[c] = "running" /\ probe[c][p] = "done" /\ ~expired[c]
    /\ probe' = [probe EXCEPT ![c][p] = "gathered"] /\ checks' = [checks EXCEPT ![c][p] = status]
    /\ ready' = [ready EXCEPT ![c] = @ /\ status # "down"]
    /\ IF p = "redis" THEN redis' = record(success) /\ recent' = Last(Append(recent, success), Window)
       ELSE UNCHANGED <<redis, recent>>
    /\ UNCHANGED <<OfWorld, phase, expired, outcome, now, began, met>>
Deadline(c) ==
    /\ phase[c] = "running" /\ ~expired[c] /\ expired' = [expired EXCEPT ![c] = TRUE]
    /\ UNCHANGED <<OfWorld, phase, checks, ready, probe, outcome, now, redis, OfHistory>>
\* Probes that are still running when the check returns change nothing any more.
Answers(c, answer) ==
    /\ phase' = [phase EXCEPT ![c] = "answered"] /\ ready' = [ready EXCEPT ![c] = answer]
    /\ probe' = [probe EXCEPT ![c] = [p \in Probes |-> "idle"]] /\ outcome' = [outcome EXCEPT ![c] = [p \in Probes |-> "none"]]
    /\ UNCHANGED <<OfWorld, expired, checks, now, redis, OfHistory>>
Gathered(c) == \A p \in Probes : probe[c][p] = "gathered"
Return(c) ==
    /\ phase[c] = "running"
    /\ (Gathered(c) /\ Answers(c, ready[c])) \/ (~Gathered(c) /\ expired[c] /\ Answers(c, FALSE))
Check(c) == Begin(c) \/ (\E p \in Probes : Ping(c, p) \/ Gather(c, p)) \/ SnapshotClock(c) \/ Snapshot(c) \/ Deadline(c) \/ Return(c)

Next == (\E d \in Dependencies : Flip(d)) \/ Tick \/ ReadClock \/ Commit \/ Publish \/ (\E c \in Checks : Check(c))
Spec == Init /\ [][Next]_vars

(***************************************************************************)
(* Properties.                                                             *)
(***************************************************************************)
TypeOK ==
    /\ redis \in [status : {"up", "degraded", "down"}, failures : 0 .. RedisDownAfterFailures, successes : 0 .. RedisRecoverAfterSuccesses - 1]
    /\ checks \in [Checks -> [Probes -> {"up", "degraded", "down"}]]
    /\ phase \in [Checks -> {"idle", "running", "answered"}]

\* However overlapping checks record their results, Redis is down exactly when
\* the last results are failures enough, and up exactly when the last ones are
\* successes enough.
RedisFollowsItsWindow ==
    LET failing == Last(recent, RedisDownAfterFailures)
        healthy == Last(recent, RedisRecoverAfterSuccesses)
    IN /\ redis.status = "down" <=> Len(failing) = RedisDownAfterFailures /\ \A i \in DOMAIN failing : ~failing[i]
       /\ redis.status = "up" <=> \A i \in DOMAIN healthy : healthy[i]

\* A check that answers ready found the database and the authority up, and the
\* outbox below its limits, at some moment between its start and its answer.
ReadyWasTrue ==
    \A c \in Checks : phase[c] = "answered" /\ ready[c] => ({"postgres", "authority", "outbox"} \cap Probes) \subseteq met[c]

\* The outbox is shown as down only when its backlog or its age is at the limit,
\* or the table cannot be read: lower values are up.
OutboxDownOnlyAtLimit ==
    \A c \in Checks : "outbox" \in Probes /\ outcome[c]["outbox"] = "down" => "overdue" \in met[c]
=============================================================================
