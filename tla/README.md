# TLA+ models of the Talenro control plane

Talenro's control plane is a set of Go processes over PostgreSQL, Redis, NATS
and an external authority provider. This directory models the parts of it whose
correctness depends on the order in which several actors act, or on a format
that two sides read independently: TLA+ modules translated from the Go and SQL
sources, TLC configurations that check them on small instances, and proofs that
TLAPS checks for every value of the constants.

`PROJECT.json` is the index: the components and their status, the runs with
their properties, a mutation of the code for every property (a plausible bug
that makes TLC find the property violated), the source lines behind every
definition, the hazards with the line where each bites, and the theorems. Paths
below are relative to the repository root.

```
tlc -config MCClaim.cfg MCClaim      # a run
tlapm ClientStoreProofs.tla          # a proof
```

## The system and its parts

- The **authority fence** (`internal/nodecontrol/authority`) takes every
  operation of the node control plane to one outcome that an external,
  rollback-resistant provider and a PostgreSQL table agree on. Version 6 is the
  `Coordinator`; version 7 adds durable abort claims, proof owners, triggers,
  evidence for the decision, a migration that needs grants, and an import into
  restored databases.
- **Commands** carry idempotency keys (`internal/idempotency`) and record their
  events in a transactional **outbox** (`internal/outbox`). Publishers move the
  events to a stream; consumers apply each once. `internal/contracts/events`
  fixes what an event may contain.
- **Identity** (`internal/identity`) keeps accounts, sessions, email deliveries,
  second factors and recovery codes; **device authorisation**
  (`internal/deviceauth`) enrolls devices with grants from account sessions.
  Both use PostgreSQL transactions with a call of Redis in between.
- **Trust delivery** (`internal/trust`) issues signed bundles to devices and
  publishes the metadata of the signing keys; the **client**
  (`internal/trustclient`) verifies bundles and keeps the newest in a directory.
- The **control API process** (`cmd/control-api`) opens all of these, serves
  HTTP (`internal/controlapi`), reports readiness, metrics and errors, and closes
  everything in order.

How they meet: a request passes `ApiRequest`; its command runs under
`Idempotency` in one transaction of `AccountHandlers`, `AccountSession`,
`StrongAuth`, `DeviceAuth` or `TrustService`; that transaction appends an event
of `EventContracts`, which `Outbox` delivers to consumers such as the one in
`AccountEmail`. `RowLocks` is the ground for taking each transaction as one
step. A bundle of `TrustService` is checked as in `BundleVerification` and kept
as in `ClientStore`. `ControlApiProcess` opens and closes what they use, among
it the `ConfigSigner`, the `ErrorReporter` and the protector of
`SensitiveFields`. `AuthorityReadiness` and `ServiceReadiness` feed `/readyz`.

## Modules and the code they model

| Module | Code | State and actions |
|---|---|---|
| `AuthorityOutcome` | `authority/provider.go`, `deterministic_fake.go`, the fence table | the abstract specification of the fence: one action per write of the provider or of the database |
| `AuthorityFence` | `authority/coordinator.go` | any number of callers of Finalize, Abort and Recover; one action per provider call, repository or resolver read and transaction; `Fail` ends a call anywhere |
| `AuthorityReadiness` | `Coordinator.CheckReady` | one action per read, beside the writes of `AuthorityOutcome`, backups and restores |
| `AuthorityClaim` | `postgres_repository.go`, `v7_source_sealer.go`, `assets/nodecontrol_authority_v7_up.sql` | fence row and proof owner, the transaction that holds them, the triggers and the deferred barrier, the deletion of an owner after its retention, the readers, the seal |
| `ActivationDecision` | `activation_evidence.go`, `resolution.go`, `commitment.go`, `effect_dispatcher.go` | workers that capture, complete, decide and consume evidence, a clock, a head that moves, crashes |
| `MigrationGrants` | `v7_migration_grant.go`, `db/migrations/00007_*.go` and its assets | migrations in both directions, one transaction each, with grants, the catalog lock and the authorizer |
| `StagingImport` | `v7_staging_import.go`, `begin_staging_import` | admissions that are verified, viewed, consumed and answered, with lost answers and withdrawals |
| `ExactlyOnce`, `IdempotencyRecords`, `Idempotency` | `internal/idempotency`, and its callers' transactions | abstract: a command runs once; detailed: Begin, work, Complete, commit, with overlapping retries |
| `EventDelivery`, `Outbox` | `internal/outbox`, `db/queries/outbox.sql` | abstract: an event takes effect once; detailed: leases, batches, publish, mark, release, the consumer, crashes |
| `EventContracts` | `internal/contracts/events` and the eight producers | an event from the command to the consumer, through every validation |
| `StrictJson` | `internal/strictjson` and the four other readers | the walk over the tokens, the scan of escapes, the collection of struct members, the layers of a signed evidence bundle |
| `ByteLayouts` | `deviceauth/pop.go`, the challenge stores, `trustclient/store.go` frames | writers and readers of signed transcripts and stored records, with faults of the stored bytes |
| `IdentityStore` | `internal/store/*.sql.go` | the tables and queries the identity handlers share |
| `RowLocks` | the lock order of every handler | statements that select, lock row by row and wait |
| `AccountHandlers`, `AccountSession` | `internal/identity` `session.go`, `register.go`, `email_verification.go` | one action per transaction or Redis call of a request |
| `AccountEmail` | `email_consumer.go`, the intake loop of `cmd/control-api` | deliveries, consumers, provider, redelivery |
| `StrongAuth` | `totp.go`, `recovery.go`, `webauthn.go` | factors, codes, ceremonies |
| `DeviceAuth` | `internal/deviceauth` | grants, enrolment, rotation, revocation, trials |
| `TrustService` | `internal/trust` | issue, resolve, acknowledge, fetch; bootstrap and publication of metadata |
| `BundleVerification` | `trustclient/verify.go` | the checks of a client, in order, while keys rotate and clocks are off |
| `VersionFloor`, `ClientStore` | `trustclient/store.go` | abstract: `MemoryStore`; detailed: `DirectoryStore` call by call, several processes, power loss |
| `ConfigSigner` | `trust/signer.go` | callers, the worker, a provider that answers late or never, Close |
| `ControlApiProcess` | `cmd/control-api/main.go` | start-up step by step, two servers, calls and workers, shutdown under two deadlines |
| `ApiRequest` | `internal/controlapi`, `api/openapi` | a request through every check to its answer, with the scope of its key |
| `ObservedCalls` | `deviceauth/observed.go`, `internal/observability` | decorated calls, counters, the response writer |
| `ServiceReadiness` | `internal/readiness` | overlapping checks, probes, deadlines |
| `ErrorReporter` | `internal/errorreport` | senders under a read lock, the queue, the worker, closers |
| `SensitiveFields` | `internal/sensitive` | calls under a readers-writer lock, closing |
| `Configuration` | `internal/config`, `validateRuntimeComposition` | environments that are loaded, composed and opened |

The opening comment of each module says what a step is and what is abstracted.
Throughout: a digest, a token or an identifier is what it was computed from; a
signature or a ciphertext is its key and its content; clocks are counters; a
refused request is a stuttering step unless something is left behind; a failure
or a crash may end a request between any two of its steps, and what it wrote
stays. Integers do not overflow in the modelled ranges except where a module
says so (`EventContracts` keeps the signed and unsigned 64-bit limits apart by
`MaxInt`).

Three abstractions worth knowing:

- *Retention of proof owners* (`AuthorityClaim`). `DeleteOwner` removes the
  terminal owner of a committed fence, which the trigger allows once
  `retention_until` has passed (`nodecontrol_authority_v7_up.sql:1577-1592`). The
  time is a choice of the model; the tables without that column keep their rows.
  The fence stays. `Lock` and `GetStoredFence` of that operation then fail, as for
  a receipt without its outcome, and no new owner can be prepared for it.
- *Evidence bundles* (`StrictJson`). `validateAuthorityV7StrictJSON` compares the
  paths of nulls as joined text, in which a member name that contains a dot looks
  like two names. The model joins them the same way, and `EvidenceIsExpected` says
  that a bundle is accepted only with the expected evidence in it, because every
  layer is cut out and read again with its own member names. Schema, digest and
  count of the message are one member; the schema of a body is part of its
  digest; the comparison with the expected bytes is left out, as the digest
  implies it. Inside a body, below its first level, a declared null is only known
  by its joined path.
- *Wire values* (`ApiRequest`). A member is absent, null, empty, malformed or well
  formed, and a body may be null. `Understood` is what decoding into Go values
  leaves of a request. A key is scoped to one anonymous caller, to the account or
  device that the proof in the request names, or to the principal of the
  credential, each for one operation (`ScopeOf`); a device challenge checks its
  key and keeps no record of it. `ReplaysAreOwn` says that the caller of a replay
  is the one whose command the record holds.

External, and marked so in `PROJECT.json`: the business writer of the fence
(modelled from `authority_crash_integration_test.go`), the WebAuthn library, the
JSON decoder of the standard library, the stream, the email and error providers,
and the file system with its sync semantics.

## Runs

A run is one question, asked of one or more components. Where a run has several
**scenarios**, its MC module declares the variables of all components,
instantiates each with the constants its question needs, and picks a scenario in
the initial state; only that component moves. A property of such a run is a
conjunction of the properties of its components, each under its scenario; the
conjuncts keep their names in the components' modules and in the MC module, with
a comment each. Deadlock checking is off in these runs, since a scenario stops
when its requests, its clock or its faults are used up.

| Run | Scenarios and instances | Properties |
|---|---|---|
| `fence` | 3 callers, 1 operation, 2 digests, 2 reasons | `RowFollowsProvider`: a terminal row carries the provider's receipt. `CommitIsBacked`: the provider commits only what effect and row say. `OneReceipt`: all callers get one receipt. `OutcomeSpec`: the calls implement `AuthorityOutcome` |
| `abort_race` | 2 callers | a violation, see *Disagreements* |
| `recovery` | a reconciler and another caller | `RecoveryFinishes`: crashed and raced operations reach a terminal row, and a provider's commit reaches the row |
| `claim` | `claim`: ten kinds of operations, two reservations, two activations, the sealer and a reader. `decision`, `copies`, `codec`: two workers, evidence and its copies, commitments of every form. `grants`: two migrations. `import`, `refused`: two imports | `FenceAndOwnerAgree`, `SealCoversSource`, `RetriesAreIdempotent`, `StoredFenceIsOneInstant`, `RowsLeadOn` of `AuthorityClaim`; `DecisionIsSound`; `MigrationIsSafe`; `ImportIsExact` |
| `trust` | `store`: 2 processes, 3 versions, 2 faults. `rotation`, `trial`: a device whose clock is off. `resolve`, `acknowledge`: 2 requests with 2 keys. `bootstrap`, `publish`: 3 processes or 2 ceremonies | `StoreIsSafe` and `ImplementsFloor` of `ClientStore`; `VerificationIsSound`; `IssuanceIsSound`; `MetadataIsSound` |
| `events` | `outbox`: 2 publishers, 2 events, one of them unregistered. `once`: 2 workers, 2 keys. `contracts`, `documents`, `escapes`, `schemas`, `transcripts`, `frames`: one document, message or record each, over all inputs of the bounded sets | `DeliverySafety` and `ExactlyOnceSpec` (the refinements); `EventsAreSound`; `ReadersAreStrict`; `LayoutsAreUnambiguous` |
| `outbox_live` | 2 publishers, 1 event | `DeliveryFinishes`: the refinement with its fairness; every row is published; Close ends |
| `accounts` | `rotation`, `grace`, `password`, `revocation`: two requests with two keys on one account. `delivery`, `trial`, `reset`: deliveries with one or two consumers. `locks`: 3 transactions of 5 operations | `SessionsAreSafe`, `DeliveriesAreSafe`, `LocksAreSound` |
| `factors` | `totp`, `codes`: every order of handlers. `register`, `login`, `ceremony`: two passkey requests. `enroll`, `rotate`, `expire`: two device requests. `locks`: 2 transactions of every operation but `revokeSessions` | `FactorsAreSafe`, `DevicesAreSafe`, `DeadlockOnlyOnTokens` |
| `email_live` | `resolve`: one consumer, two deliveries | `DeliveriesResolve`: over a fair stream, each delivery is sent or overtaken |
| `services` | `calls`, `scrapes`: a process with one public call or one scrape. `redis`, `probes`: overlapping checks. `ready`, `restore`: CheckReady over two operations, or over a restore. `fields`: two calls and Close. `request`, `unwired`, `repeat`: every operation of the API, with a missing application, and with a repeated request. `observed`, `configuration` | `ProcessIsSafe`, `ReadinessIsTrue`, `FieldsAreSafe`, `RequestsAreSound`, `ObservationIsTrue`, `ConfigurationIsSound` |
| `liveness` | `stopping`, `signer`, `reports`, `drain`, `closing`, `grants`, `staging` | `SignaturesAreOwn`, `ReportsAreKept`, and `EverythingEnds` |

**Bounds.** Two requests with two idempotency keys show every race of two
handlers, and a repeated request under one key; a third actor is there where two
may race while another repairs or reads (`fence`, `bootstrap`, `locks`).
Operations of the fence do not touch each other's records, so one shows every
race of `AuthorityFence`; readiness is about the order of sequences and has two.
`MaxTime` bounds a clock just past the last expiry that a scenario has, so each
expiry happens before, between and after the steps of a request. `MaxFaults`,
`MaxRestores`, `MaxCloses` and the like bound how often something fails; two
faults in `store` are a crash during the repair of another. `MaxSessions`,
`MaxTokens`, `MaxChallenges`, `MaxCeremonies`, `MaxDevices`, `MaxGrants` and
`MaxDeliveries` bound the rows that identifiers are drawn for. `MaxEntries` is
the limit of the client's directory, above what three versions leave there.
`RotationBound` keeps revocation, which has its own scenario, out of `rotation`.
`Stride` exceeds every WAL position reached. Formats are checked over documents
of at most three levels, strings of a few characters and records of a few bytes:
every branch of a reader is taken, and limits such as the depth are constants
near the size of the documents. `OneZero` leaves at most one null or empty
member in a login or reauthentication form (a form with nothing in it is an
input of its own), so an error that needs two such members at once is out of its
reach. `RepeatedInputs` repeats four operations, with another content,
key or subject for some of them, and not every operation of the API.

Symmetry is over interchangeable requests, keys, workers and processes, and is
not used in a run with a liveness property.

**Fairness**, and why the code justifies it:

- *Steps of a goroutine that has begun* are weakly fair: the Go scheduler runs
  what can run. This covers the publisher's loop and its restarts, the consumer,
  the signer's worker, the reporter's worker and closers, the main goroutine of
  the process, the calls under the lock of `SensitiveFields`, a migration, and
  the calls of `ClientStore`. Deadlines and ticks are weakly fair too: time
  passes.
- *Calls of another system that may fail* are strongly fair only where the code
  retries them for ever: claim, publish and mark in `Outbox`, lookup and send in
  `AccountEmail`. A fault that comes each time is not a fault the code could
  survive. No fairness is assumed of the provider in `ConfigSigner` or
  `ErrorReporter` except in `drain`, whose question is what happens if it
  answers; nor of HTTP calls in `ControlApiProcess`, of new requests, or of a
  client that might repeat one.
- `StreamIsFair` in `AccountEmail` is an assumption on the stream and not on the
  code: every message that is not acknowledged is handed out again and again. The
  intake fetches one message at a time and puts a failed one back without delay
  or limit (`cmd/control-api/main.go:894-903`), an obsolete delivery included,
  which fails each time. Without `StreamIsFair` TLC refutes `DeliveriesResolve`:
  a stream that returns the obsolete message first starves the other.
- `RecoverySpec` assumes a caller that keeps calling `Recover` (strong fairness,
  since a call of it may be under way) and whose calls end. No code in the
  repository runs this loop yet, so this is an assumption on the reconciler that
  will. An effect that stays prepared waits for its writer, and an operation
  split by the abort race is refused for good; `RecoverySettles` says so.

## Disagreements between the code and what is said of it

`abort_race` (`AbortedHasNoEffect`) is kept as a run: an aborted operation must
have no effect, as
`docs/superpowers/specs/2026-08-24-nodecontrol-authority-abort-serving-design.md:32`
asks. `Coordinator.Abort` asks the resolver and then calls `Provider.Abort`
(`coordinator.go:221` and `229`; for `Recover` 253 and 678), and the writer may
commit its effect in between. `docs/roadmap/current-status.md:74-76` records the
gap that the durable abort claim will close. While the row of such an operation
is pending, `CheckReady` reports it (`SplitIsReported`).

The following were met while modelling. Each is stated in its module as what the
document or test says, and TLC refutes it on a small instance of that module.

| Statement | What the code does |
|---|---|
| `AuthorityClaim!TerminalOutcomeReadable` | `persistedOutcomeFromDatabaseRow` (`postgres_repository.go:816`) refuses time bounds without a checkpoint and a checkpoint without time bounds, which are the groups the schema allows (`nodecontrol_authority_v7_up.sql:1014`, `1021`) |
| `AuthorityClaim!AbortedFenceReadable` | the outcome of an aborted operation, which has no owner, is an error (`postgres_repository.go:752`) and not nil |
| `AuthorityClaim!PendingShowsClaim` | `ListPending` does not project the abort claim (`postgres_repository.go:1204`) |
| `AuthorityClaim!EarlyClaimRefusedFinitely` | a claim dated before its reservation is refused by the database with an unclassified error (`postgres_repository.go:196`) |
| `Configuration!LoadedPolicyIsValid` | the fallback of a threshold is not held against the range that another setting gives it (`config.go:342`) |
| `ServiceReadiness!OutboxDownOnlyAtLimit` | an event stamped after the probe read the clock has a negative age and the outbox is down (`readiness/policy.go:81`) |
| `ApiRequest!ContractValidIsAdmitted`, `BundleAnswersAreContracted` | bundle versions are decimal numbers only (`c1_handler.go:1707`); the distribution answers 404 and 416 (`trust/distribution.go:78`) |
| `ApiRequest!AdmittedIsContracted` | the contract closes its forms (`control-api.v1.yaml:1284-1287`, `1337-1376`), and the handler admits a foreign member that is null or empty and reads a null body as `{}` (`c1_handler.go:330-348`, `626`, `640`, `1372`, `1394`); `AdmittedMeetsContract` is what holds |
| `DeviceAuth!TrialGrantsEnroll` | the end of a trial must be a whole second, and the account's creation time is not (`deviceauth/register.go:869`); `Second` above 1 shows it |
| `RowLocks!NoDeadlock` with `rotateSession`, `revokeSessions` | revocation locks the account before the tokens (`session.go:989`); a rotation locks the tokens of a session twice (`session.go:1282`). PostgreSQL aborts one of them. Without `revokeSessions` only tokens deadlock (`DeadlockOnlyOnTokens`), and without both nothing does (`LocksAreSound`) |
| `StrongAuth!LastCodeIsAccepted` | the last recovery code leaves an empty set, which a check of the table refuses (`recovery.go:304`, `00002_identity.sql:109`) |
| `ClientStore!ActiveStaysReadable` | nothing removes old versions, and a directory above its limit cannot be read (`store.go:452`); a small `MaxEntries` shows it |
| `TrustService!ResolveFindsOrIssues`, `ResolveReusesCurrent`, `AnswersAreUnexpired` | an expired bundle of a constant sequence is refused for good (`application.go:389`); a request that waited judges a newer bundle by an older clock (`:386`); a replay may answer an expired bundle (`:351`) |
| `TrustService!PublishedInOrder`, `RotationIsAccepted` | two publications may commit out of order (`postgres_repository.go:477`); a version that keeps a key cannot be inserted (`:505`) |

## Proofs

The proofs hold for every value of the constants: any number of callers,
publishers, processes, keys, versions and faults, whatever the bounds are. Eight
modules hold theorems. Each argument has the same shape: an inductive invariant
is true initially, every action preserves it, and it implies the property.
The assumptions on constants are written where they are needed, as an `ASSUME` of
the component's module or as the hypothesis of the theorem; TLC evaluates the
former on every run that extends the module. A module that hosts several
components extends one and instantiates the others with variables of their own.

### `AuthorityFenceProofs`

Assumes that the model's names for "no operation", "no digest" and "no reason" are
none of the real ones, and that the reason `Recover` uses is a reason.
`FenceInv` is the type invariant with `NothingBeforeReservation`,
`RowFollowsProvider`, `CommitIsBacked`, `OneReceipt` and `ReadsStayTrue`. The last
is what makes the rest inductive: what a call has read of provider, row and
effect, and will act on after other callers have moved, is still true, because
records only move forward. One lemma (`Forward`) carries this for every step of
any *other* caller, so each action is proved for its own caller only.
From it: a terminal row carries the provider's receipt
(`RowsFollowTheProvider`), the provider commits only what effect and row say
(`CommitsAreBacked`), all calls hand back one receipt (`CallsAgree`), no step
rewrites what is terminal (`HistoryIsKept`), and the coordinator implements
`AuthorityOutcome` (`FenceImplementsOutcome`): each action maps to one abstract
step or to a stutter.

### `AuthorityReadinessProofs`

`CheckReady` reads the provider's head, the database point, the heads and the
pending rows one after another while writers, backups and restores go on.
`StoresHold` says what the tables may be beside the provider's records, and says
it of *any copy* of the tables, so it holds of the backup as of the database and
a restore changes nothing. `CheckHolds` says what the check knows after each
read. `ReadyIsWhole`: an answer of ready means that, when the database's head was
read, every operation up to the provider's head had a terminal row with the
provider's receipt, and an effect if it was committed. The step from the
comparison of counts and heads to "no row is missing" is an injection between
finite sets of one size. `SplitsAreReported`: a check that met an operation the
provider aborted and the database applied answers neither ready nor merely
unresolved.

The proofs of `ControlApiProcess` are here too. They assume that public calls and
scrapes have different names. `MainInv` orders what is open by the step the main
goroutine is at (`Opened`, `Closed`), says which servers and workers may still run
at each step of the shutdown (`Alive`, `Shut`, `Stopped`) and that the process ends
without error only when it was asked to (`Asked`). `NothingStaysOpen`: whatever
step of start-up failed and whichever deadline passed, what was opened is closed
when the process ends. `NothingIsUsedClosed`: no call or worker meets a closed
dependency while its process waits for it. `CleanClosesAreComplete` and
`SuccessIsAsked` complete `ProcessIsSafe`.

### `AuthorityClaimProofs`

`IInv` joins `RowsInv` (what the repository, the checks and the triggers leave in
fence and owner, inside and outside of a transaction) and `SealInv` (what scan
and seal have seen of it). `DataInv` adds the times and digests inside the rows
and `ReaderInv` what `GetStoredFence` holds between its two snapshots.
`FencesAndOwnersAgree`, `SealsCoverTheSource`, `RetriesSettle`,
`RowsAlwaysLeadOn` (through `CommittedRowsDecode`, `DecisionsCanFinish` and
`FinalOutcomesAreReadable`) and `StoredFencesAreOneInstant` are the five
properties of run `claim` that are about this module. The deferred barrier is
what makes the first two different from a check of each statement: inside a
transaction they do not hold. `FenceAndOwnerAgree` is an invariant and an action
property: the two rows agree in every committed state (`RowsAgree`), and a fence
is committed together with its terminal proof, which leaves only after that and
only from a table with a retention (`ProofOutlivesDecision`). The second part
rests on `DataInv` too, which says how the rows of an open transaction come from
the committed ones; a transaction that both commits a fence and deletes its
owner is refused by the barrier.

### `MigrationGrants`

Proved in the module itself. `GrantsInv` is `LockInv` (what the catalog lock
keeps others from doing during a transaction), `SpentInv` (a grant that a
committed migration used is spent) and `WindowInv` (a consumed downgrade
signature was inside its window). `ControlRowsStayConsistent`,
`GrantsCommitOnce`, `DowngradesAreAuthorized`, `ProductionKeepsIntent` and
`DownDestroysNothing` are the conjuncts of `MigrationIsSafe`.

### `ClientStoreProofs`

`IInv` is `Typed`, `Directory` (what any power loss may leave: each file is
durable, or its replacement was not yet renamed) and `Knows` (what the process
inside the lock has read). `Durability`, `NoRollback` and `FramesStayWhole`
together are `StoreStaysSafe`. `DirectoryImplementsFloor` refines `VersionFloor`,
the specification of the in-memory store; `FloorInv` adds that the abstract
active version is the one a load would find now.

### `DeliveryProofs`

For the outbox, `IInv` is `Typed`, `Flow` (a published row is in the stream, the
stream has only committed registered events, the consumer's record decides how
often one took effect) and `Knows` of each publisher (the row it is about to mark
is in the stream, whoever else has since claimed it). `OutboxDelivers` is the
refinement of `EventDelivery`. For the commands, `CommandsInv` is a type
invariant, `Agrees` (record and execution of a key exist together), `Fits` (what
a transaction has read of its key is still so) and `Exclusive` (one transaction
has a key's row). `CommandsRunOnce` is the refinement of `ExactlyOnce` and
`NobodySeesInProgress` that the state in progress never leaves its transaction.

### `ServiceProofs`

For the error reporter, `IInv` follows a report from its sender to the observer:
it is in one place at a time (`Fresh`, `Apart`), an accepted one is somewhere
(`Kept`), senders inside the lock exclude the closing of the queue (`Locked`) and
the worker ends only when the queue is closed and empty (`Drained`).
`SendsFindTheQueueOpen`, `ReportsAreAccountedFor` and `CloseLosesNothing` follow.
For the signer, `ReplyIsOfRequest` is what `SignaturesAreOwn` lacks
(`NoForeignSignature`). For the protector, `FieldsInv` joins what the lock keeps
apart (Close has it only when no call is inside, and the keys are erased exactly
when closed) with what each call carries. Its theorems assume that domains and
values are byte sequences and that no stored field names the erased key:
`ErasedKeysAreUnused`, `FieldsStayInTheirDomain`, `CallsAreObservedOnce`, and
`DigestsAreSeparate`, which rests on the lemma that a zero byte after a domain
without zeros separates it from any value (`ZeroSeparates`).

### `RowLocks`

Proved in the module itself, for any number of workers, sessions and tokens.
`LocksAreExclusive` (one transaction per row, over committed rows) and
`NothingIsAddedBehind` (a handler that has listed the tokens again under the
account lock holds all of them until it ends) need no assumption on the handlers.

The absence of deadlocks is an argument about lock orders. Tables have levels,
and `Ordered` says of a program that a statement that may wait finds its row
locked already or comes after the statements of lower tables only; every program
but that of `RevokeSessions`, which locks the account before the sessions, is
ordered. `IInv` says of each transaction that what it holds are the rows of the
statements behind it, and of the one it is at, those up to its place in the
order of ranks. So what a transaction awaits lies above what it holds
(`Climbs`): in a higher table, or later in the same one. Refresh tokens have no
level; some handlers lock them after the credential, `RotateSession` before
everything else. In a set of transactions that wait on each other and await no
token, the holder of the highest awaited row would await a higher one; hence
there is a token among the awaited rows (`OnlyTokensDeadlock`). All handlers but
`RotateSession` lock tokens under the credential, so without it only one
transaction at a time is among the tokens and there is no such set at all
(`HandlersDoNotDeadlock`). The two theorems name the handlers they leave out in
their hypotheses, which are those of the runs `factors` and `accounts`, and
assume that ranks are bounded, as digests and identifiers of a fixed size are.

### Only model-checked, and why

- *Liveness* (`RecoveryFinishes`, `DeliveryFinishes`, `DeliveriesResolve`,
  `EverythingEnds`): the provers do not reason about fairness and `ENABLED`.
- *What a recursive definition computes* (`ReadersAreStrict`,
  `LayoutsAreUnambiguous`, the canonical forms in `EventsAreSound`): induction
  over data needs theorems with an operator as a parameter, which the installed
  provers cannot instantiate.
- *Modules over the shared identity tables* (`SessionsAreSafe`,
  `DeliveriesAreSafe`, `FactorsAreSafe`, `DevicesAreSafe`), `TrustService`,
  `BundleVerification`, `ActivationDecision`, `StagingImport`, `ApiRequest`,
  `ObservedCalls`, `Configuration`, `ServiceReadiness`: no proof has been written.
  Most of their transactions are one step, so the instances of two requests show
  the races there are, and the rest of their argument is the enumeration of cases
  that TLC does.

## Not modelled

- Rate limits: one script call per request, no other state.
- The effect dispatcher of the authority: the resolvers it selects among are not
  in the repository. Production code does not call the verifier of signed evidence
  bundles either; `StrictJson` models it, and `MigrationGrants` and
  `StagingImport` start from verified facts. Node checkpoints and fault switches
  of the deterministic provider.
- The creation of the event stream, the start and exit of the mirror process, the
  test vectors of the conformance tool.
- Durations and gauges of the metrics; length limits of sensitive inputs.
- `PruneIdempotencyRecords`, which nothing calls, and `PruneConsumedEvents`, which
  only a test calls. Past the retention of its record a redelivered event would
  run again.
- The number of mails: the provider's acceptances are a set, since a delivery is
  sent at least once by design. The order in which readiness results were
  measured, of which only the order of recording is kept.
- Support packages without protocol state (build information, clocks, random
  tokens, secret buffers), generated code and tests.
