--------------------------- MODULE MigrationGrants ---------------------------
(***************************************************************************)
(* Migration 00007 between the version 6 and version 7 authority catalogs. *)
(* A migration runs in one database transaction and is admitted by a       *)
(* grant, an in-memory handle whose copies share one consumption flag.     *)
(* Going down also needs an authorization, asked for while the catalog is  *)
(* locked and bound to that very transaction.                              *)
(***************************************************************************)
EXTENDS Integers, Sequences, FiniteSetTheorems, TLAPS

CONSTANTS Workers,      \* processes that run the migration
          UpIds,        \* identities of up grants
          DownIds,      \* identities of down grants
          UpFactsOf,    \* the facts of each up grant
          DownFactsOf,  \* the facts of each down grant
          MaxTime,      \* bound on the clock
          MaxTx,        \* bound on transaction numbers
          MaxRows,      \* bound on rows other transactions write
          Lifetime      \* lifetime of an authorization

None == "none"
Zero == "zero"
InstallationKinds == {"production", "disposable_fixture"}
Present(value, fields) == \A f \in fields : value[f] # Zero
Agree(left, right, fields) == \A f \in fields : left[f] = right[f]

(***************************************************************************)
(* The facts grants and authorizations carry, and what makes them valid.   *)
(***************************************************************************)
validInstallationKind(kind) == kind \in InstallationKinds

MigrationLatchFactsValid(latch) ==
    /\ Present(latch, {"installation", "identity", "catalog"}) /\ validInstallationKind(latch.kind)
    /\ latch.version = 7 /\ latch.downState = "locked" /\ latch.installedAt >= 0

UpgradeIntentFactsValid(intent) ==
    /\ Present(intent, {"installation", "nonce", "identity", "isolation"}) /\ intent.kind = "production"
    /\ intent.classification = "pending"

UpMigrationFactsValid(facts) ==
    /\ MigrationLatchFactsValid(facts.latch) /\ Present(facts, {"isolation", "nonce"})
    /\ facts.expiresAt > facts.latch.installedAt
    /\ \/ /\ facts.latch.kind = "production" /\ facts.profile = "claim_v1"
          /\ \E intent \in facts.intent :
                /\ UpgradeIntentFactsValid(intent) /\ Agree(intent, facts.latch, {"installation", "identity"})
                /\ Agree(intent, facts, {"isolation", "nonce"})
       \/ facts.latch.kind = "disposable_fixture" /\ facts.profile = "legacy_v6" /\ facts.intent = {}

\* Providers are retired once each, in ascending order, and every retired member
\* of the environment belongs to one of them, and every one has a member.
Ascending(seq) == \A i, j \in 1..Len(seq) : i < j => seq[i] < seq[j]
ProviderRetirementSetValid(set) ==
    /\ Present(set, {"installation", "anchor"})
    /\ set.retirements # <<>> /\ Ascending(set.retirements)
    /\ set.members # <<>> /\ \A i, j \in 1..Len(set.members) : i < j => set.members[i].key < set.members[j].key
    /\ {set.members[i].provider : i \in 1..Len(set.members)} = {set.retirements[i] : i \in 1..Len(set.retirements)}

DownMigrationFactsValid(facts) ==
    /\ MigrationLatchFactsValid(facts.latch) /\ facts.latch.kind = "disposable_fixture"
    /\ facts.profile = "legacy_v6" /\ Ascending(facts.tables)
    /\ ProviderRetirementSetValid(facts.retirement) /\ facts.retirement.installation = facts.latch.installation
    /\ facts.anchor = facts.retirement.anchor /\ Present(facts, {"nonce", "anchor", "catalog"})
    /\ facts.scope = "down_00007_only" /\ facts.expiresAt > facts.latch.installedAt

\* A canonical body stands for its contents; its digest is separated by schema.
authorityV7CanonicalBody(schema, value) == <<schema, value>>
authorityV7MigrationLatchJCS(latch) == authorityV7CanonicalBody("authority-protocol-migration-latch.v1", latch)
authorityV7UpgradeIntentJCS(intent) == authorityV7CanonicalBody("authority-protocol-upgrade-intent.v1", intent)
authorityV7PristineDowngradeInventoryJCS(p) == authorityV7CanonicalBody("pristine-downgrade-inventory.v1", p)

\* What the callback states of the catalog it has locked.
PristineInventory(facts, tx) ==
    [installation |-> facts.latch.installation, kind |-> facts.latch.kind, identity |-> facts.latch.identity,
     catalog |-> facts.catalog, tables |-> facts.tables, rows |-> 0, latches |-> 1, authorizations |-> 0,
     tx |-> tx, nonce |-> facts.nonce, stage |-> "pre_authorization"]
PristineInventoryValid(p) ==
    /\ Present(p, {"installation", "identity", "catalog", "nonce"}) /\ p.kind = "disposable_fixture"
    /\ p.rows = 0 /\ p.latches = 1 /\ p.authorizations = 0 /\ p.tx > 0 /\ p.stage = "pre_authorization"
    /\ Ascending(p.tables)

DownRequest(facts, tx) ==
    [latch |-> facts.latch, catalog |-> facts.catalog, pristine |-> PristineInventory(facts, tx),
     retirement |-> facts.retirement, anchor |-> facts.anchor, tx |-> tx, nonce |-> facts.nonce, scope |-> facts.scope]
DownRequestValid(r) ==
    /\ MigrationLatchFactsValid(r.latch) /\ r.latch.kind = "disposable_fixture"
    /\ PristineInventoryValid(r.pristine) /\ ProviderRetirementSetValid(r.retirement)
    /\ Agree(r.pristine, r.latch, {"installation", "identity"}) /\ Agree(r.pristine, r, {"catalog", "tx", "nonce"})
    /\ r.retirement.installation = r.latch.installation /\ r.retirement.anchor = r.anchor
    /\ r.tx > 0 /\ Present(r, {"nonce", "catalog", "anchor"}) /\ r.scope = "down_00007_only"

\* The signed body of an authorization; it repeats the request field by field.
Signed(r, at) ==
    [installation |-> r.latch.installation, identity |-> r.latch.identity, catalog |-> r.catalog,
     latch |-> authorityV7MigrationLatchJCS(r.latch),
     pristine |-> authorityV7PristineDowngradeInventoryJCS(r.pristine), retirement |-> r.retirement, anchor |-> r.anchor, tx |-> r.tx, nonce |-> r.nonce,
     scope |-> r.scope, version |-> 7, issuedAt |-> at, expiresAt |-> at + Lifetime]
DowngradeAuthorizationValid(a) ==
    /\ Present(a, {"installation", "identity", "catalog", "anchor", "nonce"}) /\ a.version = 7 /\ a.tx > 0
    /\ a.scope = "down_00007_only" /\ a.expiresAt > a.issuedAt /\ a.expiresAt - a.issuedAt <= Lifetime
DownAuthorizationFactsValid(f) ==
    /\ DownRequestValid(f.request) /\ DowngradeAuthorizationValid(f.signed)
    /\ Agree(f.signed, f.request, {"catalog", "retirement", "anchor", "tx", "nonce", "scope"})
    /\ f.signed.pristine = authorityV7PristineDowngradeInventoryJCS(f.request.pristine)
    /\ f.signed.latch = authorityV7MigrationLatchJCS(f.request.latch)
    /\ Agree(f.signed, f.request.latch, {"installation", "identity"})

(***************************************************************************)
(* State.                                                                  *)
(***************************************************************************)
VARIABLES now,      \* the clock
          db,       \* the committed catalog
          lock,     \* the transaction that holds the exclusive catalog lock
          txs,      \* transactions begun, and the last transaction number given
          run,      \* what each worker is doing
          consumed, \* handles whose flag is set
          issued,   \* authorizations the authorizer has signed
          history   \* committed migrations

vars == <<now, db, lock, txs, run, consumed, issued, history>>

Idle == [at |-> "idle"]
Catalog(schema, latch, intent) == [schema |-> schema, latch |-> latch, intent |-> intent, authorization |-> {}, rows |-> 0]
V6 == Catalog("v6", {}, {})

Contexts ==
    [kind : InstallationKinds \cup {None}, up : UpIds \cup {None}, down : DownIds \cup {None}, authorizer : BOOLEAN]
requireAuthorityV7MigrationContext(c) == c.kind \in InstallationKinds
NewUpGrants == {g \in UpIds : UpMigrationFactsValid(UpFactsOf[g])}
NewDownGrants == {g \in DownIds : DownMigrationFactsValid(DownFactsOf[g])}

Init ==
    /\ now = 0 /\ db = V6 /\ lock = None /\ txs = 0 /\ run = [w \in Workers |-> Idle]
    /\ consumed = {} /\ issued = {} /\ history = <<>>

\* A refused or failed callback makes the migration runner roll the transaction back.
Fail(w) ==
    /\ run' = [run EXCEPT ![w] = Idle]
    /\ lock' = IF lock = w THEN None ELSE lock

Handle(kind, value) == <<kind, value>>

\* Whoever sets the flag first has the handle; it is spent even if it has expired.
Consumable(handle, expiresAt) == handle \notin consumed /\ now < expiresAt

(***************************************************************************)
(* Up.                                                                     *)
(***************************************************************************)
upNodeControlAuthorityV7(w, c) ==
    /\ run[w] = Idle /\ requireAuthorityV7MigrationContext(c)
    /\ c.up \in NewUpGrants /\ c.down = None /\ ~c.authorizer
    /\ LET facts == UpFactsOf[c.up] IN
       /\ consumed' = consumed \cup {Handle("up", c.up)}
       /\ run' = [run EXCEPT ![w] =
            IF Consumable(Handle("up", c.up), facts.expiresAt) /\ facts.latch.kind = c.kind
            THEN [at |-> "up", grant |-> c.up] ELSE Idle]
    /\ UNCHANGED <<now, db, lock, txs, issued, history>>

\* The up asset creates roles and tables, so a second up waits for the first and
\* then finds them; the latch and the intent are written in the same transaction.
executeUp(w) ==
    /\ run[w].at = "up" /\ lock = None
    /\ LET facts == UpFactsOf[run[w].grant] IN
       IF db.schema = "v7" THEN Fail(w)
       ELSE /\ lock' = w
            /\ run' = [run EXCEPT ![w] =
                 [at |-> "ready", grant |-> run[w].grant, dir |-> "up",
                  view |-> [Catalog("v7", {authorityV7MigrationLatchJCS(facts.latch)},
                                    {authorityV7UpgradeIntentJCS(i) : i \in facts.intent}) EXCEPT !.rows = db.rows]]]
    /\ UNCHANGED <<now, db, txs, consumed, issued, history>>

(***************************************************************************)
(* Down.                                                                   *)
(***************************************************************************)
downNodeControlAuthorityV7(w, c) ==
    /\ run[w] = Idle /\ requireAuthorityV7MigrationContext(c)
    /\ c.down \in NewDownGrants /\ c.up = None /\ c.authorizer /\ c.kind = "disposable_fixture"
    /\ LET facts == DownFactsOf[c.down] IN
       /\ consumed' = consumed \cup {Handle("down", c.down)}
       /\ run' = [run EXCEPT ![w] =
            IF Consumable(Handle("down", c.down), facts.expiresAt) /\ facts.latch.kind = c.kind
            THEN [at |-> "lock", grant |-> c.down] ELSE Idle]
    /\ UNCHANGED <<now, db, lock, txs, issued, history>>

\* One statement locks every table of the catalog; without version 7 there is none to lock.
lockAuthorityV7DownCatalog(w) ==
    /\ run[w].at = "lock" /\ lock = None
    /\ IF db.schema = "v6" \/ txs = MaxTx THEN Fail(w) /\ UNCHANGED txs
       ELSE /\ lock' = w /\ txs' = txs + 1
            /\ run' = [run EXCEPT ![w] = [at |-> "ask", grant |-> @.grant, tx |-> txs + 1]]
    /\ UNCHANGED <<now, db, consumed, issued, history>>

\* The authorizer signs what it is asked, something it was not asked, or hands
\* out again what it has signed before; every handle is internally consistent.
AuthorizeAuthorityProtocolDowngrade(request) ==
    {f \in {[request |-> request, signed |-> Signed(request, now)]}
           \cup {LET other == [request EXCEPT !.catalog = "other", !.pristine.catalog = "other"]
                 IN  [request |-> other, signed |-> Signed(other, now)]}
           \cup issued :
        DownAuthorizationFactsValid(f)}

ConsumeVerifiedAuthorityV7DownAuthorization(f) ==
    Consumable(Handle("authorization", f), f.signed.expiresAt) /\ now >= f.signed.issuedAt
BoundToTransaction(f, tx, nonce) == f.request.tx = tx /\ f.request.nonce = nonce

Authorize(w) ==
    /\ run[w].at = "ask"
    /\ LET facts == DownFactsOf[run[w].grant]
           request == DownRequest(facts, run[w].tx) IN
       /\ DownRequestValid(request)
       /\ \E f \in AuthorizeAuthorityProtocolDowngrade(request) :
            /\ issued' = issued \cup {f} /\ consumed' = consumed \cup {Handle("authorization", f)}
            /\ IF ConsumeVerifiedAuthorityV7DownAuthorization(f) /\ BoundToTransaction(f, run[w].tx, facts.nonce)
               THEN /\ run' = [run EXCEPT ![w] = [at |-> "insert", grant |-> @.grant, tx |-> @.tx, auth |-> f.signed]]
                    /\ UNCHANGED lock
               ELSE Fail(w)
    /\ UNCHANGED <<now, db, txs, history>>

LatchOf(view, a) ==
    {l \in view.latch : l = a.latch /\ l[2].kind = "disposable_fixture" /\ l[2].identity = a.identity /\ l[2].catalog = a.catalog}

\* The database checks the window, the transaction, the one latch and the empty
\* tables again, and returns what it stored, which the callback compares.
InsertOverRows(w) ==
    /\ run[w].at = "insert"
    /\ LET a == run[w].auth IN
       IF /\ a.tx = run[w].tx /\ a.issuedAt <= now /\ now < a.expiresAt
          /\ Cardinality(LatchOf(db, a)) = 1 /\ db.authorization = {}
       THEN run' = [run EXCEPT ![w] = [at |-> "guard", grant |-> @.grant, tx |-> @.tx,
                                       view |-> [db EXCEPT !.authorization = {a}]]] /\ UNCHANGED lock
       ELSE Fail(w)
    /\ UNCHANGED <<now, db, txs, consumed, issued, history>>

v7_insert_downgrade_authorization(w) ==
    /\ run[w].at = "insert"
    /\ LET a == run[w].auth
           facts == DownFactsOf[run[w].grant] IN
       IF /\ a.tx = run[w].tx /\ a.issuedAt <= now /\ now < a.expiresAt /\ db.rows = 0
          /\ Cardinality(LatchOf(db, a)) = 1 /\ db.authorization = {}
          /\ a.pristine = authorityV7PristineDowngradeInventoryJCS(PristineInventory(facts, run[w].tx)) /\ a.retirement = facts.retirement
       THEN run' = [run EXCEPT ![w] = [at |-> "guard", grant |-> @.grant, tx |-> @.tx,
                                       view |-> [db EXCEPT !.authorization = {a}]]] /\ UNCHANGED lock
       ELSE Fail(w)
    /\ UNCHANGED <<now, db, txs, consumed, issued, history>>

\* Latch and authorization are deleted together, still inside the window.
v7_consume_down_guard(w) ==
    /\ run[w].at = "guard"
    /\ LET a == CHOOSE a \in run[w].view.authorization : TRUE IN
       IF /\ a.tx = run[w].tx /\ a.issuedAt <= now /\ now < a.expiresAt
          /\ LatchOf(run[w].view, a) = run[w].view.latch
       THEN /\ run' = [run EXCEPT ![w] =
                 [at |-> "asset", grant |-> @.grant, tx |-> @.tx, by |-> a, when |-> now,
                  view |-> [@.view EXCEPT !.authorization = {}, !.latch = {}]]]
            /\ UNCHANGED lock
       ELSE Fail(w)
    /\ UNCHANGED <<now, db, txs, consumed, issued, history>>

executeDown(w) ==
    /\ run[w].at = "asset"
    /\ run' = [run EXCEPT ![w] = [at |-> "ready", grant |-> @.grant, dir |-> "down", tx |-> @.tx, by |-> @.by,
                                  when |-> @.when, view |-> [@.view EXCEPT !.schema = "v6"]]]
    /\ UNCHANGED <<now, db, lock, txs, consumed, issued, history>>

(***************************************************************************)
(* The migration runner, the database and everybody else.                  *)
(***************************************************************************)
Commit(w) ==
    /\ run[w].at = "ready"
    /\ db' = run[w].view /\ history' = Append(history, run[w])
    /\ run' = [run EXCEPT ![w] = Idle] /\ lock' = None
    /\ UNCHANGED <<now, txs, consumed, issued>>

\* A statement, the authorizer or the commit fails, or the context ends.
Abandon(w) == run[w] # Idle /\ Fail(w) /\ UNCHANGED <<now, db, txs, consumed, issued, history>>

\* Every other transaction that writes a table of the catalog waits for the lock.
Write ==
    /\ lock = None /\ db.rows < MaxRows /\ db' = [db EXCEPT !.rows = @ + 1]
    /\ UNCHANGED <<now, lock, txs, run, consumed, issued, history>>
Clear ==
    /\ lock = None /\ db.rows > 0 /\ db' = [db EXCEPT !.rows = 0]
    /\ UNCHANGED <<now, lock, txs, run, consumed, issued, history>>
Tick == now < MaxTime /\ now' = now + 1 /\ UNCHANGED <<db, lock, txs, run, consumed, issued, history>>

Step(w) ==
    \/ executeUp(w) \/ lockAuthorityV7DownCatalog(w) \/ Authorize(w) \/ v7_insert_downgrade_authorization(w)
    \/ v7_consume_down_guard(w) \/ executeDown(w) \/ Commit(w) \/ Abandon(w)
Next ==
    \/ \E w \in Workers, c \in Contexts : upNodeControlAuthorityV7(w, c) \/ downNodeControlAuthorityV7(w, c)
    \/ \E w \in Workers : Step(w)
    \/ Write \/ Clear \/ Tick

Spec == Init /\ [][Next]_vars
\* A callback goes on or returns: every call it makes ends, with its context at the latest.
FairSpec == Spec /\ \A w \in Workers : WF_vars(Step(w))

(***************************************************************************)
(* Properties.                                                             *)
(***************************************************************************)
TypeOK ==
    /\ now \in 0..MaxTime /\ txs \in 0..MaxTx /\ lock \in Workers \cup {None}
    /\ db.schema \in {"v6", "v7"} /\ db.rows \in 0..MaxRows 
    /\ \A w \in Workers : run[w].at \in {"idle", "up", "lock", "ask", "insert", "guard", "asset", "ready"}
    /\ \A w \in Workers : run[w].at \in {"ask", "insert", "guard", "asset", "ready"} <=> lock = w

\* Outside a transaction version 7 has exactly one latch and version 6 none, and
\* no downgrade authorization is ever seen: the counts go from one and none to
\* one and one and to none and none inside one transaction.
ControlRowsAreConsistent ==
    /\ db.authorization = {}
    /\ IF db.schema = "v7" THEN \E l \in db.latch : db.latch = {l} ELSE db.latch = {}

DownLosesNothingStep ==
    db.schema = "v7" /\ db'.schema = "v6" =>
     db.rows = 0 /\ \A l \in db.latch : l[2].kind = "disposable_fixture"

\* Going down never destroys rows: it commits only over empty tables of a
\* disposable installation, whatever was written after the grant was issued.
DownLosesNothing == [][DownLosesNothingStep]_vars

\* However many copies of a grant are used, at most one migration commits by it.
OneCommitPerGrant ==
    \A i, j \in 1..Len(history) :
        history[i].dir = history[j].dir /\ history[i].grant = history[j].grant => i = j

\* Every committed downgrade was signed for its own transaction and consumed
\* inside the window of that signature.
DowngradeWasAuthorized ==
    \A i \in 1..Len(history) : history[i].dir = "down" =>
        /\ history[i].by.tx = history[i].tx
        /\ history[i].by.issuedAt <= history[i].when /\ history[i].when < history[i].by.expiresAt

\* A production catalog always has the pending intent that names its
\* installation, so that activation can start from it.
ProductionHasIntent ==
    \A l \in db.latch : l[2].kind = "production" =>
        \E i \in db.intent : Agree(i[2], l[2], {"installation", "identity"})

\* The exclusive catalog lock, held while the authorizer is asked, is released.
LockIsReleased == \A w \in Workers : lock = w ~> lock # w

-----------------------------------------------------------------------------
(* Proofs, for any workers, grants, facts and bounds.                      *)

Locked == {"ask", "insert", "guard", "asset", "ready"}

(* A catalog as committed, and one a downgrade may remove.                 *)
CatalogInv(d) ==
    /\ d = [schema |-> d.schema, latch |-> d.latch, intent |-> d.intent,
            authorization |-> d.authorization, rows |-> d.rows]
    /\ d.authorization = {} /\ d.schema \in {"v6", "v7"}
    /\ d.schema = "v6" => d.latch = {}
    /\ d.schema = "v7" => \E l \in d.latch : d.latch = {l}
    /\ \A l \in d.latch : l[2].kind = "production" =>
          \E i \in d.intent : Agree(i[2], l[2], {"installation", "identity"})

Disposable(d) == d.rows = 0 /\ \A l \in d.latch : l[2].kind = "disposable_fixture"
Windowed(r) == r.by.tx = r.tx /\ r.by.issuedAt <= r.when /\ r.when < r.by.expiresAt

(* What a migration has established when it is where it is.                *)
RunInv(r, d) ==
    \/ r.at \in {"idle", "lock", "ask", "insert"}
    \/ r.at = "up" /\ r.grant \in NewUpGrants
    \/ r.at = "guard" /\ Disposable(d) /\ \E a : r.view = [d EXCEPT !.authorization = {a}]
    \/ /\ r.at = "asset" /\ Disposable(d) /\ Windowed(r)
       /\ r.view = [d EXCEPT !.authorization = {}, !.latch = {}]
    \/ r.at = "ready" /\ r.dir = "up" /\ CatalogInv(r.view) /\ r.view.schema = "v7"
    \/ r.at = "ready" /\ r.dir = "down" /\ CatalogInv(r.view) /\ Disposable(d) /\ Windowed(r)

LockInv ==
    /\ run = [w \in Workers |-> run[w]]
    /\ CatalogInv(db)
    /\ \A w \in Workers : RunInv(run[w], db)
    /\ lock \in Workers \cup {None}
    /\ \A w \in Workers : run[w].at \in Locked <=> lock = w

(* The handle a migration was admitted by.                                 *)
HandleOf(r) == Handle(IF r.at = "up" THEN "up" ELSE IF r.at = "ready" THEN r.dir ELSE "down", r.grant)

SpentInv ==
    /\ run = [w \in Workers |-> run[w]]
    /\ \E S : history \in Seq(S)
    /\ \A w \in Workers : run[w] # Idle => HandleOf(run[w]) \in consumed
    /\ \A w, v \in Workers : run[w] # Idle /\ run[v] # Idle /\ HandleOf(run[w]) = HandleOf(run[v]) => w = v
    /\ \A i \in 1..Len(history) :
          /\ history[i].at = "ready" /\ HandleOf(history[i]) \in consumed
          /\ \A w \in Workers : run[w] # Idle => HandleOf(run[w]) # HandleOf(history[i])
    /\ \A i, j \in 1..Len(history) : HandleOf(history[i]) = HandleOf(history[j]) => i = j

WindowInv == \A i \in 1..Len(history) : history[i].dir = "down" => Windowed(history[i])

(* What appending to a sequence gives.                                     *)
LEMMA Appended ==
    ASSUME NEW S, NEW s \in Seq(S), NEW e
    PROVE  /\ Append(s, e) \in Seq(S \cup {e})
           /\ Len(Append(s, e)) = Len(s) + 1 /\ Len(s) \in Nat
           /\ \A i \in 1..Len(s) : Append(s, e)[i] = s[i]
           /\ Append(s, e)[Len(s) + 1] = e
<1>1. s \in Seq(S \cup {e})
  OBVIOUS
<1> QED BY <1>1

(* A migration that goes on keeps the lock discipline when the catalog     *)
(* stays and the new step is one its place in the callback allows.         *)
LEMMA LockKept ==
    ASSUME None \notin Workers, LockInv, NEW w \in Workers, NEW r, run' = [run EXCEPT ![w] = r],
           db' = db, RunInv(r, db),
           \/ r.at \in Locked /\ lock' = w /\ (lock = None \/ lock = w)
           \/ r.at \notin Locked /\ lock' = (IF lock = w THEN None ELSE lock)
    PROVE  LockInv'
<1>1. run' = [v \in Workers |-> run'[v]] /\ run'[w] = r /\ \A v \in Workers \ {w} : run'[v] = run[v]
  BY Zenon DEF LockInv
<1>2. \A v \in Workers : RunInv(run'[v], db)
  BY Zenon, <1>1 DEF LockInv
<1>3. lock' \in Workers \cup {None}
  BY Zenon DEF LockInv
<1>4. \A v \in Workers : run'[v].at \in Locked <=> lock' = v
  BY <1>1 DEF LockInv
<1> QED BY Zenon, <1>1, <1>2, <1>3, <1>4 DEF LockInv

(* A migration stays admitted by its handle, ends, or is admitted by a     *)
(* handle nobody used.                                                     *)
LEMMA SpentKept ==
    ASSUME SpentInv, NEW w \in Workers, NEW r, run' = [run EXCEPT ![w] = r], history' = history,
           consumed \subseteq consumed',
           \/ r = Idle
           \/ run[w] # Idle /\ HandleOf(r) = HandleOf(run[w])
           \/ HandleOf(r) \notin consumed /\ HandleOf(r) \in consumed'
    PROVE  SpentInv'
<1>1. run' = [v \in Workers |-> run'[v]] /\ run'[w] = r /\ \A v \in Workers \ {w} : run'[v] = run[v]
  BY Zenon DEF SpentInv
<1>2. \A v \in Workers : run'[v] # Idle => HandleOf(run'[v]) \in consumed'
  BY Zenon, <1>1 DEF SpentInv
<1>3. \A u, v \in Workers : run'[u] # Idle /\ run'[v] # Idle /\ HandleOf(run'[u]) = HandleOf(run'[v]) => u = v
  BY <1>1 DEF SpentInv
<1>4. \A i \in 1..Len(history) :
        /\ history[i].at = "ready" /\ HandleOf(history[i]) \in consumed'
        /\ \A v \in Workers : run'[v] # Idle => HandleOf(run'[v]) # HandleOf(history[i])
  BY <1>1 DEF SpentInv
<1> QED BY Zenon, <1>1, <1>2, <1>3, <1>4 DEF SpentInv

(* A refused or failed callback leaves nothing behind.                     *)
LEMMA FailKeeps ==
    ASSUME None \notin Workers, LockInv, SpentInv, NEW w \in Workers, Fail(w),
           UNCHANGED <<db, history>>, consumed \subseteq consumed'
    PROVE  LockInv' /\ SpentInv'
<1>1. Idle.at = "idle" /\ Idle.at \notin Locked /\ RunInv(Idle, db)
  BY Zenon DEF Idle, Locked, RunInv
<1>2. run' = [run EXCEPT ![w] = Idle] /\ lock' = IF lock = w THEN None ELSE lock
  BY Zenon DEF Fail
<1>3. LockInv'
  BY Zenon, <1>1, <1>2, LockKept
<1>4. SpentInv'
  BY Zenon, <1>2, SpentKept
<1> QED BY Zenon, <1>3, <1>4

(* Admission: a grant counts once, whatever copies of it there are.        *)
LEMMA AdmissionKeeps ==
    ASSUME None \notin Workers, LockInv, SpentInv, NEW w \in Workers, NEW c,
           upNodeControlAuthorityV7(w, c) \/ downNodeControlAuthorityV7(w, c)
    PROVE  LockInv' /\ SpentInv'
<1>0. lock # w /\ run[w] = Idle
  <2>1. run[w] = Idle /\ Idle.at \notin Locked
    BY Zenon DEF upNodeControlAuthorityV7, downNodeControlAuthorityV7, Idle, Locked
  <2> QED BY Zenon, <2>1 DEF LockInv
<1>1. ASSUME NEW kind, NEW grant, NEW r, run' = [run EXCEPT ![w] = r], UNCHANGED <<db, lock, history>>,
             consumed' = consumed \cup {Handle(kind, grant)},
             \/ r = Idle
             \/ /\ Handle(kind, grant) \notin consumed /\ HandleOf(r) = Handle(kind, grant)
                /\ r.at \notin Locked /\ RunInv(r, db)
      PROVE  LockInv' /\ SpentInv'
  <2>1. r.at \notin Locked /\ RunInv(r, db)
    BY <1>1 DEF Idle, Locked, RunInv
  <2>2. LockInv'
    BY Zenon, <1>0, <1>1, <2>1, LockKept
  <2>3. SpentInv'
    BY Zenon, <1>1, SpentKept
  <2> QED BY Zenon, <2>2, <2>3
<1>2. CASE upNodeControlAuthorityV7(w, c)
  <2> DEFINE facts == UpFactsOf[c.up]
             ok == Consumable(Handle("up", c.up), facts.expiresAt) /\ facts.latch.kind = c.kind
             up == [at |-> "up", grant |-> c.up]
             r == IF ok THEN up ELSE Idle
  <2>1. /\ run' = [run EXCEPT ![w] = r] /\ UNCHANGED <<db, lock, history>>
        /\ consumed' = consumed \cup {Handle("up", c.up)} /\ c.up \in NewUpGrants
    BY Zenon, <1>2 DEF upNodeControlAuthorityV7
  <2>2. ok => Handle("up", c.up) \notin consumed
    BY Zenon DEF Consumable
  <2>3. up.at = "up" /\ up.grant = c.up
    BY Zenon
  <2> HIDE DEF ok, up
  <2>4. HandleOf(up) = Handle("up", c.up) /\ up.at \notin Locked /\ RunInv(up, db)
    BY Zenon, <2>1, <2>3 DEF HandleOf, Locked, RunInv
  <2>5. r = Idle \/ (ok /\ r = up)
    BY Zenon
  <2> HIDE DEF r
  <2> QED BY Zenon, <1>1, <2>1, <2>2, <2>4, <2>5
<1>3. CASE downNodeControlAuthorityV7(w, c)
  <2> DEFINE facts == DownFactsOf[c.down]
             ok == Consumable(Handle("down", c.down), facts.expiresAt) /\ facts.latch.kind = c.kind
             down == [at |-> "lock", grant |-> c.down]
             r == IF ok THEN down ELSE Idle
  <2>1. /\ run' = [run EXCEPT ![w] = r] /\ UNCHANGED <<db, lock, history>>
        /\ consumed' = consumed \cup {Handle("down", c.down)}
    BY Zenon, <1>3 DEF downNodeControlAuthorityV7
  <2>2. ok => Handle("down", c.down) \notin consumed
    BY Zenon DEF Consumable
  <2>3. down.at = "lock" /\ down.grant = c.down
    BY Zenon
  <2> HIDE DEF ok, down
  <2>4. HandleOf(down) = Handle("down", c.down) /\ down.at \notin Locked /\ RunInv(down, db)
    BY Zenon, <2>3 DEF HandleOf, Locked, RunInv
  <2>5. r = Idle \/ (ok /\ r = down)
    OBVIOUS
  <2> HIDE DEF r
  <2> QED BY Zenon, <1>1, <2>1, <2>2, <2>4, <2>5
<1> QED BY Zenon, <1>2, <1>3

(* A step of an admitted migration: it takes the lock or has it, and what  *)
(* it established follows from what it had.                                *)
LEMMA GoesOn ==
    ASSUME None \notin Workers, LockInv, SpentInv, NEW w \in Workers, NEW r,
           run' = [run EXCEPT ![w] = r], UNCHANGED <<db, history>>, consumed \subseteq consumed',
           run[w] # Idle, HandleOf(r) = HandleOf(run[w]), r.at \in Locked, RunInv(r, db),
           \/ lock = None /\ lock' = w
           \/ run[w].at \in Locked /\ UNCHANGED lock
    PROVE  LockInv' /\ SpentInv'
<1>1. lock' = w /\ (lock = None \/ lock = w)
  BY Zenon DEF LockInv
<1>2. LockInv'
  BY Zenon, <1>1, LockKept
<1>3. SpentInv'
  BY Zenon, SpentKept
<1> QED BY Zenon, <1>2, <1>3

(* The up asset installs a catalog with its latch and its intent.          *)
LEMMA UpKeeps ==
    ASSUME None \notin Workers, LockInv, SpentInv, NEW w \in Workers, executeUp(w)
    PROVE  LockInv' /\ SpentInv'
<1> DEFINE facts == UpFactsOf[run[w].grant]
           latch == authorityV7MigrationLatchJCS(facts.latch)
           intents == {authorityV7UpgradeIntentJCS(i) : i \in facts.intent}
           view == [Catalog("v7", {latch}, intents) EXCEPT !.rows = db.rows]
           r == [at |-> "ready", grant |-> run[w].grant, dir |-> "up", view |-> view]
<1>1. run[w].at = "up" /\ lock = None /\ UNCHANGED <<db, history, consumed>>
  BY Zenon DEF executeUp
<1>2. CASE db.schema = "v7"
  BY Zenon, <1>1, <1>2, FailKeeps DEF executeUp
<1>3. CASE db.schema # "v7"
  <2>1. lock' = w /\ run' = [run EXCEPT ![w] = r]
    BY Zenon, <1>3 DEF executeUp
  <2>2. UpMigrationFactsValid(facts)
    BY Zenon, <1>1 DEF LockInv, RunInv, NewUpGrants
  <2>3. view = [schema |-> "v7", latch |-> {latch}, intent |-> intents, authorization |-> {}, rows |-> db.rows]
    <3> HIDE DEF latch, intents
    <3>1. Catalog("v7", {latch}, intents)
            = [schema |-> "v7", latch |-> {latch}, intent |-> intents, authorization |-> {}, rows |-> 0]
      BY Zenon DEF Catalog
    <3> QED BY <3>1
  <2>4. r.at = "ready" /\ r.dir = "up" /\ r.grant = run[w].grant /\ r.view = view
    BY Zenon
  <2>5. latch[2] = facts.latch
    BY Zenon DEF authorityV7MigrationLatchJCS, authorityV7CanonicalBody
  <2>6. facts.latch.kind = "production" =>
          \E i \in intents : Agree(i[2], facts.latch, {"installation", "identity"})
    <3> SUFFICES ASSUME facts.latch.kind = "production"
                 PROVE  \E i \in intents : Agree(i[2], facts.latch, {"installation", "identity"})
      BY Zenon
    <3>1. PICK i \in facts.intent : Agree(i, facts.latch, {"installation", "identity"})
      BY Zenon, <2>2 DEF UpMigrationFactsValid
    <3>2. authorityV7UpgradeIntentJCS(i) \in intents /\ authorityV7UpgradeIntentJCS(i)[2] = i
      BY Zenon DEF authorityV7UpgradeIntentJCS, authorityV7CanonicalBody
    <3> QED BY Zenon, <3>1, <3>2
  <2> HIDE DEF latch, intents, facts, view
  <2>7. CatalogInv(view) /\ view.schema = "v7"
    <3>1. /\ view.schema = "v7" /\ view.latch = {latch} /\ view.intent = intents
          /\ view.authorization = {} /\ view.rows = db.rows
      BY Zenon, <2>3
    <3>2. view = [schema |-> view.schema, latch |-> view.latch, intent |-> view.intent,
                  authorization |-> view.authorization, rows |-> view.rows]
      BY Zenon, <2>3, <3>1
    <3>3. \A l \in view.latch : l[2].kind = "production" =>
            \E i \in view.intent : Agree(i[2], l[2], {"installation", "identity"})
      BY Zenon, <2>5, <2>6, <3>1
    <3> QED BY Zenon, <3>1, <3>2, <3>3 DEF CatalogInv
  <2> HIDE DEF r
  <2>8. RunInv(r, db) /\ r.at \in Locked
    BY Zenon, <2>4, <2>7 DEF RunInv, Locked
  <2>9. HandleOf(r) = HandleOf(run[w])
    BY Zenon, <1>1, <2>4 DEF HandleOf
  <2>10. run[w] # Idle
    BY <1>1 DEF Idle
  <2> QED BY Zenon, <1>1, <2>1, <2>8, <2>9, <2>10, GoesOn
<1> QED BY Zenon, <1>2, <1>3

(* Locking the catalog.                                                    *)
LEMMA LockKeeps ==
    ASSUME None \notin Workers, LockInv, SpentInv, NEW w \in Workers, lockAuthorityV7DownCatalog(w)
    PROVE  LockInv' /\ SpentInv'
<1> DEFINE r == [at |-> "ask", grant |-> run[w].grant, tx |-> txs + 1]
<1>1. run[w].at = "lock" /\ lock = None /\ UNCHANGED <<db, history, consumed>>
  BY Zenon DEF lockAuthorityV7DownCatalog
<1>2. CASE Fail(w)
  BY Zenon, <1>1, <1>2, FailKeeps
<1>3. CASE lock' = w /\ run' = [run EXCEPT ![w] = r]
  <2>1. r.at = "ask" /\ r.grant = run[w].grant
    BY Zenon
  <2> HIDE DEF r
  <2>2. RunInv(r, db) /\ r.at \in Locked /\ HandleOf(r) = HandleOf(run[w]) /\ run[w] # Idle
    BY <1>1, <2>1 DEF RunInv, Locked, HandleOf, Idle
  <2> QED BY Zenon, <1>1, <1>3, <2>2, GoesOn
<1>4. Fail(w) \/ (lock' = w /\ run' = [run EXCEPT ![w] = r])
  <2>1. run' = [run EXCEPT ![w] = [at |-> "ask", grant |-> @.grant, tx |-> txs + 1]]
          => run' = [run EXCEPT ![w] = r]
    BY Zenon DEF LockInv
  <2> QED BY Zenon, <2>1 DEF lockAuthorityV7DownCatalog
<1> QED BY Zenon, <1>2, <1>3, <1>4

(* Asking the authorizer: whatever it hands out is spent.                  *)
LEMMA AuthorizeKeeps ==
    ASSUME None \notin Workers, LockInv, SpentInv, NEW w \in Workers, Authorize(w)
    PROVE  LockInv' /\ SpentInv'
<1>1. PICK f : /\ run[w].at = "ask" /\ UNCHANGED <<db, history>>
               /\ consumed' = consumed \cup {Handle("authorization", f)}
               /\ \/ Fail(w)
                  \/ /\ run' = [run EXCEPT ![w] =
                          [at |-> "insert", grant |-> @.grant, tx |-> @.tx, auth |-> f.signed]]
                     /\ UNCHANGED lock
  BY Zenon DEF Authorize
<1>2. CASE Fail(w)
  BY Zenon, <1>1, <1>2, FailKeeps
<1>3. CASE ~Fail(w)
  <2> DEFINE r == [at |-> "insert", grant |-> run[w].grant, tx |-> run[w].tx, auth |-> f.signed]
  <2>1. run' = [run EXCEPT ![w] = r] /\ UNCHANGED lock
    BY Zenon, <1>1, <1>3
  <2>2. r.at = "insert" /\ r.grant = run[w].grant
    BY Zenon
  <2> HIDE DEF r
  <2>3. /\ RunInv(r, db) /\ r.at \in Locked /\ HandleOf(r) = HandleOf(run[w])
        /\ run[w] # Idle /\ run[w].at \in Locked
    BY <1>1, <2>2 DEF RunInv, Locked, HandleOf, Idle
  <2> QED BY Zenon, <1>1, <2>1, <2>3, GoesOn
<1> QED BY Zenon, <1>2, <1>3

(* The latch an authorization names is the only one, of a disposable       *)
(* installation.                                                           *)
LEMMA OneLatch ==
    ASSUME NEW d, CatalogInv(d), NEW a, Cardinality(LatchOf(d, a)) = 1
    PROVE  \A l \in d.latch : l[2].kind = "disposable_fixture"
<1>1. LatchOf(d, a) # {}
  BY FS_EmptySet
<1>2. d.schema = "v7"
  BY Zenon, <1>1 DEF CatalogInv, LatchOf
<1>3. PICK l : d.latch = {l}
  BY Zenon, <1>2 DEF CatalogInv
<1> QED BY Zenon, <1>1, <1>3 DEF LatchOf

(* Storing the authorization: the tables are empty and disposable.         *)
LEMMA InsertKeeps ==
    ASSUME None \notin Workers, LockInv, SpentInv, NEW w \in Workers, v7_insert_downgrade_authorization(w)
    PROVE  LockInv' /\ SpentInv'
<1> DEFINE a == run[w].auth
           r == [at |-> "guard", grant |-> run[w].grant, tx |-> run[w].tx,
                 view |-> [db EXCEPT !.authorization = {a}]]
<1>1. run[w].at = "insert" /\ UNCHANGED <<db, history, consumed>>
  BY Zenon DEF v7_insert_downgrade_authorization
<1>2. CASE Fail(w)
  BY Zenon, <1>1, <1>2, FailKeeps
<1>3. CASE ~Fail(w)
  <2>1. /\ run' = [run EXCEPT ![w] = r] /\ UNCHANGED lock
        /\ db.rows = 0 /\ Cardinality(LatchOf(db, a)) = 1
    BY Zenon, <1>3 DEF v7_insert_downgrade_authorization
  <2>2. r.at = "guard" /\ r.grant = run[w].grant /\ r.view = [db EXCEPT !.authorization = {a}]
    BY Zenon
  <2>3. Disposable(db)
    BY Zenon, <2>1, OneLatch DEF Disposable, LockInv
  <2> HIDE DEF r
  <2>4. RunInv(r, db)
    BY Zenon, <2>2, <2>3 DEF RunInv
  <2>5. r.at \in Locked /\ HandleOf(r) = HandleOf(run[w]) /\ run[w] # Idle /\ run[w].at \in Locked
    BY <1>1, <2>2 DEF Locked, HandleOf, Idle
  <2> QED BY Zenon, <1>1, <2>1, <2>4, <2>5, GoesOn
<1> QED BY Zenon, <1>2, <1>3

(* Consuming it: inside its window, with the latch.                        *)
LEMMA GuardKeeps ==
    ASSUME None \notin Workers, LockInv, SpentInv, NEW w \in Workers, v7_consume_down_guard(w)
    PROVE  LockInv' /\ SpentInv'
<1> DEFINE a == CHOOSE a \in run[w].view.authorization : TRUE
           r == [at |-> "asset", grant |-> run[w].grant, tx |-> run[w].tx, by |-> a, when |-> now,
                 view |-> [run[w].view EXCEPT !.authorization = {}, !.latch = {}]]
<1>1. run[w].at = "guard" /\ UNCHANGED <<db, history, consumed>>
  BY Zenon DEF v7_consume_down_guard
<1>2. CASE Fail(w)
  BY Zenon, <1>1, <1>2, FailKeeps
<1>3. CASE ~Fail(w)
  <2>1. /\ run' = [run EXCEPT ![w] = r] /\ UNCHANGED lock
        /\ a.tx = run[w].tx /\ a.issuedAt <= now /\ now < a.expiresAt
    BY Zenon, <1>3 DEF v7_consume_down_guard
  <2>2. /\ r.at = "asset" /\ r.grant = run[w].grant /\ r.tx = run[w].tx /\ r.by = a /\ r.when = now
        /\ r.view = [run[w].view EXCEPT !.authorization = {}, !.latch = {}]
    BY Zenon
  <2> HIDE DEF r, a
  <2>3. PICK b : Disposable(db) /\ run[w].view = [db EXCEPT !.authorization = {b}]
    BY Zenon, <1>1 DEF LockInv, RunInv
  <2>4. r.view = [db EXCEPT !.authorization = {}, !.latch = {}]
    BY Zenon, <2>2, <2>3 DEF LockInv, CatalogInv
  <2>5. RunInv(r, db)
    BY Zenon, <2>1, <2>2, <2>3, <2>4 DEF RunInv, Windowed
  <2>6. r.at \in Locked /\ HandleOf(r) = HandleOf(run[w]) /\ run[w] # Idle /\ run[w].at \in Locked
    BY <1>1, <2>2 DEF Locked, HandleOf, Idle
  <2> QED BY Zenon, <1>1, <2>1, <2>5, <2>6, GoesOn
<1> QED BY Zenon, <1>2, <1>3

(* The down asset leaves a catalog of version 6.                           *)
LEMMA DownKeeps ==
    ASSUME None \notin Workers, LockInv, SpentInv, NEW w \in Workers, executeDown(w)
    PROVE  LockInv' /\ SpentInv'
<1> DEFINE view == [run[w].view EXCEPT !.schema = "v6"]
           r == [at |-> "ready", grant |-> run[w].grant, dir |-> "down", tx |-> run[w].tx, by |-> run[w].by,
                 when |-> run[w].when, view |-> view]
<1>1. run[w].at = "asset" /\ UNCHANGED <<db, history, consumed, lock>> /\ run' = [run EXCEPT ![w] = r]
  BY Zenon DEF executeDown
<1>2. /\ Disposable(db) /\ Windowed(run[w])
      /\ run[w].view = [db EXCEPT !.authorization = {}, !.latch = {}]
  BY Zenon, <1>1 DEF LockInv, RunInv
<1>3. view = [schema |-> "v6", latch |-> {}, intent |-> db.intent, authorization |-> {}, rows |-> db.rows]
  <2>1. db = [schema |-> db.schema, latch |-> db.latch, intent |-> db.intent,
              authorization |-> db.authorization, rows |-> db.rows]
    BY Zenon DEF LockInv, CatalogInv
  <2>2. run[w].view = [schema |-> db.schema, latch |-> {}, intent |-> db.intent, authorization |-> {},
                       rows |-> db.rows]
    BY Zenon, <1>2, <2>1
  <2> QED BY <2>2
<1>4. /\ r.at = "ready" /\ r.grant = run[w].grant /\ r.dir = "down" /\ r.tx = run[w].tx
      /\ r.by = run[w].by /\ r.when = run[w].when /\ r.view = view
  BY Zenon
<1> HIDE DEF r, view
<1>5. CatalogInv(view)
  <2>1. view.schema = "v6" /\ view.latch = {} /\ view.intent = db.intent /\ view.authorization = {} /\ view.rows = db.rows
    BY Zenon, <1>3
  <2> QED BY Zenon, <1>3, <2>1 DEF CatalogInv
<1>6. RunInv(r, db)
  BY Zenon, <1>2, <1>4, <1>5 DEF RunInv, Windowed
<1>7. r.at \in Locked /\ HandleOf(r) = HandleOf(run[w]) /\ run[w] # Idle /\ run[w].at \in Locked
  BY <1>1, <1>4 DEF Locked, HandleOf, Idle
<1> QED BY Zenon, <1>1, <1>6, <1>7, GoesOn

(* A commit installs the catalog of the migration and records it.          *)
LEMMA CommitKeeps ==
    ASSUME None \notin Workers, LockInv, SpentInv, WindowInv, NEW w \in Workers, Commit(w)
    PROVE  LockInv' /\ SpentInv' /\ WindowInv'
<1> DEFINE r == run[w]
<1>1. /\ r.at = "ready" /\ db' = r.view /\ history' = Append(history, r) /\ run' = [run EXCEPT ![w] = Idle]
      /\ lock' = None /\ UNCHANGED consumed
  BY Zenon DEF Commit
<1>2. /\ run' = [v \in Workers |-> run'[v]] /\ run'[w] = Idle /\ \A v \in Workers \ {w} : run'[v] = run[v]
  BY Zenon, <1>1 DEF LockInv
<1>3. Idle.at = "idle" /\ r # Idle /\ lock = w
  BY <1>1 DEF Idle, LockInv, Locked
<1>4. CatalogInv(db') /\ (r.dir = "down" => Windowed(r))
  BY Zenon, <1>1 DEF LockInv, RunInv
<1>5. LockInv'
  <2>1. \A v \in Workers : run'[v].at \notin Locked
    BY Zenon, <1>2, <1>3 DEF LockInv, Locked
  <2>2. \A v \in Workers : RunInv(run'[v], db')
    <3> TAKE v \in Workers
    <3>1. CASE v = w
      BY Zenon, <1>2, <1>3, <3>1 DEF RunInv
    <3>2. CASE v # w
      <4>1. RunInv(run[v], db) /\ run'[v] = run[v] /\ run[v].at \notin Locked
        BY Zenon, <1>2, <2>1, <3>2 DEF LockInv
      <4> QED BY Zenon, <4>1 DEF RunInv, Locked
    <3> QED BY Zenon, <3>1, <3>2
  <2> QED BY Zenon, <1>1, <1>2, <1>4, <2>1, <2>2 DEF LockInv
<1>6. PICK S : history \in Seq(S)
  BY Zenon DEF SpentInv
<1>7. /\ history' \in Seq(S \cup {r}) /\ Len(history') = Len(history) + 1 /\ Len(history) \in Nat
      /\ \A i \in 1..Len(history) : history'[i] = history[i]
      /\ history'[Len(history) + 1] = r
  BY <1>1, <1>6, Appended
<1>8. \A i \in 1..Len(history') : \/ i \in 1..Len(history) /\ history'[i] = history[i]
                                  \/ i = Len(history) + 1 /\ history'[i] = r
  BY <1>7
<1>9. HandleOf(r) \in consumed /\ \A i \in 1..Len(history) : HandleOf(r) # HandleOf(history[i])
  BY Zenon, <1>3 DEF SpentInv
<1>10. SpentInv'
  <2>1. \A v \in Workers : run'[v] # Idle => v # w /\ run'[v] = run[v] /\ HandleOf(run'[v]) # HandleOf(r)
    BY <1>2, <1>3 DEF SpentInv
  <2>2. \A v \in Workers : run'[v] # Idle => HandleOf(run'[v]) \in consumed'
    BY Zenon, <1>1, <2>1 DEF SpentInv
  <2>3. \A u, v \in Workers :
          run'[u] # Idle /\ run'[v] # Idle /\ HandleOf(run'[u]) = HandleOf(run'[v]) => u = v
    BY <2>1 DEF SpentInv
  <2>4. \A i \in 1..Len(history') :
          /\ history'[i].at = "ready" /\ HandleOf(history'[i]) \in consumed'
          /\ \A v \in Workers : run'[v] # Idle => HandleOf(run'[v]) # HandleOf(history'[i])
    BY <1>1, <1>8, <1>9, <2>1 DEF SpentInv
  <2>5. \A i, j \in 1..Len(history') : HandleOf(history'[i]) = HandleOf(history'[j]) => i = j
    <3> SUFFICES ASSUME NEW i \in 1..Len(history'), NEW j \in 1..Len(history'),
                        HandleOf(history'[i]) = HandleOf(history'[j])
                 PROVE  i = j
      BY Zenon
    <3>1. CASE i \in 1..Len(history) /\ j \in 1..Len(history)
      BY Zenon, <1>7, <3>1 DEF SpentInv
    <3>2. CASE i = Len(history) + 1 /\ j = Len(history) + 1
      BY Zenon, <3>2
    <3>3. CASE i \in 1..Len(history) /\ j = Len(history) + 1
      BY Zenon, <1>7, <1>9, <3>3
    <3>4. CASE i = Len(history) + 1 /\ j \in 1..Len(history)
      BY Zenon, <1>7, <1>9, <3>4
    <3> QED BY Zenon, <1>8, <3>1, <3>2, <3>3, <3>4
  <2> QED BY Zenon, <1>2, <1>7, <2>2, <2>3, <2>4, <2>5 DEF SpentInv
<1>11. WindowInv'
  BY Zenon, <1>4, <1>8 DEF WindowInv
<1> QED BY Zenon, <1>5, <1>10, <1>11

(* Other transactions write only while nobody has the catalog locked.      *)
LEMMA WriteKeeps ==
    ASSUME None \notin Workers, LockInv, SpentInv, Write \/ Clear
    PROVE  LockInv' /\ SpentInv'
<1>1. /\ lock = None /\ UNCHANGED <<lock, run, consumed, history>>
      /\ \E n : db' = [db EXCEPT !.rows = n]
  BY Zenon DEF Write, Clear
<1>2. PICK n : db' = [db EXCEPT !.rows = n]
  BY Zenon, <1>1
<1>3. db' = [schema |-> db.schema, latch |-> db.latch, intent |-> db.intent,
             authorization |-> db.authorization, rows |-> n]
  BY Zenon, <1>2 DEF LockInv, CatalogInv
<1>4. CatalogInv(db')
  <2>1. /\ db'.schema = db.schema /\ db'.latch = db.latch /\ db'.intent = db.intent
        /\ db'.authorization = db.authorization /\ db'.rows = n
    BY Zenon, <1>3
  <2> QED BY Zenon, <1>3, <2>1 DEF LockInv, CatalogInv
<1>5. \A w \in Workers : RunInv(run[w], db')
  <2> TAKE w \in Workers
  <2>1. RunInv(run[w], db) /\ run[w].at \notin Locked
    BY Zenon, <1>1 DEF LockInv
  <2> QED BY Zenon, <2>1 DEF RunInv, Locked
<1>6. LockInv'
  BY Zenon, <1>1, <1>4, <1>5 DEF LockInv
<1>7. SpentInv'
  BY Zenon, <1>1 DEF SpentInv
<1> QED BY Zenon, <1>6, <1>7

(* The inductive invariant.                                                *)
GrantsInv == LockInv /\ SpentInv /\ WindowInv

(* What every step of the specification keeps.                             *)
LEMMA GrantsStep == ASSUME None \notin Workers, GrantsInv, [Next]_vars PROVE GrantsInv'
<1> USE DEF GrantsInv
<1>0. UNCHANGED history => WindowInv'
  BY Zenon DEF WindowInv
<1>1. CASE \E w \in Workers, c \in Contexts : upNodeControlAuthorityV7(w, c) \/ downNodeControlAuthorityV7(w, c)
  <2>1. UNCHANGED history
    BY Zenon, <1>1 DEF upNodeControlAuthorityV7, downNodeControlAuthorityV7
  <2> QED BY Zenon, <1>0, <1>1, <2>1, AdmissionKeeps
<1>2. ASSUME NEW w \in Workers, Step(w) PROVE GrantsInv'
  <2>1. CASE Commit(w)
    BY Zenon, <2>1, CommitKeeps
  <2>2. CASE Abandon(w)
    BY Zenon, <1>0, <2>2, FailKeeps DEF Abandon
  <2>3. CASE executeUp(w)
    BY Zenon, <1>0, <2>3, UpKeeps DEF executeUp
  <2>4. CASE lockAuthorityV7DownCatalog(w)
    BY Zenon, <1>0, <2>4, LockKeeps DEF lockAuthorityV7DownCatalog
  <2>5. CASE Authorize(w)
    BY Zenon, <1>0, <2>5, AuthorizeKeeps DEF Authorize
  <2>6. CASE v7_insert_downgrade_authorization(w)
    BY Zenon, <1>0, <2>6, InsertKeeps DEF v7_insert_downgrade_authorization
  <2>7. CASE v7_consume_down_guard(w)
    BY Zenon, <1>0, <2>7, GuardKeeps DEF v7_consume_down_guard
  <2>8. CASE executeDown(w)
    BY Zenon, <1>0, <2>8, DownKeeps DEF executeDown
  <2> QED BY Zenon, <1>2, <2>1, <2>2, <2>3, <2>4, <2>5, <2>6, <2>7, <2>8 DEF Step
<1>3. CASE Write \/ Clear
  <2>1. UNCHANGED history
    BY Zenon, <1>3 DEF Write, Clear
  <2> QED BY Zenon, <1>0, <1>3, <2>1, WriteKeeps
<1>4. CASE Tick \/ UNCHANGED vars
  BY <1>4 DEF Tick, vars, LockInv, SpentInv, WindowInv
<1> QED BY Zenon, <1>1, <1>2, <1>3, <1>4 DEF Next

(* The initial states have it.                                             *)
LEMMA GrantsInit == ASSUME None \notin Workers, Init PROVE GrantsInv
<1>1. /\ db = [schema |-> "v6", latch |-> {}, intent |-> {}, authorization |-> {}, rows |-> 0]
      /\ lock = None /\ run = [w \in Workers |-> Idle] /\ history = <<>>
  BY Zenon DEF Init, V6, Catalog
<1>2. CatalogInv(db)
  <2>1. db.schema = "v6" /\ db.latch = {} /\ db.intent = {} /\ db.authorization = {} /\ db.rows = 0
    BY Zenon, <1>1
  <2> QED BY Zenon, <1>1, <2>1 DEF CatalogInv
<1>3. \A w \in Workers : run[w] = Idle /\ run[w].at = "idle"
  BY Zenon, <1>1 DEF Idle
<1>4. LockInv
  BY Zenon, <1>1, <1>2, <1>3 DEF LockInv, RunInv, Locked
<1>5. history \in Seq({}) /\ Len(history) = 0
  BY <1>1
<1>6. SpentInv
  BY <1>1, <1>3, <1>5 DEF SpentInv
<1>7. WindowInv
  BY <1>5 DEF WindowInv
<1> QED BY Zenon, <1>4, <1>6, <1>7 DEF GrantsInv

(* Between transactions a version 7 catalog has one latch, a version 6 one *)
(* none, and no authorization is seen.                                     *)
THEOREM ControlRowsStayConsistent == ASSUME None \notin Workers PROVE Spec => []ControlRowsAreConsistent
<1>1. GrantsInv => ControlRowsAreConsistent
  BY Zenon DEF GrantsInv, LockInv, CatalogInv, ControlRowsAreConsistent
<1> QED BY <1>1, GrantsInit, GrantsStep, PTL DEF Spec

(* However many copies of a grant are used, at most one migration commits  *)
(* by it.                                                                  *)
THEOREM GrantsCommitOnce == ASSUME None \notin Workers PROVE Spec => []OneCommitPerGrant
<1>1. GrantsInv => OneCommitPerGrant
  BY Zenon DEF GrantsInv, SpentInv, OneCommitPerGrant, HandleOf, Handle
<1> QED BY <1>1, GrantsInit, GrantsStep, PTL DEF Spec

(* A committed downgrade was signed for its own transaction and consumed   *)
(* inside the window of the signature.                                     *)
THEOREM DowngradesAreAuthorized == ASSUME None \notin Workers PROVE Spec => []DowngradeWasAuthorized
<1>1. GrantsInv => DowngradeWasAuthorized
  BY Zenon DEF GrantsInv, WindowInv, Windowed, DowngradeWasAuthorized
<1> QED BY <1>1, GrantsInit, GrantsStep, PTL DEF Spec

(* A production catalog has the pending intent activation starts from.     *)
THEOREM ProductionKeepsIntent == ASSUME None \notin Workers PROVE Spec => []ProductionHasIntent
<1>1. GrantsInv => ProductionHasIntent
  BY Zenon DEF GrantsInv, LockInv, CatalogInv, ProductionHasIntent
<1> QED BY <1>1, GrantsInit, GrantsStep, PTL DEF Spec

(* Going down commits only over empty tables of a disposable installation. *)
THEOREM DownDestroysNothing == ASSUME None \notin Workers PROVE Spec => DownLosesNothing
<1>1. GrantsInv /\ [Next]_vars => [DownLosesNothingStep]_vars
  <2> SUFFICES ASSUME GrantsInv, Next, db.schema = "v7", db'.schema = "v6"
               PROVE  db.rows = 0 /\ \A l \in db.latch : l[2].kind = "disposable_fixture"
    BY Zenon DEF DownLosesNothingStep
  <2>1. db' = db \/ Write \/ Clear \/ \E w \in Workers : Commit(w)
    BY DEF Next, Step, upNodeControlAuthorityV7, downNodeControlAuthorityV7, executeUp,
         lockAuthorityV7DownCatalog, Authorize, v7_insert_downgrade_authorization, v7_consume_down_guard,
         executeDown, Abandon, Tick
  <2>2. ~(Write \/ Clear)
    <3> SUFFICES ASSUME Write \/ Clear PROVE FALSE
      BY Zenon
    <3>1. db'.schema = db.schema
      BY Zenon DEF Write, Clear, GrantsInv, LockInv, CatalogInv
    <3> QED BY Zenon, <3>1
  <2>3. PICK w \in Workers : Commit(w)
    BY Zenon, <2>1, <2>2
  <2>4. run[w].at = "ready" /\ db' = run[w].view /\ RunInv(run[w], db)
    BY Zenon, <2>3 DEF Commit, GrantsInv, LockInv
  <2> QED BY Zenon, <2>4 DEF RunInv, Disposable
<1> QED BY <1>1, GrantsInit, GrantsStep, PTL DEF Spec, DownLosesNothing
=============================================================================
