---------------------------- MODULE TrustService ----------------------------
(***************************************************************************)
(* The trust service of internal/trust. Bundles are issued to device       *)
(* authorizations, resolved, served by the primary and the mirrors, and    *)
(* acknowledged; processes bootstrap version 1 of the root metadata with   *)
(* EnsureLocalMetadata and ceremonies publish higher versions with         *)
(* PublishMetadata. The two parts meet only in the signing key a bundle is *)
(* signed with, so each is a state machine of its own.                     *)
(*                                                                         *)
(* A command is a transaction. It reads the clock, begins its idempotency  *)
(* key, and then AuthorizeBundleInTransaction locks the authorization, so  *)
(* that commands of one authorization run one after the other from there   *)
(* on: Start is what comes before the lock and the other actions are the   *)
(* rest. A bundle stands for its identifier, locator and envelope.         *)
(*                                                                         *)
(* PublishMetadata lists the stored versions, then Publish lists them      *)
(* again in its transaction and inserts. The transaction is READ           *)
(* COMMITTED: an insert that meets an uncommitted row with its primary key *)
(* waits for it, so the unique keys are those of the committed rows when   *)
(* it commits.                                                             *)
(***************************************************************************)
EXTENDS Naturals, FiniteSets, Sequences, Bags, IdempotencyRecords

(***************************************************************************)
(* Bundles.                                                                *)
(***************************************************************************)

CONSTANTS
    Authorizations,
    Requests,        \* commands in progress at a time
    Keys,            \* idempotency keys
    Operations,      \* the commands callers use
    BundleLifetime,  \* bundleLifetime
    Retention,       \* bundleIdempotencyRetention
    KeyUntil,        \* end of the signing key's validity
    MaxTime,         \* bound on the clock
    MaxSequence      \* bound on the sequence of the configuration

VARIABLES
    now,
    sequence,        \* the sequence of the current test configuration
    authorized,      \* authorizations whose device authority is intact
    highest,         \* highest_bundle_versions
    bundles,         \* bundle_issuances
    acks,            \* bundle_acknowledgements
    outbox,          \* events appended, as a bag
    idem,            \* idempotency records
    begun,           \* when the record of a key was begun
    requests,        \* the commands in progress
    answers,         \* history: what commands answered
    device           \* the version each device's client holds

issuanceVars == <<now, sequence, authorized, highest, bundles, acks, outbox, idem, begun, requests,
          answers, device>>

NoRequest == [op |-> "none"]

Slots == {"issue", "resolve", "acknowledge"} \X Authorizations \X Keys

Slot(c) == <<c.op, c.auth, c.key>>

IssuanceInit ==
    /\ now = 0 /\ sequence = 1
    /\ authorized = Authorizations
    /\ highest = [a \in Authorizations |-> 0]
    /\ bundles = {} /\ acks = {} /\ outbox = EmptyBag
    /\ idem = [s \in Slots |-> NoRecord]
    /\ begun = [s \in Slots |-> 0]
    /\ requests = [r \in Requests |-> NoRequest]
    /\ answers = {}
    /\ device = [a \in Authorizations |-> 0]

-----------------------------------------------------------------------------
(* The commands.  What a request is told from another by is its digest.    *)

IssueCommands ==
    {[op |-> "issue", auth |-> a, key |-> k, digest |-> q, at |-> now] :
        a \in Authorizations, k \in Keys, q \in 1..MaxSequence}

ResolveQueries ==
    {[op |-> "resolve", auth |-> a, key |-> k, digest |-> a, at |-> now] :
        a \in Authorizations, k \in Keys}

AcknowledgeCommands ==
    {[op |-> "acknowledge", auth |-> a, key |-> k, digest |-> [bundle |-> b, version |-> v],
      at |-> now] :
        a \in Authorizations, k \in Keys, b \in bundles, v \in 1..MaxSequence}

Commands ==
    {c \in IssueCommands \cup ResolveQueries \cup AcknowledgeCommands : c.op \in Operations}

Start(r) ==
    /\ requests[r] = NoRequest
    /\ \E c \in Commands : requests' = [requests EXCEPT ![r] = c]
    /\ UNCHANGED <<now, sequence, authorized, highest, bundles, acks, outbox, idem, begun,
                   answers, device>>

End(r) == requests' = [requests EXCEPT ![r] = NoRequest]

-----------------------------------------------------------------------------
(* beginTrustIdempotency                                                   *)
Outcome(c) ==
    LET s == Slot(c)
        found == idem[s]
    IN IF found = NoRecord THEN "started"
       ELSE Begin([found EXCEPT !.expired = c.at >= begun[s] + Retention], c.digest)

Complete(c, status, body) ==
    /\ idem' = [idem EXCEPT ![Slot(c)] = Completed(c.digest, status, body)]
    /\ begun' = [begun EXCEPT ![Slot(c)] = c.at]

Answer(c, body, fresh) ==
    answers' = answers \cup {[op |-> c.op, auth |-> c.auth, key |-> c.key, body |-> body,
                              fresh |-> fresh, at |-> c.at]}

(* A replay comes before authorize and gives the stored response back.     *)
Replay(r) ==
    LET c == requests[r] IN
    /\ c # NoRequest
    /\ Outcome(c) = "replay"
    /\ Answer(c, idem[Slot(c)].body, FALSE)
    /\ End(r)
    /\ UNCHANGED <<now, sequence, authorized, highest, bundles, acks, outbox, idem, begun, device>>

(* Mutant: the authority of the token is not checked again.                *)
authorizeStale(c) == TRUE

authorize(c) == c.auth \in authorized

-----------------------------------------------------------------------------
LatestBundle(a) == {b \in bundles : b.auth = a /\ \A o \in bundles : o.auth = a => o.version <= b.version}

SelectSigningKeyForIssue(at) == at + BundleLifetime <= KeyUntil

NextBundleVersion(a) == highest[a] + 1

(* issueAuthorized, with the event its callers append.                     *)
issueAuthorized(c, sent) ==
    LET version == NextBundleVersion(c.auth)
        b == [auth |-> c.auth, version |-> version, issued |-> c.at]
    IN /\ sent = version
       /\ SelectSigningKeyForIssue(c.at)
       /\ highest' = [highest EXCEPT ![c.auth] = version]
       /\ bundles' = bundles \cup {b}
       /\ outbox' = outbox (+) SetToBag({[type |-> "issued", bundle |-> b]})

Issued(c) == [auth |-> c.auth, version |-> NextBundleVersion(c.auth), issued |-> c.at]

Issue(r) ==
    LET c == requests[r] IN
    /\ c # NoRequest /\ c.op = "issue"
    /\ Outcome(c) = "started"
    /\ authorize(c)
    /\ issueAuthorized(c, c.digest)
    /\ Complete(c, 200, Issued(c))
    /\ Answer(c, Issued(c), TRUE)
    /\ End(r)
    /\ UNCHANGED <<now, sequence, authorized, acks, device>>

(* The latest bundle can be reused.                                        *)
Current(b, at) ==
    /\ b.version >= sequence
    /\ b.issued <= at
    /\ at < b.issued + BundleLifetime

Expected(a) ==
    IF LatestBundle(a) = {} THEN sequence = 1
    ELSE \A b \in LatestBundle(a) : sequence = b.version + 1

Resolve(r) ==
    LET c == requests[r]
        reusable == {b \in LatestBundle(c.auth) : Current(b, c.at)}
    IN /\ c # NoRequest /\ c.op = "resolve"
       /\ Outcome(c) = "started"
       /\ authorize(c)
       /\ \/ /\ reusable = {}
             /\ Expected(c.auth)
             /\ issueAuthorized(c, sequence)
             /\ Complete(c, 200, Issued(c))
             /\ Answer(c, Issued(c), TRUE)
          \/ \E b \in reusable :
               /\ Complete(c, 200, b)
               /\ Answer(c, b, TRUE)
               /\ UNCHANGED <<highest, bundles, outbox>>
       /\ End(r)
       /\ UNCHANGED <<now, sequence, authorized, acks, device>>

(* Another key acknowledges again: the row stays, the event is repeated.   *)
Acknowledge(r) ==
    LET c == requests[r] IN
    /\ c # NoRequest /\ c.op = "acknowledge"
    /\ Outcome(c) = "started"
    /\ authorize(c)
    /\ c.digest.bundle.auth = c.auth
    /\ c.digest.bundle.version = c.digest.version
    /\ acks' = acks \cup {[bundle |-> c.digest.bundle, auth |-> c.auth]}
    /\ outbox' = outbox (+) SetToBag({[type |-> "acknowledged", bundle |-> c.digest.bundle]})
    /\ Complete(c, 204, "empty")
    /\ Answer(c, "empty", TRUE)
    /\ End(r)
    /\ UNCHANGED <<now, sequence, authorized, highest, bundles, device>>

(* Refused, failed, timed out or lost with its process: all of it is       *)
(* rolled back, the idempotency record too.                                *)
RollBack(r) ==
    /\ requests[r] # NoRequest
    /\ End(r)
    /\ UNCHANGED <<now, sequence, authorized, highest, bundles, acks, outbox, idem, begun,
                   answers, device>>

-----------------------------------------------------------------------------
(* GetImmutableBundle, and a client that verifies what it was served.      *)
Served(b) == b \in bundles /\ now < b.issued + BundleLifetime

Fetch(a) ==
    /\ \E e \in answers :
         /\ e.op # "acknowledge" /\ e.auth = a
         /\ Served(e.body)
         /\ e.body.version > device[a]
         /\ device' = [device EXCEPT ![a] = e.body.version]
    /\ UNCHANGED <<now, sequence, authorized, highest, bundles, acks, outbox, idem, begun,
                   requests, answers>>

Tick ==
    /\ now < MaxTime
    /\ now' = now + 1
    /\ UNCHANGED <<sequence, authorized, highest, bundles, acks, outbox, idem, begun, requests,
                   answers, device>>

AdvanceSequence ==
    /\ sequence < MaxSequence
    /\ sequence' = sequence + 1
    /\ UNCHANGED <<now, authorized, highest, bundles, acks, outbox, idem, begun, requests,
                   answers, device>>

(* RevokeDevice, or the end of the account, a token or the trial.          *)
LoseAuthority(a) ==
    /\ a \in authorized
    /\ authorized' = authorized \ {a}
    /\ UNCHANGED <<now, sequence, highest, bundles, acks, outbox, idem, begun, requests,
                   answers, device>>

IssuanceNext ==
    \/ \E r \in Requests :
         Start(r) \/ Replay(r) \/ Issue(r) \/ Resolve(r) \/ Acknowledge(r) \/ RollBack(r)
    \/ \E a \in Authorizations : Fetch(a) \/ LoseAuthority(a)
    \/ Tick
    \/ AdvanceSequence

IssuanceSpec == IssuanceInit /\ [][IssuanceNext]_issuanceVars

-----------------------------------------------------------------------------
(* Properties                                                              *)

AllBundles == [auth : Authorizations, version : 1..MaxSequence, issued : 0..MaxTime]

IssuanceTypeOK ==
    /\ now \in 0..MaxTime /\ sequence \in 1..MaxSequence
    /\ authorized \subseteq Authorizations
    /\ highest \in [Authorizations -> 0..MaxSequence]
    /\ bundles \subseteq AllBundles
    /\ \A k \in acks : k.bundle \in bundles /\ k.auth \in Authorizations
    /\ IsABag(outbox)
    /\ DOMAIN idem = Slots /\ DOMAIN begun = Slots
    /\ DOMAIN requests = Requests
    /\ \A e \in answers : e.op = "acknowledge" \/ e.body \in AllBundles
    /\ device \in [Authorizations -> 0..MaxSequence]

(* The versions issued to an authorization are 1, 2, 3 and so on, one      *)
(* bundle each: no command leaves a gap in what the counter allocates, and *)
(* no two issue the same version.                                          *)
VersionsAreContiguous ==
    \A a \in Authorizations :
        LET mine == {b \in bundles : b.auth = a} IN
        /\ {b.version : b \in mine} = 1..highest[a]
        /\ Cardinality(mine) = highest[a]

(* Every bundle is announced by exactly one event, and every               *)
(* acknowledgement by at least one.                                        *)
EventsMatchRows ==
    /\ \A b \in AllBundles :
         CopiesIn([type |-> "issued", bundle |-> b], outbox) = (IF b \in bundles THEN 1 ELSE 0)
    /\ \A b \in bundles :
         BagIn([type |-> "acknowledged", bundle |-> b], outbox)
             <=> \E k \in acks : k.bundle = b

(* However often a command is sent with one key, its answers are one.      *)
OneAnswerPerKey ==
    \A e, f \in answers :
        e.op = f.op /\ e.auth = f.auth /\ e.key = f.key => e.body = f.body

(* Resolve answers a request it had not answered before with a bundle of   *)
(* the device that is valid on the request's clock.                        *)
FreshAnswersAreValid ==
    \A e \in answers : (e.op = "resolve" /\ e.fresh) =>
        /\ e.body \in bundles /\ e.body.auth = e.auth
        /\ e.body.issued <= e.at /\ e.at < e.body.issued + BundleLifetime

(* Only the bundles of an authorization are acknowledged in its name.      *)
AcksAreOwn == \A k \in acks : k.bundle.auth = k.auth

NoBundleWithoutAuthorityStep ==
    \A b \in bundles' \ bundles : b.auth \in authorized

(* Once its authority is lost a device is issued nothing more, not even by *)
(* a command that was in progress.                                         *)
NoBundleWithoutAuthority == [][NoBundleWithoutAuthorityStep]_issuanceVars

DevicesFetchUnexpiredStep ==
    \A a \in Authorizations : device'[a] # device[a] =>
       \E b \in bundles : /\ b.auth = a /\ b.version = device'[a]
                          /\ now < b.issued + BundleLifetime

(* A client accepts only a bundle that is unexpired when it is served.     *)
DevicesFetchUnexpired == [][DevicesFetchUnexpiredStep]_issuanceVars

-----------------------------------------------------------------------------
(* What the documents say and the commands do not do.                      *)

Running(r) == requests[r] # NoRequest /\ requests[r].op = "resolve"
              /\ Outcome(requests[r]) = "started" /\ authorize(requests[r])

(* "finds or issues its current test bundle": a device whose authority is  *)
(* intact, and for which the key can sign, has a bundle it can be given.   *)
ResolveFindsOrIssues ==
    \A r \in Requests : (Running(r) /\ SelectSigningKeyForIssue(requests[r].at)) =>
        \/ \E b \in LatestBundle(requests[r].auth) : Current(b, requests[r].at)
        \/ Expected(requests[r].auth)

(* "reuses a current unexpired sequence": a bundle of the current sequence *)
(* that is valid now is given to every request that runs now.              *)
ResolveReusesCurrent ==
    \A r \in Requests : Running(r) =>
        \A b \in LatestBundle(requests[r].auth) :
            Current(b, now) /\ requests[r].at + 1 >= now => Current(b, requests[r].at)

(* "Current server-selected configuration bundle resolution": an answer is *)
(* a bundle that is valid when the request is made.                        *)
AnswersAreUnexpired ==
    \A e \in answers : e.op = "resolve" => e.at < e.body.issued + BundleLifetime

(***************************************************************************)
(* Root metadata.                                                          *)
(***************************************************************************)

CONSTANTS
    Processes,    \* control API processes that start
    Ceremonies,   \* root metadata signed for publication
    LocalKey      \* the key of the local fixtures

(* A ceremony is [version, keys], the keys being those it lists.           *)

VARIABLES
    roots,        \* trust_root_metadata: [version, keys], in the order committed
    keyRows,      \* signing_key_metadata: key identifier and version
    proc,         \* where each process is with its bootstrap
    ceremony,     \* where each ceremony is with its publication
    refused       \* ceremonies the repository refused

metadataVars == <<roots, keyRows, proc, ceremony, refused>>

Root1 == [version |-> 1, keys |-> {LocalKey}]

Stored == {roots[i] : i \in DOMAIN roots}

HighestOf(S) == IF S = {} THEN 0 ELSE CHOOSE v \in {r.version : r \in S} :
                                          \A r \in S : r.version <= v

(* listStoredMetadata with storedKeysMatch                                 *)
Lists == \A r \in Stored : {k.id : k \in {x \in keyRows : x.version = r.version}} = r.keys

MetadataInit ==
    /\ roots = << >> /\ keyRows = {}
    /\ proc = [p \in Processes |-> "start"]
    /\ ceremony = [c \in Ceremonies |-> "signed"]
    /\ refused = {}

-----------------------------------------------------------------------------
(* Publish                                                                 *)

KeyIds == {k.id : k \in keyRows}

Conflicts(m) == (\E r \in Stored : r.version = m.version) \/ m.keys \cap KeyIds # {}

Insert(m) ==
    /\ roots' = Append(roots, m)
    /\ keyRows' = keyRows \cup {[id |-> k, version |-> m.version] : k \in m.keys}

(* The inserts and the commit.                                             *)
Publish(m) == Insert(m)

-----------------------------------------------------------------------------
(* EnsureLocalMetadata                                                     *)

EnsureList(p) ==
    /\ proc[p] = "start"
    /\ proc' = [proc EXCEPT ![p] = IF ~Lists THEN "failed"
                                   ELSE IF Stored # {} THEN "ensured" ELSE "sign"]
    /\ UNCHANGED <<roots, keyRows, ceremony, refused>>

(* PublishMetadata lists, and so does the transaction of Publish; either   *)
(* may find what another process published.                                *)
EnsureCheck(p) ==
    /\ proc[p] \in {"sign", "publish"}
    /\ proc' = [proc EXCEPT ![p] =
                  IF ~Lists \/ HighestOf(Stored) >= 1 THEN "relist"
                  ELSE IF proc[p] = "sign" THEN "publish" ELSE "insert"]
    /\ UNCHANGED <<roots, keyRows, ceremony, refused>>

EnsureInsert(p) ==
    /\ proc[p] = "insert"
    /\ \/ /\ Conflicts(Root1)
          /\ proc' = [proc EXCEPT ![p] = "relist"]
          /\ UNCHANGED <<roots, keyRows>>
       \/ /\ ~Conflicts(Root1)
          /\ Publish(Root1)
          /\ proc' = [proc EXCEPT ![p] = "ensured"]
    /\ UNCHANGED <<ceremony, refused>>

(* Mutant: the loser of the race fails.                                    *)
EnsureGiveUp(p) ==
    /\ proc[p] = "relist"
    /\ proc' = [proc EXCEPT ![p] = "failed"]
    /\ UNCHANGED <<roots, keyRows, ceremony, refused>>

(* Whoever lost the race accepts the identical record.                     *)
EnsureRelist(p) ==
    /\ proc[p] = "relist"
    /\ proc' = [proc EXCEPT ![p] = IF Lists /\ Stored = {Root1} THEN "ensured" ELSE "failed"]
    /\ UNCHANGED <<roots, keyRows, ceremony, refused>>

(* bootstrapLocalMetadata reads what there is and verifies it.             *)
Bootstrap(p) ==
    /\ proc[p] = "ensured"
    /\ proc' = [proc EXCEPT ![p] = IF Lists /\ Stored = {Root1} THEN "ready" ELSE "failed"]
    /\ UNCHANGED <<roots, keyRows, ceremony, refused>>

Crash(p) ==
    /\ proc[p] \in {"sign", "publish", "insert", "relist", "ensured"}
    /\ proc' = [proc EXCEPT ![p] = "start"]
    /\ UNCHANGED <<roots, keyRows, ceremony, refused>>

-----------------------------------------------------------------------------
(* PublishMetadata of a higher version                                     *)

PublishMetadata(c) ==
    /\ ceremony[c] = "signed"
    /\ Stored # {}
    /\ ceremony' = [ceremony EXCEPT ![c] = IF Lists /\ c.version > HighestOf(Stored)
                                           THEN "verified" ELSE "rejected"]
    /\ UNCHANGED <<roots, keyRows, proc, refused>>

PublishList(c) ==
    /\ ceremony[c] = "verified"
    /\ ceremony' = [ceremony EXCEPT ![c] = IF Lists /\ c.version > HighestOf(Stored)
                                           THEN "insert" ELSE "rejected"]
    /\ UNCHANGED <<roots, keyRows, proc, refused>>

PublishInsert(c) ==
    /\ ceremony[c] = "insert"
    /\ \/ /\ Conflicts(c)
          /\ ceremony' = [ceremony EXCEPT ![c] = "rejected"]
          /\ refused' = refused \cup {c}
          /\ UNCHANGED <<roots, keyRows>>
       \/ /\ ~Conflicts(c)
          /\ Publish(c)
          /\ ceremony' = [ceremony EXCEPT ![c] = "published"]
          /\ UNCHANGED refused
    /\ UNCHANGED proc

MetadataNext ==
    \/ \E p \in Processes :
         EnsureList(p) \/ EnsureCheck(p) \/ EnsureInsert(p) \/ EnsureRelist(p) \/ Bootstrap(p)
         \/ Crash(p)
    \/ \E c \in Ceremonies : PublishMetadata(c) \/ PublishList(c) \/ PublishInsert(c)

MetadataSpec == MetadataInit /\ [][MetadataNext]_metadataVars

-----------------------------------------------------------------------------
(* Properties                                                              *)

MetadataTypeOK ==
    /\ Stored \subseteq Ceremonies \cup {Root1}
    /\ \A k \in keyRows : \E r \in Stored : k.id \in r.keys /\ k.version = r.version
    /\ proc \in [Processes -> {"start", "sign", "publish", "insert", "relist", "ensured",
                               "ready", "failed"}]
    /\ ceremony \in [Ceremonies -> {"signed", "verified", "insert", "published", "rejected"}]
    /\ refused \subseteq Ceremonies

(* Processes that start together all get the one version 1, whoever        *)
(* publishes it and whoever crashes on the way.                            *)
BootstrapNeverFails ==
    Ceremonies = {} => /\ \A p \in Processes : proc[p] # "failed"
                       /\ Len(roots) <= 1

(* Every stored version is there with its complete set of keys, so that    *)
(* List, and with it every later publication, can authenticate it.         *)
StoredSetsAreWhole == Lists

(* "validates strict monotonicity before complete-set publication": the    *)
(* versions are committed in increasing order.                             *)
PublishedInOrder ==
    \A i, j \in DOMAIN roots : i < j => roots[i].version < roots[j].version

(* "adds the new key before use and retains the old key": no higher        *)
(* version that lists a key of the version before it is refused.           *)
RotationIsAccepted ==
    \A c \in refused : c.version <= HighestOf(Stored)
=============================================================================
