------------------------- MODULE BundleVerification -------------------------
(***************************************************************************)
(* The service signs and seals bundles while its signing key is rotated;   *)
(* devices, whose clocks are off by at most the skew, fetch them and run   *)
(* VerifyAndStage of trustclient.  Cryptography is symbolic: an envelope   *)
(* opens only with the key and locator it was sealed for, and a signature  *)
(* names the key that made it.                                             *)
(*                                                                         *)
(* Metadata 1 lists the old key as active, 2 the old as retiring and the   *)
(* new as active, 3 the old as revoked.  As the rotation runbook has it,   *)
(* the signer is switched once the devices hold metadata 2, and the old    *)
(* key is revoked once its bundles have expired.                           *)
(***************************************************************************)
EXTENDS Integers, FiniteSets

CONSTANTS
    Devices,
    Skew,           \* clockSkew
    Lifetime,       \* fixedBundleLifetime, fixedTrialGrace
    Trials,         \* devices with the trial_restricted policy
    GraceEnd,       \* when their trial ends
    ValidFrom,      \* validity of the metadata and of the keys
    ValidUntil,
    MaxTime,        \* bound on the clock
    MaxVersion      \* bound on the bundles of a device

VARIABLES
    time,           \* the clock of the service
    offset,         \* how far each device's clock is ahead
    published,      \* the metadata version published
    loaded,         \* the metadata version the service issues under
    signer,         \* the key it signs with
    bundles,        \* bundles issued
    held,           \* the metadata version each device holds
    active,         \* the version each device's store has activated
    outcome         \* the last envelope a device was given, and the result

vars == <<time, offset, published, loaded, signer, bundles, held, active, outcome>>

KeyState(v, k) ==
    IF k = "old" THEN (IF v = 1 THEN "active" ELSE IF v = 2 THEN "retiring" ELSE "revoked")
    ELSE (IF v = 1 THEN "absent" ELSE "active")

Now(d) == time + offset[d]

Nothing == [result |-> "none"]

Init ==
    /\ time = ValidFrom
    /\ offset \in [Devices -> {-Skew, 0, Skew}]
    /\ published = 1 /\ loaded = 1 /\ signer = "old"
    /\ bundles = {}
    /\ held = [d \in Devices |-> 1]
    /\ active = [d \in Devices |-> 0]
    /\ outcome = Nothing

-----------------------------------------------------------------------------
(* The service                                                             *)

selectSigningKey(v, k, notBefore, expires, allowRetiring) ==
    /\ KeyState(v, k) = "active" \/ (allowRetiring /\ KeyState(v, k) = "retiring")
    /\ notBefore >= ValidFrom
    /\ expires <= ValidUntil

Policy(d) == IF d \in Trials THEN GraceEnd ELSE 0

VersionsOf(d) == {b.version : b \in {x \in bundles : x.audience = d}}

(* issueAuthorized with SignBundleV1 and Seal; a trial has authority until *)
(* its end.                                                                *)
IssueBundle(d) ==
    LET version == Cardinality(VersionsOf(d)) + 1 IN
    /\ version <= MaxVersion
    /\ d \in Trials => time < GraceEnd
    /\ selectSigningKey(loaded, signer, time, time + Lifetime, FALSE)
    /\ bundles' = bundles \cup {[audience |-> d, version |-> version, issued |-> time,
                                 expires |-> time + Lifetime, key |-> signer,
                                 policy |-> Policy(d)]}
    /\ UNCHANGED <<time, offset, published, loaded, signer, held, active>>
    /\ outcome' = Nothing

-----------------------------------------------------------------------------
(* The rotation, as the runbook orders it                                  *)

PublishNext ==
    /\ \/ published = 1
       \/ /\ published = 2 /\ signer = "new"
          /\ \A b \in bundles : b.key = "old" => b.expires + Skew <= time
    /\ published' = published + 1
    /\ UNCHANGED <<time, offset, loaded, signer, bundles, held, active>>
    /\ outcome' = Nothing

Refresh(d) ==
    /\ held[d] < published
    /\ held' = [held EXCEPT ![d] = published]
    /\ UNCHANGED <<time, offset, published, loaded, signer, bundles, active>>
    /\ outcome' = Nothing

SwitchSigner ==
    /\ published >= 2 /\ signer = "old"
    /\ \A d \in Devices : held[d] >= 2
    /\ loaded' = 2
    /\ signer' = "new"
    /\ UNCHANGED <<time, offset, published, bundles, held, active>>
    /\ outcome' = Nothing

Tick ==
    /\ time < MaxTime
    /\ time' = time + 1
    /\ UNCHANGED <<offset, published, loaded, signer, bundles, held, active>>
    /\ outcome' = Nothing

-----------------------------------------------------------------------------
(* VerifyAndStage                                                          *)

(* Strict and canonical JSON, the suite, the locator and the selector.     *)
OuterEnvelope(e, d) == e.damage # "outer" /\ e.bundle.audience = d

(* recipient.Open, which authenticates the header and the ciphertext.      *)
Opens(e, d) == e.damage # "ciphertext" /\ e.bundle.audience = d

removeValidatedPadding(e) == e.damage # "padding"

(* The signed bundle is strict and canonical JSON, and so is its payload.  *)
StrictSigned(e) == e.damage # "signed"
StrictPayload(e) == e.damage # "payload"

(* The digest is that of the canonical payload.                            *)
DigestMatches(e) == e.damage # "digest"

(* ed25519.Verify under the signer's key of the metadata                   *)
SignatureVerifies(e) == e.damage # "signature"

Damages == {"none", "outer", "ciphertext", "padding", "signed", "payload", "digest",
            "signature"}

validateMetadataPayload(now) == ValidFrom <= now /\ now < ValidUntil

(* verifyTrustMetadata, once the root's signature is verified: the floor   *)
(* is the version the device held before.                                  *)
verifyTrustMetadata(v, floor, key, now) ==
    IF ~validateMetadataPayload(now) THEN "metadata"
    ELSE IF v <= floor THEN "metadata_rollback"
    ELSE IF KeyState(v, key) \notin {"active", "retiring"} THEN "signature"
    ELSE "ok"

validPolicy(b, now) ==
    b.policy # 0 => /\ b.policy > b.issued
                    /\ b.policy <= b.issued + Lifetime
                    /\ b.policy <= b.expires
                    /\ b.policy > now

validatePayload(b, now) ==
    /\ b.issued <= now + Skew
    /\ b.expires > now - Skew
    /\ b.expires - b.issued = Lifetime
    /\ validPolicy(b, now)

(* Mutant: only an active key verifies.                                    *)
keyAuthorizesActive(v, b) == selectSigningKey(v, b.key, b.issued, b.expires, FALSE)

metadataKeyAuthorizes(v, b) == selectSigningKey(v, b.key, b.issued, b.expires, TRUE)

(* The frozen order of the checks.                                         *)
Category(e, d, v, now, highest) ==
    IF ~OuterEnvelope(e, d) THEN "envelope"
    ELSE IF ~Opens(e, d) THEN "recipient"
    ELSE IF ~removeValidatedPadding(e) THEN "envelope"
    ELSE IF ~StrictSigned(e) THEN "signature"
    ELSE IF ~StrictPayload(e) THEN "payload"
    ELSE IF ~DigestMatches(e) THEN "signature"
    ELSE IF verifyTrustMetadata(v, v - 1, e.bundle.key, now) # "ok"
         THEN verifyTrustMetadata(v, v - 1, e.bundle.key, now)
    ELSE IF ~SignatureVerifies(e) THEN "signature"
    ELSE IF ~validatePayload(e.bundle, now) THEN "payload"
    ELSE IF ~metadataKeyAuthorizes(v, e.bundle) THEN "signature"
    ELSE IF e.bundle.version <= highest THEN "rollback"
    ELSE "accepted"

(* A device is given a bundle, its own or not, as it is or damaged on the  *)
(* way or by the signer; the store stages and activates what is accepted.  *)
VerifyAndStage(d) ==
    \E b \in bundles, damage \in Damages :
        LET e == [bundle |-> b, damage |-> damage]
            result == Category(e, d, held[d], Now(d), active[d])
        IN /\ outcome' = [result |-> result, device |-> d, envelope |-> e,
                          highest |-> active[d], now |-> Now(d), at |-> time]
           /\ active' = [active EXCEPT ![d] = IF result = "accepted" THEN b.version ELSE @]
           /\ UNCHANGED <<time, offset, published, loaded, signer, bundles, held>>

Next ==
    \/ \E d \in Devices : IssueBundle(d) \/ Refresh(d) \/ VerifyAndStage(d)
    \/ PublishNext \/ SwitchSigner \/ Tick

Spec == Init /\ [][Next]_vars

-----------------------------------------------------------------------------
(* Properties                                                              *)

TypeOK ==
    /\ time \in ValidFrom..MaxTime
    /\ offset \in [Devices -> -Skew..Skew]
    /\ published \in 1..3 /\ loaded \in 1..2 /\ signer \in {"old", "new"}
    /\ \A b \in bundles : b.audience \in Devices /\ b.version \in 1..MaxVersion
    /\ held \in [Devices -> 1..3]
    /\ active \in [Devices -> 0..MaxVersion]

Verified == outcome.result # "none"

(* While the key is rotated as the runbook orders it, a device is never    *)
(* refused the newest bundle it was issued, undamaged and unexpired, for   *)
(* any clock within the skew.  Two cases are refused all the same, as the  *)
(* code gives them no skew: metadata that is not yet or no longer valid,   *)
(* and a trial that has ended, on the device's own clock.                  *)
RotationRefusesNobody ==
    (Verified /\ outcome.envelope.damage = "none"
              /\ outcome.envelope.bundle.audience = outcome.device
              /\ outcome.envelope.bundle.version > outcome.highest
              /\ outcome.at < outcome.envelope.bundle.expires
              /\ validateMetadataPayload(outcome.now)
              /\ (outcome.device \in Trials => outcome.now < GraceEnd))
        => outcome.result = "accepted"

(* What is accepted is undamaged, the device's own, newer than what it     *)
(* has, and on the service's clock not expired by twice the skew or more.  *)
AcceptedIsGood ==
    (Verified /\ outcome.result = "accepted") =>
        /\ outcome.envelope.damage = "none"
        /\ outcome.envelope.bundle.audience = outcome.device
        /\ outcome.envelope.bundle.version > outcome.highest
        /\ outcome.at < outcome.envelope.bundle.expires + 2 * Skew

(* A trial's bundle is never accepted once the trial has ended on the      *)
(* device's own clock, whatever the skew.                                  *)
TrialsEnd ==
    (Verified /\ outcome.result = "accepted" /\ outcome.device \in Trials)
        => outcome.now < GraceEnd

(* A rollback is reported, and the durable version thereby compared, only  *)
(* for an envelope whose signature was verified.                           *)
RollbackOnlyAfterSignature ==
    (Verified /\ outcome.result = "rollback") => outcome.envelope.damage = "none"

=============================================================================
