---------------------------- MODULE ByteLayouts -----------------------------
(***************************************************************************)
(* The byte strings that proofs sign, that challenges are bound to and     *)
(* that idempotency keys are compared by: each is put together from the    *)
(* fields of a request, and two requests that differ must not give the     *)
(* same bytes.                                                             *)
(*                                                                         *)
(* Bytes are small numbers. A digest, a key, a nonce or an identifier of   *)
(* fixed length is one byte and 0 when it is unset; a length and a count   *)
(* are one byte; a prefix or a digest domain is one byte of its own.       *)
(*                                                                         *)
(* The binary values that outlive a process: the challenge and ceremony    *)
(* records in Redis, the replay of a session challenge, and the frames of  *)
(* the client's state files. A value is written, may be cut short,         *)
(* extended or changed in one byte, and is read again. A slice beyond its  *)
(* end is a panic.                                                         *)
(*                                                                         *)
(* Bytes are small numbers: a prefix, a length, a digest, a timestamp and  *)
(* an identifier are one each.                                             *)
(***************************************************************************)
EXTENDS Integers, Sequences, FiniteSets, SequencesExt

(***************************************************************************)
(* Transcripts, bindings and scopes.                                       *)
(***************************************************************************)

CONSTANTS Inputs, MaxName
VARIABLES input, bytes, transcriptPhase
transcriptVars == <<input, bytes, transcriptPhase>>

Set(fixed) == \A i \in DOMAIN fixed : fixed[i] # 0
Name(text) == Len(text) >= 1 /\ Len(text) <= MaxName

\* Each writer of a framed string is a length and the string.
appendRotationString(text) == <<Len(text)>> \o text
appendProofStringBare(text) == text
appendProofString(text) == <<Len(text)>> \o text
appendDeviceRotationString(text) == <<Len(text)>> \o text
appendRegistrationFrame(value) == <<Len(value)>> \o value

---------------------------------------------------------------------------
\* Transcripts that a key signs. f are the fixed fields, s the strings; no bytes when one is unset.
AccountRotationProofBytes(f, s) ==
    IF ~(Set(f) /\ Name(s[1]) /\ Name(s[2]) /\ Name(s[3])) THEN <<>>
    ELSE <<101>> \o appendRotationString(s[1]) \o <<f[1], f[2]>> \o appendRotationString(s[2]) \o appendRotationString(s[3]) \o <<f[3]>>
ProofBytes(f, s) ==
    IF ~(Set(f) /\ Name(s[1]) /\ Name(s[2]) /\ Name(s[3])) THEN <<>>
    ELSE <<102>> \o appendProofString(s[1]) \o SubSeq(f, 1, 4) \o appendProofString(s[2]) \o appendProofString(s[3]) \o <<f[5]>>
DeviceRotationProofBytes(f, s) ==
    IF ~(Set(f) /\ Name(s[1]) /\ Name(s[2]) /\ Name(s[3])) THEN <<>>
    ELSE <<103>> \o appendDeviceRotationString(s[1]) \o <<f[1], f[2]>> \o appendDeviceRotationString(s[2]) \o appendDeviceRotationString(s[3]) \o <<f[3]>>

\* What a challenge is bound to. The kind, the protocol and the operation are fixed names, each one byte here.
accountChallengeContextDigest(f) == IF ~Set(f) THEN <<>> ELSE <<104>> \o f
registrationContextDigest(f, s) ==
    IF ~(Set(f) /\ Name(s[1])) THEN <<>>
    ELSE <<105>> \o appendRegistrationFrame(<<1>>) \o appendRegistrationFrame(<<2>>) \o appendRegistrationFrame(<<3>>) \o appendRegistrationFrame(s[1]) \o f
rotationContextDigest(f, s) ==
    IF ~(Set(f) /\ Name(s[1])) THEN <<>>
    ELSE <<106>> \o appendRegistrationFrame(<<4>>) \o appendRegistrationFrame(<<5>>) \o appendRegistrationFrame(<<6>>) \o appendRegistrationFrame(s[1]) \o f

Framed(parts) == FlattenSeq([i \in DOMAIN parts |-> appendRegistrationFrame(parts[i])])

\* What the idempotency key of a command stands for. The context digest of a registration follows from the other parts.
privateRegistrationBinding(f, s) ==
    IF ~(Set(f) /\ Name(s[1]) /\ Name(s[2]) /\ Name(s[3])) THEN <<>>
    ELSE <<107>> \o Framed(<< <<f[1]>>, s[1], <<1>>, <<2>>, <<3>>, s[2], <<f[2]>>, <<f[3]>>, <<f[4]>>, s[3], <<f[5]>>, <<7>> >>)
privateRotationBinding(f, s) ==
    IF ~(Set(f) /\ Name(s[1])) THEN <<>>
    ELSE <<108>> \o Framed(<< <<f[1]>>, s[1], <<f[2]>>, <<f[3]>>, s[2] >>)
privateRevocationBinding(f, s) ==
    IF ~(Set(f) /\ Name(s[1]) /\ Name(s[2]) /\ Name(s[3])) THEN <<>>
    ELSE <<109>> \o Framed(<< s[1], <<f[1]>>, s[2], <<f[2]>>, s[3] >>)

\* An operation, the number of its parts, and the parts; a part may be empty.
validPrivateRequestOperation(operation) == operation \in {<<1>>, <<2, 1>>}
privateCanonicalRequest(operation, parts) ==
    IF ~validPrivateRequestOperation(operation) \/ parts = <<>> THEN <<>>
    ELSE <<110, Len(operation)>> \o operation \o <<Len(parts)>> \o FlattenSeq([i \in DOMAIN parts |-> <<Len(parts[i])>> \o parts[i]])
validStrongAuthOperation(operation) == operation \in {<<1, 1>>, <<2>>}
strongAuthCanonicalRequest(operation, parts) ==
    IF ~validStrongAuthOperation(operation) \/ parts = <<>> THEN <<>>
    ELSE <<111, Len(operation)>> \o operation \o <<Len(parts)>> \o FlattenSeq([i \in DOMAIN parts |-> <<Len(parts[i])>> \o parts[i]])

---------------------------------------------------------------------------
\* Scopes: 58 is the colon, 97 a letter, 48 a digit. An anonymous scope is a fixed name without a colon
\* and belongs to one operation; an identifier is one byte.
Colon == 58
Letter == 97
Digit == 48
Anonymous == {<<200>>, <<201>>, <<202>>, <<203>>, <<204>>}
AnonymousOperation(principal) == <<Letter, principal[1]>>
validCredentialDomain(text) == Len(text) \in 1..MaxName /\ text[1] = Letter /\ \A i \in 2..Len(text) : text[i] \in {Letter, Digit}
validOperation(text) == Len(text) \in 1..MaxName /\ text[1] = Letter /\ \A i \in 2..Len(text) : text[i] \in {Letter, Digit} \cup 200..204
AuthenticatedScope(principal, domain, operation) ==
    IF principal = 0 \/ ~validCredentialDomain(domain) \/ ~validOperation(operation) THEN <<>>
    ELSE <<112, Colon, principal, Colon>> \o domain
validScope(principal, operation) ==
    /\ validOperation(operation) /\ principal # <<>>
    /\ IF principal \in Anonymous THEN operation = AnonymousOperation(principal)
       ELSE /\ Cardinality({i \in DOMAIN principal : principal[i] = Colon}) = 2
            /\ Len(principal) >= 5 /\ principal[1] = 112 /\ principal[2] = Colon /\ principal[4] = Colon
            /\ validCredentialDomain(SubSeq(principal, 5, Len(principal))) /\ principal[3] # 0

---------------------------------------------------------------------------
Bytes(i) ==
    CASE i.kind = "account rotation" -> AccountRotationProofBytes(i.fixed, i.strings)
      [] i.kind = "device proof" -> ProofBytes(i.fixed, i.strings)
      [] i.kind = "device rotation" -> DeviceRotationProofBytes(i.fixed, i.strings)
      [] i.kind = "account context" -> accountChallengeContextDigest(i.fixed)
      [] i.kind = "registration context" -> registrationContextDigest(i.fixed, i.strings)
      [] i.kind = "rotation context" -> rotationContextDigest(i.fixed, i.strings)
      [] i.kind = "registration" -> privateRegistrationBinding(i.fixed, i.strings)
      [] i.kind = "rotation" -> privateRotationBinding(i.fixed, i.strings)
      [] i.kind = "revocation" -> privateRevocationBinding(i.fixed, i.strings)
      [] i.kind = "private request" -> privateCanonicalRequest(i.strings[1], Tail(i.strings))
      [] i.kind = "strong request" -> strongAuthCanonicalRequest(i.strings[1], Tail(i.strings))
      [] i.kind = "scope" -> AuthenticatedScope(i.fixed[1], i.strings[1], i.strings[2])

TranscriptInit == input \in Inputs /\ bytes = <<>> /\ transcriptPhase = "input"
WriteTranscript == transcriptPhase = "input" /\ bytes' = Bytes(input) /\ transcriptPhase' = "written" /\ UNCHANGED input
TranscriptNext == WriteTranscript
TranscriptSpec == TranscriptInit /\ [][TranscriptNext]_transcriptVars

---------------------------------------------------------------------------
(***************************************************************************)
(* The reference: a reader that is given nothing but the bytes. The first  *)
(* byte says what the layout is: a field of one byte, or a framed string.  *)
(***************************************************************************)
Layout(tag) ==
    CASE tag \in {101, 103} -> <<"frame", "byte", "byte", "frame", "frame", "byte">>
      [] tag = 102 -> <<"frame", "byte", "byte", "byte", "byte", "frame", "frame", "byte">>
      [] tag = 104 -> <<"byte", "byte">>
      [] tag = 105 -> <<"frame", "frame", "frame", "frame", "byte", "byte", "byte">>
      [] tag = 106 -> <<"frame", "frame", "frame", "frame", "byte", "byte">>
      [] tag = 107 -> [i \in 1..12 |-> "frame"]
      [] tag \in {108, 109} -> [i \in 1..5 |-> "frame"]
ReadField(state, field) ==
    IF state.rest = <<>> \/ (field = "frame" /\ Head(state.rest) >= Len(state.rest)) THEN [state EXCEPT !.ok = FALSE]
    ELSE LET size == IF field = "frame" THEN Head(state.rest) ELSE 1
             from == IF field = "frame" THEN 2 ELSE 1
         IN  [ok |-> state.ok, rest |-> SubSeq(state.rest, from + size, Len(state.rest)),
              fields |-> Append(state.fields, SubSeq(state.rest, from, from + size - 1))]
Start(b) == [ok |-> TRUE, rest |-> b, fields |-> <<>>]
ReadParts(b) ==
    LET operation == ReadField(Start(b), "frame")
    IN  FoldLeft(ReadField, [operation EXCEPT !.rest = Tail(@)], [i \in 1..Head(operation.rest) |-> "frame"])
ReadTranscript(b) == IF b[1] \in {110, 111} THEN ReadParts(Tail(b)) ELSE FoldLeft(ReadField, Start(Tail(b)), Layout(b[1]))

Single(fixed) == [i \in DOMAIN fixed |-> <<fixed[i]>>]
\* The fields of an input in the order in which its bytes hold them.
Expected(i) ==
    LET f == Single(i.fixed)
        s == i.strings
    IN  CASE i.kind \in {"account rotation", "device rotation"} -> <<s[1], f[1], f[2], s[2], s[3], f[3]>>
          [] i.kind = "device proof" -> <<s[1], f[1], f[2], f[3], f[4], s[2], s[3], f[5]>>
          [] i.kind = "account context" -> f
          [] i.kind = "registration context" -> <<<<1>>, <<2>>, <<3>>, s[1]>> \o f
          [] i.kind = "rotation context" -> <<<<4>>, <<5>>, <<6>>, s[1]>> \o f
          [] i.kind = "registration" -> <<f[1], s[1], <<1>>, <<2>>, <<3>>, s[2], f[2], f[3], f[4], s[3], f[5], <<7>>>>
          [] i.kind = "rotation" -> <<f[1], s[1], f[2], f[3], s[2]>>
          [] i.kind = "revocation" -> <<s[1], f[1], s[2], f[2], s[3]>>
          [] OTHER -> s
Tag(kind) ==
    CASE kind = "account rotation" -> 101 [] kind = "device proof" -> 102 [] kind = "device rotation" -> 103
      [] kind = "account context" -> 104 [] kind = "registration context" -> 105 [] kind = "rotation context" -> 106
      [] kind = "registration" -> 107 [] kind = "rotation" -> 108 [] kind = "revocation" -> 109
      [] kind = "private request" -> 110 [] kind = "strong request" -> 111 [] kind = "scope" -> 112

\* Every transcript, binding and canonical request can be read back from its bytes alone: the reader finds
\* its kind and every field of it and nothing is left over, so that no two inputs have the same bytes.
ReadsBack ==
    (transcriptPhase = "written" /\ bytes # <<>> /\ input.kind # "scope") =>
        LET read == ReadTranscript(bytes)
        IN  bytes[1] = Tag(input.kind) /\ read.ok /\ read.rest = <<>> /\ read.fields = Expected(input)

\* An unset identifier, digest or time, or an empty first name (the protocol, or the operation of a request),
\* gives no bytes at all to sign or to compare.
UnsetGivesNothing ==
    (transcriptPhase = "written" /\ input.kind # "scope") =>
        ((0 \in Range(input.fixed) \/ (input.strings # <<>> /\ input.strings[1] = <<>>)) => bytes = <<>>)

\* The scope of a principal is accepted when its record is read again, names that principal and no other,
\* and is none of the anonymous scopes.
ScopesAreOwned ==
    (transcriptPhase = "written" /\ input.kind = "scope" /\ bytes # <<>>) =>
        /\ validScope(bytes, input.strings[2]) /\ bytes \notin Anonymous
        /\ bytes[3] = input.fixed[1] /\ SubSeq(bytes, 5, Len(bytes)) = input.strings[1]
        /\ \A a \in Anonymous : validScope(a, AnonymousOperation(a))

(***************************************************************************)
(* Records and frames that are stored and read again.                      *)
(***************************************************************************)

CONSTANTS
    Records,        \* the records that are written: [kind, ...]
    Damages         \* what happens to a wire: [fault, at, byte]
VARIABLES record, damage, wire, read, framePhase
frameVars == <<record, damage, wire, read, framePhase>>

Prefix == 9
\* Timestamps: 0 is before 2020, 8 after 2100, 9 does not fit.
ValidTime(t) == t \in 1..7
Panic == [result |-> "panic"]
Unavailable == [result |-> "unavailable"]
TooShort(w, minimum) == Len(w) < minimum
Decoded(r) == [result |-> "decoded", record |-> r]

---------------------------------------------------------------------------
\* identity: one protocol and one operation, whose lengths are known.
accountRotationProtocolVersion == <<1, 2>>
accountRotationOperation == <<3>>
validAccountRecord(r) ==
    /\ r.protocol = accountRotationProtocolVersion /\ r.operation = accountRotationOperation
    /\ r.challenge # 0 /\ r.context # 0 /\ ValidTime(r.expires)
encodeAccountRecord(r) ==
    <<Prefix, Len(r.protocol)>> \o r.protocol \o <<Len(r.operation)>> \o r.operation \o <<r.challenge, r.context, r.expires>>
decodeAccountRecord(w) ==
    IF TooShort(w, 1 + 1 + 1 + 2 + 1) THEN Unavailable
    ELSE IF Len(w) < 2 THEN Panic
    ELSE LET protocolLength == w[2]
             offset == 3 + protocolLength
         IN  IF w[1] # Prefix \/ protocolLength # Len(accountRotationProtocolVersion) \/ offset > Len(w) THEN Unavailable
             ELSE LET operationLength == w[offset]
                      next == offset + operationLength
                  IN  IF operationLength # Len(accountRotationOperation) \/ next + 3 # Len(w) THEN Unavailable
                      ELSE LET r == [kind |-> "account", protocol |-> SubSeq(w, 3, offset - 1), operation |-> SubSeq(w, offset + 1, next),
                                     challenge |-> w[next + 1], context |-> w[next + 2], expires |-> w[next + 3]]
                           IN  IF validAccountRecord(r) THEN Decoded(r) ELSE Unavailable

---------------------------------------------------------------------------
\* deviceauth: two contracts whose names have different lengths.
Registration == [name |-> <<1, 1>>, protocol |-> <<2>>, operation |-> <<3>>]
Rotation == [name |-> <<4>>, protocol |-> <<5, 5>>, operation |-> <<6, 6>>]
maximumChallengeKindBytes == Len(Registration.name)
maximumChallengeProtocolBytes == Len(Rotation.protocol)
maximumChallengeOperationBytes == Len(Rotation.operation)
validDeviceRecord(r) ==
    /\ [name |-> r.name, protocol |-> r.protocol, operation |-> r.operation] \in {Registration, Rotation}
    /\ r.challenge # 0 /\ r.grant # 0 /\ r.context # 0 /\ ValidTime(r.expires)
appendChallengeRecordString(text) == <<Len(text)>> \o text
encodeDeviceRecord(r) ==
    <<Prefix>> \o appendChallengeRecordString(r.name) \o appendChallengeRecordString(r.protocol) \o appendChallengeRecordString(r.operation)
    \o <<r.challenge, r.grant, r.context, r.expires>>

\* A string and the offset behind it, or nothing.
NoString == [ok |-> FALSE, text |-> <<>>, next |-> 0]
decodeChallengeRecordString(w, offset, maximum) ==
    IF offset + 1 > Len(w) THEN NoString
    ELSE LET length == w[offset + 1]
         IN  IF length = 0 \/ length > maximum \/ offset + 1 + length > Len(w) THEN NoString
             ELSE [ok |-> TRUE, text |-> SubSeq(w, offset + 2, offset + 1 + length), next |-> offset + 1 + length]
decodeDeviceRecord(w) ==
    LET name == decodeChallengeRecordString(w, 1, maximumChallengeKindBytes)
        protocol == decodeChallengeRecordString(w, name.next, maximumChallengeProtocolBytes)
        operation == decodeChallengeRecordString(w, protocol.next, maximumChallengeOperationBytes)
        offset == operation.next
    IN  IF TooShort(w, 1 + 3 + 3 + 1) THEN Unavailable
        ELSE IF w = <<>> THEN Panic
        ELSE IF w[1] # Prefix \/ ~name.ok \/ ~protocol.ok \/ ~operation.ok \/ offset + 4 # Len(w) THEN Unavailable
        ELSE LET r == [kind |-> "device", name |-> name.text, protocol |-> protocol.text, operation |-> operation.text,
                       challenge |-> w[offset + 1], grant |-> w[offset + 2], context |-> w[offset + 3], expires |-> w[offset + 4]]
             IN  IF validDeviceRecord(r) THEN Decoded(r) ELSE Unavailable

---------------------------------------------------------------------------
\* A WebAuthn ceremony: the operation's code, the expiry and the session of the library.
webAuthnCeremonyCode(operation) == CASE operation = "registration" -> 1 [] operation = "authentication" -> 2 [] OTHER -> 0
validWebAuthnCeremonyRecord(r) ==
    webAuthnCeremonyCode(r.operation) # 0 /\ r.session.challenge # 0 /\ r.session.expires = r.expires /\ ValidTime(r.expires)
MarshalMsg(session) == <<2, session.challenge, session.expires>>
UnmarshalMsg(b) ==
    IF Len(b) < 3 \/ b[1] # 2 THEN [ok |-> FALSE, session |-> [challenge |-> 0, expires |-> 0], rest |-> <<>>]
    ELSE [ok |-> TRUE, session |-> [challenge |-> b[2], expires |-> b[3]], rest |-> SubSeq(b, 4, Len(b))]
encodeWebAuthnCeremony(r) == <<Prefix, webAuthnCeremonyCode(r.operation), r.expires>> \o MarshalMsg(r.session)
decodeWebAuthnCeremony(operation, w) ==
    IF TooShort(w, 4) THEN Unavailable
    ELSE IF Len(w) < 3 THEN Panic
    ELSE IF w[1] # Prefix THEN Unavailable
    ELSE IF w[2] # webAuthnCeremonyCode(operation) THEN Unavailable
    ELSE LET session == UnmarshalMsg(SubSeq(w, 4, Len(w)))
             r == [kind |-> "ceremony", operation |-> operation, expires |-> w[3], session |-> session.session]
         IN  IF session.ok /\ session.rest = <<>> /\ validWebAuthnCeremonyRecord(r) THEN Decoded(r) ELSE Unavailable

---------------------------------------------------------------------------
\* The replay of a session challenge has no prefix and a fixed length.
encodeSessionChallenge(r) == <<r.id, r.challenge, r.expires>>
decodeSessionChallenge(w) ==
    IF Len(w) # 3 THEN Unavailable
    ELSE IF w[1] = 0 \/ w[2] = 0 \/ w[3] = 0 \/ w[3] > 8 THEN Unavailable
    ELSE Decoded([kind |-> "session", id |-> w[1], challenge |-> w[2], expires |-> w[3]])

\* A frame of the client's store: magic, version, length, digest and body. The digest of a body is a number of its own.
Digest(body) == FoldLeft(LAMBDA sum, byte : 10 * sum + byte, 10 + Len(body), body)
encodeStoreFrame(r) == <<Prefix, r.version, Len(r.body), Digest(r.body)>> \o r.body
decodeStoreFrame(w) ==
    IF TooShort(w, 4) THEN Unavailable
    ELSE IF Len(w) < 4 THEN Panic
    ELSE IF w[1] # Prefix \/ w[2] = 0 \/ w[3] < 2 \/ w[3] # Len(w) - 4 THEN Unavailable
    ELSE LET body == SubSeq(w, 5, Len(w))
         IN  IF w[4] # Digest(body) THEN Unavailable ELSE Decoded([kind |-> "store", version |-> w[2], body |-> body])

---------------------------------------------------------------------------
Encode(r) ==
    CASE r.kind = "account" -> encodeAccountRecord(r)
      [] r.kind = "device" -> encodeDeviceRecord(r)
      [] r.kind = "ceremony" -> encodeWebAuthnCeremony(r)
      [] r.kind = "session" -> encodeSessionChallenge(r)
      [] r.kind = "store" -> encodeStoreFrame(r)
\* A ceremony is read under the key of one operation; the other readers have no choice.
Decode(kind, operation, w) ==
    CASE kind = "account" -> decodeAccountRecord(w)
      [] kind = "device" -> decodeDeviceRecord(w)
      [] kind = "ceremony" -> decodeWebAuthnCeremony(operation, w)
      [] kind = "session" -> decodeSessionChallenge(w)
      [] kind = "store" -> decodeStoreFrame(w)
Damaged(w, d) ==
    CASE d.fault = "cut" -> SubSeq(w, 1, IF d.at < Len(w) THEN d.at ELSE Len(w) - 1)
      [] d.fault = "extend" -> Append(w, d.byte)
      [] d.fault = "change" -> IF d.at \in DOMAIN w THEN [w EXCEPT ![d.at] = d.byte] ELSE w
      [] OTHER -> w

FrameInit == record \in Records /\ damage \in Damages /\ wire = <<>> /\ read = [result |-> "none"] /\ framePhase = "record"
WriteFrame == framePhase = "record" /\ wire' = Encode(record) /\ framePhase' = "written" /\ UNCHANGED <<record, damage, read>>
Fault == framePhase = "written" /\ wire' = Damaged(wire, damage) /\ framePhase' = "stored" /\ UNCHANGED <<record, damage, read>>
ReadFrame ==
    /\ framePhase = "stored" /\ framePhase' = "read"
    /\ \E operation \in (IF record.kind = "ceremony" THEN {"registration", "authentication"} ELSE {"none"}) :
        read' = Decode(record.kind, operation, wire)
    /\ UNCHANGED <<record, damage, wire>>
FrameNext == WriteFrame \/ Fault \/ ReadFrame
FrameSpec == FrameInit /\ [][FrameNext]_frameVars

---------------------------------------------------------------------------
IsRead == framePhase = "read"
\* The length check before the fixed fields of a damaged value is long enough: no reader indexes them beyond
\* its end. (The bounds of the framed strings are checks of their own, seen by LengthIsExact.)
NeverOutOfBounds == read.result # "panic"

\* A value that is cut short or extended is never taken for a record.
LengthIsExact == (IsRead /\ damage.fault \in {"cut", "extend"}) => read.result = "unavailable"

\* What is read of an account, device or session challenge record is written again as the very bytes
\* it was read from: such a record has one wire.
OneWirePerRecord ==
    (IsRead /\ read.result = "decoded" /\ record.kind \notin {"store", "ceremony"}) => Encode(read.record) = wire

\* An undamaged value is read as the record that was written, and a ceremony only for its own operation.
RoundTrips ==
    (IsRead /\ damage.fault = "none") =>
        \/ read = Decoded(record)
        \/ record.kind = "ceremony" /\ read.result = "unavailable"

\* A state file of the client never yields a body that was not staged, whichever byte of it changed;
\* its version is not covered by the digest.
StoredBodyIsWritten == (IsRead /\ record.kind = "store" /\ read.result = "decoded") => read.record.body = record.body
=============================================================================
