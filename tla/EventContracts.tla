--------------------------- MODULE EventContracts ---------------------------
(***************************************************************************)
(* The contract every event passes on its way from a command to a          *)
(* consumer (internal/contracts/events): MarshalPayload in the producer,   *)
(* MarshalEnvelope in the outbox repository's Append, UnmarshalEnvelope    *)
(* again in the publisher and once more in the consumer, and the checks    *)
(* that no message carries an unknown field and no payload schema names    *)
(* secret or routing material.                                             *)
(*                                                                         *)
(* A text is what its checks tell apart: its length, its first character's *)
(* class and the classes of all its characters.  An identifier is a number *)
(* (0 the nil UUID) and the form it is written in.  A protobuf encoding is *)
(* the message and the way it is laid out, only "canonical" being what the *)
(* deterministic marshaller writes.  MaxInt stands for 2^63 - 1; unsigned  *)
(* numbers go up to 2 * MaxInt + 1.                                        *)
(***************************************************************************)
EXTENDS Integers, Sequences, FiniteSets, SequencesExt, FiniteSetsExt

CONSTANTS
    MaxInt,      \* the largest int64
    Calls,       \* the producer calls, see Produce
    Wires,       \* wires a consumer may be handed that no producer here made
    Messages,    \* message trees for hasUnknownFields
    Schemas      \* payload descriptors for ValidatePayloadDescriptor

VARIABLES
    input,       \* the call, wire, message or schema of this behaviour
    stage,       \* how far it has come
    envelope,    \* the envelope the producer built
    row,         \* the outbox row Append inserted
    verdict      \* what the last check said

vars == <<input, stage, envelope, row, verdict>>

Nothing == [kind |-> "nothing"]

-----------------------------------------------------------------------------
(* Texts and numbers.                                                      *)

canonicalUUID(id) == id.id > 0 /\ id.form = "plain"

Uuid(n) == [id |-> n, form |-> "plain"]

safeName(text, maximum, allowDot) ==
    /\ text.length \in 1..maximum
    /\ text.first = "lower"
    /\ text.classes \subseteq
          {"lower", "digit", "underscore", "dash"} \cup (IF allowDot THEN {"dot"} ELSE {})

safeIdempotencyKey(text) ==
    /\ text.length \in 1..128
    /\ text.classes \subseteq {"lower", "upper", "digit", "colon", "underscore", "dash"}

(* validIdempotencyKey of the API and of the idempotency service.          *)
validIdempotencyKey(text) ==
    /\ text.length \in 22..86
    /\ text.classes \subseteq {"lower", "upper", "digit", "underscore", "dash"}

(* A locale is the sequence of its parts between the dashes.               *)
LocaleLength(parts) ==
    FoldFunction(LAMBDA part, sum : part.length + sum, Len(parts) - 1, parts)

asciiLetters(part) == part.classes \subseteq {"lower", "upper"}

validLocale(parts) ==
    /\ LocaleLength(parts) \in 2..35
    /\ parts[1].length \in 2..3
    /\ asciiLetters(parts[1])
    /\ \A i \in 2..Len(parts) :
          /\ parts[i].length \in 2..8
          /\ parts[i].classes \subseteq {"lower", "upper", "digit"}

Part(length, classes) == [length |-> length, classes |-> classes]

(* zh-Hans, and the four languages of two letters.                         *)
validIdentityLocale(parts) ==
    parts \in {<<Part(2, {"lower"})>>, <<Part(2, {"lower"}), Part(4, {"lower", "upper"})>>}

(* A decimal is its value and whether it begins with a zero.               *)
positiveDecimal(decimal) == ~decimal.padded /\ decimal.value \in 1..MaxInt

FormatUint(n) == [value |-> n, padded |-> FALSE]

(* A trace parent is absent, or has a layout, a version and two ids.       *)
validTraceParent(trace) ==
    trace.present =>
        trace.layout /\ trace.version # 255 /\ trace.trace # 0 /\ trace.span # 0

NoTrace == [present |-> FALSE]

validYear(year) == year \in 2020..2100

-----------------------------------------------------------------------------
(* hasUnknownFields: a message is its own unknown fields and its populated *)
(* fields in order, each a scalar, a message, a list or a map of messages. *)
(* Range stops when its callback returns FALSE; hasUnknown is overwritten  *)
(* by every map entry and message it looks at.                             *)

StopsRange(found) == found

hasUnknownFields[message \in Messages] ==
    LET entry(state, value) ==
            IF state.stop THEN state
            ELSE LET found == hasUnknownFields[value] IN [found |-> found, stop |-> StopsRange(found)]
        item(state, value) ==
            IF state.stop \/ ~hasUnknownFields[value] THEN state ELSE [found |-> TRUE, stop |-> TRUE]
        callback(state, field) ==
            CASE state.stop -> state
              [] field.kind = "scalar" -> [state EXCEPT !.stop = state.found]
              [] field.kind = "list" -> FoldLeft(item, state, field.values)
              [] OTHER -> FoldLeft(entry, state, field.values)
    IN  message.unknown \/ FoldLeft(callback, [found |-> FALSE, stop |-> FALSE], message.fields).found

-----------------------------------------------------------------------------
(* validatePayloadDescriptor: a schema is a set of message types, each a   *)
(* sequence of fields; a field's name is the set of terms between its      *)
(* underscores and the compounds the whole name contains, its "message"    *)
(* the type it refers to, if any.                                          *)

isForbiddenPayloadFieldTerm ==
    {"body", "ciphertext", "email", "emails", "error", "errors", "key", "keys",
     "locator", "nonce", "provider", "token", "uri", "url"}

(* Each term with one of its qualifiers on either side.  One qualifier of  *)
(* each term stands for all of them.                                       *)
forbiddenCompoundPayloadFieldTerm ==
    {<<"raw", "body">>, <<"payload", "ciphertext">>, <<"user", "email">>, <<"internal", "error">>,
     <<"signing", "key">>, <<"bundle", "locator">>, <<"client", "nonce">>, <<"signer", "provider">>,
     <<"access", "token">>, <<"source", "uri">>, <<"source", "url">>}

ForbiddenField(field) ==
    \/ field.terms \cap isForbiddenPayloadFieldTerm # {}
    \/ \E pair \in forbiddenCompoundPayloadFieldTerm :
          <<pair[1], pair[2]>> \in field.joined \/ <<pair[2], pair[1]>> \in field.joined

(* The walk returns the types it has seen and whether all of them are safe *)
(* so far.  A type already seen is passed over; an unsafe field ends the   *)
(* walk.  Every level adds a type, so the fuel never runs out.             *)
Visit(schema, name, fuel) ==
    LET walk[n \in 0..fuel, type \in DOMAIN schema, seen \in SUBSET DOMAIN schema] ==
            IF type \in seen THEN [seen |-> seen, ok |-> TRUE]
            ELSE IF n = 0 THEN [seen |-> seen, ok |-> FALSE]
            ELSE LET step(state, field) ==
                         IF ~state.ok THEN state
                         ELSE IF ForbiddenField(field) THEN [state EXCEPT !.ok = FALSE]
                         ELSE IF field.message = "none" THEN state
                         ELSE walk[n - 1, field.message, state.seen]
                 IN  FoldLeft(step, [seen |-> seen \cup {type}, ok |-> TRUE], schema[type])
    IN  walk[fuel, name, {}]

ValidatePayloadDescriptor(schema) ==
    Visit(schema, "root", Cardinality(DOMAIN schema)).ok

-----------------------------------------------------------------------------
(* The registry of payloads.                                               *)

registeredPayload ==
    [account_state |-> [aggregate |-> "account", idField |-> "principal", ids |-> {"principal"},
                        names |-> {"state"}, version |-> "number", more |-> "none"],
     email_delivery |-> [aggregate |-> "email_delivery", idField |-> "delivery", ids |-> {"delivery"},
                         names |-> {"template"}, version |-> "none", more |-> "locale"],
     device_authorization |-> [aggregate |-> "device_authorization", idField |-> "authorization",
                               ids |-> {"principal", "device", "authorization"},
                               names |-> {"state"}, version |-> "number", more |-> "none"],
     family_compromised |-> [aggregate |-> "device_authorization", idField |-> "authorization",
                             ids |-> {"authorization", "family"},
                             names |-> {}, version |-> "number", more |-> "none"],
     bundle_issued |-> [aggregate |-> "bundle", idField |-> "bundle", ids |-> {"authorization", "bundle"},
                        names |-> {}, version |-> "decimal", more |-> "digest"],
     bundle_acknowledged |-> [aggregate |-> "bundle", idField |-> "bundle", ids |-> {"authorization", "bundle"},
                              names |-> {}, version |-> "decimal", more |-> "none"]]

IsRegistered(type) == type \in DOMAIN registeredPayload

(* The validate function of a registered payload.                          *)
PayloadValid(type, payload) ==
    LET spec == registeredPayload[type]
    IN  /\ \A f \in spec.ids : canonicalUUID(payload.ids[f])
        /\ "state" \in spec.names => safeName(payload.name, 32, FALSE)
        /\ "template" \in spec.names => safeName(payload.name, 64, FALSE)
        /\ spec.version = "number" => payload.version.value > 0
        /\ spec.version = "decimal" => positiveDecimal(payload.version)
        /\ spec.more = "locale" => validLocale(payload.locale)
        /\ spec.more = "digest" => payload.digest = "hex"

(* A payload's encoding: which message it is of, its fields, its layout.   *)
Encoded(message, payload, layout) == [message |-> message, fields |-> payload, layout |-> layout]

NoPayload == Encoded("none", <<>>, "empty")

MarshalPayload(type, message, payload) ==
    IF IsRegistered(type) /\ message = type /\ PayloadValid(type, payload)
    THEN Encoded(message, payload, "canonical")
    ELSE NoPayload

(* decodePayload: an encoding of another message fails to parse as this    *)
(* one or leaves unknown fields; an encoding laid out differently is not   *)
(* what the marshaller writes.                                             *)
decodePayload(type, encoded) ==
    /\ IsRegistered(type)
    /\ encoded.message = type
    /\ encoded.layout = "canonical"
    /\ PayloadValid(type, encoded.fields)

(* The version a payload carries, and whether it must be the aggregate's.  *)
NumberAgrees(type, payload, version) ==
    registeredPayload[type].version = "number" => payload.version.value = version

VersionAgrees(type, payload, version) ==
    registeredPayload[type].version # "none" => payload.version.value = version

ValidateEnvelope(e) ==
    /\ e.eventId.id # 0
    /\ e.namespace = "talenro"
    /\ e.occurredAt.valid
    /\ e.producer.length > 0
    /\ e.aggregateType # "" /\ e.aggregateVersion # 0
    /\ e.key.length > 0
    /\ e.payload.layout # "empty"

validateEnvelope(e) ==
    /\ ValidateEnvelope(e)
    /\ canonicalUUID(e.eventId)
    /\ safeName(e.producer, 64, TRUE)
    /\ canonicalUUID(e.aggregateId)
    /\ e.aggregateVersion \in 1..MaxInt
    /\ safeIdempotencyKey(e.key)
    /\ validTraceParent(e.trace)
    /\ validYear(e.occurredAt.year)
    /\ decodePayload(e.type, e.payload)
    /\ e.aggregateType = registeredPayload[e.type].aggregate
    /\ e.aggregateId = e.payload.fields.ids[registeredPayload[e.type].idField]
    /\ VersionAgrees(e.type, e.payload.fields, e.aggregateVersion)

(* An envelope's encoding: a layout other than "canonical" is a reordered, *)
(* repeated or padded field; unknown fields sit at the top or inside the   *)
(* timestamp.                                                              *)
Wire(e, layout, unknown) == [envelope |-> e, layout |-> layout, unknown |-> unknown]

MarshalEnvelope(e) == validateEnvelope(e)

UnmarshalEnvelope(wire) ==
    /\ wire.layout # "damaged"
    /\ wire.unknown = "none"
    /\ MarshalEnvelope(wire.envelope)
    /\ wire.layout = "canonical"

-----------------------------------------------------------------------------
(* Producers.  A call names its producer ("register" and "deliver" for the *)
(* two callers of emailDeliveryEvent, "verify" for accountStateEvent,      *)
(* "enroll", "compromise", "revoke", "issue", "acknowledge") and the       *)
(* inputs it depends on: the caller's idempotency key and locale, the      *)
(* stored state, the stored version, the clock's year, the identifiers it  *)
(* reads or draws (0 when the random source gives none).                   *)

Name(length) == [length |-> length, first |-> "lower", classes |-> {"lower", "underscore"}]

KeyOf(id) == [length |-> 36, first |-> "digit", classes |-> {"lower", "digit", "dash"}]

(* int64 addition.                                                         *)
Plus1(n) == IF n = MaxInt THEN -MaxInt - 1 ELSE n + 1

EmailPayload(call) ==
    [ids |-> [delivery |-> Uuid(call.id)], name |-> Name(12), locale |-> call.locale]

StatePayload(call) ==
    [ids |-> [principal |-> Uuid(call.id)], name |-> call.state, version |-> FormatUint(call.version)]

AuthorizationPayload(call, state, version) ==
    [ids |-> [principal |-> Uuid(3), device |-> Uuid(4), authorization |-> Uuid(call.id)],
     name |-> state, version |-> FormatUint(version)]

CompromisedPayload(call) ==
    [ids |-> [authorization |-> Uuid(call.id), family |-> Uuid(4)], version |-> FormatUint(call.version)]

BundlePayload(call) ==
    [ids |-> [authorization |-> Uuid(3), bundle |-> Uuid(call.id)],
     version |-> FormatUint(call.version), digest |-> "hex"]

Envelope(call, type, producer, aggregate, version, key, payload) ==
    [eventId |-> Uuid(call.event), namespace |-> "talenro", type |-> type,
     occurredAt |-> [valid |-> TRUE, year |-> call.year], producer |-> Name(producer),
     aggregateType |-> aggregate, aggregateId |-> Uuid(call.id), aggregateVersion |-> version,
     key |-> key, trace |-> NoTrace, payload |-> payload]

(* What each producer checks before it builds its event.                   *)
ProducerAccepts(call) ==
    /\ call.id > 0 /\ call.event > 0
    /\ call.producer \in {"register", "deliver"} =>
          validIdempotencyKey(call.key) /\ validIdentityLocale(call.locale) /\ validYear(call.year)
    /\ call.producer = "verify" =>
          validIdempotencyKey(call.key) /\ validYear(call.year) /\ call.version >= 1
    /\ call.producer = "enroll" => validIdempotencyKey(call.key) /\ validYear(call.year)
    /\ call.producer = "compromise" => validYear(call.year) /\ call.version > 0
    /\ call.producer = "revoke" => validYear(call.year) /\ Plus1(call.version) > 0
    /\ call.producer \in {"issue", "acknowledge"} => call.version \in 1..MaxInt

(* The envelope each producer hands to Append.                             *)
emailDeliveryEvent(call) ==
    Envelope(call, "email_delivery", 8, "email_delivery", 1, call.key,
             MarshalPayload("email_delivery", "email_delivery", EmailPayload(call)))

accountStateEvent(call) ==
    Envelope(call, "account_state", 8, "account", call.version, call.key,
             MarshalPayload("account_state", "account_state", StatePayload(call)))

registeredEvent(call) ==
    Envelope(call, "device_authorization", 10, "device_authorization", 1, call.key,
             MarshalPayload("device_authorization", "device_authorization",
                            AuthorizationPayload(call, call.state, 1)))

compromisedEvent(call) ==
    Envelope(call, "family_compromised", 10, "device_authorization", call.version, KeyOf(call.event),
             MarshalPayload("family_compromised", "family_compromised", CompromisedPayload(call)))

revokedEvent(call) ==
    Envelope(call, "device_authorization", 10, "device_authorization", Plus1(call.version), KeyOf(call.event),
             MarshalPayload("device_authorization", "device_authorization",
                            AuthorizationPayload(call, Name(7), Plus1(call.version))))

issuedEvent(call) ==
    Envelope(call, "bundle_issued", 5, "bundle", call.version, KeyOf(call.event),
             MarshalPayload("bundle_issued", "bundle_issued", BundlePayload(call)))

acknowledgementEvent(call) ==
    Envelope(call, "bundle_acknowledged", 5, "bundle", call.version, KeyOf(call.event),
             MarshalPayload("bundle_acknowledged", "bundle_acknowledged", BundlePayload(call)))

EventOf(call) ==
    CASE call.producer \in {"register", "deliver"} -> emailDeliveryEvent(call)
      [] call.producer = "verify" -> accountStateEvent(call)
      [] call.producer = "enroll" -> registeredEvent(call)
      [] call.producer = "compromise" -> compromisedEvent(call)
      [] call.producer = "revoke" -> revokedEvent(call)
      [] call.producer = "issue" -> issuedEvent(call)
      [] call.producer = "acknowledge" -> acknowledgementEvent(call)

-----------------------------------------------------------------------------
Init ==
    /\ \/ \E call \in Calls : input = [kind |-> "call", call |-> call]
       \/ \E wire \in Wires : input = [kind |-> "wire", wire |-> wire]
       \/ \E message \in Messages : input = [kind |-> "message", message |-> message]
       \/ \E schema \in Schemas : input = [kind |-> "schema", schema |-> schema]
    /\ stage = "input"
    /\ envelope = Nothing /\ row = Nothing
    /\ verdict = "none"

(* The producer's own checks, then MarshalPayload; an error leaves the     *)
(* transaction to roll back.                                               *)
Produce ==
    /\ input.kind = "call" /\ stage = "input"
    /\ IF ProducerAccepts(input.call) /\ EventOf(input.call).payload # NoPayload
       THEN /\ envelope' = [kind |-> "envelope", value |-> EventOf(input.call)]
            /\ stage' = "produced"
            /\ verdict' = "none"
       ELSE /\ stage' = "failed"
            /\ verdict' = IF ProducerAccepts(input.call) THEN "payload refused" ELSE "call refused"
            /\ UNCHANGED envelope
    /\ UNCHANGED <<input, row>>

(* Append marshals the envelope and inserts its columns and its bytes.     *)
Append_ ==
    /\ stage = "produced"
    /\ LET e == envelope.value
       IN  IF MarshalEnvelope(e)
           THEN /\ row' = [kind |-> "row", eventId |-> e.eventId, type |-> e.type,
                           aggregateType |-> e.aggregateType, aggregateId |-> e.aggregateId,
                           aggregateVersion |-> e.aggregateVersion, key |-> e.key,
                           payload |-> Wire(e, "canonical", "none")]
                /\ stage' = "stored"
                /\ UNCHANGED verdict
           ELSE /\ stage' = "failed"
                /\ verdict' = "event refused"
                /\ UNCHANGED row
    /\ UNCHANGED <<input, envelope>>

SubjectForEventType == {"account_state", "email_delivery", "device_authorization",
                        "family_compromised", "bundle_issued", "bundle_acknowledged"}

validatePublisherRow(r) ==
    /\ r.eventId.id # 0 /\ r.aggregateId.id # 0 /\ r.aggregateVersion >= 1
    /\ UnmarshalEnvelope(r.payload)
    /\ LET e == r.payload.envelope
       IN  /\ e.eventId = r.eventId /\ e.type = r.type
           /\ e.aggregateId = r.aggregateId /\ e.aggregateType = r.aggregateType
           /\ e.aggregateVersion = r.aggregateVersion /\ e.key = r.key
    /\ r.type \in SubjectForEventType

Publish ==
    /\ stage = "stored"
    /\ stage' = IF validatePublisherRow(row) THEN "published" ELSE "failed"
    /\ verdict' = IF validatePublisherRow(row) THEN "none" ELSE "row refused"
    /\ UNCHANGED <<input, envelope, row>>

(* decodeEmailDeliveryEvent, with the checks of the consumer it serves.    *)
decodeEmailDeliveryEvent(wire) ==
    /\ UnmarshalEnvelope(wire)
    /\ wire.envelope.type = "email_delivery"
    /\ MarshalPayload("email_delivery", wire.envelope.payload.message, wire.envelope.payload.fields)
          = wire.envelope.payload
    /\ wire.envelope.payload.fields.ids.delivery = wire.envelope.aggregateId

(* A consumer decodes what the stream hands it: a published row, or bytes  *)
(* from elsewhere.                                                         *)
Consume ==
    /\ stage = "published" \/ (stage = "input" /\ input.kind = "wire")
    /\ LET wire == IF stage = "published" THEN row.payload ELSE input.wire
       IN  verdict' = CASE decodeEmailDeliveryEvent(wire) -> "mail"
                        [] UnmarshalEnvelope(wire) -> "event"
                        [] OTHER -> "event refused"
    /\ stage' = "consumed"
    /\ UNCHANGED <<input, envelope, row>>

(* hasUnknownFields on a message tree.                                     *)
CheckMessage ==
    /\ input.kind = "message" /\ stage = "input"
    /\ verdict' = IF hasUnknownFields[input.message] THEN "unknown" ELSE "known"
    /\ stage' = "checked"
    /\ UNCHANGED <<input, envelope, row>>

(* ValidatePayloadDescriptor on a payload schema.                          *)
CheckSchema ==
    /\ input.kind = "schema" /\ stage = "input"
    /\ verdict' = IF ValidatePayloadDescriptor(input.schema) THEN "safe" ELSE "unsafe"
    /\ stage' = "checked"
    /\ UNCHANGED <<input, envelope, row>>

Done == stage \in {"failed", "consumed", "checked"} /\ UNCHANGED vars

Next == Produce \/ Append_ \/ Publish \/ Consume \/ CheckMessage \/ CheckSchema \/ Done

Spec == Init /\ [][Next]_vars

-----------------------------------------------------------------------------
(* A command its producer accepts can always record its event: while the   *)
(* clock reads a year of the contract, neither MarshalPayload nor Append   *)
(* refuses what the checks of the command let through, however the two     *)
(* sets of checks are worded (keys, locales, states and versions at their  *)
(* limits).                                                                *)
AcceptedCommandsAppend ==
    input.kind = "call" /\ validYear(input.call.year) =>
        verdict \notin {"payload refused", "event refused"}

(* What Append stores the publisher can publish and a consumer can decode: *)
(* no row is ever refused on the way out, where it would be retried for    *)
(* ever.                                                                   *)
StoredEventsArrive ==
    input.kind = "call" => /\ verdict # "row refused"
                           /\ stage = "consumed" => verdict \in {"mail", "event"}
                           /\ stage = "consumed" /\ input.call.producer \in {"register", "deliver"}
                                 => verdict = "mail"

(* Whatever bytes reach a consumer, an event it accepts speaks of one      *)
(* aggregate: the type, the id and the version outside are the payload's.  *)
AcceptedEventsAgree ==
    stage = "consumed" /\ verdict \in {"mail", "event"} /\ input.kind = "wire" =>
        LET e == input.wire.envelope
            fields == e.payload.fields
        IN  /\ e.aggregateType = "bundle" => e.aggregateId = fields.ids.bundle
            /\ e.aggregateType = "device_authorization" => e.aggregateId = fields.ids.authorization
            /\ e.aggregateType = "account" => e.aggregateId = fields.ids.principal
            /\ e.aggregateType = "email_delivery" => e.aggregateId = fields.ids.delivery
            /\ e.aggregateType # "email_delivery" => e.aggregateVersion = fields.version.value

(* An event has one encoding: of two wires of the same envelope at most    *)
(* one is accepted, and it is the marshaller's.                            *)
OneWirePerEvent ==
    stage = "consumed" /\ verdict \in {"mail", "event"} /\ input.kind = "wire" =>
        /\ input.wire.layout = "canonical" /\ input.wire.unknown = "none"
        /\ input.wire.envelope.payload.layout = "canonical"

(* The messages nested anywhere inside a message, itself included, to the  *)
(* depth given.                                                            *)
Nested(message, depth) ==
    LET inside[d \in 0..depth] ==
            IF d = 0 THEN {message}
            ELSE inside[d - 1] \cup
                 UNION {UNION {ToSet(field.values) : field \in ToSet(m.fields)} : m \in inside[d - 1]}
    IN  inside[depth]

(* hasUnknownFields finds an unknown field wherever it hides, in a list, a *)
(* map or a nested message, before or after clean ones.                    *)
UnknownFieldsFound ==
    stage = "checked" /\ input.kind = "message" =>
        ((verdict = "unknown") <=> \E m \in Nested(input.message, 3) : m.unknown)

(* The types a schema reaches from its root.                               *)
Reachable(schema) ==
    LET reach[d \in 0..Cardinality(DOMAIN schema)] ==
            IF d = 0 THEN {"root"}
            ELSE reach[d - 1] \cup ({field.message : field \in UNION {ToSet(schema[t]) : t \in reach[d - 1]}}
                                     \ {"none"})
    IN  reach[Cardinality(DOMAIN schema)]

(* The descriptor check refuses a schema exactly when some type it reaches *)
(* has a forbidden field, through cycles and shared types too.             *)
ForbiddenFieldsFound ==
    stage = "checked" /\ input.kind = "schema" =>
        ((verdict = "safe") <=>
            \A type \in Reachable(input.schema) :
                \A field \in ToSet(input.schema[type]) : ~ForbiddenField(field))
=============================================================================
