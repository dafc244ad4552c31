------------------------------ MODULE MCEvents ------------------------------
(***************************************************************************)
(* Events from the command that records them to the consumer, on small     *)
(* instances: commands that run once (Idempotency), the outbox and its     *)
(* publishers (Outbox), and the formats events, documents, transcripts and *)
(* records are written in (EventContracts, StrictJson, ByteLayouts). A     *)
(* behaviour is one of several scenarios, each of which runs one           *)
(* component; the variables of the others keep their initial value.        *)
(***************************************************************************)
EXTENDS Outbox, Sequences, TLC

CONSTANTS
    Scenarios, Workers, Keys, Digests, Bodies

VARIABLE scenario

VARIABLES
    onceRecords, onceTx, onceExecuted, onceAnswered
onceVars == <<onceRecords, onceTx, onceExecuted, onceAnswered>>

VARIABLES
    eventInput, eventStage, eventEnvelope, eventRow, eventVerdict
eventVars == <<eventInput, eventStage, eventEnvelope, eventRow, eventVerdict>>

VARIABLES
    documentDoc, documentTarget, documentVerdict
documentVars == <<documentDoc, documentTarget, documentVerdict>>

VARIABLES
    escapeReader, escapeBody, escapeIndex, escapeInString, escapeEscaped, escapeResult
escapeVars == <<escapeReader, escapeBody, escapeIndex, escapeInString, escapeEscaped, escapeResult>>

VARIABLES
    schemaGraph, schemaQueue, schemaVisitedDepth, schemaCandidates, schemaFields
schemaVars == <<schemaGraph, schemaQueue, schemaVisitedDepth, schemaCandidates, schemaFields>>

VARIABLES
    transcriptInput, transcriptBytes, transcriptPhase
transcriptVars == <<transcriptInput, transcriptBytes, transcriptPhase>>

VARIABLES
    frameRecord, frameDamage, frameWire, frameRead, framePhase
frameVars == <<frameRecord, frameDamage, frameWire, frameRead, framePhase>>

Symmetry ==
    Permutations(Publishers) \cup Permutations(Workers)

Contract == INSTANCE EventContracts WITH
    MaxInt <- 3, Calls <- 0, Wires <- 0, Messages <- 0, Schemas <- 0, input <- 0, stage <- 0,
    envelope <- 0, row <- 0, verdict <- 0

Json == INSTANCE StrictJson WITH
    Documents <- 0, Targets <- 0, MaxDepth <- 0, NullablePaths <- 0, NullablePrefixes <- 0,
    Dotted <- <<>>, Bundles <- 0, Digests <- <<>>, Expected <- <<>>,
    Texts <- 0, Types <- 0, Root <- 0, Graphs <- 0, doc <- 0, target <- 0, verdict <- 0, reader
    <- 0, body <- 0, index <- 0, inString <- 0, escaped <- 0, result <- 0, graph <- 0, queue <-
    0, visitedDepth <- 0, candidates <- 0, fields <- 0

Layout == INSTANCE ByteLayouts WITH
    Inputs <- 0, MaxName <- 0, Records <- 0, Damages <- 0, input <- 0, bytes <- 0,
    transcriptPhase <- 0, record <- 0, damage <- 0, wire <- 0, read <- 0, framePhase <- 0

(* Event producers at the limits of their inputs, re-encoded and           *)
(* mismatched wires, message trees of depth three and every schema of      *)
(* three small types.                                                      *)
DeliveryKeys == {[length |-> n, first |-> "lower", classes |-> c] :
            n \in {21, 22, 86, 87}, c \in {{"lower"}, {"upper", "digit", "underscore", "dash"}, {"lower", "colon"}}}

Locales == {<<Contract!Part(2, {"lower"})>>, <<Contract!Part(2, {"lower"}), Contract!Part(4, {"lower", "upper"})>>,
            <<Contract!Part(3, {"upper"}), Contract!Part(8, {"digit"})>>, <<Contract!Part(1, {"lower"})>>}

AKey == [length |-> 22, first |-> "lower", classes |-> {"lower"}]
ALocale == <<Contract!Part(2, {"lower"})>>

StateNames == {Contract!Name(6), Contract!Name(16)}

Years == {2019, 2020, 2100, 2101}

CallOf(producer, key, locale, state, version, year, id, event) ==
    [producer |-> producer, key |-> key, locale |-> locale, state |-> state, version |-> version,
     year |-> year, id |-> id, event |-> event]

EventCalls ==
    {CallOf(p, k, l, Contract!Name(6), 1, y, 1, e) :
        p \in {"register", "deliver"}, k \in DeliveryKeys, l \in Locales, y \in Years, e \in {0, 2}}
    \cup {CallOf(p, k, ALocale, s, v, y, 1, 2) :
        p \in {"verify", "enroll"}, k \in DeliveryKeys, s \in StateNames, v \in {0, 1, 3}, y \in Years}
    \cup {CallOf(p, AKey, ALocale, Contract!Name(6), v, y, i, e) :
        p \in {"compromise", "revoke"}, v \in 0..3, y \in Years, i \in {0, 1}, e \in {0, 2}}
    \cup {CallOf(p, AKey, ALocale, Contract!Name(6), v, y, i, e) :
        p \in {"issue", "acknowledge"}, v \in 0..(3 + 1), y \in Years, i \in {0, 1}, e \in {0, 2}}

(* Well-formed events, and the same with one thing changed.                *)
GoodEvents == {Contract!EventOf(CallOf(p, AKey, ALocale, Contract!Name(6), 2, 2026, 1, 2)) :
            p \in {"register", "verify", "enroll", "compromise", "revoke", "issue", "acknowledge"}}

TraceOf(layout, version, trace, span) ==
    [present |-> TRUE, layout |-> layout, version |-> version, trace |-> trace, span |-> span]

ChangedEvents ==
    {[g EXCEPT !.aggregateId = i] : g \in GoodEvents, i \in {Contract!Uuid(1), Contract!Uuid(9), [id |-> 1, form |-> "upper"]}}
    \cup {[g EXCEPT !.aggregateVersion = v] : g \in GoodEvents, v \in 0..(3 + 1)}
    \cup {[g EXCEPT !.aggregateType = t] : g \in GoodEvents, t \in {"account", "bundle", "device_authorization"}}
    \cup {[g EXCEPT !.type = t] : g \in GoodEvents, t \in DOMAIN Contract!registeredPayload \cup {"node_changed"}}
    \cup {[g EXCEPT !.trace = TraceOf(l, v, 1, s)] : g \in GoodEvents, l \in BOOLEAN, v \in {0, 255}, s \in {0, 1}}
    \cup {[g EXCEPT !.payload.layout = "reordered"] : g \in GoodEvents}

EventWires == {Contract!Wire(g, l, u) : g \in GoodEvents, l \in {"canonical", "reordered", "damaged"}, u \in {"none", "top", "nested"}}
           \cup {Contract!Wire(g, "canonical", "none") : g \in ChangedEvents}

(* Message trees: leaves, then fields of one or two values, two levels up. *)
MessageTree(unknown, fields) == [unknown |-> unknown, fields |-> fields]
LeafMessages == {MessageTree(u, <<>>) : u \in BOOLEAN}

ScalarField == [kind |-> "scalar", values |-> <<>>]
FieldsOver(trees) ==
    {[kind |-> k, values |-> v] : k \in {"list", "map"}, v \in [1..2 -> trees]}
    \cup {[kind |-> "message", values |-> <<t>>] : t \in trees} \cup {ScalarField}

MiddleMessages == {MessageTree(FALSE, f) : f \in [1..2 -> FieldsOver(LeafMessages)]}
UpperMessages == {MessageTree(FALSE, <<[kind |-> k, values |-> <<m>>], ScalarField>>) : k \in {"list", "map", "message"}, m \in MiddleMessages}
EventMessages == LeafMessages \cup MiddleMessages \cup UpperMessages

(* Schemas of three types that refer to each other in every way.           *)
PlainField(message) == [terms |-> {"state"}, joined |-> {}, message |-> message]
FieldNames == {PlainField("none"),
               [terms |-> {"provider", "state"}, joined |-> {}, message |-> "none"],
               [terms |-> {"accesstoken"}, joined |-> {<<"access", "token">>}, message |-> "none"]}
EventSchemas ==
    {[t \in {"root", "left", "right"} |->
        CASE t = "root" -> <<PlainField(r[1]), PlainField(r[2])>>
          [] t = "left" -> <<PlainField(r[3]), f[1]>>
          [] t = "right" -> <<f[2], PlainField(r[4])>>] :
        r \in [1..4 -> {"none", "root", "left", "right"}], f \in [1..2 -> FieldNames]}

(* Documents of two levels and deep ones.                                  *)
MemberOf(n, v) == [name |-> n, value |-> v]
LeafValues == {Json!Scalar(v) : v \in Json!Scalars}
SomeValues == {Json!Scalar("null"), Json!Scalar("string")}
SmallTrees(values, names) ==
    {Json!Array(<<>>), Json!Object(<<>>)} \cup {Json!Array(<<v>>) : v \in values} \cup {Json!Object(<<MemberOf(n, v)>>) : n \in names, v \in values}
       \cup {Json!Object(<<MemberOf(n, v), MemberOf(m, w)>>) : n \in names, m \in names, v \in values, w \in SomeValues}
OneLevel == LeafValues \cup SmallTrees(SomeValues, 1..2)
TwoLevels == LeafValues \cup SmallTrees(OneLevel, 1..4)

Nested == [n \in 0..3 |->
    LET s == Json!Scalar("string") IN
    CASE n = 0 -> s
      [] n = 1 -> Json!Object(<<MemberOf(2, s)>>)
      [] n = 2 -> Json!Array(<<Json!Object(<<MemberOf(2, s)>>)>>)
      [] OTHER -> Json!Object(<<MemberOf(2, Json!Array(<<Json!Object(<<MemberOf(2, s)>>)>>))>>)]
DeepTrees == {Json!Object(<<MemberOf(2, Nested[n]), MemberOf(4, Json!Scalar("string"))>>) : n \in 0..3} \cup {Json!Object(<<MemberOf(2, Json!Array(<<>>))>>)}

PlainDocument(t) == [tree |-> t, utf8 |-> TRUE, escapes |-> TRUE, trailing |-> "none", size |-> "fits"]
ByteTrees == {Json!Object(<<MemberOf(2, Json!Scalar("string"))>>), Json!Scalar("null"), Json!Scalar("string")}
JsonDocuments ==
    {PlainDocument(t) : t \in TwoLevels \cup DeepTrees}
      \cup {[tree |-> t, utf8 |-> u, escapes |-> e, trailing |-> x, size |-> s] :
              t \in ByteTrees, u \in BOOLEAN, e \in BOOLEAN, x \in {"none", "value", "garbage"}, s \in {"empty", "fits", "large"}}
InnerStruct == Json!Struct([n \in {2} |-> Json!Text])
JsonTargets ==
    {Json!Struct([n \in {2} |-> InnerStruct]), Json!Struct([n \in {2, 4} |-> IF n = 2 THEN Json!Opaque ELSE Json!Text]), Json!Struct([n \in {1, 2} |-> Json!Opaque]),
     Json!Map(InnerStruct), Json!Slice(InnerStruct), Json!Opaque, Json!Text}
JsonNullable == {<<2>>}
JsonPrefixes == {<<2, 0>>}

(* Bundles of two items, one of them arbitrary. Some names contain dots.   *)
DottedNames ==
    [n \in {12, 18, 22} |->
        CASE n = 12 -> <<Json!BodyName, Json!Dot, 2>>
          [] n = 18 -> <<Json!CanonicalBodyName, Json!Dot, 2>>
          [] n = 22 -> <<Json!CanonicalEnvelopeName, Json!Dot, Json!BodyName, Json!Dot, 2>>]
PlainBody == Json!Object(<<MemberOf(2, Json!Scalar("string")), MemberOf(4, Json!Scalar("null"))>>)
NullBody == Json!Object(<<MemberOf(2, Json!Scalar("null")), MemberOf(4, Json!Scalar("string"))>>)
DeepBody == Json!Object(<<MemberOf(2, Json!Object(<<MemberOf(2, Json!Scalar("null"))>>)), MemberOf(4, Json!Scalar("null"))>>)
EvidenceBodies == {PlainBody, NullBody, DeepBody}
BodyDigests == [b \in EvidenceBodies |-> CASE b = PlainBody -> 1 [] b = DeepBody -> 2 [] b = NullBody -> 3]
Expectation(kind, digest) ==
    [kind |-> kind, digest |-> digest, fields |-> {2, 4}, paths |-> {<<4>>, <<2, Json!Dot, 2>>}]
ExpectedEvidence == <<Expectation("database_immutable_body", 1), Expectation("external_signed_envelope", 2)>>
Extra(names) == {<<>>} \cup {<<MemberOf(n, Json!Scalar("null"))>> : n \in names}
EnvelopeOf(b, x, n, signature) ==
    Json!Object(<<MemberOf(Json!BodyName, b)>> \o x \o <<MemberOf(Json!BodyDigestName, Json!Digest(n)),
        MemberOf(Json!SignatureName, Json!Scalar(signature)), MemberOf(Json!SignerName, Json!Scalar("string"))>>)
ItemOf(n, b, x, e, y, kind) ==
    Json!Object(<<MemberOf(Json!BodyDigestName, Json!Digest(n)), MemberOf(Json!CanonicalBodyName, b)>> \o x
        \o <<MemberOf(Json!CanonicalEnvelopeName, e)>> \o y \o <<MemberOf(Json!EvidenceKindName, Json!Scalar(kind))>>)
NoEvidence == Json!Scalar("null")
BodyItem == ItemOf(1, PlainBody, <<>>, NoEvidence, <<>>, "database_immutable_body")
EnvelopeItem == ItemOf(2, NoEvidence, <<>>, EnvelopeOf(DeepBody, <<>>, 2, "signed"), <<>>, "external_signed_envelope")
Envelopes == {EnvelopeOf(b, x, n, s) : b \in EvidenceBodies, x \in Extra({12}), n \in 1..3, s \in {"signed", "string"}}
Items ==
    {ItemOf(n, b, x, e, y, k) : n \in 1..3, b \in EvidenceBodies \cup {NoEvidence, Json!Array(<<NoEvidence>>)}, x \in Extra({18}),
        e \in {NoEvidence, EnvelopeOf(DeepBody, <<>>, 2, "signed")}, y \in Extra({22}),
        k \in {"database_immutable_body", "external_signed_envelope"}}
    \cup {ItemOf(2, NoEvidence, <<>>, e, <<>>, "external_signed_envelope") : e \in Envelopes}
BundleOf(items, m) == PlainDocument(Json!Object(<<MemberOf(Json!EvidenceName, Json!Array(items)), MemberOf(Json!MessageName, m)>>))
EvidenceBundles ==
    {BundleOf(<<i, EnvelopeItem>>, Json!Scalar("string")) : i \in Items} \cup {BundleOf(<<BodyItem, i>>, Json!Scalar("string")) : i \in Items}
       \cup {BundleOf(s, m) : s \in {<<>>, <<BodyItem>>, <<EnvelopeItem, BodyItem>>, <<BodyItem, EnvelopeItem>>}, m \in SomeValues}

(* Strings of up to three chunks, cut off after every byte.                *)
High1 == <<Json!Backslash, Json!LetterU, 13, 8, 0, 0>>
High2 == <<Json!Backslash, Json!LetterU, 13, 11, 15, 15>>
Low1 == <<Json!Backslash, Json!LetterU, 13, 12, 0, 0>>
Low2 == <<Json!Backslash, Json!LetterU, 13, 15, 15, 15>>
Below == <<Json!Backslash, Json!LetterU, 13, 7, 15, 15>>
Above == <<Json!Backslash, Json!LetterU, 14, 0, 0, 0>>
Chunks == {<<Json!Quote>>, <<Json!Backslash>>, <<Json!LetterU>>, <<13>>, <<Json!Other>>, High1, High2, Low1, Low2, Below, Above}
ChunkLists == UNION {[1..n -> Chunks] : n \in 1..3}
Joined(p) == CASE Len(p) = 1 -> p[1] [] Len(p) = 2 -> p[1] \o p[2] [] OTHER -> p[1] \o p[2] \o p[3]
EscapeTexts == UNION {{SubSeq(<<Json!Quote>> \o Joined(p) \o <<Json!Quote>>, 1, n) : n \in 1..(2 + Len(Joined(p)))} : p \in ChunkLists}

(* Four struct types, two levels of embedding with loops and diamonds.     *)
EmbedField(t) == [name |-> t, tag |-> "", anonymous |-> TRUE, exported |-> FALSE, type |-> t]
NamedField(n) == [name |-> n, tag |-> "", anonymous |-> FALSE, exported |-> TRUE, type |-> Json!ScalarType]
TaggedField(n, t, type) == [name |-> n, tag |-> t, anonymous |-> FALSE, exported |-> TRUE, type |-> type]
HiddenField == [name |-> "x", tag |-> "", anonymous |-> FALSE, exported |-> FALSE, type |-> Json!ScalarType]
LeftOut == [name |-> "x", tag |-> "-", anonymous |-> FALSE, exported |-> TRUE, type |-> Json!ScalarType]
NamedEmbed == [name |-> "C", tag |-> "x", anonymous |-> TRUE, exported |-> TRUE, type |-> "C"]
HiddenScalar == [name |-> "x", tag |-> "", anonymous |-> TRUE, exported |-> FALSE, type |-> Json!ScalarType]

AtMost(n, S) == {s \in SUBSET S : Cardinality(s) <= n}
RootMenu == {EmbedField("A"), EmbedField("B"), NamedField("x"), EmbedField("C")}
MidMenu == {EmbedField("C"), EmbedField("R"), EmbedField("B"), NamedField("x"), TaggedField("y", "x", "R"), NamedEmbed}
LeafMenu == {NamedField("x"), TaggedField("y", "x", Json!ScalarType), TaggedField("z", "x", Json!ScalarType), EmbedField("A"), HiddenField, LeftOut, HiddenScalar}
SchemaGraphs ==
    {[t \in {"R", "A", "B", "C"} |-> CASE t = "R" -> r [] t = "A" -> a [] t = "B" -> b [] OTHER -> c] :
        r \in SUBSET RootMenu, a \in AtMost(2, MidMenu), b \in AtMost(1, MidMenu \ {EmbedField("B")}), c \in AtMost(1, LeafMenu) \cup {{TaggedField("y", "x", Json!ScalarType), TaggedField("z", "x", Json!ScalarType)}}}

(* Strings of up to two bytes, some of which look like lengths, and fixed  *)
(* fields of which at most one is unset.                                   *)
ShortTexts == UNION {[1..n -> {1, 2}] : n \in 0..2}
TextLists == UNION {[1..n -> {<<>>, <<1>>, <<2>>, <<1, 2>>}] : n \in 0..3}
FixedFields(n) == [1..n -> {1, 2}] \cup {[[i \in 1..n |-> 1] EXCEPT ![k] = 0] : k \in 1..n}
InputOf(kind, n, m) == [kind : {kind}, fixed : FixedFields(n), strings : [1..m -> ShortTexts]]
ScopeInputs == [kind : {"scope"}, fixed : FixedFields(1), strings : [1..2 -> UNION {[1..n -> {Layout!Letter, Layout!Digit, Layout!Colon}] : n \in 0..3}]]
TranscriptInputs ==
    UNION {InputOf("account rotation", 3, 3), InputOf("device proof", 5, 3), InputOf("device rotation", 3, 3), InputOf("account context", 2, 0),
           InputOf("registration context", 3, 1), InputOf("rotation context", 2, 1), InputOf("registration", 5, 3), InputOf("rotation", 3, 2),
           InputOf("revocation", 2, 3), ScopeInputs}
    \cup {[kind |-> k, fixed |-> <<>>, strings |-> <<o>> \o p] : k \in {"private request", "strong request"}, o \in ShortTexts, p \in TextLists}

(* Records of every kind; every length up to the longest value, and every  *)
(* byte of it changed to every other.                                      *)
FrameTimes == {1, 7}
FrameRecords ==
    [kind : {"account"}, protocol : {Layout!accountRotationProtocolVersion}, operation : {Layout!accountRotationOperation}, challenge : {1, 2}, context : {1, 3}, expires : FrameTimes]
    \cup {[kind |-> "device", name |-> c.name, protocol |-> c.protocol, operation |-> c.operation, challenge |-> x, grant |-> g, context |-> 3, expires |-> t] :
            c \in {Layout!Registration, Layout!Rotation}, x \in {1, 2}, g \in {1, 4}, t \in FrameTimes}
    \cup {[kind |-> "ceremony", operation |-> o, expires |-> t, session |-> [challenge |-> x, expires |-> t]] : o \in {"registration", "authentication"}, x \in {1, 2}, t \in FrameTimes}
    \cup [kind : {"session"}, id : {1, 2}, challenge : {1, 2}, expires : FrameTimes]
    \cup [kind : {"store"}, version : {1, 2}, body : UNION {[1..n -> {0, 1, 4}] : n \in 2..3}]
FrameDamages ==
    {[fault |-> "none", at |-> 0, byte |-> 0]}
    \cup [fault : {"cut"}, at : 0..12, byte : {0}] \cup [fault : {"extend"}, at : {0}, byte : 0..9] \cup [fault : {"change"}, at : 1..12, byte : 0..9]

-----------------------------------------------------------------------------
Once == INSTANCE Idempotency WITH
    Workers <- Workers, Keys <- Keys, Digests <- Digests, Bodies <- Bodies, records <-
    onceRecords, tx <- onceTx, executed <- onceExecuted, answered <- onceAnswered

Contracts == INSTANCE EventContracts WITH
    MaxInt <- 3, Calls <- EventCalls, Wires <- EventWires, Messages <- EventMessages,
    Schemas <- EventSchemas, input <- eventInput, stage <- eventStage, envelope <-
    eventEnvelope, row <- eventRow, verdict <- eventVerdict

Reading == INSTANCE StrictJson WITH
    Documents <- JsonDocuments, Targets <- JsonTargets, MaxDepth <- 3, NullablePaths <-
    JsonNullable, NullablePrefixes <- JsonPrefixes, Dotted <- DottedNames, Bundles <-
    EvidenceBundles, Digests <- BodyDigests, Expected <- ExpectedEvidence, Texts <- 0, Types <- 0, Root <- 0,
    Graphs <- 0, doc <- documentDoc, target <- documentTarget, verdict <- documentVerdict,
    reader <- 0, body <- 0, index <- 0, inString <- 0, escaped <- 0, result <- 0, graph <-
    0, queue <- 0, visitedDepth <- 0, candidates <- 0, fields <- 0

Escapes == INSTANCE StrictJson WITH
    Documents <- 0, Targets <- 0, MaxDepth <- 0, NullablePaths <- 0, NullablePrefixes <- 0,
    Dotted <- <<>>, Bundles <- 0, Digests <- <<>>, Expected <- <<>>,
    Texts <- EscapeTexts, Types <- 0, Root <- 0, Graphs <- 0, doc <- 0, target <- 0, verdict
    <- 0, reader <- escapeReader, body <- escapeBody, index <- escapeIndex, inString <-
    escapeInString, escaped <- escapeEscaped, result <- escapeResult, graph <- 0, queue <-
    0, visitedDepth <- 0, candidates <- 0, fields <- 0

Promotion == INSTANCE StrictJson WITH
    Documents <- 0, Targets <- 0, MaxDepth <- 0, NullablePaths <- 0, NullablePrefixes <- 0,
    Dotted <- <<>>, Bundles <- 0, Digests <- <<>>, Expected <- <<>>,
    Texts <- 0, Types <- {"R", "A", "B", "C"}, Root <- "R", Graphs <- SchemaGraphs, doc <-
    0, target <- 0, verdict <- 0, reader <- 0, body <- 0, index <- 0, inString <- 0, escaped
    <- 0, result <- 0, graph <- schemaGraph, queue <- schemaQueue, visitedDepth <-
    schemaVisitedDepth, candidates <- schemaCandidates, fields <- schemaFields

Transcripts == INSTANCE ByteLayouts WITH
    Inputs <- TranscriptInputs, MaxName <- 3, Records <- 0, Damages <- 0, input <-
    transcriptInput, bytes <- transcriptBytes, transcriptPhase <- transcriptPhase, record <-
    0, damage <- 0, wire <- 0, read <- 0, framePhase <- 0

Frames == INSTANCE ByteLayouts WITH
    Inputs <- 0, MaxName <- 0, Records <- FrameRecords, Damages <- FrameDamages, input <- 0,
    bytes <- 0, transcriptPhase <- 0, record <- frameRecord, damage <- frameDamage, wire <-
    frameWire, read <- frameRead, framePhase <- framePhase

-----------------------------------------------------------------------------
ScenarioInit ==
    /\ scenario \in Scenarios
    /\ IF scenario = "outbox" THEN Init
       ELSE Init
    /\ IF scenario = "once" THEN Once!Init
       ELSE Once!Init
    /\ IF scenario = "contracts" THEN Contracts!Init
       ELSE /\ eventInput = 0 /\ eventStage = 0 /\ eventEnvelope = 0 /\ eventRow = 0
            /\ eventVerdict = 0
    /\ IF scenario = "documents" THEN Reading!DocumentInit
       ELSE /\ documentDoc = 0 /\ documentTarget = 0 /\ documentVerdict = 0
    /\ IF scenario = "escapes" THEN Escapes!EscapeInit
       ELSE /\ escapeReader = 0 /\ escapeBody = 0 /\ escapeIndex = 0 /\ escapeInString = 0
            /\ escapeEscaped = 0 /\ escapeResult = 0
    /\ IF scenario = "schemas" THEN Promotion!SchemaInit
       ELSE /\ schemaGraph = 0 /\ schemaQueue = 0 /\ schemaVisitedDepth = 0 /\ schemaCandidates = 0
            /\ schemaFields = 0
    /\ IF scenario = "transcripts" THEN Transcripts!TranscriptInit
       ELSE /\ transcriptInput = 0 /\ transcriptBytes = 0 /\ transcriptPhase = 0
    /\ IF scenario = "frames" THEN Frames!FrameInit
       ELSE /\ frameRecord = 0 /\ frameDamage = 0 /\ frameWire = 0 /\ frameRead = 0
            /\ framePhase = 0

ScenarioNext ==
    /\ UNCHANGED scenario
    /\ \/ scenario = "outbox" /\ Next
          /\ UNCHANGED <<onceVars, eventVars, documentVars, escapeVars, schemaVars, transcriptVars, frameVars>>
       \/ scenario = "once" /\ Once!Next
          /\ UNCHANGED <<vars, eventVars, documentVars, escapeVars, schemaVars, transcriptVars, frameVars>>
       \/ scenario = "contracts" /\ Contracts!Next
          /\ UNCHANGED <<vars, onceVars, documentVars, escapeVars, schemaVars, transcriptVars, frameVars>>
       \/ scenario = "documents" /\ Reading!DocumentNext
          /\ UNCHANGED <<vars, onceVars, eventVars, escapeVars, schemaVars, transcriptVars, frameVars>>
       \/ scenario = "escapes" /\ Escapes!EscapeNext
          /\ UNCHANGED <<vars, onceVars, eventVars, documentVars, schemaVars, transcriptVars, frameVars>>
       \/ scenario = "schemas" /\ Promotion!SchemaNext
          /\ UNCHANGED <<vars, onceVars, eventVars, documentVars, escapeVars, transcriptVars, frameVars>>
       \/ scenario = "transcripts" /\ Transcripts!TranscriptNext
          /\ UNCHANGED <<vars, onceVars, eventVars, documentVars, escapeVars, schemaVars, frameVars>>
       \/ scenario = "frames" /\ Frames!FrameNext
          /\ UNCHANGED <<vars, onceVars, eventVars, documentVars, escapeVars, schemaVars, transcriptVars>>

scenarioVars == <<scenario, vars, onceVars, eventVars, documentVars, escapeVars, schemaVars, transcriptVars, frameVars>>

ScenarioSpec == ScenarioInit /\ [][ScenarioNext]_scenarioVars

-----------------------------------------------------------------------------
(* No request ever meets a record in progress: the record exists only      *)
(* inside a transaction that will complete it, and others wait for that    *)
(* one. The services' answer to InProgress is never given.                 *)
InProgressIsNeverSeen == scenario = "once" => Once!InProgressIsNeverSeen

(* A command its producer accepts can always record its event: while the   *)
(* clock reads a year of the contract, neither MarshalPayload nor Append   *)
(* refuses what the checks of the command let through, however the two     *)
(* sets of checks are worded (keys, locales, states and versions at their  *)
(* limits).                                                                *)
AcceptedCommandsAppend == scenario = "contracts" => Contracts!AcceptedCommandsAppend

(* What Append stores the publisher can publish and a consumer can decode: *)
(* no row is ever refused on the way out, where it would be retried for    *)
(* ever.                                                                   *)
StoredEventsArrive == scenario = "contracts" => Contracts!StoredEventsArrive

(* Whatever bytes reach a consumer, an event it accepts speaks of one      *)
(* aggregate: the type, the id and the version outside are the payload's.  *)
AcceptedEventsAgree == scenario = "contracts" => Contracts!AcceptedEventsAgree

(* An event has one encoding: of two wires of the same envelope at most    *)
(* one is accepted, and it is the marshaller's.                            *)
OneWirePerEvent == scenario = "contracts" => Contracts!OneWirePerEvent

(* hasUnknownFields finds an unknown field wherever it hides, in a list, a *)
(* map or a nested message, before or after clean ones.                    *)
UnknownFieldsFound == scenario = "contracts" => Contracts!UnknownFieldsFound

(* The descriptor check refuses a schema exactly when some type it reaches *)
(* has a forbidden field, through cycles and shared types too.             *)
ForbiddenFieldsFound == scenario = "contracts" => Contracts!ForbiddenFieldsFound

(* No reader accepts a document in which some object, however deep and     *)
(* whatever it is read into, has a member twice: two readers would         *)
(* otherwise take different values from the same signed bytes.             *)
NoDuplicateAnywhere == scenario = "documents" => Reading!NoDuplicateAnywhere

(* What strictjson accepts, the library decodes without ever assigning a   *)
(* field twice, although it ignores the case of names.                     *)
OneMemberPerField == scenario = "documents" => Reading!OneMemberPerField

(* The client reads whatever the issuer can canonicalize and has checked   *)
(* for exactly its members: its own reader is nowhere stricter.            *)
ClientReadsWhatIssuerWrites == scenario = "documents" => Reading!ClientReadsWhatIssuerWrites

(* A verified bundle of evidence holds the expected bodies, each once, and *)
(* no null but the one that says which form an item has and those inside a *)
(* body, also when the name of a foreign member contains a dot.            *)
EvidenceIsExpected == scenario = "documents" => Reading!EvidenceIsExpected

(* Every accepted document is finished: nothing follows its one value.     *)
OneValueOnly == scenario = "documents" => Reading!OneValueOnly

(* The loop never stands behind the byte after the last one: its look-     *)
(* ahead skips only bytes it has read.                                     *)
IndexInText == scenario = "escapes" => Escapes!IndexInText

(* The loop accepts exactly the texts whose strings are closed and whose   *)
(* \u escapes are scalar values or high-low pairs, also when the text ends *)
(* in the middle of an escape.                                             *)
ScannerFollowsGrammar == scenario = "escapes" => Escapes!ScannerFollowsGrammar

(* The queue runs empty for types that embed one another, too: no type is  *)
(* queued deeper than a path without repetition, and one step more, can    *)
(* be.                                                                     *)
ExplorationIsBounded == scenario = "schemas" => Promotion!ExplorationIsBounded

(* The schema has exactly the names that Go's promotion rule gives a       *)
(* single field, each with that field's type, whatever structs embed       *)
(* whatever structs and whether a type is reached twice at one depth.      *)
SchemaIsPromotionRule == scenario = "schemas" => Promotion!SchemaIsPromotionRule

(* Every transcript, binding and canonical request can be read back from   *)
(* its bytes alone: the reader finds its kind and every field of it and    *)
(* nothing is left over, so that no two inputs have the same bytes.        *)
ReadsBack == scenario = "transcripts" => Transcripts!ReadsBack

(* An unset identifier, digest or time, or an empty first name, gives no   *)
(* bytes at all to sign or to compare.                                     *)
UnsetGivesNothing == scenario = "transcripts" => Transcripts!UnsetGivesNothing

(* The scope of a principal is accepted when its record is read again,     *)
(* names that principal and no other, and is none of the anonymous scopes. *)
ScopesAreOwned == scenario = "transcripts" => Transcripts!ScopesAreOwned

(* The length check before the fixed fields of a damaged value is long     *)
(* enough: no reader indexes them beyond its end.                          *)
NeverOutOfBounds == scenario = "frames" => Frames!NeverOutOfBounds

(* A value that is cut short or extended is never taken for a record.      *)
LengthIsExact == scenario = "frames" => Frames!LengthIsExact

(* An undamaged value is read as the record that was written, and a        *)
(* ceremony only for its own operation.                                    *)
RoundTrips == scenario = "frames" => Frames!RoundTrips

(* A state file of the client never yields a body that was not staged,     *)
(* whichever byte of it changed; its version is not covered by the digest. *)
StoredBodyIsWritten == scenario = "frames" => Frames!StoredBodyIsWritten

(* What is read of an account, device or session challenge record is       *)
(* written again as the very bytes it was read from: such a record has one *)
(* wire.                                                                   *)
OneWirePerRecord == scenario = "frames" => Frames!OneWirePerRecord

(* Commands run exactly once: Idempotency, workers that crash and retry    *)
(* included, implements ExactlyOnce.                                       *)
ExactlyOnceSpec == Once!ExactlyOnceSpec

(* The outbox and its publishers under the fairness Outbox states.         *)
OutboxFairSpec == ScenarioSpec /\ Fairness

(* What a command appends arrives, agrees with its envelope, and is        *)
(* refused when a field is unknown or forbidden at any depth.              *)
EventsAreSound ==
    /\ AcceptedCommandsAppend
    /\ StoredEventsArrive
    /\ AcceptedEventsAgree
    /\ OneWirePerEvent
    /\ UnknownFieldsFound
    /\ ForbiddenFieldsFound

(* The strict readers accept one value, each member once, by the names     *)
(* that promotion gives, and scan every escape as the grammar does; a      *)
(* verified bundle of evidence is the expected one.                        *)
ReadersAreStrict ==
    /\ NoDuplicateAnywhere
    /\ OneMemberPerField
    /\ ClientReadsWhatIssuerWrites
    /\ EvidenceIsExpected
    /\ OneValueOnly
    /\ IndexInText
    /\ ScannerFollowsGrammar
    /\ ExplorationIsBounded
    /\ SchemaIsPromotionRule

(* Transcripts and frames are read back as written or refused, whatever    *)
(* was cut, extended or altered, and no two mean the same bytes.           *)
LayoutsAreUnambiguous ==
    /\ ReadsBack
    /\ UnsetGivesNothing
    /\ ScopesAreOwned
    /\ NeverOutOfBounds
    /\ LengthIsExact
    /\ RoundTrips
    /\ StoredBodyIsWritten
    /\ OneWirePerRecord

(* The outbox implements delivery with its promise of progress: every      *)
(* stored row is published, every event takes effect, and Close ends.      *)
DeliveryFinishes ==
    /\ DeliverySpec
    /\ EveryRowIsPublished
    /\ CloseEnds
=============================================================================
