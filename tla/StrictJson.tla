----------------------------- MODULE StrictJson -----------------------------
(***************************************************************************)
(* The strict JSON readers of the system. The issuer and the HTTP API use  *)
(* the package strictjson, the client has a reader of its own, and so have *)
(* the conformance tool, the node-control contracts and the verifier of    *)
(* version 7 evidence. Each walks the tokens of a document by itself and   *)
(* then hands the bytes to the library's decoder, which is more lenient:   *)
(* it matches member names without regard to case and keeps the last of    *)
(* several equal ones.                                                     *)
(*                                                                         *)
(* A document is a tree with a few facts about its bytes. Names are        *)
(* numbers in byte order; an odd name is the upper-case form of the next.  *)
(*                                                                         *)
(* The readers are in three parts: the walk over the tokens, the scan for  *)
(* escapes in strings, and the collection of the members that a struct     *)
(* type of Go accepts.                                                     *)
(***************************************************************************)
EXTENDS Integers, Sequences, SequencesExt, FiniteSets

(***************************************************************************)
(* The walk over the tokens.                                               *)
(***************************************************************************)

CONSTANTS Documents,     \* documents to read
          Targets,       \* types to read them into
          MaxDepth,      \* maximumDepth, maximumJSONDepth, maximumCLIJSONDepth
          NullablePaths,    \* paths the evidence verifier lets be null
          NullablePrefixes, \* and prefixes of such paths
          Dotted,        \* spellings of the names that contain separators
          Bundles,       \* documents to verify as evidence bundles
          Digests,       \* the digests of some bodies
          Expected       \* the members a bundle must have

VARIABLES doc, target, verdict
documentVars == <<doc, target, verdict>>

Scalars == {"null", "string", "number", "huge", "broken"}
Scalar(v) == [kind |-> "scalar", value |-> v]
\* A string that spells a digest; digests are ordered.
Digest(n) == [kind |-> "digest", digest |-> n]
IsString(tree) == tree.kind = "digest" \/ (tree.kind = "scalar" /\ tree.value \notin Scalars \ {"string"})
Object(members) == [kind |-> "object", members |-> members]
Array(elements) == [kind |-> "array", elements |-> elements]
Children(tree) ==
    CASE tree.kind = "object" -> [i \in 1..Len(tree.members) |-> tree.members[i].value]
      [] tree.kind = "array" -> tree.elements
      [] OTHER -> <<>>
Fold(name) == IF name % 2 = 1 THEN name + 1 ELSE name
Names(tree, i) == {tree.members[j].name : j \in 1..i}
Repeats(tree) == tree.kind = "object" /\ \E i \in 1..Len(tree.members) : tree.members[i].name \in Names(tree, i - 1)
First(n, Error(_)) ==
    IF \A i \in 1..n : Error(i) = "ok" THEN "ok" ELSE Error(CHOOSE i \in 1..n : Error(i) # "ok" /\ \A j \in 1..(i - 1) : Error(j) = "ok")

RECURSIVE Whole(_)
Whole(tree) == tree # Scalar("broken") /\ \A i \in 1..Len(Children(tree)) : Whole(Children(tree)[i])
RECURSIVE Finite(_)
Finite(tree) == tree # Scalar("huge") /\ \A i \in 1..Len(Children(tree)) : Finite(Children(tree)[i])

(***************************************************************************)
(* Types, and the library's decoder with DisallowUnknownFields.            *)
(***************************************************************************)
Struct(fields) == [type |-> "struct", fields |-> fields]
Map(element) == [type |-> "map", element |-> element]
Slice(element) == [type |-> "slice", element |-> element]
Opaque == [type |-> "opaque"]
Text == [type |-> "string"]
Untyped == [type |-> "none"]

FieldOf(name, fields) ==
    IF name \in DOMAIN fields THEN {name} ELSE {f \in DOMAIN fields : Fold(f) = Fold(name)}
RECURSIVE LibraryDecodes(_, _)
LibraryDecodes(tree, type) ==
    \/ type.type \in {"opaque", "none"} /\ Whole(tree)
    \/ tree = Scalar("null") \/ (type.type = "string" /\ IsString(tree))
    \/ /\ type.type = "struct" /\ tree.kind = "object"
       /\ \A i \in 1..Len(tree.members) : \E f \in FieldOf(tree.members[i].name, type.fields) :
            LibraryDecodes(tree.members[i].value, type.fields[f])
    \/ /\ (type.type = "map" /\ tree.kind = "object") \/ (type.type = "slice" /\ tree.kind = "array")
       /\ \A i \in 1..Len(Children(tree)) : LibraryDecodes(Children(tree)[i], type.element)

(***************************************************************************)
(* strictjson.                                                             *)
(***************************************************************************)
\* A type that decodes itself is opaque: its members are walked, not matched.
concreteJSONType(type) == IF type.type = "opaque" THEN Untyped ELSE type
objectExpectation(type) ==
    LET t == concreteJSONType(type) IN
    CASE t.type = "struct" -> [validates |-> TRUE, fields |-> t.fields, element |-> Untyped]
      [] t.type = "map" -> [validates |-> FALSE, fields |-> <<>>, element |-> t.element]
      [] OTHER -> [validates |-> FALSE, fields |-> <<>>, element |-> Untyped]
arrayElementType(type) == IF concreteJSONType(type).type = "slice" THEN type.element ELSE Untyped

foldedMatch(fields, name) == LET m == {f \in DOMAIN fields : Fold(f) = Fold(name)} IN IF Cardinality(m) = 1 THEN m ELSE {}

RECURSIVE walkValue(_, _, _)
walkValue(tree, depth, type) ==
    IF tree.kind \notin {"array", "object"} THEN IF tree = Scalar("broken") THEN "json" ELSE "ok"
    ELSE IF depth >= MaxDepth THEN "deep"
    ELSE IF tree.kind = "array"
    THEN First(Len(tree.elements), LAMBDA i : walkValue(tree.elements[i], depth + 1, arrayElementType(type)))
    ELSE LET e == objectExpectation(type) IN
         First(Len(tree.members), LAMBDA i :
            LET name == tree.members[i].name IN
            IF name \in Names(tree, i - 1) THEN "duplicate"
            ELSE IF e.validates /\ name \notin DOMAIN e.fields
            THEN IF foldedMatch(e.fields, name) \cap Names(tree, i - 1) # {} THEN "duplicate" ELSE "unknown"
            ELSE walkValue(tree.members[i].value, depth + 1, IF e.validates THEN e.fields[name] ELSE e.element))

validateStructure(d, type) ==
    LET walked == walkValue(d.tree, 0, type) IN
    IF walked # "ok" THEN walked
    ELSE IF d.trailing = "none" THEN "ok" ELSE IF d.trailing = "value" THEN "trailing" ELSE "json"

Decode(d, type) ==
    IF d.size = "large" THEN "too_large"
    ELSE IF ~d.utf8 THEN "utf8"
    ELSE IF d.size = "empty" THEN "json"
    ELSE IF validateStructure(d, type) # "ok" THEN validateStructure(d, type)
    ELSE IF ~LibraryDecodes(d.tree, type) THEN "json"
    ELSE IF d.trailing = "none" THEN "ok" ELSE IF d.trailing = "value" THEN "trailing" ELSE "json"

(***************************************************************************)
(* The issuer.                                                             *)
(***************************************************************************)
validIJSON(d) == d.utf8 /\ d.escapes /\ Whole(d.tree) /\ Finite(d.tree)
RECURSIVE Sorted(_)
Sorted(tree) ==
    CASE tree.kind = "object" ->
            Object(SortSeq([i \in 1..Len(tree.members) |-> [name |-> tree.members[i].name, value |-> Sorted(tree.members[i].value)]],
                           LAMBDA x, y : x.name < y.name))
      [] tree.kind = "array" -> Array([i \in 1..Len(tree.elements) |-> Sorted(tree.elements[i])])
      [] OTHER -> tree
Transforms(d) == d.escapes /\ Whole(d.tree) /\ Finite(d.tree)
Transform(d) == [d EXCEPT !.tree = Sorted(@)]

exactJSONMembers(d, required) ==
    Decode(d, Map(Opaque)) = "ok" /\ d.tree.kind = "object" /\ Names(d.tree, Len(d.tree.members)) = required

CanonicalizeJSON(d, type) ==
    IF d.size = "fits" /\ Decode(d, type) = "ok" /\ validIJSON(d) /\ Transforms(d) /\ Decode(Transform(d), type) = "ok" THEN {Transform(d)} ELSE {}

\* A payload or a signed bundle: exactly the members of its type.
DecodeExactly(d, type) == d.size = "fits" /\ validIJSON(d) /\ exactJSONMembers(d, DOMAIN type.fields) /\ Decode(d, type) = "ok"

(***************************************************************************)
(* The client.                                                             *)
(***************************************************************************)
RECURSIVE scanJSONValue(_, _)
scanJSONValue(tree, depth) ==
    /\ depth <= MaxDepth /\ tree \notin {Scalar("broken"), Scalar("huge")} /\ ~Repeats(tree)
    /\ \A i \in 1..Len(Children(tree)) : scanJSONValue(Children(tree)[i], depth + 1)
scanStrictJSON(d) == d.size = "fits" /\ d.utf8 /\ d.escapes /\ scanJSONValue(d.tree, 0) /\ d.trailing = "none"
decodeStrictObject(d, type, required) ==
    /\ scanStrictJSON(d) /\ d.tree.kind = "object"
    /\ required # {} => Names(d.tree, Len(d.tree.members)) = required
    /\ LibraryDecodes(d.tree, type) /\ d.trailing = "none"
decodeStrictValue(d, type) ==
    scanStrictJSON(d) /\ d.tree.kind # "object" /\ LibraryDecodes(d.tree, type) /\ d.trailing = "none"

(***************************************************************************)
(* The conformance tool and the node-control contracts.                    *)
(***************************************************************************)
RECURSIVE scanJSON(_, _)
scanJSON(tree, depth) ==
    /\ depth <= MaxDepth /\ tree # Scalar("broken") /\ ~Repeats(tree)
    /\ \A i \in 1..Len(Children(tree)) : scanJSON(Children(tree)[i], depth + 1)
validateFiniteJSON(d) == d.size = "fits" /\ d.utf8 /\ scanJSON(d.tree, 0) /\ d.trailing = "none"

RECURSIVE inspectJSONValue(_)
inspectJSONValue(tree) ==
    tree # Scalar("broken") /\ ~Repeats(tree) /\ \A i \in 1..Len(Children(tree)) : inspectJSONValue(Children(tree)[i])
rejectDuplicateJSONKeys(d) == d.size # "empty" /\ inspectJSONValue(d.tree) /\ d.trailing = "none"
strictDecodeJSON(d, type) ==
    d.size # "empty" /\ d.tree # Scalar("null") /\ LibraryDecodes(d.tree, type) /\ d.trailing = "none"

(***************************************************************************)
(* The verifier of version 7 evidence.  A path is the text of the names    *)
(* from the top, joined by dots, with brackets for the elements of an      *)
(* array.  Names are not escaped, so one that contains a dot itself spells *)
(* the same path as two others.                                            *)
(***************************************************************************)
Dot == 0
Brackets == -1
Spelling(name) == IF name \in DOMAIN Dotted THEN Dotted[name] ELSE <<name>>
Below(tree, path, i) ==
    IF tree.kind = "array" THEN Append(path, Brackets)
    ELSE (IF path = <<>> THEN <<>> ELSE Append(path, Dot)) \o Spelling(tree.members[i].name)
RECURSIVE inspectAuthorityV7JSONValue(_, _)
inspectAuthorityV7JSONValue(tree, path) ==
    LET n == Len(Children(tree))
        child == [i \in 1..n |-> inspectAuthorityV7JSONValue(Children(tree)[i], Below(tree, path, i))]
    IN  [ok |-> tree # Scalar("broken") /\ ~Repeats(tree) /\ \A i \in 1..n : child[i].ok,
         nulls |-> IF tree = Scalar("null") THEN {path} ELSE UNION {child[i].nulls : i \in 1..n}]

JsonSpec(fieldNames, paths, prefixes) == [fields |-> fieldNames, paths |-> paths, prefixes |-> prefixes]
Nullable(path, spec) == path \in spec.paths \/ \E prefix \in spec.prefixes : IsPrefix(prefix, path)
validateAuthorityV7StrictJSON(d, spec) ==
    LET seen == inspectAuthorityV7JSONValue(d.tree, <<>>) IN
    /\ d.size = "fits" /\ d.utf8 /\ seen.ok /\ d.trailing = "none"
    /\ d.tree.kind = "object" /\ Names(d.tree, Len(d.tree.members)) = spec.fields
    /\ \A path \in seen.nulls : Nullable(path, spec)
    /\ Transforms(d) /\ Transform(d) = d

(***************************************************************************)
(* The bundle of evidence: a list of items, each with a body or with a     *)
(* signed envelope around one.  Every layer is cut out of the one above    *)
(* and read again.  The names below are in byte order.  One member         *)
(* `message` stands for the three strings that must equal the caller's,    *)
(* one `signer` for the six that must equal the signer policy; the schema  *)
(* is part of the digest.  A signature covers the digest and the policy.   *)
(***************************************************************************)
BodyName == 10
BodyDigestName == 14
CanonicalBodyName == 16
CanonicalEnvelopeName == 20
EvidenceName == 24
EvidenceKindName == 26
MessageName == 28
SignatureName == 30
SignerName == 32

Member(tree, name) == tree.members[CHOOSE i \in 1..Len(tree.members) : tree.members[i].name = name].value
CutOut(d, tree) == [d EXCEPT !.tree = tree]
authorityV7DomainDigest(tree) == IF tree \in DOMAIN Digests THEN Digests[tree] ELSE 0

verifyAuthorityV7CanonicalBody(d, expectation) ==
    /\ validateAuthorityV7StrictJSON(d, JsonSpec(expectation.fields, expectation.paths, {}))
    /\ authorityV7DomainDigest(d.tree) = expectation.digest

verifyAuthorityV7SignedEnvelope(d, expectation) ==
    /\ d.tree.kind = "object" /\ BodyName \in Names(d.tree, Len(d.tree.members))
    /\ verifyAuthorityV7CanonicalBody(CutOut(d, Member(d.tree, BodyName)), expectation)
    /\ validateAuthorityV7StrictJSON(d, JsonSpec({BodyName, BodyDigestName, SignatureName, SignerName}, {}, {<<BodyName, Dot>>}))
    /\ Member(d.tree, BodyDigestName) = Digest(expectation.digest)
    /\ Member(d.tree, SignerName) = Scalar("string")
    /\ Member(d.tree, SignatureName) = Scalar("signed")

ItemSpec ==
    JsonSpec({BodyDigestName, CanonicalBodyName, CanonicalEnvelopeName, EvidenceKindName},
             {<<CanonicalBodyName>>, <<CanonicalEnvelopeName>>},
             {<<CanonicalBodyName, Dot>>, <<CanonicalEnvelopeName, Dot, BodyName, Dot>>})
VerifyItem(d, expectation) ==
    /\ validateAuthorityV7StrictJSON(d, ItemSpec)
    /\ LET canonicalBody == Member(d.tree, CanonicalBodyName)
           canonicalEnvelope == Member(d.tree, CanonicalEnvelopeName)
       IN
       /\ Member(d.tree, EvidenceKindName) = Scalar(expectation.kind)
       /\ Member(d.tree, BodyDigestName) = Digest(expectation.digest)
       /\ (canonicalBody = Scalar("null")) # (canonicalEnvelope = Scalar("null"))
       /\ \/ /\ expectation.kind = "database_immutable_body" /\ canonicalEnvelope = Scalar("null")
             /\ verifyAuthorityV7CanonicalBody(CutOut(d, canonicalBody), expectation)
          \/ /\ expectation.kind = "external_signed_envelope" /\ canonicalBody = Scalar("null")
             /\ verifyAuthorityV7SignedEnvelope(CutOut(d, canonicalEnvelope), expectation)

InItems(path) == <<EvidenceName, Brackets, Dot>> \o path
verifyAuthorityV7EvidenceBundle(d) ==
    /\ validateAuthorityV7StrictJSON(d, JsonSpec({EvidenceName, MessageName},
            {InItems(path) : path \in ItemSpec.paths}, {InItems(prefix) : prefix \in ItemSpec.prefixes}))
    /\ Member(d.tree, MessageName) = Scalar("string")
    /\ LET items == Member(d.tree, EvidenceName) IN
       /\ items.kind = "array" /\ Len(items.elements) = Len(Expected)
       /\ \A i \in 1..Len(Expected) : VerifyItem(CutOut(d, items.elements[i]), Expected[i])
       \* The items are in the order of their digests, each once.
       /\ \A i \in 2..Len(Expected) :
            Member(items.elements[i - 1], BodyDigestName).digest < Member(items.elements[i], BodyDigestName).digest

(***************************************************************************)
(* Every reader judges the document.                                       *)
(***************************************************************************)
Pending == [done |-> FALSE]
DocumentInit ==
    /\ (doc \in Documents /\ target \in Targets) \/ (doc \in Bundles /\ target = Opaque)
    /\ verdict = Pending
Required(type) == IF type.type = "struct" THEN DOMAIN type.fields ELSE {}
Judge ==
    /\ verdict = Pending
    /\ verdict' =
        [done |-> TRUE, strict |-> Decode(doc, target), canonical |-> CanonicalizeJSON(doc, target),
         exact |-> target.type = "struct" /\ DecodeExactly(doc, target),
         client |-> decodeStrictObject(doc, target, Required(target)), value |-> decodeStrictValue(doc, target),
         tool |-> validateFiniteJSON(doc), contract |-> rejectDuplicateJSONKeys(doc),
         typed |-> rejectDuplicateJSONKeys(doc) /\ strictDecodeJSON(doc, target),
         evidence |-> validateAuthorityV7StrictJSON(doc, JsonSpec(Required(target), NullablePaths, NullablePrefixes)),
         bundle |-> verifyAuthorityV7EvidenceBundle(doc)]
    /\ UNCHANGED <<doc, target>>
DocumentNext == Judge
DocumentSpec == DocumentInit /\ [][DocumentNext]_documentVars

(***************************************************************************)
(* Properties.                                                             *)
(***************************************************************************)
RECURSIVE NoRepeats(_)
NoRepeats(tree) == ~Repeats(tree) /\ \A i \in 1..Len(Children(tree)) : NoRepeats(Children(tree)[i])

\* No reader accepts a document in which some object, however deep and whatever
\* it is read into, has a member twice: two readers would otherwise take
\* different values from the same signed bytes.
NoDuplicateAnywhere ==
    verdict.done /\ (\/ verdict.strict = "ok" \/ verdict.client \/ verdict.value
                     \/ verdict.tool \/ verdict.contract \/ verdict.evidence) => NoRepeats(doc.tree)

RECURSIVE OneEach(_, _)
OneEach(tree, type) ==
    /\ type.type = "struct" /\ tree.kind = "object" =>
        \A i, j \in 1..Len(tree.members) : i # j => FieldOf(tree.members[i].name, type.fields) \cap FieldOf(tree.members[j].name, type.fields) = {}
    /\ \A i \in 1..Len(Children(tree)) :
        LET t == CASE type.type = "struct" /\ tree.kind = "object" ->
                        IF FieldOf(tree.members[i].name, type.fields) = {} THEN Untyped
                        ELSE type.fields[CHOOSE f \in FieldOf(tree.members[i].name, type.fields) : TRUE]
                   [] type.type \in {"map", "slice"} -> type.element
                   [] OTHER -> Untyped
        IN  OneEach(Children(tree)[i], t)

\* What strictjson accepts, the library decodes without ever assigning a field
\* twice, although it ignores the case of names.
OneMemberPerField == verdict.done /\ verdict.strict = "ok" => OneEach(doc.tree, target)

\* The client reads whatever the issuer can canonicalize and has checked for
\* exactly its members: its own reader is nowhere stricter.
ClientReadsWhatIssuerWrites ==
    verdict.done /\ verdict.exact =>
        /\ \E d \in verdict.canonical : decodeStrictObject(d, target, Required(target))
        /\ verdict.client

RECURSIVE NullPaths(_)
NullPaths(tree) ==
    IF tree = Scalar("null") THEN {<<>>}
    ELSE UNION {{<<IF tree.kind = "array" THEN Brackets ELSE tree.members[i].name>> \o p : p \in NullPaths(Children(tree)[i])} : i \in 1..Len(Children(tree))}

\* A verified bundle holds, in order, the bodies the caller expects, each once,
\* bare or in its signed envelope, and no null but the one that says which and
\* those inside a body. The paths here are lists of names. The readers compare
\* joined texts, in which an undeclared member whose name contains a dot looks
\* declared; what they miss at one layer, the next refuses as a foreign member.
\* Only below the first level of a body is a null's path no more than its text.
EvidenceIsExpected ==
    verdict.done /\ verdict.bundle =>
        LET items == Member(doc.tree, EvidenceName).elements
            inside == {<<EvidenceName, Brackets, CanonicalBodyName>>, <<EvidenceName, Brackets, CanonicalEnvelopeName, BodyName>>}
        IN
        /\ \A path \in NullPaths(doc.tree) :
            \/ path \in {<<EvidenceName, Brackets, CanonicalBodyName>>, <<EvidenceName, Brackets, CanonicalEnvelopeName>>}
            \/ \E p \in inside : IsStrictPrefix(p, path)
        /\ Len(items) = Len(Expected)
        /\ \A i \in 1..Len(items) :
            LET canonicalBody == Member(items[i], CanonicalBodyName)
                carried == IF canonicalBody = Scalar("null") THEN Member(Member(items[i], CanonicalEnvelopeName), BodyName) ELSE canonicalBody
                nulls == NullPaths(carried)
            IN  /\ carried \in DOMAIN Digests /\ Digests[carried] = Expected[i].digest
                /\ \A path \in nulls : path # <<>> /\ path[1] \in Expected[i].fields
                /\ \A path \in nulls : Len(path) = 1 => path \in Expected[i].paths
        /\ \A i, j \in 1..Len(items) : i # j => Member(items[i], BodyDigestName) # Member(items[j], BodyDigestName)

\* Every accepted document is finished: nothing follows its one value.
OneValueOnly ==
    verdict.done /\ (verdict.strict = "ok" \/ verdict.client \/ verdict.tool \/ verdict.typed \/ verdict.evidence \/ verdict.bundle) =>
        doc.trailing = "none" /\ Whole(doc.tree)

(***************************************************************************)
(* validUnicodeEscapes: a byte loop that tells whether every \u escape in  *)
(* a JSON text is a scalar value or a surrogate pair. The library's        *)
(* decoder replaces a lone surrogate without an error, so two texts would  *)
(* decode to one string; the issuer and the client refuse such texts, each *)
(* with its own copy of the loop. It looks ahead by fixed distances, near  *)
(* the end of the text as well. A text is a sequence of bytes: the         *)
(* hexadecimal digits 0..15 and Quote, Backslash, LetterU and Other.       *)
(* Positions count from 1, so the code's body[index] is body[index + 1] of *)
(* an index counted from 0.                                                *)
(***************************************************************************)

CONSTANT Texts

Quote == 16
Backslash == 17
LetterU == 18
Other == 19

VARIABLES reader, body, index, inString, escaped, result
escapeVars == <<reader, body, index, inString, escaped, result>>

\* decodeHexQuad: the value of four digits, or -1.
decodeHexQuad(start) ==
    IF start + 3 > Len(body) \/ \E i \in start..(start + 3) : body[i] > 15 THEN -1
    ELSE body[start] * 4096 + body[start + 1] * 256 + body[start + 2] * 16 + body[start + 3]
Low(v) == v >= 56320 /\ v <= 57343
High(v) == v >= 55296 /\ v <= 56319

EscapeInit == reader \in {"issuer", "client"} /\ body \in Texts /\ index = 1 /\ inString = FALSE /\ escaped = FALSE /\ result = "scanning"

Finish == index > Len(body) /\ result' = (IF ~inString /\ ~escaped THEN "valid" ELSE "invalid") /\ UNCHANGED <<reader, body, index, inString, escaped>>
Refuse == result' = "invalid" /\ UNCHANGED <<reader, body, index, inString, escaped>>
Advance(n) == index' = index + n /\ UNCHANGED <<reader, body, result>>

OutsideString ==
    /\ ~inString /\ inString' = (body[index] = Quote)
    /\ Advance(1) /\ UNCHANGED escaped
InsideString ==
    /\ inString /\ ~escaped
    /\ escaped' = (body[index] = Backslash) /\ inString' = (body[index] # Quote) /\ Advance(1)
\* Any escape taken for the second half of a pair.
PairWithoutRange(n) == n + 6 <= Len(body) /\ body[n + 1] = Backslash /\ body[n + 2] = LetterU /\ decodeHexQuad(n + 3) # -1
PairAfter(n) ==
    /\ n + 6 <= Len(body) /\ body[n + 1] = Backslash /\ body[n + 2] = LetterU
    /\ Low(decodeHexQuad(n + 3))
EscapedOne ==
    /\ inString /\ escaped
    /\ LET first == decodeHexQuad(index + 1) IN
       IF body[index] # LetterU THEN escaped' = FALSE /\ Advance(1) /\ UNCHANGED inString
       ELSE IF first = -1 \/ Low(first) THEN Refuse
       ELSE IF ~High(first) THEN escaped' = FALSE /\ Advance(5) /\ UNCHANGED inString
       ELSE IF PairAfter(index + 4) THEN escaped' = FALSE /\ Advance(11) /\ UNCHANGED inString
       ELSE Refuse

validUnicodeEscapes == result = "scanning" /\ (Finish \/ (index <= Len(body) /\ (OutsideString \/ InsideString \/ EscapedOne)))
\* The client's copy of the loop is the same, byte for byte.
clientValidUnicodeEscapes == validUnicodeEscapes

EscapeNext == (reader = "issuer" /\ validUnicodeEscapes) \/ (reader = "client" /\ clientValidUnicodeEscapes)
EscapeSpec == EscapeInit /\ [][EscapeNext]_escapeVars

(***************************************************************************)
(* The grammar of JSON strings, read from the left.                        *)
(***************************************************************************)
Quad(s, from, HexRange(_)) ==
    /\ Len(s) >= from + 3 /\ \A i \in from..(from + 3) : s[i] \in 0..15
    /\ HexRange(s[from] * 4096 + s[from + 1] * 256 + s[from + 2] * 16 + s[from + 3])
Drop(s, n) == SubSeq(s, n + 1, Len(s))
RECURSIVE Inside(_), Outside(_)
Outside(s) == s = <<>> \/ (IF s[1] = Quote THEN Inside(Drop(s, 1)) ELSE Outside(Drop(s, 1)))
Inside(s) ==
    /\ s # <<>>
    /\ CASE s[1] = Quote -> Outside(Drop(s, 1))
         [] s[1] # Quote /\ s[1] # Backslash -> Inside(Drop(s, 1))
         [] OTHER ->
              /\ Len(s) > 1
              /\ \/ s[2] # LetterU /\ Inside(Drop(s, 2))
                 \/ /\ s[2] = LetterU /\ Quad(s, 3, LAMBDA v : ~Low(v) /\ ~High(v)) /\ Inside(Drop(s, 6))
                 \/ /\ s[2] = LetterU /\ Quad(s, 3, LAMBDA v : High(v)) /\ Len(s) >= 12 /\ s[7] = Backslash /\ s[8] = LetterU
                    /\ Quad(s, 9, LAMBDA v : Low(v)) /\ Inside(Drop(s, 12))

\* The loop accepts exactly the texts whose strings are closed and whose \u
\* escapes are scalar values or high-low pairs, also when the text ends in the
\* middle of an escape.
ScannerFollowsGrammar == result # "scanning" => (result = "valid" <=> Outside(body))

\* The loop never stands behind the byte after the last one: its look-ahead
\* skips only bytes it has read.
IndexInText == index <= Len(body) + 1

(***************************************************************************)
(* buildStructSchema of strictjson: the member names a Go struct accepts.  *)
(* Embedded structs are explored breadth first with a queue, so that the   *)
(* result is known before the library decodes the document. A type may     *)
(* embed itself through a pointer, or be embedded twice; the schema must   *)
(* still be what Go's promotion rule says: of the fields with a name, the  *)
(* shallowest one, and of several the only one with a tag. `graph` gives   *)
(* the fields of every struct type. A field has a Go name, the name its    *)
(* tag gives ("" for none or for one that is no valid name, "-" for a      *)
(* field left out), whether it is embedded and exported, and the type it   *)
(* has, after one pointer.                                                 *)
(***************************************************************************)

CONSTANTS Types, Root, Graphs

ScalarType == "scalar"
IsStruct(field) == field.type \in Types

VARIABLES graph, queue, visitedDepth, candidates, fields
schemaVars == <<graph, queue, visitedDepth, candidates, fields>>
Unvisited == -1
Building == "building"

SchemaInit ==
    /\ graph \in Graphs
    /\ queue = <<[type |-> Root, depth |-> 0]>>
    /\ visitedDepth = [t \in Types |-> Unvisited]
    /\ candidates = <<>> /\ fields = [state |-> Building]

NameOf(field) == IF field.tag # "" THEN field.tag ELSE field.name
Considered(field) ==
    /\ field.tag # "-"
    /\ IF field.anonymous THEN field.exported \/ IsStruct(field) ELSE field.exported
Promoted(field) == field.tag = "" /\ field.anonymous /\ IsStruct(field)
InOrder(set) == CHOOSE s \in [1..Cardinality(set) -> set] : {s[i] : i \in 1..Cardinality(set)} = set

Candidates(of, depth) ==
    LET s == InOrder(of) IN [i \in DOMAIN s |-> [name |-> NameOf(s[i]), depth |-> depth, tagged |-> s[i].tag # "", type |-> s[i].type]]
EmbeddedTypes(of, depth) == LET s == InOrder(of) IN [i \in DOMAIN s |-> [type |-> s[i].type, depth |-> depth]]

Skipped(current) == visitedDepth[current.type] # Unvisited /\ visitedDepth[current.type] < current.depth

\* One turn of the loop: the fields of a type become candidates, and the
\* embedded structs without a tag join the queue one level deeper.
ExploreType ==
    LET current == queue[1]
        found == visitedDepth[current.type]
        seen == {f \in graph[current.type] : Considered(f)}
    IN
    /\ queue # <<>> /\ fields.state = Building
    /\ IF Skipped(current)
       THEN queue' = Tail(queue) /\ UNCHANGED <<graph, visitedDepth, candidates, fields>>
       ELSE /\ visitedDepth' = [visitedDepth EXCEPT ![current.type] = IF found = Unvisited \/ current.depth < found THEN current.depth ELSE found]
            /\ candidates' = candidates \o Candidates({f \in seen : ~Promoted(f)}, current.depth)
            /\ queue' = Tail(queue) \o EmbeddedTypes({f \in seen : Promoted(f)}, current.depth + 1)
            /\ UNCHANGED <<graph, fields>>

\* dominantCandidate: the positions that may win among candidates of one depth.
dominantCandidate(at) ==
    IF Cardinality(at) = 1 THEN at
    ELSE LET tagged == {i \in at : candidates[i].tagged} IN IF Cardinality(tagged) = 1 THEN tagged ELSE {}

AtMinimumDepth(name) ==
    LET named == {i \in 1..Len(candidates) : candidates[i].name = name}
    IN  {i \in named : \A j \in named : candidates[i].depth <= candidates[j].depth}
SelectFields ==
    /\ queue = <<>> /\ fields.state = Building
    /\ LET names == {candidates[i].name : i \in 1..Len(candidates)}
           won == {n \in names : dominantCandidate(AtMinimumDepth(n)) # {}}
       IN  fields' = [state |-> "built", of |-> [n \in won |-> candidates[CHOOSE i \in dominantCandidate(AtMinimumDepth(n)) : TRUE].type]]
    /\ UNCHANGED <<graph, queue, visitedDepth, candidates>>

SchemaNext == ExploreType \/ SelectFields
SchemaSpec == SchemaInit /\ [][SchemaNext]_schemaVars

(***************************************************************************)
(* Go's rule, by the paths of embedded structs.                            *)
(***************************************************************************)
Embedded(t) == {f \in graph[t] : Considered(f) /\ Promoted(f)}
Paths(n) ==
    LET P[k \in 0..n] == IF k = 0 THEN {<<Root>>} ELSE UNION {{Append(p, f.type) : f \in Embedded(p[k])} : p \in P[k - 1]} IN P[n]
Holders(name, n) ==
    UNION {{[path |-> p, field |-> f] : f \in {g \in graph[p[n + 1]] : Considered(g) /\ ~Promoted(g) /\ NameOf(g) = name}} : p \in Paths(n)}
Shallowest(name) ==
    LET deep == {n \in 0..Cardinality(Types) : Holders(name, n) # {}}
    IN  IF deep = {} THEN {} ELSE Holders(name, CHOOSE n \in deep : \A m \in deep : n <= m)
Winner(name) ==
    LET all == Shallowest(name)
        tagged == {h \in all : h.field.tag # ""}
    IN  IF Cardinality(all) = 1 THEN all ELSE IF Cardinality(tagged) = 1 THEN tagged ELSE {}
AllNames == UNION {{NameOf(f) : f \in graph[t]} : t \in Types}

\* The schema has exactly the names that Go's promotion rule gives a single
\* field, each with that field's type, whatever structs embed whatever structs
\* and whether a type is reached twice at one depth.
SchemaIsPromotionRule ==
    fields.state = "built" =>
        /\ DOMAIN fields.of = {n \in AllNames : Winner(n) # {}}
        /\ \A n \in DOMAIN fields.of : \A h \in Winner(n) : fields.of[n] = h.field.type

\* The queue runs empty for types that embed one another, too: no type is
\* queued deeper than a path without repetition, and one step more, can be.
ExplorationIsBounded == \A i \in DOMAIN queue : queue[i].depth <= Cardinality(Types)
=============================================================================
