--------------------------- MODULE SensitiveFields ---------------------------
(***************************************************************************)
(* The protector of sensitive fields: calls that compute digests, encrypt  *)
(* and decrypt under a readers-writer lock while the process closes it and *)
(* erases its keys, and the decorator that observes every call.            *)
(*                                                                         *)
(* Bytes are small numbers; a digest or a ciphertext is the key and the    *)
(* bytes that went into it, so that two are equal when these are. A lookup *)
(* has no error: its failure is the zero digest.                           *)
(***************************************************************************)
EXTENDS Integers, Sequences, FiniteSets

CONSTANTS
    Calls,
    Domains, Plaintexts,    \* sequences of bytes
    Old,                    \* fields that earlier keys protected
    MaxCloses

VARIABLES
    key, closed,        \* the keys in memory
    readers, writer,    \* the lock; writer is none, waiting or held
    closes, call,
    stored,             \* fields encrypted so far, with what they hold
    digests             \* digests answered so far, with what they are of
vars == <<key, closed, readers, writer, closes, call, stored, digests>>

keyVersion == 1
NoField == [version |-> 0, key |-> "none", aad |-> <<>>, plain |-> <<>>]
NoResult == [error |-> "none", value |-> <<>>]
Idle == [pc |-> "idle", op |-> "none", domain |-> <<>>, value |-> <<>>, field |-> NoField, result |-> NoResult, events |-> <<>>]

Init ==
    /\ key = "current" /\ closed = FALSE /\ readers = {} /\ writer = "none" /\ closes = 0
    /\ call = [c \in Calls |-> Idle] /\ stored = Old /\ digests = {}

validDomain(domain) == domain # <<>> /\ \A i \in DOMAIN domain : domain[i] # 0
LookupMaterial(domain, canonical) == domain \o <<0>> \o canonical
fieldAAD(domain, version) == domain \o <<0, version>>

Fails(error) == [error |-> error, value |-> <<>>]
Gives(value) == [error |-> "none", value |-> value]

\* observedReason, and the event of a call by the failure of its result.
observedReason(error) == IF error = "closed" THEN "key_unavailable" ELSE "invalid"
Event(op, result) ==
    IF result.error = "none" THEN [operation |-> op, result |-> "success", reason |-> "none"]
    ELSE [operation |-> op, result |-> "failure", reason |-> IF op = "lookup" THEN "invalid" ELSE observedReason(result.error)]

\* The decorator's deferred function: it collapses a failure, and reports to an observer that may panic.
Observed(c, result) ==
    LET shown == IF result.error = "none" THEN result ELSE Fails("protection failed")
    IN  \E heard \in BOOLEAN :
            call' = [call EXCEPT ![c].pc = "done", ![c].result = shown,
                        ![c].events = @ \o <<[heard |-> heard, event |-> Event(call[c].op, result)]>>]

\* The arguments of a call; a decryption is of a stored field, in any domain.
Begin(c) ==
    /\ call[c].pc = "idle"
    /\ \E domain \in Domains :
        \/ \E op \in {"lookup", "encrypt"}, value \in Plaintexts :
            call' = [call EXCEPT ![c] = [Idle EXCEPT !.pc = "begun", !.op = op, !.domain = domain, !.value = value]]
        \/ \E field \in stored :
            call' = [call EXCEPT ![c] = [Idle EXCEPT !.pc = "begun", !.op = "decrypt", !.domain = domain, !.field = field]]
    /\ UNCHANGED <<key, closed, readers, writer, closes, stored, digests>>

Refuse(c) ==
    /\ call[c].pc = "begun" /\ ~(validDomain(call[c].domain) /\ (call[c].op = "decrypt" \/ call[c].value # <<>>))
    /\ Observed(c, Fails("invalid argument"))
    /\ UNCHANGED <<key, closed, readers, writer, closes, stored, digests>>

\* A waiting writer keeps new readers out.
RLock(c) ==
    /\ call[c].pc = "begun" /\ validDomain(call[c].domain) /\ (call[c].op = "decrypt" \/ call[c].value # <<>>)
    /\ writer = "none" /\ readers' = readers \cup {c} /\ call' = [call EXCEPT ![c].pc = "locked"]
    /\ UNCHANGED <<key, closed, writer, closes, stored, digests>>

Computed(c, result) == call' = [call EXCEPT ![c].pc = "computed", ![c].result = result]

LookupDigestAnyway(c) ==
    LET digest == <<key, LookupMaterial(call[c].domain, call[c].value)>>
    IN  /\ Computed(c, Gives(call[c].value))
        /\ digests' = digests \cup {[digest |-> digest, domain |-> call[c].domain, value |-> call[c].value]}
LookupDigest(c) ==
    LET digest == <<key, LookupMaterial(call[c].domain, call[c].value)>>
    IN  IF closed
          THEN Computed(c, Fails("closed")) /\ UNCHANGED digests
          ELSE /\ Computed(c, Gives(call[c].value))
               /\ digests' = digests \cup {[digest |-> digest, domain |-> call[c].domain, value |-> call[c].value]}

Encrypt(c) ==
    \/ closed /\ Computed(c, Fails("closed")) /\ UNCHANGED stored
    \/ ~closed /\ Computed(c, Fails("protection failed")) /\ UNCHANGED stored
    \/ /\ ~closed /\ Computed(c, Gives(call[c].value))
       /\ stored' = stored \cup {[version |-> keyVersion, key |-> key, aad |-> fieldAAD(call[c].domain, keyVersion), plain |-> call[c].value]}

Decrypt(c) ==
    LET field == call[c].field
    IN  IF closed THEN Computed(c, Fails("closed"))
        ELSE IF field.version # keyVersion \/ field.key # key \/ field.aad # fieldAAD(call[c].domain, field.version)
          THEN Computed(c, Fails("protection failed"))
          ELSE Computed(c, Gives(field.plain))

Compute(c) ==
    /\ call[c].pc = "locked"
    /\ \/ call[c].op = "lookup" /\ LookupDigest(c) /\ UNCHANGED stored
       \/ call[c].op = "encrypt" /\ Encrypt(c) /\ UNCHANGED digests
       \/ call[c].op = "decrypt" /\ Decrypt(c) /\ UNCHANGED <<stored, digests>>
       \/ Computed(c, Fails("panic")) /\ UNCHANGED <<stored, digests>>
    /\ UNCHANGED <<key, closed, readers, writer, closes>>

\* The deferred unlock of the provider runs before the deferred function of the decorator.
Release(c) ==
    /\ call[c].pc = "computed" /\ readers' = readers \ {c} /\ Observed(c, call[c].result)
    /\ UNCHANGED <<key, closed, writer, closes, stored, digests>>

CloseBegin ==
    /\ writer = "none" /\ closes < MaxCloses /\ writer' = "waiting" /\ closes' = closes + 1
    /\ UNCHANGED <<key, closed, readers, call, stored, digests>>
CloseLocked ==
    /\ writer = "waiting" /\ readers = {} /\ writer' = "held"
    /\ UNCHANGED <<key, closed, readers, closes, call, stored, digests>>
Erase == closed' = TRUE /\ key' = "erased"
CloseEnd ==
    /\ writer = "held" /\ writer' = "none"
    /\ IF closed THEN UNCHANGED <<key, closed>> ELSE Erase
    /\ UNCHANGED <<readers, closes, call, stored, digests>>

Next ==
    \/ \E c \in Calls : Begin(c) \/ Refuse(c) \/ RLock(c) \/ Compute(c) \/ Release(c)
    \/ CloseBegin \/ CloseLocked \/ CloseEnd
Spec == Init /\ [][Next]_vars
Fairness ==
    /\ \A c \in Calls : WF_vars(Refuse(c) \/ RLock(c) \/ Compute(c) \/ Release(c))
    /\ WF_vars(CloseLocked \/ CloseEnd)
FairSpec == Spec /\ Fairness

\* Erasing happens only while nobody else holds the lock, and a call that is not computing holds none.
TypeOK ==
    /\ writer \in {"none", "waiting", "held"} /\ (writer = "held" => readers = {})
    /\ readers = {c \in Calls : call[c].pc \in {"locked", "computed"}}
    /\ (key = "erased") = closed

\* No digest is answered and no field is stored under keys that were already erased, whatever a
\* call had checked before the protector was closed.
NothingUnderErasedKeys ==
    /\ \A d \in digests : d.digest[1] = "current"
    /\ \A f \in stored : f.key # "erased"

\* Equal digests are of the same value in the same domain: no value of one domain looks up a row
\* that another domain stored.
DigestsSeparateDomains == \A d, e \in digests : d.digest = e.digest => (d.domain = e.domain /\ d.value = e.value)

\* What a decryption answers was encrypted for the domain that asks, by a key of this version.
OpensOnlyItsDomain ==
    \A c \in Calls : (call[c].pc = "done" /\ call[c].op = "decrypt" /\ call[c].result.error = "none") =>
        \E f \in stored : f.aad = fieldAAD(call[c].domain, keyVersion) /\ f.plain = call[c].result.value

\* A call is observed once, with the result that its caller sees.
ObservedOnce ==
    \A c \in Calls : call[c].pc = "done" =>
        /\ Len(call[c].events) = 1
        /\ (call[c].events[1].event.result = "success") = (call[c].result.error = "none")
        /\ (call[c].events[1].event.reason = "none") = (call[c].result.error = "none")

\* Closing is never starved by calls: it waits for those that hold the lock and keeps others out.
CloseFinishes == (writer = "waiting") ~> (closed /\ writer = "none")
=============================================================================
