--------------------------- MODULE EventDelivery ---------------------------
(***************************************************************************)
(* What the transactional outbox promises its callers: an event recorded   *)
(* by a business transaction takes effect at its consumer once, never      *)
(* without having been recorded, and in the end it does take effect.       *)
(***************************************************************************)
EXTENDS Naturals

CONSTANTS Events,      \* the events that can be recorded
          Publishable  \* the events whose type is registered

VARIABLES recorded,  \* events whose business transaction committed
          effects    \* how often the consumer's effect of an event committed

dvars == <<recorded, effects>>

DeliveryInit ==
    /\ recorded = {}
    /\ effects = [e \in Events |-> 0]

Record(e) ==
    /\ e \notin recorded
    /\ recorded' = recorded \cup {e}
    /\ UNCHANGED effects

TakeEffect(e) ==
    /\ e \in recorded
    /\ e \in Publishable
    /\ effects[e] = 0
    /\ effects' = [effects EXCEPT ![e] = 1]
    /\ UNCHANGED recorded

DeliveryNext == \E e \in Events : Record(e) \/ TakeEffect(e)

DeliverySafety == DeliveryInit /\ [][DeliveryNext]_dvars

DeliverySpec == DeliverySafety /\ \A e \in Events : WF_dvars(TakeEffect(e))
=============================================================================
