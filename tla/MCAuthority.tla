---------------------------- MODULE MCAuthority ----------------------------
(***************************************************************************)
(* AuthorityFence on small instances, and its recovery: one caller, the    *)
(* reconciler, only runs Recover, again and again, and its calls do not    *)
(* fail; the other callers behave and fail as they like, the business      *)
(* writer may stop anywhere.                                               *)
(***************************************************************************)
EXTENDS AuthorityFence, TLC

Symmetry == Permutations(Callers) \cup Permutations(Digests)

CONSTANT Reconciler

ASSUME ReconcilerAssumption == Reconciler \in Callers

RecoveryNext ==
    \/ Environment
    \/ \E o \in Ops : RecoverCall(Reconciler, o)
    \/ Step(Reconciler)
    \/ \E c \in Callers \ {Reconciler} : StartCall(c) \/ Step(c) \/ Fail(c)

RecoverySpec ==
    /\ Init /\ [][RecoveryNext]_vars
    /\ \A o \in Ops : SF_vars(RecoverCall(Reconciler, o))
    /\ WF_vars(Step(Reconciler))

(* The resolver still reports a prepared effect: only the business writer  *)
(* can finish the operation.                                               *)
WaitsForWriter(o) == effect[o].state = "prepared"

(* The provider aborted an operation whose effect was written in the       *)
(* meantime (AbortedHasNoEffect): Recover refuses it for good.             *)
Split(o) == prov[o].receipt.status = "aborted" /\ effect[o].state # "absent"

(* Recovery finishes what crashed or raced: a reserved operation ends with *)
(* a terminal row, wherever the calls of others stopped, unless it waits   *)
(* for the business writer or is split.                                    *)
RecoverySettles ==
    \A o \in Ops :
        prov[o].seq # 0 ~> Terminal(db[o]) \/ WaitsForWriter(o) \/ Split(o)

(* Finalize and Recover leave no outcome half recorded: once the provider  *)
(* has committed an operation its row is committed sooner or later, so no  *)
(* committed operation keeps the node control plane unready for ever.      *)
CommitReachesRow ==
    \A o \in Ops :
        prov[o].receipt.status = "committed" ~> db[o].receipt.status = "committed"

(* Recover finishes what crashed or raced, and leaves no outcome half      *)
(* recorded.                                                               *)
RecoveryFinishes ==
    /\ RecoverySettles
    /\ CommitReachesRow
=============================================================================
