---------------------------- MODULE ExactlyOnce ----------------------------
(***************************************************************************)
(* What an idempotency key promises a caller that retries: the command is  *)
(* executed once, and every answer to its retries is the answer of that    *)
(* execution.                                                              *)
(***************************************************************************)
CONSTANTS Keys, Digests, Bodies

VARIABLES executed,  \* the executions of each key: their digest and body
          answered   \* the answers given to callers

evars == <<executed, answered>>

ExactlyOnceInit ==
    /\ executed = [k \in Keys |-> {}]
    /\ answered = {}

Execute(k, d, b) ==
    /\ executed[k] = {}
    /\ executed' = [executed EXCEPT ![k] = {[digest |-> d, body |-> b]}]
    /\ UNCHANGED answered

Answer(k, d, b) ==
    /\ [digest |-> d, body |-> b] \in executed[k]
    /\ answered' = answered \cup {[key |-> k, digest |-> d, body |-> b]}
    /\ UNCHANGED executed

ExactlyOnceNext ==
    \E k \in Keys, d \in Digests, b \in Bodies : Execute(k, d, b) \/ Answer(k, d, b)

ExactlyOnceSpec == ExactlyOnceInit /\ [][ExactlyOnceNext]_evars
=============================================================================
