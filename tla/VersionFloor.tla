---------------------------- MODULE VersionFloor ----------------------------
(***************************************************************************)
(* What the client's Store promises, as MemoryStore implements it in one   *)
(* process: the staged version only grows, only the staged version is      *)
(* activated, and a reader is served the staged version or nothing.  A     *)
(* durable store also has a floor no crash takes the staged version below, *)
(* and an activated version is never above the floor.                      *)
(***************************************************************************)
EXTENDS Naturals

CONSTANT Versions

VARIABLES staged,      \* the highest version staged, 0 when there is none
          served,      \* the version a reader is given, 0 while there is none
          floor        \* no crash takes "staged" below this

vars == <<staged, served, floor>>

Init == staged = 0 /\ served = 0 /\ floor = 0

StageAndAdvance(v) ==
    /\ v > staged
    /\ staged' = v
    /\ served' = 0
    /\ UNCHANGED floor

(* The directory is synced.                                                *)
Harden ==
    /\ floor' \in floor..staged
    /\ UNCHANGED <<staged, served>>

Activate(v) ==
    /\ v = staged
    /\ v <= floor
    /\ served' = v
    /\ UNCHANGED <<staged, floor>>

Crash ==
    /\ staged' \in floor..staged
    /\ floor' = staged'
    /\ served' \in {0, staged'}

Next == \/ \E v \in Versions : StageAndAdvance(v) \/ Activate(v)
        \/ Harden
        \/ Crash

Spec == Init /\ [][Next]_vars

=============================================================================
