-------------------------- MODULE ClientStoreProofs --------------------------
(***************************************************************************)
(* For any number of processes, any versions and any number of crashes,    *)
(* power losses and failing calls, the client's store keeps what it        *)
(* accepted and never serves an older version than one it accepted before. *)
(***************************************************************************)
EXTENDS ClientStore, WellFoundedInduction, TLAPS

-----------------------------------------------------------------------------
(* What a process knows at each of its steps.                              *)
Knows(q) ==
    /\ q.at \in {"unlink", "sync stage"} => q.version \in stage
    /\ q.at = "staged" => q.version \in disk.stage
    /\ q.at \in {"activate", "mark", "sync active", "loaded"} => q.version \in accepted
    /\ q.at \in {"load", "loaded"} => \A v \in q.since : v <= q.version

(* The part of TypeOK the argument needs: "temps" has no role in it.       *)
Calls == [at : Places, version : Heights, flushed : BOOLEAN, since : SUBSET Heights]

Typed == accepted \subseteq Heights /\ proc \in [Processes -> Calls]

(* The entries: what is durable is visible, what was accepted is durable,  *)
(* and only what was accepted is ever marked active.                       *)
Directory ==
    /\ disk.stage \subseteq stage
    /\ accepted \subseteq disk.stage
    /\ active \subseteq accepted
    /\ disk.active \subseteq active

IInv == Typed /\ Directory /\ \A p \in Processes : Knows(proc[p])

-----------------------------------------------------------------------------
(* The variables of the directory do not change while a process moves.     *)
Quiet == UNCHANGED <<stage, active, disk, accepted>>

(* Whatever leaves the directory alone only has to account for the process *)
(* that moved.                                                             *)
LEMMA QuietStep ==
    ASSUME IInv, Typed', Quiet, NEW p \in Processes,
           \A r \in Processes \ {p} : proc'[r] = proc[r],
           Knows(proc'[p])
    PROVE  IInv'
<1>1. Directory'
  BY Zenon DEF Quiet, Directory, IInv
<1>2. \A r \in Processes : Knows(proc[r])'
  BY Zenon DEF Quiet, Knows, IInv
<1>. QED
  BY Zenon, <1>1, <1>2 DEF IInv

(* A call that returns leaves nothing to know.                             *)
LEMMA IdleKnows == Knows(Idle)
  BY Zenon DEF Knows, Idle

(* The program starts with nothing staged and every process idle.          *)
LEMMA InitIInv == Init => IInv
<1>. SUFFICES ASSUME Init PROVE IInv
  BY Zenon
<1>1. Idle \in Calls
  BY Zenon DEF Calls, Idle, Places, Heights
<1>2. Typed
  BY Zenon, <1>1 DEF Init, Typed
<1>3. Directory
  BY Zenon DEF Init, Directory
<1>4. \A p \in Processes : Knows(proc[p])
  BY Zenon, IdleKnows DEF Init
<1>. QED
  BY Zenon, <1>2, <1>3, <1>4 DEF IInv

(* The steps that move one process and change no entry of the directory.   *)
LEMMA MovesQuietly ==
    ASSUME IInv, NEW p \in Processes,
           \/ LoadHighest(p) \/ StageCheck(p) \/ CreateTemp(p) \/ WriteTemp(p)
           \/ RemoveTemp(p) \/ ActivateCheck(p) \/ LoadActiveBegin(p) \/ LoadMarker(p)
           \/ LoadActiveEnd(p) \/ Fail(p) \/ ProcessCrash(p)
    PROVE  Quiet /\ \A r \in Processes \ {p} : proc'[r] = proc[r]
<1>. USE DEF Quiet, Goto, Return
<1>0. proc \in [Processes -> Calls]
  BY Zenon DEF IInv, Typed
<1>1. CASE LoadHighest(p)
  BY Zenon, <1>0, <1>1 DEF LoadHighest
<1>2. CASE StageCheck(p)
  BY Zenon, <1>0, <1>2 DEF StageCheck
<1>3. CASE CreateTemp(p)
  BY Zenon, <1>0, <1>3 DEF CreateTemp
<1>4. CASE WriteTemp(p)
  BY Zenon, <1>0, <1>4 DEF WriteTemp
<1>5. CASE RemoveTemp(p)
  BY Zenon, <1>0, <1>5 DEF RemoveTemp
<1>6. CASE ActivateCheck(p)
  BY Zenon, <1>0, <1>6 DEF ActivateCheck
<1>7. CASE LoadActiveBegin(p)
  BY Zenon, <1>0, <1>7 DEF LoadActiveBegin
<1>8. CASE LoadMarker(p)
  BY Zenon, <1>0, <1>8 DEF LoadMarker
<1>9. CASE LoadActiveEnd(p)
  BY Zenon, <1>0, <1>9 DEF LoadActiveEnd
<1>10. CASE Fail(p)
  BY Zenon, <1>0, <1>10 DEF Fail
<1>11. CASE ProcessCrash(p)
  BY Zenon, <1>0, <1>11 DEF ProcessCrash
<1>. QED
  BY Zenon, <1>1, <1>2, <1>3, <1>4, <1>5, <1>6, <1>7, <1>8, <1>9, <1>10, <1>11

(* Where a step may leave the process that takes it.                       *)
LEMMA CallsOfMoves ==
    ASSUME proc \in [Processes -> Calls], NEW p \in Processes
    PROVE  /\ \A at \in Places : Goto(p, at) => proc' \in [Processes -> Calls]
           /\ Return(p) => proc' \in [Processes -> Calls]
           /\ \A c \in Calls : proc' = [proc EXCEPT ![p] = c] => proc' \in [Processes -> Calls]
<1>1. Idle \in Calls
  BY Zenon DEF Calls, Idle, Places, Heights
<1>2. \A at \in Places : Goto(p, at) => proc' \in [Processes -> Calls]
  BY DEF Goto, Calls
<1>. QED
  BY Zenon, <1>1, <1>2 DEF Return

(* Every step leaves each process at one of the places of the calls.       *)
LEMMA TypedStep == ASSUME IInv, Next PROVE Typed'
<1>0. Typed /\ Idle \in Calls
  BY Zenon DEF IInv, Calls, Idle, Places, Heights
<1>a. ASSUME NEW p \in Processes, UNCHANGED accepted,
             Return(p) \/ \E at \in Places : Goto(p, at)
      PROVE  Typed'
  BY Zenon, <1>0, <1>a, CallsOfMoves DEF Typed
<1>1. ASSUME NEW p \in Processes, LoadHighest(p) PROVE Typed'
  <2>1. PICK v \in Versions :
          proc' = [proc EXCEPT ![p] = [Idle EXCEPT !.at = "stage", !.version = v]]
    BY Zenon, <1>1 DEF LoadHighest
  <2>2. [Idle EXCEPT !.at = "stage", !.version = v] \in Calls
    BY Zenon DEF Idle, Calls, Places, Heights
  <2>. QED
    BY Zenon, <1>0, <1>1, <2>1, <2>2, CallsOfMoves DEF LoadHighest, Typed
<1>2. ASSUME NEW p \in Processes,
             \/ StageCheck(p) \/ CreateTemp(p) \/ LinkStage(p) \/ RemoveTemp(p)
             \/ SyncStage(p) \/ ActivateCheck(p) \/ LinkActive(p) \/ SyncActive(p)
             \/ LoadMarker(p) \/ LoadActiveEnd(p) \/ Fail(p) \/ ProcessCrash(p)
      PROVE  Typed'
  <2>1. /\ UNCHANGED accepted
        /\ Return(p) \/ \E at \in Places : Goto(p, at)
    BY <1>2, Zenon DEF StageCheck, CreateTemp, LinkStage, RemoveTemp, SyncStage, ActivateCheck,
       LinkActive, SyncActive, LoadMarker, LoadActiveEnd, Fail, ProcessCrash, Places
  <2>. QED
    BY Zenon, <1>a, <2>1
<1>3. ASSUME NEW p \in Processes, WriteTemp(p) PROVE Typed'
  BY <1>0, <1>3 DEF WriteTemp, Typed, Calls, Places
<1>4. ASSUME NEW p \in Processes, RecheckStage(p) PROVE Typed'
  <2>1. proc[p].version \in Heights
    BY Zenon, <1>0 DEF Typed, Calls
  <2>. QED
    BY Zenon, <1>0, <1>4, <2>1, CallsOfMoves DEF RecheckStage, Typed, Places
<1>5. ASSUME NEW p \in Processes, LoadActiveBegin(p) PROVE Typed'
  <2>1. PICK h \in Heights : proc' = [proc EXCEPT ![p] =
          [Idle EXCEPT !.at = "load", !.version = h, !.since = accepted]]
    BY Zenon, <1>5 DEF LoadActiveBegin
  <2>2. [Idle EXCEPT !.at = "load", !.version = h, !.since = accepted] \in Calls
    BY Zenon, <1>0 DEF Idle, Calls, Places, Typed
  <2>. QED
    BY Zenon, <1>0, <1>5, <2>1, <2>2, CallsOfMoves DEF LoadActiveBegin, Typed
<1>6. CASE PowerLoss
  BY Zenon, <1>0, <1>6 DEF PowerLoss, Typed
<1>. QED
  BY Zenon, <1>1, <1>2, <1>3, <1>4, <1>5, <1>6 DEF Next, StageAndAdvance, Activate, LoadActive

(* What the process that moves knows afterwards, when no entry changes.    *)
LEMMA QuietKnows ==
    ASSUME IInv, NEW p \in Processes,
           \/ LoadHighest(p) \/ StageCheck(p) \/ CreateTemp(p) \/ WriteTemp(p)
           \/ RemoveTemp(p) \/ ActivateCheck(p) \/ LoadActiveBegin(p) \/ LoadMarker(p)
           \/ LoadActiveEnd(p) \/ Fail(p) \/ ProcessCrash(p)
    PROVE  Knows(proc'[p])
<1>0. /\ proc \in [Processes -> Calls]
      /\ Knows(proc[p])
      /\ active \subseteq accepted
      /\ accepted \subseteq stage
  BY Zenon DEF IInv, Typed, Directory
<1>a. ASSUME Return(p) PROVE Knows(proc'[p])
  <2>1. proc'[p] = Idle
    BY Zenon, <1>0, <1>a DEF Return
  <2>. QED
    BY Zenon, <2>1, IdleKnows
<1>b. ASSUME NEW at \in Places, Goto(p, at)
      PROVE  proc'[p].at = at /\ proc'[p].version = proc[p].version /\ proc'[p].since = proc[p].since
  BY Zenon, <1>0, <1>b DEF Goto, Calls
<1>1. CASE LoadHighest(p)
  <2>1. PICK v \in Versions :
          proc' = [proc EXCEPT ![p] = [Idle EXCEPT !.at = "stage", !.version = v]]
    BY Zenon, <1>1 DEF LoadHighest
  <2>2. proc'[p].at = "stage"
    BY Zenon, <1>0, <2>1 DEF Idle
  <2>. QED
    BY Zenon, <2>2 DEF Knows
<1>2. CASE StageCheck(p)
  <2>1. Return(p) \/ Goto(p, "create")
    BY Zenon, <1>2 DEF StageCheck
  <2>. QED
    BY Zenon, <1>a, <1>b, <2>1 DEF Knows, Places
<1>3. CASE CreateTemp(p)
  BY Zenon, <1>3, <1>b DEF CreateTemp, Knows, Places
<1>4. CASE WriteTemp(p)
  <2>1. proc'[p].at = "link"
    BY Zenon, <1>0, <1>4 DEF WriteTemp, Calls
  <2>. QED
    BY Zenon, <2>1 DEF Knows
<1>5. CASE RemoveTemp(p)
  BY Zenon, <1>0, <1>5, <1>b DEF RemoveTemp, Knows, Places
<1>6. CASE ActivateCheck(p)
  <2>1. CASE Return(p)
    BY Zenon, <1>a, <2>1
  <2>2. CASE Goto(p, "mark")
    BY Zenon, <1>0, <1>6, <2>2, <1>b DEF ActivateCheck, Knows, Places
  <2>. QED
    BY Zenon, <1>6, <2>1, <2>2 DEF ActivateCheck
<1>7. CASE LoadActiveBegin(p)
  <2>1. PICK h \in Heights :
          /\ LoadHighestDirectory(h)
          /\ proc' = [proc EXCEPT ![p] =
               [Idle EXCEPT !.at = "load", !.version = h, !.since = accepted]]
    BY Zenon, <1>7 DEF LoadActiveBegin
  <2>2. /\ proc'[p].at = "load" /\ proc'[p].version = h /\ proc'[p].since = accepted
    BY Zenon, <1>0, <2>1 DEF Idle
  <2>3. \A v \in accepted : v <= h
    BY Zenon, <1>0, <2>1 DEF LoadHighestDirectory, Highest
  <2>. QED
    BY Zenon, <2>2, <2>3 DEF Knows
<1>8. CASE LoadMarker(p)
  <2>1. CASE Return(p)
    BY <1>a, <2>1
  <2>2. CASE proc[p].version \in active /\ Goto(p, "loaded")
    BY Zenon, <1>0, <1>8, <2>2, <1>b DEF LoadMarker, Knows, Places
  <2>. QED
    BY Zenon, <1>8, <2>1, <2>2 DEF LoadMarker
<1>9. CASE LoadActiveEnd(p) \/ Fail(p) \/ ProcessCrash(p)
  BY Zenon, <1>9, <1>a DEF LoadActiveEnd, Fail, ProcessCrash
<1>. QED
  BY Zenon, <1>1, <1>2, <1>3, <1>4, <1>5, <1>6, <1>7, <1>8, <1>9

(* A step that changes entries: the others still know what they knew when  *)
(* the visible, durable and accepted versions only grow.                   *)
LEMMA GrowingStep ==
    ASSUME IInv, Typed', Directory', NEW p \in Processes,
           stage \subseteq stage', disk.stage \subseteq disk'.stage, accepted \subseteq accepted',
           \A r \in Processes \ {p} : proc'[r] = proc[r],
           Knows(proc[p])'
    PROVE  IInv'
<1>1. ASSUME NEW r \in Processes \ {p} PROVE Knows(proc[r])'
  BY Zenon, <1>1 DEF Knows, IInv
<1>. QED
  BY Zenon, <1>1 DEF IInv

(* Every step preserves the invariant.                                     *)
LEMMA NextIInv == ASSUME IInv, [Next]_vars PROVE IInv'
<1>0. /\ proc \in [Processes -> Calls]
      /\ Directory
      /\ \A p \in Processes : Knows(proc[p])
  BY Zenon DEF IInv, Typed
<1>a. ASSUME NEW p \in Processes, NEW at \in Places, Goto(p, at)
      PROVE  /\ \A r \in Processes \ {p} : proc'[r] = proc[r]
             /\ proc'[p].at = at /\ proc'[p].version = proc[p].version
  BY Zenon, <1>0, <1>a DEF Goto, Calls
<1>b. ASSUME NEW p \in Processes, Return(p)
      PROVE  /\ \A r \in Processes \ {p} : proc'[r] = proc[r]
             /\ proc'[p].at = "idle"
  BY Zenon, <1>0, <1>b DEF Return, Idle
<1>1. ASSUME NEW p \in Processes,
             \/ LoadHighest(p) \/ StageCheck(p) \/ CreateTemp(p) \/ WriteTemp(p)
             \/ RemoveTemp(p) \/ ActivateCheck(p) \/ LoadActiveBegin(p) \/ LoadMarker(p)
             \/ LoadActiveEnd(p) \/ Fail(p) \/ ProcessCrash(p)
      PROVE  IInv'
  <2>1. Typed'
    BY Zenon, <1>1, TypedStep DEF Next, StageAndAdvance, Activate, LoadActive
  <2>. QED
    BY Zenon, <1>1, <2>1, MovesQuietly, QuietKnows, QuietStep
<1>2. ASSUME NEW p \in Processes, LinkStage(p) PROVE IInv'
  <2>1. Typed'
    BY Zenon, <1>2, TypedStep DEF Next, StageAndAdvance
  <2>2. Directory' /\ stage \subseteq stage' /\ UNCHANGED <<disk, accepted>>
    BY Zenon, <1>0, <1>2 DEF LinkStage, Directory
  <2>3. CASE Return(p)
    BY Zenon, <1>b, <2>1, <2>2, <2>3, GrowingStep DEF Knows
  <2>4. CASE Goto(p, "unlink") /\ proc[p].version \in stage'
    BY Zenon, <1>a, <2>1, <2>2, <2>4, GrowingStep DEF Knows, Places
  <2>. QED
    BY Zenon, <1>2, <2>3, <2>4 DEF LinkStage
<1>3. ASSUME NEW p \in Processes, SyncStage(p) PROVE IInv'
  <2>1. Typed'
    BY Zenon, <1>3, TypedStep DEF Next, StageAndAdvance
  <2>2. /\ Directory' /\ disk.stage \subseteq disk'.stage
        /\ disk'.stage = stage
        /\ UNCHANGED <<stage, accepted>>
    BY Zenon, <1>0, <1>3 DEF SyncStage, SyncDirectory, Directory
  <2>3. proc[p].version \in stage
    BY Zenon, <1>0, <1>3 DEF SyncStage, Knows
  <2>. QED
    BY Zenon, <1>3, <1>a, <2>1, <2>2, <2>3, GrowingStep DEF SyncStage, Knows, Places
<1>4. ASSUME NEW p \in Processes, RecheckStage(p) PROVE IInv'
  <2>1. Typed'
    BY Zenon, <1>4, TypedStep DEF Next, StageAndAdvance
  <2>2. proc[p].version \in disk.stage
    BY Zenon, <1>0, <1>4 DEF RecheckStage, Knows
  <2>3. Directory' /\ UNCHANGED <<stage, disk>> /\ accepted \subseteq accepted'
    BY Zenon, <1>0, <1>4, <2>2 DEF RecheckStage, Directory
  <2>4. CASE Return(p)
    BY Zenon, <1>b, <2>1, <2>3, <2>4, GrowingStep DEF Knows
  <2>5. CASE Goto(p, "activate") /\ proc[p].version \in accepted'
    BY Zenon, <1>a, <2>1, <2>3, <2>5, GrowingStep DEF Knows, Places
  <2>. QED
    BY Zenon, <1>4, <2>4, <2>5 DEF RecheckStage
<1>5. ASSUME NEW p \in Processes, LinkActive(p) PROVE IInv'
  <2>1. Typed'
    BY Zenon, <1>5, TypedStep DEF Next, Activate
  <2>2. proc[p].version \in accepted
    BY Zenon, <1>0, <1>5 DEF LinkActive, Knows
  <2>3. Directory' /\ UNCHANGED <<stage, disk, accepted>>
    BY Zenon, <1>0, <1>5, <2>2 DEF LinkActive, Directory
  <2>. QED
    BY Zenon, <1>5, <1>a, <2>1, <2>2, <2>3, GrowingStep DEF LinkActive, Knows, Places
<1>6. ASSUME NEW p \in Processes, SyncActive(p) PROVE IInv'
  <2>1. Typed'
    BY Zenon, <1>6, TypedStep DEF Next, Activate
  <2>2. Directory' /\ disk.stage \subseteq disk'.stage /\ UNCHANGED <<stage, accepted>>
    BY Zenon, <1>0, <1>6 DEF SyncActive, SyncDirectory, Directory
  <2>. QED
    BY Zenon, <1>6, <1>b, <2>1, <2>2, GrowingStep DEF SyncActive, Knows
<1>7. CASE PowerLoss
  <2>1. Typed'
    BY Zenon, <1>7, TypedStep DEF Next
  <2>2. Directory'
    BY Zenon, <1>0, <1>7 DEF PowerLoss, Directory
  <2>3. \A p \in Processes : proc'[p].at = "idle"
    BY Zenon, <1>7 DEF PowerLoss, Idle
  <2>4. \A p \in Processes : Knows(proc[p])'
    BY Zenon, <2>3 DEF Knows
  <2>. QED
    BY Zenon, <2>1, <2>2, <2>4 DEF IInv
<1>8. CASE UNCHANGED vars
  BY Zenon, <1>8 DEF vars, IInv, Typed, Directory, Knows
<1>. QED
  BY Zenon, <1>1, <1>2, <1>3, <1>4, <1>5, <1>6, <1>7, <1>8
     DEF Next, StageAndAdvance, Activate, LoadActive

(* The invariant holds in every state.                                     *)
THEOREM Inductive == Spec => []IInv
  BY InitIInv, NextIInv, PTL DEF Spec

(* A version StageAndAdvance reported as staged is never lost: process     *)
(* crashes, power losses and failing calls included.                       *)
THEOREM Durability == Spec => []AcceptedIsDurable
<1>1. IInv => AcceptedIsDurable
  BY Zenon DEF IInv, Directory, AcceptedIsDurable
<1>. QED
  BY <1>1, Inductive, PTL

(* LoadActive never returns a version older than one accepted before the   *)
(* call began.                                                             *)
THEOREM NoRollback == Spec => []LoadsNeverGoBack
<1>1. IInv => LoadsNeverGoBack
  BY Zenon DEF IInv, Knows, LoadsNeverGoBack
<1>. QED
  BY <1>1, Inductive, PTL

-----------------------------------------------------------------------------
(* The refinement of VersionFloor needs more: what a process stages is a   *)
(* version, whole before it is linked, and the directory has a highest     *)
(* version.                                                                *)
Stages(q) ==
    /\ q.at \in {"stage", "create", "write", "link"} => q.version \in Versions
    /\ q.at = "link" => q.flushed

Bounded(S) == S \subseteq Nat \ {0} /\ \E m \in Nat : \A v \in S : v <= m

FloorInv ==
    /\ Bounded(stage)
    /\ unsynced = {} /\ torn = {}
    /\ \A p \in Processes : Stages(proc[p])

(* Every set of naturals that is not empty has a least member.             *)
LEMMA LeastMember == ASSUME NEW T, T \subseteq Nat, T # {} PROVE \E x \in T : \A y \in T : x <= y
<1>1. PICK x \in T : \A y \in T : ~(<<y, x>> \in OpToRel(<, Nat))
  BY Zenon, NatLessThanWellFounded, WFMin
<1>2. \A y \in T : <<y, x>> \in Nat \X Nat /\ <<y, x>>[1] = y /\ <<y, x>>[2] = x
  BY Zenon
<1>3. \A y \in T : ~(y < x)
  BY Zenon, <1>1, <1>2 DEF OpToRel
<1>. QED
  BY <1>3

(* The highest of some bounded versions is the least of their bounds.      *)
LEMMA TopOf ==
    ASSUME NEW S, Bounded(S)
    PROVE  /\ Top(S) \in Nat
           /\ S = {} => Top(S) = 0
           /\ S # {} => Top(S) \in S
           /\ \A v \in S : v <= Top(S)
<1>1. CASE S = {}
  BY Zenon, <1>1 DEF Top
<1>2. CASE S # {}
  <2>. DEFINE U == {m \in Nat : \A v \in S : v <= m}
  <2>1. PICK m \in U : \A u \in U : m <= u
    BY Zenon, LeastMember DEF Bounded
  <2>2. PICK w \in S : w \in Nat /\ w # 0 /\ w <= m
    BY Zenon, <1>2, <2>1 DEF Bounded
  <2>3. m \in S
    <3>1. SUFFICES ASSUME m \notin S PROVE FALSE
      BY Zenon
    <3>2. m - 1 \in U
      BY <3>1, <2>1, <2>2 DEF Bounded
    <3>. QED
      BY <2>1, <3>2
  <2>4. \E v \in S : \A x \in S : x <= v
    BY Zenon, <2>1, <2>3
  <2>. QED
    BY Zenon, <1>2, <2>4 DEF Top, Bounded
<1>. QED
  BY Zenon, <1>1, <1>2

(* A set has one highest member, which is its Top.                         *)
LEMMA TopIs ==
    ASSUME NEW S, Bounded(S), NEW m \in S, \A v \in S : v <= m
    PROVE  Top(S) = m
<1>1. Top(S) \in S /\ m <= Top(S) /\ Top(S) \in Nat /\ m \in Nat
  BY Zenon, TopOf DEF Bounded
<1>. QED
  BY <1>1

(* Fewer versions have no higher one, and are bounded too.                 *)
LEMMA TopOfSubset ==
    ASSUME NEW S, NEW T, Bounded(S), T \subseteq S
    PROVE  Bounded(T) /\ Top(T) <= Top(S) /\ Top(T) \in Nat /\ Top(S) \in Nat
<1>1. Bounded(T)
  BY Zenon DEF Bounded
<1>2. Top(T) \in T \cup {0}
  BY Zenon, <1>1, TopOf
<1>. QED
  BY <1>1, <1>2, TopOf

(* One more version becomes the highest or leaves the highest as it is.    *)
LEMMA TopOfMore ==
    ASSUME NEW S, Bounded(S), NEW v \in Nat \ {0}
    PROVE  /\ Bounded(S \cup {v})
           /\ Top(S \cup {v}) = IF v > Top(S) THEN v ELSE Top(S)
<1>. DEFINE M == S \cup {v}
<1>0. Top(S) \in Nat /\ \A w \in S : w <= Top(S) /\ w \in Nat
  BY Zenon, TopOf DEF Bounded
<1>1. Bounded(M)
  <2>1. \A w \in M : w <= Top(S) + v
    BY <1>0
  <2>2. M \subseteq Nat \ {0} /\ Top(S) + v \in Nat
    BY <1>0 DEF Bounded
  <2>. QED
    BY Zenon, <2>1, <2>2 DEF Bounded
<1>2. CASE v > Top(S)
  <2>1. \A w \in M : w <= v
    BY <1>0, <1>2
  <2>. QED
    BY Zenon, <1>1, <1>2, <2>1, TopIs
<1>3. CASE ~(v > Top(S))
  <2>1. S # {} /\ Top(S) \in M
    BY <1>0, <1>3, TopOf
  <2>2. \A w \in M : w <= Top(S)
    BY <1>0, <1>3
  <2>. QED
    BY Zenon, <1>1, <1>3, <2>1, <2>2, TopIs
<1>. QED
  BY Zenon, <1>1, <1>2, <1>3

-----------------------------------------------------------------------------
(* Nothing is staged at first.                                             *)
LEMMA InitFloor == Init => FloorInv
<1>. SUFFICES ASSUME Init PROVE FloorInv
  BY Zenon
<1>1. Bounded(stage)
  BY Zenon DEF Init, Bounded
<1>2. \A p \in Processes : Stages(proc[p])
  BY Zenon DEF Init, Idle, Stages
<1>. QED
  BY Zenon, <1>1, <1>2 DEF Init, FloorInv

(* A step of one process that leaves no frame unsynced only has to account *)
(* for that process and for the stage files.                               *)
LEMMA FloorMove ==
    ASSUME FloorInv, NEW p \in Processes, UNCHANGED <<unsynced, torn>>, Bounded(stage'),
           \A r \in Processes \ {p} : proc'[r] = proc[r], Stages(proc'[p])
    PROVE  FloorInv'
<1>1. \A r \in Processes : Stages(proc[r])'
  BY Zenon DEF FloorInv, Stages
<1>2. Bounded(stage)'
  BY Zenon DEF Bounded
<1>. QED
  BY Zenon, <1>1, <1>2 DEF FloorInv

(* Every step keeps the frames whole and the stage files bounded.          *)
LEMMA NextFloor == ASSUME IInv, FloorInv, [Next]_vars PROVE FloorInv'
<1>0. /\ proc \in [Processes -> Calls]
      /\ Bounded(stage) /\ unsynced = {} /\ torn = {}
      /\ \A p \in Processes : Stages(proc[p])
  BY Zenon DEF IInv, Typed, FloorInv
<1>a. ASSUME NEW p \in Processes, NEW at \in Places, Goto(p, at)
      PROVE  /\ \A r \in Processes \ {p} : proc'[r] = proc[r]
             /\ proc'[p].at = at /\ proc'[p].version = proc[p].version
  BY Zenon, <1>0, <1>a DEF Goto, Calls
<1>b. ASSUME NEW p \in Processes, Return(p)
      PROVE  /\ \A r \in Processes \ {p} : proc'[r] = proc[r]
             /\ Stages(proc'[p])
  BY Zenon, <1>0, <1>b DEF Return, Idle, Stages
<1>1. ASSUME NEW p \in Processes, LoadHighest(p) PROVE FloorInv'
  <2>1. PICK v \in Versions :
          proc' = [proc EXCEPT ![p] = [Idle EXCEPT !.at = "stage", !.version = v]]
    BY Zenon, <1>1 DEF LoadHighest
  <2>2. /\ proc'[p].at = "stage" /\ proc'[p].version = v
        /\ \A r \in Processes \ {p} : proc'[r] = proc[r]
    BY Zenon, <1>0, <2>1 DEF Idle
  <2>3. Stages(proc'[p])
    BY Zenon, <2>2 DEF Stages
  <2>. QED
    BY Zenon, <1>0, <1>1, <2>2, <2>3, FloorMove DEF LoadHighest
<1>2. ASSUME NEW p \in Processes, NEW at \in Places,
             UNCHANGED <<stage, unsynced, torn>>, Goto(p, at),
             \/ at \notin {"stage", "create", "write", "link"}
             \/ at # "link" /\ proc[p].at \in {"stage", "create"}
      PROVE  FloorInv'
  <2>1. Stages(proc'[p])
    BY Zenon, <1>0, <1>2, <1>a DEF Stages
  <2>. QED
    BY Zenon, <1>0, <1>2, <1>a, <2>1, FloorMove
<1>3. ASSUME NEW p \in Processes, UNCHANGED <<stage, unsynced, torn>>, Return(p) PROVE FloorInv'
  BY Zenon, <1>0, <1>3, <1>b, FloorMove
<1>4. ASSUME NEW p \in Processes, StageCheck(p) \/ CreateTemp(p) \/ RemoveTemp(p) \/ SyncStage(p)
             \/ RecheckStage(p) \/ ActivateCheck(p) \/ LinkActive(p) \/ SyncActive(p)
             \/ LoadMarker(p) \/ LoadActiveEnd(p) \/ Fail(p) \/ ProcessCrash(p)
      PROVE  FloorInv'
  <2>1. UNCHANGED <<stage, unsynced, torn>>
    BY Zenon, <1>4 DEF StageCheck, CreateTemp, RemoveTemp, SyncStage, RecheckStage, ActivateCheck,
       LinkActive, SyncActive, LoadMarker, LoadActiveEnd, Fail, ProcessCrash
  <2>2. \/ Return(p)
        \/ \E at \in {"unlink", "sync stage", "staged", "activate", "mark", "sync active", "loaded"} :
             Goto(p, at)
        \/ \E at \in {"create", "write"} : Goto(p, at) /\ proc[p].at \in {"stage", "create"}
    BY <1>4, Zenon DEF StageCheck, CreateTemp, RemoveTemp, SyncStage, RecheckStage, ActivateCheck,
       LinkActive, SyncActive, LoadMarker, LoadActiveEnd, Fail, ProcessCrash
  <2>. QED
    BY Zenon, <1>2, <1>3, <2>1, <2>2 DEF Places
<1>5. ASSUME NEW p \in Processes, WriteTemp(p) PROVE FloorInv'
  <2>1. /\ \A r \in Processes \ {p} : proc'[r] = proc[r]
        /\ proc'[p].at = "link" /\ proc'[p].flushed = TRUE /\ proc'[p].version = proc[p].version
    BY Zenon, <1>0, <1>5 DEF WriteTemp, Calls
  <2>2. proc[p].version \in Versions
    BY Zenon, <1>0, <1>5 DEF WriteTemp, Stages
  <2>3. Stages(proc'[p])
    BY Zenon, <2>1, <2>2 DEF Stages
  <2>. QED
    BY Zenon, <1>0, <1>5, <2>1, <2>3, FloorMove DEF WriteTemp
<1>6. ASSUME NEW p \in Processes, LinkStage(p) PROVE FloorInv'
  <2>1. proc[p].version \in Nat \ {0} /\ proc[p].flushed
    BY Zenon, <1>0, <1>6, VersionsAssumption DEF LinkStage, Stages
  <2>2. Bounded(stage \cup {proc[p].version})
    BY Zenon, <1>0, <2>1, TopOfMore
  <2>3. UNCHANGED <<unsynced, torn>> /\ Bounded(stage')
    BY Zenon, <1>0, <1>6, <2>1, <2>2 DEF LinkStage
  <2>4. CASE Return(p)
    BY Zenon, <1>b, <2>3, <2>4, FloorMove
  <2>5. CASE Goto(p, "unlink")
    <3>1. Stages(proc'[p])
      BY Zenon, <1>a, <2>5 DEF Stages, Places
    <3>. QED
      BY Zenon, <1>a, <2>3, <2>5, <3>1, FloorMove DEF Places
  <2>. QED
    BY Zenon, <1>6, <2>4, <2>5 DEF LinkStage
<1>7. ASSUME NEW p \in Processes, LoadActiveBegin(p) PROVE FloorInv'
  <2>1. PICK h \in Heights : proc' = [proc EXCEPT ![p] =
          [Idle EXCEPT !.at = "load", !.version = h, !.since = accepted]]
    BY Zenon, <1>7 DEF LoadActiveBegin
  <2>2. proc'[p].at = "load" /\ \A r \in Processes \ {p} : proc'[r] = proc[r]
    BY Zenon, <1>0, <2>1 DEF Idle
  <2>3. Stages(proc'[p])
    BY Zenon, <2>2 DEF Stages
  <2>. QED
    BY Zenon, <1>0, <1>7, <2>2, <2>3, FloorMove DEF LoadActiveBegin
<1>8. CASE PowerLoss
  <2>1. stage' \subseteq stage
    BY Zenon, <1>8 DEF PowerLoss, IInv, Directory
  <2>2. Bounded(stage)'
    BY Zenon, <1>0, <2>1 DEF Bounded
  <2>3. unsynced' = {} /\ torn' = {}
    BY Zenon, <1>0, <1>8 DEF PowerLoss
  <2>4. \A p \in Processes : Stages(proc[p])'
    BY Zenon, <1>8 DEF PowerLoss, Idle, Stages
  <2>. QED
    BY Zenon, <2>2, <2>3, <2>4 DEF FloorInv
<1>9. CASE UNCHANGED vars
  BY Zenon, <1>9 DEF vars, FloorInv, Bounded, Stages
<1>. QED
  BY Zenon, <1>1, <1>4, <1>5, <1>6, <1>7, <1>8, <1>9 DEF Next, StageAndAdvance, Activate, LoadActive

(* No power loss ever leaves a stage file with an incomplete frame: the    *)
(* frame is synced before the file gets its name.                          *)
THEOREM FramesStayWhole == Spec => []FramesAreWhole
<1>1. FloorInv => FramesAreWhole
  BY Zenon DEF FloorInv, FramesAreWhole
<1>. QED
  BY <1>1, InitIInv, NextIInv, InitFloor, NextFloor, PTL DEF Spec

(* The promise of the store as a whole: accepted versions are durable, no  *)
(* load goes back behind one, and every frame is whole.                    *)
THEOREM StoreStaysSafe == Spec => []StoreIsSafe
<1>1. AcceptedIsDurable /\ LoadsNeverGoBack /\ FramesAreWhole => StoreIsSafe
  BY Zenon DEF StoreIsSafe
<1>. QED
  BY <1>1, Durability, NoRollback, FramesStayWhole, PTL

-----------------------------------------------------------------------------
(* The refinement.  The marked versions are accepted, the accepted ones    *)
(* durable, and the durable ones visible, so that the highest of each is   *)
(* at most the highest of the next.                                        *)
LEMMA Ordered ==
    ASSUME IInv, FloorInv
    PROVE  /\ Bounded(active) /\ Bounded(disk.stage) /\ Bounded(stage)
           /\ Top(active) \in Nat /\ Top(disk.stage) \in Nat /\ Top(stage) \in Nat
           /\ Top(active) <= Top(disk.stage) /\ Top(disk.stage) <= Top(stage)
<1>1. active \subseteq disk.stage /\ disk.stage \subseteq stage /\ Bounded(stage)
  BY Zenon DEF IInv, Directory, FloorInv
<1>2. Bounded(disk.stage) /\ Top(disk.stage) <= Top(stage) /\ Top(stage) \in Nat
  BY Zenon, <1>1, TopOfSubset
<1>3. Bounded(active) /\ Top(active) <= Top(disk.stage) /\ Top(active) \in Nat /\ Top(disk.stage) \in Nat
  BY Zenon, <1>1, <1>2, TopOfSubset
<1>. QED
  BY Zenon, <1>1, <1>2, <1>3

(* An empty directory is the initial store.                                *)
LEMMA InitRefines == Init => Floor!Init
<1>1. Top({}) = 0
  BY Zenon DEF Top
<1>. QED
  BY <1>1 DEF Init, Floor!Init

(* Linking a stage file above all others is StageAndAdvance of the store;  *)
(* linking one below them is a step it does not see.                       *)
LEMMA LinkStageRefines ==
    ASSUME IInv, FloorInv, NEW p \in Processes, LinkStage(p)
    PROVE  [Floor!Next]_(Floor!vars)
<1>. DEFINE v == proc[p].version
<1>0. v \in Versions /\ v \in Nat \ {0}
  BY Zenon, VersionsAssumption DEF FloorInv, Stages, LinkStage
<1>1. UNCHANGED <<active, disk>>
  BY Zenon DEF LinkStage
<1>2. CASE stage' = stage
  BY Zenon, <1>1, <1>2 DEF Floor!vars
<1>3. CASE stage' = stage \cup {v}
  <2>1. Top(stage') = IF v > Top(stage) THEN v ELSE Top(stage)
    BY Zenon, <1>0, <1>3, Ordered, TopOfMore
  <2>2. CASE v > Top(stage)
    <3>1. Top(stage') = v /\ Top(active) # v
      BY <1>0, <2>1, <2>2, Ordered
    <3>2. Floor!StageAndAdvance(v)
      BY Zenon, <1>1, <2>2, <3>1 DEF Floor!StageAndAdvance
    <3>. QED
      BY Zenon, <1>0, <3>2 DEF Floor!Next
  <2>3. CASE ~(v > Top(stage))
    <3>1. Top(stage') = Top(stage)
      BY Zenon, <2>1, <2>3
    <3>. QED
      BY Zenon, <1>1, <3>1 DEF Floor!vars
  <2>. QED
    BY Zenon, <2>2, <2>3
<1>. QED
  BY Zenon, <1>2, <1>3 DEF LinkStage

(* Syncing the directory raises the floor to what is staged.               *)
LEMMA SyncRefines ==
    ASSUME IInv, FloorInv, SyncDirectory, UNCHANGED <<stage, active>>
    PROVE  [Floor!Next]_(Floor!vars)
<1>1. disk'.stage = stage
  BY Zenon DEF SyncDirectory
<1>2. Top(stage) \in Top(disk.stage)..Top(stage)
  BY Ordered
<1>3. Floor!Harden
  BY Zenon, <1>1, <1>2 DEF Floor!Harden
<1>. QED
  BY Zenon, <1>3 DEF Floor!Next

(* Linking the marker of the highest version activates it: it was accepted *)
(* before, so the floor has reached it.  A lower marker changes nothing a  *)
(* reader is given.                                                        *)
LEMMA LinkActiveRefines ==
    ASSUME IInv, FloorInv, NEW p \in Processes, LinkActive(p)
    PROVE  [Floor!Next]_(Floor!vars)
<1>. DEFINE v == proc[p].version
<1>1. UNCHANGED <<stage, disk>> /\ active' = active \cup {v}
  BY Zenon DEF LinkActive
<1>2. v \in disk.stage /\ v \in stage /\ v \in Nat \ {0}
  <2>1. v \in accepted
    BY Zenon DEF LinkActive, IInv, Knows
  <2>. QED
    BY Zenon, <2>1 DEF IInv, Directory, FloorInv, Bounded
<1>3. v <= Top(disk.stage) /\ v <= Top(stage)
  BY Zenon, <1>2, Ordered, TopOf
<1>4. Top(active') = IF v > Top(active) THEN v ELSE Top(active)
  BY Zenon, <1>1, <1>2, Ordered, TopOfMore
<1>5. CASE v = Top(stage)
  <2>1. Top(active') = v
    BY <1>2, <1>4, <1>5, Ordered
  <2>2. v \in Versions
    BY Zenon, <1>2 DEF IInv, Typed, Calls, Heights
  <2>3. Floor!Activate(v)
    BY Zenon, <1>1, <1>3, <1>5, <2>1 DEF Floor!Activate
  <2>. QED
    BY Zenon, <2>2, <2>3 DEF Floor!Next
<1>6. CASE v # Top(stage)
  <2>1. Top(active') = Top(stage) <=> Top(active) = Top(stage)
    BY <1>2, <1>3, <1>4, <1>6, Ordered
  <2>. QED
    BY Zenon, <1>1, <2>1 DEF Floor!vars
<1>. QED
  BY Zenon, <1>5, <1>6

(* A power loss keeps what was durable, and what it keeps is durable.      *)
LEMMA PowerLossRefines ==
    ASSUME IInv, FloorInv, PowerLoss
    PROVE  [Floor!Next]_(Floor!vars)
<1>1. disk.stage \subseteq stage' /\ stage' \subseteq stage /\ disk'.stage = stage'
  BY Zenon DEF PowerLoss, IInv, Directory
<1>2. Bounded(stage') /\ Top(stage') <= Top(stage) /\ Top(stage') \in Nat
  BY Zenon, <1>1, TopOfSubset DEF FloorInv
<1>3. Top(disk.stage) <= Top(stage')
  BY Zenon, <1>1, <1>2, TopOfSubset
<1>4. Top(stage') \in Top(disk.stage)..Top(stage)
  BY <1>2, <1>3, Ordered
<1>5. Floor!Crash
  BY Zenon, <1>1, <1>4 DEF Floor!Crash
<1>. QED
  BY Zenon, <1>5 DEF Floor!Next

(* Every step is a step of the store, or one it does not see.              *)
LEMMA StepRefines == ASSUME IInv, FloorInv, [Next]_vars PROVE [Floor!Next]_(Floor!vars)
<1>1. CASE UNCHANGED <<stage, active, disk>>
  BY Zenon, <1>1 DEF Floor!vars
<1>2. ASSUME NEW p \in Processes,
             \/ LoadHighest(p) \/ StageCheck(p) \/ CreateTemp(p) \/ WriteTemp(p)
             \/ RemoveTemp(p) \/ RecheckStage(p) \/ ActivateCheck(p) \/ LoadActiveBegin(p)
             \/ LoadMarker(p) \/ LoadActiveEnd(p) \/ Fail(p) \/ ProcessCrash(p)
      PROVE  UNCHANGED <<stage, active, disk>>
  BY Zenon, <1>2 DEF LoadHighest, StageCheck, CreateTemp, WriteTemp, RemoveTemp, RecheckStage, ActivateCheck,
     LoadActiveBegin, LoadMarker, LoadActiveEnd, Fail, ProcessCrash
<1>3. ASSUME NEW p \in Processes, SyncStage(p) \/ SyncActive(p) PROVE [Floor!Next]_(Floor!vars)
  BY Zenon, <1>3, SyncRefines DEF SyncStage, SyncActive
<1>4. CASE UNCHANGED vars
  BY Zenon, <1>1, <1>4 DEF vars
<1>. QED
  BY Zenon, <1>1, <1>2, <1>3, <1>4, LinkStageRefines, LinkActiveRefines, PowerLossRefines
     DEF Next, StageAndAdvance, Activate, LoadActive

(* The directory implements the monotonic store, whatever the processes,   *)
(* crashes and power losses: the staged version only grows but for a power *)
(* loss, which never takes it below the floor, and only a durable version  *)
(* is served.                                                              *)
THEOREM DirectoryImplementsFloor == Spec => ImplementsFloor
<1>1. Spec => [](IInv /\ FloorInv)
  BY InitIInv, NextIInv, InitFloor, NextFloor, PTL DEF Spec
<1>. QED
  BY <1>1, InitRefines, StepRefines, PTL DEF Spec, ImplementsFloor, Floor!Spec

=============================================================================
