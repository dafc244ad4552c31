----------------------------- MODULE ClientStore -----------------------------
(***************************************************************************)
(* The DirectoryStore of the trust client: the directory of one audience,  *)
(* shared by processes that verify bundles and read the active one.  A     *)
(* step is one system call, or a run of calls no other process can tell    *)
(* apart from one.  The mutex of a process orders its own threads only,    *)
(* so the threads that share a store are processes here.                   *)
(*                                                                         *)
(* "stage" and "active" are the entries every process sees; "disk" holds   *)
(* those the last sync of the directory made durable.  A process may crash *)
(* between two calls, and a power loss ends all of them and keeps any of   *)
(* the entries that were not synced.                                       *)
(***************************************************************************)
EXTENDS Naturals, FiniteSets

CONSTANTS Processes,
          Versions,    \* the bundle versions that may be verified
          MaxEntries,  \* maximumStateEntries
          MaxFaults    \* bound on crashes, power losses and failing calls

ASSUME VersionsAssumption == Versions \subseteq Nat \ {0}

VARIABLES stage,       \* versions with a stage-<version>.bin
          active,      \* versions with an active-<version>.bin
          temps,       \* how many .stage-* files are in the directory
          disk,        \* the durable entries
          unsynced,    \* stage files whose frame may still be in memory only
          torn,        \* stage files whose frame a power loss left incomplete
          proc,        \* where each process is
          accepted,    \* history: versions StageAndAdvance returned success for
          faults

vars == <<stage, active, temps, disk, unsynced, torn, proc, accepted, faults>>

Idle == [at |-> "idle", version |-> 0, flushed |-> FALSE, since |-> {}]

-----------------------------------------------------------------------------
(* Reading the directory                                                   *)

Entries == Cardinality(stage) + Cardinality(active) + temps

Readable == Entries <= MaxEntries

(* loadHighestVersion                                                      *)
Highest(h, S) ==
    \/ S = {} /\ h = 0
    \/ h \in S /\ \A v \in S : v <= h

(* loadHighestDirectory also decodes the frame of the highest version.     *)
LoadHighestDirectory(h) ==
    /\ Readable
    /\ Highest(h, stage)
    /\ h \notin torn

Heights == Versions \cup {0}

Goto(p, at) == proc' = [proc EXCEPT ![p].at = at]

Return(p) == proc' = [proc EXCEPT ![p] = Idle]

Init ==
    /\ stage = {} /\ active = {} /\ temps = 0
    /\ disk = [stage |-> {}, active |-> {}]
    /\ unsynced = {} /\ torn = {}
    /\ proc = [p \in Processes |-> Idle]
    /\ accepted = {}
    /\ faults = 0

-----------------------------------------------------------------------------
(* VerifyAndStage has verified a bundle; LoadHighest refuses a rollback.   *)
LoadHighest(p) ==
    /\ proc[p].at = "idle"
    /\ \E h \in Heights, v \in Versions :
         /\ LoadHighestDirectory(h)
         /\ v > h
         /\ proc' = [proc EXCEPT ![p] = [Idle EXCEPT !.at = "stage", !.version = v]]
    /\ UNCHANGED <<stage, active, temps, disk, unsynced, torn, accepted, faults>>

-----------------------------------------------------------------------------
(* StageAndAdvance                                                         *)

StageCheck(p) ==
    /\ proc[p].at = "stage"
    /\ \/ \E h \in Heights :
            /\ LoadHighestDirectory(h)
            /\ IF proc[p].version > h THEN Goto(p, "create") ELSE Return(p)
       \/ /\ \A h \in Heights : ~LoadHighestDirectory(h)
          /\ Return(p)
    /\ UNCHANGED <<stage, active, temps, disk, unsynced, torn, accepted, faults>>

CreateTemp(p) ==
    /\ proc[p].at = "create"
    /\ temps' = temps + 1
    /\ Goto(p, "write")
    /\ UNCHANGED <<stage, active, disk, unsynced, torn, accepted, faults>>

(* Write the frame, sync and close the file.                               *)
WriteTemp(p) ==
    /\ proc[p].at = "write"
    /\ proc' = [proc EXCEPT ![p].at = "link", ![p].flushed = TRUE]
    /\ UNCHANGED <<stage, active, temps, disk, unsynced, torn, accepted, faults>>

LinkStage(p) ==
    LET v == proc[p].version IN
    /\ proc[p].at = "link"
    /\ \/ /\ v \in stage
          /\ temps' = temps - 1
          /\ Return(p)
          /\ UNCHANGED <<stage, unsynced>>
       \/ /\ v \notin stage
          /\ stage' = stage \cup {v}
          /\ unsynced' = IF proc[p].flushed THEN unsynced ELSE unsynced \cup {v}
          /\ Goto(p, "unlink")
          /\ UNCHANGED temps
    /\ UNCHANGED <<active, disk, torn, accepted, faults>>

RemoveTemp(p) ==
    /\ proc[p].at = "unlink"
    /\ temps' = temps - 1
    /\ Goto(p, "sync stage")
    /\ UNCHANGED <<stage, active, disk, unsynced, torn, accepted, faults>>

SyncDirectory == disk' = [stage |-> stage, active |-> active]

(* Mutant: the directory is not synced.                                    *)
SyncStageSkipped(p) ==
    /\ proc[p].at = "sync stage"
    /\ Goto(p, "staged")
    /\ UNCHANGED <<stage, active, temps, disk, unsynced, torn, accepted, faults>>

SyncStage(p) ==
    /\ proc[p].at = "sync stage"
    /\ SyncDirectory
    /\ Goto(p, "staged")
    /\ UNCHANGED <<stage, active, temps, unsynced, torn, accepted, faults>>

(* A higher version was staged meanwhile, or the directory cannot be read: *)
(* the call fails though its stage file stays.                             *)
RecheckStage(p) ==
    /\ proc[p].at = "staged"
    /\ \/ /\ LoadHighestDirectory(proc[p].version)
          /\ accepted' = accepted \cup {proc[p].version}
          /\ Goto(p, "activate")
       \/ /\ ~LoadHighestDirectory(proc[p].version)
          /\ Return(p)
          /\ UNCHANGED accepted
    /\ UNCHANGED <<stage, active, temps, disk, unsynced, torn, faults>>

-----------------------------------------------------------------------------
(* Activate                                                                *)

ActivateCheck(p) ==
    /\ proc[p].at = "activate"
    /\ IF LoadHighestDirectory(proc[p].version) THEN Goto(p, "mark") ELSE Return(p)
    /\ UNCHANGED <<stage, active, temps, disk, unsynced, torn, accepted, faults>>

(* A marker that is already there has the same frame.                      *)
LinkActive(p) ==
    /\ proc[p].at = "mark"
    /\ active' = active \cup {proc[p].version}
    /\ Goto(p, "sync active")
    /\ UNCHANGED <<stage, temps, disk, unsynced, torn, accepted, faults>>

(* The last read only decides between success and ErrRollback.             *)
SyncActive(p) ==
    /\ proc[p].at = "sync active"
    /\ SyncDirectory
    /\ Return(p)
    /\ UNCHANGED <<stage, active, temps, unsynced, torn, accepted, faults>>

-----------------------------------------------------------------------------
(* LoadActive reads the directory twice; "since" is what had been accepted *)
(* when the call began.                                                    *)

LoadActiveBegin(p) ==
    /\ proc[p].at = "idle"
    /\ \E h \in Heights :
         /\ LoadHighestDirectory(h)
         /\ proc' = [proc EXCEPT ![p] =
                       [Idle EXCEPT !.at = "load", !.version = h, !.since = accepted]]
    /\ UNCHANGED <<stage, active, temps, disk, unsynced, torn, accepted, faults>>

(* Mutant: a marker below the highest stage is served.                     *)
LoadAnyMarker(p) ==
    /\ proc[p].at = "load"
    /\ \/ \E a \in active :
            /\ Highest(a, active)
            /\ proc' = [proc EXCEPT ![p].at = "loaded", ![p].version = a]
       \/ /\ active = {} \/ ~Readable
          /\ Return(p)
    /\ UNCHANGED <<stage, active, temps, disk, unsynced, torn, accepted, faults>>

LoadMarker(p) ==
    LET a == proc[p].version IN
    /\ proc[p].at = "load"
    /\ \/ /\ Readable /\ a \in active /\ Highest(a, active)
          /\ Goto(p, "loaded")
       \/ /\ ~(Readable /\ a \in active /\ Highest(a, active))
          /\ Return(p)
    /\ UNCHANGED <<stage, active, temps, disk, unsynced, torn, accepted, faults>>

LoadActiveEnd(p) ==
    /\ proc[p].at = "loaded"
    /\ Return(p)
    /\ UNCHANGED <<stage, active, temps, disk, unsynced, torn, accepted, faults>>

-----------------------------------------------------------------------------
(* Faults                                                                  *)

HasTemp(p) == proc[p].at \in {"write", "link", "unlink"}

(* A system call fails: the call returns ErrStore and removes its file.    *)
Fail(p) ==
    /\ proc[p].at \in {"create", "write", "link", "unlink", "sync stage", "mark", "sync active"}
    /\ faults < MaxFaults
    /\ faults' = faults + 1
    /\ temps' = IF HasTemp(p) THEN temps - 1 ELSE temps
    /\ Return(p)
    /\ UNCHANGED <<stage, active, disk, unsynced, torn, accepted>>

ProcessCrash(p) ==
    /\ proc[p].at # "idle"
    /\ faults < MaxFaults
    /\ faults' = faults + 1
    /\ Return(p)
    /\ UNCHANGED <<stage, active, temps, disk, unsynced, torn, accepted>>

PowerLoss ==
    /\ faults < MaxFaults
    /\ faults' = faults + 1
    /\ stage' \in {disk.stage \cup S : S \in SUBSET (stage \ disk.stage)}
    /\ active' \in {disk.active \cup S : S \in SUBSET (active \ disk.active)}
    /\ temps' \in 0..temps
    /\ disk' = [stage |-> stage', active |-> active']
    /\ torn' = torn \cup (unsynced \cap stage')
    /\ unsynced' = {}
    /\ proc' = [p \in Processes |-> Idle]
    /\ UNCHANGED accepted

-----------------------------------------------------------------------------
StageAndAdvance(p) ==
    \/ StageCheck(p) \/ CreateTemp(p) \/ WriteTemp(p) \/ LinkStage(p) \/ RemoveTemp(p)
    \/ SyncStage(p) \/ RecheckStage(p)

Activate(p) == ActivateCheck(p) \/ LinkActive(p) \/ SyncActive(p)

LoadActive(p) == LoadActiveBegin(p) \/ LoadMarker(p) \/ LoadActiveEnd(p)

Next ==
    \/ \E p \in Processes :
         \/ LoadHighest(p) \/ StageAndAdvance(p) \/ Activate(p) \/ LoadActive(p)
         \/ Fail(p) \/ ProcessCrash(p)
    \/ PowerLoss

Spec == Init /\ [][Next]_vars

(* A call that has begun goes on to its end.                               *)
FairSpec ==
    /\ Spec
    /\ \A p \in Processes :
         /\ WF_vars(StageAndAdvance(p))
         /\ WF_vars(Activate(p))
         /\ WF_vars(LoadMarker(p) \/ LoadActiveEnd(p))

-----------------------------------------------------------------------------
(* Properties                                                              *)

Places == {"idle", "stage", "create", "write", "link", "unlink", "sync stage", "staged",
           "activate", "mark", "sync active", "load", "loaded"}

TypeOK ==
    /\ stage \subseteq Versions /\ active \subseteq Versions
    /\ temps \in Nat
    /\ disk \in [stage : SUBSET Versions, active : SUBSET Versions]
    /\ unsynced \subseteq Versions /\ torn \subseteq Versions
    /\ proc \in [Processes -> [at : Places, version : Heights, flushed : BOOLEAN,
                               since : SUBSET Versions]]
    /\ accepted \subseteq Versions
    /\ faults \in Nat

(* A version StageAndAdvance reported as staged is on disk for good: no    *)
(* crash of a process or of the machine takes it away, so the client never *)
(* accepts it, or an older one, again.                                     *)
AcceptedIsDurable == accepted \subseteq disk.stage

(* LoadActive never returns a version older than one accepted before the   *)
(* call began, by whatever process and before whatever crash, and returns  *)
(* only a version that was accepted.                                       *)
LoadsNeverGoBack ==
    \A p \in Processes : proc[p].at = "loaded" =>
        /\ proc[p].version \in accepted
        /\ \A v \in proc[p].since : v <= proc[p].version

(* No stage file is ever left with an incomplete frame, which would make   *)
(* every later call fail.                                                  *)
FramesAreWhole == torn = {}

(* Neither races nor crashes cost the client what it accepted: accepted    *)
(* versions are durable, no load goes back behind one, and every frame of  *)
(* the directory is whole.                                                 *)
StoreIsSafe == AcceptedIsDurable /\ LoadsNeverGoBack /\ FramesAreWhole

(* Without faults the highest version staged always becomes the one that   *)
(* is served, however many processes race.                                 *)
StagedIsServed ==
    \A v \in Versions : v \in stage ~> \E a \in active : a >= v /\ Highest(a, stage)

(* Once a version is active the directory stays readable, so that the      *)
(* active version can be loaded or a newer one accepted.                   *)
ActiveStaysReadable ==
    (accepted \cap active # {} /\ \A p \in Processes : proc[p].at = "idle") => Readable

(* The directory implements the monotonic store.                           *)
Top(S) == IF S = {} THEN 0 ELSE CHOOSE v \in S : \A w \in S : w <= v

Floor == INSTANCE VersionFloor WITH
    staged <- Top(stage),
    served <- IF Top(active) = Top(stage) THEN Top(stage) ELSE 0,
    floor <- Top(disk.stage)

ImplementsFloor == Floor!Spec

=============================================================================
