---------------------------- MODULE ProfileSwitch ----------------------------
(***************************************************************************)
(* Applying and switching profiles in the machine's home: `ht profile      *)
(* switch`, and in the Desktop sidecar the switch request with its         *)
(* registry of sessions and the apply request.  All of them apply under    *)
(* ProfileApplyLock; the requests of the sidecar share its process, and    *)
(* with it lockDepth, the active session and the in-flight flag.           *)
(*                                                                         *)
(* A step runs from one await of the code to the next: within a process    *)
(* nothing else runs meanwhile.  Partial(t) is what a step that fails, or  *)
(* whose process is killed, may have done by then.  Cancellation by Ctrl-C *)
(* or by a request has no action: the code looks for it only in the run    *)
(* that starts a switch and in the one that starts its restore, and no     *)
(* handler runs within one; while an apply is awaited it is turned down.   *)
(*                                                                         *)
(* Abstractions: the files of a profile are all, some or none in the home, *)
(* and no two profiles share a file; files the user owns or edits are not  *)
(* modelled here.  A profile is in `snapshots` when its latest snapshot    *)
(* lists the files its apply wrote.  The apply request stands for every    *)
(* command that applies under the lock without the switch's restore.       *)
(* `ht profile delete` takes no lock: it may come between any two steps.   *)
(* The sidecar's request to delete is the case of it whose two steps are   *)
(* one, since its check for a running switch comes before an await.        *)
(***************************************************************************)
EXTENDS ProfileApplyLock

CONSTANTS
  Profiles,
  NoProfile,       \* no active profile
  NoTask,          \* no active switch session
  Switches,        \* the tasks that are POST /v1/switch requests
  Applies,         \* the tasks that are POST /v1/apply requests
  Commands,        \* the tasks that are `ht profile switch`
  MaxFailures,     \* bound: applies that fail and profiles deleted
  MaxDeletes       \* bound: profiles deleted

ASSUME KindsAssumption ==
  /\ Tasks = Switches \cup Applies \cup Commands
  /\ Applies \cap (Switches \cup Commands) = {}
ASSUME NoProfileAssumption == NoProfile \notin Profiles
ASSUME NoTaskAssumption == NoTask \notin Tasks
ASSUME ProfilesAssumption == IsFiniteSet(Profiles)
ASSUME FailuresAssumption == MaxFailures \in Nat /\ MaxDeletes \in Nat

VARIABLES
  pointer,         \* active-profile.json
  home,            \* per profile: how much of its files the home holds
  snapshots,       \* profiles with a snapshot that lists their files
  pc,              \* per task
  target,          \* per task: the profile it is applying
  previous,        \* per task: the active profile a switch found
  failed,          \* per task: the profile a switch failed to apply
  tracked,         \* per task: the profiles whose files it will remove
  activeSwitch,    \* the sidecar's activeSwitchId
  applyInFlight,   \* the sidecar's flag
  failures,
  library,         \* the profiles there are, by their tag
  demoting,        \* the profile whose deletion is about to clear the pointer
  pointerLost      \* history: a deletion cleared the pointer to another one

libraryVars == <<library, demoting, pointerLost>>
homeVars == <<pointer, home, snapshots>>
taskVars == <<target, previous, failed, tracked>>
agentVars == <<activeSwitch, applyInFlight>>
vars == <<lockVars, homeVars, pc, taskVars, agentVars, failures, libraryVars>>

\* Where a task can be between two steps, and where it is applying a profile:
\* from reading the active profile to the release of the lock.
Places == {"idle", "preflight", "resolve", "write", "record", "point"}
ApplyPlaces == Places \ {"idle", "preflight"}

TypeOK ==
  /\ LockTypeOK
  /\ pointer \in Profiles \cup {NoProfile}
  /\ home \in [Profiles -> {"none", "some", "all"}]
  /\ snapshots \subseteq Profiles
  /\ pc \in [Tasks -> Places]
  /\ target \in [Tasks -> Profiles \cup {NoProfile}]
  /\ previous \in [Tasks -> Profiles \cup {NoProfile}]
  /\ failed \in [Tasks -> Profiles \cup {NoProfile}]
  /\ tracked \in [Tasks -> SUBSET Profiles]
  /\ activeSwitch \in Tasks \cup {NoTask}
  /\ applyInFlight \in BOOLEAN
  /\ failures \in 0..MaxFailures
  /\ library \subseteq Profiles
  /\ demoting \in Profiles \cup {NoProfile}
  /\ pointerLost \in BOOLEAN

\* The home as a completed apply of q leaves it.
HomeOf(q) == [r \in Profiles |-> IF r = q THEN "all" ELSE "none"]

Deleted == Cardinality(Profiles \ library)

Applying(t) == pc[t] \in ApplyPlaces

Goto(t, from, to) ==
  /\ pc[t] = from
  /\ ProcOf[t] \in alive
  /\ pc' = [pc EXCEPT ![t] = to]

\* No profile is active, or the active one was applied and is in the home;
\* other profiles may have been applied and removed before.
Init ==
  /\ LockInit
  /\ pointer \in Profiles \cup {NoProfile}
  /\ snapshots \in SUBSET Profiles
  /\ IF pointer = NoProfile THEN snapshots = {} ELSE pointer \in snapshots
  /\ home = HomeOf(pointer)
  /\ pc = [t \in Tasks |-> "idle"]
  /\ target = [t \in Tasks |-> NoProfile]
  /\ previous = [t \in Tasks |-> NoProfile]
  /\ failed = [t \in Tasks |-> NoProfile]
  /\ tracked = [t \in Tasks |-> {}]
  /\ activeSwitch = NoTask
  /\ applyInFlight = FALSE
  /\ failures = 0
  /\ library = Profiles
  /\ demoting = NoProfile
  /\ pointerLost = FALSE

-----------------------------------------------------------------------------
(* The handlers of the sidecar *)

\* handleSwitch: with no switch running, the owned-overwrite preflight is
\* awaited ...
ReceiveSwitch(t) ==
  /\ t \in Switches
  /\ Goto(t, "idle", "preflight")
  /\ activeSwitch = NoTask
  /\ UNCHANGED <<lockVars, homeVars, taskVars, agentVars, failures>>

\* ... and finds conflicts to confirm (409) ...
PreflightConflict(t) ==
  /\ t \in Switches
  /\ Goto(t, "preflight", "idle")
  /\ UNCHANGED <<lockVars, homeVars, taskVars, agentVars, failures>>

\* ... or the session starts: it becomes the active one, whatever is active by
\* now, and the switch takes the lock within the same step.
StartSwitch(t) ==
  /\ t \in Switches
  /\ Goto(t, "preflight", "resolve")
  /\ Acquire(t)
  /\ activeSwitch' = t
  /\ previous' = [previous EXCEPT ![t] = pointer]
  /\ \E q \in Profiles : target' = [target EXCEPT ![t] = q]
  /\ UNCHANGED <<homeVars, failed, tracked, applyInFlight, failures>>

\* With the lock held elsewhere, or a failing write of its file, the session
\* ends at once.
SwitchRefused(t) ==
  /\ t \in Switches
  /\ Goto(t, "preflight", "idle")
  /\ Refused(t) \/ LockWriteError(t)
  /\ activeSwitch' = NoTask
  /\ UNCHANGED <<homeVars, taskVars, applyInFlight, failures>>

\* tryHandle of /v1/apply: refused during a switch or another apply; the
\* owned-overwrite summary is awaited.
ReceiveApply(t) ==
  /\ t \in Applies
  /\ Goto(t, "idle", "preflight")
  /\ activeSwitch = NoTask
  /\ ~applyInFlight
  /\ applyInFlight' = TRUE
  /\ UNCHANGED <<lockVars, homeVars, taskVars, activeSwitch, failures>>

ApplyRefused(t) ==
  /\ t \in Applies
  /\ Goto(t, "preflight", "idle")
  /\ UNCHANGED lockVars \/ LockWriteError(t)
  /\ applyInFlight' = FALSE
  /\ UNCHANGED <<homeVars, taskVars, activeSwitch, failures>>

\* useProfileCommand
StartApply(t) ==
  /\ t \in Applies
  /\ Goto(t, "preflight", "resolve")
  /\ Acquire(t)
  /\ \E q \in Profiles : target' = [target EXCEPT ![t] = q]
  /\ UNCHANGED <<homeVars, previous, failed, tracked, agentVars, failures>>

-----------------------------------------------------------------------------
(* switchProfile *)

\* The command installs its SIGINT handler, takes the lock and reads the
\* active profile.
StartCommand(t) ==
  /\ t \in Commands
  /\ Goto(t, "idle", "resolve")
  /\ Acquire(t)
  /\ previous' = [previous EXCEPT ![t] = pointer]
  /\ \E q \in Profiles : target' = [target EXCEPT ![t] = q]
  /\ UNCHANGED <<homeVars, failed, tracked, agentVars, failures>>

CommandFails(t) ==
  /\ t \in Commands
  /\ pc[t] = "idle"
  /\ LockWriteError(t)
  /\ UNCHANGED <<homeVars, pc, taskVars, agentVars, failures>>

-----------------------------------------------------------------------------
(* applyProfilePlugin and useProfileCommandUnlocked *)

\* Mistaken forms of TrackedBy: only the active profile's files are known, or
\* an absent active profile is taken for one.
TrackedByPointer(q) == IF pointer \in Profiles \ {q} THEN {pointer} ELSE {}

TrackedUnchecked(q) == {pointer} \cup snapshots

\* resolvePreviousTrackedFilesForApply: the outgoing profile's files, known
\* from its snapshot or from a dry run, and those of every other profile that
\* has a snapshot; failing that, of the latest snapshot.
TrackedBy(q) ==
  LET outgoing == IF pointer \in Profiles \ {q} THEN {pointer} ELSE {}
  IN outgoing \cup snapshots

\* The profile to apply and the one it takes the place of are both looked up;
\* applyProfilePlugin throws for either when it is no longer a profile.
Found(t) ==
  /\ target[t] \in library
  /\ pointer \in library \cup {target[t], NoProfile}

Resolve(t) ==
  /\ Goto(t, "resolve", "write")
  /\ Found(t)
  /\ tracked' = [tracked EXCEPT ![t] = TrackedBy(target[t])]
  /\ UNCHANGED <<lockVars, homeVars, target, previous, failed, agentVars, failures>>

\* materializeFiles writes the files of the target.
Write(t) ==
  /\ Goto(t, "write", "record")
  /\ home' = [home EXCEPT ![target[t]] = "all"]
  /\ UNCHANGED <<lockVars, pointer, snapshots, taskVars, agentVars, failures>>

\* The ownership rows and the snapshot are recorded, the stale files removed.
Record(t) ==
  /\ Goto(t, "record", "point")
  /\ snapshots' = snapshots \cup {target[t]}
  /\ home' = [q \in Profiles |-> IF q \in tracked[t] \ {target[t]} THEN "none" ELSE home[q]]
  /\ UNCHANGED <<lockVars, pointer, taskVars, agentVars, failures>>

\* Mistaken forms of Finish: the session stays the active one, or the lock is
\* not released.
FinishActive(t) ==
  /\ Release(t)
  /\ target' = [target EXCEPT ![t] = NoProfile]
  /\ previous' = [previous EXCEPT ![t] = NoProfile]
  /\ failed' = [failed EXCEPT ![t] = NoProfile]
  /\ tracked' = [tracked EXCEPT ![t] = {}]
  /\ activeSwitch' = activeSwitch
  /\ applyInFlight' = (applyInFlight /\ t \notin Applies)

FinishHolding(t) ==
  /\ UNCHANGED lockVars
  /\ target' = [target EXCEPT ![t] = NoProfile]
  /\ previous' = [previous EXCEPT ![t] = NoProfile]
  /\ failed' = [failed EXCEPT ![t] = NoProfile]
  /\ tracked' = [tracked EXCEPT ![t] = {}]
  /\ activeSwitch' = IF activeSwitch = t THEN NoTask ELSE activeSwitch
  /\ applyInFlight' = (applyInFlight /\ t \notin Applies)

\* What a call leaves behind when it ends: the lock is released; a session
\* that is the active one no longer is; the in-flight flag is cleared.
Finish(t) ==
  /\ Release(t)
  /\ target' = [target EXCEPT ![t] = NoProfile]
  /\ previous' = [previous EXCEPT ![t] = NoProfile]
  /\ failed' = [failed EXCEPT ![t] = NoProfile]
  /\ tracked' = [tracked EXCEPT ![t] = {}]
  /\ activeSwitch' = IF activeSwitch = t THEN NoTask ELSE activeSwitch
  /\ applyInFlight' = (applyInFlight /\ t \notin Applies)

\* A mistaken form of Point: the pointer is not set.
PointUnset(t) ==
  /\ Goto(t, "point", "idle")
  /\ Finish(t)
  /\ UNCHANGED <<homeVars, failures>>

\* The apply succeeded: the pointer is set.
Point(t) ==
  /\ Goto(t, "point", "idle")
  /\ pointer' = target[t]
  /\ Finish(t)
  /\ UNCHANGED <<home, snapshots, failures>>

\* The user, or the conflict policy, cancels the apply before it writes.
Cancel(t) ==
  /\ t \in Commands \cup Applies
  /\ Goto(t, "write", "idle")
  /\ Finish(t)
  /\ UNCHANGED <<homeVars, failures>>

-----------------------------------------------------------------------------
(* Failures *)

\* The home, snapshots and pointer that a step of t may leave when it does not
\* come to its end: some of the target's files written; a new snapshot of it
\* that lists no file yet, and some of the stale files removed; a pointer file
\* that does not parse.
Partial(t) ==
  LET as(h, s, p) == [home |-> h, snapshots |-> s, pointer |-> p]
  IN {as(home, snapshots, pointer)} \cup
     CASE pc[t] = "write" -> {as([home EXCEPT ![target[t]] = "some"], snapshots, pointer)}
       [] pc[t] = "record" ->
            {as([q \in Profiles |-> IF q \in gone THEN "none" ELSE home[q]],
                snapshots \ {target[t]}, pointer) : gone \in SUBSET (tracked[t] \ {target[t]})}
       [] pc[t] = "point" -> {as(home, snapshots, NoProfile)}
       [] OTHER -> {}

LeavesPartial(t) ==
  \E left \in Partial(t) :
    /\ home' = left.home
    /\ snapshots' = left.snapshots
    /\ pointer' = left.pointer

\* An apply throws, from its first look at the profile to the pointer; with a
\* profile missing it always does.
Fails(t) ==
  /\ \/ /\ Applying(t)
        /\ failures + Deleted < MaxFailures
        /\ failures' = failures + 1
     \/ /\ pc[t] = "resolve"
        /\ ~Found(t)
        /\ UNCHANGED failures
  /\ LeavesPartial(t)

\* A switch that found another active profile applies that one again ...
FailAndRestore(t) ==
  /\ Fails(t)
  /\ Goto(t, pc[t], "resolve")
  /\ t \notin Applies
  /\ failed[t] = NoProfile
  /\ previous[t] \notin {NoProfile, target[t]}
  /\ target' = [target EXCEPT ![t] = previous[t]]
  /\ failed' = [failed EXCEPT ![t] = target[t]]
  /\ UNCHANGED <<lockVars, previous, tracked, agentVars>>

\* ... and every other failure leaves the call.
FailAndThrow(t) ==
  /\ Fails(t)
  /\ Goto(t, pc[t], "idle")
  /\ t \in Applies \/ failed[t] # NoProfile \/ previous[t] \in {NoProfile, target[t]}
  /\ Finish(t)

-----------------------------------------------------------------------------
(* Processes and the user *)

\* A process exits, or is killed within any step of any of its tasks.
ProcessExit(p) ==
  /\ Exit(p)
  /\ \/ UNCHANGED homeVars
     \/ \E t \in Holders(p) : LeavesPartial(t)
  /\ LET kept(f, v) == [t \in Tasks |-> IF ProcOf[t] = p THEN v ELSE f[t]]
     IN /\ pc' = kept(pc, "idle")
        /\ target' = kept(target, NoProfile)
        /\ previous' = kept(previous, NoProfile)
        /\ failed' = kept(failed, NoProfile)
        /\ tracked' = kept(tracked, {})
        /\ IF \E t \in Switches \cup Applies : ProcOf[t] = p
           THEN activeSwitch' = NoTask /\ applyInFlight' = FALSE
           ELSE UNCHANGED agentVars
  /\ UNCHANGED failures

Recover(p) ==
  /\ Start(p) \/ UserRemovesLock(p)
  /\ UNCHANGED <<homeVars, pc, taskVars, agentVars, failures>>

-----------------------------------------------------------------------------
(* untagProfileCommand, under `ht profile delete` *)

\* A mistaken form of Demote: the pointer is cleared whatever it names.
DemoteUnchecked(q) ==
  /\ q \in library
  /\ Deleted < MaxDeletes
  /\ library' = library \ {q}
  /\ pointer' = NoProfile
  /\ UNCHANGED <<lockVars, home, snapshots, pc, taskVars, agentVars, failures>>
  /\ UNCHANGED <<demoting, pointerLost>>

\* The profile loses its tag.  When it is the active one the pointer will be
\* cleared, unless the command is killed before.
Demote(q) ==
  /\ q \in library
  /\ demoting = NoProfile
  /\ Deleted < MaxDeletes
  /\ failures + Deleted < MaxFailures
  /\ library' = library \ {q}
  /\ demoting' \in IF pointer = q THEN {q, NoProfile} ELSE {NoProfile}
  /\ UNCHANGED <<lockVars, homeVars, pc, taskVars, agentVars, failures, pointerLost>>

\* clearActiveProfileName removes the file, whatever it names by now.
Unpoint ==
  /\ demoting # NoProfile
  /\ demoting' = NoProfile
  /\ pointer' = NoProfile
  /\ pointerLost' = (pointerLost \/ pointer # demoting)
  /\ UNCHANGED <<lockVars, home, snapshots, pc, taskVars, agentVars, failures, library>>

-----------------------------------------------------------------------------
Arrive(t) ==
  /\ ReceiveSwitch(t) \/ ReceiveApply(t) \/ StartCommand(t) \/ CommandFails(t)
  /\ UNCHANGED libraryVars

Proceed(t) ==
  /\ \/ PreflightConflict(t) \/ StartSwitch(t) \/ SwitchRefused(t)
     \/ ApplyRefused(t) \/ StartApply(t)
     \/ Resolve(t) \/ Write(t) \/ Cancel(t) \/ Record(t) \/ Point(t)
     \/ FailAndRestore(t) \/ FailAndThrow(t)
  /\ UNCHANGED libraryVars

ExitOrRecover(p) ==
  /\ ProcessExit(p) \/ Recover(p)
  /\ UNCHANGED libraryVars

Next ==
  \/ \E t \in Tasks : Arrive(t) \/ Proceed(t)
  \/ \E p \in Procs : ExitOrRecover(p)
  \/ \E q \in Profiles : Demote(q)
  \/ Unpoint

Spec == Init /\ [][Next]_vars

\* The event loop runs every request that has arrived to its end.
FairSpec == Spec /\ \A t \in Tasks : WF_vars(Proceed(t))

-----------------------------------------------------------------------------
(* Properties *)

Quiet == \A t \in Tasks : ~Applying(t)

Calm == failures = 0 /\ exits = 0 /\ ~pointerLost

\* Whatever is applied is applied under the lock, from reading the active
\* profile to the release, in one process at a time.
AppliesUnderLock ==
  \A t \in Tasks : Applying(t) => handle[t] # "none" /\ lockFile = ProcOf[t]

\* While nothing fails and no process is killed, the active profile is the one
\* whose files are in the home, whatever was deleted meanwhile: only a deleted
\* profile may have left files there.
PointerNamesHome ==
  Quiet /\ Calm => \A q \in library : home[q] = HomeOf(pointer)[q]

\* The profile a switch would restore is the active one until the switch sets
\* the pointer or fails, unless it is deleted: nobody else moves the pointer
\* meanwhile.
BaselineIsCurrent ==
  \A t \in Switches \cup Commands :
    Applying(t) /\ failed[t] = NoProfile /\ ~pointerLost
      => previous[t] = pointer \/ (pointer = NoProfile /\ previous[t] \notin library)

\* An apply that completes leaves its own files and no file of another profile
\* that a snapshot lists, whatever was killed or failed before it.
CompletedApplyIsClean ==
  [][\A t \in Tasks : Point(t) =>
        /\ home'[target[t]] = "all"
        /\ \A q \in snapshots' \ {target[t]} : home'[q] = "none"]_vars

\* The part of AppliesUnderLock that each call keeps for itself.
AppliesWithHandle == \A t \in Tasks : Applying(t) => handle[t] # "none"

\* "Another profile switch is already running": one session at a time.
OneSwitchAtATime ==
  \A t, u \in Switches : Applying(t) /\ Applying(u) => t = u

\* "Restores the previous one if apply fails": the home is as it was.
RestoresPrevious ==
  [][\A t \in Tasks : Point(t) /\ failed[t] # NoProfile => home' = HomeOf(previous[t])]_vars

\* "Another profile switch is already running", "another apply is already
\* running": a request is turned down only while that is so, whichever of the
\* overlapping calls ended first and however it ended.
BusyIsRunning ==
  /\ activeSwitch # NoTask => activeSwitch \in Switches /\ Applying(activeSwitch)
  /\ applyInFlight => \E t \in Applies : pc[t] # "idle"

\* A switch that starts comes to its end, and the sidecar takes the next one.
SwitchEnds == activeSwitch # NoTask ~> activeSwitch = NoTask

\* No handle is joined, no process is killed, no pid fails to be written.
Undisturbed == exits = 0 /\ writeErrors = 0 /\ \A t \in Tasks : handle[t] # "joined"

\* Every way out of an apply gives the lock back, failures, cancellations and
\* failed restores included.
LockIsGivenBack == []Undisturbed => (lockFile # NoFile ~> lockFile = NoFile)

-----------------------------------------------------------------------------
(* The invariants behind the properties.  The last three hold when no two  *)
(* tasks are of one process.                                               *)

TargetIsProfile == \A t \in Tasks : Applying(t) => target[t] \in Profiles

DemotedIsGone == demoting \notin library

\* What the steps of an apply have achieved, and the next ones build on.
StagesDone ==
  \A t \in Tasks :
    /\ pc[t] \in {"write", "record"} => snapshots \subseteq tracked[t]
    /\ pc[t] \in {"record", "point"} => home[target[t]] = "all"
    /\ pc[t] = "point" => /\ target[t] \in snapshots
                         /\ \A q \in snapshots \ {target[t]} : home[q] = "none"

Written == {target[t] : t \in {u \in Tasks : pc[u] = "record"}}

\* While nothing fails, files in the home are listed or just written.
FilesAreListed ==
  Calm => \A q \in Profiles : home[q] # "none" => q \in snapshots \cup Written

\* ... and they are the active profile's until the next one's are written.
HomeMatches ==
  Calm /\ (\A t \in Tasks : pc[t] \notin {"record", "point"}) =>
    \A q \in library : home[q] = HomeOf(pointer)[q]

\* No two of the calls run in one process.
OneTaskPerProcess == \A t, u \in Tasks : ProcOf[t] = ProcOf[u] => t = u
=============================================================================
