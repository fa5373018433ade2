------------------------- MODULE ProfileSwitch_proofs -------------------------
(***************************************************************************)
(* For every set of processes, requests and profiles: the switches and     *)
(* applies use the profile apply lock as its own specification has it, and *)
(* with that whatever is applied to the home is applied under the lock.    *)
(***************************************************************************)
EXTENDS ProfileSwitch, ProfileApplyLock_proofs

\* A step of a request, a command, a crash or the user is a step of the lock
\* or leaves it alone.
LEMMA StepOfLock == [Next]_vars => [LockNext]_lockVars
<1> SUFFICES ASSUME [Next]_vars PROVE [LockNext]_lockVars
  OBVIOUS
<1>1. CASE UNCHANGED vars
  BY <1>1 DEF vars
<1>2. ASSUME NEW t \in Tasks, Arrive(t) PROVE [LockNext]_lockVars
  BY <1>2 DEF Arrive, ReceiveSwitch, ReceiveApply, StartCommand, CommandFails, LockNext
<1>3. ASSUME NEW t \in Tasks, Proceed(t) PROVE [LockNext]_lockVars
  <2>1. CASE PreflightConflict(t) \/ Resolve(t) \/ Write(t) \/ Record(t)
    BY <2>1 DEF PreflightConflict, Resolve, Write, Record
  <2>2. CASE StartSwitch(t) \/ StartApply(t)
    BY <2>2 DEF StartSwitch, StartApply, LockNext
  <2>3. CASE SwitchRefused(t) \/ ApplyRefused(t)
    BY <2>3 DEF SwitchRefused, ApplyRefused, LockNext
  <2>4. CASE Cancel(t) \/ Point(t) \/ FailAndThrow(t)
    BY <2>4 DEF Cancel, Point, FailAndThrow, Finish, LockNext
  <2>5. CASE FailAndRestore(t)
    BY <2>5 DEF FailAndRestore
  <2> QED
    BY <1>3, <2>1, <2>2, <2>3, <2>4, <2>5 DEF Proceed
<1>4. ASSUME NEW p \in Procs, ExitOrRecover(p) PROVE [LockNext]_lockVars
  BY <1>4 DEF ExitOrRecover, ProcessExit, Recover, LockNext
<1>5. CASE Unpoint \/ \E q \in Profiles : Demote(q)
  BY <1>5 DEF Unpoint, Demote
<1> QED
  BY <1>1, <1>2, <1>3, <1>4, <1>5 DEF Next

\* The requests and commands implement the profile apply lock.
THEOREM SwitchUsesLock == Spec => LockSpec
<1>1. Init => LockInit
  BY DEF Init
<1> QED
  BY <1>1, StepOfLock, PTL DEF Spec, LockSpec

\* A move of a task that is not applying afterwards, or was applying before,
\* and that gives nobody else's handle back.
LEMMA MoveKeepsHandles ==
  ASSUME AppliesWithHandle, pc \in [Tasks -> Places], NEW t \in Tasks, NEW to \in Places,
         pc' = [pc EXCEPT ![t] = to],
         \A u \in Tasks \ {t} : handle'[u] = handle[u],
         to \in ApplyPlaces => handle'[t] # "none"
  PROVE  AppliesWithHandle' /\ pc' \in [Tasks -> Places]
BY DEF AppliesWithHandle, Applying

LEMMA AppliesWithHandleStep ==
  ASSUME LockTypeOK, pc \in [Tasks -> Places], AppliesWithHandle, [Next]_vars
  PROVE  AppliesWithHandle' /\ pc' \in [Tasks -> Places]
<1> USE DEF LockTypeOK
<1>1. CASE UNCHANGED vars
  BY <1>1 DEF vars, lockVars, AppliesWithHandle, Applying
<1>2. ASSUME NEW t \in Tasks, Arrive(t)
      PROVE  AppliesWithHandle' /\ pc' \in [Tasks -> Places]
  <2>1. CASE ReceiveSwitch(t) \/ ReceiveApply(t)
    BY <2>1, MoveKeepsHandles DEF ReceiveSwitch, ReceiveApply, Goto, lockVars, Places, ApplyPlaces
  <2>2. CASE StartCommand(t)
    BY <2>2, MoveKeepsHandles
    DEF StartCommand, Goto, Acquire, JoinLock, OpenLock, Places
  <2>3. CASE CommandFails(t)
    BY <2>3 DEF CommandFails, LockWriteError, AppliesWithHandle, Applying
  <2> QED
    BY <1>2, <2>1, <2>2, <2>3 DEF Arrive
<1>3. ASSUME NEW t \in Tasks, Proceed(t)
      PROVE  AppliesWithHandle' /\ pc' \in [Tasks -> Places]
  <2>1. CASE PreflightConflict(t)
    BY <2>1, MoveKeepsHandles DEF PreflightConflict, Goto, lockVars, Places, ApplyPlaces
  <2>2. CASE StartSwitch(t) \/ StartApply(t)
    BY <2>2, MoveKeepsHandles
    DEF StartSwitch, StartApply, Goto, Acquire, JoinLock, OpenLock, Places
  <2>3. CASE SwitchRefused(t) \/ ApplyRefused(t)
    BY <2>3, MoveKeepsHandles
    DEF SwitchRefused, ApplyRefused, Refused, LockWriteError, Goto, lockVars, Places, ApplyPlaces
  <2>4. CASE Resolve(t) \/ Write(t) \/ Record(t)
    <3>1. handle[t] # "none" /\ handle' = handle
      BY <2>4 DEF Resolve, Write, Record, Goto, lockVars, AppliesWithHandle, Applying,
                  Places, ApplyPlaces
    <3> QED
      BY <2>4, <3>1, MoveKeepsHandles DEF Resolve, Write, Record, Goto, Places
  <2>5. CASE Cancel(t) \/ Point(t) \/ FailAndThrow(t)
    <3>1. Release(t) /\ pc' = [pc EXCEPT ![t] = "idle"]
      BY <2>5 DEF Cancel, Point, FailAndThrow, Finish, Goto
    <3>2. \A u \in Tasks \ {t} : handle'[u] = handle[u]
      BY <3>1 DEF Release, ReleaseJoined, ReleaseShared, ReleaseLast
    <3> QED
      BY <3>1, <3>2, MoveKeepsHandles DEF Places, ApplyPlaces
  <2>6. CASE FailAndRestore(t)
    <3>1. handle[t] # "none" /\ handle' = handle /\ pc' = [pc EXCEPT ![t] = "resolve"]
      BY <2>6 DEF FailAndRestore, Fails, Goto, lockVars, AppliesWithHandle, Applying,
                  Places, ApplyPlaces
    <3> QED
      BY <3>1, MoveKeepsHandles DEF Places
  <2> QED
    BY <1>3, <2>1, <2>2, <2>3, <2>4, <2>5, <2>6 DEF Proceed
<1>4. ASSUME NEW p \in Procs, ProcessExit(p)
      PROVE  AppliesWithHandle' /\ pc' \in [Tasks -> Places]
  <2>1. /\ pc' = [t \in Tasks |-> IF ProcOf[t] = p THEN "idle" ELSE pc[t]]
        /\ handle' = [t \in Tasks |-> IF ProcOf[t] = p THEN "none" ELSE handle[t]]
    BY <1>4 DEF ProcessExit, Exit
  <2> QED
    BY <2>1 DEF AppliesWithHandle, Applying, Places, ApplyPlaces
<1>5. ASSUME NEW p \in Procs, Recover(p)
      PROVE  AppliesWithHandle' /\ pc' \in [Tasks -> Places]
  BY <1>5 DEF Recover, Start, UserRemovesLock, AppliesWithHandle, Applying
<1>6. CASE Unpoint \/ \E q \in Profiles : Demote(q)
  BY <1>6 DEF Unpoint, Demote, lockVars, AppliesWithHandle, Applying
<1> QED
  BY <1>1, <1>2, <1>3, <1>4, <1>5, <1>6 DEF Next, ExitOrRecover

\* Every apply runs under the lock: its own process created the file, which
\* stays at the path until the apply has ended.
THEOREM AppliesAreLocked == Spec => []AppliesUnderLock
<1> DEFINE Inv == LockInv /\ pc \in [Tasks -> Places] /\ AppliesWithHandle
<1>1. Init => Inv
  BY LockInitInvariant DEF Init, AppliesWithHandle, Applying, Places, ApplyPlaces
<1>2. Inv /\ [Next]_vars => Inv'
  BY StepOfLock, LockStepInvariant, AppliesWithHandleStep DEF LockInv
<1>3. Inv => AppliesUnderLock
  BY DEF LockInv, HeldByOneProcess, AppliesWithHandle, AppliesUnderLock
<1> QED
  BY <1>1, <1>2, <1>3, PTL DEF Spec

-----------------------------------------------------------------------------
(* Types *)

\* What a call leaves behind when it ends is well-typed.
LEMMA FinishTypes ==
  ASSUME TypeOK, NEW t \in Tasks, Finish(t)
  PROVE  /\ target' \in [Tasks -> Profiles \cup {NoProfile}]
         /\ previous' \in [Tasks -> Profiles \cup {NoProfile}]
         /\ failed' \in [Tasks -> Profiles \cup {NoProfile}]
         /\ tracked' \in [Tasks -> SUBSET Profiles]
         /\ activeSwitch' \in Tasks \cup {NoTask}
         /\ applyInFlight' \in BOOLEAN
BY DEF Finish, TypeOK

\* So is the home of an apply that did not come to its end.
LEMMA PartialTypes ==
  ASSUME TypeOK, NEW t \in Tasks, LeavesPartial(t)
  PROVE  /\ pointer' \in Profiles \cup {NoProfile}
         /\ home' \in [Profiles -> {"none", "some", "all"}]
         /\ snapshots' \subseteq Profiles
<1>1. PICK left \in Partial(t) : /\ home' = left.home
                                 /\ snapshots' = left.snapshots
                                 /\ pointer' = left.pointer
  BY DEF LeavesPartial
<1>2. \/ left = [home |-> home, snapshots |-> snapshots, pointer |-> pointer]
      \/ left = [home |-> [home EXCEPT ![target[t]] = "some"],
                 snapshots |-> snapshots, pointer |-> pointer]
      \/ \E gone \in SUBSET (tracked[t] \ {target[t]}) :
           left = [home |-> [q \in Profiles |-> IF q \in gone THEN "none" ELSE home[q]],
                   snapshots |-> snapshots \ {target[t]}, pointer |-> pointer]
      \/ left = [home |-> home, snapshots |-> snapshots, pointer |-> NoProfile]
  BY DEF Partial
<1> QED
  BY <1>1, <1>2 DEF TypeOK

\* A failure leaves the counter within its bound.
LEMMA FailsTypes ==
  ASSUME TypeOK, NEW t \in Tasks, Fails(t)
  PROVE  failures' \in 0..MaxFailures
<1>1. Deleted \in Nat
  BY ProfilesAssumption, FS_Subset, FS_CardinalityType DEF Deleted
<1> QED
  BY <1>1, FailuresAssumption DEF Fails, TypeOK

\* The types, and the profile each apply is of, are kept by every step.
LEMMA TypeStep ==
  ASSUME TypeOK, TargetIsProfile, [Next]_vars
  PROVE  TypeOK' /\ TargetIsProfile'
<1>0. LockTypeOK'
  BY StepOfLock, LockTypeStep DEF TypeOK
<1>1. CASE UNCHANGED vars
  BY <1>1, <1>0 DEF vars, homeVars, taskVars, agentVars, libraryVars, TypeOK, TargetIsProfile, Applying
<1>2. ASSUME NEW t \in Tasks, Arrive(t) PROVE TypeOK' /\ TargetIsProfile'
  <2> USE <1>0 DEF homeVars, taskVars, agentVars, libraryVars, TypeOK, TargetIsProfile, Applying
  <2>1. CASE ReceiveSwitch(t) \/ ReceiveApply(t)
    BY <1>2, <2>1 DEF Arrive, ReceiveSwitch, ReceiveApply, Goto, Places, ApplyPlaces
  <2>2. CASE StartCommand(t)
    BY <1>2, <2>2 DEF Arrive, StartCommand, Goto, Places, ApplyPlaces
  <2>3. CASE CommandFails(t)
    BY <1>2, <2>3 DEF Arrive, CommandFails
  <2> QED
    BY <1>2, <2>1, <2>2, <2>3 DEF Arrive
<1>3. ASSUME NEW t \in Tasks, Proceed(t) PROVE TypeOK' /\ TargetIsProfile'
  <2>0. UNCHANGED libraryVars
    BY <1>3 DEF Proceed
  <2>1. CASE PreflightConflict(t) \/ SwitchRefused(t) \/ ApplyRefused(t)
    BY <1>0, <2>0, <2>1
    DEF PreflightConflict, SwitchRefused, ApplyRefused, Goto, Places, ApplyPlaces,
        homeVars, taskVars, agentVars, libraryVars, TypeOK, TargetIsProfile, Applying
  <2>2. CASE StartSwitch(t) \/ StartApply(t)
    BY <1>0, <2>0, <2>2
    DEF StartSwitch, StartApply, Goto, Places, ApplyPlaces,
        homeVars, taskVars, agentVars, libraryVars, TypeOK, TargetIsProfile, Applying
  <2>3. CASE Resolve(t)
    <3>1. tracked' \in [Tasks -> SUBSET Profiles]
      <4>1. TrackedBy(target[t]) \in SUBSET Profiles
        BY DEF TrackedBy, TypeOK
      <4>2. tracked' = [tracked EXCEPT ![t] = TrackedBy(target[t])]
        BY <2>3 DEF Resolve
      <4> QED
        BY <4>1, <4>2 DEF TypeOK
    <3>2. /\ pc[t] = "resolve" /\ pc' = [pc EXCEPT ![t] = "write"]
          /\ UNCHANGED <<homeVars, target, previous, failed, agentVars, failures>>
      BY <2>3 DEF Resolve, Goto
    <3> QED
      BY <1>0, <2>0, <3>1, <3>2
      DEF Places, ApplyPlaces, homeVars, agentVars, libraryVars, TypeOK,
          TargetIsProfile, Applying
  <2>4. CASE Write(t)
    BY <1>0, <2>0, <2>4
    DEF Write, Goto, Places, ApplyPlaces, taskVars, agentVars, libraryVars, TypeOK,
        TargetIsProfile, Applying
  <2>5. CASE Record(t)
    BY <1>0, <2>0, <2>5
    DEF Record, Goto, Places, ApplyPlaces, taskVars, agentVars, libraryVars, TypeOK,
        TargetIsProfile, Applying
  <2>6. CASE Cancel(t) \/ Point(t)
    <3>1. Finish(t) /\ pc' = [pc EXCEPT ![t] = "idle"] /\ UNCHANGED <<home, snapshots, failures>>
      BY <2>6 DEF Cancel, Point, Goto, homeVars
    <3>2. pointer' \in Profiles \cup {NoProfile}
      BY <2>6 DEF Cancel, Point, homeVars, TypeOK
    <3>3. target' = [target EXCEPT ![t] = NoProfile]
      BY <3>1 DEF Finish
    <3> QED
      BY <1>0, <2>0, <3>1, <3>2, <3>3, FinishTypes
      DEF Places, ApplyPlaces, libraryVars, TypeOK, TargetIsProfile, Applying
  <2>7. CASE FailAndThrow(t)
    <3>1. /\ Finish(t) /\ LeavesPartial(t) /\ Fails(t)
          /\ pc' = [pc EXCEPT ![t] = "idle"]
      BY <2>7 DEF FailAndThrow, Fails, Goto
    <3>2. target' = [target EXCEPT ![t] = NoProfile]
      BY <3>1 DEF Finish
    <3> QED
      BY <1>0, <2>0, <3>1, <3>2, FinishTypes, PartialTypes, FailsTypes
      DEF Places, ApplyPlaces, libraryVars, TypeOK, TargetIsProfile, Applying
  <2>8. CASE FailAndRestore(t)
    <3>1. /\ LeavesPartial(t) /\ Fails(t)
          /\ pc' = [pc EXCEPT ![t] = "resolve"]
      BY <2>8 DEF FailAndRestore, Fails, Goto
    <3>2. /\ target' = [target EXCEPT ![t] = previous[t]]
          /\ failed' = [failed EXCEPT ![t] = target[t]]
          /\ UNCHANGED <<previous, tracked, agentVars>>
          /\ previous[t] \in Profiles
      BY <2>8 DEF FailAndRestore, TypeOK
    <3> QED
      BY <1>0, <2>0, <3>1, <3>2, PartialTypes, FailsTypes
      DEF Places, ApplyPlaces, agentVars, libraryVars, TypeOK, TargetIsProfile, Applying
  <2> QED
    BY <1>3, <2>1, <2>2, <2>3, <2>4, <2>5, <2>6, <2>7, <2>8 DEF Proceed
<1>4. ASSUME NEW p \in Procs, ExitOrRecover(p) PROVE TypeOK' /\ TargetIsProfile'
  <2>0. UNCHANGED libraryVars
    BY <1>4 DEF ExitOrRecover
  <2>1. CASE ProcessExit(p)
    <3>1. /\ pointer' \in Profiles \cup {NoProfile}
          /\ home' \in [Profiles -> {"none", "some", "all"}]
          /\ snapshots' \subseteq Profiles
      BY <2>1, PartialTypes DEF ProcessExit, Holders, homeVars, TypeOK
    <3>2. /\ pc' = [t \in Tasks |-> IF ProcOf[t] = p THEN "idle" ELSE pc[t]]
          /\ target' = [t \in Tasks |-> IF ProcOf[t] = p THEN NoProfile ELSE target[t]]
          /\ previous' = [t \in Tasks |-> IF ProcOf[t] = p THEN NoProfile ELSE previous[t]]
          /\ failed' = [t \in Tasks |-> IF ProcOf[t] = p THEN NoProfile ELSE failed[t]]
          /\ tracked' = [t \in Tasks |-> IF ProcOf[t] = p THEN {} ELSE tracked[t]]
          /\ UNCHANGED failures
      BY <2>1 DEF ProcessExit
    <3>3. activeSwitch' \in Tasks \cup {NoTask} /\ applyInFlight' \in BOOLEAN
      BY <2>1 DEF ProcessExit, agentVars, TypeOK
    <3> QED
      BY <1>0, <2>0, <3>1, <3>2, <3>3
      DEF Places, ApplyPlaces, libraryVars, TypeOK, TargetIsProfile, Applying
  <2>2. CASE Recover(p)
    BY <1>0, <2>0, <2>2
    DEF Recover, homeVars, taskVars, agentVars, libraryVars, TypeOK, TargetIsProfile, Applying
  <2> QED
    BY <1>4, <2>1, <2>2 DEF ExitOrRecover
<1>5. CASE Unpoint \/ \E q \in Profiles : Demote(q)
  BY <1>0, <1>5
  DEF Unpoint, Demote, homeVars, taskVars, agentVars, TypeOK, TargetIsProfile, Applying
<1> QED
  BY <1>1, <1>2, <1>3, <1>4, <1>5 DEF Next

\* The types hold of the first state.
LEMMA TypeInit == Init => TypeOK /\ TargetIsProfile
<1> SUFFICES ASSUME Init PROVE TypeOK /\ TargetIsProfile
  OBVIOUS
<1>1. LockTypeOK
  BY LockInitInvariant DEF Init, LockInv
<1>2. home \in [Profiles -> {"none", "some", "all"}]
  BY DEF Init, HomeOf
<1>3. failures \in 0..MaxFailures
  BY FailuresAssumption DEF Init
<1>4. pc \in [Tasks -> Places] /\ \A t \in Tasks : pc[t] = "idle"
  BY DEF Init, Places
<1>5. TypeOK
  BY <1>1, <1>2, <1>3, <1>4 DEF Init, TypeOK
<1> QED
  BY <1>4, <1>5 DEF TargetIsProfile, Applying, ApplyPlaces, Places

\* Every variable of the switch keeps its type, for any processes, requests,
\* profiles and bounds.
THEOREM SwitchTypes == Spec => []TypeOK
BY TypeInit, TypeStep, PTL DEF Spec

-----------------------------------------------------------------------------
(* What the lock gives to an apply *)

\* What holds of any calls, whatever they share.
SwitchInv == TypeOK /\ TargetIsProfile /\ LockInv /\ AppliesWithHandle

\* It is an invariant of the switch.
LEMMA SwitchInvInit == Init => SwitchInv
BY TypeInit, LockInitInvariant
DEF Init, SwitchInv, AppliesWithHandle, Applying, Places, ApplyPlaces

LEMMA SwitchInvStep == SwitchInv /\ [Next]_vars => SwitchInv'
BY TypeStep, StepOfLock, LockStepInvariant, AppliesWithHandleStep DEF SwitchInv, TypeOK

\* With each call in a process of its own, at most one applies a profile.
LEMMA OneApplies ==
  ASSUME OneTaskPerProcess, SwitchInv,
         NEW t \in Tasks, NEW u \in Tasks, Applying(t), Applying(u)
  PROVE  t = u
<1>1. lockFile = ProcOf[t] /\ lockFile = ProcOf[u]
  BY DEF SwitchInv, LockInv, HeldByOneProcess, AppliesWithHandle
<1> QED
  BY <1>1 DEF OneTaskPerProcess

\* A call that is about to apply, or has just started, finds no other at it.
LEMMA OthersIdle ==
  ASSUME OneTaskPerProcess, SwitchInv, SwitchInv', NEW t \in Tasks, Applying(t) \/ Applying(t)',
         \A u \in Tasks \ {t} : pc'[u] = pc[u]
  PROVE  \A u \in Tasks \ {t} : ~Applying(u) /\ ~Applying(u)'
<1> SUFFICES ASSUME NEW u \in Tasks \ {t} PROVE ~Applying(u) /\ ~Applying(u)'
  OBVIOUS
<1>1. Applying(u)' <=> Applying(u)
  BY DEF Applying
<1>2. CASE Applying(t)
  BY <1>1, <1>2, OneApplies
<1>3. CASE Applying(t)'
  <2>1. SwitchInv' /\ Applying(u)' => u = t
    <3>1. SwitchInv' /\ Applying(u)' => lockFile' = ProcOf[t] /\ lockFile' = ProcOf[u]
      BY <1>3 DEF SwitchInv, LockInv, HeldByOneProcess, AppliesWithHandle
    <3> QED
      BY <3>1 DEF OneTaskPerProcess
  <2> QED
    BY <1>1, <2>1
<1> QED
  BY <1>2, <1>3

\* A call writes its own variables only.
LEMMA OthersKeep ==
  ASSUME TypeOK, NEW t \in Tasks, Arrive(t) \/ Proceed(t)
  PROVE  /\ \A u \in Tasks \ {t} : /\ pc'[u] = pc[u] /\ target'[u] = target[u]
                                   /\ previous'[u] = previous[u] /\ failed'[u] = failed[u]
                                   /\ tracked'[u] = tracked[u]
         /\ UNCHANGED libraryVars
<1>1. CASE Arrive(t)
  BY <1>1
  DEF Arrive, ReceiveSwitch, ReceiveApply, StartCommand, CommandFails, Goto, taskVars, TypeOK
<1>2. CASE Proceed(t)
  <2>0. UNCHANGED libraryVars
    BY <1>2 DEF Proceed
  <2>1. CASE PreflightConflict(t) \/ StartSwitch(t) \/ SwitchRefused(t)
    BY <2>0, <2>1 DEF PreflightConflict, StartSwitch, SwitchRefused, Goto, taskVars, TypeOK
  <2>2. CASE ApplyRefused(t) \/ StartApply(t)
    BY <2>0, <2>2 DEF ApplyRefused, StartApply, Goto, taskVars, TypeOK
  <2>3. CASE Resolve(t) \/ Write(t) \/ Record(t)
    BY <2>0, <2>3 DEF Resolve, Write, Record, Goto, taskVars, TypeOK
  <2>4. CASE Cancel(t) \/ Point(t) \/ FailAndThrow(t)
    <3>1. Finish(t) /\ pc' = [pc EXCEPT ![t] = "idle"]
      BY <2>4 DEF Cancel, Point, FailAndThrow, Goto
    <3> QED
      BY <2>0, <3>1 DEF Finish, TypeOK
  <2>5. CASE FailAndRestore(t)
    BY <2>0, <2>5 DEF FailAndRestore, Goto, TypeOK
  <2> QED
    BY <1>2, <2>1, <2>2, <2>3, <2>4, <2>5 DEF Proceed
<1> QED
  BY <1>1, <1>2

\* A failure that counts for nothing, of a profile that is missing, changes
\* nothing in the home.
LEMMA CalmFailure ==
  ASSUME TypeOK, NEW t \in Tasks, Fails(t), failures' = 0
  PROVE  pc[t] = "resolve" /\ UNCHANGED homeVars
<1>1. pc[t] = "resolve"
  BY FailuresAssumption DEF Fails, TypeOK
<1>2. Partial(t) = {[home |-> home, snapshots |-> snapshots, pointer |-> pointer]}
  BY <1>1 DEF Partial
<1>3. LeavesPartial(t)
  BY DEF Fails
<1> QED
  BY <1>1, <1>2, <1>3 DEF LeavesPartial, homeVars

\* What has failed, been killed or been lost stays so.
LEMMA CalmBefore == TypeOK /\ TypeOK' /\ [Next]_vars /\ Calm' => Calm
<1> SUFFICES ASSUME TypeOK, TypeOK', [Next]_vars, Calm' PROVE Calm
  OBVIOUS
<1>0. /\ failures \in Nat /\ exits \in Nat
      /\ failures' = 0 /\ exits' = 0 /\ ~pointerLost'
  BY FailuresAssumption, BoundsAssumption DEF TypeOK, LockTypeOK, Calm
<1>1. CASE UNCHANGED vars
  BY <1>0, <1>1 DEF vars, lockVars, libraryVars, Calm
<1>2. ASSUME NEW t \in Tasks, Arrive(t) PROVE Calm
  BY <1>0, <1>2
  DEF Arrive, ReceiveSwitch, ReceiveApply, StartCommand, CommandFails, Acquire, JoinLock,
      OpenLock, LockWriteError, lockVars, libraryVars, Calm
<1>3. ASSUME NEW t \in Tasks, Proceed(t) PROVE Calm
  <2>0. pointerLost' = pointerLost
    BY <1>3 DEF Proceed, libraryVars
  <2>1. CASE PreflightConflict(t) \/ Resolve(t) \/ Write(t) \/ Record(t)
    BY <1>0, <2>0, <2>1 DEF PreflightConflict, Resolve, Write, Record, lockVars, Calm
  <2>2. CASE StartSwitch(t) \/ StartApply(t)
    BY <1>0, <2>0, <2>2 DEF StartSwitch, StartApply, Acquire, JoinLock, OpenLock, Calm
  <2>3. CASE SwitchRefused(t) \/ ApplyRefused(t)
    BY <1>0, <2>0, <2>3
    DEF SwitchRefused, ApplyRefused, Refused, LockWriteError, lockVars, Calm
  <2>4. CASE Cancel(t) \/ Point(t)
    BY <1>0, <2>0, <2>4
    DEF Cancel, Point, Finish, Release, ReleaseJoined, ReleaseShared, ReleaseLast, Calm
  <2>5. CASE FailAndThrow(t) \/ FailAndRestore(t)
    <3>1. exits' = exits
      BY <2>5
      DEF FailAndThrow, FailAndRestore, Finish, Release, ReleaseJoined, ReleaseShared,
          ReleaseLast, lockVars
    <3>2. failures' = failures \/ failures' = failures + 1
      BY <2>5 DEF FailAndThrow, FailAndRestore, Fails
    <3> QED
      BY <1>0, <2>0, <3>1, <3>2 DEF Calm
  <2> QED
    BY <1>3, <2>1, <2>2, <2>3, <2>4, <2>5 DEF Proceed
<1>4. ASSUME NEW p \in Procs, ExitOrRecover(p) PROVE Calm
  BY <1>0, <1>4
  DEF ExitOrRecover, ProcessExit, Recover, Exit, Start, UserRemovesLock, libraryVars, Calm
<1>5. CASE Unpoint \/ \E q \in Profiles : Demote(q)
  <2>1. UNCHANGED <<failures, exits>>
    BY <1>5 DEF Unpoint, Demote, lockVars
  <2>2. ~pointerLost
    <3>1. CASE Unpoint
      BY <1>0, <3>1 DEF Unpoint
    <3>2. CASE \E q \in Profiles : Demote(q)
      BY <1>0, <3>2 DEF Demote
    <3> QED
      BY <1>5, <3>1, <3>2
  <2> QED
    BY <1>0, <2>1, <2>2 DEF Calm
<1> QED
  BY <1>1, <1>2, <1>3, <1>4, <1>5 DEF Next

-----------------------------------------------------------------------------
(* What the sidecar takes for running *)

\* A call that goes on leaves what the sidecar takes for running as it was.
LEMMA BusyGoesOn ==
  ASSUME TypeOK, BusyIsRunning, NEW t \in Tasks, NEW to \in Places, Goto(t, pc[t], to),
         UNCHANGED agentVars, to # "idle", Applying(t) => to \in ApplyPlaces
  PROVE  BusyIsRunning'
<1>1. /\ pc'[t] = to /\ \A u \in Tasks \ {t} : pc'[u] = pc[u]
      /\ UNCHANGED <<activeSwitch, applyInFlight>>
  BY DEF Goto, TypeOK, agentVars
<1>2. activeSwitch # NoTask => activeSwitch \in Tasks /\ Applying(activeSwitch)
  BY KindsAssumption DEF BusyIsRunning
<1>3. activeSwitch' # NoTask => activeSwitch' \in Switches /\ Applying(activeSwitch)'
  BY <1>1, <1>2 DEF BusyIsRunning, Applying
<1>4. applyInFlight' => \E u \in Applies : pc'[u] # "idle"
  BY <1>1, KindsAssumption DEF BusyIsRunning
<1> QED
  BY <1>3, <1>4 DEF BusyIsRunning

\* A call that ends is not taken for running any more.
LEMMA BusyEnds ==
  ASSUME TypeOK, BusyIsRunning, NEW t \in Tasks, pc' = [pc EXCEPT ![t] = "idle"],
         activeSwitch' \in {activeSwitch, NoTask}, applyInFlight' => applyInFlight,
         activeSwitch = t => activeSwitch' = NoTask,
         t \in Applies => ~applyInFlight'
  PROVE  BusyIsRunning'
<1>1. \A u \in Tasks \ {t} : pc'[u] = pc[u]
  BY DEF TypeOK
<1>2. activeSwitch' # NoTask => activeSwitch' \in Switches /\ Applying(activeSwitch)'
  BY <1>1, KindsAssumption, NoTaskAssumption DEF BusyIsRunning, Applying
<1>3. applyInFlight' => \E u \in Applies : pc'[u] # "idle"
  BY <1>1, KindsAssumption DEF BusyIsRunning
<1> QED
  BY <1>2, <1>3 DEF BusyIsRunning

LEMMA BusyStep == TypeOK /\ BusyIsRunning /\ [Next]_vars => BusyIsRunning'
<1> SUFFICES ASSUME TypeOK, BusyIsRunning, [Next]_vars PROVE BusyIsRunning'
  OBVIOUS
<1>1. CASE UNCHANGED vars
  BY <1>1 DEF vars, agentVars, BusyIsRunning, Applying
<1>2. ASSUME NEW t \in Tasks, Arrive(t) PROVE BusyIsRunning'
  <2>1. CASE ReceiveSwitch(t)
    BY <2>1, BusyGoesOn DEF ReceiveSwitch, Goto, Applying, Places, ApplyPlaces
  <2>2. CASE ReceiveApply(t)
    BY <2>2 DEF ReceiveApply, Goto, TypeOK, BusyIsRunning
  <2>3. CASE StartCommand(t)
    BY <2>3, BusyGoesOn DEF StartCommand, Goto, Places, ApplyPlaces
  <2>4. CASE CommandFails(t)
    BY <2>4 DEF CommandFails, agentVars, BusyIsRunning, Applying
  <2> QED
    BY <1>2, <2>1, <2>2, <2>3, <2>4 DEF Arrive
<1>3. ASSUME NEW t \in Tasks, Proceed(t) PROVE BusyIsRunning'
  <2>1. CASE PreflightConflict(t)
    <3>1. activeSwitch # t
      BY <2>1, NoTaskAssumption
      DEF PreflightConflict, Goto, BusyIsRunning, Applying, Places, ApplyPlaces
    <3> QED
      BY <2>1, <3>1, BusyEnds, KindsAssumption DEF PreflightConflict, Goto, agentVars
  <2>2. CASE StartSwitch(t)
    <3>1. /\ pc' = [pc EXCEPT ![t] = "resolve"] /\ t \in Switches /\ t \notin Applies
          /\ activeSwitch' = t /\ applyInFlight' = applyInFlight
      BY <2>2, KindsAssumption DEF StartSwitch, Goto
    <3>2. Applying(t)'
      BY <3>1 DEF TypeOK, Applying, Places, ApplyPlaces
    <3> QED
      BY <3>1, <3>2 DEF BusyIsRunning, TypeOK
  <2>3. CASE SwitchRefused(t)
    BY <2>3, BusyEnds, KindsAssumption DEF SwitchRefused, Goto
  <2>4. CASE ApplyRefused(t)
    <3>1. activeSwitch # t
      BY <2>4, KindsAssumption, NoTaskAssumption DEF ApplyRefused, BusyIsRunning
    <3> QED
      BY <2>4, <3>1, BusyEnds DEF ApplyRefused, Goto
  <2>5. CASE StartApply(t)
    BY <2>5, BusyGoesOn DEF StartApply, Goto, Places, ApplyPlaces
  <2>6. CASE Resolve(t)
    BY <2>6, BusyGoesOn DEF Resolve, Goto, Places, ApplyPlaces
  <2>7. CASE Write(t)
    BY <2>7, BusyGoesOn DEF Write, Goto, Places, ApplyPlaces
  <2>8. CASE Record(t)
    BY <2>8, BusyGoesOn DEF Record, Goto, Places, ApplyPlaces
  <2>9. CASE Cancel(t) \/ Point(t) \/ FailAndThrow(t)
    <3>1. Finish(t) /\ pc' = [pc EXCEPT ![t] = "idle"]
      BY <2>9 DEF Cancel, Point, FailAndThrow, Goto
    <3> QED
      BY <3>1, BusyEnds DEF Finish
  <2>10. CASE FailAndRestore(t)
    BY <2>10, BusyGoesOn DEF FailAndRestore, Places, ApplyPlaces
  <2> QED
    BY <1>3, <2>1, <2>2, <2>3, <2>4, <2>5, <2>6, <2>7, <2>8, <2>9, <2>10 DEF Proceed
<1>4. ASSUME NEW p \in Procs, ExitOrRecover(p) PROVE BusyIsRunning'
  <2>1. CASE ProcessExit(p)
    <3>1. pc' = [t \in Tasks |-> IF ProcOf[t] = p THEN "idle" ELSE pc[t]]
      BY <2>1 DEF ProcessExit
    <3>2. CASE \E t \in Switches \cup Applies : ProcOf[t] = p
      BY <2>1, <3>2 DEF ProcessExit, BusyIsRunning
    <3>3. CASE ~\E t \in Switches \cup Applies : ProcOf[t] = p
      <4>1. UNCHANGED agentVars /\ \A t \in Switches \cup Applies : pc'[t] = pc[t]
        BY <2>1, <3>1, <3>3, KindsAssumption DEF ProcessExit
      <4> QED
        BY <4>1 DEF agentVars, BusyIsRunning, Applying
    <3> QED
      BY <3>2, <3>3
  <2>2. CASE Recover(p)
    BY <2>2 DEF Recover, agentVars, BusyIsRunning, Applying
  <2> QED
    BY <1>4, <2>1, <2>2 DEF ExitOrRecover
<1>5. CASE Unpoint \/ \E q \in Profiles : Demote(q)
  BY <1>5 DEF Unpoint, Demote, agentVars, BusyIsRunning, Applying
<1> QED
  BY <1>1, <1>2, <1>3, <1>4, <1>5 DEF Next

\* Requests are turned down only while a switch or an apply runs, for any
\* number of overlapping requests, failures, crashes and deletions.
THEOREM TurnedDownOnlyWhileRunning == Spec => []BusyIsRunning
<1>1. Init => BusyIsRunning
  BY DEF Init, BusyIsRunning
<1> QED
  BY <1>1, TypeInit, TypeStep, BusyStep, PTL DEF Spec

-----------------------------------------------------------------------------
(* The lock, while no handle is joined, no process killed, no write failed *)

\* One call holds the lock, and its process can remove the file.
SoleHolder ==
  /\ \A t, u \in Tasks : handle[t] # "none" /\ handle[u] # "none" => t = u
  /\ lockFile # NoFile => lockFd[lockFile] /\ \E t \in Tasks : handle[t] = "owner"

LEMMA SoleHolderStep ==
  ASSUME LockInv, LockInv', SoleHolder, Undisturbed, Undisturbed', [LockNext]_lockVars
  PROVE  SoleHolder'
<1>0. /\ LockTypeOK /\ HeldByOneProcess /\ DepthCountsHandles
      /\ exits = 0 /\ writeErrors = 0 /\ exits' = 0 /\ writeErrors' = 0
      /\ \A t \in Tasks : handle[t] # "joined" /\ handle'[t] # "joined"
  BY DEF LockInv, Undisturbed
<1>1. CASE UNCHANGED lockVars
  BY <1>1 DEF lockVars, SoleHolder
<1>2. ASSUME NEW t \in Tasks, Acquire(t) PROVE SoleHolder'
  <2>1. ~JoinLock(t)
    BY <1>0 DEF JoinLock, LockTypeOK
  <2>2. /\ lockFile = NoFile /\ lockFile' = ProcOf[t] /\ ProcOf[t] \in Procs
        /\ lockFd' = [lockFd EXCEPT ![ProcOf[t]] = TRUE]
        /\ handle' = [handle EXCEPT ![t] = "owner"]
    BY <1>2, <2>1, ProcOfAssumption DEF Acquire, OpenLock
  <2>3. \A u \in Tasks : handle[u] = "none"
    BY <2>2, NoFileNoHandle
  <2> QED
    BY <1>0, <2>2, <2>3 DEF SoleHolder, LockTypeOK
<1>3. ASSUME NEW t \in Tasks, LockWriteError(t) PROVE SoleHolder'
  BY <1>0, <1>3 DEF LockWriteError
<1>4. ASSUME NEW t \in Tasks, Release(t) PROVE SoleHolder'
  <2>1. handle[t] = "owner" /\ ~ReleaseJoined(t)
    BY <1>0, <1>4 DEF Release, ReleaseJoined, ReleaseShared, ReleaseLast
  <2>2. Holders(ProcOf[t]) = {t}
    BY <2>1 DEF SoleHolder, Holders
  <2>3. lockDepth[ProcOf[t]] = 1 /\ lockFile = ProcOf[t]
    BY <1>0, <2>1, <2>2, FS_Singleton, ProcOfAssumption DEF DepthCountsHandles, HeldByOneProcess
  <2>4. ReleaseLast(t)
    BY <1>4, <2>1, <2>3 DEF Release, ReleaseShared
  <2>5. lockFile' = NoFile /\ handle' = [handle EXCEPT ![t] = "none"]
    BY <2>3, <2>4, ProcOfAssumption, NoFileAssumption DEF ReleaseLast, SoleHolder
  <2> QED
    BY <1>0, <2>5 DEF SoleHolder, LockTypeOK
<1>5. ASSUME NEW p \in Procs, Exit(p) PROVE SoleHolder'
  BY <1>0, <1>5 DEF Exit
<1>6. ASSUME NEW p \in Procs, Start(p) \/ UserRemovesLock(p) PROVE SoleHolder'
  BY <1>6 DEF Start, UserRemovesLock, SoleHolder
<1>7. ASSUME NEW t \in Tasks, Refused(t) PROVE SoleHolder'
  BY <1>7 DEF Refused, lockVars, SoleHolder
<1> QED
  BY <1>1, <1>2, <1>3, <1>4, <1>5, <1>6, <1>7 DEF LockNext

\* A joined handle is the one way, besides a crash or a failed write, to a
\* lock file that outlives the calls that took it: where none of these happens
\* every way out of an apply gives the lock back.
THEOREM LockOutlivesNoCall == Spec /\ []Undisturbed => []~Stale
<1> DEFINE Inv == LockInv /\ SoleHolder
<1>1. Init => Inv
  BY LockInitInvariant DEF Init, LockInit, SoleHolder
<1>2. Inv /\ Undisturbed /\ Undisturbed' /\ [Next]_vars => Inv'
  BY StepOfLock, LockStepInvariant, SoleHolderStep
<1>3. Inv => ~Stale
  BY DEF SoleHolder, Stale
<1> QED
  BY <1>1, <1>2, <1>3, PTL DEF Spec

-----------------------------------------------------------------------------
(* The home, when each call has a process of its own *)

HomeInv ==
  /\ DemotedIsGone
  /\ StagesDone
  /\ FilesAreListed
  /\ HomeMatches
  /\ BaselineIsCurrent

\* What every lemma below starts from.
Before == OneTaskPerProcess /\ SwitchInv /\ HomeInv

\* A step of t before or after an apply, or at its start, leaves the home, and
\* what was said of it.
LEMMA OutsideStep ==
  ASSUME Before, SwitchInv', [Next]_vars, NEW t \in Tasks, Arrive(t) \/ Proceed(t),
         UNCHANGED homeVars,
         pc[t] \notin {"record", "point"}, pc'[t] \notin {"write", "record", "point"},
         \/ ~Applying(t)'
         \/ failed'[t] # NoProfile
         \/ t \in Applies
         \/ previous'[t] = pointer
  PROVE  HomeInv'
<1>0. SwitchInv /\ HomeInv /\ TypeOK /\ TypeOK' /\ (Calm' => Calm)
  BY CalmBefore DEF Before, SwitchInv
<1>1. /\ \A u \in Tasks \ {t} : /\ pc'[u] = pc[u] /\ target'[u] = target[u]
                                /\ previous'[u] = previous[u] /\ failed'[u] = failed[u]
                                /\ tracked'[u] = tracked[u]
      /\ UNCHANGED <<library, demoting, pointerLost, pointer, home, snapshots>>
  BY <1>0, OthersKeep DEF libraryVars, homeVars
<1>2. DemotedIsGone'
  BY <1>0, <1>1 DEF HomeInv, DemotedIsGone
<1>3. StagesDone'
  BY <1>0, <1>1 DEF HomeInv, StagesDone
<1>4. Written' = Written
  BY <1>1 DEF Written
<1>5. FilesAreListed'
  BY <1>0, <1>1, <1>4 DEF HomeInv, FilesAreListed
<1>6. HomeMatches'
  BY <1>0, <1>1 DEF HomeInv, HomeMatches, HomeOf
<1>7. BaselineIsCurrent'
  BY <1>0, <1>1, KindsAssumption DEF HomeInv, BaselineIsCurrent, Applying
<1> QED
  BY <1>2, <1>3, <1>5, <1>6, <1>7 DEF HomeInv

\* The target and the baseline of an apply that goes on are those it had.
LEMMA GoesOn ==
  ASSUME Before, NEW t \in Tasks, Applying(t), pointer' = pointer,
         UNCHANGED <<target, previous, failed, libraryVars>>,
         \A u \in Tasks \ {t} : pc'[u] = pc[u]
  PROVE  BaselineIsCurrent' /\ DemotedIsGone'
<1>1. DemotedIsGone'
  BY DEF Before, HomeInv, DemotedIsGone, libraryVars
<1>2. \A u \in Tasks : Applying(u)' => Applying(u)
  BY DEF Applying
<1>3. UNCHANGED <<library, pointerLost>>
  BY DEF libraryVars
<1> QED
  BY <1>1, <1>2, <1>3, KindsAssumption DEF Before, HomeInv, BaselineIsCurrent

LEMMA ResolveStep ==
  ASSUME Before, SwitchInv', [Next]_vars, NEW t \in Tasks, Resolve(t), UNCHANGED libraryVars
  PROVE  HomeInv'
<1>0. TypeOK /\ HomeInv /\ (Calm' => Calm)
  BY CalmBefore DEF Before, SwitchInv
<1>1. /\ pc[t] = "resolve" /\ pc' = [pc EXCEPT ![t] = "write"]
      /\ tracked' = [tracked EXCEPT ![t] = TrackedBy(target[t])]
      /\ UNCHANGED <<target, previous, failed, pointer, home, snapshots, library>>
  BY DEF Resolve, Goto, homeVars, libraryVars
<1>2. Applying(t) /\ \A u \in Tasks \ {t} : pc'[u] = pc[u]
  BY <1>0, <1>1 DEF Applying, ApplyPlaces, Places, TypeOK
<1>3. snapshots \subseteq tracked'[t]
  BY <1>0, <1>1 DEF TrackedBy, TypeOK
<1>4. StagesDone'
  BY <1>0, <1>1, <1>3 DEF HomeInv, StagesDone, TypeOK
<1>5. Written' = Written
  BY <1>0, <1>1 DEF Written, TypeOK
<1>6. FilesAreListed'
  BY <1>0, <1>1, <1>5 DEF HomeInv, FilesAreListed
<1>7. HomeMatches'
  BY <1>0, <1>1 DEF HomeInv, HomeMatches, HomeOf, TypeOK
<1> QED
  BY <1>1, <1>2, <1>4, <1>6, <1>7, GoesOn DEF HomeInv

LEMMA WriteStep ==
  ASSUME Before, SwitchInv', [Next]_vars, NEW t \in Tasks, Write(t), UNCHANGED libraryVars
  PROVE  HomeInv'
<1>0. SwitchInv /\ OneTaskPerProcess /\ TypeOK /\ TargetIsProfile /\ HomeInv /\ (Calm' => Calm)
  BY CalmBefore DEF Before, SwitchInv
<1>1. /\ pc[t] = "write" /\ pc' = [pc EXCEPT ![t] = "record"]
      /\ home' = [home EXCEPT ![target[t]] = "all"]
      /\ UNCHANGED <<target, previous, failed, tracked, pointer, snapshots, library>>
  BY DEF Write, Goto, taskVars, libraryVars
<1>2. Applying(t) /\ \A u \in Tasks \ {t} : pc'[u] = pc[u]
  BY <1>0, <1>1 DEF Applying, ApplyPlaces, Places, TypeOK
<1>3. target[t] \in Profiles
  BY <1>0, <1>2 DEF TargetIsProfile
<1>4. \A u \in Tasks \ {t} : ~Applying(u)'
  BY <1>0, <1>2, OthersIdle
<1>5. pc'[t] = "record" /\ home'[target[t]] = "all" /\ snapshots' \subseteq tracked'[t]
  BY <1>0, <1>1, <1>3 DEF HomeInv, StagesDone, TypeOK
<1>6. StagesDone'
  BY <1>1, <1>4, <1>5 DEF StagesDone, Applying, ApplyPlaces, Places
<1>7. target[t] \in Written' /\ Written \subseteq Written'
  BY <1>0, <1>1 DEF Written, TypeOK
<1>8. FilesAreListed'
  BY <1>0, <1>1, <1>7 DEF HomeInv, FilesAreListed, TypeOK
<1>9. HomeMatches'
  BY <1>5 DEF HomeMatches
<1> QED
  BY <1>1, <1>2, <1>6, <1>8, <1>9, GoesOn DEF HomeInv

LEMMA RecordStep ==
  ASSUME Before, SwitchInv', [Next]_vars, NEW t \in Tasks, Record(t), UNCHANGED libraryVars
  PROVE  HomeInv'
<1>0. SwitchInv /\ OneTaskPerProcess /\ TypeOK /\ TargetIsProfile /\ HomeInv /\ (Calm' => Calm)
  BY CalmBefore DEF Before, SwitchInv
<1>1. /\ pc[t] = "record" /\ pc' = [pc EXCEPT ![t] = "point"]
      /\ snapshots' = snapshots \cup {target[t]}
      /\ home' = [q \in Profiles |-> IF q \in tracked[t] \ {target[t]} THEN "none" ELSE home[q]]
      /\ UNCHANGED <<target, previous, failed, tracked, pointer, library>>
  BY DEF Record, Goto, taskVars, libraryVars
<1>2. Applying(t) /\ \A u \in Tasks \ {t} : pc'[u] = pc[u]
  BY <1>0, <1>1 DEF Applying, ApplyPlaces, Places, TypeOK
<1>3. target[t] \in Profiles
  BY <1>0, <1>2 DEF TargetIsProfile
<1>4. \A u \in Tasks \ {t} : ~Applying(u) /\ ~Applying(u)'
  BY <1>0, <1>2, OthersIdle
<1>5. snapshots \subseteq tracked[t] /\ home[target[t]] = "all"
  BY <1>0, <1>1 DEF HomeInv, StagesDone
<1>6. /\ pc'[t] = "point" /\ home'[target[t]] = "all" /\ target[t] \in snapshots'
      /\ \A q \in snapshots' \ {target[t]} : home'[q] = "none"
  BY <1>0, <1>1, <1>3, <1>5 DEF TypeOK
<1>7. StagesDone'
  BY <1>1, <1>4, <1>6 DEF StagesDone, Applying, ApplyPlaces, Places
<1>8. Written \subseteq {target[t]}
  BY <1>4 DEF Written, Applying, ApplyPlaces, Places
<1>9. FilesAreListed'
  BY <1>0, <1>1, <1>5, <1>8 DEF HomeInv, FilesAreListed
<1>10. HomeMatches'
  BY <1>6 DEF HomeMatches
<1> QED
  BY <1>1, <1>2, <1>7, <1>9, <1>10, GoesOn DEF HomeInv

LEMMA PointStep ==
  ASSUME Before, SwitchInv', [Next]_vars, NEW t \in Tasks, Point(t), UNCHANGED libraryVars,
         Arrive(t) \/ Proceed(t)
  PROVE  HomeInv'
<1>0. SwitchInv /\ OneTaskPerProcess /\ TypeOK /\ TargetIsProfile /\ HomeInv /\ (Calm' => Calm)
  BY CalmBefore DEF Before, SwitchInv
<1>1. /\ pc[t] = "point" /\ pc' = [pc EXCEPT ![t] = "idle"]
      /\ pointer' = target[t]
      /\ UNCHANGED <<home, snapshots, library, demoting>>
  BY DEF Point, Goto, libraryVars
<1>2. Applying(t) /\ \A u \in Tasks \ {t} : pc'[u] = pc[u]
  BY <1>0, <1>1 DEF Applying, ApplyPlaces, Places, TypeOK
<1>3. target[t] \in Profiles
  BY <1>0, <1>2 DEF TargetIsProfile
<1>4. \A u \in Tasks : ~Applying(u)'
  <2>1. \A u \in Tasks \ {t} : ~Applying(u)'
    BY <1>0, <1>2, OthersIdle
  <2>2. ~Applying(t)'
    BY <1>0, <1>1 DEF Applying, ApplyPlaces, Places, TypeOK
  <2> QED
    BY <2>1, <2>2
<1>5. /\ home[target[t]] = "all"
      /\ \A q \in snapshots \ {target[t]} : home[q] = "none"
  BY <1>0, <1>1 DEF HomeInv, StagesDone
<1>6. StagesDone' /\ BaselineIsCurrent'
  BY <1>4, KindsAssumption DEF StagesDone, BaselineIsCurrent, Applying, ApplyPlaces, Places
<1>7. Written = {}
  <2>1. \A u \in Tasks \ {t} : ~Applying(u)
    BY <1>0, <1>2, OthersIdle
  <2> QED
    BY <1>1, <2>1 DEF Written, Applying, ApplyPlaces, Places
<1>8. Calm => \A q \in Profiles : home[q] # "none" => q = target[t]
  BY <1>0, <1>5, <1>7 DEF HomeInv, FilesAreListed
<1>9. FilesAreListed'
  BY <1>0, <1>1, <1>7 DEF HomeInv, FilesAreListed
<1>10. HomeMatches'
  BY <1>0, <1>1, <1>3, <1>5, <1>8 DEF HomeMatches, HomeOf, TypeOK
<1>11. DemotedIsGone'
  BY <1>0, <1>1 DEF HomeInv, DemotedIsGone
<1> QED
  BY <1>6, <1>9, <1>10, <1>11 DEF HomeInv

\* A failure ends the apply, or starts that of the baseline; what it leaves in
\* the home matters only while everything is calm, and then it leaves nothing.
LEMMA FailStep ==
  ASSUME Before, SwitchInv', [Next]_vars, NEW t \in Tasks, FailAndThrow(t) \/ FailAndRestore(t),
         Arrive(t) \/ Proceed(t)
  PROVE  HomeInv'
<1>0. SwitchInv /\ OneTaskPerProcess /\ TypeOK /\ TargetIsProfile /\ HomeInv /\ (Calm' => Calm)
  BY CalmBefore DEF Before, SwitchInv
<1>1. /\ Fails(t) /\ Applying(t)
      /\ \/ pc' = [pc EXCEPT ![t] = "idle"]
         \/ pc' = [pc EXCEPT ![t] = "resolve"] /\ failed' = [failed EXCEPT ![t] = target[t]]
  BY DEF FailAndThrow, FailAndRestore, Fails, Goto, Applying, ApplyPlaces, Places
<1>2. pc'[t] \in {"idle", "resolve"} /\ (Applying(t)' => failed'[t] # NoProfile)
  BY <1>0, <1>1, NoProfileAssumption DEF TypeOK, TargetIsProfile, Applying, ApplyPlaces, Places
<1>3. /\ \A u \in Tasks \ {t} : pc'[u] = pc[u]
      /\ UNCHANGED libraryVars
  BY <1>0, OthersKeep
<1>4. \A u \in Tasks \ {t} : ~Applying(u)'
  BY <1>0, <1>1, <1>3, OthersIdle
<1>5. CASE failures' = 0
  <2>1. pc[t] = "resolve" /\ UNCHANGED homeVars
    BY <1>0, <1>1, <1>5, CalmFailure
  <2> QED
    BY <1>2, <2>1, OutsideStep
<1>6. CASE failures' # 0
  <2>1. StagesDone'
    BY <1>2, <1>4 DEF StagesDone, Applying, ApplyPlaces, Places
  <2>2. BaselineIsCurrent'
    BY <1>2, <1>4, KindsAssumption DEF BaselineIsCurrent
  <2>3. FilesAreListed' /\ HomeMatches'
    BY <1>6 DEF FilesAreListed, HomeMatches, Calm
  <2> QED
    BY <1>0, <1>3, <2>1, <2>2, <2>3 DEF HomeInv, DemotedIsGone, libraryVars
<1> QED
  BY <1>5, <1>6

\* The calls of a process that is gone are over, and nothing is calm any more.
LEMMA KillStep ==
  ASSUME Before, SwitchInv', NEW p \in Procs, ProcessExit(p), UNCHANGED libraryVars
  PROVE  HomeInv'
<1>0. SwitchInv /\ OneTaskPerProcess /\ TypeOK /\ HomeInv
  BY DEF Before, SwitchInv
<1>1. /\ pc' = [t \in Tasks |-> IF ProcOf[t] = p THEN "idle" ELSE pc[t]]
      /\ previous' = [t \in Tasks |-> IF ProcOf[t] = p THEN NoProfile ELSE previous[t]]
      /\ target' = [t \in Tasks |-> IF ProcOf[t] = p THEN NoProfile ELSE target[t]]
      /\ failed' = [t \in Tasks |-> IF ProcOf[t] = p THEN NoProfile ELSE failed[t]]
      /\ tracked' = [t \in Tasks |-> IF ProcOf[t] = p THEN {} ELSE tracked[t]]
  BY DEF ProcessExit
<1>2. ~Calm'
  BY <1>0, BoundsAssumption DEF ProcessExit, Exit, Calm, TypeOK, LockTypeOK
<1>3. FilesAreListed' /\ HomeMatches' /\ DemotedIsGone'
  BY <1>0, <1>2 DEF FilesAreListed, HomeMatches, HomeInv, DemotedIsGone, libraryVars
<1>4. CASE UNCHANGED homeVars
  BY <1>0, <1>1, <1>3, <1>4, KindsAssumption
  DEF HomeInv, StagesDone, BaselineIsCurrent, Applying, ApplyPlaces, Places, homeVars, libraryVars
<1>5. ASSUME NEW t \in Holders(p), LeavesPartial(t) PROVE HomeInv'
  <2>1. \A u \in Tasks : Applying(u) => ProcOf[u] = p
    BY <1>0, <1>5 DEF Holders, SwitchInv, LockInv, HeldByOneProcess, AppliesWithHandle
  <2>2. \A u \in Tasks : ~Applying(u)'
    BY <1>1, <2>1 DEF Applying, ApplyPlaces, Places
  <2>3. StagesDone' /\ BaselineIsCurrent'
    BY <2>2, KindsAssumption DEF StagesDone, BaselineIsCurrent, Applying, ApplyPlaces, Places
  <2> QED
    BY <1>3, <2>3 DEF HomeInv
<1> QED
  BY <1>4, <1>5 DEF ProcessExit

\* A deletion moves the pointer from the profile it deletes, or loses it.
LEMMA DeletionStep ==
  ASSUME Before, SwitchInv', [Next]_vars, Unpoint \/ \E q \in Profiles : Demote(q)
  PROVE  HomeInv'
<1>0. TypeOK /\ HomeInv /\ (Calm' => Calm)
  BY CalmBefore DEF Before, SwitchInv
<1>1. /\ UNCHANGED <<home, snapshots, pc, target, previous, failed, tracked>>
      /\ library' \subseteq library
  BY DEF Unpoint, Demote, taskVars, homeVars
<1>2. StagesDone' /\ Written' = Written
  BY <1>0, <1>1 DEF HomeInv, StagesDone, Written
<1>3. FilesAreListed'
  BY <1>0, <1>1, <1>2 DEF HomeInv, FilesAreListed
<1>4. CASE Unpoint
  <2>1. /\ pointer' = NoProfile /\ demoting # NoProfile /\ demoting' = NoProfile
        /\ library' = library /\ (~pointerLost' => ~pointerLost /\ pointer = demoting)
    BY <1>4 DEF Unpoint
  <2>2. demoting \notin library
    BY <1>0 DEF HomeInv, DemotedIsGone
  <2>3. DemotedIsGone'
    BY <1>0, <2>1, NoProfileAssumption DEF DemotedIsGone, TypeOK
  <2>4. BaselineIsCurrent'
    BY <1>0, <1>1, <2>1, <2>2 DEF HomeInv, BaselineIsCurrent, Applying
  <2>5. HomeMatches'
    BY <1>0, <1>1, <2>1, <2>2, NoProfileAssumption DEF HomeInv, HomeMatches, HomeOf, Calm, TypeOK
  <2> QED
    BY <1>2, <1>3, <2>3, <2>4, <2>5 DEF HomeInv
<1>5. ASSUME NEW q \in Profiles, Demote(q) PROVE HomeInv'
  <2>1. /\ library' = library \ {q} /\ demoting' \in {q, NoProfile}
        /\ UNCHANGED <<pointer, pointerLost>>
    BY <1>5 DEF Demote, homeVars
  <2>2. DemotedIsGone'
    BY <1>0, <2>1, NoProfileAssumption DEF DemotedIsGone, TypeOK
  <2>3. BaselineIsCurrent'
    BY <1>0, <1>1, <2>1 DEF HomeInv, BaselineIsCurrent, Applying
  <2>4. HomeMatches'
    BY <1>0, <1>1, <2>1 DEF HomeInv, HomeMatches, HomeOf, TypeOK
  <2> QED
    BY <1>2, <1>3, <2>2, <2>3, <2>4 DEF HomeInv
<1> QED
  BY <1>4, <1>5

\* Every step keeps what is said of the home.
LEMMA HomeStep == Before /\ [Next]_vars => HomeInv'
<1> SUFFICES ASSUME Before, [Next]_vars PROVE HomeInv'
  OBVIOUS
<1>0. SwitchInv /\ SwitchInv' /\ TypeOK
  BY SwitchInvStep DEF Before, SwitchInv
<1>1. CASE UNCHANGED vars
  BY <1>1
  DEF vars, lockVars, homeVars, taskVars, libraryVars, Before, HomeInv, DemotedIsGone,
      StagesDone, FilesAreListed, HomeMatches, BaselineIsCurrent, Written, Calm, HomeOf, Applying
<1>2. ASSUME NEW t \in Tasks, Arrive(t) PROVE HomeInv'
  <2>1. UNCHANGED homeVars
    BY <1>2 DEF Arrive, ReceiveSwitch, ReceiveApply, StartCommand, CommandFails
  <2>2. pc[t] = "idle"
    BY <1>2 DEF Arrive, ReceiveSwitch, ReceiveApply, StartCommand, CommandFails, Goto
  <2>3. \/ pc'[t] \in {"idle", "preflight"}
        \/ pc'[t] = "resolve" /\ previous'[t] = pointer
    BY <1>0, <1>2
    DEF Arrive, ReceiveSwitch, ReceiveApply, StartCommand, CommandFails, Goto, TypeOK
  <2> QED
    BY <1>0, <1>2, <2>1, <2>2, <2>3, OutsideStep DEF Applying, ApplyPlaces, Places
<1>3. ASSUME NEW t \in Tasks, Proceed(t) PROVE HomeInv'
  <2>0. UNCHANGED libraryVars
    BY <1>3 DEF Proceed
  <2>1. CASE PreflightConflict(t) \/ SwitchRefused(t) \/ ApplyRefused(t) \/ Cancel(t)
    <3>1. UNCHANGED homeVars /\ pc[t] \in {"preflight", "write"} /\ pc' = [pc EXCEPT ![t] = "idle"]
      BY <2>1 DEF PreflightConflict, SwitchRefused, ApplyRefused, Cancel, Goto
    <3>2. pc'[t] = "idle" /\ ~Applying(t)'
      BY <1>0, <3>1 DEF TypeOK, Applying, ApplyPlaces, Places
    <3> QED
      BY <1>0, <1>3, <3>1, <3>2, OutsideStep
  <2>2. CASE StartSwitch(t) \/ StartApply(t)
    <3>1. UNCHANGED homeVars /\ pc[t] = "preflight" /\ pc' = [pc EXCEPT ![t] = "resolve"]
      BY <2>2 DEF StartSwitch, StartApply, Goto
    <3>2. pc'[t] = "resolve" /\ (t \in Applies \/ previous'[t] = pointer)
      BY <1>0, <2>2, <3>1 DEF StartSwitch, StartApply, TypeOK
    <3> QED
      BY <1>0, <1>3, <3>1, <3>2, OutsideStep
  <2>3. CASE Resolve(t) \/ Write(t) \/ Record(t)
    BY <1>0, <2>0, <2>3, ResolveStep, WriteStep, RecordStep
  <2>4. CASE Point(t)
    BY <1>0, <1>3, <2>0, <2>4, PointStep
  <2>5. CASE FailAndRestore(t) \/ FailAndThrow(t)
    BY <1>0, <1>3, <2>5, FailStep
  <2> QED
    BY <1>3, <2>1, <2>2, <2>3, <2>4, <2>5 DEF Proceed
<1>4. ASSUME NEW p \in Procs, ExitOrRecover(p) PROVE HomeInv'
  <2>1. CASE ProcessExit(p)
    BY <1>0, <1>4, <2>1, KillStep DEF ExitOrRecover
  <2>2. CASE Recover(p)
    <3>1. UNCHANGED <<homeVars, pc, taskVars, failures, libraryVars, exits>>
      BY <1>4, <2>2 DEF ExitOrRecover, Recover, Start, UserRemovesLock
    <3> QED
      BY <3>1
      DEF homeVars, taskVars, libraryVars, Before, HomeInv, DemotedIsGone, StagesDone,
          FilesAreListed, HomeMatches, BaselineIsCurrent, Written, Calm, HomeOf, Applying
  <2> QED
    BY <1>4, <2>1, <2>2 DEF ExitOrRecover
<1>5. CASE Unpoint \/ \E q \in Profiles : Demote(q)
  BY <1>0, <1>5, DeletionStep
<1> QED
  BY <1>1, <1>2, <1>3, <1>4, <1>5 DEF Next

\* It holds of the first state.
LEMMA HomeInit == Init => HomeInv
<1> SUFFICES ASSUME Init PROVE HomeInv
  OBVIOUS
<1>1. /\ \A t \in Tasks : pc[t] = "idle"
      /\ home = HomeOf(pointer)
      /\ pointer \in Profiles => pointer \in snapshots
      /\ library = Profiles /\ demoting = NoProfile
  BY NoProfileAssumption DEF Init
<1> QED
  BY <1>1, NoProfileAssumption, KindsAssumption
  DEF HomeInv, DemotedIsGone, StagesDone, FilesAreListed, HomeMatches, BaselineIsCurrent,
      HomeOf, Applying, ApplyPlaces, Places

\* So it holds of every state.
LEMMA HomeInvariance ==
  ASSUME OneTaskPerProcess
  PROVE  Spec => [](SwitchInv /\ HomeInv)
<1>1. Init => SwitchInv /\ HomeInv
  BY SwitchInvInit, HomeInit
<1>2. SwitchInv /\ HomeInv /\ [Next]_vars => (SwitchInv /\ HomeInv)'
  BY SwitchInvStep, HomeStep DEF Before
<1> QED
  BY <1>1, <1>2, PTL DEF Spec

-----------------------------------------------------------------------------
(* Theorems *)

\* With each call in a process of its own, the profile a switch would restore
\* is the active one, through failures, kills and deletions.
THEOREM BaselineStaysCurrent ==
  ASSUME OneTaskPerProcess
  PROVE  Spec => []BaselineIsCurrent
<1>1. HomeInv => BaselineIsCurrent
  BY DEF HomeInv
<1> QED
  BY <1>1, HomeInvariance, PTL

\* While nothing fails, the profile whose files are in the home is the active
\* one, whatever is deleted and in whatever order the calls run.
THEOREM ActiveProfileIsInHome ==
  ASSUME OneTaskPerProcess
  PROVE  Spec => []PointerNamesHome
<1>1. HomeInv => PointerNamesHome
  BY DEF HomeInv, HomeMatches, PointerNamesHome, Quiet, Applying, ApplyPlaces, Places
<1> QED
  BY <1>1, HomeInvariance, PTL

\* An apply that completes cleans up after every one before it, the failed and
\* the killed ones included.
THEOREM ApplyCleansUp ==
  ASSUME OneTaskPerProcess
  PROVE  Spec => CompletedApplyIsClean
<1>1. SwitchInv /\ HomeInv =>
        \A t \in Tasks : Point(t) =>
          /\ home'[target[t]] = "all"
          /\ \A q \in snapshots' \ {target[t]} : home'[q] = "none"
  BY DEF HomeInv, StagesDone, Point, Goto
<1> QED
  BY <1>1, HomeInvariance, PTL DEF CompletedApplyIsClean
=============================================================================
