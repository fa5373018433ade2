----------------------- MODULE ProfileApplyLock_proofs -----------------------
(***************************************************************************)
(* Safety of the profile apply lock for every set of processes and tasks   *)
(* and every bound on exits, starts and write errors: the calls that hold  *)
(* it are of one process, its counter is exact, and it implements a lock   *)
(* between processes.                                                      *)
(***************************************************************************)
EXTENDS ProfileApplyLock, FiniteSetTheorems, TLAPS

-----------------------------------------------------------------------------
(* Handles *)

\* The holders of a process are finitely many.
LEMMA HoldersFinite ==
  ASSUME NEW p \in Procs
  PROVE  IsFiniteSet(Holders(p)) /\ Cardinality(Holders(p)) \in Nat
<1>1. Holders(p) \in SUBSET Tasks
  BY DEF Holders
<1> QED
  BY <1>1, TasksAssumption, FS_Subset, FS_CardinalityType

\* A handle given out is one more holder.
LEMMA HoldersAdd ==
  ASSUME LockTypeOK, NEW t \in Tasks, handle[t] = "none", NEW h \in {"owner", "joined"},
         handle' = [handle EXCEPT ![t] = h]
  PROVE  /\ Holders(ProcOf[t])' = Holders(ProcOf[t]) \cup {t}
         /\ Cardinality(Holders(ProcOf[t]))' = Cardinality(Holders(ProcOf[t])) + 1
         /\ \A p \in Procs \ {ProcOf[t]} : Holders(p)' = Holders(p)
<1>1. Holders(ProcOf[t])' = Holders(ProcOf[t]) \cup {t} /\ t \notin Holders(ProcOf[t])
  BY DEF Holders, LockTypeOK
<1>2. \A p \in Procs \ {ProcOf[t]} : Holders(p)' = Holders(p)
  BY DEF Holders, LockTypeOK
<1>3. IsFiniteSet(Holders(ProcOf[t]))
  BY HoldersFinite, ProcOfAssumption
<1> QED
  BY <1>1, <1>2, <1>3, FS_AddElement

\* A handle released is one holder less.
LEMMA HoldersRemove ==
  ASSUME LockTypeOK, NEW t \in Tasks, handle[t] # "none",
         handle' = [handle EXCEPT ![t] = "none"]
  PROVE  /\ Holders(ProcOf[t])' = Holders(ProcOf[t]) \ {t}
         /\ Cardinality(Holders(ProcOf[t]))' = Cardinality(Holders(ProcOf[t])) - 1
         /\ \A p \in Procs \ {ProcOf[t]} : Holders(p)' = Holders(p)
<1>1. Holders(ProcOf[t])' = Holders(ProcOf[t]) \ {t} /\ t \in Holders(ProcOf[t])
  BY DEF Holders, LockTypeOK
<1>2. \A p \in Procs \ {ProcOf[t]} : Holders(p)' = Holders(p)
  BY DEF Holders, LockTypeOK
<1>3. IsFiniteSet(Holders(ProcOf[t]))
  BY HoldersFinite, ProcOfAssumption
<1> QED
  BY <1>1, <1>2, <1>3, FS_RemoveElement

\* A process whose counter is 0 has no holder.
LEMMA NoDepthNoHolder ==
  ASSUME LockInv, NEW p \in Procs, lockDepth[p] <= 0
  PROVE  Holders(p) = {}
<1>1. Cardinality(Holders(p)) = 0
  BY HoldersFinite DEF LockInv, DepthCountsHandles
<1> QED
  BY <1>1, HoldersFinite, FS_EmptySet

\* Nobody holds a handle while there is no file.
LEMMA NoFileNoHandle ==
  ASSUME LockInv, lockFile = NoFile
  PROVE  \A t \in Tasks : handle[t] = "none"
BY ProcOfAssumption, NoFileAssumption DEF LockInv, HeldByOneProcess

\* Only processes that run hold handles.
LEMMA HolderIsAlive ==
  ASSUME LockInv, NEW t \in Tasks, handle[t] # "none"
  PROVE  ProcOf[t] \in alive
<1>1. t \in Holders(ProcOf[t]) /\ ProcOf[t] \in Procs
  BY ProcOfAssumption DEF Holders
<1> QED
  BY <1>1 DEF LockInv, GoneHoldsNothing

-----------------------------------------------------------------------------
(* The invariant *)

LEMMA LockTypeStep == LockTypeOK /\ [LockNext]_lockVars => LockTypeOK'
<1> SUFFICES ASSUME LockTypeOK, [LockNext]_lockVars PROVE LockTypeOK'
  OBVIOUS
<1> USE ProcOfAssumption, BoundsAssumption DEF LockTypeOK
<1>1. CASE UNCHANGED lockVars
  BY <1>1 DEF lockVars
<1>2. ASSUME NEW t \in Tasks, Acquire(t) PROVE LockTypeOK'
  <2>1. CASE JoinLock(t)
    BY <2>1 DEF JoinLock
  <2>2. CASE OpenLock(t)
    <3>1. lockFd' \in [Procs -> BOOLEAN]
      BY <2>2 DEF OpenLock
    <3> QED
      BY <2>2, <3>1 DEF OpenLock
  <2> QED
    BY <1>2, <2>1, <2>2 DEF Acquire
<1>3. ASSUME NEW t \in Tasks, LockWriteError(t) PROVE LockTypeOK'
  <2>1. lockFd' \in [Procs -> BOOLEAN]
    BY <1>3 DEF LockWriteError
  <2> QED
    BY <1>3, <2>1 DEF LockWriteError
<1>4. ASSUME NEW t \in Tasks, Refused(t) PROVE LockTypeOK'
  BY <1>4 DEF Refused, lockVars
<1>5. ASSUME NEW t \in Tasks, Release(t) PROVE LockTypeOK'
  <2>1. CASE ReleaseJoined(t)
    BY <2>1 DEF ReleaseJoined
  <2>2. CASE ReleaseShared(t)
    BY <2>2 DEF ReleaseShared
  <2>3. CASE ReleaseLast(t)
    <3>1. lockFd' \in [Procs -> BOOLEAN]
      BY <2>3 DEF ReleaseLast
    <3>2. lockFile' \in Procs \cup {NoFile}
      BY <2>3 DEF ReleaseLast
    <3> QED
      BY <2>3, <3>1, <3>2 DEF ReleaseLast
  <2> QED
    BY <1>5, <2>1, <2>2, <2>3 DEF Release
<1>6. ASSUME NEW p \in Procs, Exit(p) \/ Start(p) \/ UserRemovesLock(p) PROVE LockTypeOK'
  <2>1. CASE Exit(p)
    BY <2>1 DEF Exit
  <2>2. CASE Start(p)
    BY <2>2 DEF Start
  <2>3. CASE UserRemovesLock(p)
    BY <2>3 DEF UserRemovesLock
  <2> QED
    BY <1>6, <2>1, <2>2, <2>3
<1> QED
  BY <1>1, <1>2, <1>3, <1>4, <1>5, <1>6 DEF LockNext

LEMMA JoinLockStep ==
  ASSUME LockInv, LockTypeOK', NEW t \in Tasks, JoinLock(t)
  PROVE  LockInv'
<1> DEFINE p == ProcOf[t]
<1>1. LockTypeOK /\ HeldByOneProcess /\ DepthCountsHandles /\ GoneHoldsNothing
  BY DEF LockInv
<1>2. /\ p \in alive /\ p \in Procs /\ handle[t] = "none" /\ lockDepth[p] > 0
      /\ lockDepth' = [lockDepth EXCEPT ![p] = @ + 1]
      /\ handle' = [handle EXCEPT ![t] = "joined"]
      /\ UNCHANGED <<lockFile, alive, lockFd>>
  BY ProcOfAssumption DEF JoinLock
<1>3. /\ Cardinality(Holders(p))' = Cardinality(Holders(p)) + 1
      /\ \A q \in Procs \ {p} : Holders(q)' = Holders(q)
  BY <1>1, <1>2, HoldersAdd
<1>4. lockFile = p
  <2>1. Holders(p) # {}
    BY <1>1, <1>2, FS_EmptySet DEF DepthCountsHandles
  <2> QED
    BY <1>1, <2>1 DEF Holders, HeldByOneProcess
<1>5. HeldByOneProcess'
  BY <1>1, <1>2, <1>4 DEF HeldByOneProcess, LockTypeOK
<1>6. DepthCountsHandles'
  BY <1>1, <1>2, <1>3 DEF DepthCountsHandles, LockTypeOK
<1>7. GoneHoldsNothing'
  BY <1>1, <1>2, <1>3 DEF GoneHoldsNothing, LockTypeOK
<1> QED
  BY <1>5, <1>6, <1>7 DEF LockInv

LEMMA OpenLockStep ==
  ASSUME LockInv, LockTypeOK', NEW t \in Tasks, OpenLock(t)
  PROVE  LockInv'
<1> DEFINE p == ProcOf[t]
<1>1. LockTypeOK /\ HeldByOneProcess /\ DepthCountsHandles /\ GoneHoldsNothing
  BY DEF LockInv
<1>2. /\ p \in alive /\ p \in Procs /\ handle[t] = "none" /\ lockDepth[p] <= 0
      /\ lockFile = NoFile /\ lockFile' = p
      /\ lockFd' = [lockFd EXCEPT ![p] = TRUE]
      /\ lockDepth' = [lockDepth EXCEPT ![p] = 1]
      /\ handle' = [handle EXCEPT ![t] = "owner"]
      /\ UNCHANGED alive
  BY ProcOfAssumption DEF OpenLock
<1>3. /\ Cardinality(Holders(p))' = Cardinality(Holders(p)) + 1
      /\ \A q \in Procs \ {p} : Holders(q)' = Holders(q)
  BY <1>1, <1>2, HoldersAdd
<1>4. Cardinality(Holders(p)) = 0
  BY <1>2, NoDepthNoHolder, FS_EmptySet
<1>5. HeldByOneProcess'
  BY <1>1, <1>2, NoFileNoHandle DEF HeldByOneProcess, LockTypeOK
<1>6. DepthCountsHandles'
  BY <1>1, <1>2, <1>3, <1>4 DEF DepthCountsHandles, LockTypeOK
<1>7. GoneHoldsNothing'
  BY <1>1, <1>2, <1>3 DEF GoneHoldsNothing, LockTypeOK
<1> QED
  BY <1>5, <1>6, <1>7 DEF LockInv

LEMMA WriteErrorStep ==
  ASSUME LockInv, LockTypeOK', NEW t \in Tasks, LockWriteError(t)
  PROVE  LockInv'
<1>1. LockTypeOK /\ HeldByOneProcess /\ DepthCountsHandles /\ GoneHoldsNothing
  BY DEF LockInv
<1>2. /\ ProcOf[t] \in alive /\ lockFile = NoFile
      /\ lockFd' = [lockFd EXCEPT ![ProcOf[t]] = TRUE]
      /\ UNCHANGED <<alive, lockDepth, handle>>
  BY DEF LockWriteError
<1>3. \A p \in Procs : Holders(p)' = Holders(p)
  BY <1>2 DEF Holders
<1>4. HeldByOneProcess'
  BY <1>2, NoFileNoHandle DEF HeldByOneProcess
<1>5. DepthCountsHandles'
  BY <1>1, <1>2, <1>3 DEF DepthCountsHandles
<1>6. GoneHoldsNothing'
  BY <1>1, <1>2, <1>3 DEF GoneHoldsNothing, LockTypeOK
<1> QED
  BY <1>4, <1>5, <1>6 DEF LockInv

\* A release takes one handle back; the file goes only with the last one.
LEMMA ReleaseStep ==
  ASSUME LockInv, LockTypeOK', NEW t \in Tasks, Release(t)
  PROVE  LockInv'
<1> DEFINE p == ProcOf[t]
<1>1. LockTypeOK /\ HeldByOneProcess /\ DepthCountsHandles /\ GoneHoldsNothing
  BY DEF LockInv
<1>2. /\ p \in alive /\ p \in Procs /\ handle[t] # "none"
      /\ lockDepth' = [lockDepth EXCEPT ![p] = @ - 1]
      /\ handle' = [handle EXCEPT ![t] = "none"]
      /\ UNCHANGED alive
      /\ \A q \in Procs \ {p} : lockFd'[q] = lockFd[q]
  <2>1. CASE ReleaseJoined(t)
    BY <2>1, ProcOfAssumption DEF ReleaseJoined
  <2>2. CASE ReleaseShared(t)
    BY <2>2, ProcOfAssumption DEF ReleaseShared
  <2>3. CASE ReleaseLast(t)
    <3>1. /\ p \in alive /\ p \in Procs /\ handle[t] # "none" /\ lockDepth[p] = 1
          /\ lockDepth' = [lockDepth EXCEPT ![p] = 0]
          /\ handle' = [handle EXCEPT ![t] = "none"]
          /\ UNCHANGED alive
      BY <2>3, ProcOfAssumption DEF ReleaseLast
    <3>2. \A q \in Procs \ {p} : lockFd'[q] = lockFd[q]
      BY <1>1, <2>3 DEF ReleaseLast, LockTypeOK
    <3> QED
      BY <3>1, <3>2
  <2> QED
    BY <2>1, <2>2, <2>3 DEF Release
<1>3. /\ Holders(p)' = Holders(p) \ {t}
      /\ Cardinality(Holders(p))' = Cardinality(Holders(p)) - 1
      /\ \A q \in Procs \ {p} : Holders(q)' = Holders(q)
  BY <1>1, <1>2, HoldersRemove
<1>4. HeldByOneProcess'
  <2>1. CASE lockFile' = lockFile
    BY <1>1, <1>2, <2>1 DEF HeldByOneProcess, LockTypeOK
  <2>2. CASE ReleaseLast(t)
    <3>1. Cardinality(Holders(p))' = 0 /\ IsFiniteSet(Holders(p)')
      <4>1. IsFiniteSet(Holders(p))
        BY <1>2, HoldersFinite
      <4>2. IsFiniteSet(Holders(p)')
        BY <1>3, <4>1, FS_RemoveElement
      <4>3. Cardinality(Holders(p)) = 1
        BY <1>1, <1>2, <2>2 DEF DepthCountsHandles, ReleaseLast
      <4> QED
        BY <1>3, <4>2, <4>3
    <3>2. Holders(p)' = {}
      BY <3>1, FS_EmptySet
    <3>3. \A u \in Tasks : handle[u] # "none" => ProcOf[u] = p
      BY <1>1, <1>2 DEF HeldByOneProcess
    <3>4. \A u \in Tasks : handle'[u] = "none"
      BY <1>1, <1>2, <3>2, <3>3 DEF Holders, LockTypeOK
    <3> QED
      BY <3>4 DEF HeldByOneProcess
  <2> QED
    BY <2>1, <2>2 DEF Release, ReleaseJoined, ReleaseShared
<1>5. DepthCountsHandles'
  BY <1>1, <1>2, <1>3 DEF DepthCountsHandles, LockTypeOK
<1>6. GoneHoldsNothing'
  BY <1>1, <1>2, <1>3 DEF GoneHoldsNothing, LockTypeOK
<1> QED
  BY <1>4, <1>5, <1>6 DEF LockInv

LEMMA ExitStep ==
  ASSUME LockInv, LockTypeOK', NEW p \in Procs, Exit(p)
  PROVE  LockInv'
<1>1. LockTypeOK /\ HeldByOneProcess /\ DepthCountsHandles /\ GoneHoldsNothing
  BY DEF LockInv
<1>2. /\ alive' = alive \ {p}
      /\ lockDepth' = [lockDepth EXCEPT ![p] = 0]
      /\ lockFd' = [lockFd EXCEPT ![p] = FALSE]
      /\ handle' = [t \in Tasks |-> IF ProcOf[t] = p THEN "none" ELSE handle[t]]
      /\ UNCHANGED lockFile
  BY DEF Exit
<1>3. Holders(p)' = {} /\ \A q \in Procs \ {p} : Holders(q)' = Holders(q)
  BY <1>2 DEF Holders
<1>4. HeldByOneProcess'
  BY <1>1, <1>2 DEF HeldByOneProcess
<1>5. DepthCountsHandles'
  BY <1>1, <1>2, <1>3, FS_EmptySet DEF DepthCountsHandles, LockTypeOK
<1>6. GoneHoldsNothing'
  BY <1>1, <1>2, <1>3 DEF GoneHoldsNothing, LockTypeOK
<1> QED
  BY <1>4, <1>5, <1>6 DEF LockInv

LEMMA UserRemovesStep ==
  ASSUME LockInv, LockTypeOK', NEW p \in Procs, UserRemovesLock(p)
  PROVE  LockInv'
<1>1. DepthCountsHandles /\ GoneHoldsNothing
  BY DEF LockInv
<1>2. /\ alive \subseteq {p} /\ lockDepth[p] = 0
      /\ UNCHANGED <<alive, lockDepth, lockFd, handle>>
  BY DEF UserRemovesLock
<1>3. \A q \in Procs : Holders(q)' = Holders(q)
  BY <1>2 DEF Holders
<1>4. \A t \in Tasks : handle[t] = "none"
  <2> SUFFICES ASSUME NEW t \in Tasks, handle[t] # "none" PROVE FALSE
    OBVIOUS
  <2>1. ProcOf[t] = p
    BY <1>2, HolderIsAlive
  <2> QED
    BY <1>2, <2>1, NoDepthNoHolder DEF Holders
<1>5. HeldByOneProcess'
  BY <1>2, <1>4 DEF HeldByOneProcess
<1>6. DepthCountsHandles' /\ GoneHoldsNothing'
  BY <1>1, <1>2, <1>3 DEF DepthCountsHandles, GoneHoldsNothing
<1> QED
  BY <1>5, <1>6 DEF LockInv

LEMMA QuietStep ==
  ASSUME LockInv, LockTypeOK',
         UNCHANGED lockVars \/ (\E p \in Procs : Start(p))
  PROVE  LockInv'
<1>1. HeldByOneProcess /\ DepthCountsHandles /\ GoneHoldsNothing
  BY DEF LockInv
<1>2. UNCHANGED <<lockFile, lockDepth, lockFd, handle>> /\ alive \subseteq alive'
  BY DEF lockVars, Start
<1>3. \A q \in Procs : Holders(q)' = Holders(q)
  BY <1>2 DEF Holders
<1>4. HeldByOneProcess'
  BY <1>1, <1>2 DEF HeldByOneProcess
<1>5. DepthCountsHandles'
  BY <1>1, <1>2, <1>3 DEF DepthCountsHandles
<1>6. GoneHoldsNothing'
  BY <1>1, <1>2, <1>3 DEF GoneHoldsNothing
<1> QED
  BY <1>4, <1>5, <1>6 DEF LockInv

LEMMA LockInitInvariant == LockInit => LockInv
<1> SUFFICES ASSUME LockInit PROVE LockInv
  OBVIOUS
<1>1. LockTypeOK
  BY BoundsAssumption DEF LockInit, LockTypeOK
<1>2. \A p \in Procs : Holders(p) = {}
  BY DEF LockInit, Holders
<1> QED
  BY <1>1, <1>2, FS_EmptySet
  DEF LockInit, LockInv, HeldByOneProcess, DepthCountsHandles, GoneHoldsNothing

LEMMA LockStepInvariant == LockInv /\ [LockNext]_lockVars => LockInv'
<1> SUFFICES ASSUME LockInv, [LockNext]_lockVars PROVE LockInv'
  OBVIOUS
<1>1. LockTypeOK'
  BY LockTypeStep DEF LockInv
<1>2. CASE UNCHANGED lockVars
  BY <1>1, <1>2, QuietStep
<1>3. ASSUME NEW t \in Tasks, Acquire(t) \/ LockWriteError(t) \/ Refused(t) \/ Release(t)
      PROVE  LockInv'
  BY <1>1, <1>3, JoinLockStep, OpenLockStep, WriteErrorStep, QuietStep, ReleaseStep
  DEF Acquire, Refused
<1>4. ASSUME NEW p \in Procs, Exit(p) \/ Start(p) \/ UserRemovesLock(p)
      PROVE  LockInv'
  BY <1>1, <1>4, ExitStep, QuietStep, UserRemovesStep
<1> QED
  BY <1>2, <1>3, <1>4 DEF LockNext

LEMMA LockInvariance == LockSpec => []LockInv
BY LockInitInvariant, LockStepInvariant, PTL DEF LockSpec

-----------------------------------------------------------------------------
(* Theorems *)

\* The calls that hold the lock are of one process, whose file is at the path:
\* no crash, failed write or removal by the user breaks the exclusion.
THEOREM OneProcessHolds == LockSpec => []HeldByOneProcess
<1>1. LockInv => HeldByOneProcess
  BY DEF LockInv
<1> QED
  BY <1>1, LockInvariance, PTL

\* lockDepth counts the handles out, in every process.
THEOREM DepthIsHandles == LockSpec => []DepthCountsHandles
<1>1. LockInv => DepthCountsHandles
  BY DEF LockInv
<1> QED
  BY <1>1, LockInvariance, PTL

\* The profile apply lock implements a lock between processes.
THEOREM LockRefines == LockSpec => ImplementsLock
<1> DEFINE in == {t \in Tasks : handle[t] # "none"}
<1>1. LockInit => Lock!Init
  BY DEF LockInit, Lock!Init
<1>2. LockInv /\ [LockNext]_lockVars => [Lock!Next]_in
  <2> SUFFICES ASSUME LockInv, [LockNext]_lockVars PROVE [Lock!Next]_in
    OBVIOUS
  <2> USE DEF Lock!Next
  <2>0. LockTypeOK
    BY DEF LockInv
  <2>1. ASSUME NEW t \in Tasks, JoinLock(t) \/ OpenLock(t) PROVE Lock!Enter(t)
    <3>1. t \notin in /\ in' = in \cup {t}
      BY <2>0, <2>1 DEF JoinLock, OpenLock, LockTypeOK
    <3>2. \A u \in in : ProcOf[u] = ProcOf[t]
      <4>1. CASE OpenLock(t)
        BY <4>1, NoFileNoHandle DEF OpenLock
      <4>2. CASE JoinLock(t)
        <5>1. Holders(ProcOf[t]) # {}
          BY <4>2, ProcOfAssumption, FS_EmptySet DEF JoinLock, LockInv, DepthCountsHandles
        <5> QED
          BY <5>1 DEF Holders, LockInv, HeldByOneProcess
      <4> QED
        BY <2>1, <4>1, <4>2
    <3> QED
      BY <3>1, <3>2 DEF Lock!Enter
  <2>2. ASSUME NEW t \in Tasks, Release(t) PROVE Lock!Leave(t)
    BY <2>0, <2>2 DEF Release, ReleaseJoined, ReleaseShared, ReleaseLast, LockTypeOK, Lock!Leave
  <2>3. ASSUME NEW p \in Procs, Exit(p) PROVE Lock!Drop(p)
    BY <2>0, <2>3 DEF Exit, LockTypeOK, Lock!Drop
  <2>4. ASSUME UNCHANGED lockVars \/ (\E t \in Tasks : LockWriteError(t) \/ Refused(t))
                 \/ (\E p \in Procs : Start(p) \/ UserRemovesLock(p))
        PROVE  UNCHANGED in
    BY <2>4 DEF lockVars, LockWriteError, Refused, Start, UserRemovesLock
  <2> QED
    BY <2>1, <2>2, <2>3, <2>4 DEF LockNext, Acquire
<1> QED
  BY <1>1, <1>2, LockInvariance, PTL DEF LockSpec, ImplementsLock, Lock!Spec
=============================================================================
