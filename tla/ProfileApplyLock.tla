--------------------------- MODULE ProfileApplyLock ---------------------------
(***************************************************************************)
(* The profile apply lock: a file created with O_EXCL for as long as a     *)
(* process applies, switches or stashes profiles in the machine's home.    *)
(* Nobody waits for it (a held lock fails the command at once) and nobody  *)
(* clears a stale one: its text is never read, and the user is asked to    *)
(* remove it.                                                              *)
(*                                                                         *)
(* Calls made while their process has the lock join it through lockDepth.  *)
(* The handle of the call that created the file (the owner) and that of a  *)
(* call that joined have different release functions.                      *)
(*                                                                         *)
(* acquire and release are synchronous, and a process that stops within    *)
(* one leaves the file as it would just after it, so each is one step.     *)
(***************************************************************************)
EXTENDS Integers, FiniteSets

CONSTANTS
  Procs,           \* processes: the Desktop sidecar and CLI commands
  Tasks,           \* asynchronous calls that take the lock
  ProcOf,          \* the process each task runs in
  NoFile,          \* no file at the lock path
  MaxExits,        \* bound: processes that exit or are killed
  MaxStarts,       \* bound: processes that start again
  MaxWriteErrors   \* bound: failed writes of the pid (disk full)

ASSUME ProcOfAssumption == ProcOf \in [Tasks -> Procs]
ASSUME TasksAssumption == IsFiniteSet(Tasks)
ASSUME NoFileAssumption == NoFile \notin Procs
ASSUME BoundsAssumption == MaxExits \in Nat /\ MaxStarts \in Nat /\ MaxWriteErrors \in Nat

VARIABLES
  lockFile,        \* the process whose open created the file, or NoFile
  alive,           \* processes that run
  lockDepth,       \* per process
  lockFd,          \* per process: whether it is set
  handle,          \* per task: the handle it holds
  exits, starts, writeErrors

lockVars == <<lockFile, alive, lockDepth, lockFd, handle, exits, starts, writeErrors>>

LockTypeOK ==
  /\ lockFile \in Procs \cup {NoFile}
  /\ alive \subseteq Procs
  /\ lockDepth \in [Procs -> Int]
  /\ lockFd \in [Procs -> BOOLEAN]
  /\ handle \in [Tasks -> {"none", "owner", "joined"}]
  /\ exits \in 0..MaxExits
  /\ starts \in 0..MaxStarts
  /\ writeErrors \in 0..MaxWriteErrors

\* The tasks of p that hold a handle.
Holders(p) == {t \in Tasks : ProcOf[t] = p /\ handle[t] # "none"}

LockInit ==
  /\ lockFile = NoFile
  /\ alive = Procs
  /\ lockDepth = [p \in Procs |-> 0]
  /\ lockFd = [p \in Procs |-> FALSE]
  /\ handle = [t \in Tasks |-> "none"]
  /\ exits = 0 /\ starts = 0 /\ writeErrors = 0

-----------------------------------------------------------------------------
(* acquireProfileApplyLock *)

JoinLock(t) ==
  /\ ProcOf[t] \in alive
  /\ handle[t] = "none"
  /\ lockDepth[ProcOf[t]] > 0
  /\ lockDepth' = [lockDepth EXCEPT ![ProcOf[t]] = @ + 1]
  /\ handle' = [handle EXCEPT ![t] = "joined"]
  /\ UNCHANGED <<lockFile, alive, lockFd, exits, starts, writeErrors>>

\* A mistaken form of OpenLock: the file is opened with "w".
OpenShared(t) ==
  /\ ProcOf[t] \in alive
  /\ handle[t] = "none"
  /\ lockDepth[ProcOf[t]] <= 0
  /\ lockFile' = ProcOf[t]
  /\ lockFd' = [lockFd EXCEPT ![ProcOf[t]] = TRUE]
  /\ lockDepth' = [lockDepth EXCEPT ![ProcOf[t]] = 1]
  /\ handle' = [handle EXCEPT ![t] = "owner"]
  /\ UNCHANGED <<alive, exits, starts, writeErrors>>

OpenLock(t) ==
  /\ ProcOf[t] \in alive
  /\ handle[t] = "none"
  /\ lockDepth[ProcOf[t]] <= 0
  /\ lockFile = NoFile
  /\ lockFile' = ProcOf[t]
  /\ lockFd' = [lockFd EXCEPT ![ProcOf[t]] = TRUE]
  /\ lockDepth' = [lockDepth EXCEPT ![ProcOf[t]] = 1]
  /\ handle' = [handle EXCEPT ![t] = "owner"]
  /\ UNCHANGED <<alive, exits, starts, writeErrors>>

Acquire(t) == JoinLock(t) \/ OpenLock(t)

\* The file is created and the write of the pid fails: the error leaves the
\* call before lockDepth is set, and the file stays.
LockWriteError(t) ==
  /\ ProcOf[t] \in alive
  /\ handle[t] = "none"
  /\ lockDepth[ProcOf[t]] <= 0
  /\ lockFile = NoFile
  /\ writeErrors < MaxWriteErrors
  /\ writeErrors' = writeErrors + 1
  /\ lockFile' = ProcOf[t]
  /\ lockFd' = [lockFd EXCEPT ![ProcOf[t]] = TRUE]
  /\ UNCHANGED <<alive, lockDepth, handle, exits, starts>>

\* EEXIST: the call fails with ProfileApplyLockBusyError, and nothing changes.
Refused(t) ==
  /\ ProcOf[t] \in alive
  /\ handle[t] = "none"
  /\ lockDepth[ProcOf[t]] <= 0
  /\ lockFile # NoFile
  /\ UNCHANGED lockVars

-----------------------------------------------------------------------------
(* release *)

\* A mistaken form of ReleaseJoined: it does not count.
ReleaseUncounted(t) ==
  /\ ProcOf[t] \in alive
  /\ handle[t] = "joined"
  /\ handle' = [handle EXCEPT ![t] = "none"]
  /\ UNCHANGED <<lockFile, alive, lockDepth, lockFd, exits, starts, writeErrors>>

\* A call that joined only counts itself out.
ReleaseJoined(t) ==
  /\ ProcOf[t] \in alive
  /\ handle[t] = "joined"
  /\ lockDepth' = [lockDepth EXCEPT ![ProcOf[t]] = @ - 1]
  /\ handle' = [handle EXCEPT ![t] = "none"]
  /\ UNCHANGED <<lockFile, alive, lockFd, exits, starts, writeErrors>>

\* A mistaken form of ReleaseShared: the owner removes the file.
ReleaseEarly(t) ==
  /\ ProcOf[t] \in alive
  /\ handle[t] = "owner"
  /\ lockDepth[ProcOf[t]] > 1
  /\ lockDepth' = [lockDepth EXCEPT ![ProcOf[t]] = @ - 1]
  /\ handle' = [handle EXCEPT ![t] = "none"]
  /\ lockFile' = NoFile
  /\ UNCHANGED <<alive, lockFd, exits, starts, writeErrors>>

\* The owner leaves the file to the calls that joined it ...
ReleaseShared(t) ==
  /\ ProcOf[t] \in alive
  /\ handle[t] = "owner"
  /\ lockDepth[ProcOf[t]] > 1
  /\ lockDepth' = [lockDepth EXCEPT ![ProcOf[t]] = @ - 1]
  /\ handle' = [handle EXCEPT ![t] = "none"]
  /\ UNCHANGED <<lockFile, alive, lockFd, exits, starts, writeErrors>>

\* ... or, the last one out, closes and removes it.
ReleaseLast(t) ==
  /\ ProcOf[t] \in alive
  /\ handle[t] = "owner"
  /\ lockDepth[ProcOf[t]] = 1
  /\ lockDepth' = [lockDepth EXCEPT ![ProcOf[t]] = 0]
  /\ handle' = [handle EXCEPT ![t] = "none"]
  /\ lockFd' = [lockFd EXCEPT ![ProcOf[t]] = FALSE]
  /\ lockFile' = IF lockFd[ProcOf[t]] THEN NoFile ELSE lockFile
  /\ UNCHANGED <<alive, exits, starts, writeErrors>>

Release(t) == ReleaseJoined(t) \/ ReleaseShared(t) \/ ReleaseLast(t)

-----------------------------------------------------------------------------
(* Processes and the user *)

\* A process exits or is killed; its memory is gone, the file stays.
Exit(p) ==
  /\ p \in alive
  /\ exits < MaxExits
  /\ exits' = exits + 1
  /\ alive' = alive \ {p}
  /\ lockDepth' = [lockDepth EXCEPT ![p] = 0]
  /\ lockFd' = [lockFd EXCEPT ![p] = FALSE]
  /\ handle' = [t \in Tasks |-> IF ProcOf[t] = p THEN "none" ELSE handle[t]]
  /\ UNCHANGED <<lockFile, starts, writeErrors>>

Start(p) ==
  /\ p \notin alive
  /\ starts < MaxStarts
  /\ starts' = starts + 1
  /\ alive' = alive \cup {p}
  /\ UNCHANGED <<lockFile, lockDepth, lockFd, handle, exits, writeErrors>>

\* A call of p was refused, and the user does what the error says: no other
\* HarnessTap process is running, so the file is removed.
UserRemovesLock(p) ==
  /\ alive \subseteq {p}
  /\ lockDepth[p] = 0
  /\ lockFile # NoFile
  /\ lockFile' = NoFile
  /\ UNCHANGED <<alive, lockDepth, lockFd, handle, exits, starts, writeErrors>>

LockNext ==
  \/ \E t \in Tasks : Acquire(t) \/ LockWriteError(t) \/ Refused(t) \/ Release(t)
  \/ \E p \in Procs : Exit(p) \/ Start(p) \/ UserRemovesLock(p)

LockSpec == LockInit /\ [][LockNext]_lockVars

-----------------------------------------------------------------------------
(* Properties *)

\* "Another profile apply or switch is in progress": the calls that hold the
\* lock are all of one process, and its file is at the path meanwhile.
HeldByOneProcess ==
  \A t \in Tasks : handle[t] # "none" => lockFile = ProcOf[t]

\* The counter is the number of handles out: a joiner's release never takes
\* the lock from the owner, and no handle is counted twice.
DepthCountsHandles == \A p \in Procs : lockDepth[p] = Cardinality(Holders(p))

\* A file no handle stands for: every later call of any process is refused.
Stale == lockFile # NoFile /\ \A t \in Tasks : handle[t] = "none"

\* "Wait for it to finish": with no crash and no failed write, the lock is free
\* again once the calls that took it have finished.
FreeWhenIdle == Stale => exits > 0 \/ writeErrors > 0

-----------------------------------------------------------------------------
(* The invariant behind the safety properties. *)

GoneHoldsNothing ==
  \A p \in Procs \ alive : /\ lockDepth[p] = 0
                           /\ ~lockFd[p]
                           /\ Holders(p) = {}

LockInv ==
  /\ LockTypeOK
  /\ HeldByOneProcess
  /\ DepthCountsHandles
  /\ GoneHoldsNothing

\* The lock as its callers see it: the tasks that hold a handle.
Lock == INSTANCE ProcessLock WITH inside <- {t \in Tasks : handle[t] # "none"}

\* This lock, too, is a lock between processes, crashes included.
ImplementsLock == Lock!Spec
=============================================================================
