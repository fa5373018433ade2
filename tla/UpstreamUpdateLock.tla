-------------------------- MODULE UpstreamUpdateLock --------------------------
(***************************************************************************)
(* The upstream update lock: a file created with O_EXCL that holds the pid *)
(* of the process updating plugins from their upstream, taken by the       *)
(* Desktop sidecar (its scheduled job and its install handler) and by      *)
(* `ht plugin update`.                                                     *)
(*                                                                         *)
(* Every file system call and the kill(pid, 0) probe is a step of its own, *)
(* because another process can run between any two of them.  The tasks of  *)
(* one process share `depth` and `heldFd` and are scheduled by one event   *)
(* loop: while one of them is between two synchronous calls no other task  *)
(* of that process runs.                                                   *)
(*                                                                         *)
(* Abstractions: a deadline is a number of polls left; a pid is the name   *)
(* of its process; the file's text is that pid, or Blank between open and  *)
(* write.  `by` names the task whose open created the file: it stands for  *)
(* the inode, so that a write goes to the file its descriptor opened.      *)
(***************************************************************************)
EXTENDS Integers, FiniteSets

CONSTANTS
  Procs,           \* processes, named by their pid
  Tasks,           \* asynchronous calls of withUpstreamUpdateLock
  ProcOf,          \* the process each task runs in
  Polls,           \* how often a call may poll before its deadline
  Blank,           \* the text of a lock file whose pid is not written yet
  NoFile,          \* no file at the lock path
  MaxExits,        \* bound: processes that exit or are killed
  MaxReuses,       \* bound: processes that start again under a used pid
  MaxWriteErrors   \* bound: failed writes of the pid (disk full)

LockFiles == [by : Tasks, pid : Procs \cup {Blank}]

ASSUME ProcOfAssumption == ProcOf \in [Tasks -> Procs]
ASSUME PollsAssumption == Polls \subseteq Nat
ASSUME BlankAssumption == Blank \notin Procs
ASSUME NoFileAssumption == NoFile \notin LockFiles
ASSUME TasksAssumption == IsFiniteSet(Tasks)
ASSUME BoundsAssumption == MaxExits \in Nat /\ MaxReuses \in Nat /\ MaxWriteErrors \in Nat

VARIABLES
  lockFile,        \* what is at the lock path
  alive,           \* processes that kill(pid, 0) finds
  depth,           \* per process: the module's `depth`
  heldFd,          \* per process: whether `heldFd` is set
  pc,              \* per task: where its call is
  polls,           \* per task: polls left before the deadline
  seen,            \* per task: the text clearIfStale read
  stolen,          \* history: a file in use was removed by another process
  exits, reuses, writeErrors

vars == <<lockFile, alive, depth, heldFd, pc, polls, seen, stolen,
          exits, reuses, writeErrors>>

envVars == <<alive, exits, reuses, writeErrors>>

\* Where a task holds the event loop of its process, between two synchronous
\* calls, and where it has handed it back (an await, or no call at all).
Synchronous == {"open", "write", "read", "probe", "clear", "poll", "unlink"}
Awaiting == {"idle", "sleep", "fn"}

TypeOK ==
  /\ lockFile \in LockFiles \cup {NoFile}
  /\ alive \subseteq Procs
  /\ depth \in [Procs -> Int]
  /\ heldFd \in [Procs -> BOOLEAN]
  /\ pc \in [Tasks -> Synchronous \cup Awaiting]
  /\ polls \in [Tasks -> Nat]
  /\ seen \in [Tasks -> Procs \cup {Blank}]
  /\ stolen \in BOOLEAN
  /\ exits \in 0..MaxExits
  /\ reuses \in 0..MaxReuses
  /\ writeErrors \in 0..MaxWriteErrors

TasksOf(p) == {t \in Tasks : ProcOf[t] = p}

\* The tasks of p that run fn under the lock.
Running(p) == {t \in TasksOf(p) : pc[t] = "fn"}

\* The event loop of t's process is free to run t.
Scheduled(t) ==
  /\ ProcOf[t] \in alive
  /\ \A u \in TasksOf(ProcOf[t]) : pc[u] \in Synchronous => u = t

\* The process of task t has the lock, is taking it or is giving it up.
Uses(p) == \E t \in TasksOf(p) : pc[t] \in {"write", "fn", "unlink"}

\* t goes from one place in the code to another.
Goto(t, from, to) ==
  /\ pc[t] = from
  /\ Scheduled(t)
  /\ pc' = [pc EXCEPT ![t] = to]

Init ==
  /\ lockFile = NoFile
  /\ alive = Procs
  /\ depth = [p \in Procs |-> 0]
  /\ heldFd = [p \in Procs |-> FALSE]
  /\ pc = [t \in Tasks |-> "idle"]
  /\ polls = [t \in Tasks |-> 0]
  /\ seen = [t \in Tasks |-> Blank]
  /\ stolen = FALSE
  /\ exits = 0 /\ reuses = 0 /\ writeErrors = 0

-----------------------------------------------------------------------------
(* withUpstreamUpdateLock *)

\* Mistaken forms of Join: joining is not counted, or not checked.
JoinUncounted(t) ==
  /\ Goto(t, "idle", "fn")
  /\ depth[ProcOf[t]] > 0
  /\ UNCHANGED <<lockFile, depth, heldFd, polls, seen, stolen, envVars>>

JoinUnchecked(t) ==
  /\ Goto(t, "idle", "fn")
  /\ depth' = [depth EXCEPT ![ProcOf[t]] = @ + 1]
  /\ UNCHANGED <<lockFile, heldFd, polls, seen, stolen, envVars>>

\* depth > 0: the call joins the task of its process that has the lock.
Join(t) ==
  /\ Goto(t, "idle", "fn")
  /\ depth[ProcOf[t]] > 0
  /\ depth' = [depth EXCEPT ![ProcOf[t]] = @ + 1]
  /\ UNCHANGED <<lockFile, heldFd, polls, seen, stolen, envVars>>

\* depth = 0: the call sets its deadline and tries for the file.
Begin(t) ==
  /\ Goto(t, "idle", "open")
  /\ depth[ProcOf[t]] <= 0
  /\ \E n \in Polls : polls' = [polls EXCEPT ![t] = n]
  /\ UNCHANGED <<lockFile, depth, heldFd, seen, stolen, envVars>>

\* A try failed: past the deadline the call fails as Busy, else it sleeps.
Busy(t) ==
  /\ Goto(t, "poll", "idle")
  /\ polls[t] = 0
  /\ UNCHANGED <<lockFile, depth, heldFd, polls, seen, stolen, envVars>>

\* A mistaken form of Sleep: the deadline is not looked at.
SleepOn(t) ==
  /\ Goto(t, "poll", "sleep")
  /\ polls' = [polls EXCEPT ![t] = @ - 1]
  /\ UNCHANGED <<lockFile, depth, heldFd, seen, stolen, envVars>>

Sleep(t) ==
  /\ Goto(t, "poll", "sleep")
  /\ polls[t] > 0
  /\ polls' = [polls EXCEPT ![t] = @ - 1]
  /\ UNCHANGED <<lockFile, depth, heldFd, seen, stolen, envVars>>

\* The sleep ends and the loop tries again, whatever depth is by now.
Wake(t) ==
  /\ Goto(t, "sleep", "open")
  /\ UNCHANGED <<lockFile, depth, heldFd, polls, seen, stolen, envVars>>

-----------------------------------------------------------------------------
(* tryAcquire *)

\* A mistaken form of Create: the file is opened with "w".
CreateShared(t) ==
  /\ Goto(t, "open", "write")
  /\ lockFile' = [by |-> t, pid |-> Blank]
  /\ heldFd' = [heldFd EXCEPT ![ProcOf[t]] = TRUE]
  /\ UNCHANGED <<depth, polls, seen, stolen, envVars>>

\* openSync(lockPath, "wx") creates the file ...
Create(t) ==
  /\ Goto(t, "open", "write")
  /\ lockFile = NoFile
  /\ lockFile' = [by |-> t, pid |-> Blank]
  /\ heldFd' = [heldFd EXCEPT ![ProcOf[t]] = TRUE]
  /\ UNCHANGED <<depth, polls, seen, stolen, envVars>>

\* ... or fails with EEXIST, and clearIfStale looks at the file.
Exists(t) ==
  /\ Goto(t, "open", "read")
  /\ lockFile # NoFile
  /\ UNCHANGED <<lockFile, depth, heldFd, polls, seen, stolen, envVars>>

\* The pid is written through the descriptor; the call then sets depth to 1
\* without yielding, and fn starts.
WritePid(t) ==
  /\ Goto(t, "write", "fn")
  /\ lockFile' = IF lockFile # NoFile /\ lockFile.by = t
                 THEN [lockFile EXCEPT !.pid = ProcOf[t]]
                 ELSE lockFile
  /\ depth' = [depth EXCEPT ![ProcOf[t]] = 1]
  /\ UNCHANGED <<heldFd, polls, seen, stolen, envVars>>

\* The write fails: the error is not EEXIST and leaves the call; the blank
\* file and heldFd stay.
WriteError(t) ==
  /\ Goto(t, "write", "idle")
  /\ writeErrors < MaxWriteErrors
  /\ writeErrors' = writeErrors + 1
  /\ UNCHANGED <<lockFile, alive, depth, heldFd, polls, seen, stolen, exits, reuses>>

-----------------------------------------------------------------------------
(* clearIfStale *)

\* The file's text is read; it is no candidate when the file is gone, holds
\* no pid, or holds the pid of this very process.
ReadOther(t) ==
  /\ Goto(t, "read", "probe")
  /\ lockFile # NoFile
  /\ lockFile.pid \notin {Blank, ProcOf[t]}
  /\ seen' = [seen EXCEPT ![t] = lockFile.pid]
  /\ UNCHANGED <<lockFile, depth, heldFd, polls, stolen, envVars>>

ReadNone(t) ==
  /\ Goto(t, "read", "poll")
  /\ lockFile # NoFile => lockFile.pid \in {Blank, ProcOf[t]}
  /\ UNCHANGED <<lockFile, depth, heldFd, polls, seen, stolen, envVars>>

\* kill(pid, 0) on the pid that was read.
ProbeAlive(t) ==
  /\ Goto(t, "probe", "poll")
  /\ seen[t] \in alive
  /\ UNCHANGED <<lockFile, depth, heldFd, polls, seen, stolen, envVars>>

\* A mistaken form of ProbeDead: the lock of a dead process is waited for.
ProbeDeadWaits(t) ==
  /\ Goto(t, "probe", "poll")
  /\ seen[t] \notin alive
  /\ UNCHANGED <<lockFile, depth, heldFd, polls, seen, stolen, envVars>>

ProbeDead(t) ==
  /\ Goto(t, "probe", "clear")
  /\ seen[t] \notin alive
  /\ UNCHANGED <<lockFile, depth, heldFd, polls, seen, stolen, envVars>>

\* unlinkSync removes whatever is at the path by now; the call tries again,
\* or, with nothing there, reports that it cleared nothing.
Clear(t) ==
  /\ Goto(t, "clear", "open")
  /\ lockFile # NoFile
  /\ lockFile' = NoFile
  /\ stolen' = (stolen \/ Uses(ProcOf[lockFile.by]))
  /\ UNCHANGED <<depth, heldFd, polls, seen, envVars>>

ClearNone(t) ==
  /\ Goto(t, "clear", "poll")
  /\ lockFile = NoFile
  /\ UNCHANGED <<lockFile, depth, heldFd, polls, seen, stolen, envVars>>

-----------------------------------------------------------------------------
(* release *)

\* fn settles and depth goes down; the last task out closes heldFd ...
Leave(t) ==
  /\ depth[ProcOf[t]] - 1 > 0 \/ ~heldFd[ProcOf[t]]
  /\ Goto(t, "fn", "idle")
  /\ depth' = [depth EXCEPT ![ProcOf[t]] = @ - 1]
  /\ UNCHANGED <<lockFile, heldFd, polls, seen, stolen, envVars>>

\* A mistaken form of Close: any task that leaves gives up the lock.
CloseEarly(t) ==
  /\ heldFd[ProcOf[t]]
  /\ Goto(t, "fn", "unlink")
  /\ depth' = [depth EXCEPT ![ProcOf[t]] = @ - 1]
  /\ heldFd' = [heldFd EXCEPT ![ProcOf[t]] = FALSE]
  /\ UNCHANGED <<lockFile, polls, seen, stolen, envVars>>

Close(t) ==
  /\ depth[ProcOf[t]] - 1 <= 0
  /\ heldFd[ProcOf[t]]
  /\ Goto(t, "fn", "unlink")
  /\ depth' = [depth EXCEPT ![ProcOf[t]] = @ - 1]
  /\ heldFd' = [heldFd EXCEPT ![ProcOf[t]] = FALSE]
  /\ UNCHANGED <<lockFile, polls, seen, stolen, envVars>>

\* ... and removes whatever is at the path.
Unlink(t) ==
  /\ Goto(t, "unlink", "idle")
  /\ lockFile' = NoFile
  /\ UNCHANGED <<depth, heldFd, polls, seen, stolen, envVars>>

-----------------------------------------------------------------------------
(* Processes *)

\* A process exits, or is killed between any two calls: what it kept in
\* memory is gone and its descriptors are closed; the file stays.
Exit(p) ==
  /\ p \in alive
  /\ exits < MaxExits
  /\ exits' = exits + 1
  /\ alive' = alive \ {p}
  /\ depth' = [depth EXCEPT ![p] = 0]
  /\ heldFd' = [heldFd EXCEPT ![p] = FALSE]
  /\ pc' = [t \in Tasks |-> IF ProcOf[t] = p THEN "idle" ELSE pc[t]]
  /\ UNCHANGED <<lockFile, polls, seen, stolen, reuses, writeErrors>>

\* The system gives a used pid to a new process.
Reuse(p) ==
  /\ p \notin alive
  /\ reuses < MaxReuses
  /\ reuses' = reuses + 1
  /\ alive' = alive \cup {p}
  /\ UNCHANGED <<lockFile, depth, heldFd, pc, polls, seen, stolen, exits, writeErrors>>

-----------------------------------------------------------------------------
Call(t) == Join(t) \/ Begin(t)

\* What a call does once it has begun, apart from fn.
Proceed(t) ==
  \/ Busy(t) \/ Sleep(t) \/ Wake(t)
  \/ Create(t) \/ Exists(t) \/ WritePid(t)
  \/ ReadOther(t) \/ ReadNone(t) \/ ProbeAlive(t) \/ ProbeDead(t)
  \/ Clear(t) \/ ClearNone(t)
  \/ Unlink(t)

Settle(t) == Leave(t) \/ Close(t)

Next ==
  \/ \E t \in Tasks : Call(t) \/ Proceed(t) \/ Settle(t) \/ WriteError(t)
  \/ \E p \in Procs : Exit(p) \/ Reuse(p)

Spec == Init /\ [][Next]_vars

\* The event loop runs every task that can run, timers fire and fn settles;
\* the scheduled job and retrying users keep calling.
Fairness == \A t \in Tasks : WF_vars(Call(t)) /\ WF_vars(Proceed(t)) /\ WF_vars(Settle(t))

FairSpec == Spec /\ Fairness

-----------------------------------------------------------------------------
(* Properties *)

\* "One upstream update at a time across processes": no two processes are in
\* fn at once.
OneUpdateAtATime ==
  \A p, q \in Procs : Running(p) # {} /\ Running(q) # {} => p = q

\* The removal of a file in use by clearIfStale is the only way to lose the
\* exclusion: crashes at any point, failed writes, pid reuse and tasks that
\* share the lock of their process do not.
ExclusiveUnlessStolen == ~stolen => OneUpdateAtATime

\* The file of a process whose tasks are in fn is at the path with its pid
\* until the last of them has left: no early release by a task that joined.
HeldWhileRunning ==
  ~stolen => \A p \in Procs : Running(p) # {} =>
                 /\ lockFile # NoFile
                 /\ lockFile.pid = p
                 /\ heldFd[p]

\* The shared counter is exact: release neither keeps the lock after the last
\* task nor drops it under one that joined.
DepthCountsTasks ==
  ~stolen => \A p \in Procs : depth[p] = Cardinality(Running(p))

\* The lock file was left by a process that is gone.
LeftByGone == lockFile # NoFile /\ ProcOf[lockFile.by] \notin alive

\* "A lock left by a process that is gone is cleared" while others keep
\* calling, when its pid was written before the process was gone.
GonePidCleared == (LeftByGone /\ lockFile.pid # Blank) ~> ~LeftByGone

\* A release removes the releasing process's own file, and never a lock that
\* another process took in the meantime.
ReleaseRemovesOwn ==
  [][\A t \in Tasks : Unlink(t) /\ ~stolen =>
        lockFile # NoFile /\ ProcOf[lockFile.by] = ProcOf[t]]_vars

-----------------------------------------------------------------------------
(* The invariant behind the safety properties. *)

OneSynchronous ==
  \A t, u \in Tasks : ProcOf[t] = ProcOf[u] /\ pc[t] \in Synchronous /\ pc[u] \in Synchronous
                      => t = u

GoneForgets ==
  \A p \in Procs \ alive : /\ depth[p] = 0
                           /\ ~heldFd[p]
                           /\ \A t \in TasksOf(p) : pc[t] = "idle"

\* The file is that of the process that uses it, in each phase of its use.
RunningHolds ==
  \A p \in Procs : Running(p) # {} =>
      /\ lockFile \in LockFiles
      /\ lockFile.pid = p
      /\ ProcOf[lockFile.by] = p
      /\ heldFd[p]

WritingHolds ==
  \A t \in Tasks : pc[t] = "write" => /\ lockFile = [by |-> t, pid |-> Blank]
                                     /\ heldFd[ProcOf[t]]

UnlinkingHolds ==
  \A t \in Tasks : pc[t] = "unlink" => /\ lockFile \in LockFiles
                                      /\ ProcOf[lockFile.by] = ProcOf[t]
                                      /\ Running(ProcOf[t]) = {}

DepthExact == \A p \in Procs : depth[p] = Cardinality(Running(p))

FileOfUser == DepthExact /\ RunningHolds /\ WritingHolds /\ UnlinkingHolds

IInv == TypeOK /\ OneSynchronous /\ GoneForgets /\ (~stolen => FileOfUser)

-----------------------------------------------------------------------------
\* The lock as its callers see it: the tasks that run fn, until another process
\* takes the lock from them.
Entered == IF stolen THEN {} ELSE {t \in Tasks : pc[t] = "fn"}

Lock == INSTANCE ProcessLock WITH inside <- Entered

\* The file is a lock between processes, that breaks at worst by being stolen:
\* tasks enter an empty lock or join those of their own process.
ImplementsLock == Lock!Spec
=============================================================================
