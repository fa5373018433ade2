---------------------- MODULE UpstreamUpdateLock_proofs ----------------------
(***************************************************************************)
(* Safety of the upstream update lock for every set of processes and tasks *)
(* and every bound on exits, reused pids and write errors: the type        *)
(* invariant, and that only the removal of a file in use by clearIfStale   *)
(* can put two processes in fn at once.                                    *)
(***************************************************************************)
EXTENDS UpstreamUpdateLock, FiniteSetTheorems, TLAPS

-----------------------------------------------------------------------------
(* Types *)

\* Every step keeps the types of the variables.
LEMMA TypeStep == TypeOK /\ [Next]_vars => TypeOK'
<1> SUFFICES ASSUME TypeOK, [Next]_vars PROVE TypeOK'
  OBVIOUS
<1> USE ProcOfAssumption, PollsAssumption, BlankAssumption, BoundsAssumption
        DEF TypeOK, envVars, Goto, Scheduled, Synchronous, Awaiting, LockFiles
<1>1. CASE UNCHANGED vars
  BY <1>1 DEF vars
<1>2. ASSUME NEW t \in Tasks, Join(t) \/ Begin(t) \/ Busy(t) \/ Sleep(t) \/ Wake(t)
      PROVE  TypeOK'
  <2>1. CASE Join(t)
    BY <2>1 DEF Join
  <2>2. CASE Begin(t)
    BY <2>2 DEF Begin
  <2>3. CASE Busy(t)
    BY <2>3 DEF Busy
  <2>4. CASE Sleep(t)
    BY <2>4 DEF Sleep
  <2>5. CASE Wake(t)
    BY <2>5 DEF Wake
  <2> QED
    BY <1>2, <2>1, <2>2, <2>3, <2>4, <2>5
<1>3. ASSUME NEW t \in Tasks, Create(t) \/ Exists(t) \/ WritePid(t) \/ WriteError(t)
      PROVE  TypeOK'
  <2>1. CASE Create(t)
    BY <2>1 DEF Create
  <2>2. CASE Exists(t)
    BY <2>2 DEF Exists
  <2>3. CASE WritePid(t)
    <3>1. lockFile' \in LockFiles \cup {NoFile}
      BY <2>3 DEF WritePid
    <3> QED
      BY <2>3, <3>1 DEF WritePid
  <2>4. CASE WriteError(t)
    BY <2>4 DEF WriteError
  <2> QED
    BY <1>3, <2>1, <2>2, <2>3, <2>4
<1>4. ASSUME NEW t \in Tasks,
             ReadOther(t) \/ ReadNone(t) \/ ProbeAlive(t) \/ ProbeDead(t) \/ Clear(t) \/ ClearNone(t)
      PROVE  TypeOK'
  <2>1. CASE ReadOther(t)
    BY <2>1 DEF ReadOther
  <2>2. CASE ReadNone(t)
    BY <2>2 DEF ReadNone
  <2>3. CASE ProbeAlive(t)
    BY <2>3 DEF ProbeAlive
  <2>4. CASE ProbeDead(t)
    BY <2>4 DEF ProbeDead
  <2>5. CASE Clear(t)
    <3>1. stolen' \in BOOLEAN
      BY <2>5 DEF Clear, Uses
    <3> QED
      BY <2>5, <3>1 DEF Clear
  <2>6. CASE ClearNone(t)
    BY <2>6 DEF ClearNone
  <2> QED
    BY <1>4, <2>1, <2>2, <2>3, <2>4, <2>5, <2>6
<1>5. ASSUME NEW t \in Tasks, Leave(t) \/ Close(t) \/ Unlink(t)
      PROVE  TypeOK'
  <2>1. CASE Leave(t)
    BY <2>1 DEF Leave
  <2>2. CASE Close(t)
    BY <2>2 DEF Close
  <2>3. CASE Unlink(t)
    BY <2>3 DEF Unlink
  <2> QED
    BY <1>5, <2>1, <2>2, <2>3
<1>6. ASSUME NEW p \in Procs, Exit(p) \/ Reuse(p)
      PROVE  TypeOK'
  <2>1. CASE Exit(p)
    BY <2>1 DEF Exit
  <2>2. CASE Reuse(p)
    BY <2>2 DEF Reuse
  <2> QED
    BY <1>6, <2>1, <2>2
<1> QED
  BY <1>1, <1>2, <1>3, <1>4, <1>5, <1>6 DEF Next, Call, Proceed, Settle

\* The module loads with its variables typed.
LEMMA InitTypes == Init => TypeOK
<1> SUFFICES ASSUME Init PROVE TypeOK
  OBVIOUS
<1>1. lockFile \in LockFiles \cup {NoFile} /\ alive \subseteq Procs /\ stolen \in BOOLEAN
  BY DEF Init
<1>2. /\ depth \in [Procs -> Int]
      /\ heldFd \in [Procs -> BOOLEAN]
      /\ pc \in [Tasks -> Synchronous \cup Awaiting]
      /\ polls \in [Tasks -> Nat]
      /\ seen \in [Tasks -> Procs \cup {Blank}]
  BY DEF Init, Awaiting
<1>3. exits \in 0..MaxExits /\ reuses \in 0..MaxReuses /\ writeErrors \in 0..MaxWriteErrors
  BY BoundsAssumption DEF Init
<1> QED
  BY <1>1, <1>2, <1>3 DEF TypeOK

\* The variables keep their types: no call, crash or failed write takes the
\* module state of the lock outside what its code expects.
THEOREM Typing == Spec => []TypeOK
BY InitTypes, TypeStep, PTL DEF Spec

-----------------------------------------------------------------------------
(* Steps of a task *)

\* What a move of task t does to pc.
LEMMA MoveFacts ==
  ASSUME TypeOK, OneSynchronous,
         NEW t \in Tasks, NEW from, NEW to \in Synchronous \cup Awaiting,
         Goto(t, from, to)
  PROVE  /\ pc[t] = from
         /\ pc'[t] = to
         /\ \A u \in Tasks \ {t} : pc'[u] = pc[u]
         /\ ProcOf[t] \in alive
         /\ ProcOf[t] \in Procs
         /\ \A u \in Tasks \ {t} : ProcOf[u] = ProcOf[t] => pc[u] \notin Synchronous
         /\ OneSynchronous'
<1>1. /\ pc[t] = from
      /\ pc'[t] = to
      /\ \A u \in Tasks \ {t} : pc'[u] = pc[u]
      /\ ProcOf[t] \in alive
      /\ ProcOf[t] \in Procs
      /\ \A u \in Tasks \ {t} : ProcOf[u] = ProcOf[t] => pc[u] \notin Synchronous
  BY ProcOfAssumption DEF TypeOK, Goto, Scheduled, TasksOf
<1>2. OneSynchronous'
  BY <1>1 DEF OneSynchronous
<1> QED
  BY <1>1, <1>2

\* The set of running tasks is finite and known by its counter.
LEMMA RunningFinite ==
  ASSUME NEW p \in Procs
  PROVE  IsFiniteSet(Running(p)) /\ Cardinality(Running(p)) \in Nat
<1>1. Running(p) \in SUBSET Tasks
  BY DEF Running, TasksOf
<1> QED
  BY <1>1, TasksAssumption, FS_Subset, FS_CardinalityType

\* A move that neither enters nor leaves fn changes no process's running set.
LEMMA RunningSame ==
  ASSUME TypeOK, OneSynchronous, NEW t \in Tasks, NEW from, NEW to \in Synchronous \cup Awaiting,
         Goto(t, from, to), from # "fn", to # "fn"
  PROVE  \A p \in Procs : Running(p)' = Running(p)
BY MoveFacts DEF Running, TasksOf

\* A move into fn adds the task to the running set of its process.
LEMMA RunningEnter ==
  ASSUME TypeOK, OneSynchronous, NEW t \in Tasks, NEW from,
         Goto(t, from, "fn"), from # "fn"
  PROVE  /\ Running(ProcOf[t])' = Running(ProcOf[t]) \cup {t}
         /\ Cardinality(Running(ProcOf[t]))' = Cardinality(Running(ProcOf[t])) + 1
         /\ \A p \in Procs \ {ProcOf[t]} : Running(p)' = Running(p)
<1>0. "fn" \in Synchronous \cup Awaiting
  BY DEF Awaiting
<1>1. Running(ProcOf[t])' = Running(ProcOf[t]) \cup {t} /\ t \notin Running(ProcOf[t])
  BY <1>0, MoveFacts DEF Running, TasksOf
<1>2. \A p \in Procs \ {ProcOf[t]} : Running(p)' = Running(p)
  BY <1>0, MoveFacts DEF Running, TasksOf
<1>3. IsFiniteSet(Running(ProcOf[t]))
  BY RunningFinite, ProcOfAssumption
<1> QED
  BY <1>1, <1>2, <1>3, FS_AddElement

\* A move out of fn takes the task out of it.
LEMMA RunningLeave ==
  ASSUME TypeOK, OneSynchronous, NEW t \in Tasks, NEW to \in Synchronous \cup Awaiting,
         Goto(t, "fn", to), to # "fn"
  PROVE  /\ Running(ProcOf[t])' = Running(ProcOf[t]) \ {t}
         /\ t \in Running(ProcOf[t])
         /\ Cardinality(Running(ProcOf[t]))' = Cardinality(Running(ProcOf[t])) - 1
         /\ \A p \in Procs \ {ProcOf[t]} : Running(p)' = Running(p)
<1>1. Running(ProcOf[t])' = Running(ProcOf[t]) \ {t} /\ t \in Running(ProcOf[t])
  BY MoveFacts DEF Running, TasksOf
<1>2. \A p \in Procs \ {ProcOf[t]} : Running(p)' = Running(p)
  BY MoveFacts DEF Running, TasksOf
<1>3. IsFiniteSet(Running(ProcOf[t]))
  BY RunningFinite, ProcOfAssumption
<1> QED
  BY <1>1, <1>2, <1>3, FS_RemoveElement

-----------------------------------------------------------------------------
(* The file belongs to the process that uses it *)

\* A move between places outside the use of the file keeps the invariant.
LEMMA QuietMove ==
  ASSUME IInv, TypeOK', NEW t \in Tasks, NEW from,
         NEW to \in {"idle", "open", "read", "probe", "clear", "poll", "sleep"},
         Goto(t, from, to), from \notin {"write", "fn", "unlink"},
         UNCHANGED <<lockFile, alive, depth, heldFd, stolen>>
  PROVE  IInv'
<1>0. to \in Synchronous \cup Awaiting
  BY DEF Synchronous, Awaiting
<1>1. TypeOK /\ OneSynchronous /\ GoneForgets /\ (~stolen => FileOfUser)
  BY DEF IInv
<1>2. \A p \in Procs : Running(p)' = Running(p)
  BY <1>0, <1>1, RunningSame
<1>3. OneSynchronous' /\ ProcOf[t] \in alive /\ pc'[t] = to
      /\ \A u \in Tasks \ {t} : pc'[u] = pc[u]
  BY <1>0, <1>1, MoveFacts
<1>4. GoneForgets'
  BY <1>1, <1>3 DEF GoneForgets, TasksOf
<1>5. ASSUME ~stolen PROVE FileOfUser'
  <2>1. DepthExact'
    BY <1>1, <1>2, <1>5 DEF FileOfUser, DepthExact
  <2>2. RunningHolds'
    BY <1>1, <1>2, <1>5 DEF FileOfUser, RunningHolds
  <2>3. WritingHolds'
    BY <1>1, <1>3, <1>5 DEF FileOfUser, WritingHolds
  <2>4. UnlinkingHolds'
    BY <1>1, <1>2, <1>3, <1>5, ProcOfAssumption DEF FileOfUser, UnlinkingHolds
  <2> QED
    BY <2>1, <2>2, <2>3, <2>4 DEF FileOfUser
<1> QED
  BY <1>3, <1>4, <1>5 DEF IInv

\* While the file is not stolen, whoever uses it is of the process whose task
\* created it.
LEMMA UserIsCreator ==
  ASSUME TypeOK, FileOfUser, NEW t \in Tasks, pc[t] \in {"write", "fn", "unlink"}
  PROVE  lockFile \in LockFiles /\ ProcOf[lockFile.by] = ProcOf[t]
<1>1. CASE pc[t] = "write"
  BY <1>1 DEF FileOfUser, WritingHolds, LockFiles
<1>2. CASE pc[t] = "fn"
  BY <1>2, ProcOfAssumption DEF FileOfUser, RunningHolds, Running, TasksOf
<1>3. CASE pc[t] = "unlink"
  BY <1>3 DEF FileOfUser, UnlinkingHolds
<1> QED
  BY <1>1, <1>2, <1>3

\* Nobody uses a path with no file.
LEMMA NoFileNoUser ==
  ASSUME TypeOK, FileOfUser, lockFile = NoFile
  PROVE  /\ \A t \in Tasks : pc[t] \notin {"write", "fn", "unlink"}
         /\ \A p \in Procs : Running(p) = {}
<1>1. ASSUME NEW t \in Tasks, pc[t] \in {"write", "fn", "unlink"} PROVE FALSE
  <2>1. lockFile \in LockFiles
    BY <1>1, UserIsCreator
  <2> QED
    BY <2>1, NoFileAssumption
<1> QED
  BY <1>1 DEF Running, TasksOf

-----------------------------------------------------------------------------
(* The steps that use the file *)

LEMMA JoinStep ==
  ASSUME IInv, TypeOK', NEW t \in Tasks, Join(t)
  PROVE  IInv'
<1> DEFINE p == ProcOf[t]
<1>1. TypeOK /\ OneSynchronous /\ GoneForgets /\ (~stolen => FileOfUser)
  BY DEF IInv
<1>2. Goto(t, "idle", "fn") /\ depth[p] > 0 /\ depth' = [depth EXCEPT ![p] = @ + 1]
      /\ UNCHANGED <<lockFile, alive, heldFd, stolen>>
  BY DEF Join, envVars
<1>3. OneSynchronous' /\ p \in alive /\ p \in Procs /\ pc[t] = "idle" /\ pc'[t] = "fn"
      /\ (\A u \in Tasks \ {t} : pc'[u] = pc[u])
      /\ (\A u \in Tasks \ {t} : ProcOf[u] = p => pc[u] \notin Synchronous)
  BY <1>1, <1>2, MoveFacts DEF Awaiting
<1>4. /\ Running(p)' = Running(p) \cup {t}
      /\ Cardinality(Running(p))' = Cardinality(Running(p)) + 1
      /\ \A q \in Procs \ {p} : Running(q)' = Running(q)
  BY <1>1, <1>2, RunningEnter
<1>5. GoneForgets'
  BY <1>1, <1>2, <1>3 DEF GoneForgets, TasksOf, TypeOK
<1>6. ASSUME ~stolen PROVE FileOfUser'
  <2>1. FileOfUser
    BY <1>1, <1>6
  <2>2. DepthExact'
    BY <1>1, <1>2, <1>3, <1>4, <2>1 DEF FileOfUser, DepthExact, TypeOK
  <2>3. Running(p) # {}
    BY <1>2, <1>3, <2>1, FS_EmptySet DEF FileOfUser, DepthExact
  <2>4. RunningHolds'
    BY <1>2, <1>3, <1>4, <2>1, <2>3 DEF FileOfUser, RunningHolds
  <2>5. WritingHolds'
    BY <1>2, <1>3, <2>1 DEF FileOfUser, WritingHolds
  <2>6. UnlinkingHolds'
    <3> SUFFICES ASSUME NEW u \in Tasks, pc'[u] = "unlink"
                 PROVE  /\ lockFile \in LockFiles
                        /\ ProcOf[lockFile.by] = ProcOf[u]
                        /\ Running(ProcOf[u])' = {}
      BY <1>2 DEF UnlinkingHolds
    <3>1. u # t /\ pc[u] = "unlink" /\ ProcOf[u] # p /\ ProcOf[u] \in Procs
      BY <1>3, ProcOfAssumption DEF Synchronous
    <3> QED
      BY <1>4, <2>1, <3>1 DEF FileOfUser, UnlinkingHolds
  <2> QED
    BY <2>2, <2>4, <2>5, <2>6 DEF FileOfUser
<1> QED
  BY <1>2, <1>3, <1>5, <1>6 DEF IInv

LEMMA CreateStep ==
  ASSUME IInv, TypeOK', NEW t \in Tasks, Create(t)
  PROVE  IInv'
<1> DEFINE p == ProcOf[t]
<1>1. TypeOK /\ OneSynchronous /\ GoneForgets /\ (~stolen => FileOfUser)
  BY DEF IInv
<1>2. /\ Goto(t, "open", "write") /\ lockFile = NoFile
      /\ lockFile' = [by |-> t, pid |-> Blank]
      /\ heldFd' = [heldFd EXCEPT ![p] = TRUE]
      /\ UNCHANGED <<alive, depth, stolen>>
  BY DEF Create, envVars
<1>3. OneSynchronous' /\ p \in alive /\ p \in Procs /\ pc'[t] = "write"
      /\ (\A u \in Tasks \ {t} : pc'[u] = pc[u])
  BY <1>1, <1>2, MoveFacts DEF Synchronous
<1>4. \A q \in Procs : Running(q)' = Running(q)
  BY <1>1, <1>2, RunningSame DEF Synchronous
<1>5. GoneForgets'
  BY <1>1, <1>2, <1>3 DEF GoneForgets, TasksOf, TypeOK
<1>6. ASSUME ~stolen PROVE FileOfUser'
  <2>1. FileOfUser
    BY <1>1, <1>6
  <2>2. /\ \A u \in Tasks : pc[u] \notin {"write", "fn", "unlink"}
        /\ \A q \in Procs : Running(q) = {}
    BY <1>1, <1>2, <2>1, NoFileNoUser
  <2>3. DepthExact'
    BY <1>2, <1>4, <2>1 DEF FileOfUser, DepthExact
  <2>4. RunningHolds'
    BY <1>4, <2>2 DEF RunningHolds
  <2>5. WritingHolds'
    BY <1>1, <1>2, <1>3, <2>2 DEF WritingHolds, TypeOK
  <2>6. UnlinkingHolds'
    BY <1>3, <2>2 DEF UnlinkingHolds
  <2> QED
    BY <2>3, <2>4, <2>5, <2>6 DEF FileOfUser
<1> QED
  BY <1>2, <1>3, <1>5, <1>6 DEF IInv

LEMMA WritePidStep ==
  ASSUME IInv, TypeOK', NEW t \in Tasks, WritePid(t)
  PROVE  IInv'
<1> DEFINE p == ProcOf[t]
<1>1. TypeOK /\ OneSynchronous /\ GoneForgets /\ (~stolen => FileOfUser)
  BY DEF IInv
<1>2. /\ Goto(t, "write", "fn")
      /\ lockFile' = IF lockFile # NoFile /\ lockFile.by = t
                     THEN [lockFile EXCEPT !.pid = p]
                     ELSE lockFile
      /\ depth' = [depth EXCEPT ![p] = 1]
      /\ UNCHANGED <<alive, heldFd, stolen>>
  BY DEF WritePid, envVars
<1>3. OneSynchronous' /\ p \in alive /\ p \in Procs /\ pc[t] = "write" /\ pc'[t] = "fn"
      /\ (\A u \in Tasks \ {t} : pc'[u] = pc[u])
      /\ (\A u \in Tasks \ {t} : ProcOf[u] = p => pc[u] \notin Synchronous)
  BY <1>1, <1>2, MoveFacts DEF Awaiting
<1>4. /\ Running(p)' = Running(p) \cup {t}
      /\ Cardinality(Running(p))' = Cardinality(Running(p)) + 1
      /\ \A q \in Procs \ {p} : Running(q)' = Running(q)
  BY <1>1, <1>2, RunningEnter
<1>5. GoneForgets'
  BY <1>1, <1>2, <1>3 DEF GoneForgets, TasksOf, TypeOK
<1>6. ASSUME ~stolen PROVE FileOfUser'
  <2>1. FileOfUser
    BY <1>1, <1>6
  <2>2. lockFile = [by |-> t, pid |-> Blank] /\ heldFd[p] /\ lockFile # NoFile
    BY <1>3, <2>1, NoFileAssumption DEF FileOfUser, WritingHolds, LockFiles
  <2>3. lockFile' = [by |-> t, pid |-> p] /\ lockFile' \in LockFiles
    BY <1>2, <1>3, <2>2 DEF LockFiles
  <2>4. \A q \in Procs : Running(q) = {}
    BY <2>1, <2>2, BlankAssumption DEF FileOfUser, RunningHolds
  <2>5. \A u \in Tasks \ {t} : pc[u] \notin {"write", "unlink"}
    <3> SUFFICES ASSUME NEW u \in Tasks \ {t}, pc[u] \in {"write", "unlink"} PROVE FALSE
      OBVIOUS
    <3>1. ProcOf[u] = p
      BY <1>1, <2>1, <2>2, UserIsCreator
    <3> QED
      BY <1>3, <3>1 DEF Synchronous
  <2>6. DepthExact'
    <3>1. Cardinality(Running(p)) = 0
      BY <1>3, <2>4, FS_EmptySet
    <3>2. Cardinality(Running(p))' = 1
      BY <1>4, <3>1
    <3> QED
      BY <1>1, <1>2, <1>3, <1>4, <2>1, <3>2 DEF FileOfUser, DepthExact, TypeOK
  <2>7. RunningHolds'
    BY <1>2, <1>4, <2>2, <2>3, <2>4 DEF RunningHolds
  <2>8. \A u \in Tasks : pc'[u] \notin {"write", "unlink"}
    BY <1>3, <2>5
  <2>9. WritingHolds' /\ UnlinkingHolds'
    BY <2>8 DEF WritingHolds, UnlinkingHolds
  <2> QED
    BY <2>6, <2>7, <2>9 DEF FileOfUser
<1> QED
  BY <1>2, <1>3, <1>5, <1>6 DEF IInv

LEMMA WriteErrorStep ==
  ASSUME IInv, TypeOK', NEW t \in Tasks, WriteError(t)
  PROVE  IInv'
<1>1. TypeOK /\ OneSynchronous /\ GoneForgets /\ (~stolen => FileOfUser)
  BY DEF IInv
<1>2. Goto(t, "write", "idle") /\ UNCHANGED <<lockFile, alive, depth, heldFd, stolen>>
  BY DEF WriteError
<1>3. OneSynchronous' /\ ProcOf[t] \in alive /\ pc'[t] = "idle"
      /\ \A u \in Tasks \ {t} : pc'[u] = pc[u]
  BY <1>1, <1>2, MoveFacts DEF Awaiting
<1>4. \A q \in Procs : Running(q)' = Running(q)
  BY <1>1, <1>2, RunningSame DEF Awaiting
<1>5. GoneForgets'
  BY <1>1, <1>2, <1>3 DEF GoneForgets, TasksOf
<1>6. ASSUME ~stolen PROVE FileOfUser'
  <2>1. FileOfUser
    BY <1>1, <1>6
  <2>2. DepthExact' /\ RunningHolds'
    BY <1>2, <1>4, <2>1 DEF FileOfUser, DepthExact, RunningHolds
  <2>3. WritingHolds'
    BY <1>2, <1>3, <2>1 DEF FileOfUser, WritingHolds
  <2>4. UnlinkingHolds'
    BY <1>2, <1>3, <1>4, <2>1, ProcOfAssumption DEF FileOfUser, UnlinkingHolds
  <2> QED
    BY <2>2, <2>3, <2>4 DEF FileOfUser
<1> QED
  BY <1>2, <1>3, <1>5, <1>6 DEF IInv

\* Clear removes a file: if that steals nothing, the file had no user at all.
LEMMA ClearStep ==
  ASSUME IInv, TypeOK', NEW t \in Tasks, Clear(t)
  PROVE  IInv'
<1>1. TypeOK /\ OneSynchronous /\ GoneForgets /\ (~stolen => FileOfUser)
  BY DEF IInv
<1>2. /\ Goto(t, "clear", "open") /\ lockFile # NoFile /\ lockFile' = NoFile
      /\ stolen' = (stolen \/ Uses(ProcOf[lockFile.by]))
      /\ UNCHANGED <<alive, depth, heldFd>>
  BY DEF Clear, envVars
<1>3. OneSynchronous' /\ ProcOf[t] \in alive /\ pc'[t] = "open"
      /\ \A u \in Tasks \ {t} : pc'[u] = pc[u]
  BY <1>1, <1>2, MoveFacts DEF Synchronous
<1>4. \A q \in Procs : Running(q)' = Running(q)
  BY <1>1, <1>2, RunningSame DEF Synchronous
<1>5. GoneForgets'
  BY <1>1, <1>2, <1>3 DEF GoneForgets, TasksOf
<1>6. ASSUME ~stolen' PROVE FileOfUser'
  <2>1. FileOfUser /\ ~Uses(ProcOf[lockFile.by])
    BY <1>1, <1>2, <1>6
  <2>2. ASSUME NEW u \in Tasks, pc[u] \in {"write", "fn", "unlink"} PROVE FALSE
    <3>1. ProcOf[lockFile.by] = ProcOf[u]
      BY <1>1, <2>1, <2>2, UserIsCreator
    <3> QED
      BY <2>1, <2>2, <3>1 DEF Uses, TasksOf
  <2>3. \A u \in Tasks : pc'[u] \notin {"write", "unlink"}
    BY <1>3, <2>2
  <2>4. \A q \in Procs : Running(q)' = {}
    BY <1>4, <2>2 DEF Running, TasksOf
  <2>5. DepthExact'
    BY <1>2, <1>4, <2>1 DEF FileOfUser, DepthExact
  <2>6. RunningHolds' /\ WritingHolds' /\ UnlinkingHolds'
    BY <2>3, <2>4 DEF RunningHolds, WritingHolds, UnlinkingHolds
  <2> QED
    BY <2>5, <2>6 DEF FileOfUser
<1> QED
  BY <1>3, <1>5, <1>6 DEF IInv

LEMMA LeaveStep ==
  ASSUME IInv, TypeOK', NEW t \in Tasks, Leave(t)
  PROVE  IInv'
<1> DEFINE p == ProcOf[t]
<1>1. TypeOK /\ OneSynchronous /\ GoneForgets /\ (~stolen => FileOfUser)
  BY DEF IInv
<1>2. /\ Goto(t, "fn", "idle")
      /\ depth' = [depth EXCEPT ![p] = @ - 1]
      /\ UNCHANGED <<lockFile, alive, heldFd, stolen>>
  BY DEF Leave, envVars
<1>3. OneSynchronous' /\ p \in alive /\ p \in Procs /\ pc'[t] = "idle"
      /\ \A u \in Tasks \ {t} : pc'[u] = pc[u]
  BY <1>1, <1>2, MoveFacts DEF Awaiting
<1>4. /\ Running(p)' = Running(p) \ {t} /\ t \in Running(p)
      /\ Cardinality(Running(p))' = Cardinality(Running(p)) - 1
      /\ \A q \in Procs \ {p} : Running(q)' = Running(q)
  BY <1>1, <1>2, RunningLeave DEF Awaiting
<1>5. GoneForgets'
  BY <1>1, <1>2, <1>3 DEF GoneForgets, TasksOf, TypeOK
<1>6. ASSUME ~stolen PROVE FileOfUser'
  <2>1. FileOfUser
    BY <1>1, <1>6
  <2>2. DepthExact'
    BY <1>1, <1>2, <1>3, <1>4, <2>1 DEF FileOfUser, DepthExact, TypeOK
  <2>3. RunningHolds'
    BY <1>2, <1>3, <1>4, <2>1 DEF FileOfUser, RunningHolds
  <2>4. WritingHolds'
    BY <1>2, <1>3, <2>1 DEF FileOfUser, WritingHolds
  <2>5. UnlinkingHolds'
    BY <1>2, <1>3, <1>4, <2>1, ProcOfAssumption DEF FileOfUser, UnlinkingHolds
  <2> QED
    BY <2>2, <2>3, <2>4, <2>5 DEF FileOfUser
<1> QED
  BY <1>2, <1>3, <1>5, <1>6 DEF IInv

\* The last task out: nothing of its process runs any more.
LEMMA CloseStep ==
  ASSUME IInv, TypeOK', NEW t \in Tasks, Close(t)
  PROVE  IInv'
<1> DEFINE p == ProcOf[t]
<1>1. TypeOK /\ OneSynchronous /\ GoneForgets /\ (~stolen => FileOfUser)
  BY DEF IInv
<1>2. /\ Goto(t, "fn", "unlink") /\ depth[p] - 1 <= 0
      /\ depth' = [depth EXCEPT ![p] = @ - 1]
      /\ heldFd' = [heldFd EXCEPT ![p] = FALSE]
      /\ UNCHANGED <<lockFile, alive, stolen>>
  BY DEF Close, envVars
<1>3. OneSynchronous' /\ p \in alive /\ p \in Procs /\ pc[t] = "fn" /\ pc'[t] = "unlink"
      /\ (\A u \in Tasks \ {t} : pc'[u] = pc[u])
      /\ (\A u \in Tasks \ {t} : ProcOf[u] = p => pc[u] \notin Synchronous)
  BY <1>1, <1>2, MoveFacts DEF Synchronous
<1>4. /\ Running(p)' = Running(p) \ {t} /\ t \in Running(p)
      /\ Cardinality(Running(p))' = Cardinality(Running(p)) - 1
      /\ \A q \in Procs \ {p} : Running(q)' = Running(q)
  BY <1>1, <1>2, RunningLeave DEF Synchronous
<1>5. GoneForgets'
  BY <1>1, <1>2, <1>3 DEF GoneForgets, TasksOf, TypeOK
<1>6. ASSUME ~stolen PROVE FileOfUser'
  <2>1. FileOfUser
    BY <1>1, <1>6
  <2>2. DepthExact'
    BY <1>1, <1>2, <1>3, <1>4, <2>1 DEF FileOfUser, DepthExact, TypeOK
  <2>3. Running(p)' = {}
    <3>1. IsFiniteSet(Running(p)) /\ Cardinality(Running(p)) \in Nat
      BY <1>3, RunningFinite
    <3>2. Cardinality(Running(p)) <= 1
      BY <1>2, <1>3, <2>1, <3>1 DEF FileOfUser, DepthExact
    <3>3. Cardinality(Running(p)) # 0
      BY <1>4, <3>1, FS_EmptySet
    <3>4. Cardinality(Running(p) \ {t}) = 0 /\ IsFiniteSet(Running(p) \ {t})
      BY <1>4, <3>1, <3>2, <3>3, FS_RemoveElement
    <3> QED
      BY <1>4, <3>4, FS_EmptySet
  <2>4. lockFile \in LockFiles /\ ProcOf[lockFile.by] = p
    BY <1>1, <1>3, <2>1, UserIsCreator
  <2>5. RunningHolds'
    BY <1>1, <1>2, <1>3, <1>4, <2>1, <2>3 DEF FileOfUser, RunningHolds, TypeOK
  <2>6. WritingHolds'
    <3> SUFFICES ASSUME NEW u \in Tasks, pc'[u] = "write"
                 PROVE  lockFile = [by |-> u, pid |-> Blank] /\ heldFd'[ProcOf[u]]
      BY <1>2 DEF WritingHolds
    <3>1. u # t /\ pc[u] = "write" /\ ProcOf[u] # p
      BY <1>3 DEF Synchronous
    <3> QED
      BY <1>2, <2>1, <2>4, <3>1 DEF FileOfUser, WritingHolds
  <2>7. UnlinkingHolds'
    <3> SUFFICES ASSUME NEW u \in Tasks, pc'[u] = "unlink"
                 PROVE  /\ lockFile \in LockFiles
                        /\ ProcOf[lockFile.by] = ProcOf[u]
                        /\ Running(ProcOf[u])' = {}
      BY <1>2 DEF UnlinkingHolds
    <3>1. CASE u = t
      BY <2>3, <2>4, <3>1
    <3>2. CASE u # t
      BY <1>3, <1>4, <2>1, <3>2, ProcOfAssumption DEF FileOfUser, UnlinkingHolds, Synchronous
    <3> QED
      BY <3>1, <3>2
  <2> QED
    BY <2>2, <2>5, <2>6, <2>7 DEF FileOfUser
<1> QED
  BY <1>2, <1>3, <1>5, <1>6 DEF IInv

\* The file removed on release is the releasing process's, so nobody uses the
\* path afterwards.
LEMMA UnlinkStep ==
  ASSUME IInv, TypeOK', NEW t \in Tasks, Unlink(t)
  PROVE  IInv'
<1> DEFINE p == ProcOf[t]
<1>1. TypeOK /\ OneSynchronous /\ GoneForgets /\ (~stolen => FileOfUser)
  BY DEF IInv
<1>2. /\ Goto(t, "unlink", "idle") /\ lockFile' = NoFile
      /\ UNCHANGED <<alive, depth, heldFd, stolen>>
  BY DEF Unlink, envVars
<1>3. OneSynchronous' /\ p \in alive /\ p \in Procs /\ pc[t] = "unlink" /\ pc'[t] = "idle"
      /\ (\A u \in Tasks \ {t} : pc'[u] = pc[u])
      /\ (\A u \in Tasks \ {t} : ProcOf[u] = p => pc[u] \notin Synchronous)
  BY <1>1, <1>2, MoveFacts DEF Awaiting
<1>4. \A q \in Procs : Running(q)' = Running(q)
  BY <1>1, <1>2, RunningSame DEF Awaiting
<1>5. GoneForgets'
  BY <1>1, <1>2, <1>3 DEF GoneForgets, TasksOf
<1>6. ASSUME ~stolen PROVE FileOfUser'
  <2>1. FileOfUser
    BY <1>1, <1>6
  <2>2. ProcOf[lockFile.by] = p /\ Running(p) = {}
    BY <1>3, <2>1 DEF FileOfUser, UnlinkingHolds
  <2>3. ASSUME NEW u \in Tasks \ {t}, pc[u] \in {"write", "fn", "unlink"} PROVE FALSE
    <3>1. ProcOf[u] = p
      BY <1>1, <2>1, <2>2, <2>3, UserIsCreator
    <3> QED
      BY <1>3, <2>2, <2>3, <3>1 DEF Running, TasksOf, Synchronous
  <2>4. \A u \in Tasks : pc'[u] \notin {"write", "unlink"}
    BY <1>3, <2>3
  <2>5. \A q \in Procs : Running(q)' = {}
    BY <1>3, <1>4, <2>3 DEF Running, TasksOf
  <2>6. DepthExact'
    BY <1>2, <1>4, <2>1 DEF FileOfUser, DepthExact
  <2>7. RunningHolds' /\ WritingHolds' /\ UnlinkingHolds'
    BY <2>4, <2>5 DEF RunningHolds, WritingHolds, UnlinkingHolds
  <2> QED
    BY <2>6, <2>7 DEF FileOfUser
<1> QED
  BY <1>2, <1>3, <1>5, <1>6 DEF IInv

-----------------------------------------------------------------------------
(* Processes come and go *)

\* An exit empties the process; a file it used stays, with nobody using it.
LEMMA ExitStep ==
  ASSUME IInv, TypeOK', NEW p \in Procs, Exit(p)
  PROVE  IInv'
<1>1. TypeOK /\ OneSynchronous /\ GoneForgets /\ (~stolen => FileOfUser)
  BY DEF IInv
<1>2. /\ alive' = alive \ {p}
      /\ depth' = [depth EXCEPT ![p] = 0]
      /\ heldFd' = [heldFd EXCEPT ![p] = FALSE]
      /\ pc' = [t \in Tasks |-> IF ProcOf[t] = p THEN "idle" ELSE pc[t]]
      /\ UNCHANGED <<lockFile, stolen>>
  BY DEF Exit
<1>3. OneSynchronous'
  BY <1>1, <1>2 DEF OneSynchronous, Synchronous
<1>4. GoneForgets'
  BY <1>1, <1>2 DEF GoneForgets, TasksOf, TypeOK
<1>5. Running(p)' = {} /\ \A q \in Procs \ {p} : Running(q)' = Running(q)
  BY <1>2 DEF Running, TasksOf
<1>6. ASSUME ~stolen PROVE FileOfUser'
  <2>1. FileOfUser
    BY <1>1, <1>6
  <2>2. DepthExact'
    <3> SUFFICES ASSUME NEW q \in Procs PROVE depth'[q] = Cardinality(Running(q)')
      BY DEF DepthExact
    <3>1. CASE q = p
      BY <1>1, <1>2, <1>5, <3>1, FS_EmptySet DEF TypeOK
    <3>2. CASE q # p
      BY <1>1, <1>2, <1>5, <2>1, <3>2 DEF FileOfUser, DepthExact, TypeOK
    <3> QED
      BY <3>1, <3>2
  <2>3. RunningHolds'
    BY <1>1, <1>2, <1>5, <2>1 DEF FileOfUser, RunningHolds, TypeOK
  <2>4. WritingHolds'
    BY <1>1, <1>2, <2>1, ProcOfAssumption DEF FileOfUser, WritingHolds, TypeOK
  <2>5. UnlinkingHolds'
    BY <1>2, <1>5, <2>1, ProcOfAssumption DEF FileOfUser, UnlinkingHolds
  <2> QED
    BY <2>2, <2>3, <2>4, <2>5 DEF FileOfUser
<1> QED
  BY <1>2, <1>3, <1>4, <1>6 DEF IInv

LEMMA ReuseStep ==
  ASSUME IInv, TypeOK', NEW p \in Procs, Reuse(p)
  PROVE  IInv'
<1>1. TypeOK /\ OneSynchronous /\ GoneForgets /\ (~stolen => FileOfUser)
  BY DEF IInv
<1>2. alive' = alive \cup {p} /\ UNCHANGED <<lockFile, depth, heldFd, pc, stolen>>
  BY DEF Reuse
<1>3. OneSynchronous' /\ GoneForgets'
  BY <1>1, <1>2 DEF OneSynchronous, GoneForgets, TasksOf
<1>4. \A q \in Procs : Running(q)' = Running(q)
  BY <1>2 DEF Running, TasksOf
<1>5. ASSUME ~stolen PROVE FileOfUser'
  BY <1>1, <1>2, <1>4, <1>5, ProcOfAssumption
     DEF FileOfUser, DepthExact, RunningHolds, WritingHolds, UnlinkingHolds
<1> QED
  BY <1>2, <1>3, <1>5 DEF IInv

-----------------------------------------------------------------------------
(* The invariant and what follows from it *)

LEMMA InitInvariant == Init => IInv
<1> SUFFICES ASSUME Init PROVE IInv
  OBVIOUS
<1>1. TypeOK
  BY InitTypes
<1>2. \A p \in Procs : Running(p) = {}
  BY DEF Init, Running, TasksOf
<1>3. OneSynchronous /\ GoneForgets
  BY DEF Init, OneSynchronous, GoneForgets, Synchronous
<1>4. DepthExact
  BY <1>2, FS_EmptySet DEF Init, DepthExact
<1>5. RunningHolds /\ WritingHolds /\ UnlinkingHolds
  BY <1>2 DEF Init, RunningHolds, WritingHolds, UnlinkingHolds
<1> QED
  BY <1>1, <1>3, <1>4, <1>5 DEF IInv, FileOfUser

LEMMA StepInvariant == IInv /\ [Next]_vars => IInv'
<1> SUFFICES ASSUME IInv, [Next]_vars PROVE IInv'
  OBVIOUS
<1>0. TypeOK'
  BY TypeStep DEF IInv
<1>1. CASE UNCHANGED vars
  <2>1. \A q \in Procs : Running(q)' = Running(q)
    BY <1>1 DEF vars, Running, TasksOf
  <2> QED
    BY <1>0, <1>1, <2>1, ProcOfAssumption
       DEF vars, IInv, OneSynchronous, GoneForgets, FileOfUser, TasksOf,
           DepthExact, RunningHolds, WritingHolds, UnlinkingHolds
<1>2. ASSUME NEW t \in Tasks,
             \/ Begin(t) \/ Busy(t) \/ Sleep(t) \/ Wake(t) \/ Exists(t) \/ ReadOther(t)
             \/ ReadNone(t) \/ ProbeAlive(t) \/ ProbeDead(t) \/ ClearNone(t)
      PROVE  IInv'
  <2>1. UNCHANGED <<lockFile, alive, depth, heldFd, stolen>>
    BY <1>2 DEF Begin, Busy, Sleep, Wake, Exists, ReadOther, ReadNone,
                ProbeAlive, ProbeDead, ClearNone, envVars
  <2>2. PICK from \in {"idle", "poll", "sleep", "open", "read", "probe", "clear"},
             to \in {"idle", "open", "read", "probe", "clear", "poll", "sleep"} :
             Goto(t, from, to)
    BY <1>2 DEF Begin, Busy, Sleep, Wake, Exists, ReadOther, ReadNone,
                ProbeAlive, ProbeDead, ClearNone
  <2> QED
    BY <1>0, <2>1, <2>2, QuietMove
<1>3. ASSUME NEW t \in Tasks,
             \/ Join(t) \/ Create(t) \/ WritePid(t) \/ WriteError(t)
             \/ Clear(t) \/ Leave(t) \/ Close(t) \/ Unlink(t)
      PROVE  IInv'
  BY <1>0, <1>3, JoinStep, CreateStep, WritePidStep, WriteErrorStep,
     ClearStep, LeaveStep, CloseStep, UnlinkStep
<1>4. ASSUME NEW p \in Procs, Exit(p) \/ Reuse(p)
      PROVE  IInv'
  BY <1>0, <1>4, ExitStep, ReuseStep
<1> QED
  BY <1>1, <1>2, <1>3, <1>4 DEF Next, Call, Proceed, Settle

LEMMA Invariance == Spec => []IInv
BY InitInvariant, StepInvariant, PTL DEF Spec

\* For every set of processes, tasks and bounds: as long as clearIfStale has
\* removed no file in use, no two processes run fn at once.
THEOREM ExclusionUnlessStolen == Spec => []ExclusiveUnlessStolen
<1>1. IInv => ExclusiveUnlessStolen
  BY DEF IInv, FileOfUser, RunningHolds, ExclusiveUnlessStolen, OneUpdateAtATime
<1> QED
  BY <1>1, Invariance, PTL

\* For every instance: a process whose tasks run fn has its pid in the file.
THEOREM HolderKeepsFile == Spec => []HeldWhileRunning
<1>1. IInv => HeldWhileRunning
  BY NoFileAssumption DEF IInv, FileOfUser, RunningHolds, HeldWhileRunning
<1> QED
  BY <1>1, Invariance, PTL

\* For every instance: depth is the number of tasks in fn.
THEOREM DepthIsExact == Spec => []DepthCountsTasks
<1>1. IInv => DepthCountsTasks
  BY DEF IInv, FileOfUser, DepthExact, DepthCountsTasks
<1> QED
  BY <1>1, Invariance, PTL

\* For every instance: release removes the file of its own process.
THEOREM ReleaseIsOwn == Spec => ReleaseRemovesOwn
<1>1. ASSUME IInv, NEW t \in Tasks, Unlink(t), ~stolen
      PROVE  lockFile # NoFile /\ ProcOf[lockFile.by] = ProcOf[t]
  BY <1>1, NoFileAssumption DEF IInv, FileOfUser, UnlinkingHolds, Unlink, Goto
<1>2. IInv => [\A t \in Tasks : Unlink(t) /\ ~stolen =>
                  lockFile # NoFile /\ ProcOf[lockFile.by] = ProcOf[t]]_vars
  BY <1>1
<1> QED
  BY <1>2, Invariance, PTL DEF ReleaseRemovesOwn

-----------------------------------------------------------------------------
(* The lock implements a lock between processes *)

\* The tasks in fn are all of the process whose pid is in the file.
LEMMA RunningOfPid ==
  ASSUME TypeOK, FileOfUser, NEW t \in Tasks, pc[t] = "fn"
  PROVE  lockFile \in LockFiles /\ lockFile.pid = ProcOf[t] /\ ProcOf[lockFile.by] = ProcOf[t]
<1>1. ProcOf[t] \in Procs /\ t \in Running(ProcOf[t])
  BY ProcOfAssumption DEF Running, TasksOf
<1> QED
  BY <1>1 DEF FileOfUser, RunningHolds

\* A task that joins finds its process inside already.
LEMMA JoinEnters ==
  ASSUME TypeOK, OneSynchronous, FileOfUser, NEW t \in Tasks, Join(t)
  PROVE  \A u \in Tasks : pc[u] = "fn" => ProcOf[u] = ProcOf[t]
<1>1. ProcOf[t] \in Procs /\ depth[ProcOf[t]] > 0
  BY ProcOfAssumption DEF Join
<1>2. PICK v \in Running(ProcOf[t]) : TRUE
  <2>1. Cardinality(Running(ProcOf[t])) # 0
    BY <1>1 DEF FileOfUser, DepthExact
  <2> QED
    BY <2>1, FS_EmptySet
<1>3. v \in Tasks /\ pc[v] = "fn" /\ ProcOf[v] = ProcOf[t]
  BY <1>2 DEF Running, TasksOf
<1> QED
  BY <1>3, RunningOfPid

\* A task that writes its pid finds nobody inside.
LEMMA WriteEnters ==
  ASSUME TypeOK, FileOfUser, NEW t \in Tasks, WritePid(t), NEW u \in Tasks
  PROVE  pc[u] # "fn"
<1>1. lockFile = [by |-> t, pid |-> Blank]
  BY DEF WritePid, Goto, FileOfUser, WritingHolds
<1>2. ProcOf[u] \in Procs
  BY ProcOfAssumption
<1> QED
  BY <1>1, <1>2, RunningOfPid, BlankAssumption

\* For every instance: tasks enter an empty lock or join those of their own
\* process, and leave one by one, or all at once when their process is gone or
\* its lock is stolen.
THEOREM UpdateLockRefines == Spec => ImplementsLock
<1>1. Init => Lock!Init
  BY DEF Init, Lock!Init, Entered
<1>2. IInv /\ [Next]_vars => [Lock!Next]_Entered
  <2> SUFFICES ASSUME IInv, [Next]_vars PROVE [Lock!Next]_Entered
    OBVIOUS
  <2> USE DEF Lock!Next
  <2>0. TypeOK /\ OneSynchronous /\ (~stolen => FileOfUser)
    BY DEF IInv
  <2>1. ASSUME NEW t \in Tasks, Join(t) \/ WritePid(t) PROVE [Lock!Next]_Entered
    <3>1. PICK from \in {"idle", "write"} : Goto(t, from, "fn") /\ stolen' = stolen
      BY <2>1 DEF Join, WritePid
    <3>2. CASE stolen
      BY <3>1, <3>2 DEF Entered
    <3>3. CASE ~stolen
      <4>1. t \notin Entered /\ Entered' = Entered \cup {t}
        BY <2>0, <3>1, <3>3 DEF Entered, Goto, TypeOK
      <4>2. \A u \in Entered : ProcOf[u] = ProcOf[t]
        BY <2>0, <2>1, <3>3, JoinEnters, WriteEnters DEF Entered
      <4> QED
        BY <4>1, <4>2 DEF Lock!Enter
    <3> QED
      BY <3>2, <3>3
  <2>2. ASSUME NEW t \in Tasks, Leave(t) \/ Close(t) PROVE [Lock!Next]_Entered
    <3>1. PICK to \in {"idle", "unlink"} : Goto(t, "fn", to) /\ stolen' = stolen
      BY <2>2 DEF Leave, Close
    <3>2. CASE stolen
      BY <3>1, <3>2 DEF Entered
    <3>3. CASE ~stolen
      BY <2>0, <3>1, <3>3 DEF Entered, Goto, TypeOK, Lock!Leave
    <3> QED
      BY <3>2, <3>3
  <2>3. ASSUME NEW t \in Tasks, Clear(t) PROVE [Lock!Next]_Entered
    <3>1. /\ Goto(t, "clear", "open")
          /\ lockFile # NoFile
          /\ stolen' = (stolen \/ Uses(ProcOf[lockFile.by]))
      BY <2>3 DEF Clear
    <3>2. {u \in Tasks : pc'[u] = "fn"} = {u \in Tasks : pc[u] = "fn"}
      BY <2>0, <3>1 DEF Goto, TypeOK
    <3>3. CASE stolen' = stolen
      BY <3>2, <3>3 DEF Entered
    <3>4. CASE ~stolen /\ stolen'
      <4>1. lockFile \in LockFiles /\ ProcOf[lockFile.by] \in Procs
        BY <2>0, <3>1, ProcOfAssumption DEF TypeOK, LockFiles
      <4>2. Lock!Drop(ProcOf[lockFile.by])
        BY <2>0, <3>4, RunningOfPid DEF Entered, Lock!Drop
      <4> QED
        BY <4>1, <4>2
    <3> QED
      BY <2>0, <3>1, <3>3, <3>4 DEF TypeOK
  <2>4. ASSUME NEW p \in Procs, Exit(p) PROVE [Lock!Next]_Entered
    <3>1. /\ pc' = [t \in Tasks |-> IF ProcOf[t] = p THEN "idle" ELSE pc[t]]
          /\ stolen' = stolen
      BY <2>4 DEF Exit
    <3>2. Lock!Drop(p)
      BY <3>1 DEF Entered, Lock!Drop
    <3> QED
      BY <3>2
  <2>5. ASSUME NEW p \in Procs, Reuse(p) PROVE UNCHANGED Entered
    BY <2>5 DEF Reuse, Entered
  <2>6. ASSUME NEW t \in Tasks,
               \/ Begin(t) \/ Busy(t) \/ Sleep(t) \/ Wake(t) \/ Exists(t) \/ ReadOther(t)
               \/ ReadNone(t) \/ ProbeAlive(t) \/ ProbeDead(t) \/ ClearNone(t)
               \/ Create(t) \/ WriteError(t) \/ Unlink(t)
        PROVE  UNCHANGED Entered
    <3>1. stolen' = stolen
      BY <2>6 DEF Begin, Busy, Sleep, Wake, Exists, ReadOther, ReadNone,
                  ProbeAlive, ProbeDead, ClearNone, Create, WriteError, Unlink
    <3>2. PICK from \in Synchronous \cup {"idle", "sleep"},
               to \in Synchronous \cup {"idle", "sleep"} : Goto(t, from, to)
      BY <2>6 DEF Begin, Busy, Sleep, Wake, Exists, ReadOther, ReadNone,
                  ProbeAlive, ProbeDead, ClearNone, Create, WriteError, Unlink, Synchronous
    <3> QED
      BY <2>0, <3>1, <3>2 DEF Entered, Goto, TypeOK, Synchronous
  <2>7. CASE UNCHANGED vars
    BY <2>7 DEF vars, Entered
  <2> QED
    BY <2>1, <2>2, <2>3, <2>4, <2>5, <2>6, <2>7 DEF Next, Call, Proceed, Settle
<1> QED
  BY <1>1, <1>2, Invariance, PTL DEF Spec, ImplementsLock, Lock!Spec
=============================================================================
