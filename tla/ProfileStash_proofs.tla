------------------------- MODULE ProfileStash_proofs -------------------------
(***************************************************************************)
(* For every home, every set of stash calls and every number of edits,     *)
(* failures and crashes: the user's untracked texts survive the stash, and *)
(* the stash uses the profile apply lock as its own specification has it.  *)
(* Until something fails, its entries stay in order and no edit of a file  *)
(* of the profile is lost.                                                 *)
(***************************************************************************)
EXTENDS ProfileStash, ProfileApplyLock_proofs, SequenceTheorems

\* The invariant: a text that is not on disk, backed up or written over was
\* replaced by the user; the home has a text, or none, at each path; and the
\* latest apply's snapshot is of files of the profile.
HomeIsMap == home = [p \in Paths |-> home[p]]
SnapshotIsManaged == DOMAIN snapshot \subseteq Managed
KeptInv == HomeIsMap /\ SnapshotIsManaged /\ UntrackedTextIsKept

\* The stash calls leave the ledger of the user's texts and the snapshot alone,
\* and backups and the record of what was written over only grow.
Ledger ==
  /\ kept' = kept /\ snapshot' = snapshot
  /\ backup \subseteq backup' /\ overwritten \subseteq overwritten'

-----------------------------------------------------------------------------
(* The four things a step does to the home *)

LEMMA SameHome ==
  ASSUME KeptInv, Ledger, home' = home
  PROVE  KeptInv'
BY DEF KeptInv, HomeIsMap, SnapshotIsManaged, UntrackedTextIsKept, Ledger, OnDisk, Present

LEMMA TrackedChange ==
  ASSUME KeptInv, Ledger, NEW P, home' = Reverted(P)
  PROVE  KeptInv'
<1>1. \A p \in Untracked : p \notin DOMAIN snapshot
  BY PathsAssumption DEF KeptInv, SnapshotIsManaged
<1>2. HomeIsMap'
  BY DEF HomeIsMap, Reverted, HomeWith
<1>3. \A p \in Untracked : home'[p] = home[p]
  BY <1>1 DEF Reverted, HomeWith, Paths
<1>4. ASSUME NEW x \in kept', x[1] \in Untracked
      PROVE  x \in OnDisk(Paths)' \cup backup' \cup overwritten'
  <2>1. x \in OnDisk(Paths) \cup backup \cup overwritten
    BY <1>4 DEF KeptInv, UntrackedTextIsKept, Ledger
  <2>2. x \in OnDisk(Paths) => x \in OnDisk(Paths)'
    BY <1>3, <1>4 DEF OnDisk, Present, Paths
  <2> QED
    BY <2>1, <2>2 DEF Ledger
<1> QED
  BY <1>2, <1>4 DEF KeptInv, SnapshotIsManaged, Ledger, UntrackedTextIsKept

LEMMA RestoredOver ==
  ASSUME KeptInv, Ledger, NEW f, home' = HomeWith(f), WrittenOver(f) \subseteq overwritten'
  PROVE  KeptInv'
<1>1. HomeIsMap'
  BY DEF HomeIsMap, HomeWith
<1>2. ASSUME NEW x \in kept', x[1] \in Untracked
      PROVE  x \in OnDisk(Paths)' \cup backup' \cup overwritten'
  <2>1. x \in OnDisk(Paths) \cup backup \cup overwritten
    BY <1>2 DEF KeptInv, UntrackedTextIsKept, Ledger
  <2>2. ASSUME x \in OnDisk(Paths)
        PROVE  x \in OnDisk(Paths)' \cup overwritten'
    <3>1. PICK p \in Paths : home[p] # Absent /\ x = <<p, home[p]>>
      BY <2>2 DEF OnDisk, Present
    <3>2. CASE p \in DOMAIN f /\ f[p] # home[p]
      BY <3>1, <3>2, <1>2 DEF WrittenOver, OnDisk, Present, Ledger
    <3>3. CASE ~(p \in DOMAIN f /\ f[p] # home[p])
      <4>1. home'[p] = home[p]
        BY <3>3 DEF HomeWith
      <4> QED
        BY <3>1, <4>1 DEF OnDisk, Present
    <3> QED
      BY <3>2, <3>3
  <2> QED
    BY <2>1, <2>2 DEF Ledger
<1> QED
  BY <1>1, <1>2 DEF KeptInv, SnapshotIsManaged, Ledger, UntrackedTextIsKept

LEMMA RemovedAfterBackup ==
  ASSUME KeptInv, Ledger, NEW t, NEW saved, NEW gone \in SUBSET saved,
         home' = Removed(t, gone, saved).home, backup' = Removed(t, gone, saved).backup
  PROVE  KeptInv'
<1>1. home' = [p \in Paths |-> IF p \in gone THEN Absent ELSE home[p]]
  BY DEF Removed
<1>2. backup' = backup \cup OnDisk(saved)
  BY DEF Removed
<1>3. HomeIsMap'
  BY <1>1 DEF HomeIsMap
<1>4. ASSUME NEW x \in kept', x[1] \in Untracked
      PROVE  x \in OnDisk(Paths)' \cup backup' \cup overwritten'
  <2>1. x \in OnDisk(Paths) \cup backup \cup overwritten
    BY <1>4 DEF KeptInv, UntrackedTextIsKept, Ledger
  <2>2. ASSUME x \in OnDisk(Paths)
        PROVE  x \in OnDisk(Paths)' \cup backup'
    <3>1. PICK p \in Paths : home[p] # Absent /\ x = <<p, home[p]>>
      BY <2>2 DEF OnDisk, Present
    <3>2. CASE p \in gone
      BY <3>1, <3>2, <1>2 DEF OnDisk, Present
    <3>3. CASE p \notin gone
      BY <3>1, <3>3, <1>1 DEF OnDisk, Present
    <3> QED
      BY <3>2, <3>3
  <2> QED
    BY <2>1, <2>2 DEF Ledger
<1> QED
  BY <1>3, <1>4 DEF KeptInv, SnapshotIsManaged, Ledger, UntrackedTextIsKept

-----------------------------------------------------------------------------
(* The steps *)

\* What a step that fails or is killed leaves is one of those four as well.
LEMMA PartKeeps ==
  ASSUME KeptInv, kept' = kept, NEW t \in Tasks, LeavesPartOf(t)
  PROVE  KeptInv'
<1>1. CASE Leaves(Part(home, stash, backup, NoFiles))
  BY <1>1, SameHome DEF Leaves, Part, Ledger
<1>2. ASSUME NEW saved, NEW gone \in SUBSET saved, NEW s,
             Leaves(PartRemoved(t, gone, saved, s))
      PROVE  KeptInv'
  <2>1. home' = Removed(t, gone, saved).home /\ backup' = Removed(t, gone, saved).backup
    BY <1>2 DEF Leaves, PartRemoved, Part
  <2>2. Ledger
    BY <1>2, <2>1 DEF Leaves, Ledger, Removed
  <2> QED
    BY <2>1, <2>2, RemovedAfterBackup
<1>3. ASSUME NEW P, NEW s, Leaves(PartReverted(P, s))
      PROVE  KeptInv'
  BY <1>3, TrackedChange DEF Leaves, PartReverted, Part, Ledger
<1>4. ASSUME NEW P, NEW s, Leaves(PartRestored(P, s))
      PROVE  KeptInv'
  <2> DEFINE f == [p \in P |-> Newest.files[p]]
  <2>1. Leaves(Part(HomeWith(f), s, backup, f))
    BY <1>4 DEF PartRestored
  <2> HIDE DEF f
  <2>2. home' = HomeWith(f) /\ Ledger /\ WrittenOver(f) \subseteq overwritten'
    BY <2>1 DEF Leaves, Part, Ledger
  <2> QED
    BY <2>2, RestoredOver
<1>5. CASE LeavesPush(t)
  BY <1>2, <1>5 DEF LeavesPush
<1>6. CASE LeavesDrift(t)
  BY <1>3, <1>6 DEF LeavesDrift
<1>7. CASE LeavesPop(t) \/ LeavesRestore(t)
  BY <1>4, <1>7 DEF LeavesPop, LeavesRestore
<1> QED
  BY <1>1, <1>5, <1>6, <1>7 DEF LeavesPartOf

LEMMA EditKeeps ==
  ASSUME KeptInv, NEW p \in Paths, Edit(p)
  PROVE  KeptInv'
<1>1. PICK text : /\ home' = [home EXCEPT ![p] = text]
                  /\ kept' = (kept \ OnDisk({p})) \cup ({<<p, text>>} \ {<<p, Absent>>})
  BY DEF Edit
<1>2. backup' = backup /\ overwritten' = overwritten \cap kept' /\ snapshot' = snapshot
  BY DEF Edit
<1>3. home' = [q \in Paths |-> IF q = p THEN text ELSE home[q]]
  BY <1>1 DEF KeptInv, HomeIsMap
<1>4. HomeIsMap'
  BY <1>3 DEF HomeIsMap
<1>5. ASSUME NEW x \in kept', x[1] \in Untracked
      PROVE  x \in OnDisk(Paths)' \cup backup' \cup overwritten'
  <2>1. CASE x \in kept /\ x \notin OnDisk({p})
    <3>1. x \in OnDisk(Paths) \cup backup \cup overwritten
      BY <1>5, <2>1 DEF KeptInv, UntrackedTextIsKept
    <3>2. x \in OnDisk(Paths) => x \in OnDisk(Paths)'
      BY <1>3, <2>1 DEF OnDisk, Present
    <3> QED
      BY <1>2, <1>5, <3>1, <3>2
  <2>2. CASE x = <<p, text>> /\ text # Absent
    BY <1>3, <2>2 DEF OnDisk, Present
  <2> QED
    BY <1>1, <1>5, <2>1, <2>2
<1> QED
  BY <1>2, <1>4, <1>5 DEF KeptInv, SnapshotIsManaged, UntrackedTextIsKept

LEMMA KeptStep == KeptInv /\ [Next]_vars => KeptInv'
<1> SUFFICES ASSUME KeptInv, [Next]_vars PROVE KeptInv'
  OBVIOUS
<1>1. CASE UNCHANGED vars
  BY <1>1, SameHome DEF vars, disk, history, Ledger
<1>2. ASSUME NEW t \in Tasks, Detect(t) \/ Enter(t) \/ TurnedAway(t) PROVE KeptInv'
  BY <1>2, SameHome DEF Detect, Enter, TurnedAway, disk, history, Ledger
<1>3. ASSUME NEW t \in Tasks, Proceed(t) PROVE KeptInv'
  <2>1. CASE LeaveWithNothing(t) \/ Scan(t) \/ Capture(t)
    BY <2>1, SameHome DEF LeaveWithNothing, Scan, Capture, Leave, disk, history, Ledger
  <2>2. CASE Push(t)
    <3> DEFINE all == Present(DOMAIN files[t])
    <3>1. home' = Removed(t, all, all).home /\ backup' = Removed(t, all, all).backup
      BY <2>2 DEF Push
    <3>2. Ledger
      BY <2>2, <3>1 DEF Push, Leave, Ledger, Removed
    <3> QED
      BY <3>1, <3>2, RemovedAfterBackup
  <2>3. CASE Drift(t)
    <3>1. home' = Reverted(DOMAIN Changed(t)) /\ Ledger
      BY <2>3 DEF Drift, Leave, Ledger
    <3> QED
      BY <3>1, TrackedChange
  <2>4. CASE Pop(t) \/ Restore(t)
    <3>1. /\ home' = HomeWith(ToRestore(t))
          /\ overwritten' = overwritten \cup WrittenOver(ToRestore(t))
          /\ Ledger
      BY <2>4 DEF Pop, Restore, Leave, Ledger
    <3> QED
      BY <3>1, RestoredOver
  <2>5. CASE Fails(t)
    BY <2>5, PartKeeps DEF Fails, Leave
  <2> QED
    BY <1>3, <2>1, <2>2, <2>3, <2>4, <2>5 DEF Proceed
<1>4. ASSUME NEW p \in Procs, ProcessExit(p) PROVE KeptInv'
  <2>1. kept' = kept
    BY <1>4 DEF ProcessExit
  <2>2. CASE UNCHANGED <<disk, overwritten>>
    BY <2>1, <2>2, SameHome DEF disk, Ledger
  <2>3. CASE \E t \in Holders(p) : LeavesPartOf(t)
    BY <2>1, <2>3, PartKeeps DEF Holders
  <2> QED
    BY <1>4, <2>2, <2>3 DEF ProcessExit
<1>5. ASSUME NEW p \in Procs, Recover(p) PROVE KeptInv'
  BY <1>5, SameHome DEF Recover, disk, history, Ledger
<1>6. ASSUME NEW p \in Paths, Edit(p) PROVE KeptInv'
  BY <1>6, EditKeeps
<1> QED
  BY <1>1, <1>2, <1>3, <1>4, <1>5, <1>6 DEF Next

\* No sequence of stash calls, crashes and failures loses a text the user left in
\* an untracked file, except that a pop or apply writes over what it finds.
THEOREM UntrackedTextsSurvive == Spec => []UntrackedTextIsKept
<1>1. Init => KeptInv
  BY DEF Init, KeptInv, HomeIsMap, SnapshotIsManaged, UntrackedTextIsKept
<1>2. KeptInv => UntrackedTextIsKept
  BY DEF KeptInv
<1> QED
  BY <1>1, <1>2, KeptStep, PTL DEF Spec

-----------------------------------------------------------------------------
(* The lock *)

LEMMA StashStepOfLock == [Next]_vars => [LockNext]_lockVars
<1> SUFFICES ASSUME [Next]_vars PROVE [LockNext]_lockVars
  OBVIOUS
<1>1. CASE UNCHANGED vars
  BY <1>1 DEF vars
<1>2. ASSUME NEW t \in Tasks, Detect(t) \/ Enter(t) \/ TurnedAway(t)
      PROVE  [LockNext]_lockVars
  BY <1>2 DEF Detect, Enter, TurnedAway, LockNext
<1>3. ASSUME NEW t \in Tasks, Proceed(t) PROVE [LockNext]_lockVars
  <2>1. CASE Scan(t) \/ Capture(t)
    BY <2>1 DEF Scan, Capture
  <2>2. CASE LeaveWithNothing(t) \/ Push(t) \/ Drift(t) \/ Pop(t) \/ Restore(t) \/ Fails(t)
    BY <2>2 DEF LeaveWithNothing, Push, Drift, Pop, Restore, Fails, Leave, LockNext
  <2> QED
    BY <1>3, <2>1, <2>2 DEF Proceed
<1>4. ASSUME NEW p \in Procs, ProcessExit(p) \/ Recover(p) PROVE [LockNext]_lockVars
  BY <1>4 DEF ProcessExit, Recover, LockNext
<1>5. ASSUME NEW p \in Paths, Edit(p) PROVE [LockNext]_lockVars
  BY <1>5 DEF Edit
<1> QED
  BY <1>1, <1>2, <1>3, <1>4, <1>5 DEF Next

\* The stash commands implement the profile apply lock.
THEOREM StashUsesLock == Spec => LockSpec
<1>1. Init => LockInit
  BY DEF Init
<1> QED
  BY <1>1, StashStepOfLock, PTL DEF Spec, LockSpec

-----------------------------------------------------------------------------
(* Types *)

\* The calls that may still push an entry, of those counted in `calls`.
Busy == {t \in Pushes \cup Drifts : pc[t] \in {"locked", "scanned", "captured"}}

CallsCounted == pushed + Cardinality(Busy) <= calls

PushesScan == \A t \in Tasks : pc[t] \in {"scanned", "captured"} => t \in Pushes

TypeInv == TypeOK /\ CallsCounted /\ PushesScan

LEMMA BusyFinite == IsFiniteSet(Busy) /\ Cardinality(Busy) \in Nat
<1>1. Busy \subseteq Tasks
  BY StashTasksAssumption DEF Busy
<1> QED
  BY <1>1, TasksAssumption, FS_Subset, FS_CardinalityType

\* There is room for the entry of a call that has not pushed yet.
LEMMA RoomForEntry ==
  ASSUME TypeInv, NEW t \in Busy
  PROVE  pushed + 1 \in 1..MaxCalls /\ pushed + 1 <= calls
<1>1. Cardinality(Busy) # 0
  BY BusyFinite, FS_EmptySet
<1> QED
  BY <1>1, BusyFinite, StashBoundsAssumption DEF TypeInv, CallsCounted, TypeOK

\* The calls that are busy after a step of t, by where it goes.
LEMMA BusyLeaves ==
  ASSUME TypeInv, NEW t \in Tasks, pc' = [pc EXCEPT ![t] = "idle"]
  PROVE  Busy' = Busy \ {t}
BY StashTasksAssumption DEF Busy, TypeInv, TypeOK

LEMMA BusyStays ==
  ASSUME TypeInv, NEW t \in Tasks, NEW to \in {"scanned", "captured"},
         t \in Pushes, pc[t] \in {"locked", "scanned"}, pc' = [pc EXCEPT ![t] = to]
  PROVE  Busy' = Busy
BY StashTasksAssumption DEF Busy, TypeInv, TypeOK

\* A call that ends without an entry, or with one, is counted out.
LEMMA LeaveCounts ==
  ASSUME TypeInv, NEW t \in Tasks, pc' = [pc EXCEPT ![t] = "idle"], calls' = calls,
         pushed' = pushed \/ (t \in Busy /\ pushed' = pushed + 1)
  PROVE  CallsCounted' /\ PushesScan' /\ pushed' \in 0..MaxCalls
<1>1. Busy' = Busy \ {t}
  BY BusyLeaves
<1>2. Cardinality(Busy \ {t}) = IF t \in Busy THEN Cardinality(Busy) - 1 ELSE Cardinality(Busy)
  BY BusyFinite, FS_RemoveElement
<1>3. Cardinality(Busy)' = IF t \in Busy THEN Cardinality(Busy) - 1 ELSE Cardinality(Busy)
  BY <1>1, <1>2
<1>4. CallsCounted' /\ pushed' \in 0..MaxCalls
  BY <1>3, BusyFinite, RoomForEntry, StashBoundsAssumption
  DEF TypeInv, TypeOK, CallsCounted
<1>5. PushesScan'
  BY DEF TypeInv, TypeOK, PushesScan
<1> QED
  BY <1>4, <1>5

\* What the steps write is well-typed.
LEMMA HomeTypes ==
  ASSUME TypeInv
  PROVE  /\ \A P \in SUBSET Paths : Present(P) \in SUBSET P /\ OnDisk(P) \in SUBSET (Paths \X Texts)
         /\ \A P \in SUBSET Paths : [p \in P |-> home[p]] \in [P -> Texts \cup {Absent}]
         /\ \A f \in Files : HomeWith(f) \in [Paths -> Texts \cup {Absent}]
         /\ \A P : Reverted(P) \in [Paths -> Texts \cup {Absent}]
         /\ \A t, gone, saved : saved \in SUBSET Paths =>
              /\ Removed(t, gone, saved).home \in [Paths -> Texts \cup {Absent}]
              /\ Removed(t, gone, saved).backup \in SUBSET (Paths \X Texts)
<1>0. home \in [Paths -> Texts \cup {Absent}] /\ backup \in SUBSET (Paths \X Texts)
  BY DEF TypeInv, TypeOK
<1>1. \A P \in SUBSET Paths : Present(P) \in SUBSET P /\ OnDisk(P) \in SUBSET (Paths \X Texts)
  BY <1>0 DEF Present, OnDisk
<1>2. \A P \in SUBSET Paths : [p \in P |-> home[p]] \in [P -> Texts \cup {Absent}]
  BY <1>0
<1>3. \A f \in Files : HomeWith(f) \in [Paths -> Texts \cup {Absent}]
  <2> SUFFICES ASSUME NEW f \in Files PROVE HomeWith(f) \in [Paths -> Texts \cup {Absent}]
    OBVIOUS
  <2>1. \A p \in DOMAIN f : f[p] \in Texts
    BY DEF Files
  <2> QED
    BY <1>0, <2>1 DEF HomeWith
<1>4. \A P : Reverted(P) \in [Paths -> Texts \cup {Absent}]
  <2>1. \A p \in DOMAIN snapshot : snapshot[p] \in Texts
    BY DEF TypeInv, TypeOK, Files
  <2> QED
    BY <1>0, <2>1 DEF Reverted, HomeWith
<1>5. \A t, gone, saved : saved \in SUBSET Paths =>
         /\ Removed(t, gone, saved).home \in [Paths -> Texts \cup {Absent}]
         /\ Removed(t, gone, saved).backup \in SUBSET (Paths \X Texts)
  BY <1>0, <1>1 DEF Removed
<1> QED
  BY <1>1, <1>2, <1>3, <1>4, <1>5

LEMMA StashTypes ==
  ASSUME TypeInv
  PROVE  /\ Read(stash) \in Seq(Entries)
         /\ Read(stash) # <<>> => Newest \in Entries /\ Tail(Read(stash)) \in Seq(Entries)
         /\ \A t \in Busy : \A f \in Files : WithEntry(f) \in Seq(Entries)
<1>1. Read(stash) \in Seq(Entries)
  BY DEF TypeInv, TypeOK, Read
<1>2. Read(stash) # <<>> => Head(Read(stash)) \in Entries /\ Tail(Read(stash)) \in Seq(Entries)
  BY <1>1, HeadTailProperties
<1>3. ASSUME NEW t \in Busy, NEW f \in Files PROVE WithEntry(f) \in Seq(Entries)
  <2>1. [id |-> pushed + 1, files |-> f] \in Entries
    BY RoomForEntry DEF Entries
  <2>2. <<[id |-> pushed + 1, files |-> f]>> \in Seq(Entries)
    BY <2>1
  <2> QED
    BY <1>1, <2>2, ConcatProperties DEF WithEntry
<1> QED
  BY <1>1, <1>2, <1>3 DEF Newest

\* What a step that fails or is killed leaves is well-typed, the ledger too.
StoreTypes ==
  /\ home \in [Paths -> Texts \cup {Absent}]
  /\ stash = Torn \/ stash \in Seq(Entries)
  /\ backup \subseteq Paths \X Texts
  /\ snapshot \in Files
  /\ overwritten \subseteq kept

LEMMA WrittenOverIsKept == \A f : WrittenOver(f) \subseteq kept
BY DEF WrittenOver

\* The files of an entry, or some of them, are those a restore may write.
LEMMA RestoreTypes ==
  ASSUME TypeInv, Read(stash) # <<>>
  PROVE  /\ \A t : ToRestore(t) \in Files /\ DOMAIN ToRestore(t) \subseteq DOMAIN Newest.files
         /\ \A P \in SUBSET DOMAIN Newest.files : [p \in P |-> Newest.files[p]] \in Files
<1>1. Newest.files \in Files
  BY StashTypes DEF Entries
<1>2. NoFiles \in Files /\ DOMAIN NoFiles = {}
  BY DEF NoFiles, Files
<1>3. \A P \in SUBSET DOMAIN Newest.files : [p \in P |-> Newest.files[p]] \in Files
  BY <1>1 DEF Files
<1> QED
  BY <1>1, <1>2, <1>3 DEF ToRestore

\* The files a drift stashes have their texts, and so have those a push captures.
LEMMA CapturedTypes ==
  ASSUME TypeInv, NEW t \in Tasks
  PROVE  /\ Changed(t) \in Files
         /\ [p \in Present(paths[t]) |-> Decoded(home[p])] \in Files
         /\ files[t] \in Files /\ DOMAIN files[t] \in SUBSET Paths
<1>1. paths[t] \in SUBSET Paths /\ files[t] \in Files
  BY DEF TypeInv, TypeOK
<1>2. \A p \in Present(paths[t]) : p \in Paths /\ home[p] \in Texts
  BY <1>1 DEF TypeInv, TypeOK, Present
<1>3. Changed(t) \in [Stashable(paths[t]) -> Texts]
  BY <1>2 DEF Changed, Stashable
<1>4. [p \in Present(paths[t]) |-> Decoded(home[p])] \in [Present(paths[t]) -> Texts]
  BY <1>2 DEF Decoded, Texts
<1>5. Stashable(paths[t]) \in SUBSET Paths /\ Present(paths[t]) \in SUBSET Paths
  BY <1>2 DEF Stashable
<1> QED
  BY <1>1, <1>3, <1>4, <1>5 DEF Files

LEMMA PartTypes ==
  ASSUME TypeInv, kept' = kept, NEW t \in Tasks, LeavesPartOf(t)
  PROVE  StoreTypes'
<1> DEFINE Good(h, s, b) == /\ h \in [Paths -> Texts \cup {Absent}]
                            /\ s = Torn \/ s \in Seq(Entries)
                            /\ b \in SUBSET (Paths \X Texts)
<1>0. Good(home, stash, backup) /\ overwritten \subseteq kept /\ snapshot \in Files
  BY DEF TypeInv, TypeOK
<1>1. ASSUME NEW h, NEW s, NEW b, NEW f, Leaves(Part(h, s, b, f)), Good(h, s, b)
      PROVE  StoreTypes'
  BY <1>0, <1>1, WrittenOverIsKept DEF Leaves, Part, StoreTypes
<1> HIDE DEF Good
<1>2. CASE Leaves(Part(home, stash, backup, NoFiles))
  BY <1>0, <1>1, <1>2
<1>3. CASE pc[t] = "captured" /\ LeavesPush(t)
  <2> DEFINE all == Present(DOMAIN files[t])
  <2>1. all \in SUBSET Paths
    BY HomeTypes, CapturedTypes
  <2>2. \A saved \in SUBSET all : \A gone, s :
          (s = Torn \/ s \in Seq(Entries)) =>
            Good(Removed(t, gone, saved).home, s, Removed(t, gone, saved).backup)
    BY <2>1, HomeTypes DEF Good
  <2>3. t \in Busy /\ WithEntry(files[t]) \in Seq(Entries)
    BY <1>3, StashTypes, CapturedTypes DEF Busy, TypeInv, PushesScan
  <2> HIDE DEF all
  <2>4. \/ \E saved \in SUBSET all : \E gone : Leaves(PartRemoved(t, gone, saved, stash))
        \/ \E s \in {Torn, WithEntry(files[t])} : Leaves(PartRemoved(t, all, all, s))
    BY <1>3 DEF LeavesPush, all
  <2>5. stash = Torn \/ stash \in Seq(Entries)
    BY <1>0 DEF Good
  <2> QED
    BY <1>1, <2>2, <2>3, <2>4, <2>5 DEF PartRemoved
<1>4. CASE t \in Drifts /\ Writes(t) /\ LeavesDrift(t)
  <2>1. t \in Busy /\ WithEntry(Changed(t)) \in Seq(Entries)
    BY <1>4, StashTypes, CapturedTypes DEF Busy, Writes
  <2>2. \A P, s : (s = Torn \/ s \in Seq(Entries)) => Good(Reverted(P), s, backup)
    BY <1>0, HomeTypes DEF Good
  <2>3. \E P, s : (s = Torn \/ s \in Seq(Entries)) /\ Leaves(PartReverted(P, s))
    <3>1. CASE \E P \in SUBSET DOMAIN Changed(t) : Leaves(PartReverted(P, stash))
      BY <1>0, <3>1 DEF Good
    <3>2. CASE \E s \in {Torn, WithEntry(Changed(t))} : Leaves(PartReverted(DOMAIN Changed(t), s))
      BY <2>1, <3>2
    <3> QED
      BY <1>4, <3>1, <3>2 DEF LeavesDrift
  <2> QED
    BY <1>1, <2>2, <2>3 DEF PartReverted
<1>5. ASSUME t \in Pops \cup Restores, Writes(t),
             LeavesPop(t) \/ LeavesRestore(t)
      PROVE  StoreTypes'
  <2>1. Read(stash) # <<>>
    BY <1>5, OneCommandAssumption DEF Writes, Nothing
  <2>2. PICK P \in SUBSET DOMAIN ToRestore(t), s \in {Torn, stash, Tail(Read(stash))} :
          Leaves(PartRestored(P, s))
    BY <1>5 DEF LeavesPop, LeavesRestore
  <2>3. [p \in P |-> Newest.files[p]] \in Files
    BY <2>1, <2>2, RestoreTypes
  <2>4. s = Torn \/ s \in Seq(Entries)
    BY <1>0, <2>1, <2>2, StashTypes DEF Good
  <2> DEFINE f == [p \in P |-> Newest.files[p]]
  <2>5. Leaves(Part(HomeWith(f), s, backup, f))
    BY <2>2 DEF PartRestored
  <2>6. Good(HomeWith(f), s, backup)
    BY <1>0, <2>3, <2>4, HomeTypes DEF Good
  <2> HIDE DEF f
  <2> QED
    BY <1>1, <2>5, <2>6
<1> QED
  BY <1>2, <1>3, <1>4, <1>5 DEF LeavesPartOf

\* The part of the types that is the stash's own: the lock's is LockTypeStep's.
CallTypes ==
  /\ pc \in [Tasks -> Places]
  /\ paths \in [Tasks -> SUBSET Paths]
  /\ files \in [Tasks -> Files]
  /\ edits \in 0..MaxEdits /\ calls \in 0..MaxCalls /\ failures \in 0..MaxFailures
  /\ kept \subseteq Paths \X UserTexts
  /\ pushed \in 0..MaxCalls /\ popped \subseteq 1..MaxCalls

OwnTypes == StoreTypes /\ CallTypes /\ CallsCounted /\ PushesScan

LEMMA TypeParts == TypeInv <=> LockTypeOK /\ OwnTypes
BY DEF TypeInv, TypeOK, OwnTypes, StoreTypes, CallTypes

LEMMA SameStore ==
  ASSUME TypeInv, UNCHANGED disk, overwritten' = overwritten, kept' = kept
  PROVE  StoreTypes'
BY TypeParts DEF OwnTypes, StoreTypes, disk

LEMMA EmptyFiles == NoFiles \in Files
BY DEF NoFiles, Files

\* A call that ends.
LEMMA LeaveTypes ==
  ASSUME TypeInv, NEW t \in Tasks, NEW from, Leave(t, from), StoreTypes',
         pushed' = pushed \/ (t \in Busy /\ pushed' = pushed + 1),
         popped' \subseteq 1..MaxCalls, failures' \in 0..MaxFailures
  PROVE  OwnTypes'
<1>1. CallTypes
  BY TypeParts DEF OwnTypes
<1>2. pc' = [pc EXCEPT ![t] = "idle"] /\ UNCHANGED <<edits, calls, kept>>
  BY DEF Leave, Goto
<1>3. CallsCounted' /\ PushesScan' /\ pushed' \in 0..MaxCalls
  BY <1>2, LeaveCounts
<1>4. pc' \in [Tasks -> Places]
  BY <1>1, <1>2 DEF CallTypes, Places
<1>5. paths' \in [Tasks -> SUBSET Paths] /\ files' \in [Tasks -> Files]
  BY <1>1, EmptyFiles DEF CallTypes, Leave
<1> QED
  BY <1>1, <1>2, <1>3, <1>4, <1>5 DEF OwnTypes, CallTypes

LEMMA ProceedTypes ==
  ASSUME TypeInv, NEW t \in Tasks, Proceed(t)
  PROVE  OwnTypes'
<1>0. CallTypes /\ StoreTypes
  BY TypeParts DEF OwnTypes
<1>1. CASE LeaveWithNothing(t)
  <2>1. Leave(t, "locked") /\ StoreTypes' /\ UNCHANGED <<failures, pushed, popped>>
    BY <1>1, SameStore DEF LeaveWithNothing, Leave
  <2> QED
    BY <1>0, <2>1, LeaveTypes DEF CallTypes
<1>2. CASE Scan(t) \/ Capture(t)
  <2>1. PICK to \in {"scanned", "captured"} :
          t \in Pushes /\ pc[t] \in {"locked", "scanned"} /\ pc' = [pc EXCEPT ![t] = to]
    BY <1>2 DEF Scan, Capture, Goto, TypeInv, PushesScan
  <2>2. Busy' = Busy
    BY <2>1, BusyStays
  <2>3. StoreTypes' /\ UNCHANGED <<edits, calls, kept, failures, pushed, popped>>
    BY <1>2, SameStore DEF Scan, Capture, history
  <2>4. CallsCounted'
    BY <2>2, <2>3 DEF TypeInv, CallsCounted
  <2>5. PushesScan' /\ pc' \in [Tasks -> Places]
    BY <1>0, <2>1 DEF TypeInv, PushesScan, CallTypes, Places
  <2>6. paths' \in [Tasks -> SUBSET Paths] /\ files' \in [Tasks -> Files]
    <3>1. Present(Untracked) \in SUBSET Paths
      BY HomeTypes DEF Paths
    <3> QED
      BY <1>0, <1>2, <3>1, CapturedTypes DEF Scan, Capture, CallTypes
  <2> QED
    BY <1>0, <2>3, <2>4, <2>5, <2>6 DEF OwnTypes, CallTypes
<1>3. CASE Push(t)
  <2> DEFINE all == Present(DOMAIN files[t])
  <2>1. t \in Busy
    BY <1>3 DEF Push, Leave, Goto, Busy, TypeInv, PushesScan
  <2>2. StoreTypes'
    <3>1. all \in SUBSET Paths
      BY HomeTypes, CapturedTypes
    <3>2. WithEntry(files[t]) \in Seq(Entries)
      BY <2>1, StashTypes, CapturedTypes
    <3> QED
      BY <1>0, <1>3, <3>1, <3>2, HomeTypes DEF Push, Leave, StoreTypes
  <2> QED
    BY <1>0, <1>3, <2>1, <2>2, LeaveTypes DEF Push, CallTypes
<1>4. CASE Drift(t)
  <2>1. t \in Busy
    BY <1>4 DEF Drift, Leave, Goto, Busy
  <2>2. StoreTypes'
    <3>1. WithEntry(Changed(t)) \in Seq(Entries)
      BY <2>1, StashTypes, CapturedTypes
    <3> QED
      BY <1>0, <1>4, <3>1, HomeTypes DEF Drift, Leave, StoreTypes
  <2> QED
    BY <1>0, <1>4, <2>1, <2>2, LeaveTypes DEF Drift, CallTypes
<1>5. CASE Pop(t) \/ Restore(t)
  <2>1. Read(stash) # <<>>
    BY <1>5, OneCommandAssumption DEF Pop, Restore, Nothing
  <2>2. StoreTypes'
    <3>1. HomeWith(ToRestore(t)) \in [Paths -> Texts \cup {Absent}]
      BY <2>1, RestoreTypes, HomeTypes
    <3>2. Tail(Read(stash)) \in Seq(Entries)
      BY <2>1, StashTypes
    <3> QED
      BY <1>0, <1>5, <3>1, <3>2, WrittenOverIsKept DEF Pop, Restore, Leave, StoreTypes
  <2>3. popped' \subseteq 1..MaxCalls
    BY <1>0, <1>5, <2>1, StashTypes DEF Pop, Restore, CallTypes, Entries
  <2> QED
    BY <1>0, <1>5, <2>2, <2>3, LeaveTypes DEF Pop, Restore, CallTypes
<1>6. CASE Fails(t)
  <2>1. StoreTypes'
    BY <1>6, PartTypes DEF Fails, Leave
  <2>2. failures' \in 0..MaxFailures
    BY <1>0, <1>6, StashBoundsAssumption DEF Fails, CallTypes
  <2> QED
    BY <1>0, <1>6, <2>1, <2>2, LeaveTypes DEF Fails, CallTypes
<1> QED
  BY <1>1, <1>2, <1>3, <1>4, <1>5, <1>6 DEF Proceed

LEMMA CallTypesStep ==
  ASSUME TypeInv, NEW t \in Tasks, Detect(t) \/ Enter(t) \/ TurnedAway(t)
  PROVE  OwnTypes'
<1>0. CallTypes
  BY TypeParts DEF OwnTypes
<1>1. StoreTypes' /\ UNCHANGED <<files, edits, failures, kept, pushed, popped>>
  BY SameStore DEF Detect, Enter, TurnedAway, history
<1>2. CASE Detect(t) \/ TurnedAway(t)
  <2>1. pc[t] \in {"idle", "prompted"} /\ calls' = calls
    BY <1>2 DEF Detect, TurnedAway, Goto, Asks
  <2>2. PICK to \in {"idle", "prompted"} : pc' = [pc EXCEPT ![t] = to]
    BY <1>2 DEF Detect, TurnedAway, Goto
  <2>3. Busy' = Busy
    BY <1>0, <2>1, <2>2 DEF Busy, CallTypes
  <2>4. CallsCounted'
    BY <1>1, <2>1, <2>3 DEF TypeInv, CallsCounted
  <2>5. PushesScan' /\ pc' \in [Tasks -> Places]
    BY <1>0, <2>2 DEF TypeInv, PushesScan, CallTypes, Places
  <2>6. paths' \in [Tasks -> SUBSET Paths]
    BY <1>0, <1>2 DEF Detect, TurnedAway, CallTypes, Paths
  <2> QED
    BY <1>0, <1>1, <2>1, <2>4, <2>5, <2>6 DEF OwnTypes, CallTypes
<1>3. CASE Enter(t)
  <2>1. pc[t] \in {"idle", "prompted"} /\ pc' = [pc EXCEPT ![t] = "locked"] /\ paths' = paths
    BY <1>3 DEF Enter, Asks
  <2>2. PushesScan' /\ pc' \in [Tasks -> Places]
    BY <1>0, <2>1 DEF TypeInv, PushesScan, CallTypes, Places
  <2>3. CallsCounted' /\ calls' \in 0..MaxCalls
    <3>1. CASE t \in Pushes \cup Drifts
      <4>1. Busy' = Busy \cup {t} /\ t \notin Busy
        BY <1>0, <2>1, <3>1, StashTasksAssumption DEF Busy, CallTypes
      <4>2. Cardinality(Busy \cup {t}) = Cardinality(Busy) + 1
        BY <4>1, BusyFinite, FS_AddElement
      <4>3. Cardinality(Busy)' = Cardinality(Busy) + 1
        BY <4>1, <4>2
      <4> QED
        BY <1>0, <1>1, <1>3, <3>1, <4>3, BusyFinite, StashBoundsAssumption
        DEF Enter, CallsCounted, TypeInv, CallTypes
    <3>2. CASE t \notin Pushes \cup Drifts
      <4>1. Busy' = Busy /\ calls' = calls
        BY <1>0, <1>3, <2>1, <3>2 DEF Busy, CallTypes, Enter
      <4> QED
        BY <1>0, <1>1, <4>1 DEF CallsCounted, TypeInv, CallTypes
    <3> QED
      BY <3>1, <3>2
  <2> QED
    BY <1>0, <1>1, <2>1, <2>2, <2>3 DEF OwnTypes, CallTypes
<1> QED
  BY <1>2, <1>3

LEMMA ExitTypes ==
  ASSUME TypeInv, NEW p \in Procs, ProcessExit(p)
  PROVE  OwnTypes'
<1>0. CallTypes
  BY TypeParts DEF OwnTypes
<1>1. UNCHANGED <<edits, calls, failures, kept, pushed, popped>>
  BY DEF ProcessExit
<1>2. StoreTypes'
  <2>1. CASE UNCHANGED <<disk, overwritten>>
    BY <1>1, <2>1, SameStore
  <2>2. CASE \E t \in Holders(p) : LeavesPartOf(t)
    BY <1>1, <2>2, PartTypes DEF Holders
  <2> QED
    BY <2>1, <2>2 DEF ProcessExit
<1>3. pc' \in [Tasks -> Places] /\ PushesScan'
  BY <1>0 DEF ProcessExit, CallTypes, Places, TypeInv, PushesScan
<1>4. paths' \in [Tasks -> SUBSET Paths] /\ files' \in [Tasks -> Files]
  BY <1>0, EmptyFiles DEF ProcessExit, CallTypes
<1>5. CallsCounted'
  <2>1. Busy' \in SUBSET Busy
    BY <1>0, StashTasksAssumption DEF ProcessExit, Busy, CallTypes
  <2>2. Cardinality(Busy') \in Nat /\ Cardinality(Busy') <= Cardinality(Busy)
    BY <2>1, BusyFinite, FS_Subset, FS_CardinalityType
  <2>3. Cardinality(Busy)' = Cardinality(Busy')
    OBVIOUS
  <2> QED
    BY <1>0, <1>1, <2>2, <2>3, BusyFinite DEF TypeInv, CallsCounted, CallTypes
<1> QED
  BY <1>0, <1>1, <1>2, <1>3, <1>4, <1>5 DEF OwnTypes, CallTypes

LEMMA EditTypes ==
  ASSUME TypeInv, NEW p \in Paths, Edit(p)
  PROVE  OwnTypes'
<1>0. CallTypes /\ StoreTypes
  BY TypeParts DEF OwnTypes
<1>1. edits' = edits + 1 /\ edits' \in 0..MaxEdits /\ edits + 1 \in UserTexts
  BY <1>0, StashBoundsAssumption DEF Edit, CallTypes, UserTexts
<1>2. PICK text \in {edits + 1, Absent} :
        /\ home' = [home EXCEPT ![p] = text]
        /\ kept' = (kept \ OnDisk({p})) \cup ({<<p, text>>} \ {<<p, Absent>>})
  BY DEF Edit
<1>3. home' \in [Paths -> Texts \cup {Absent}]
  BY <1>0, <1>1, <1>2 DEF StoreTypes, Texts
<1>4. kept' \subseteq Paths \X UserTexts
  BY <1>0, <1>1, <1>2 DEF CallTypes
<1>5. UNCHANGED <<stash, backup, snapshot, pc, paths, files, calls, failures, pushed, popped>>
      /\ overwritten' \subseteq kept'
  BY DEF Edit
<1>6. CallsCounted' /\ PushesScan'
  BY <1>5 DEF TypeInv, CallsCounted, PushesScan, Busy
<1> QED
  BY <1>0, <1>1, <1>3, <1>4, <1>5, <1>6 DEF OwnTypes, StoreTypes, CallTypes

LEMMA TypeStep == TypeInv /\ [Next]_vars => TypeInv'
<1> SUFFICES ASSUME TypeInv, [Next]_vars PROVE TypeInv'
  OBVIOUS
<1>1. LockTypeOK'
  BY StashStepOfLock, LockTypeStep DEF TypeInv, TypeOK
<1>2. OwnTypes'
  <2>1. CASE UNCHANGED vars
    <3>1. UNCHANGED <<home, stash, backup, snapshot, pc, paths, files, edits, calls, failures,
                      kept, overwritten, pushed, popped>>
      BY <2>1 DEF vars, disk, history
    <3> QED
      BY <3>1, TypeParts DEF OwnTypes, StoreTypes, CallTypes, CallsCounted, PushesScan, Busy
  <2>2. ASSUME NEW t \in Tasks, Detect(t) \/ Enter(t) \/ TurnedAway(t) PROVE OwnTypes'
    BY <2>2, CallTypesStep
  <2>3. ASSUME NEW t \in Tasks, Proceed(t) PROVE OwnTypes'
    BY <2>3, ProceedTypes
  <2>4. ASSUME NEW p \in Procs, ProcessExit(p) PROVE OwnTypes'
    BY <2>4, ExitTypes
  <2>5. ASSUME NEW p \in Procs, Recover(p) PROVE OwnTypes'
    <3>1. UNCHANGED <<home, stash, backup, snapshot, pc, paths, files, edits, calls, failures,
                      kept, overwritten, pushed, popped>>
      BY <2>5 DEF Recover, disk, history
    <3> QED
      BY <3>1, TypeParts DEF OwnTypes, StoreTypes, CallTypes, CallsCounted, PushesScan, Busy
  <2>6. ASSUME NEW p \in Paths, Edit(p) PROVE OwnTypes'
    BY <2>6, EditTypes
  <2> QED
    BY <2>1, <2>2, <2>3, <2>4, <2>5, <2>6 DEF Next
<1> QED
  BY <1>1, <1>2 DEF TypeInv, TypeOK, OwnTypes, StoreTypes, CallTypes

LEMMA TypeInit == Init => TypeInv
<1> SUFFICES ASSUME Init PROVE TypeInv
  OBVIOUS
<1> USE DEF Init
<1>1. LockTypeOK
  BY BoundsAssumption DEF LockInit, LockTypeOK
<1>2. StoreTypes
  <2>1. home \in [Paths -> Texts \cup {Absent}]
    BY StashBoundsAssumption DEF Texts, UserTexts
  <2>2. <<>> \in Seq(Entries)
    BY EmptySeq
  <2>3. snapshot \in Files
    <3>1. PICK P \in SUBSET Managed : snapshot \in [P -> {0, Profile}]
      OBVIOUS
    <3>2. snapshot \in [P -> Texts] /\ P \in SUBSET Paths
      BY <3>1, StashBoundsAssumption DEF Texts, UserTexts, Paths
    <3> QED
      BY <3>2 DEF Files
  <2> QED
    BY <2>1, <2>2, <2>3 DEF StoreTypes
<1>3. CallTypes
  <2>1. kept \subseteq Paths \X UserTexts
    BY StashBoundsAssumption DEF OnDisk, Present, UserTexts
  <2> QED
    BY <2>1, EmptyFiles, StashBoundsAssumption DEF CallTypes, Places
<1>4. CallsCounted
  <2>1. Busy = {}
    BY StashTasksAssumption DEF Busy
  <2> QED
    BY <2>1, FS_EmptySet DEF CallsCounted
<1>5. PushesScan
  BY DEF PushesScan
<1> QED
  BY <1>1, <1>2, <1>3, <1>4, <1>5, TypeParts DEF OwnTypes

\* Every entry of the stash has an id of its own call and texts at the files of
\* the home, whatever overlaps, fails or is killed: there is room for the entry
\* of every call that has entered, since a call is counted before it pushes.
THEOREM StashTypesHold == Spec => []TypeOK
<1>1. TypeInv => TypeOK
  BY DEF TypeInv
<1> QED
  BY <1>1, TypeInit, TypeStep, PTL DEF Spec

-----------------------------------------------------------------------------
(* The stack *)

\* The entries pushed, n of them, and not popped, the newest first.
IsStack(held, n, gone) ==
  /\ held \in Seq(Entries)
  /\ gone \subseteq 1..n
  /\ {held[i].id : i \in DOMAIN held} = (1..n) \ gone
  /\ \A i, j \in DOMAIN held : i < j => held[i].id > held[j].id

\* As long as no step fails and no process is killed, no stash file is torn.
StackInv == Undisturbed => stash # Torn /\ IsStack(stash, pushed, popped)

LEMMA PushedOnStack ==
  ASSUME NEW held, NEW n \in Nat, NEW gone, IsStack(held, n, gone),
         NEW e \in Entries, e.id = n + 1
  PROVE  IsStack(<<e>> \o held, n + 1, gone)
<1> DEFINE s == <<e>> \o held
<1>1. held \in Seq(Entries) /\ <<e>> \in Seq(Entries) /\ Len(<<e>>) = 1 /\ <<e>>[1] = e
  BY DEF IsStack
<1>2. /\ s \in Seq(Entries)
      /\ Len(s) = 1 + Len(held)
      /\ \A i \in 1..(1 + Len(held)) : s[i] = IF i <= 1 THEN <<e>>[i] ELSE held[i - 1]
  BY <1>1, ConcatProperties
<1>3. Len(held) \in Nat /\ DOMAIN held = 1..Len(held) /\ DOMAIN s = 1..(Len(held) + 1)
  BY <1>1, <1>2, LenProperties
<1> HIDE DEF s
<1>4. s[1] = e /\ \A i \in 1..Len(held) : s[i + 1] = held[i]
  BY <1>1, <1>2, <1>3
<1>5. \A i \in DOMAIN held : held[i].id \in 1..n
  BY DEF IsStack
<1>6. \A i \in DOMAIN s : i = 1 \/ (i - 1 \in DOMAIN held /\ s[i] = held[i - 1])
  BY <1>1, <1>2, <1>3
<1>7. {s[i].id : i \in DOMAIN s} = (1..(n + 1)) \ gone
  <2>1. {s[i].id : i \in DOMAIN s} = {held[i].id : i \in DOMAIN held} \cup {n + 1}
    <3>1. \A i \in DOMAIN s : s[i].id \in {held[j].id : j \in DOMAIN held} \cup {n + 1}
      BY <1>4, <1>6
    <3>2. \A i \in DOMAIN held : held[i].id \in {s[j].id : j \in DOMAIN s}
      <4>1. \A i \in DOMAIN held : i + 1 \in DOMAIN s /\ s[i + 1] = held[i]
        BY <1>3, <1>4
      <4> QED
        BY <4>1
    <3>3. n + 1 \in {s[j].id : j \in DOMAIN s}
      <4>1. 1 \in DOMAIN s
        BY <1>3
      <4> QED
        BY <4>1, <1>4
    <3> QED
      BY <3>1, <3>2, <3>3
  <2>2. n + 1 \notin gone
    BY DEF IsStack
  <2>3. (1..n) \cup {n + 1} = 1..(n + 1)
    OBVIOUS
  <2> QED
    BY <2>1, <2>2, <2>3 DEF IsStack
<1>8. \A i, j \in DOMAIN s : i < j => s[i].id > s[j].id
  <2> SUFFICES ASSUME NEW i \in DOMAIN s, NEW j \in DOMAIN s, i < j
               PROVE  s[i].id > s[j].id
    OBVIOUS
  <2>1. j - 1 \in DOMAIN held /\ s[j] = held[j - 1]
    BY <1>3, <1>6
  <2>2. CASE i = 1
    BY <1>4, <1>5, <2>1, <2>2
  <2>3. CASE i # 1
    <3>1. i - 1 \in DOMAIN held /\ s[i] = held[i - 1] /\ i - 1 < j - 1
      BY <1>3, <1>6, <2>3
    <3> QED
      BY <2>1, <3>1 DEF IsStack
  <2> QED
    BY <2>2, <2>3
<1>9. gone \subseteq 1..(n + 1)
  BY DEF IsStack
<1> QED
  BY <1>2, <1>7, <1>8, <1>9 DEF IsStack, s

LEMMA PoppedOffStack ==
  ASSUME NEW held, NEW n \in Nat, NEW gone, IsStack(held, n, gone), held # <<>>
  PROVE  IsStack(Tail(held), n, gone \cup {Head(held).id})
<1> DEFINE s == Tail(held)
<1>1. held \in Seq(Entries) /\ Head(held) = held[1]
  BY DEF IsStack
<1>2. /\ s \in Seq(Entries)
      /\ Len(s) = Len(held) - 1
      /\ \A i \in 1..Len(s) : s[i] = held[i + 1]
  BY <1>1, HeadTailProperties
<1>3. Len(held) \in Nat /\ Len(s) \in Nat /\ DOMAIN held = 1..Len(held) /\ DOMAIN s = 1..Len(s)
  BY <1>1, <1>2, LenProperties
<1> HIDE DEF s
<1>4. \A i \in DOMAIN held : held[i].id \in (1..n) \ gone
  BY DEF IsStack
<1>5. 1 \in DOMAIN held /\ \A i \in DOMAIN s : i + 1 \in DOMAIN held /\ s[i] = held[i + 1]
  BY <1>2, <1>3
<1>6. \A i \in DOMAIN held : i = 1 \/ (i - 1 \in DOMAIN s /\ held[i] = s[i - 1])
  BY <1>2, <1>3
<1>7. \A i \in DOMAIN held : i # 1 => held[1].id > held[i].id
  <2> SUFFICES ASSUME NEW i \in DOMAIN held, i # 1 PROVE held[1].id > held[i].id
    OBVIOUS
  <2>1. 1 < i
    BY <1>3
  <2> QED
    BY <1>5, <2>1 DEF IsStack
<1>8. {s[i].id : i \in DOMAIN s} = (1..n) \ (gone \cup {held[1].id})
  <2>1. \A i \in DOMAIN s : s[i].id \in (1..n) \ (gone \cup {held[1].id})
    <3> SUFFICES ASSUME NEW i \in DOMAIN s
                 PROVE  s[i].id \in (1..n) \ (gone \cup {held[1].id})
      OBVIOUS
    <3>1. i + 1 \in DOMAIN held /\ s[i] = held[i + 1] /\ i + 1 # 1
      BY <1>3, <1>5
    <3>2. s[i].id \in (1..n) \ gone /\ held[1].id \in 1..n
      BY <1>4, <1>5, <3>1
    <3>3. held[1].id > s[i].id
      BY <1>7, <3>1
    <3> QED
      BY <3>2, <3>3
  <2>2. \A k \in (1..n) \ (gone \cup {held[1].id}) : k \in {s[i].id : i \in DOMAIN s}
    <3> SUFFICES ASSUME NEW k \in (1..n) \ gone, k # held[1].id
                 PROVE  k \in {s[i].id : i \in DOMAIN s}
      OBVIOUS
    <3>1. PICK i \in DOMAIN held : k = held[i].id
      BY DEF IsStack
    <3>2. i - 1 \in DOMAIN s /\ held[i] = s[i - 1]
      BY <1>6, <3>1
    <3> QED
      BY <3>1, <3>2
  <2> QED
    BY <2>1, <2>2
<1>9. \A i, j \in DOMAIN s : i < j => s[i].id > s[j].id
  <2> SUFFICES ASSUME NEW i \in DOMAIN s, NEW j \in DOMAIN s, i < j
               PROVE  s[i].id > s[j].id
    OBVIOUS
  <2>1. i + 1 < j + 1
    BY <1>3
  <2> QED
    BY <1>5, <2>1 DEF IsStack
<1>10. gone \cup {held[1].id} \subseteq 1..n
  BY <1>4, <1>5 DEF IsStack
<1> QED
  BY <1>1, <1>2, <1>8, <1>9, <1>10 DEF IsStack, s

LEMMA SameStack ==
  ASSUME StackInv, Undisturbed' => Undisturbed,
         stash' = stash, pushed' = pushed, popped' = popped
  PROVE  StackInv'
BY DEF StackInv

\* The entry of a call that is busy goes on top.
LEMMA PushStep ==
  ASSUME TypeInv, StackInv, Undisturbed' => Undisturbed,
         NEW t \in Busy, NEW f \in Files,
         stash' = WithEntry(f), pushed' = pushed + 1, popped' = popped
  PROVE  StackInv'
<1> SUFFICES ASSUME Undisturbed PROVE stash' # Torn /\ IsStack(stash', pushed', popped')
  BY DEF StackInv
<1>1. IsStack(stash, pushed, popped) /\ Read(stash) = stash
  BY DEF StackInv, Read
<1>2. [id |-> pushed + 1, files |-> f] \in Entries
  BY RoomForEntry DEF Entries
<1>3. pushed \in Nat
  BY StashBoundsAssumption DEF TypeInv, TypeOK
<1>4. IsStack(<<[id |-> pushed + 1, files |-> f]>> \o stash, pushed + 1, popped)
  BY <1>1, <1>2, <1>3, PushedOnStack
<1>5. IsStack(stash', pushed', popped')
  BY <1>1, <1>4 DEF WithEntry
<1> QED
  BY <1>5, TornAssumption DEF IsStack

LEMMA PopStep ==
  ASSUME TypeInv, StackInv, Undisturbed' => Undisturbed, Read(stash) # <<>>,
         stash' = Tail(Read(stash)), pushed' = pushed, popped' = popped \cup {Newest.id}
  PROVE  StackInv'
<1> SUFFICES ASSUME Undisturbed PROVE stash' # Torn /\ IsStack(stash', pushed', popped')
  BY DEF StackInv
<1>1. IsStack(stash, pushed, popped) /\ Read(stash) = stash
  BY DEF StackInv, Read
<1>2. pushed \in Nat
  BY StashBoundsAssumption DEF TypeInv, TypeOK
<1>3. IsStack(Tail(stash), pushed, popped \cup {Head(stash).id})
  BY <1>1, <1>2, PoppedOffStack
<1>4. IsStack(stash', pushed', popped')
  BY <1>1, <1>3 DEF Newest
<1> QED
  BY <1>4, TornAssumption DEF IsStack

\* Only a failure or an exit disturbs, and what it disturbs stays so.
LEMMA StaysDisturbed ==
  ASSUME TypeInv, [Next]_vars
  PROVE  /\ Undisturbed' => Undisturbed
         /\ \A t \in Tasks : Fails(t) => ~Undisturbed'
         /\ \A p \in Procs : ProcessExit(p) => ~Undisturbed'
<1>0. exits \in Nat /\ failures \in Nat
  BY BoundsAssumption, StashBoundsAssumption DEF TypeInv, TypeOK, LockTypeOK
<1>1. \A t \in Tasks : Fails(t) => ~Undisturbed'
  BY <1>0 DEF Fails, Undisturbed
<1>2. \A p \in Procs : ProcessExit(p) => ~Undisturbed'
  BY <1>0 DEF ProcessExit, Exit, Undisturbed
<1>3. \A t \in Tasks : Detect(t) \/ Enter(t) \/ TurnedAway(t) => UNCHANGED <<exits, failures>>
  BY DEF Detect, Enter, TurnedAway, Acquire, JoinLock, OpenLock, Refused, LockWriteError, lockVars
<1>4. \A t \in Tasks : Proceed(t) /\ ~Fails(t) => UNCHANGED <<exits, failures>>
  BY DEF Proceed, LeaveWithNothing, Scan, Capture, Push, Drift, Pop, Restore, Leave,
         Release, ReleaseJoined, ReleaseShared, ReleaseLast, lockVars
<1>5. \A p \in Procs : Recover(p) => UNCHANGED <<exits, failures>>
  BY DEF Recover, Start, UserRemovesLock
<1>6. \A p \in Paths : Edit(p) => UNCHANGED <<exits, failures>>
  BY DEF Edit, lockVars
<1>7. UNCHANGED vars => UNCHANGED <<exits, failures>>
  BY DEF vars, lockVars
<1>8. Undisturbed' => UNCHANGED <<exits, failures>>
  BY <1>1, <1>2, <1>3, <1>4, <1>5, <1>6, <1>7 DEF Next
<1> QED
  BY <1>1, <1>2, <1>8 DEF Undisturbed

LEMMA StackStep == TypeInv /\ StackInv /\ [Next]_vars => StackInv'
<1> SUFFICES ASSUME TypeInv, StackInv, [Next]_vars PROVE StackInv'
  OBVIOUS
<1>0. Undisturbed' => Undisturbed
  BY StaysDisturbed
<1>1. CASE UNCHANGED vars
  BY <1>0, <1>1, SameStack DEF vars, disk, history
<1>2. ASSUME NEW t \in Tasks, Detect(t) \/ Enter(t) \/ TurnedAway(t) PROVE StackInv'
  BY <1>0, <1>2, SameStack DEF Detect, Enter, TurnedAway, disk, history
<1>3. ASSUME NEW t \in Tasks, Proceed(t) PROVE StackInv'
  <2>1. CASE LeaveWithNothing(t) \/ Scan(t) \/ Capture(t) \/ Restore(t)
    BY <1>0, <2>1, SameStack DEF LeaveWithNothing, Scan, Capture, Restore, disk, history
  <2>2. CASE Push(t)
    <3>1. t \in Busy
      BY <2>2 DEF Push, Leave, Goto, Busy, TypeInv, PushesScan
    <3> QED
      BY <1>0, <2>2, <3>1, PushStep, CapturedTypes DEF Push
  <2>3. CASE Drift(t)
    <3>1. t \in Busy
      BY <2>3 DEF Drift, Leave, Goto, Busy
    <3> QED
      BY <1>0, <2>3, <3>1, PushStep, CapturedTypes DEF Drift
  <2>4. CASE Pop(t)
    <3>1. Read(stash) # <<>>
      BY <2>4, OneCommandAssumption DEF Pop, Nothing
    <3> QED
      BY <1>0, <2>4, <3>1, PopStep DEF Pop
  <2>5. CASE Fails(t)
    BY <2>5, StaysDisturbed DEF StackInv
  <2> QED
    BY <1>3, <2>1, <2>2, <2>3, <2>4, <2>5 DEF Proceed
<1>4. ASSUME NEW p \in Procs, ProcessExit(p) PROVE StackInv'
  BY <1>4, StaysDisturbed DEF StackInv
<1>5. ASSUME NEW p \in Procs, Recover(p) PROVE StackInv'
  BY <1>0, <1>5, SameStack DEF Recover, disk, history
<1>6. ASSUME NEW p \in Paths, Edit(p) PROVE StackInv'
  BY <1>0, <1>6, SameStack DEF Edit
<1> QED
  BY <1>1, <1>2, <1>3, <1>4, <1>5, <1>6 DEF Next

\* However stashes, pops and drift prompts overlap, the stash holds each entry
\* that was pushed and not popped, newest first, as long as no step fails and no
\* process is killed: the read and the write of the stash file are one step.
THEOREM StashStaysStack == Spec => []StashIsStack
<1>1. Init => StackInv
  <2> SUFFICES ASSUME Init PROVE stash # Torn /\ IsStack(stash, pushed, popped)
    BY DEF StackInv
  <2>1. stash = <<>> /\ pushed = 0 /\ popped = {}
    BY DEF Init
  <2>2. <<>> \in Seq(Entries) /\ DOMAIN <<>> = {}
    BY EmptySeq
  <2>3. 1..0 = {} /\ {<<>>[i].id : i \in {}} = {}
    OBVIOUS
  <2>4. IsStack(<<>>, 0, {})
    BY <2>2, <2>3 DEF IsStack
  <2> QED
    BY <2>1, <2>2, <2>4, TornAssumption
<1>2. StackInv => StashIsStack
  BY DEF StackInv, StashIsStack, Read, IsStack
<1> QED
  BY <1>1, <1>2, TypeInit, TypeStep, StackStep, PTL DEF Spec

-----------------------------------------------------------------------------
(* The edits of the profile's files *)

\* A push handles what no profile tracks.
PushesUntracked ==
  \A t \in Tasks : /\ pc[t] = "scanned" => paths[t] \subseteq Untracked
                   /\ pc[t] = "captured" => DOMAIN files[t] \subseteq Untracked

ManagedInv == PushesUntracked /\ ManagedTextIsKept

LEMMA PushesUntrackedStep == TypeInv /\ PushesUntracked /\ [Next]_vars => PushesUntracked'
<1> SUFFICES ASSUME TypeInv, PushesUntracked, [Next]_vars PROVE PushesUntracked'
  OBVIOUS
<1>0. pc \in [Tasks -> Places] /\ paths \in [Tasks -> SUBSET Paths] /\ files \in [Tasks -> Files]
  BY DEF TypeInv, TypeOK
<1>1. CASE UNCHANGED <<pc, paths, files>>
  BY <1>1 DEF PushesUntracked
<1>2. ASSUME NEW t \in Tasks, Detect(t) \/ Enter(t) \/ TurnedAway(t) PROVE PushesUntracked'
  <2>1. PICK to \in {"idle", "prompted", "locked"} : pc' = [pc EXCEPT ![t] = to]
    BY <1>2 DEF Detect, Enter, TurnedAway, Goto
  <2>2. files' = files /\ \A u \in Tasks \ {t} : paths'[u] = paths[u]
    BY <1>0, <1>2 DEF Detect, Enter, TurnedAway
  <2> QED
    BY <1>0, <2>1, <2>2 DEF PushesUntracked
<1>3. ASSUME NEW t \in Tasks, NEW from, Leave(t, from) PROVE PushesUntracked'
  <2>1. pc' = [pc EXCEPT ![t] = "idle"]
    BY <1>3 DEF Leave, Goto
  <2>2. \A u \in Tasks \ {t} : paths'[u] = paths[u] /\ files'[u] = files[u]
    BY <1>0, <1>3 DEF Leave
  <2> QED
    BY <1>0, <2>1, <2>2 DEF PushesUntracked
<1>4. ASSUME NEW t \in Tasks, Scan(t) \/ Capture(t) PROVE PushesUntracked'
  <2>1. CASE Scan(t)
    <3>1. pc' = [pc EXCEPT ![t] = "scanned"] /\ files' = files
      BY <2>1 DEF Scan, Goto
    <3>2. paths' = [paths EXCEPT ![t] = Present(Untracked)]
      BY <2>1 DEF Scan
    <3> QED
      BY <1>0, <3>1, <3>2 DEF PushesUntracked, Present
  <2>2. CASE Capture(t)
    <3>1. pc[t] = "scanned" /\ pc' = [pc EXCEPT ![t] = "captured"] /\ paths' = paths
      BY <2>2 DEF Capture, Goto
    <3>2. files' = [files EXCEPT ![t] = [p \in Present(paths[t]) |-> Decoded(home[p])]]
      BY <2>2 DEF Capture
    <3>3. DOMAIN [p \in Present(paths[t]) |-> Decoded(home[p])] \subseteq paths[t]
      BY DEF Present
    <3> QED
      BY <1>0, <3>1, <3>2, <3>3 DEF PushesUntracked
  <2> QED
    BY <1>4, <2>1, <2>2
<1>5. ASSUME NEW t \in Tasks, Proceed(t) PROVE PushesUntracked'
  BY <1>3, <1>4, <1>5
  DEF Proceed, LeaveWithNothing, Push, Drift, Pop, Restore, Fails
<1>6. ASSUME NEW p \in Procs, ProcessExit(p) PROVE PushesUntracked'
  BY <1>0, <1>6 DEF ProcessExit, PushesUntracked
<1>7. ASSUME NEW p \in Procs, Recover(p) PROVE PushesUntracked'
  BY <1>1, <1>7 DEF Recover
<1>8. ASSUME NEW p \in Paths, Edit(p) PROVE PushesUntracked'
  BY <1>1, <1>8 DEF Edit
<1>9. CASE UNCHANGED vars
  BY <1>1, <1>9 DEF vars
<1> QED
  BY <1>2, <1>5, <1>6, <1>7, <1>8, <1>9 DEF Next

\* The texts an entry holds.
TextsIn(f) == {<<p, f[p]>> : p \in DOMAIN f}

LEMMA StashedIs ==
  \A x : x \in Stashed <=> \E i \in DOMAIN Read(stash) : x \in TextsIn(Read(stash)[i].files)
BY DEF Stashed, TextsIn

LEMMA StashedByPush ==
  ASSUME TypeInv, NEW t \in Busy, NEW f \in Files, stash' = WithEntry(f)
  PROVE  Stashed \cup TextsIn(f) \subseteq Stashed'
<1> DEFINE held == Read(stash)
           e == [id |-> pushed + 1, files |-> f]
           s == <<e>> \o held
<1>1. held \in Seq(Entries) /\ s \in Seq(Entries)
  BY StashTypes DEF WithEntry
<1>2. e \in Entries
  BY RoomForEntry DEF Entries
<1>3. Read(stash)' = s
  BY <1>1, TornAssumption DEF Read, WithEntry
<1>4. <<e>> \in Seq(Entries) /\ Len(<<e>>) = 1 /\ <<e>>[1] = e
  BY <1>2
<1>5. /\ Len(s) = 1 + Len(held)
      /\ \A i \in 1..(1 + Len(held)) : s[i] = IF i <= 1 THEN <<e>>[i] ELSE held[i - 1]
  BY <1>1, <1>4, ConcatProperties
<1>6. Len(held) \in Nat /\ DOMAIN held = 1..Len(held) /\ DOMAIN s = 1..(Len(held) + 1)
  BY <1>1, <1>5, LenProperties
<1>7. e.files = f
  OBVIOUS
<1> HIDE DEF held, s, e
<1>8. 1 \in DOMAIN s /\ s[1] = e
  BY <1>4, <1>5, <1>6
<1>9. \A i \in DOMAIN held : i + 1 \in DOMAIN s /\ s[i + 1] = held[i]
  BY <1>5, <1>6
<1>10. \A x : x \in Stashed' <=> \E i \in DOMAIN s : x \in TextsIn(s[i].files)
  BY <1>3, StashedIs DEF TextsIn, Stashed
<1>11. \A x \in Stashed : \E i \in DOMAIN held : x \in TextsIn(held[i].files)
  BY StashedIs DEF held
<1> QED
  BY <1>7, <1>8, <1>9, <1>10, <1>11

LEMMA StashedAfterPop ==
  ASSUME TypeInv, Read(stash) # <<>>, stash' = Tail(Read(stash))
  PROVE  Stashed \subseteq Stashed' \cup TextsIn(Newest.files)
<1> DEFINE held == Read(stash)
           s == Tail(held)
<1>1. held \in Seq(Entries) /\ s \in Seq(Entries) /\ Newest = held[1]
  BY StashTypes DEF Newest
<1>2. Read(stash)' = s
  BY <1>1, TornAssumption DEF Read
<1>3. Len(s) = Len(held) - 1 /\ \A i \in 1..Len(s) : s[i] = held[i + 1]
  BY <1>1, HeadTailProperties
<1>4. Len(held) \in Nat /\ Len(s) \in Nat /\ DOMAIN held = 1..Len(held) /\ DOMAIN s = 1..Len(s)
  BY <1>1, LenProperties
<1> HIDE DEF s, held
<1>5. \A i \in DOMAIN held : i = 1 \/ (i - 1 \in DOMAIN s /\ held[i] = s[i - 1])
  BY <1>3, <1>4
<1>6. \A x : x \in Stashed' <=> \E i \in DOMAIN s : x \in TextsIn(s[i].files)
  BY <1>2, StashedIs DEF TextsIn, Stashed
<1>7. \A x \in Stashed : \E i \in DOMAIN held : x \in TextsIn(held[i].files)
  BY StashedIs DEF held
<1> QED
  BY <1>1, <1>5, <1>6, <1>7

\* Where an edit may be.
Saved == OnDisk(Paths) \cup Stashed \cup overwritten

LEMMA SameManaged ==
  ASSUME ManagedTextIsKept, Undisturbed' => Undisturbed, kept' = kept,
         {x \in Saved : x[1] \in Managed} \subseteq Saved'
  PROVE  ManagedTextIsKept'
BY DEF ManagedTextIsKept, Saved

LEMMA ManagedOnDisk ==
  ASSUME TypeInv, NEW x \in OnDisk(Paths)
  PROVE  x[1] \in Paths /\ home[x[1]] # Absent /\ x = <<x[1], home[x[1]]>>
BY DEF OnDisk, Present

LEMMA StaysOnDisk ==
  ASSUME NEW x \in OnDisk(Paths), x[1] \in Paths, x = <<x[1], home[x[1]]>>,
         home[x[1]] # Absent, home'[x[1]] = home[x[1]]
  PROVE  x \in OnDisk(Paths)'
BY DEF OnDisk, Present

\* A restore puts the texts of its files on disk, and records those it destroys.
LEMMA RestoreSaves ==
  ASSUME TypeInv, NEW f \in Files, home' = HomeWith(f),
         overwritten' = overwritten \cup WrittenOver(f)
  PROVE  /\ TextsIn(f) \subseteq OnDisk(Paths)'
         /\ kept \cap OnDisk(Paths) \subseteq OnDisk(Paths)' \cup overwritten'
<1>1. DOMAIN f \subseteq Paths /\ \A p \in DOMAIN f : f[p] \in Texts
  BY DEF Files
<1>2. \A p \in Paths : home'[p] = IF p \in DOMAIN f THEN f[p] ELSE home[p]
  BY DEF HomeWith
<1>3. Absent \notin Texts
  BY TextsAssumption, StashBoundsAssumption DEF Texts, UserTexts
<1>4. TextsIn(f) \subseteq OnDisk(Paths)'
  BY <1>1, <1>2, <1>3 DEF TextsIn, OnDisk, Present
<1>5. ASSUME NEW x \in kept, x \in OnDisk(Paths), x \notin OnDisk(Paths)'
      PROVE  x \in overwritten'
  <2>1. x[1] \in Paths /\ home[x[1]] # Absent /\ x = <<x[1], home[x[1]]>>
    BY <1>5, ManagedOnDisk
  <2>2. home'[x[1]] # home[x[1]]
    BY <1>5, <2>1, StaysOnDisk
  <2>3. x[1] \in DOMAIN f /\ f[x[1]] # home[x[1]]
    BY <1>2, <2>1, <2>2
  <2>4. x \in OnDisk(DOMAIN f) /\ f[x[1]] # x[2]
    BY <2>1, <2>3 DEF OnDisk, Present
  <2> QED
    BY <1>5, <2>4 DEF WrittenOver
<1> QED
  BY <1>4, <1>5

LEMMA ManagedProceed ==
  ASSUME DryPops = {}, TypeInv, ManagedInv, Undisturbed' => Undisturbed,
         NEW t \in Tasks, Proceed(t), ~Fails(t)
  PROVE  ManagedTextIsKept'
<1>0. ManagedTextIsKept /\ PushesUntracked
  BY DEF ManagedInv
<1>1. kept' = kept
  BY DEF Proceed, LeaveWithNothing, Scan, Capture, Push, Drift, Pop, Restore, Leave, history
<1>2. CASE LeaveWithNothing(t) \/ Scan(t) \/ Capture(t)
  <2>1. UNCHANGED <<home, stash, overwritten>>
    BY <1>2 DEF LeaveWithNothing, Scan, Capture, disk, history
  <2>2. Saved' = Saved
    BY <2>1 DEF Saved, OnDisk, Present, Stashed, Read
  <2> QED
    BY <1>0, <1>1, <2>2, SameManaged
<1>3. CASE Push(t)
  <2> DEFINE all == Present(DOMAIN files[t])
  <2>1. t \in Busy /\ DOMAIN files[t] \subseteq Untracked
    BY <1>0, <1>3 DEF Push, Leave, Goto, Busy, TypeInv, PushesScan, PushesUntracked
  <2>2. home' = [p \in Paths |-> IF p \in all THEN Absent ELSE home[p]] /\ overwritten' = overwritten
    BY <1>3 DEF Push, Removed
  <2>3. \A p \in Managed : p \notin all
    BY <2>1, PathsAssumption DEF Present
  <2>4. Stashed \subseteq Stashed'
    BY <1>3, <2>1, StashedByPush, CapturedTypes DEF Push
  <2>5. \A x \in OnDisk(Paths) : x[1] \in Managed => x \in OnDisk(Paths)'
    <3> SUFFICES ASSUME NEW x \in OnDisk(Paths), x[1] \in Managed
                 PROVE  x \in OnDisk(Paths)'
      OBVIOUS
    <3>1. x[1] \in Paths /\ home[x[1]] # Absent /\ x = <<x[1], home[x[1]]>>
      BY ManagedOnDisk
    <3>2. home'[x[1]] = home[x[1]]
      BY <2>2, <2>3, <3>1
    <3> QED
      BY <3>1, <3>2, StaysOnDisk
  <2>6. {x \in Saved : x[1] \in Managed} \subseteq Saved'
    BY <2>2, <2>4, <2>5 DEF Saved
  <2> QED
    BY <1>0, <1>1, <2>6, SameManaged
<1>4. CASE Drift(t)
  <2> DEFINE f == Changed(t)
  <2>1. t \in Busy
    BY <1>4 DEF Drift, Leave, Goto, Busy
  <2>2. Stashed \cup TextsIn(f) \subseteq Stashed' /\ overwritten' = overwritten
    BY <1>4, <2>1, StashedByPush, CapturedTypes DEF Drift
  <2>3. \A p \in DOMAIN f : f[p] = home[p]
    BY DEF Changed
  <2>4. \A p \in Paths : p \notin DOMAIN f => home'[p] = home[p]
    BY <1>4 DEF Drift, Reverted, HomeWith
  <2> HIDE DEF f
  <2>5. \A x \in OnDisk(Paths) : x \in OnDisk(Paths)' \cup Stashed'
    <3> SUFFICES ASSUME NEW x \in OnDisk(Paths) PROVE x \in OnDisk(Paths)' \cup Stashed'
      OBVIOUS
    <3>1. x[1] \in Paths /\ home[x[1]] # Absent /\ x = <<x[1], home[x[1]]>>
      BY ManagedOnDisk
    <3>2. CASE x[1] \in DOMAIN f
      BY <2>2, <2>3, <3>1, <3>2 DEF TextsIn
    <3>3. CASE x[1] \notin DOMAIN f
      BY <2>4, <3>1, <3>3, StaysOnDisk
    <3> QED
      BY <3>2, <3>3
  <2>6. {x \in Saved : x[1] \in Managed} \subseteq Saved'
    BY <2>2, <2>5 DEF Saved
  <2> QED
    BY <1>0, <1>1, <2>6, SameManaged
<1>5. CASE Pop(t) \/ Restore(t)
  <2>1. Read(stash) # <<>> /\ ToRestore(t) = Newest.files
    BY <1>5, OneCommandAssumption DEF Pop, Restore, Nothing, ToRestore
  <2>2. Newest.files \in Files
    BY <2>1, StashTypes DEF Entries
  <2>3. home' = HomeWith(Newest.files) /\ overwritten' = overwritten \cup WrittenOver(Newest.files)
    BY <1>5, <2>1 DEF Pop, Restore
  <2>4. /\ TextsIn(Newest.files) \subseteq OnDisk(Paths)'
        /\ kept \cap OnDisk(Paths) \subseteq OnDisk(Paths)' \cup overwritten'
    BY <2>2, <2>3, RestoreSaves
  <2>5. Stashed \subseteq Stashed' \cup TextsIn(Newest.files)
    <3>1. CASE Pop(t)
      BY <2>1, <3>1, StashedAfterPop DEF Pop
    <3>2. CASE Restore(t)
      BY <3>2 DEF Restore, Stashed, Read
    <3> QED
      BY <1>5, <3>1, <3>2
  <2> QED
    BY <1>0, <1>1, <2>3, <2>4, <2>5 DEF ManagedTextIsKept
<1> QED
  BY <1>2, <1>3, <1>4, <1>5 DEF Proceed

LEMMA ManagedEdit ==
  ASSUME TypeInv, ManagedTextIsKept, NEW p \in Paths, Edit(p)
  PROVE  ManagedTextIsKept'
<1>1. PICK text : /\ home' = [home EXCEPT ![p] = text]
                  /\ kept' = (kept \ OnDisk({p})) \cup ({<<p, text>>} \ {<<p, Absent>>})
  BY DEF Edit
<1>2. overwritten' = overwritten \cap kept' /\ stash' = stash /\ UNCHANGED <<exits, failures>>
  BY DEF Edit, lockVars
<1>3. home \in [Paths -> Texts \cup {Absent}]
  BY DEF TypeInv, TypeOK
<1>4. Stashed' = Stashed
  BY <1>2 DEF Stashed, Read
<1>5. ASSUME Undisturbed, NEW x \in kept', x[1] \in Managed
      PROVE  x \in OnDisk(Paths)' \cup Stashed' \cup overwritten'
  <2>1. CASE x \in kept /\ x \notin OnDisk({p})
    <3>1. x \in OnDisk(Paths) \cup Stashed \cup overwritten
      BY <1>5, <2>1 DEF ManagedTextIsKept
    <3>2. x \in OnDisk(Paths) => x \in OnDisk(Paths)'
      BY <1>1, <1>3, <2>1 DEF OnDisk, Present
    <3> QED
      BY <1>2, <1>4, <1>5, <3>1, <3>2
  <2>2. CASE x = <<p, text>> /\ text # Absent
    BY <1>1, <1>3, <2>2 DEF OnDisk, Present
  <2> QED
    BY <1>1, <1>5, <2>1, <2>2
<1> QED
  BY <1>2, <1>5 DEF ManagedTextIsKept, Undisturbed

LEMMA ManagedStep ==
  ASSUME DryPops = {}
  PROVE  TypeInv /\ ManagedInv /\ [Next]_vars => ManagedInv'
<1> SUFFICES ASSUME TypeInv, ManagedInv, [Next]_vars PROVE ManagedInv'
  OBVIOUS
<1>0. Undisturbed' => Undisturbed
  BY StaysDisturbed
<1>1. PushesUntracked'
  BY PushesUntrackedStep DEF ManagedInv
<1>2. ManagedTextIsKept'
  <2>1. CASE UNCHANGED <<home, stash, overwritten, kept>>
    <3>1. Saved' = Saved
      BY <2>1 DEF Saved, OnDisk, Present, Stashed, Read
    <3> QED
      BY <1>0, <2>1, <3>1, SameManaged DEF ManagedInv
  <2>2. ASSUME NEW t \in Tasks, Detect(t) \/ Enter(t) \/ TurnedAway(t) PROVE ManagedTextIsKept'
    BY <2>1, <2>2 DEF Detect, Enter, TurnedAway, disk, history
  <2>3. ASSUME NEW t \in Tasks, Proceed(t) PROVE ManagedTextIsKept'
    <3>1. CASE Fails(t)
      BY <3>1, StaysDisturbed DEF ManagedTextIsKept
    <3> QED
      BY <1>0, <2>3, <3>1, ManagedProceed
  <2>4. ASSUME NEW p \in Procs, ProcessExit(p) PROVE ManagedTextIsKept'
    BY <2>4, StaysDisturbed DEF ManagedTextIsKept
  <2>5. ASSUME NEW p \in Procs, Recover(p) PROVE ManagedTextIsKept'
    BY <2>1, <2>5 DEF Recover, disk, history
  <2>6. ASSUME NEW p \in Paths, Edit(p) PROVE ManagedTextIsKept'
    BY <2>6, ManagedEdit DEF ManagedInv
  <2>7. CASE UNCHANGED vars
    BY <2>1, <2>7 DEF vars, disk, history
  <2> QED
    BY <2>2, <2>3, <2>4, <2>5, <2>6, <2>7 DEF Next
<1> QED
  BY <1>1, <1>2 DEF ManagedInv

\* Where no pop is a dry run, an edit of a profile's file is in the home or the
\* stash, or was written over by a pop or apply, until a step fails or a process
\* is killed: what a prompt reverts it has stashed as it was by then, and a push
\* removes no file of the profile.
THEOREM ManagedTextsSurvive ==
  ASSUME DryPops = {}
  PROVE  Spec => []ManagedTextIsKept
<1>1. Init => ManagedInv
  <2> SUFFICES ASSUME Init PROVE ManagedInv
    OBVIOUS
  <2>1. PushesUntracked
    BY DEF Init, PushesUntracked
  <2>2. kept \subseteq OnDisk(Paths)
    BY DEF Init
  <2> QED
    BY <2>1, <2>2 DEF ManagedInv, ManagedTextIsKept
<1>2. ManagedInv => ManagedTextIsKept
  BY DEF ManagedInv
<1>3. TypeInv /\ ManagedInv /\ [Next]_vars => ManagedInv'
  BY ManagedStep
<1> QED
  BY <1>1, <1>2, <1>3, TypeInit, TypeStep, PTL DEF Spec
=============================================================================
