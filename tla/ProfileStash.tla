---------------------------- MODULE ProfileStash ----------------------------
(***************************************************************************)
(* The profile stash: `ht profile stash` moves files no profile tracks     *)
(* from the home to profile-stash.json (push), `stash pop` and `stash      *)
(* apply` write the newest entry back, and the prompt of `ht profile       *)
(* switch` stashes the user's edits of the profile's own files (drift).    *)
(* All of them run under ProfileApplyLock; requests of the sidecar overlap *)
(* in it at their awaits, and the user edits the home meanwhile.           *)
(*                                                                         *)
(* A step runs from one await of the code to the next.  LeavesPartOf(t) is *)
(* what the step that writes may have done when it throws or its process   *)
(* is killed: files are handled one by one, and the stash file is          *)
(* truncated before it is written, so that a part of it does not parse and *)
(* reads as an empty stash.                                                *)
(*                                                                         *)
(* Abstractions: a text stands for the bytes of a file; the user does not  *)
(* write between two system calls of one step; removal backups stay, since *)
(* user files are copied to the database, which nothing here prunes; no    *)
(* profile is applied meanwhile, so that the latest snapshot of the active *)
(* profile stays the one it is.                                            *)
(***************************************************************************)
EXTENDS ProfileApplyLock, Sequences

CONSTANTS
  Untracked,       \* paths of resources no profile tracks
  Managed,         \* paths of the active profile's files
  Pushes,          \* the tasks that are `profile stash`
  Drifts,          \* the tasks that are "Stash them" in the switch prompt
  Pops,            \* the tasks that are `profile stash pop`
  DryPops,         \* those of them with --dry-run
  Restores,        \* the tasks that are `profile stash apply`
  Profile,         \* the text the profile gives its files
  Binaries,        \* the texts that are not UTF-8
  Mangled,         \* what one of them becomes when read as UTF-8
  Absent,          \* no file
  Torn,            \* a stash file that does not parse
  MaxEdits,        \* bound: edits by the user
  MaxCalls,        \* bound: calls that push an entry
  MaxFailures,     \* bound: steps that throw
  MaxEvents        \* bound: edits, steps that throw and kills together

ASSUME StashTasksAssumption == Tasks = Pushes \cup Drifts \cup Pops \cup Restores
ASSUME OneCommandAssumption ==
  /\ Pushes \cap Drifts = {} /\ Pops \cap Restores = {}
  /\ (Pushes \cup Drifts) \cap (Pops \cup Restores) = {}
ASSUME DryPopsAssumption == DryPops \subseteq Pops
ASSUME PathsAssumption == Untracked \cap Managed = {}
ASSUME StashBoundsAssumption ==
  MaxEdits \in Nat /\ MaxCalls \in Nat /\ MaxFailures \in Nat /\ MaxEvents \in Nat
ASSUME TextsAssumption == Absent \notin Nat \cup {Profile, Mangled} /\ Profile \notin Nat \cup {Mangled}

Paths == Untracked \cup Managed
UserTexts == 0..MaxEdits
Texts == UserTexts \cup {Profile, Mangled}

VARIABLES
  home,            \* the text of each path
  stash,           \* profile-stash.json: its entries, newest first, or Torn
  backup,          \* removal backups: <<path, text>>
  snapshot,        \* the latest apply's: the texts there were before it
  pc,              \* per task
  paths,           \* per task: the paths it found
  files,           \* per task: the files it captured
  edits, calls, failures,
  kept,            \* history: <<path, text>> the user wrote and did not replace
  overwritten,     \* history: those of them a pop or apply wrote over
  pushed, popped   \* history: the number of entries pushed, the ids popped

disk == <<home, stash, backup, snapshot>>
history == <<kept, overwritten, pushed, popped>>
vars == <<lockVars, disk, pc, paths, files, edits, calls, failures, history>>

Files == UNION {[P -> Texts] : P \in SUBSET Paths}
Entries == [id : 1..MaxCalls, files : Files]
ASSUME TornAssumption == Torn \notin Seq(Entries)

Places == {"idle", "prompted", "locked", "scanned", "captured"}

TypeOK ==
  /\ LockTypeOK
  /\ home \in [Paths -> Texts \cup {Absent}]
  /\ stash = Torn \/ stash \in Seq(Entries)
  /\ backup \subseteq Paths \X Texts
  /\ snapshot \in Files
  /\ pc \in [Tasks -> Places]
  /\ paths \in [Tasks -> SUBSET Paths]
  /\ files \in [Tasks -> Files]
  /\ edits \in 0..MaxEdits /\ calls \in 0..MaxCalls /\ failures \in 0..MaxFailures
  /\ kept \subseteq Paths \X UserTexts
  /\ overwritten \subseteq kept
  /\ pushed \in 0..MaxCalls /\ popped \subseteq 1..MaxCalls

Present(P) == {p \in P : home[p] # Absent}
OnDisk(P) == {<<p, home[p]>> : p \in Present(P)}
Read(s) == IF s = Torn THEN <<>> ELSE s
NoFiles == [p \in {} |-> Profile]

\* The home with the texts of f in place of those it has.
HomeWith(f) == [p \in Paths |-> IF p \in DOMAIN f THEN f[p] ELSE home[p]]

\* What a restore of f destroys: user texts with no other copy on disk.
WrittenOver(f) == {x \in kept \cap OnDisk(DOMAIN f) : f[x[1]] # x[2]}

Goto(t, from, to) ==
  /\ pc[t] = from
  /\ pc' = [pc EXCEPT ![t] = to]

Leave(t, from) ==
  /\ Goto(t, from, "idle")
  /\ Release(t)
  /\ paths' = [paths EXCEPT ![t] = {}]
  /\ files' = [files EXCEPT ![t] = NoFiles]
  /\ UNCHANGED <<edits, calls, kept>>

Init ==
  /\ LockInit
  /\ home \in [Paths -> {0, Profile}]
  /\ \A p \in Untracked : home[p] = 0
  /\ stash = <<>> /\ backup = {}
  /\ snapshot \in UNION {[P -> {0, Profile}] : P \in SUBSET Managed}
  /\ pc = [t \in Tasks |-> "idle"]
  /\ paths = [t \in Tasks |-> {}]
  /\ files = [t \in Tasks |-> NoFiles]
  /\ edits = 0 /\ calls = 0 /\ failures = 0
  /\ kept = {x \in OnDisk(Paths) : x[2] = 0}
  /\ overwritten = {} /\ pushed = 0 /\ popped = {}

-----------------------------------------------------------------------------
(* Taking the lock *)

\* The switch command has found the profile's files changed; it holds no lock.
Detect(t) ==
  /\ t \in Drifts
  /\ ProcOf[t] \in alive
  /\ \E p \in Managed : home[p] # Profile
  /\ Goto(t, "idle", "prompted")
  /\ paths' = [paths EXCEPT ![t] = {p \in Managed : home[p] # Profile}]
  /\ UNCHANGED <<lockVars, disk, files, edits, calls, failures, history>>

Asks(t) == pc[t] = (IF t \in Drifts THEN "prompted" ELSE "idle")

Enter(t) ==
  /\ Asks(t)
  /\ IF t \in Pushes \cup Drifts THEN calls < MaxCalls /\ calls' = calls + 1
                                ELSE UNCHANGED calls
  /\ Acquire(t)
  /\ pc' = [pc EXCEPT ![t] = "locked"]
  /\ UNCHANGED <<disk, paths, files, edits, failures, history>>

TurnedAway(t) ==
  /\ Asks(t)
  /\ Refused(t) \/ LockWriteError(t)
  /\ pc' = [pc EXCEPT ![t] = "idle"]
  /\ paths' = [paths EXCEPT ![t] = {}]
  /\ UNCHANGED <<disk, files, edits, calls, failures, history>>

\* A mistaken form of Stashable: what cannot be read is not left out.
StashableUnchecked(P) == P

\* readHomeFile of the drift stash: a file deleted since, or one that is not
\* UTF-8, is left out, and stays as it is.
Stashable(P) == {p \in Present(P) : home[p] \notin Binaries}

\* A mistaken form of WithEntry: the entry goes to the end.
WithLastEntry(f) == Read(stash) \o <<[id |-> pushed + 1, files |-> f]>>

\* pushProfileStashEntry reads the stash file and writes it with the entry on top.
WithEntry(f) == <<[id |-> pushed + 1, files |-> f]>> \o Read(stash)

\* "Nothing to stash", "No stashed profile to restore".
Nothing(t) ==
  CASE t \in Pushes -> Present(Untracked) = {}
    [] t \in Drifts -> Stashable(paths[t]) = {}
    [] OTHER -> Read(stash) = <<>>

LeaveWithNothing(t) ==
  /\ Nothing(t)
  /\ Leave(t, "locked")
  /\ UNCHANGED <<disk, failures, overwritten, pushed, popped>>

-----------------------------------------------------------------------------
(* stashProfileCommand *)

\* The scan for untracked resources, awaited, ...
Scan(t) ==
  /\ t \in Pushes
  /\ ~Nothing(t)
  /\ Goto(t, "locked", "scanned")
  /\ paths' = [paths EXCEPT ![t] = Present(Untracked)]
  /\ UNCHANGED <<lockVars, disk, files, edits, calls, failures, history>>

\* readHomeFile of the push: the bytes are decoded, whatever they are.
Decoded(text) == IF text \in Binaries THEN Mangled ELSE text

\* ... then the paths a generator would write, awaited, whose texts are read:
\* a file that has gone meanwhile is left out, even if it is the only one.
Capture(t) ==
  /\ Goto(t, "scanned", "captured")
  /\ files' = [files EXCEPT ![t] = [p \in Present(paths[t]) |-> Decoded(home[p])]]
  /\ UNCHANGED <<lockVars, disk, paths, edits, calls, failures, history>>

\* A mistaken form of Removed: the backup is of the captured texts.
RemovedAsCaptured(t, gone, saved) ==
  [home |-> [p \in Paths |-> IF p \in gone THEN Absent ELSE home[p]],
   stash |-> stash,
   backup |-> backup \cup {<<p, files[t][p]>> : p \in saved}]

\* Files are removed after a backup of what they hold by now.
Removed(t, gone, saved) ==
  [home |-> [p \in Paths |-> IF p \in gone THEN Absent ELSE home[p]],
   stash |-> stash,
   backup |-> backup \cup OnDisk(saved)]

Push(t) ==
  LET all == Present(DOMAIN files[t])
      done == Removed(t, all, all)
  IN /\ Leave(t, "captured")
     /\ home' = done.home
     /\ backup' = done.backup
     /\ stash' = WithEntry(files[t])
     /\ pushed' = pushed + 1
     /\ UNCHANGED <<snapshot, failures, overwritten, popped>>

-----------------------------------------------------------------------------
(* stashManagedDriftChanges *)

\* The changed files as they are now.
Changed(t) == [p \in Stashable(paths[t]) |-> home[p]]

\* A mistaken form of Reverted: it reverts whatever the snapshot holds.
RevertedAll(P) == HomeWith(snapshot)

\* lastWrittenContent: a change gives way to what the latest apply's snapshot has
\* at its path, which is the text from before that apply, and stays where the
\* apply found no file.
Reverted(P) == HomeWith([p \in P \cap DOMAIN snapshot |-> snapshot[p]])

Drift(t) ==
  /\ t \in Drifts
  /\ ~Nothing(t)
  /\ Leave(t, "locked")
  /\ home' = Reverted(DOMAIN Changed(t))
  /\ stash' = WithEntry(Changed(t))
  /\ pushed' = pushed + 1
  /\ UNCHANGED <<backup, snapshot, failures, overwritten, popped>>

-----------------------------------------------------------------------------
(* popProfileStashCommand, applyProfileStashCommand *)

Newest == Head(Read(stash))

\* A mistaken form of ToRestore: a file that exists is left alone.
ToRestoreAbsent(t) ==
  [p \in {q \in DOMAIN Newest.files : home[q] = Absent} |-> Newest.files[p]]

\* The texts a pop or apply writes: no conflict policy is asked.
ToRestore(t) == IF t \in DryPops THEN NoFiles ELSE Newest.files

Pop(t) ==
  /\ t \in Pops
  /\ ~Nothing(t)
  /\ Leave(t, "locked")
  /\ stash' = Tail(Read(stash))
  /\ home' = HomeWith(ToRestore(t))
  /\ overwritten' = overwritten \cup WrittenOver(ToRestore(t))
  /\ popped' = popped \cup {Newest.id}
  /\ UNCHANGED <<backup, snapshot, failures, pushed>>

Restore(t) ==
  /\ t \in Restores
  /\ ~Nothing(t)
  /\ Leave(t, "locked")
  /\ home' = HomeWith(ToRestore(t))
  /\ overwritten' = overwritten \cup WrittenOver(ToRestore(t))
  /\ UNCHANGED <<stash, backup, snapshot, failures, pushed, popped>>

-----------------------------------------------------------------------------
(* Failures, processes and the user *)

MoreEvents == edits + failures + exits < MaxEvents

\* What a step that does not come to its end leaves on disk, with the texts it
\* has restored.
Part(h, s, b, f) == [home |-> h, stash |-> s, backup |-> b, restored |-> f]
PartRemoved(t, gone, saved, s) ==
  Part(Removed(t, gone, saved).home, s, Removed(t, gone, saved).backup, NoFiles)
PartReverted(P, s) == Part(Reverted(P), s, backup, NoFiles)
PartRestored(P, s) ==
  LET f == [p \in P |-> Newest.files[p]] IN Part(HomeWith(f), s, backup, f)

Leaves(left) ==
  /\ home' = left.home
  /\ stash' = left.stash
  /\ backup' = left.backup
  /\ UNCHANGED snapshot
  /\ overwritten' = overwritten \cup WrittenOver(left.restored)

\* Some files removed, and the one after them backed up; or all of them removed
\* and the stash file torn or written.
LeavesPush(t) ==
  LET all == Present(DOMAIN files[t])
  IN \/ \E saved \in SUBSET all : \E gone \in {saved} \cup {saved \ {p} : p \in saved} :
          Leaves(PartRemoved(t, gone, saved, stash))
     \/ \E s \in {Torn, WithEntry(files[t])} : Leaves(PartRemoved(t, all, all, s))

\* Some files reverted; or all of them, and the stash file torn or written.
LeavesDrift(t) ==
  \/ \E P \in SUBSET DOMAIN Changed(t) : Leaves(PartReverted(P, stash))
  \/ \E s \in {Torn, WithEntry(Changed(t))} : Leaves(PartReverted(DOMAIN Changed(t), s))

\* The stash file torn; or written without the entry and some files restored.
LeavesPop(t) ==
  \/ Leaves(PartRestored({}, Torn))
  \/ \E P \in SUBSET DOMAIN ToRestore(t) : Leaves(PartRestored(P, Tail(Read(stash))))

LeavesRestore(t) ==
  \E P \in SUBSET DOMAIN ToRestore(t) : Leaves(PartRestored(P, stash))

Writes(t) == pc[t] = "locked" /\ ~Nothing(t)

LeavesPartOf(t) ==
  \/ Leaves(Part(home, stash, backup, NoFiles))
  \/ pc[t] = "captured" /\ LeavesPush(t)
  \/ t \in Drifts /\ Writes(t) /\ LeavesDrift(t)
  \/ t \in Pops /\ Writes(t) /\ LeavesPop(t)
  \/ t \in Restores /\ Writes(t) /\ LeavesRestore(t)

Fails(t) ==
  /\ failures < MaxFailures /\ MoreEvents
  /\ failures' = failures + 1
  /\ pc[t] \in {"locked", "scanned", "captured"}
  /\ LeavesPartOf(t)
  /\ Leave(t, pc[t])
  /\ UNCHANGED <<pushed, popped>>

\* A process exits, or is killed within any step of any of its tasks.
ProcessExit(p) ==
  /\ Exit(p) /\ MoreEvents
  /\ UNCHANGED <<disk, overwritten>> \/ \E t \in Holders(p) : LeavesPartOf(t)
  /\ pc' = [t \in Tasks |-> IF ProcOf[t] = p THEN "idle" ELSE pc[t]]
  /\ paths' = [t \in Tasks |-> IF ProcOf[t] = p THEN {} ELSE paths[t]]
  /\ files' = [t \in Tasks |-> IF ProcOf[t] = p THEN NoFiles ELSE files[t]]
  /\ UNCHANGED <<edits, calls, failures, kept, pushed, popped>>

Recover(p) ==
  /\ Start(p) \/ UserRemovesLock(p)
  /\ UNCHANGED <<disk, pc, paths, files, edits, calls, failures, history>>

\* The user writes a new text to a path, or deletes the file.
Edit(p) ==
  /\ edits < MaxEdits /\ MoreEvents
  /\ edits' = edits + 1
  /\ \E text \in {edits + 1, Absent} :
       /\ home' = [home EXCEPT ![p] = text]
       /\ kept' = (kept \ OnDisk({p})) \cup ({<<p, text>>} \ {<<p, Absent>>})
  /\ overwritten' = overwritten \cap kept'
  /\ UNCHANGED <<lockVars, stash, backup, snapshot, pc, paths, files>>
  /\ UNCHANGED <<calls, failures, pushed, popped>>

-----------------------------------------------------------------------------
Proceed(t) ==
  \/ LeaveWithNothing(t) \/ Scan(t) \/ Capture(t)
  \/ Push(t) \/ Drift(t) \/ Pop(t) \/ Restore(t) \/ Fails(t)

Next ==
  \/ \E t \in Tasks : Detect(t) \/ Enter(t) \/ TurnedAway(t) \/ Proceed(t)
  \/ \E p \in Procs : ProcessExit(p) \/ Recover(p)
  \/ \E p \in Paths : Edit(p)

Spec == Init /\ [][Next]_vars

-----------------------------------------------------------------------------
(* Properties *)

\* A text the user left in an untracked file is in the home or in a removal
\* backup, whatever is stashed, popped, killed or fails, in any order, unless a
\* pop or apply has written over it: the backup is of what is removed, not of
\* what was captured some awaits earlier.
UntrackedTextIsKept ==
  {x \in kept : x[1] \in Untracked} \subseteq OnDisk(Paths) \cup backup \cup overwritten

\* The texts of the entries.
Stashed ==
  UNION {{<<p, e.files[p]>> : p \in DOMAIN e.files} :
           e \in {Read(stash)[i] : i \in DOMAIN Read(stash)}}

Undisturbed == exits = 0 /\ failures = 0

\* An edit of a profile's file has no backup: it is in the home or the stash as
\* long as no step fails and no process is killed, unless a pop or apply has
\* written over it.  A dry run, too, must leave it in one of them: it shows "what
\* would be restored without writing".
ManagedTextIsKept ==
  Undisturbed =>
    {x \in kept : x[1] \in Managed} \subseteq OnDisk(Paths) \cup Stashed \cup overwritten

\* "Restore the most recent": whatever overlaps, the stash holds every entry
\* that was pushed and not popped, newest first, and each is popped once.
StashIsStack ==
  Undisturbed =>
    LET held == Read(stash)
    IN /\ {held[i].id : i \in DOMAIN held} = (1..pushed) \ popped
       /\ \A i, j \in DOMAIN held : i < j => held[i].id > held[j].id
=============================================================================
