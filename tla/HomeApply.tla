----------------------------- MODULE HomeApply -----------------------------
(***************************************************************************)
(* The files of the home: what an apply writes, leaves alone and removes,  *)
(* and what a revert puts back.  A file is HarnessTap's when a row of      *)
(* resource_materializations records the very bytes it holds; it is        *)
(* "modified" when rows exist but none matches, and "unowned" otherwise.   *)
(* A file found unowned where HarnessTap wants to write is recorded as     *)
(* preexisting, for good.                                                  *)
(*                                                                         *)
(* Applies exclude each other (ProfileApplyLock); `ht revert` and the      *)
(* revert request take no lock, and the user edits at any time.  A step of *)
(* the apply runs from one await to the next: files are handled one by one *)
(* and each touches its own path only, so that an edit between two of them *)
(* is one before or after the step.                                        *)
(*                                                                         *)
(* Abstractions: files written whole, outside host plugin folders (which   *)
(* leaves out the MCP configurations, and with them the mirrors of those   *)
(* on other harnesses); one harness and one resource per profile and path; *)
(* no links or folders at the paths; a text stands for the bytes that hash *)
(* alike.                                                                  *)
(***************************************************************************)
EXTENDS Naturals, Sequences

CONSTANTS
  Paths, Profiles,
  Emittable,     \* the paths a harness in use reads
  Hub,           \* the copy of a path's skill in the shared hub, or the path
  User,          \* the author of the user's texts
  Absent,        \* no file
  InTrash,       \* a captured file left to the removal backup
  NoProfile,
  MaxEdits,      \* bound: texts the user writes, and deletions
  MaxUpdates,    \* bound: changes to the profiles
  MaxSaves,      \* bound: edits the user saves to a profile
  MaxSnapshots,  \* bound: snapshots
  MaxFailures,   \* bound: applies and reverts that throw or are killed
  MaxEvents      \* bound: edits, changes, saves and failures together

ASSUME HubAssumption ==
  /\ Emittable \subseteq Paths
  /\ Hub \in [Paths -> Paths] /\ \A p \in Paths : Hub[Hub[p]] = Hub[p]
ASSUME AuthorsAssumption == User \notin Profiles /\ NoProfile \notin Profiles
ASSUME HomeBoundsAssumption ==
  MaxEdits \in Nat /\ MaxUpdates \in Nat /\ MaxSaves \in Nat /\ MaxEvents \in Nat
    /\ MaxSnapshots \in Nat /\ MaxFailures \in Nat

UserTexts == {User} \X (0..MaxEdits)
Texts == UserTexts \cup (Profiles \X (0..MaxUpdates))
ASSUME MarksAssumption == {Absent, InTrash} \cap Texts = {} /\ Absent # InTrash

VARIABLES
  disk,          \* the text at each path
  lib,           \* what each profile wants at each path
  rows,          \* resource_materializations: <<path, profile, text>>
  preexisting,   \* preexisting_paths
  snaps,         \* the apply snapshots, oldest first
  removedRows,   \* removed-ownership/<snapshot>.json: <<snapshot, path, profile, text>>
  backups,       \* apply_removal_backups and the trash: <<path, text>>
  active,        \* the active profile
  pc, target, force, wanted, tracked, captured, skip, written,  \* the apply in flight
  edits, updates, saves, failures,
  listed,        \* history: no revert, and the latest snapshot of each profile lists
                 \* the files of its latest apply
  mine,          \* history: <<path, text>> the user wrote and counts on
  fresh,         \* history: the snapshot of an apply nothing has happened since, or 0
  since          \* history: what has happened since the apply captured the home

run == <<target, force, wanted, tracked, captured, skip, written>>
store == <<rows, preexisting, snaps, removedRows, backups>>
events == <<edits, updates, saves, failures, listed>>
vars == <<disk, lib, store, active, pc, run, events, mine, fresh, since>>

Nowhere == [p \in Paths |-> Absent]
NoFiles == [p \in {} |-> Absent]
Places == {"idle", "resolved", "tracked", "decided", "written", "persisted", "recorded"}
Captures == UNION {[P -> Texts \cup {Absent, InTrash}] : P \in SUBSET Paths}
Snapshots ==
  [profile : Profiles, files : SUBSET Paths, captured : Captures,
   first : [Paths -> Texts \cup {Absent}], before : [Paths -> Texts \cup {Absent}]]

TypeOK ==
  /\ disk \in [Paths -> Texts \cup {Absent}]
  /\ lib \in [Profiles -> [Paths -> Texts \cup {Absent}]]
  /\ rows \subseteq Paths \X Profiles \X Texts
  /\ \A r, s \in rows : r[1] = s[1] /\ r[2] = s[2] => r = s
  /\ preexisting \subseteq Paths
  /\ snaps \in Seq(Snapshots) /\ Len(snaps) <= MaxSnapshots
  /\ removedRows \subseteq (DOMAIN snaps) \X Paths \X Profiles \X Texts
  /\ backups \subseteq Paths \X Texts
  /\ active \in Profiles \cup {NoProfile}
  /\ pc \in Places
  /\ target \in Profiles \cup {NoProfile} /\ (pc = "idle" <=> target = NoProfile)
  /\ force \in BOOLEAN
  /\ wanted \in [Paths -> Texts \cup {Absent}]
  /\ tracked \subseteq Paths /\ skip \subseteq Paths /\ written \subseteq Paths
  /\ captured \in Captures
  /\ edits \in 0..MaxEdits /\ updates \in 0..MaxUpdates
  /\ saves \in 0..MaxSaves /\ failures \in 0..MaxFailures /\ listed \in BOOLEAN
  /\ mine \subseteq Paths \X UserTexts
  /\ fresh \in 0..Len(snaps) /\ since \in {"nothing", "something"}

Present(P) == {p \in P : disk[p] # Absent}
OnDisk(P) == {<<p, disk[p]>> : p \in Present(P)}
Emitted(f) == {p \in Paths : f[p] # Absent}
Without(P) == [p \in Paths |-> IF p \in P THEN Absent ELSE disk[p]]

\* A mistaken form of Owned: the bytes are not compared.
OwnedByRow(p) == \E r \in rows : r[1] = p

\* classifyManagedPathOwnership
Rowed(p) == \E r \in rows : r[1] = p
Owned(p) == \E r \in rows : r[1] = p /\ r[3] = disk[p]
Modified(p) == Rowed(p) /\ ~Owned(p)

Resets ==
  /\ pc' = "idle" /\ target' = NoProfile /\ force' = FALSE /\ wanted' = Nowhere
  /\ tracked' = {} /\ captured' = NoFiles /\ skip' = {} /\ written' = {}
  /\ since' = "nothing"

\* A revert or an edit under an apply that has captured the home.
Disturbs ==
  since' = IF pc \in {"decided", "written", "persisted", "recorded"} THEN "something" ELSE since

Init ==
  /\ disk \in [Paths -> {Absent, <<User, 0>>}]
  /\ lib \in [Profiles -> [Paths -> Texts \cup {Absent}]]
  /\ \A q \in Profiles, p \in Paths :
       lib[q][p] \in {Absent} \cup (IF p \in Emittable THEN {<<q, 0>>} ELSE {})
  /\ rows = {} /\ preexisting = {} /\ snaps = <<>> /\ removedRows = {} /\ backups = {}
  /\ active = NoProfile
  /\ pc = "idle" /\ target = NoProfile /\ force = FALSE /\ wanted = Nowhere
  /\ tracked = {} /\ captured = NoFiles /\ skip = {} /\ written = {}
  /\ edits = 0 /\ updates = 0 /\ saves = 0 /\ failures = 0 /\ listed = TRUE
  /\ mine = OnDisk(Paths) /\ fresh = 0 /\ since = "nothing"

-----------------------------------------------------------------------------
(* The steps of an apply *)

\* The composition is resolved: from here on the apply knows what it wants.
Begin(q) ==
  /\ pc = "idle"
  /\ Len(snaps) < MaxSnapshots
  /\ pc' = "resolved"
  /\ target' = q
  /\ force' \in BOOLEAN
  /\ wanted' = lib[q]
  /\ UNCHANGED <<disk, lib, store, active, tracked, captured, skip, written, events, mine, fresh, since>>

\* The files of the profile's latest snapshot.
Heads(q) == {i \in DOMAIN snaps : snaps[i].profile = q /\ \A j \in DOMAIN snaps : j > i => snaps[j].profile # q}
FilesOf(q) == UNION {snaps[i].files : i \in Heads(q)}

\* A mistaken form of PreviousFiles: what the profile being left wants by now,
\* whatever it wrote.
PreviousFilesByNow(q) == IF active = NoProfile THEN {} ELSE Emitted(lib[active])

\* resolvePreviousTrackedFilesForApply: what may have to go.
PreviousFiles(q) ==
  LET outgoing == IF active = q THEN FilesOf(q)
                  ELSE IF active = NoProfile THEN {}
                  ELSE FilesOf(active) \cup Emitted(lib[active])
      known == outgoing \cup UNION {FilesOf(o) : o \in Profiles \ {q}}
  IN IF known = {} /\ snaps # <<>> THEN FilesOf(snaps[Len(snaps)].profile) ELSE known

Track ==
  /\ pc = "resolved"
  /\ pc' = "tracked"
  /\ tracked' = PreviousFiles(target)
  /\ UNCHANGED <<disk, lib, store, active, target, force, wanted, captured, skip, written, events, mine, fresh, since>>

\* A mistaken form of Captured: only what is about to be written.
CapturedWanted == [p \in Emitted(wanted) |-> disk[p]]

\* captureManagedSnapshotState
Captured ==
  [p \in Emitted(wanted) \cup tracked |->
     IF p \in Emitted(wanted) \/ disk[p] = Absent THEN disk[p] ELSE InTrash]

\* planMaterializationConflicts: an edited file of HarnessTap's is none.
Conflicts == {p \in Present(Emitted(wanted)) : disk[p] # wanted[p] /\ ~Modified(p)}

\* The home is captured, and the conflicts are decided: by the policy, or by
\* the user, one by one.
Decide ==
  /\ pc = "tracked"
  /\ pc' = "decided"
  /\ captured' = Captured
  /\ skip' \in SUBSET Conflicts
  /\ since' = "nothing"
  /\ UNCHANGED <<disk, lib, store, active, target, force, wanted, tracked, written, events, mine, fresh>>

Cancel ==
  /\ pc = "tracked"
  /\ Conflicts # {}
  /\ Resets
  /\ UNCHANGED <<disk, lib, store, active, events, mine, fresh>>

\* A mistaken form of Writes: the decision is all that counts.
WritesAsDecided(P) == {p \in (P \cap Emitted(wanted)) \ skip : disk[p] # wanted[p]}

\* What the write loop does with the paths of P: a file that is not, or no
\* longer, HarnessTap's is left alone whatever was decided.
LeftAlone(P) == {p \in Present(P \cap Emitted(wanted)) \ skip : ~Owned(p)}
Writes(P) == {p \in (P \cap Emitted(wanted)) \ (skip \cup LeftAlone(P)) : disk[p] # wanted[p]}
Found(P) == {p \in LeftAlone(P) : ~Rowed(p)}

Materializes(P) ==
  /\ disk' = [p \in Paths |-> IF p \in Writes(P) THEN wanted[p] ELSE disk[p]]
  /\ preexisting' = preexisting \cup Found(P)

Write ==
  /\ pc = "decided"
  /\ pc' = "written"
  /\ Materializes(Paths)
  /\ written' = Writes(Paths)
  /\ fresh' = IF Writes(Paths) = {} THEN fresh ELSE 0
  /\ UNCHANGED <<lib, rows, snaps, removedRows, backups, active, target, force, wanted,
                 tracked, captured, skip, events, mine, since>>

\* A mistaken form of RowsWith: the old row stays.
RowsWithOld(new) == rows \cup new

\* recordResourceMaterialization: one row per path and resource.
RowsWith(new) == {r \in rows : ~\E n \in new : n[1] = r[1] /\ n[2] = r[2]} \cup new

\* persistWrittenMaterializations, after an await: only what was written.
Persists(P) == rows' = RowsWith({<<p, target, wanted[p]>> : p \in P})

Persist ==
  /\ pc = "written"
  /\ pc' = "persisted"
  /\ Persists(written)
  /\ UNCHANGED <<disk, lib, preexisting, snaps, removedRows, backups, active, run, events, mine, fresh, since>>

\* planSafeFileRemovals
Removable(P, forced) == {p \in Present(P) : p \notin preexisting /\ (Owned(p) \/ forced)}

\* expandStaleSkillHubMirrors: a skill that leaves for good takes the shared hub's
\* copy with it, which the apply has neither tracked nor captured.
Mirrors(gone) == {Hub[p] : p \in {q \in gone : \A r \in Emitted(wanted) : Hub[r] # Hub[q]}}

\* planStaleGlobalProfileFiles
StaleFiles ==
  LET gone == tracked \ Emitted(wanted) IN gone \cup Mirrors(gone)

Stale == Removable(StaleFiles, force)

\* A snapshot s with the texts of P as the first backups of their paths.
WithBackups(s, P) ==
  [s EXCEPT !.first = [p \in Paths |-> IF p \in P /\ s.first[p] = Absent THEN disk[p] ELSE s.first[p]]]

NewSnapshot(files) ==
  [profile |-> target, files |-> files, captured |-> captured, first |-> Nowhere,
   before |-> [p \in Paths |-> IF p \in DOMAIN captured /\ captured[p] # InTrash THEN captured[p] ELSE disk[p]]]

RowsOf(P) == {r \in rows : r[1] \in P}
Filed(i, R) == {<<i, r[1], r[2], r[3]>> : r \in R}

\* Nothing was written, nothing is to be removed and there is a snapshot: the
\* apply leaves no trace.
NothingToRecord == written = {} /\ Stale = {} /\ Heads(target) # {}

\* The snapshot, the removal of stale files after a backup, and the manifest.
Record ==
  /\ pc = "persisted"
  /\ pc' = "recorded"
  /\ \/ /\ NothingToRecord
        /\ UNCHANGED <<disk, store, fresh>>
        /\ listed' = (listed /\ FilesOf(target) = Emitted(wanted))
     \/ /\ ~NothingToRecord
        /\ disk' = Without(Stale)
        /\ backups' = backups \cup OnDisk(Stale)
        /\ snaps' = Append(snaps, WithBackups(NewSnapshot(Emitted(wanted)), Stale))
        /\ removedRows' = removedRows \cup Filed(Len(snaps) + 1, RowsOf(Stale))
        /\ rows' = rows \ RowsOf(Stale)
        /\ fresh' = IF since = "nothing" THEN Len(snaps) + 1 ELSE 0
        /\ UNCHANGED <<preexisting, listed>>
  /\ UNCHANGED <<lib, active, run, edits, updates, saves, failures, mine, since>>

\* setActiveProfileName
Point ==
  /\ pc = "recorded"
  /\ active' = target
  /\ Resets
  /\ UNCHANGED <<disk, lib, store, events, mine, fresh>>

-----------------------------------------------------------------------------
(* An apply that throws or is killed *)

MoreEvents == edits + updates + saves + failures < MaxEvents

PartOfRecord ==
  /\ ~NothingToRecord
  /\ \E saved \in SUBSET Stale : \E gone \in {saved} \cup {saved \ {p} : p \in saved} :
       /\ disk' = Without(gone)
       /\ backups' = backups \cup OnDisk(saved)
       /\ snaps' = Append(snaps, WithBackups(NewSnapshot({}), saved))
       /\ \/ UNCHANGED <<rows, removedRows>>
          \/ /\ gone = Stale
             /\ removedRows' = removedRows \cup Filed(Len(snaps) + 1, RowsOf(Stale))
             /\ \E P \in SUBSET Stale : rows' = rows \ RowsOf(P)
  /\ UNCHANGED preexisting

Fails ==
  /\ pc # "idle"
  /\ failures < MaxFailures /\ MoreEvents
  /\ failures' = failures + 1
  /\ \/ UNCHANGED <<disk, store>>
     \/ /\ pc = "decided"
        /\ \E P \in SUBSET Paths : Materializes(P)
        /\ UNCHANGED <<rows, snaps, removedRows, backups>>
     \/ /\ pc = "written"
        /\ \E P \in SUBSET written : Persists(P)
        /\ UNCHANGED <<disk, preexisting, snaps, removedRows, backups>>
     \/ pc = "persisted" /\ PartOfRecord
  /\ fresh' = 0
  /\ Resets
  /\ UNCHANGED <<lib, active, edits, updates, saves, listed, mine>>

-----------------------------------------------------------------------------
(* executeRevert *)

Back(i, p) ==
  LET c == snaps[i].captured[p] IN IF c = InTrash THEN snaps[i].first[p] ELSE c

Restorable(i) == {p \in DOMAIN snaps[i].captured : Back(i, p) # Absent}
Putback(i) == {p \in Restorable(i) : disk[p] = Absent \/ (disk[p] # Back(i, p) /\ Owned(p))}
Intact(i) == {p \in Restorable(i) : disk[p] = Back(i, p)}
TakenAway(i, forced) ==
  Removable({p \in DOMAIN snaps[i].captured : snaps[i].captured[p] = Absent}, forced)

Reverts(i, put, gone) ==
  /\ disk' = [p \in Paths |-> IF p \in put THEN Back(i, p) ELSE IF p \in gone THEN Absent ELSE disk[p]]
  /\ backups' = backups \cup OnDisk(put \cup gone)
  /\ snaps' = [snaps EXCEPT ![i] = WithBackups(@, Present(put) \cup gone)]

\* restoreRemovedOwnership: the rows of restored files that hold their bytes.
RowsRestored(i) ==
  {<<m[2], m[3], m[4]>> :
     m \in {n \in removedRows : n[1] = i /\ n[2] \in Putback(i) \cup Intact(i) /\ n[4] = disk'[n[2]]}}

Revert(i) ==
  /\ \E forced \in BOOLEAN :
       LET gone == TakenAway(i, forced)
       IN /\ Reverts(i, Putback(i), gone)
          /\ removedRows' = removedRows \cup Filed(i, RowsOf(gone))
          /\ rows' = RowsWith(RowsRestored(i)) \ RowsOf(gone)
  /\ fresh' = 0 /\ listed' = FALSE /\ Disturbs
  /\ UNCHANGED <<lib, preexisting, active, pc, run, edits, updates, saves, failures, mine>>

\* Files are restored one by one, then removed one by one; then rows go, and
\* come back.
RevertFails(i) ==
  /\ failures < MaxFailures /\ MoreEvents
  /\ failures' = failures + 1
  /\ \E forced \in BOOLEAN :
       LET gone == TakenAway(i, forced)
       IN \/ /\ \/ \E put \in SUBSET Putback(i) : Reverts(i, put, {})
                \/ \E some \in SUBSET gone : Reverts(i, Putback(i), some)
             /\ UNCHANGED <<rows, removedRows>>
          \/ /\ Reverts(i, Putback(i), gone)
             /\ removedRows' = removedRows \cup Filed(i, RowsOf(gone))
             /\ \/ \E P \in SUBSET gone : rows' = rows \ RowsOf(P)
                \/ \E new \in SUBSET RowsRestored(i) : rows' = RowsWith(new) \ RowsOf(gone)
  /\ fresh' = 0 /\ listed' = FALSE /\ Disturbs
  /\ UNCHANGED <<lib, preexisting, active, pc, run, edits, updates, saves, mine>>

-----------------------------------------------------------------------------
(* The user *)

\* The user writes to a path, or removes the file.
Edit(p) ==
  /\ edits < MaxEdits /\ MoreEvents
  /\ edits' = edits + 1
  /\ \E x \in {<<User, edits + 1>>, Absent} :
       /\ disk' = [disk EXCEPT ![p] = x]
       /\ mine' = (mine \ OnDisk({p})) \cup ({<<p, x>>} \ {<<p, Absent>>})
  /\ fresh' = 0 /\ Disturbs
  /\ UNCHANGED <<lib, store, active, pc, run, updates, saves, failures, listed>>

\* The user changes a profile, or takes a resource out of it.
Update(q, p) ==
  /\ updates < MaxUpdates /\ MoreEvents
  /\ updates' = updates + 1
  /\ p \in Emittable
  /\ \E x \in {<<q, updates + 1>>, Absent} : lib' = [lib EXCEPT ![q][p] = x]
  /\ UNCHANGED <<disk, store, active, pc, run, edits, saves, failures, listed, mine, fresh, since>>

\* commitManagedPathFromLive: the file's text becomes the profile's.
Save(q, p) ==
  /\ saves < MaxSaves /\ MoreEvents
  /\ saves' = saves + 1
  /\ lib[q][p] # Absent /\ disk[p] # Absent
  /\ lib' = [lib EXCEPT ![q][p] = disk[p]]
  /\ mine' = mine \ OnDisk({p})
  /\ UNCHANGED <<disk, store, active, pc, run, edits, updates, failures, listed, fresh, since>>

-----------------------------------------------------------------------------
Apply == Track \/ Decide \/ Cancel \/ Write \/ Persist \/ Record \/ Point \/ Fails

Next ==
  \/ \E q \in Profiles : Begin(q)
  \/ Apply
  \/ \E i \in DOMAIN snaps : Revert(i) \/ RevertFails(i)
  \/ \E p \in Paths : Edit(p) \/ \E q \in Profiles : Update(q, p) \/ Save(q, p)

Spec == Init /\ [][Next]_vars

-----------------------------------------------------------------------------
(* Properties *)

Hubs == {Hub[p] : p \in Paths}

\* A text the user left at a path is there or in a removal backup, whatever is
\* applied, forced, reverted, saved or killed in between: no row ever vouches
\* for it, not even one a revert puts back.
UserTextIsKept == mine \subseteq OnDisk(Paths) \cup backups

\* The home keeps the promise of FileCustody.
Custody == INSTANCE FileCustody WITH content <- disk, saved <- backups
KeepsCustody == Custody!Promise

\* When an apply is done, none failed and the snapshots list what is there, what
\* a row says HarnessTap wrote is what the profile wants there, unless the user
\* chose to keep it or it was there before: files of other profiles, and those
\* the profile has dropped, are gone.
HomeIsClean ==
  pc = "recorded" /\ failures = 0 /\ listed =>
    \A p \in Paths : Owned(p) => p \in skip \cup preexisting \/ disk[p] = wanted[p]

\* "ht revert" of the latest apply, with nothing in between, puts back every
\* file as it was, but for those recorded as present before HarnessTap; and but
\* for a hub's copy of a skill, which no snapshot lists: a removal backup has it.
RevertUndoes ==
  [][\A i \in DOMAIN snaps : fresh = i /\ Revert(i) =>
       \A p \in Paths \ preexisting :
         \/ disk'[p] = snaps[i].before[p]
         \/ /\ p \in Hubs \ DOMAIN snaps[i].captured
            /\ <<p, snaps[i].before[p]>> \in backups]_vars
=============================================================================
