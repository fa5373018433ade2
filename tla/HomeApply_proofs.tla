-------------------------- MODULE HomeApply_proofs --------------------------
(***************************************************************************)
(* For every set of paths and profiles and every bound: whatever is        *)
(* applied, forced, reverted, saved or killed, a text of the user's is at  *)
(* its path or in a backup, and the home keeps the promise of FileCustody. *)
(*                                                                         *)
(* The argument: a file is written over only while a row vouches for its   *)
(* bytes, and removed only after a backup; so it is enough that no row, no *)
(* row kept aside by a removal and no text a profile wants is one the user *)
(* counts on.  Texts the user has yet to write occur nowhere, which keeps  *)
(* it so at the next edit.                                                 *)
(*                                                                         *)
(* Then: the revert of an undisturbed apply undoes it, the home keeps its  *)
(* types, and while nothing fails a completed apply leaves it clean.       *)
(***************************************************************************)
EXTENDS HomeApply, SequenceTheorems, TLAPS

Known == ({User} \X (0..edits)) \cup (Profiles \X (0..MaxUpdates))
Txt == Known \cup {Absent}
Caps == UNION {[P -> Txt \cup {InTrash}] : P \in SUBSET Paths}
Snap == [profile : Profiles, files : SUBSET Paths, captured : Caps,
         first : [Paths -> Txt], before : [Paths -> Txt]]

Files == disk \in [Paths -> Txt] /\ lib \in [Profiles -> [Paths -> Txt]] /\ wanted \in [Paths -> Txt]
Rows == rows \subseteq Paths \X Profiles \X Known
RemovedRows == removedRows \subseteq Nat \X Paths \X Profiles \X Known
History == snaps \in Seq(Snap) /\ captured \in Caps
Pace ==
  /\ edits \in Nat /\ edits <= MaxEdits /\ updates \in Nat
  /\ target \in Profiles \cup {NoProfile} /\ (pc # "idle" => target \in Profiles)
  /\ tracked \subseteq Paths /\ written \subseteq Emitted(wanted)
  /\ (pc = "idle" => written = {})

\* No row, saved row or profile has a text the user counts on at its path.
NoClaim ==
  /\ mine \subseteq Paths \X ({User} \X (0..edits))
  /\ \A r \in rows : <<r[1], r[3]>> \notin mine
  /\ \A m \in removedRows : <<m[2], m[4]>> \notin mine
  /\ \A p \in Paths : <<p, wanted[p]>> \notin mine
  /\ \A q \in Profiles, p \in Paths : <<p, lib[q][p]>> \notin mine

Inv == Files /\ Rows /\ RemovedRows /\ History /\ Pace /\ NoClaim /\ UserTextIsKept

-----------------------------------------------------------------------------
LEMMA AbsentIsNoText ==
  ASSUME Inv
  PROVE  Absent \notin Known /\ InTrash \notin Known
<1>1. Known \subseteq Texts
  BY HomeBoundsAssumption DEF Inv, Pace, Known, Texts, UserTexts
<1> QED
  BY <1>1, MarksAssumption

\* A step that keeps the promise keeps the user's texts.
LEMMA ManagedKept ==
  ASSUME Inv, Custody!Manages
  PROVE  UserTextIsKept'
<1> SUFFICES ASSUME NEW m \in mine
             PROVE  m \in OnDisk(Paths)' \cup backups'
  BY DEF UserTextIsKept, Custody!Manages
<1>1. CASE m \in backups
  BY <1>1 DEF Custody!Manages
<1>2. CASE m \in OnDisk(Paths)
  <2>1. PICK p \in Paths : disk[p] # Absent /\ m = <<p, disk[p]>>
    BY <1>2 DEF OnDisk, Present
  <2> QED
    BY <2>1 DEF OnDisk, Present, Custody!Manages
<1> QED
  BY <1>1, <1>2 DEF Inv, UserTextIsKept

\* A file a row vouches for is not the user's.
LEMMA OwnedIsNotMine ==
  ASSUME Inv, NEW p \in Paths, Owned(p)
  PROVE  <<p, disk[p]>> \notin mine
BY DEF Inv, NoClaim, Owned

\* Nothing of the user's is written over, and what is removed was backed up.
LEMMA WritesManage ==
  ASSUME Inv, NEW P, Materializes(P), mine' = mine, backups' = backups
  PROVE  Custody!Manages
<1>1. ASSUME NEW p \in Paths, <<p, disk[p]>> \in mine, disk'[p] # disk[p]
      PROVE  FALSE
  <2>1. p \in Writes(P)
    BY <1>1 DEF Materializes, Inv, Files
  <2>2. disk[p] # Absent
    BY <1>1, AbsentIsNoText, HomeBoundsAssumption DEF Inv, NoClaim, Known
  <2>3. Owned(p)
    BY <2>1, <2>2 DEF Writes, LeftAlone, Present
  <2> QED
    BY <1>1, <2>3, OwnedIsNotMine
<1> QED
  BY <1>1 DEF Custody!Manages

LEMMA RemovalsManage ==
  ASSUME Inv, NEW gone, NEW saved, disk' = Without(gone), gone \subseteq saved, mine' = mine,
         backups' = backups \cup OnDisk(saved)
  PROVE  Custody!Manages
<1>1. ASSUME NEW p \in Paths, <<p, disk[p]>> \in mine, disk'[p] # disk[p]
      PROVE  <<p, disk[p]>> \in backups'
  <2>1. p \in gone
    BY <1>1 DEF Without, Inv, Files
  <2>2. disk[p] # Absent
    BY <1>1, AbsentIsNoText, HomeBoundsAssumption DEF Inv, NoClaim, Known
  <2> QED
    BY <2>1, <2>2 DEF OnDisk, Present
<1> QED
  BY <1>1 DEF Custody!Manages

LEMMA RevertsManage ==
  ASSUME Inv, NEW i, NEW put, NEW gone, Reverts(i, put, gone), mine' = mine
  PROVE  Custody!Manages
<1>1. ASSUME NEW p \in Paths, <<p, disk[p]>> \in mine, disk'[p] # disk[p]
      PROVE  <<p, disk[p]>> \in backups'
  <2>1. p \in put \cup gone
    BY <1>1 DEF Reverts, Inv, Files
  <2>2. disk[p] # Absent
    BY <1>1, AbsentIsNoText, HomeBoundsAssumption DEF Inv, NoClaim, Known
  <2> QED
    BY <2>1, <2>2 DEF Reverts, OnDisk, Present
<1> QED
  BY <1>1 DEF Custody!Manages, Reverts

-----------------------------------------------------------------------------
(* The typing of the snapshots *)

LEMMA BackIsText ==
  ASSUME Inv, NEW i \in DOMAIN snaps, NEW p \in DOMAIN snaps[i].captured
  PROVE  p \in Paths /\ Back(i, p) \in Txt
<1>1. snaps[i] \in Snap
  BY DEF Inv, History
<1>2. PICK P \in SUBSET Paths : snaps[i].captured \in [P -> Txt \cup {InTrash}]
  BY <1>1 DEF Snap, Caps
<1> QED
  BY <1>1, <1>2 DEF Snap, Back

LEMMA BackupsTyped ==
  ASSUME Inv, NEW s \in Snap, NEW P
  PROVE  WithBackups(s, P) \in Snap
BY DEF Inv, Files, WithBackups, Snap

LEMMA NewSnapshotTyped ==
  ASSUME Inv, target \in Profiles, NEW files \in SUBSET Paths
  PROVE  NewSnapshot(files) \in Snap
<1>1. PICK P \in SUBSET Paths : captured \in [P -> Txt \cup {InTrash}]
  BY DEF Inv, History, Caps
<1>2. Nowhere \in [Paths -> Txt]
  BY DEF Nowhere, Txt
<1>3. [p \in Paths |-> IF p \in DOMAIN captured /\ captured[p] # InTrash THEN captured[p] ELSE disk[p]] \in [Paths -> Txt]
  BY <1>1 DEF Inv, Files
<1>4. captured \in Caps
  BY DEF Inv, History
<1> QED
  BY <1>2, <1>3, <1>4 DEF NewSnapshot, Snap

LEMMA CapturedTyped ==
  ASSUME Inv
  PROVE  Captured \in Caps
<1> DEFINE P == Emitted(wanted) \cup tracked
<1>1. P \in SUBSET Paths
  BY DEF Inv, Pace, Emitted
<1>2. Captured \in [P -> Txt \cup {InTrash}]
  BY <1>1 DEF Captured, Inv, Files, Txt
<1> QED
  BY <1>1, <1>2 DEF Caps

LEMMA ResetsTyped ==
  ASSUME Resets, UNCHANGED edits
  PROVE  captured' \in Caps' /\ wanted' \in [Paths -> Txt]'
<1>1. NoFiles \in [{} -> Txt \cup {InTrash}]
  BY DEF NoFiles
<1>2. Caps' = Caps /\ Txt' = Txt
  BY DEF Caps, Txt, Known
<1>3. NoFiles \in Caps
  BY <1>1 DEF Caps
<1>4. Nowhere \in [Paths -> Txt]
  BY DEF Nowhere, Txt
<1> QED
  BY <1>2, <1>3, <1>4 DEF Resets

-----------------------------------------------------------------------------
(* The invariant is inductive *)

LEMMA Initially == Init => Inv /\ Custody!Start
<1> SUFFICES ASSUME Init
             PROVE  Inv /\ Custody!Start
  OBVIOUS
<1> USE HomeBoundsAssumption, AuthorsAssumption, MarksAssumption
<1>1. Files
  BY DEF Init, Files, Txt, Known, Nowhere
<1>2. Rows /\ RemovedRows /\ Pace
  BY DEF Init, Rows, RemovedRows, Pace, Emitted
<1>3. History
  <2>1. NoFiles \in [{} -> Txt \cup {InTrash}]
    BY DEF NoFiles
  <2>2. NoFiles \in Caps
    BY <2>1 DEF Caps
  <2> QED
    BY <2>2 DEF Init, History
<1>4. mine = {<<p, disk[p]>> : p \in Present(Paths)}
  BY DEF Init, OnDisk
<1>5. \A p \in Present(Paths) : p \in Paths /\ disk[p] = <<User, 0>>
  BY DEF Init, Present
<1>6. Absent # <<User, 0>>
  BY DEF Texts, UserTexts
<1>7. NoClaim
  <2>1. mine \subseteq Paths \X ({User} \X (0..edits))
    BY <1>4, <1>5 DEF Init
  <2>2. ASSUME NEW p \in Paths, NEW x \in {Absent} \cup {<<q, 0>> : q \in Profiles}
        PROVE  <<p, x>> \notin mine
    BY <1>4, <1>5, <1>6, <2>2
  <2> QED
    BY <2>1, <2>2 DEF Init, NoClaim, Nowhere
<1>8. UserTextIsKept
  BY DEF UserTextIsKept, Init
<1>9. Custody!Start
  BY <1>4 DEF Custody!Start, Custody!OnDisk, Init, Present
<1> QED
  BY <1>1, <1>2, <1>3, <1>7, <1>8, <1>9 DEF Inv

\* Steps that leave the user's texts, the counters and the profiles alone.
Steady == mine' = mine /\ lib' = lib /\ edits' = edits /\ updates' = updates

LEMMA SteadySets ==
  ASSUME edits' = edits
  PROVE  Known' = Known /\ Txt' = Txt /\ Caps' = Caps /\ Snap' = Snap
BY DEF Known, Txt, Caps, Snap

LEMMA BeginStep ==
  ASSUME Inv, NEW q \in Profiles, Begin(q)
  PROVE  Inv' /\ Custody!Manages
<1>1. Custody!Manages
  BY DEF Begin, store, Custody!Manages
<1>2. UserTextIsKept'
  BY <1>1, ManagedKept
<1>3. Known' = Known /\ Txt' = Txt /\ Caps' = Caps /\ Snap' = Snap
  BY SteadySets DEF Begin, events
<1>4. Files' /\ Rows' /\ RemovedRows' /\ History' /\ Pace'
  BY <1>3 DEF Inv, Begin, store, events, Files, Rows, RemovedRows, History, Pace, Emitted
<1>5. NoClaim'
  BY DEF Inv, Begin, store, events, NoClaim
<1> QED
  BY <1>1, <1>2, <1>4, <1>5 DEF Inv

LEMMA TrackStep ==
  ASSUME Inv, Track
  PROVE  Inv' /\ Custody!Manages
<1>1. Custody!Manages
  BY DEF Track, store, Custody!Manages
<1>2. UserTextIsKept'
  BY <1>1, ManagedKept
<1>3. Known' = Known /\ Txt' = Txt /\ Caps' = Caps /\ Snap' = Snap
  BY SteadySets DEF Track, events
<1>4. ASSUME NEW q
      PROVE  FilesOf(q) \subseteq Paths
  <2>1. ASSUME NEW i \in DOMAIN snaps
        PROVE  snaps[i].files \subseteq Paths
    <3>1. snaps[i] \in Snap
      BY DEF Inv, History
    <3> QED
      BY <3>1 DEF Snap
  <2> QED
    BY <2>1 DEF FilesOf, Heads
<1>5. PreviousFiles(target) \subseteq Paths
  BY <1>4 DEF PreviousFiles, Emitted
<1>6. Files' /\ Rows' /\ RemovedRows' /\ History' /\ Pace'
  BY <1>3, <1>5 DEF Inv, Track, store, events, Files, Rows, RemovedRows, History, Pace, Emitted
<1>7. NoClaim'
  BY DEF Inv, Track, store, events, NoClaim
<1> QED
  BY <1>1, <1>2, <1>6, <1>7 DEF Inv

LEMMA DecideStep ==
  ASSUME Inv, Decide
  PROVE  Inv' /\ Custody!Manages
<1>1. Custody!Manages
  BY DEF Decide, store, Custody!Manages
<1>2. UserTextIsKept'
  BY <1>1, ManagedKept
<1>3. Known' = Known /\ Txt' = Txt /\ Caps' = Caps /\ Snap' = Snap
  BY SteadySets DEF Decide, events
<1>4. Files' /\ Rows' /\ RemovedRows' /\ History' /\ Pace'
  BY <1>3, CapturedTyped DEF Inv, Decide, store, events, Files, Rows, RemovedRows, History, Pace, Emitted
<1>5. NoClaim'
  BY DEF Inv, Decide, store, events, NoClaim
<1> QED
  BY <1>1, <1>2, <1>4, <1>5 DEF Inv

\* The end of an apply clears what it had in hand.
LEMMA ResetsClaimNothing ==
  ASSUME Inv, Resets
  PROVE  \A p \in Paths : <<p, wanted'[p]>> \notin mine
BY AbsentIsNoText DEF Resets, Nowhere, Inv, NoClaim, Known

LEMMA CancelStep ==
  ASSUME Inv, Cancel
  PROVE  Inv' /\ Custody!Manages
<1>1. Custody!Manages
  BY DEF Cancel, store, Custody!Manages
<1>2. UserTextIsKept'
  BY <1>1, ManagedKept
<1>3. Known' = Known /\ Txt' = Txt /\ Caps' = Caps /\ Snap' = Snap
  BY SteadySets DEF Cancel, events
<1>4. captured' \in Caps' /\ wanted' \in [Paths -> Txt]'
  BY ResetsTyped DEF Cancel, events
<1>5. Files' /\ Rows' /\ RemovedRows' /\ History' /\ Pace'
  BY <1>3, <1>4 DEF Inv, Cancel, Resets, store, events, Files, Rows, RemovedRows, History, Pace, Emitted
<1>6. NoClaim'
  BY ResetsClaimNothing DEF Inv, Cancel, store, events, NoClaim
<1> QED
  BY <1>1, <1>2, <1>5, <1>6 DEF Inv

LEMMA PointStep ==
  ASSUME Inv, Point
  PROVE  Inv' /\ Custody!Manages
<1>1. Custody!Manages
  BY DEF Point, store, Custody!Manages
<1>2. UserTextIsKept'
  BY <1>1, ManagedKept
<1>3. Known' = Known /\ Txt' = Txt /\ Caps' = Caps /\ Snap' = Snap
  BY SteadySets DEF Point, events
<1>4. captured' \in Caps' /\ wanted' \in [Paths -> Txt]'
  BY ResetsTyped DEF Point, events
<1>5. Files' /\ Rows' /\ RemovedRows' /\ History' /\ Pace'
  BY <1>3, <1>4 DEF Inv, Point, Resets, store, events, Files, Rows, RemovedRows, History, Pace, Emitted
<1>6. NoClaim'
  BY ResetsClaimNothing DEF Inv, Point, store, events, NoClaim
<1> QED
  BY <1>1, <1>2, <1>5, <1>6 DEF Inv

LEMMA WriteStep ==
  ASSUME Inv, Write
  PROVE  Inv' /\ Custody!Manages
<1>1. Custody!Manages
  BY WritesManage DEF Write
<1>2. UserTextIsKept'
  BY <1>1, ManagedKept
<1>3. Known' = Known /\ Txt' = Txt /\ Caps' = Caps /\ Snap' = Snap
  BY SteadySets DEF Write, events
<1>4. disk' \in [Paths -> Txt] /\ Writes(Paths) \subseteq Emitted(wanted)
  BY DEF Write, Materializes, Writes, Inv, Files
<1>5. Files' /\ Rows' /\ RemovedRows' /\ History' /\ Pace'
  BY <1>3, <1>4 DEF Inv, Write, events, Files, Rows, RemovedRows, History, Pace, Emitted
<1>6. NoClaim'
  BY DEF Inv, Write, events, NoClaim
<1> QED
  BY <1>1, <1>2, <1>5, <1>6 DEF Inv

\* The rows of the files an apply wrote.
LEMMA PersistsTyped ==
  ASSUME Inv, NEW P \in SUBSET written, Persists(P), pc # "idle"
  PROVE  /\ rows' \subseteq Paths \X Profiles \X Known
         /\ \A r \in rows' : <<r[1], r[3]>> \notin mine
<1>1. ASSUME NEW r \in rows'
      PROVE  r \in rows \/ \E p \in Emitted(wanted) : r = <<p, target, wanted[p]>>
  BY <1>1 DEF Persists, RowsWith, Inv, Pace
<1>2. \A p \in Emitted(wanted) : p \in Paths /\ wanted[p] \in Known
  BY DEF Emitted, Inv, Files, Txt
<1>3. target \in Profiles
  BY DEF Inv, Pace
<1>4. \A r \in rows' : r \in Paths \X Profiles \X Known
  BY <1>1, <1>2, <1>3 DEF Inv, Rows
<1>5. ASSUME NEW r \in rows'
      PROVE  <<r[1], r[3]>> \notin mine
  <2>1. CASE r \in rows
    BY <2>1 DEF Inv, NoClaim
  <2>2. ASSUME NEW p \in Emitted(wanted), r = <<p, target, wanted[p]>>
        PROVE  <<r[1], r[3]>> \notin mine
    <3>1. r[1] = p /\ r[3] = wanted[p]
      BY <2>2
    <3> QED
      BY <3>1, <1>2 DEF Inv, NoClaim
  <2> QED
    BY <1>1, <2>1, <2>2
<1> QED
  BY <1>4, <1>5

LEMMA PersistStep ==
  ASSUME Inv, Persist
  PROVE  Inv' /\ Custody!Manages
<1>1. Custody!Manages
  BY DEF Persist, Custody!Manages
<1>2. UserTextIsKept'
  BY <1>1, ManagedKept
<1>3. Known' = Known /\ Txt' = Txt /\ Caps' = Caps /\ Snap' = Snap
  BY SteadySets DEF Persist, events
<1>4. /\ rows' \subseteq Paths \X Profiles \X Known
      /\ \A r \in rows' : <<r[1], r[3]>> \notin mine
  BY PersistsTyped DEF Persist
<1>5. Files' /\ Rows' /\ RemovedRows' /\ History' /\ Pace'
  BY <1>3, <1>4 DEF Inv, Persist, run, events, Files, Rows, RemovedRows, History, Pace, Emitted
<1>6. NoClaim'
  BY <1>4 DEF Inv, Persist, run, events, NoClaim
<1> QED
  BY <1>1, <1>2, <1>5, <1>6 DEF Inv

\* A snapshot is added, files of HarnessTap's go, and rows with them.
LEMMA RemovedTyped ==
  ASSUME Inv, NEW i \in Nat, NEW P
  PROVE  /\ Filed(i, RowsOf(P)) \subseteq Nat \X Paths \X Profiles \X Known
         /\ \A m \in Filed(i, RowsOf(P)) : <<m[2], m[4]>> \notin mine
<1>1. \A r \in RowsOf(P) : r \in rows /\ r \in Paths \X Profiles \X Known
  BY DEF RowsOf, Inv, Rows
<1>2. \A m \in Filed(i, RowsOf(P)) : \E r \in RowsOf(P) : m = <<i, r[1], r[2], r[3]>>
  BY DEF Filed
<1> QED
  BY <1>1, <1>2 DEF Inv, NoClaim

LEMMA WithoutTyped ==
  ASSUME Inv, NEW P
  PROVE  Without(P) \in [Paths -> Txt]
BY DEF Without, Inv, Files, Txt

LEMMA AppendTyped ==
  ASSUME Inv, pc # "idle", NEW files \in SUBSET Paths, NEW P
  PROVE  /\ Append(snaps, WithBackups(NewSnapshot(files), P)) \in Seq(Snap)
         /\ Len(snaps) + 1 \in Nat
<1>1. target \in Profiles
  BY DEF Inv, Pace
<1>2. WithBackups(NewSnapshot(files), P) \in Snap
  BY <1>1, NewSnapshotTyped, BackupsTyped
<1>3. snaps \in Seq(Snap)
  BY DEF Inv, History
<1> QED
  BY <1>2, <1>3

LEMMA RecordStep ==
  ASSUME Inv, Record
  PROVE  Inv' /\ Custody!Manages
<1>3. Known' = Known /\ Txt' = Txt /\ Caps' = Caps /\ Snap' = Snap
  BY SteadySets DEF Record, events
<1>1. CASE NothingToRecord
  <2>0. UNCHANGED <<disk, store, fresh>>
    BY <1>1 DEF Record
  <2>1. Custody!Manages
    BY <2>0 DEF Record, store, Custody!Manages
  <2>2. UserTextIsKept'
    BY <2>1, ManagedKept
  <2>3. Files' /\ Rows' /\ RemovedRows' /\ History' /\ Pace'
    BY <2>0, <1>3 DEF Inv, Record, store, run, events, Files, Rows, RemovedRows, History, Pace, Emitted
  <2>4. NoClaim'
    BY <2>0 DEF Inv, Record, store, run, events, NoClaim
  <2> QED
    BY <2>1, <2>2, <2>3, <2>4 DEF Inv
<1>2. CASE ~NothingToRecord
  <2>0. /\ disk' = Without(Stale)
        /\ backups' = backups \cup OnDisk(Stale)
        /\ snaps' = Append(snaps, WithBackups(NewSnapshot(Emitted(wanted)), Stale))
        /\ removedRows' = removedRows \cup Filed(Len(snaps) + 1, RowsOf(Stale))
        /\ rows' = rows \ RowsOf(Stale)
        /\ UNCHANGED <<lib, active, run, edits, updates, saves, failures, mine, since>>
        /\ pc = "persisted" /\ pc' = "recorded"
    BY <1>2 DEF Record
  <2>1. Custody!Manages
    BY <2>0, RemovalsManage
  <2>2. UserTextIsKept'
    BY <2>1, ManagedKept
  <2>3. /\ Without(Stale) \in [Paths -> Txt]
        /\ snaps' \in Seq(Snap)
        /\ Len(snaps) + 1 \in Nat
    BY <2>0, WithoutTyped, AppendTyped DEF Emitted
  <2>4. /\ Filed(Len(snaps) + 1, RowsOf(Stale)) \subseteq Nat \X Paths \X Profiles \X Known
        /\ \A m \in Filed(Len(snaps) + 1, RowsOf(Stale)) : <<m[2], m[4]>> \notin mine
    BY <2>3, RemovedTyped
  <2>5. Files' /\ Rows' /\ RemovedRows' /\ History' /\ Pace'
    BY <2>0, <2>3, <2>4, <1>3 DEF Inv, run, events, Files, Rows, RemovedRows, History, Pace, Emitted
  <2>6. NoClaim'
    BY <2>0, <2>4 DEF Inv, run, events, NoClaim
  <2> QED
    BY <2>1, <2>2, <2>5, <2>6 DEF Inv
<1> QED
  BY <1>1, <1>2


\* An apply that throws: nothing done, some files written, some rows, or some
\* removals.
FailsTo == Resets /\ UNCHANGED <<lib, active, edits, updates, saves, mine>>

LEMMA FailsTyped ==
  ASSUME Inv, FailsTo, Custody!Manages,
         disk' \in [Paths -> Txt],
         rows' \subseteq Paths \X Profiles \X Known,
         \A r \in rows' : <<r[1], r[3]>> \notin mine,
         removedRows' \subseteq Nat \X Paths \X Profiles \X Known,
         \A m \in removedRows' : <<m[2], m[4]>> \notin mine,
         snaps' \in Seq(Snap)
  PROVE  Inv'
<1>1. UserTextIsKept'
  BY ManagedKept
<1>2. Known' = Known /\ Txt' = Txt /\ Caps' = Caps /\ Snap' = Snap
  BY SteadySets DEF FailsTo
<1>3. captured' \in Caps' /\ wanted' \in [Paths -> Txt]'
  BY ResetsTyped DEF FailsTo
<1>4. \A p \in Paths : <<p, wanted'[p]>> \notin mine
  BY ResetsClaimNothing DEF FailsTo
<1>5. Files' /\ Rows' /\ RemovedRows' /\ History' /\ Pace'
  BY <1>2, <1>3 DEF Inv, FailsTo, Resets, Files, Rows, RemovedRows, History, Pace, Emitted
<1>6. NoClaim'
  BY <1>4 DEF Inv, FailsTo, NoClaim
<1> QED
  BY <1>1, <1>5, <1>6 DEF Inv

LEMMA PartOfRecordTyped ==
  ASSUME Inv, FailsTo, pc = "persisted", PartOfRecord
  PROVE  Inv' /\ Custody!Manages
<1>0. PICK saved \in SUBSET Stale : \E gone \in {saved} \cup {saved \ {p} : p \in saved} :
        /\ disk' = Without(gone)
        /\ backups' = backups \cup OnDisk(saved)
        /\ snaps' = Append(snaps, WithBackups(NewSnapshot({}), saved))
        /\ \/ UNCHANGED <<rows, removedRows>>
           \/ /\ gone = Stale
              /\ removedRows' = removedRows \cup Filed(Len(snaps) + 1, RowsOf(Stale))
              /\ \E P \in SUBSET Stale : rows' = rows \ RowsOf(P)
  BY DEF PartOfRecord
<1>1. PICK gone \in {saved} \cup {saved \ {p} : p \in saved} :
        /\ disk' = Without(gone)
        /\ backups' = backups \cup OnDisk(saved)
        /\ snaps' = Append(snaps, WithBackups(NewSnapshot({}), saved))
        /\ \/ UNCHANGED <<rows, removedRows>>
           \/ /\ gone = Stale
              /\ removedRows' = removedRows \cup Filed(Len(snaps) + 1, RowsOf(Stale))
              /\ \E P \in SUBSET Stale : rows' = rows \ RowsOf(P)
  BY <1>0
<1>2. Custody!Manages
  <2>1. gone \subseteq saved
    BY <1>1
  <2> QED
    BY <1>1, <2>1, RemovalsManage DEF FailsTo
<1>3. disk' \in [Paths -> Txt]
  BY <1>1, WithoutTyped
<1>4. snaps' \in Seq(Snap) /\ Len(snaps) + 1 \in Nat
  BY <1>1, AppendTyped
<1>5. rows' \subseteq rows
  BY <1>1
<1>6. /\ rows' \subseteq Paths \X Profiles \X Known
      /\ \A r \in rows' : <<r[1], r[3]>> \notin mine
  BY <1>5 DEF Inv, Rows, NoClaim
<1>7. /\ Filed(Len(snaps) + 1, RowsOf(Stale)) \subseteq Nat \X Paths \X Profiles \X Known
      /\ \A m \in Filed(Len(snaps) + 1, RowsOf(Stale)) : <<m[2], m[4]>> \notin mine
  BY <1>4, RemovedTyped
<1>8. /\ removedRows' \subseteq Nat \X Paths \X Profiles \X Known
      /\ \A m \in removedRows' : <<m[2], m[4]>> \notin mine
  BY <1>1, <1>7 DEF Inv, RemovedRows, NoClaim
<1> QED
  BY <1>2, <1>3, <1>4, <1>6, <1>8, FailsTyped

LEMMA FailsStep ==
  ASSUME Inv, Fails
  PROVE  Inv' /\ Custody!Manages
<1>1. FailsTo /\ pc # "idle"
  BY DEF Fails, FailsTo
<1>2. CASE UNCHANGED <<disk, store>>
  <2>1. Custody!Manages
    BY <1>1, <1>2 DEF FailsTo, store, Custody!Manages
  <2> QED
    BY <1>1, <1>2, <2>1, FailsTyped DEF Inv, Files, Rows, RemovedRows, History, NoClaim, store
<1>3. ASSUME NEW P \in SUBSET Paths, Materializes(P), UNCHANGED <<rows, snaps, removedRows, backups>>
      PROVE  Inv' /\ Custody!Manages
  <2>1. Custody!Manages
    BY <1>1, <1>3, WritesManage DEF FailsTo
  <2>2. disk' \in [Paths -> Txt]
    BY <1>3 DEF Materializes, Writes, Inv, Files
  <2> QED
    BY <1>1, <1>3, <2>1, <2>2, FailsTyped DEF Inv, Rows, RemovedRows, History, NoClaim
<1>4. ASSUME NEW P \in SUBSET written, Persists(P), UNCHANGED <<disk, preexisting, snaps, removedRows, backups>>
      PROVE  Inv' /\ Custody!Manages
  <2>1. Custody!Manages
    BY <1>1, <1>4 DEF FailsTo, Custody!Manages
  <2>2. /\ rows' \subseteq Paths \X Profiles \X Known
        /\ \A r \in rows' : <<r[1], r[3]>> \notin mine
    BY <1>1, <1>4, PersistsTyped
  <2> QED
    BY <1>1, <1>4, <2>1, <2>2, FailsTyped DEF Inv, Files, RemovedRows, History, NoClaim
<1>5. CASE pc = "persisted" /\ PartOfRecord
  BY <1>1, <1>5, PartOfRecordTyped
<1> QED
  BY <1>2, <1>3, <1>4, <1>5 DEF Fails

\* A revert writes what was captured, and every row it puts back was saved.
LEMMA RevertsTyped ==
  ASSUME Inv, NEW i \in DOMAIN snaps, NEW put \in SUBSET DOMAIN snaps[i].captured, NEW gone,
         Reverts(i, put, gone)
  PROVE  disk' \in [Paths -> Txt] /\ snaps' \in Seq(Snap)
<1>1. disk' \in [Paths -> Txt]
  BY BackIsText DEF Reverts, Inv, Files, Txt
<1>2. WithBackups(snaps[i], Present(put) \cup gone) \in Snap
  <2>1. snaps[i] \in Snap
    BY DEF Inv, History
  <2> QED
    BY <2>1, BackupsTyped
<1>3. snaps \in Seq(Snap)
  BY DEF Inv, History
<1> QED
  BY <1>1, <1>2, <1>3 DEF Reverts

\* The rows after it: some of those there were, and rows saved by a removal.
LEMMA RevertedRowsTyped ==
  ASSUME Inv, NEW i \in DOMAIN snaps, NEW new \in SUBSET RowsRestored(i), NEW P,
         rows' = RowsWith(new) \ RowsOf(P)
  PROVE  \A r \in rows' : r \in Paths \X Profiles \X Known /\ <<r[1], r[3]>> \notin mine
<1> SUFFICES ASSUME NEW r \in rows'
             PROVE  r \in Paths \X Profiles \X Known /\ <<r[1], r[3]>> \notin mine
  OBVIOUS
<1>1. CASE r \in rows
  BY <1>1 DEF Inv, Rows, NoClaim
<1>2. CASE r \in RowsRestored(i)
  <2>1. PICK m \in removedRows : r = <<m[2], m[3], m[4]>>
    BY <1>2 DEF RowsRestored
  <2>2. m \in Nat \X Paths \X Profiles \X Known /\ <<m[2], m[4]>> \notin mine
    BY DEF Inv, RemovedRows, NoClaim
  <2> QED
    BY <2>1, <2>2
<1> QED
  BY <1>1, <1>2 DEF RowsWith

LEMMA RevertedRemovedTyped ==
  ASSUME Inv, NEW i \in DOMAIN snaps, NEW P,
         removedRows' = removedRows \cup Filed(i, RowsOf(P))
  PROVE  /\ removedRows' \subseteq Nat \X Paths \X Profiles \X Known
         /\ \A m \in removedRows' : <<m[2], m[4]>> \notin mine
<1>1. i \in Nat
  BY DEF Inv, History
<1> QED
  BY <1>1, RemovedTyped DEF Inv, RemovedRows, NoClaim

\* What Revert and RevertFails have in common.
LEMMA RevertingStep ==
  ASSUME Inv, NEW i \in DOMAIN snaps, NEW put \in SUBSET Putback(i), NEW gone,
         Reverts(i, put, gone),
         UNCHANGED <<lib, preexisting, active, pc, run, edits, updates, saves, mine>>,
         \A r \in rows' : r \in Paths \X Profiles \X Known /\ <<r[1], r[3]>> \notin mine,
         removedRows' \subseteq Nat \X Paths \X Profiles \X Known,
         \A m \in removedRows' : <<m[2], m[4]>> \notin mine
  PROVE  Inv' /\ Custody!Manages
<1>1. Custody!Manages
  BY RevertsManage
<1>2. UserTextIsKept'
  BY <1>1, ManagedKept
<1>3. Known' = Known /\ Txt' = Txt /\ Caps' = Caps /\ Snap' = Snap
  BY SteadySets
<1>4. disk' \in [Paths -> Txt] /\ snaps' \in Seq(Snap)
  <2>1. put \in SUBSET DOMAIN snaps[i].captured
    BY DEF Putback, Restorable
  <2> QED
    BY <2>1, RevertsTyped
<1>5. Rows' /\ RemovedRows'
  BY <1>3 DEF Rows, RemovedRows
<1>6. Files' /\ History' /\ Pace'
  BY <1>3, <1>4 DEF Inv, run, Files, History, Pace, Emitted
<1>7. NoClaim'
  BY DEF Inv, run, NoClaim
<1> QED
  BY <1>1, <1>2, <1>5, <1>6, <1>7 DEF Inv

LEMMA RevertStep ==
  ASSUME Inv, NEW i \in DOMAIN snaps, Revert(i)
  PROVE  Inv' /\ Custody!Manages
<1>1. PICK forced \in BOOLEAN :
        /\ Reverts(i, Putback(i), TakenAway(i, forced))
        /\ removedRows' = removedRows \cup Filed(i, RowsOf(TakenAway(i, forced)))
        /\ rows' = RowsWith(RowsRestored(i)) \ RowsOf(TakenAway(i, forced))
  BY DEF Revert
<1>2. UNCHANGED <<lib, preexisting, active, pc, run, edits, updates, saves, mine>>
  BY DEF Revert, events
<1>3. \A r \in rows' : r \in Paths \X Profiles \X Known /\ <<r[1], r[3]>> \notin mine
  BY <1>1, RevertedRowsTyped
<1>4. /\ removedRows' \subseteq Nat \X Paths \X Profiles \X Known
      /\ \A m \in removedRows' : <<m[2], m[4]>> \notin mine
  BY <1>1, RevertedRemovedTyped
<1> QED
  BY <1>1, <1>2, <1>3, <1>4, RevertingStep

LEMMA RevertFailsStep ==
  ASSUME Inv, NEW i \in DOMAIN snaps, RevertFails(i)
  PROVE  Inv' /\ Custody!Manages
<1>1. UNCHANGED <<lib, preexisting, active, pc, run, edits, updates, saves, mine>>
  BY DEF RevertFails
<1>2. ASSUME NEW put \in SUBSET Putback(i), NEW gone, Reverts(i, put, gone), UNCHANGED <<rows, removedRows>>
      PROVE  Inv' /\ Custody!Manages
  <2>1. \A r \in rows' : r \in Paths \X Profiles \X Known /\ <<r[1], r[3]>> \notin mine
    BY <1>2 DEF Inv, Rows, NoClaim
  <2>2. /\ removedRows' \subseteq Nat \X Paths \X Profiles \X Known
        /\ \A m \in removedRows' : <<m[2], m[4]>> \notin mine
    BY <1>2 DEF Inv, RemovedRows, NoClaim
  <2> QED
    BY <1>1, <1>2, <2>1, <2>2, RevertingStep
<1>3. ASSUME NEW gone, Reverts(i, Putback(i), gone), removedRows' = removedRows \cup Filed(i, RowsOf(gone)),
             NEW new \in SUBSET RowsRestored(i), NEW P, rows' = RowsWith(new) \ RowsOf(P)
      PROVE  Inv' /\ Custody!Manages
  <2>1. \A r \in rows' : r \in Paths \X Profiles \X Known /\ <<r[1], r[3]>> \notin mine
    BY <1>3, RevertedRowsTyped
  <2>2. /\ removedRows' \subseteq Nat \X Paths \X Profiles \X Known
        /\ \A m \in removedRows' : <<m[2], m[4]>> \notin mine
    BY <1>3, RevertedRemovedTyped
  <2> QED
    BY <1>1, <1>3, <2>1, <2>2, RevertingStep
<1>4. rows = RowsWith({}) /\ {} \in SUBSET RowsRestored(i)
  BY DEF RowsWith
<1>5. PICK forced \in BOOLEAN :
        \/ /\ \/ \E put \in SUBSET Putback(i) : Reverts(i, put, {})
              \/ \E some \in SUBSET TakenAway(i, forced) : Reverts(i, Putback(i), some)
           /\ UNCHANGED <<rows, removedRows>>
        \/ /\ Reverts(i, Putback(i), TakenAway(i, forced))
           /\ removedRows' = removedRows \cup Filed(i, RowsOf(TakenAway(i, forced)))
           /\ \/ \E P \in SUBSET TakenAway(i, forced) : rows' = rows \ RowsOf(P)
              \/ \E new \in SUBSET RowsRestored(i) : rows' = RowsWith(new) \ RowsOf(TakenAway(i, forced))
  BY DEF RevertFails
<1>6. Putback(i) \in SUBSET Putback(i)
  OBVIOUS
<1>7. CASE UNCHANGED <<rows, removedRows>>
           /\ (\/ \E put \in SUBSET Putback(i) : Reverts(i, put, {})
               \/ \E some \in SUBSET TakenAway(i, forced) : Reverts(i, Putback(i), some))
  BY <1>2, <1>6, <1>7
<1>8. CASE /\ Reverts(i, Putback(i), TakenAway(i, forced))
           /\ removedRows' = removedRows \cup Filed(i, RowsOf(TakenAway(i, forced)))
           /\ \/ \E P \in SUBSET TakenAway(i, forced) : rows' = rows \ RowsOf(P)
              \/ \E new \in SUBSET RowsRestored(i) : rows' = RowsWith(new) \ RowsOf(TakenAway(i, forced))
  <2>1. CASE \E P \in SUBSET TakenAway(i, forced) : rows' = rows \ RowsOf(P)
    BY <1>3, <1>4, <1>8, <2>1
  <2>2. CASE \E new \in SUBSET RowsRestored(i) : rows' = RowsWith(new) \ RowsOf(TakenAway(i, forced))
    BY <1>3, <1>8, <2>2
  <2> QED
    BY <1>8, <2>1, <2>2
<1> QED
  BY <1>5, <1>7, <1>8

\* The user writes a text that occurs nowhere yet.
LEMMA EditStep ==
  ASSUME Inv, NEW p \in Paths, Edit(p)
  PROVE  Inv' /\ Custody!UserWrites(p)
<1>1. PICK x \in {<<User, edits + 1>>, Absent} :
        /\ disk' = [disk EXCEPT ![p] = x]
        /\ mine' = (mine \ OnDisk({p})) \cup ({<<p, x>>} \ {<<p, Absent>>})
  BY DEF Edit
<1>2. /\ edits < MaxEdits /\ edits' = edits + 1
      /\ UNCHANGED <<lib, store, active, pc, run, updates, saves, failures, listed>>
  BY DEF Edit
<1>3. edits \in Nat /\ edits' \in Nat /\ edits' <= MaxEdits /\ 0..edits \subseteq 0..edits' /\ edits' \notin 0..edits
  BY <1>2, HomeBoundsAssumption DEF Inv, Pace
<1>4. Known \subseteq Known' /\ <<User, edits + 1>> \in Known'
  BY <1>2, <1>3 DEF Known
<1>5. x \in Txt' /\ Txt \subseteq Txt'
  BY <1>4 DEF Txt
<1>6. Caps \subseteq Caps'
  BY <1>5 DEF Caps
<1>7. Snap \subseteq Snap'
  BY <1>5, <1>6 DEF Snap
<1>8. Files'
  BY <1>1, <1>2, <1>5 DEF Inv, Files, run
<1>9. Rows' /\ RemovedRows'
  BY <1>2, <1>4 DEF Inv, Rows, RemovedRows, store
<1>10. History'
  BY <1>2, <1>6, <1>7 DEF Inv, History, store, run
<1>11. Pace'
  BY <1>2, <1>3 DEF Inv, Pace, run, Emitted
<1>12. mine \subseteq Paths \X ({User} \X (0..edits))
  BY DEF Inv, NoClaim
<1>13. \A y \in Txt : <<p, y>> \in mine' => <<p, y>> \in mine
  <2>1. <<User, edits + 1>> \notin Known
    BY <1>2, <1>3, AuthorsAssumption DEF Known
  <2> QED
    BY <1>1, <2>1 DEF Txt
<1>14. \A a \in Paths, y \in Txt : <<a, y>> \in mine' => <<a, y>> \in mine
  BY <1>1, <1>13
<1>15. NoClaim'
  <2>1. mine' \subseteq Paths \X ({User} \X (0..edits'))
    BY <1>1, <1>2, <1>3, <1>12
  <2>2. \A r \in rows : <<r[1], r[3]>> \notin mine'
    BY <1>14 DEF Inv, NoClaim, Rows, Txt
  <2>3. \A m \in removedRows : <<m[2], m[4]>> \notin mine'
    BY <1>14 DEF Inv, NoClaim, RemovedRows, Txt
  <2>4. \A a \in Paths : <<a, wanted[a]>> \notin mine'
    BY <1>14 DEF Inv, NoClaim, Files
  <2>5. \A q \in Profiles, a \in Paths : <<a, lib[q][a]>> \notin mine'
    BY <1>14 DEF Inv, NoClaim, Files
  <2> QED
    BY <2>1, <2>2, <2>3, <2>4, <2>5, <1>2 DEF NoClaim, store, run
<1>16. UserTextIsKept'
  <2> SUFFICES ASSUME NEW m \in mine'
               PROVE  m \in OnDisk(Paths)' \cup backups'
    BY DEF UserTextIsKept
  <2>1. CASE m = <<p, x>> /\ x # Absent
    BY <1>1, <2>1 DEF OnDisk, Present, Inv, Files
  <2>2. CASE m \in mine \ OnDisk({p})
    <3>1. CASE m \in backups
      BY <3>1, <1>2 DEF store
    <3>2. CASE m \in OnDisk(Paths)
      <4>1. PICK a \in Paths : disk[a] # Absent /\ m = <<a, disk[a]>>
        BY <3>2 DEF OnDisk, Present
      <4>2. a # p
        BY <2>2, <4>1 DEF OnDisk, Present
      <4> QED
        BY <1>1, <4>1, <4>2 DEF OnDisk, Present, Inv, Files
    <3> QED
      BY <2>2, <3>1, <3>2 DEF Inv, UserTextIsKept
  <2> QED
    BY <1>1, <2>1, <2>2
<1>17. Custody!UserWrites(p)
  <2>1. x \in Texts \cup {Absent}
    BY <1>1, <1>2, <1>3, HomeBoundsAssumption DEF Texts, UserTexts
  <2>2. OnDisk({p}) = Custody!OnDisk(p)
    BY DEF OnDisk, Present, Custody!OnDisk
  <2>3. disk'[p] = x
    BY <1>1 DEF Inv, Files
  <2> QED
    BY <1>1, <1>2, <2>1, <2>2, <2>3 DEF Custody!UserWrites, Custody!OnDisk, store
<1> QED
  BY <1>8, <1>9, <1>10, <1>11, <1>15, <1>16, <1>17 DEF Inv

LEMMA UpdateStep ==
  ASSUME Inv, NEW q \in Profiles, NEW p \in Paths, Update(q, p)
  PROVE  Inv' /\ Custody!Manages
<1>1. PICK x \in {<<q, updates + 1>>, Absent} : lib' = [lib EXCEPT ![q][p] = x]
  BY DEF Update
<1>2. /\ updates < MaxUpdates /\ updates' = updates + 1
      /\ UNCHANGED <<disk, store, active, pc, run, edits, saves, failures, listed, mine, fresh, since>>
  BY DEF Update
<1>3. Custody!Manages
  BY <1>2 DEF store, Custody!Manages
<1>4. UserTextIsKept'
  BY <1>3, ManagedKept
<1>5. Known' = Known /\ Txt' = Txt /\ Caps' = Caps /\ Snap' = Snap
  BY <1>2, SteadySets
<1>6. x \in Txt /\ updates \in Nat
  BY <1>2, HomeBoundsAssumption DEF Inv, Pace, Txt, Known
<1>7. Files' /\ Rows' /\ RemovedRows' /\ History' /\ Pace'
  <2>1. Files'
    BY <1>1, <1>2, <1>5, <1>6 DEF Inv, run, Files
  <2> QED
    BY <2>1, <1>2, <1>5, <1>6 DEF Inv, store, run, Rows, RemovedRows, History, Pace, Emitted
<1>8. <<p, x>> \notin mine
  BY AbsentIsNoText, AuthorsAssumption, <1>6 DEF Inv, NoClaim, Known
<1>9. NoClaim'
  BY <1>1, <1>2, <1>8 DEF Inv, store, run, NoClaim, Files
<1> QED
  BY <1>3, <1>4, <1>7, <1>9 DEF Inv

\* What the user hands over is no longer counted on.
LEMMA SaveStep ==
  ASSUME Inv, NEW q \in Profiles, NEW p \in Paths, Save(q, p)
  PROVE  Inv' /\ Custody!HandsOver(p)
<1>1. /\ disk[p] # Absent
      /\ lib' = [lib EXCEPT ![q][p] = disk[p]]
      /\ mine' = mine \ OnDisk({p})
      /\ UNCHANGED <<disk, store, active, pc, run, edits, updates, failures, listed, fresh, since>>
  BY DEF Save
<1>2. Known' = Known /\ Txt' = Txt /\ Caps' = Caps /\ Snap' = Snap
  BY <1>1, SteadySets
<1>3. Files'
  BY <1>1, <1>2 DEF Inv, run, Files
<1>4. Rows' /\ RemovedRows' /\ History' /\ Pace'
  BY <1>1, <1>2 DEF Inv, store, run, Rows, RemovedRows, History, Pace, Emitted
<1>5. <<p, disk[p]>> \notin mine'
  BY <1>1 DEF OnDisk, Present
<1>6. NoClaim'
  BY <1>1, <1>5 DEF Inv, store, run, NoClaim, Files
<1>7. UserTextIsKept'
  BY <1>1 DEF Inv, store, UserTextIsKept, OnDisk, Present
<1>8. OnDisk({p}) = Custody!OnDisk(p)
  BY DEF OnDisk, Present, Custody!OnDisk
<1> QED
  BY <1>1, <1>3, <1>4, <1>6, <1>7, <1>8 DEF Inv, Custody!HandsOver, store

LEMMA StutterStep ==
  ASSUME Inv, UNCHANGED vars
  PROVE  Inv'
<1>1. Known' = Known /\ Txt' = Txt /\ Caps' = Caps /\ Snap' = Snap
  BY SteadySets DEF vars, events
<1>2. Files' /\ Rows' /\ RemovedRows' /\ History' /\ Pace'
  BY <1>1 DEF Inv, vars, store, run, events, Files, Rows, RemovedRows, History, Pace, Emitted
<1>3. NoClaim' /\ UserTextIsKept'
  BY DEF Inv, vars, store, run, events, NoClaim, UserTextIsKept, OnDisk, Present
<1> QED
  BY <1>2, <1>3 DEF Inv

LEMMA Step ==
  ASSUME Inv, [Next]_vars
  PROVE  Inv' /\ [Custody!Acts]_(Custody!custodyVars)
<1>1. CASE Apply
  BY <1>1, TrackStep, DecideStep, CancelStep, WriteStep, PersistStep, RecordStep, PointStep, FailsStep
     DEF Apply, Custody!Acts
<1>2. CASE \E q \in Profiles : Begin(q)
  BY <1>2, BeginStep DEF Custody!Acts
<1>3. CASE \E i \in DOMAIN snaps : Revert(i) \/ RevertFails(i)
  BY <1>3, RevertStep, RevertFailsStep DEF Custody!Acts
<1>4. CASE \E p \in Paths : Edit(p)
  BY <1>4, EditStep DEF Custody!Acts
<1>5. CASE \E p \in Paths, q \in Profiles : Update(q, p)
  BY <1>5, UpdateStep DEF Custody!Acts
<1>6. CASE \E p \in Paths, q \in Profiles : Save(q, p)
  BY <1>6, SaveStep DEF Custody!Acts
<1>7. CASE UNCHANGED vars
  BY <1>7, StutterStep DEF vars, store, Custody!custodyVars
<1> QED
  BY <1>1, <1>2, <1>3, <1>4, <1>5, <1>6, <1>7 DEF Next

LEMMA InvAlways == Spec => []Inv
<1>1. Init => Inv
  BY Initially
<1>2. Inv /\ [Next]_vars => Inv'
  BY Step
<1> QED
  BY <1>1, <1>2, PTL DEF Spec

-----------------------------------------------------------------------------
\* A text the user left at a path is there or in a removal backup, whatever
\* the applies, reverts, saves and failures in between (materializeFiles,
\* executeSafeFileRemovals, executeRevert).
THEOREM UserTextIsKeptAlways == Spec => []UserTextIsKept
<1>1. Inv => UserTextIsKept
  BY DEF Inv
<1> QED
  BY <1>1, InvAlways, PTL

\* The home implements FileCustody: no step of the program takes a text of the
\* user's away from its path without a backup.
THEOREM HomeKeepsCustody == Spec => KeepsCustody
<1>1. Init => Custody!Start
  BY Initially
<1>2. Inv /\ [Next]_vars => [Custody!Acts]_(Custody!custodyVars)
  BY Step
<1> QED
  BY <1>1, <1>2, InvAlways, PTL DEF Spec, KeepsCustody, Custody!Promise

-----------------------------------------------------------------------------
(* What a revert undoes *)

\* What an apply in flight has captured and written, if nothing happened since.
CapturedNow ==
  pc \in {"decided", "written", "persisted"} /\ since = "nothing" =>
    /\ DOMAIN captured = Emitted(wanted) \cup tracked
    /\ \A p \in DOMAIN captured \ Emitted(wanted) : captured[p] \in {InTrash, Absent}
    /\ \A p \in Emitted(wanted) : captured[p] # InTrash
    /\ \A p \in DOMAIN captured \ written : captured[p] # InTrash => disk[p] = captured[p]
    /\ \A p \in written : p \in Emitted(wanted) /\ disk[p] = wanted[p]
    /\ pc = "persisted" => \A p \in written : Owned(p)

\* What stands at p is as it was, or HarnessTap's, or the first backup has it; a
\* hub's copy of a skill that is not listed may have gone to a backup.
UndoableAt(s, p) ==
  /\ p \notin DOMAIN s.captured =>
       disk[p] = s.before[p] \/ (p \in Hubs /\ <<p, s.before[p]>> \in backups)
  /\ p \in DOMAIN s.captured =>
       /\ s.captured[p] # InTrash => s.before[p] = s.captured[p] /\ (disk[p] = s.captured[p] \/ Owned(p))
       /\ s.captured[p] = InTrash =>
            \/ disk[p] = s.before[p] /\ s.first[p] = Absent
            \/ disk[p] = Absent /\ s.first[p] = s.before[p]
Undoable(i) == \A p \in Paths \ preexisting : UndoableAt(snaps[i], p)

FreshIsUndoable ==
  fresh # 0 => /\ fresh \in DOMAIN snaps /\ Undoable(fresh)
               /\ pc \in {"written", "persisted"} => written = {}

NotYetWritten == pc \in {"resolved", "tracked", "decided"} => written = {}

UndoInv == CapturedNow /\ FreshIsUndoable /\ NotYetWritten

LEMMA RevertIsUndo ==
  ASSUME Inv, NEW i \in DOMAIN snaps, Undoable(i), Revert(i), NEW p \in Paths \ preexisting
  PROVE  \/ disk'[p] = snaps[i].before[p]
         \/ /\ p \in Hubs \ DOMAIN snaps[i].captured
            /\ <<p, snaps[i].before[p]>> \in backups
<1>1. PICK forced \in BOOLEAN : Reverts(i, Putback(i), TakenAway(i, forced))
  BY DEF Revert
<1>2. disk'[p] = IF p \in Putback(i) THEN Back(i, p)
                 ELSE IF p \in TakenAway(i, forced) THEN Absent ELSE disk[p]
  BY <1>1 DEF Reverts
<1>3. UndoableAt(snaps[i], p)
  BY DEF Undoable
<1>4. p \in TakenAway(i, forced) => p \in DOMAIN snaps[i].captured /\ snaps[i].captured[p] = Absent
  BY DEF TakenAway, Removable, Present
<1>5. CASE p \notin DOMAIN snaps[i].captured
  BY <1>2, <1>3, <1>4, <1>5 DEF UndoableAt, Putback, Restorable
<1>6. CASE p \in DOMAIN snaps[i].captured /\ snaps[i].captured[p] = InTrash
  <2>1. Back(i, p) = snaps[i].first[p] /\ p \notin TakenAway(i, forced)
    BY <1>4, <1>6, MarksAssumption DEF Back
  <2>2. CASE disk[p] = snaps[i].before[p] /\ snaps[i].first[p] = Absent
    BY <1>2, <2>1, <2>2 DEF Putback, Restorable
  <2>3. CASE disk[p] = Absent /\ snaps[i].first[p] = snaps[i].before[p]
    BY <1>2, <1>6, <2>1, <2>3 DEF Putback, Restorable
  <2> QED
    BY <1>3, <1>6, <2>2, <2>3 DEF UndoableAt
<1>7. CASE p \in DOMAIN snaps[i].captured /\ snaps[i].captured[p] = Absent
  <2>1. Back(i, p) = Absent /\ p \notin Putback(i)
    BY <1>7, MarksAssumption DEF Back, Putback, Restorable
  <2>2. snaps[i].before[p] = Absent /\ (disk[p] = Absent \/ Owned(p))
    BY <1>3, <1>7, MarksAssumption DEF UndoableAt
  <2>3. disk[p] # Absent => p \in TakenAway(i, forced)
    BY <1>7, <2>2 DEF TakenAway, Removable, Present
  <2> QED
    BY <1>2, <2>1, <2>2, <2>3
<1>8. CASE p \in DOMAIN snaps[i].captured /\ snaps[i].captured[p] \notin {InTrash, Absent}
  <2>1. Back(i, p) = snaps[i].captured[p] /\ p \in Restorable(i) /\ p \notin TakenAway(i, forced)
    BY <1>4, <1>8 DEF Back, Restorable
  <2>2. snaps[i].before[p] = snaps[i].captured[p] /\ (disk[p] = snaps[i].captured[p] \/ Owned(p))
    BY <1>3, <1>8 DEF UndoableAt
  <2>3. disk[p] # snaps[i].captured[p] => p \in Putback(i)
    BY <2>1, <2>2 DEF Putback
  <2> QED
    BY <1>2, <2>1, <2>2, <2>3
<1> QED
  BY <1>5, <1>6, <1>7, <1>8

\* Nothing a revert would look at changes.
LEMMA StaysUndoable ==
  ASSUME UndoInv, UNCHANGED <<disk, rows, snaps, fresh>>,
         preexisting \subseteq preexisting', backups' = backups,
         pc' \in {"written", "persisted"} /\ fresh # 0 => written' = {}
  PROVE  FreshIsUndoable'
BY DEF UndoInv, FreshIsUndoable, Undoable, UndoableAt, Owned

LEMMA DecideUndo ==
  ASSUME Inv, UndoInv, Decide
  PROVE  UndoInv'
<1>1. captured' = Captured /\ wanted' = wanted /\ tracked' = tracked /\ disk' = disk
      /\ written' = written /\ written = {} /\ pc' = "decided"
  BY DEF Decide, UndoInv, NotYetWritten
<1>2. disk \in [Paths -> Txt] /\ Emitted(wanted) \subseteq Paths
  BY DEF Inv, Files, Emitted
<1>3. \A p \in Paths : disk[p] # InTrash
  BY <1>2, AbsentIsNoText, MarksAssumption DEF Txt
<1>4. CapturedNow'
  BY <1>1, <1>2, <1>3 DEF CapturedNow, Captured, Emitted
<1>5. FreshIsUndoable'
  BY <1>1, StaysUndoable DEF Decide, store
<1> QED
  BY <1>1, <1>4, <1>5 DEF UndoInv, NotYetWritten

LEMMA WriteUndo ==
  ASSUME Inv, UndoInv, Write
  PROVE  UndoInv'
<1>1. /\ UNCHANGED <<wanted, tracked, captured, since, rows, snaps, backups>>
      /\ written' = Writes(Paths) /\ pc = "decided" /\ pc' = "written" /\ written = {}
      /\ disk' = [p \in Paths |-> IF p \in Writes(Paths) THEN wanted[p] ELSE disk[p]]
      /\ preexisting \subseteq preexisting'
  BY DEF Write, Materializes, UndoInv, NotYetWritten
<1>2. Writes(Paths) \subseteq Emitted(wanted) /\ tracked \subseteq Paths /\ Emitted(wanted) \subseteq Paths
  BY DEF Writes, Emitted, Inv, Pace
<1>3. CapturedNow'
  BY <1>1, <1>2 DEF UndoInv, CapturedNow, Emitted
<1>4. FreshIsUndoable'
  <2>1. CASE Writes(Paths) = {}
    <3>1. disk' = disk /\ fresh' = fresh
      BY <1>1, <2>1 DEF Write, Inv, Files
    <3> QED
      BY <1>1, <2>1, <3>1, StaysUndoable
  <2>2. CASE Writes(Paths) # {}
    BY <2>2 DEF Write, FreshIsUndoable
  <2> QED
    BY <2>1, <2>2
<1> QED
  BY <1>1, <1>3, <1>4 DEF UndoInv, NotYetWritten

LEMMA PersistUndo ==
  ASSUME Inv, UndoInv, Persist
  PROVE  UndoInv'
<1>1. /\ UNCHANGED <<disk, wanted, tracked, captured, written, since, snaps, preexisting,
                      backups, fresh>>
      /\ pc = "written" /\ pc' = "persisted"
      /\ rows' = RowsWith({<<p, target, wanted[p]>> : p \in written})
  BY DEF Persist, Persists, run
<1>2. CapturedNow'
  <2> SUFFICES ASSUME since = "nothing", NEW p \in written PROVE Owned(p)'
    BY <1>1 DEF UndoInv, CapturedNow, Emitted
  <2>1. disk[p] = wanted[p]
    BY <1>1 DEF UndoInv, CapturedNow
  <2>2. <<p, target, wanted[p]>> \in rows'
    BY <1>1 DEF RowsWith
  <2> QED
    BY <1>1, <2>1, <2>2 DEF Owned
<1>3. FreshIsUndoable'
  <2>1. CASE fresh = 0
    BY <1>1, <2>1 DEF FreshIsUndoable
  <2>2. CASE fresh # 0
    <3>1. written = {}
      BY <1>1, <2>2 DEF UndoInv, FreshIsUndoable
    <3>2. rows' = rows
      BY <1>1, <3>1 DEF RowsWith
    <3> QED
      BY <1>1, <3>1, <3>2, StaysUndoable
  <2> QED
    BY <2>1, <2>2
<1> QED
  BY <1>1, <1>2, <1>3 DEF UndoInv, NotYetWritten

\* What an apply removes it does not want; and it tracked it, or it is a copy in
\* the hub.
LEMMA StaleLeaves ==
  ASSUME Inv
  PROVE  \A p \in Stale : p \in Paths \ Emitted(wanted) /\ p \in tracked \cup Hubs
<1>0. tracked \subseteq Paths
  BY DEF Inv, Pace
<1> SUFFICES ASSUME NEW p \in StaleFiles
             PROVE  p \in Paths \ Emitted(wanted) /\ p \in tracked \cup Hubs
  BY DEF Stale, Removable, Present
<1>1. CASE p \in tracked \ Emitted(wanted)
  BY <1>0, <1>1
<1>2. CASE p \in Mirrors(tracked \ Emitted(wanted))
  <2>1. PICK q \in tracked \ Emitted(wanted) :
          p = Hub[q] /\ \A r \in Emitted(wanted) : Hub[r] # Hub[q]
    BY <1>2 DEF Mirrors
  <2> QED
    BY <1>0, <2>1, HubAssumption DEF Hubs
<1> QED
  BY <1>1, <1>2 DEF StaleFiles

\* The snapshot an apply records, with nothing since it captured the home, says
\* how to undo it.
LEMMA RecordUndo ==
  ASSUME Inv, UndoInv, Record
  PROVE  UndoInv'
<1>1. pc = "persisted" /\ pc' = "recorded"
  BY DEF Record
<1>2. CapturedNow' /\ NotYetWritten'
  BY <1>1 DEF CapturedNow, NotYetWritten
<1>3. CASE UNCHANGED <<disk, store, fresh>>
  BY <1>1, <1>2, <1>3, StaysUndoable DEF UndoInv, store
<1>4. CASE ~UNCHANGED <<disk, store, fresh>>
  <2> DEFINE n == Len(snaps) + 1
  <2>0. PICK s : s = WithBackups(NewSnapshot(Emitted(wanted)), Stale)
    OBVIOUS
  <2>1. /\ disk' = Without(Stale) /\ rows' = rows \ RowsOf(Stale) /\ preexisting' = preexisting
        /\ snaps' = Append(snaps, s)
        /\ fresh' = IF since = "nothing" THEN n ELSE 0
        /\ backups' = backups \cup OnDisk(Stale)
    BY <1>4, <2>0 DEF Record
  <2>2. CASE since # "nothing"
    BY <1>2, <2>1, <2>2 DEF UndoInv, FreshIsUndoable
  <2>3. CASE since = "nothing"
    <3>1. Len(snaps) \in Nat /\ n \in DOMAIN snaps' /\ snaps'[n] = s
      <4>1. snaps \in Seq(Snap) /\ s \in Snap
        <5>1. target \in Profiles /\ Emitted(wanted) \in SUBSET Paths
          BY <1>1 DEF Inv, Pace, Emitted
        <5> QED
          BY <2>0, <5>1, NewSnapshotTyped, BackupsTyped DEF Inv, History
      <4> QED
        BY <2>1, <4>1
    <3>2. /\ s.captured = captured
          /\ \A p \in Paths : s.before[p] = IF p \in DOMAIN captured /\ captured[p] # InTrash
                                              THEN captured[p] ELSE disk[p]
          /\ \A p \in Paths : s.first[p] = IF p \in Stale THEN disk[p] ELSE Absent
      BY <2>0 DEF WithBackups, NewSnapshot, Nowhere
    <3> HIDE DEF n
    <3>3. \A p \in Paths : disk'[p] = IF p \in Stale THEN Absent ELSE disk[p]
      BY <2>1 DEF Without
    <3>4. \A p \in Stale : p \in Paths \ Emitted(wanted) /\ p \in tracked \cup Hubs
      BY StaleLeaves
    <3>5. \A p \in Paths \ Stale : Owned(p) => Owned(p)'
      BY <2>1, <3>3 DEF Owned, RowsOf
    <3>6. ASSUME NEW p \in Paths PROVE UndoableAt(s, p)'
      <4> USE <1>1, <2>3 DEF UndoInv, CapturedNow
      <4>1. CASE p \notin DOMAIN captured
        <5>1. s.before[p] = disk[p]
          BY <3>2, <4>1
        <5>2. p \in Stale => p \in Hubs /\ <<p, disk[p]>> \in backups'
          BY <2>1, <3>4, <4>1 DEF OnDisk, Present, Stale, Removable
        <5> QED
          BY <3>2, <3>3, <4>1, <5>1, <5>2 DEF UndoableAt
      <4>2. CASE p \in DOMAIN captured /\ captured[p] = InTrash
        BY <3>2, <3>3, <4>2 DEF UndoableAt
      <4>3. CASE p \in DOMAIN captured /\ captured[p] # InTrash
        <5>1. p \in written => p \notin Stale /\ Owned(p)
          BY <3>4
        <5>2. p \notin written => disk[p] = captured[p]
          BY <4>3
        <5>3. p \notin Emitted(wanted) => captured[p] = Absent
          BY <4>3
        <5>4. disk'[p] = captured[p] \/ Owned(p)'
          BY <3>3, <3>4, <3>5, <5>1, <5>2, <5>3
        <5> QED
          BY <3>2, <4>3, <5>4 DEF UndoableAt
      <4> QED
        BY <4>1, <4>2, <4>3
    <3> QED
      BY <1>1, <1>2, <2>1, <2>3, <3>1, <3>6 DEF UndoInv, FreshIsUndoable, Undoable, UndoableAt, n
  <2> QED
    BY <2>2, <2>3
<1> QED
  BY <1>3, <1>4

LEMMA UndoStep ==
  ASSUME Inv, UndoInv, [Next]_vars
  PROVE  UndoInv'
<1>1. ASSUME fresh' = 0, NotYetWritten',
             pc' \notin {"decided", "written", "persisted"} \/ since' # "nothing"
      PROVE  UndoInv'
  BY <1>1 DEF UndoInv, FreshIsUndoable, CapturedNow
<1>2. ASSUME NEW q \in Profiles, Begin(q) PROVE UndoInv'
  <2>1. pc' = "resolved" /\ written' = {}
    BY <1>2 DEF Begin, Inv, Pace
  <2> QED
    BY <1>2, <2>1, StaysUndoable DEF Begin, store, UndoInv, CapturedNow, NotYetWritten
<1>3. CASE Track
  BY <1>3, StaysUndoable DEF Track, store, UndoInv, CapturedNow, NotYetWritten
<1>4. CASE Cancel \/ Point
  <2>1. pc' = "idle"
    BY <1>4 DEF Cancel, Point, Resets
  <2> QED
    BY <1>4, <2>1, StaysUndoable DEF Cancel, Point, store, UndoInv, CapturedNow, NotYetWritten
<1>5. CASE Fails
  BY <1>1, <1>5 DEF Fails, Resets, NotYetWritten
<1>6. ASSUME NEW i \in DOMAIN snaps, Revert(i) \/ RevertFails(i) PROVE UndoInv'
  <2>1. NotYetWritten'
    BY <1>6 DEF Revert, RevertFails, run, UndoInv, NotYetWritten
  <2>2. pc' \notin {"decided", "written", "persisted"} \/ since' # "nothing"
    BY <1>6 DEF Revert, RevertFails, Disturbs
  <2>3. fresh' = 0
    BY <1>6 DEF Revert, RevertFails
  <2> QED
    BY <1>1, <2>1, <2>2, <2>3
<1>7. ASSUME NEW p \in Paths, Edit(p) PROVE UndoInv'
  <2>1. NotYetWritten' /\ fresh' = 0
    BY <1>7 DEF Edit, run, UndoInv, NotYetWritten
  <2>2. pc' \notin {"decided", "written", "persisted"} \/ since' # "nothing"
    BY <1>7 DEF Edit, Disturbs
  <2> QED
    BY <1>1, <2>1, <2>2
<1>8. CASE \/ \E p \in Paths, q \in Profiles : Update(q, p) \/ Save(q, p)
           \/ UNCHANGED vars
  <2>1. UNCHANGED <<disk, rows, snaps, preexisting, backups, fresh, since, pc, wanted, tracked,
                    captured, written>>
    BY <1>8 DEF Update, Save, vars, store, run
  <2> QED
    BY <2>1, StaysUndoable DEF UndoInv, CapturedNow, FreshIsUndoable, NotYetWritten, Emitted, Owned
<1> QED
  BY <1>2, <1>3, <1>4, <1>5, <1>6, <1>7, <1>8, DecideUndo, WriteUndo, PersistUndo, RecordUndo
  DEF Next, Apply

\* A revert of the latest apply, with nothing in between, puts back every file as
\* it was before the apply, but for those recorded as present before HarnessTap
\* and the hub's copies of skills, which a backup has:
\* each is as captured, or vouched for by a row, or in the first backup
\* (captureManagedSnapshotState, executeSafeFileRemovals, executeRevert).
THEOREM RevertUndoesApply == Spec => RevertUndoes
<1>1. Init => UndoInv
  BY DEF Init, UndoInv, CapturedNow, FreshIsUndoable, NotYetWritten
<1>2. Inv /\ UndoInv /\ [Next]_vars => UndoInv'
  BY UndoStep
<1>3. Inv /\ UndoInv /\ [Next]_vars =>
        [\A i \in DOMAIN snaps : fresh = i /\ Revert(i) =>
           \A p \in Paths \ preexisting :
             \/ disk'[p] = snaps[i].before[p]
             \/ /\ p \in Hubs \ DOMAIN snaps[i].captured
                /\ <<p, snaps[i].before[p]>> \in backups]_vars
  <2> SUFFICES ASSUME Inv, UndoInv, NEW i \in DOMAIN snaps, fresh = i, Revert(i),
                      NEW p \in Paths \ preexisting
               PROVE  \/ disk'[p] = snaps[i].before[p]
                      \/ /\ p \in Hubs \ DOMAIN snaps[i].captured
                         /\ <<p, snaps[i].before[p]>> \in backups
    OBVIOUS
  <2>1. i # 0
    BY DEF Inv, History
  <2> QED
    BY <2>1, RevertIsUndo DEF UndoInv, FreshIsUndoable
<1> QED
  BY <1>1, <1>2, <1>3, InvAlways, PTL DEF Spec, RevertUndoes

-----------------------------------------------------------------------------
(* Typing: what Inv does not say of the types *)

OneRow(R) == \A r, s \in R : r[1] = s[1] /\ r[2] = s[2] => r = s

Store ==
  /\ OneRow(rows)
  /\ preexisting \subseteq Paths /\ skip \subseteq Paths
  /\ backups \subseteq Paths \X Texts
  /\ \A m \in removedRows : m[1] \in DOMAIN snaps

\* An apply has room for the snapshot it may add.
Room ==
  /\ Len(snaps) <= MaxSnapshots
  /\ pc \in {"resolved", "tracked", "decided", "written", "persisted"} => Len(snaps) < MaxSnapshots

Control ==
  /\ active \in Profiles \cup {NoProfile} /\ force \in BOOLEAN
  /\ pc \in Places /\ (pc = "idle" <=> target = NoProfile)
  /\ updates \in 0..MaxUpdates /\ saves \in 0..MaxSaves /\ failures \in 0..MaxFailures
  /\ listed \in BOOLEAN /\ fresh \in 0..Len(snaps) /\ since \in {"nothing", "something"}

TypeInv == Store /\ Room /\ Control

LEMMA TextsKnown ==
  ASSUME Inv
  PROVE  Known \subseteq Texts /\ Txt \subseteq Texts \cup {Absent} /\ Caps \subseteq Captures
         /\ Snap \subseteq Snapshots
<1>1. Known \subseteq Texts
  BY HomeBoundsAssumption DEF Inv, Pace, Known, Texts, UserTexts
<1>2. Txt \subseteq Texts \cup {Absent}
  BY <1>1 DEF Txt
<1>3. Caps \subseteq Captures
  BY <1>2 DEF Caps, Captures
<1>4. Snap \subseteq Snapshots
  BY <1>2, <1>3 DEF Snap, Snapshots
<1> QED
  BY <1>1, <1>2, <1>3, <1>4

LEMMA TypesFollow == Inv /\ TypeInv => TypeOK
<1> SUFFICES ASSUME Inv, TypeInv PROVE TypeOK
  OBVIOUS
<1>1. /\ disk \in [Paths -> Texts \cup {Absent}] /\ wanted \in [Paths -> Texts \cup {Absent}]
      /\ lib \in [Profiles -> [Paths -> Texts \cup {Absent}]]
  BY TextsKnown DEF Inv, Files
<1>2. rows \subseteq Paths \X Profiles \X Texts
  BY TextsKnown DEF Inv, Rows
<1>3. snaps \in Seq(Snapshots) /\ captured \in Captures
  <2>1. snaps \in Seq(Snap)
    BY DEF Inv, History
  <2>2. snaps \in Seq(Snapshots)
    BY <2>1, TextsKnown, SeqMonotonic
  <2> QED
    BY <2>2, TextsKnown DEF Inv, History
<1>4. removedRows \subseteq (DOMAIN snaps) \X Paths \X Profiles \X Texts
  BY TextsKnown DEF Inv, RemovedRows, TypeInv, Store
<1>5. edits \in 0..MaxEdits /\ mine \subseteq Paths \X UserTexts
  BY HomeBoundsAssumption DEF Inv, Pace, NoClaim, UserTexts
<1>6. target \in Profiles \cup {NoProfile} /\ tracked \subseteq Paths /\ written \subseteq Paths
  BY DEF Inv, Pace, Emitted
<1> QED
  BY <1>1, <1>2, <1>3, <1>4, <1>5, <1>6 DEF TypeOK, TypeInv, Store, Room, Control, OneRow

LEMMA OnDiskTyped ==
  ASSUME Inv, NEW P \in SUBSET Paths
  PROVE  OnDisk(P) \subseteq Paths \X Texts
<1>1. \A p \in Present(P) : p \in Paths /\ disk[p] \in Texts
  BY TextsKnown DEF Present, Inv, Files
<1> QED
  BY <1>1 DEF OnDisk

LEMMA StaleTyped ==
  ASSUME Inv
  PROVE  Stale \in SUBSET Paths
BY StaleLeaves

\* A path and a profile keep one row.
LEMMA RowsStayOne ==
  ASSUME OneRow(rows), NEW new, OneRow(new), NEW R \in SUBSET RowsWith(new)
  PROVE  OneRow(R)
<1> SUFFICES ASSUME NEW r \in R, NEW s \in R, r[1] = s[1], r[2] = s[2]
             PROVE  r = s
  BY DEF OneRow
<1>1. CASE r \in new
  BY <1>1 DEF RowsWith, OneRow
<1>2. CASE r \notin new
  BY <1>2 DEF RowsWith, OneRow
<1> QED
  BY <1>1, <1>2

LEMMA WrittenRowsAreOne == \A P : OneRow({<<p, target, wanted[p]>> : p \in P})
BY DEF OneRow

LEMMA RestoredRowsAreOne == \A i : OneRow(RowsRestored(i))
<1> SUFFICES ASSUME NEW i, NEW r \in RowsRestored(i), NEW s \in RowsRestored(i),
                    r[1] = s[1], r[2] = s[2]
             PROVE  r = s
  BY DEF OneRow
<1>1. PICK m : r = <<m[2], m[3], m[4]>> /\ m[4] = disk'[m[2]]
  BY DEF RowsRestored
<1>2. PICK n : s = <<n[2], n[3], n[4]>> /\ n[4] = disk'[n[2]]
  BY DEF RowsRestored
<1> QED
  BY <1>1, <1>2

\* A snapshot more, or one of them with more first backups.
LEMMA SnapshotMore ==
  ASSUME Inv, NEW x
  PROVE  /\ Len(snaps) \in Nat /\ DOMAIN snaps = 1..Len(snaps)
         /\ Len(Append(snaps, x)) = Len(snaps) + 1
         /\ DOMAIN Append(snaps, x) = 1..(Len(snaps) + 1)
<1>1. snaps \in Seq(Snap)
  BY DEF Inv, History
<1>2. snaps \in Seq(Snap \cup {x})
  BY <1>1, SeqMonotonic
<1> QED
  BY <1>2

LEMMA SnapshotSame ==
  ASSUME Inv, NEW i \in DOMAIN snaps, NEW x
  PROVE  DOMAIN [snaps EXCEPT ![i] = x] = DOMAIN snaps /\ Len([snaps EXCEPT ![i] = x]) = Len(snaps)
<1>1. snaps \in Seq(Snap)
  BY DEF Inv, History
<1>2. snaps \in Seq(Snap \cup {x})
  BY <1>1, SeqMonotonic
<1>3. i \in 1..Len(snaps)
  BY <1>1
<1>4. [snaps EXCEPT ![i] = x] \in Seq(Snap \cup {x}) /\ Len([snaps EXCEPT ![i] = x]) = Len(snaps)
  BY <1>2, <1>3, ExceptSeq
<1> QED
  BY <1>4

LEMMA MaterializesTypes ==
  ASSUME TypeInv, NEW P, Materializes(P)
  PROVE  preexisting' \subseteq Paths
BY DEF Materializes, Found, LeftAlone, Present, Emitted, TypeInv, Store

\* The steps of an apply that leave the snapshots alone.
LEMMA QuietTypes ==
  ASSUME Inv, TypeInv, Track \/ Decide \/ Cancel \/ Write \/ Persist \/ Point
  PROVE  TypeInv'
<1> USE DEF TypeInv, Store, Room, Control, Places
<1>1. CASE Track
  BY <1>1 DEF Track, store, events
<1>2. CASE Decide
  BY <1>2 DEF Decide, store, events, Conflicts, Present, Emitted
<1>3. CASE Cancel \/ Point
  <2>1. target \in Profiles \/ pc = "idle"
    BY DEF Inv, Pace
  <2> QED
    BY <1>3, <2>1 DEF Cancel, Point, Resets, store, events
<1>4. CASE Write
  <2>1. preexisting' \subseteq Paths
    BY <1>4, MaterializesTypes DEF Write
  <2>2. fresh' \in 0..Len(snaps)
    BY <1>4, SnapshotMore DEF Write
  <2> QED
    BY <1>4, <2>1, <2>2 DEF Write, events
<1>5. CASE Persist
  <2>1. rows' = RowsWith({<<p, target, wanted[p]>> : p \in written})
    BY <1>5 DEF Persist, Persists
  <2>2. OneRow(rows')
    BY <2>1, WrittenRowsAreOne, RowsStayOne
  <2> QED
    BY <1>5, <2>2 DEF Persist, run, events
<1> QED
  BY <1>1, <1>2, <1>3, <1>4, <1>5

LEMMA RecordTypes ==
  ASSUME Inv, TypeInv, Record
  PROVE  TypeInv'
<1> USE DEF TypeInv, Store, Room, Control, Places
<1>1. CASE UNCHANGED <<disk, store, fresh>>
  BY <1>1 DEF Record, store, run, events
<1>2. CASE ~UNCHANGED <<disk, store, fresh>>
  <2> DEFINE n == Len(snaps) + 1
  <2>1. /\ backups' = backups \cup OnDisk(Stale) /\ preexisting' = preexisting
        /\ removedRows' = removedRows \cup Filed(n, RowsOf(Stale))
        /\ rows' = rows \ RowsOf(Stale)
        /\ fresh' = IF since = "nothing" THEN n ELSE 0
    BY <1>2 DEF Record
  <2>2. n \in Nat /\ DOMAIN snaps = 1..Len(snaps) /\ Len(snaps') = n /\ DOMAIN snaps' = 1..n
    BY <1>2, SnapshotMore DEF Record
  <2>3. OneRow(rows')
    BY <2>1 DEF OneRow
  <2>4. backups' \subseteq Paths \X Texts
    BY <2>1, StaleTyped, OnDiskTyped
  <2>5. \A m \in removedRows' : m[1] \in DOMAIN snaps'
    BY <2>1, <2>2 DEF Filed
  <2>6. Len(snaps') <= MaxSnapshots /\ fresh' \in 0..Len(snaps')
    BY <2>1, <2>2, HomeBoundsAssumption DEF Record
  <2> QED
    BY <2>1, <2>3, <2>4, <2>5, <2>6 DEF Record, run, events
<1> QED
  BY <1>1, <1>2

LEMMA FailsTypes ==
  ASSUME Inv, TypeInv, Fails
  PROVE  TypeInv'
<1> USE DEF TypeInv
<1>1. Resets /\ fresh' = 0 /\ failures' \in 0..MaxFailures
      /\ UNCHANGED <<active, updates, saves, listed>>
  BY HomeBoundsAssumption DEF Fails, Control
<1>2. Len(snaps) \in Nat
  BY SnapshotMore
<1>3. Store' /\ Len(snaps') \in Nat /\ Len(snaps') <= MaxSnapshots
  <2>1. CASE UNCHANGED <<disk, store>>
    BY <1>1, <1>2, <2>1 DEF Store, Room, Resets, store
  <2>2. ASSUME NEW P, Materializes(P), UNCHANGED <<rows, snaps, removedRows, backups>>
        PROVE  Store' /\ Len(snaps') \in Nat /\ Len(snaps') <= MaxSnapshots
    BY <1>1, <1>2, <2>2, MaterializesTypes DEF Store, Room, Resets
  <2>3. ASSUME NEW P, Persists(P), UNCHANGED <<disk, preexisting, snaps, removedRows, backups>>
        PROVE  Store' /\ Len(snaps') \in Nat /\ Len(snaps') <= MaxSnapshots
    <3>1. OneRow(rows')
      BY <2>3, WrittenRowsAreOne, RowsStayOne DEF Persists, Store
    <3> QED
      BY <1>1, <1>2, <2>3, <3>1 DEF Store, Room, Resets
  <2>4. CASE pc = "persisted" /\ PartOfRecord
    <3>1. PICK saved \in SUBSET Stale :
            /\ backups' = backups \cup OnDisk(saved)
            /\ snaps' = Append(snaps, WithBackups(NewSnapshot({}), saved))
            /\ rows' \subseteq rows
            /\ removedRows' \subseteq removedRows \cup Filed(Len(snaps) + 1, RowsOf(Stale))
      BY <2>4 DEF PartOfRecord
    <3>2. DOMAIN snaps = 1..Len(snaps) /\ Len(snaps') = Len(snaps) + 1
          /\ DOMAIN snaps' = 1..(Len(snaps) + 1)
      BY <3>1, SnapshotMore
    <3>3. OneRow(rows')
      BY <3>1 DEF Store, OneRow
    <3>4. backups' \subseteq Paths \X Texts
      BY <3>1, StaleTyped, OnDiskTyped DEF Store
    <3>5. \A m \in removedRows' : m[1] \in DOMAIN snaps'
      BY <1>2, <3>1, <3>2 DEF Filed, Store
    <3>6. preexisting' \subseteq Paths /\ skip' \subseteq Paths
      BY <1>1, <2>4 DEF PartOfRecord, Store, Resets
    <3> QED
      BY <1>2, <2>4, <3>2, <3>3, <3>4, <3>5, <3>6, HomeBoundsAssumption DEF Store, Room
  <2> QED
    BY <2>1, <2>2, <2>3, <2>4 DEF Fails
<1>4. Room'
  BY <1>1, <1>3 DEF Room, Resets
<1>5. Control'
  <2>1. fresh' \in 0..Len(snaps')
    BY <1>1, <1>3
  <2>2. pc' = "idle" /\ target' = NoProfile /\ force' = FALSE /\ since' = "nothing"
    BY <1>1 DEF Resets
  <2>3. active' \in Profiles \cup {NoProfile} /\ updates' \in 0..MaxUpdates /\ saves' \in 0..MaxSaves
       /\ listed' \in BOOLEAN
    BY <1>1 DEF Control
  <2> QED
    BY <1>1, <2>1, <2>2, <2>3 DEF Control, Places
<1> QED
  BY <1>3, <1>4, <1>5

LEMMA RevertTypes ==
  ASSUME Inv, TypeInv, NEW i \in DOMAIN snaps, Revert(i) \/ RevertFails(i)
  PROVE  TypeInv'
<1> USE DEF TypeInv
<1>1. PICK put \in SUBSET Putback(i), gone \in SUBSET (TakenAway(i, TRUE) \cup TakenAway(i, FALSE)) :
        Reverts(i, put, gone)
  BY DEF Revert, RevertFails
<1>2. put \cup gone \in SUBSET Paths
  <2>1. DOMAIN snaps[i].captured \subseteq Paths
    BY BackIsText
  <2> QED
    BY <2>1 DEF Putback, Restorable, TakenAway, Removable, Present
<1>3. backups' \subseteq Paths \X Texts
  BY <1>1, <1>2, OnDiskTyped DEF Reverts, Store
<1>4. DOMAIN snaps' = DOMAIN snaps /\ Len(snaps') = Len(snaps)
  BY <1>1, SnapshotSame DEF Reverts
<1>5. OneRow(rows')
  <2>1. PICK new \in SUBSET RowsRestored(i) : rows' \subseteq RowsWith(new)
    <3>1. rows = RowsWith({})
      BY DEF RowsWith
    <3> QED
      BY <3>1 DEF Revert, RevertFails
  <2>2. OneRow(new)
    BY RestoredRowsAreOne DEF OneRow
  <2> QED
    BY <2>1, <2>2, RowsStayOne DEF Store
<1>6. \A m \in removedRows' : m[1] \in DOMAIN snaps
  BY DEF Revert, RevertFails, Filed, Store
<1>7. Store'
  BY <1>3, <1>4, <1>5, <1>6 DEF Revert, RevertFails, run, Store
<1>8. Room'
  BY <1>4 DEF Revert, RevertFails, Room
<1>9. Control'
  <2>1. failures' \in 0..MaxFailures
    BY HomeBoundsAssumption DEF Revert, RevertFails, events, Control
  <2>2. Len(snaps') \in Nat /\ fresh' = 0
    BY <1>4, SnapshotMore DEF Revert, RevertFails
  <2>3. since' \in {"nothing", "something"} /\ listed' \in BOOLEAN
    BY DEF Revert, RevertFails, Disturbs, Control
  <2>4. UNCHANGED <<active, force, pc, target, updates, saves>>
    BY DEF Revert, RevertFails, run, events
  <2> QED
    BY <2>1, <2>2, <2>3, <2>4 DEF Control
<1> QED
  BY <1>7, <1>8, <1>9

LEMMA UserTypes ==
  ASSUME Inv, TypeInv, NEW p \in Paths, Edit(p) \/ \E q \in Profiles : Update(q, p) \/ Save(q, p)
  PROVE  TypeInv'
<1>1. UNCHANGED <<store, active, pc, target, force, skip, failures, listed>>
  BY DEF Edit, Update, Save, run
<1>2. updates' \in 0..MaxUpdates /\ saves' \in 0..MaxSaves
  BY HomeBoundsAssumption DEF TypeInv, Control, Edit, Update, Save
<1>3. fresh' \in 0..Len(snaps) /\ since' \in {"nothing", "something"}
  BY SnapshotMore DEF TypeInv, Control, Edit, Update, Save, Disturbs
<1> QED
  BY <1>1, <1>2, <1>3 DEF TypeInv, Store, Room, Control, store

LEMMA TypeStep ==
  ASSUME Inv, TypeInv, [Next]_vars
  PROVE  TypeInv'
<1>1. ASSUME NEW q \in Profiles, Begin(q) PROVE TypeInv'
  <2>1. q # NoProfile
    BY AuthorsAssumption
  <2> QED
    BY <1>1, <2>1 DEF Begin, TypeInv, Store, Room, Control, Places, store, events
<1>2. CASE UNCHANGED vars
  BY <1>2 DEF vars, TypeInv, Store, Room, Control, store, run, events
<1> QED
  BY <1>1, <1>2, QuietTypes, RecordTypes, FailsTypes, RevertTypes, UserTypes DEF Next, Apply

\* The home keeps its types, whatever overlaps: a path has one row per profile,
\* a saved row belongs to a snapshot there is, and an apply has room for the one
\* it adds.
THEOREM HomeTypes == Spec => []TypeOK
<1>1. Init => TypeInv
  <2> SUFFICES ASSUME Init PROVE TypeInv
    OBVIOUS
  <2> USE DEF Init
  <2>1. Store
    BY DEF Store, OneRow
  <2>2. Len(snaps) = 0 /\ fresh = 0
    OBVIOUS
  <2>3. Room
    BY <2>2, HomeBoundsAssumption DEF Room
  <2>4. Control
    <3>1. updates \in 0..MaxUpdates /\ saves \in 0..MaxSaves /\ failures \in 0..MaxFailures
      BY HomeBoundsAssumption
    <3>2. fresh \in 0..Len(snaps)
      BY <2>2
    <3>3. active = NoProfile /\ force = FALSE /\ pc = "idle" /\ target = NoProfile /\ since = "nothing"
          /\ listed = TRUE
      OBVIOUS
    <3> QED
      BY <3>1, <3>2, <3>3 DEF Control, Places
  <2> QED
    BY <2>1, <2>3, <2>4 DEF TypeInv
<1>2. Inv /\ TypeInv /\ [Next]_vars => TypeInv'
  BY TypeStep
<1> QED
  BY <1>1, <1>2, TypesFollow, InvAlways, PTL DEF Spec
-----------------------------------------------------------------------------
(* The home is clean *)

\* Where a row vouches for a file, the file is one of P or was there before.
OwnedWithin(P) == \A p \in Paths : Owned(p) => p \in preexisting \cup P

\* Where the profile wants a file and a row vouches for the one there, it is the
\* wanted one, or the user kept it, or it was there before.
AsWanted == \A p \in Emitted(wanted) : Owned(p) => p \in skip \cup preexisting \/ disk[p] = wanted[p]

CleanWhileListed ==
  /\ pc \in {"idle", "resolved", "tracked"} => OwnedWithin(FilesOf(active))
  /\ pc \in {"tracked", "decided"} => OwnedWithin(tracked)
  /\ pc \in {"written", "persisted"} => OwnedWithin(tracked \cup Emitted(wanted)) /\ AsWanted
  /\ pc = "recorded" => OwnedWithin(Emitted(wanted)) /\ AsWanted /\ FilesOf(target) = Emitted(wanted)

CleanInv ==
  /\ failures \in Nat /\ pc \in Places
  /\ failures = 0 /\ listed => CleanWhileListed

LEMMA CleanFollows == Inv /\ CleanInv => HomeIsClean
<1> SUFFICES ASSUME Inv, CleanInv, pc = "recorded", failures = 0, listed,
                    NEW p \in Paths, Owned(p)
             PROVE  p \in skip \cup preexisting \/ disk[p] = wanted[p]
  BY DEF HomeIsClean
<1>1. OwnedWithin(Emitted(wanted)) /\ AsWanted
  BY DEF CleanInv, CleanWhileListed
<1> QED
  BY <1>1 DEF OwnedWithin, AsWanted

\* A step that makes no row vouch for a file, nor changes one a row vouches for.
Disowns ==
  /\ \A p \in Paths : Owned(p)' => Owned(p) /\ disk'[p] = disk[p]
  /\ UNCHANGED <<snaps, preexisting>>

LEMMA DisownsIsClean ==
  ASSUME CleanInv, Disowns, UNCHANGED <<active, pc, run, failures, listed>>
  PROVE  CleanInv'
<1> SUFFICES ASSUME failures = 0, listed PROVE CleanWhileListed'
  BY DEF CleanInv
<1>1. CleanWhileListed
  BY DEF CleanInv
<1>2. UNCHANGED <<FilesOf(active), FilesOf(target), Emitted(wanted)>>
  BY DEF run, Disowns, FilesOf, Heads, Emitted
<1>3. \A P : OwnedWithin(P) => OwnedWithin(P)'
  BY DEF OwnedWithin, Disowns
<1>4. AsWanted => AsWanted'
  BY <1>2 DEF AsWanted, run, Disowns, Emitted
<1> QED
  BY <1>1, <1>2, <1>3, <1>4 DEF CleanWhileListed, run, Disowns

\* The files of the active profile are among those an apply tracks.
LEMMA ActiveIsTracked ==
  ASSUME Inv, NEW q \in Profiles
  PROVE  FilesOf(active) \subseteq PreviousFiles(q)
<1>1. CASE active = NoProfile
  <2>1. ASSUME NEW i \in DOMAIN snaps PROVE snaps[i].profile # NoProfile
    <3>1. snaps[i] \in Snap
      BY DEF Inv, History
    <3> QED
      BY <3>1, AuthorsAssumption DEF Snap
  <2> QED
    BY <1>1, <2>1 DEF FilesOf, Heads
<1>2. CASE active = q
  BY <1>2 DEF PreviousFiles
<1>3. CASE active \notin {q, NoProfile}
  BY <1>3 DEF PreviousFiles
<1> QED
  BY <1>1, <1>2, <1>3

LEMMA TrackClean ==
  ASSUME Inv, CleanInv, Track
  PROVE  CleanInv'
<1> SUFFICES ASSUME failures = 0, listed PROVE CleanWhileListed'
  BY DEF CleanInv, Track, events, Places
<1>1. OwnedWithin(FilesOf(active)) /\ target \in Profiles
  BY DEF Track, CleanInv, CleanWhileListed, Inv, Pace
<1>2. OwnedWithin(PreviousFiles(target))
  BY <1>1, ActiveIsTracked DEF OwnedWithin
<1>3. OwnedWithin(FilesOf(active))' /\ OwnedWithin(tracked)'
  BY <1>1, <1>2 DEF Track, store, OwnedWithin, Owned, FilesOf, Heads
<1> QED
  BY <1>3 DEF Track, CleanWhileListed

LEMMA WriteClean ==
  ASSUME Inv, CleanInv, Write
  PROVE  CleanInv'
<1> SUFFICES ASSUME failures = 0, listed PROVE CleanWhileListed'
  BY DEF CleanInv, Write, events, Places
<1>1. OwnedWithin(tracked)
  BY DEF Write, CleanInv, CleanWhileListed
<1>2. /\ disk' = [p \in Paths |-> IF p \in Writes(Paths) THEN wanted[p] ELSE disk[p]]
      /\ preexisting \subseteq preexisting' /\ rows' = rows /\ pc' = "written"
      /\ UNCHANGED <<wanted, tracked, skip>>
  BY DEF Write, Materializes
<1>3. ASSUME NEW p \in Paths, Owned(p)', p \notin Writes(Paths)
      PROVE  Owned(p) /\ disk'[p] = disk[p]
  BY <1>2, <1>3 DEF Owned
<1>4. Writes(Paths) \subseteq Emitted(wanted)
  BY DEF Writes
<1>5. OwnedWithin(tracked \cup Emitted(wanted))'
  BY <1>1, <1>2, <1>3, <1>4 DEF OwnedWithin, Emitted
<1>6. ASSUME NEW p \in Emitted(wanted), Owned(p)', p \notin skip, p \notin Writes(Paths)
      PROVE  disk'[p] = wanted[p]
  <2>1. p \in Paths
    BY DEF Emitted
  <2>2. Owned(p) /\ disk'[p] = disk[p]
    BY <1>3, <1>6, <2>1
  <2> QED
    BY <1>6, <2>1, <2>2 DEF Writes, LeftAlone
<1>7. AsWanted'
  BY <1>2, <1>6 DEF AsWanted, Emitted
<1> QED
  BY <1>2, <1>5, <1>7 DEF CleanWhileListed

LEMMA PersistClean ==
  ASSUME Inv, CleanInv, Persist
  PROVE  CleanInv'
<1> SUFFICES ASSUME failures = 0, listed PROVE CleanWhileListed'
  BY DEF CleanInv, Persist, events, Places
<1>1. OwnedWithin(tracked \cup Emitted(wanted)) /\ AsWanted
  BY DEF Persist, CleanInv, CleanWhileListed
<1>2. /\ rows' = RowsWith({<<p, target, wanted[p]>> : p \in written})
      /\ pc' = "persisted" /\ UNCHANGED <<disk, preexisting, wanted, tracked, skip>>
  BY DEF Persist, Persists, run
<1>3. ASSUME NEW p \in Paths, Owned(p)'
      PROVE  Owned(p) \/ (p \in Emitted(wanted) /\ disk[p] = wanted[p])
  <2>1. PICK r \in rows' : r[1] = p /\ r[3] = disk[p]
    BY <1>2, <1>3 DEF Owned
  <2>2. CASE r \in rows
    BY <2>1, <2>2 DEF Owned
  <2>3. CASE r \notin rows
    <3>1. PICK a \in written : r = <<a, target, wanted[a]>>
      BY <1>2, <2>1, <2>3 DEF RowsWith
    <3> QED
      BY <2>1, <3>1 DEF Inv, Pace
  <2> QED
    BY <2>2, <2>3
<1>4. OwnedWithin(tracked \cup Emitted(wanted))'
  BY <1>1, <1>2, <1>3 DEF OwnedWithin, Emitted
<1>5. AsWanted'
  BY <1>1, <1>2, <1>3 DEF AsWanted, Emitted
<1> QED
  BY <1>2, <1>4, <1>5 DEF CleanWhileListed

\* What a row vouches for beyond the wanted files is stale.
LEMMA OthersAreStale ==
  ASSUME Inv, OwnedWithin(tracked \cup Emitted(wanted)),
         NEW p \in Paths, Owned(p), p \notin preexisting, p \notin Emitted(wanted)
  PROVE  p \in Stale
<1>1. disk[p] # Absent
  BY AbsentIsNoText DEF Owned, Inv, Rows
<1> QED
  BY <1>1 DEF OwnedWithin, Stale, StaleFiles, Removable, Present

\* The snapshot an apply records is the latest of its profile.
LEMMA RecordedFiles ==
  ASSUME Inv, Record, ~NothingToRecord
  PROVE  FilesOf(target)' = Emitted(wanted)
<1> DEFINE n == Len(snaps) + 1
<1>1. PICK s : s = WithBackups(NewSnapshot(Emitted(wanted)), Stale)
  OBVIOUS
<1>2. snaps' = Append(snaps, s) /\ target' = target
  BY <1>1 DEF Record, run
<1>3. s.files = Emitted(wanted) /\ s.profile = target
  BY <1>1 DEF WithBackups, NewSnapshot
<1>4. /\ Len(snaps) \in Nat /\ DOMAIN snaps' = 1..n /\ snaps'[n] = s
  <2>1. Len(snaps) \in Nat /\ DOMAIN snaps' = 1..n
    BY <1>2, SnapshotMore
  <2>2. snaps \in Seq(Snap \cup {s})
    BY SeqMonotonic DEF Inv, History
  <2> QED
    BY <1>2, <2>1, <2>2
<1>5. \A i \in 1..n : i # n => n > i
  BY <1>4
<1> HIDE DEF n
<1>6. n \in DOMAIN snaps' /\ ~(\E j \in DOMAIN snaps' : j > n)
  BY <1>4 DEF n
<1>7. \A i \in DOMAIN snaps' : i \in Heads(target)' <=> i = n
  BY <1>2, <1>3, <1>4, <1>5, <1>6 DEF Heads
<1>8. Heads(target)' = {n}
  BY <1>6, <1>7 DEF Heads
<1> QED
  BY <1>3, <1>4, <1>8 DEF FilesOf

LEMMA RecordClean ==
  ASSUME Inv, CleanInv, Record
  PROVE  CleanInv'
<1> SUFFICES ASSUME failures = 0, listed' PROVE CleanWhileListed'
  BY DEF CleanInv, Record, Places
<1>1. listed /\ pc' = "recorded" /\ UNCHANGED <<preexisting, target, wanted, skip>>
  BY DEF Record, run, store
<1>2. OwnedWithin(tracked \cup Emitted(wanted)) /\ AsWanted
  BY <1>1 DEF Record, CleanInv, CleanWhileListed
<1>3. ASSUME NEW p \in Paths, Owned(p)'
      PROVE  Owned(p) /\ disk'[p] = disk[p] /\ p \notin Stale
  <2>1. CASE NothingToRecord
    BY <1>3, <2>1 DEF Record, store, Owned, NothingToRecord
  <2>2. CASE ~NothingToRecord
    <3>1. disk' = Without(Stale) /\ rows' = rows \ RowsOf(Stale)
      BY <2>2 DEF Record
    <3>2. p \notin Stale
      BY <1>3, <3>1 DEF Owned, RowsOf
    <3> QED
      BY <1>3, <3>1, <3>2 DEF Owned, Without
  <2> QED
    BY <2>1, <2>2
<1>4. OwnedWithin(Emitted(wanted))'
  BY <1>1, <1>2, <1>3, OthersAreStale DEF OwnedWithin, Emitted
<1>5. AsWanted'
  BY <1>1, <1>2, <1>3 DEF AsWanted, Emitted
<1>6. FilesOf(target)' = Emitted(wanted)'
  <2>1. CASE NothingToRecord
    BY <1>1, <2>1 DEF Record, store, FilesOf, Heads, Emitted
  <2>2. CASE ~NothingToRecord
    BY <1>1, <2>2, RecordedFiles DEF Emitted
  <2> QED
    BY <2>1, <2>2
<1> QED
  BY <1>1, <1>4, <1>5, <1>6 DEF CleanWhileListed

LEMMA CleanStep ==
  ASSUME Inv, CleanInv, [Next]_vars
  PROVE  CleanInv'
<1>1. ASSUME NEW q \in Profiles, Begin(q) PROVE CleanInv'
  <2>1. /\ pc = "idle" /\ pc' = "resolved"
        /\ UNCHANGED <<disk, rows, snaps, preexisting, active, failures, listed>>
    BY <1>1 DEF Begin, store, events
  <2>2. OwnedWithin(FilesOf(active)) => OwnedWithin(FilesOf(active))'
    BY <2>1 DEF OwnedWithin, Owned, FilesOf, Heads
  <2> QED
    BY <2>1, <2>2 DEF CleanInv, CleanWhileListed, Places
<1>2. CASE Decide
  <2>1. /\ pc = "tracked" /\ pc' = "decided"
        /\ UNCHANGED <<disk, rows, preexisting, tracked, failures, listed>>
    BY <1>2 DEF Decide, store, events
  <2>2. OwnedWithin(tracked) => OwnedWithin(tracked)'
    BY <2>1 DEF OwnedWithin, Owned
  <2> QED
    BY <2>1, <2>2 DEF CleanInv, CleanWhileListed, Places
<1>3. CASE Cancel
  <2>1. /\ pc = "tracked" /\ pc' = "idle"
        /\ UNCHANGED <<disk, rows, snaps, preexisting, active, failures, listed>>
    BY <1>3 DEF Cancel, Resets, store, events
  <2>2. OwnedWithin(FilesOf(active)) => OwnedWithin(FilesOf(active))'
    BY <2>1 DEF OwnedWithin, Owned, FilesOf, Heads
  <2> QED
    BY <2>1, <2>2 DEF CleanInv, CleanWhileListed, Places
<1>4. CASE Point
  <2>1. /\ pc = "recorded" /\ pc' = "idle" /\ active' = target
        /\ UNCHANGED <<disk, rows, snaps, preexisting, failures, listed>>
    BY <1>4 DEF Point, Resets, store, events
  <2>2. OwnedWithin(FilesOf(target)) => OwnedWithin(FilesOf(active))'
    BY <2>1 DEF OwnedWithin, Owned, FilesOf, Heads
  <2> QED
    BY <2>1, <2>2 DEF CleanInv, CleanWhileListed, Places
<1>5. CASE Fails
  BY <1>5 DEF Fails, Resets, CleanInv, Places
<1>6. ASSUME NEW i \in DOMAIN snaps, Revert(i) \/ RevertFails(i) PROVE CleanInv'
  <2>1. pc' = pc /\ failures' \in Nat /\ listed' = FALSE
    BY <1>6 DEF Revert, RevertFails, CleanInv
  <2> QED
    BY <2>1 DEF CleanInv
<1>7. ASSUME NEW p \in Paths, Edit(p) PROVE CleanInv'
  <2>1. PICK x \in {<<User, edits + 1>>, Absent} : disk' = [disk EXCEPT ![p] = x]
    BY <1>7 DEF Edit
  <2>2. UNCHANGED <<rows, snaps, preexisting, active, pc, run, failures, listed>>
    BY <1>7 DEF Edit, store
  <2>3. x \notin Known
    BY AbsentIsNoText, AuthorsAssumption DEF Known, Inv, Pace
  <2>4. \A r \in rows : r[3] # x
    BY <2>3 DEF Inv, Rows
  <2>5. Disowns
    BY <2>1, <2>2, <2>4 DEF Disowns, Owned, Inv, Files
  <2> QED
    BY <2>2, <2>5, DisownsIsClean
<1>8. CASE \/ \E p \in Paths, q \in Profiles : Update(q, p) \/ Save(q, p)
           \/ UNCHANGED vars
  <2>1. UNCHANGED <<disk, rows, snaps, preexisting, active, pc, run, failures, listed>>
    BY <1>8 DEF Update, Save, vars, store, events
  <2> QED
    BY <2>1, DisownsIsClean DEF Disowns, Owned
<1> QED
  BY <1>1, <1>2, <1>3, <1>4, <1>5, <1>6, <1>7, <1>8, TrackClean, WriteClean, PersistClean, RecordClean
  DEF Next, Apply

\* With nothing failed and snapshots that list what is there, an apply leaves no
\* file of HarnessTap's but those its profile wants, those the user kept and
\* those that were there before (resolvePreviousTrackedFilesForApply,
\* materializeFiles, executeSafeFileRemovals).
THEOREM HomeStaysClean == Spec => []HomeIsClean
<1>1. Init => CleanInv
  BY DEF Init, CleanInv, CleanWhileListed, OwnedWithin, Owned, Places
<1>2. Inv /\ CleanInv /\ [Next]_vars => CleanInv'
  BY CleanStep
<1> QED
  BY <1>1, <1>2, CleanFollows, InvAlways, PTL DEF Spec
=============================================================================
