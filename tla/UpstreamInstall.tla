---------------------------- MODULE UpstreamInstall ----------------------------
(***************************************************************************)
(* One plugin pulled from a catalog and what keeps it up to date: the      *)
(* check of the Desktop sidecar, on a schedule (which may also install) or *)
(* on request; `ht plugin check`; the update request of Desktop; and       *)
(* `ht plugin update`.  The user edits the library meanwhile.              *)
(*                                                                         *)
(* A step runs from one await to the next, except that the installation    *)
(* is two, Cut and Replace: the cut is a transaction, what comes after is  *)
(* not.  The upstream update lock is taken as what ProcessLock says of it: *)
(* it keeps processes apart and lets tasks of one process join.            *)
(*                                                                         *)
(* The catalog publishes versions in any order and withdraws (yanks) some, *)
(* which can then not be downloaded.  What it calls the latest version is  *)
(* any it has published: the code compares it for equality only.           *)
(*                                                                         *)
(* Abstractions: versions are numbers in the order of semver, none a       *)
(* prerelease; resources are material ones of one namespace and without    *)
(* metadata; the catalog's answer is that of the moment it is used, and a  *)
(* yanked version stays yanked; time is left out, so a check may be due at *)
(* any moment, and the mode "off" is a schedule that makes no step;        *)
(* pruning of old cuts, cuts made by the user, notifications and the apply *)
(* that may follow are left out.                                           *)
(***************************************************************************)
EXTENDS Integers, FiniteSets

CONSTANTS
  MaxVersion,      \* bound: versions the catalog may publish
  Line,            \* the major version of each
  Resources,       \* types and names of library resources
  Package,         \* the text each version gives each of them, or Absent
  Pulled,          \* the versions it may be pulled at
  Sharings,        \* the sets of resources another plugin may use too
  User,            \* a text the user wrote
  Absent,          \* no library row
  None,            \* no row, no stamp, no snapshot
  MaxYanks,        \* bound: versions the catalog withdraws
  MaxEdits,        \* bound: changes by the user
  MaxCalls,        \* bound: checks and updates the user asks for
  MaxFailures,     \* bound: failed answers, failed steps and kills
  MaxEvents        \* bound: all of these together

Versions == 1..MaxVersion
Snapshots == [version : Versions, keys : SUBSET Resources, dangling : BOOLEAN]
CheckRows == [ref : Versions, local : Versions, inRange : Versions \cup {0}]
Texts == {Package[v][r] : v \in Versions, r \in Resources} \cup {User, Absent}

ASSUME BoundsAssumption ==
  /\ MaxVersion \in Nat \ {0} /\ MaxYanks \in Nat
  /\ MaxEdits \in Nat /\ MaxCalls \in Nat /\ MaxFailures \in Nat /\ MaxEvents \in Nat
ASSUME PulledAssumption == Pulled \subseteq Versions /\ Sharings \subseteq SUBSET Resources
ASSUME LineAssumption == Line \in [Versions -> Nat]
ASSUME TextsAssumption ==
  User # Absent /\ \A v \in Versions, r \in Resources : Package[v][r] # User
ASSUME NoneAssumption == None \notin Versions \cup Snapshots \cup CheckRows

Sidecar == {"job", "desktop"}
Checkers == {"job", "terminal"}
Updaters == {"desktop", "update"}
Tasks == Checkers \cup Updaters
Clouds == {"current", "older"}
Steps == {"idle", "origins", "asked", "stored", "planned", "compared", "cut", "fetching"}

VARIABLES
  published,       \* the versions the catalog has published
  yanked,          \* those of them it has withdrawn
  cloud,           \* what it says of a range: see LatestInRange
  mode,            \* the setting updates.mode
  others,          \* resources another plugin also uses
  version,         \* the working head's version
  stamp,           \* its origin_fingerprint
  attached,        \* its resources
  dirty, snapshot, \* its dirty flag and its working snapshot
  text,            \* the library: the text of each row
  cuts,            \* the frozen cuts: the resources of each version
  row,             \* its row in upstream_checks
  pc,              \* per task
  run,             \* what the sidecar's check was started for
  seen, target,    \* per task: the version it found, the one it installs
  unstamped,       \* the tasks that found the head without a stamp
  edits, calls, failures,
  late,            \* history: what the user edited since the comparison
  raced,           \* history: a task of the same process changed the head
  clean            \* history: no edit, no broken write, no race so far

library == <<version, stamp, attached, dirty, snapshot, text, cuts>>
settings == <<published, yanked, cloud, mode, others>>
bounds == <<edits, calls, failures>>
history == <<late, raced, clean>>
vars == <<library, settings, row, pc, run, seen, target, unstamped, bounds, history>>

TypeOK ==
  /\ published \subseteq Versions /\ yanked \subseteq published
  /\ cloud \in Clouds
  /\ mode \in {"notify", "install"}
  /\ others \subseteq Resources
  /\ version \in Versions /\ stamp \in Versions \cup {None}
  /\ attached \subseteq Resources
  /\ dirty \in BOOLEAN /\ snapshot \in Snapshots \cup {None}
  /\ text \in [Resources -> Texts]
  /\ DOMAIN cuts \subseteq Versions /\ cuts \in [DOMAIN cuts -> SUBSET Resources]
  /\ row \in CheckRows \cup {None}
  /\ pc \in [Tasks -> Steps]
  /\ pc["job"] \notin {"origins", "fetching"} /\ pc["terminal"] \in {"idle", "origins", "asked"}
  /\ \A t \in Updaters : pc[t] \in {"idle", "asked", "fetching"}
  /\ run \in {"manual", "notify", "install"}
  /\ seen \in [Tasks -> Versions \cup {None}] /\ target \in [Tasks -> Versions \cup {None}]
  /\ unstamped \subseteq Tasks
  /\ edits \in 0..MaxEdits /\ calls \in 0..MaxCalls /\ failures \in 0..MaxFailures
  /\ late \subseteq Resources /\ raced \in [Tasks -> BOOLEAN] /\ clean \in BOOLEAN

Keys(v) == {r \in Resources : Package[v][r] # Absent}
Rows == {r \in Resources : text[r] # Absent}

\* The newest of V: one version, or none when V is empty.
NewestOf(V) == {v \in V : \A w \in V : w <= v}

\* The range ^v: v and what is above it with the same major version.
Caret(v) == {w \in Versions : w >= v /\ Line[w] = Line[v]}
InRange(v) == (published \ yanked) \cap Caret(v)

\* isAutoInstallable
Installable(from, to) == to > from /\ to \in Caret(from)

\* The head has the resources of version v with their published texts.
Matches(v) == attached = Keys(v) /\ \A r \in attached : text[r] = Package[v][r]

\* The tasks inside withUpstreamUpdateLock.
Holders ==
  {t \in Updaters : pc[t] # "idle"} \cup {t \in {"job"} : pc[t] # "idle" /\ run # "manual"}

SameProcess(t, u) == (t \in Sidecar) = (u \in Sidecar)
CanEnter(t) == \A u \in Holders : SameProcess(t, u)

\* The event loop of the sidecar is not inside the installation.
Scheduled(t) == t \in Sidecar \ {"job"} => pc["job"] # "cut"

MoreEvents == edits + calls + failures + Cardinality(yanked) < MaxEvents

Goto(t, from, to) ==
  /\ pc[t] = from
  /\ Scheduled(t)
  /\ pc' = [pc EXCEPT ![t] = to]

Init ==
  /\ published \in {{v} : v \in Pulled} /\ yanked = {}
  /\ cloud \in Clouds
  /\ mode \in {"notify", "install"}
  /\ others \in Sharings
  /\ version \in published /\ stamp = None
  /\ attached = Keys(version)
  /\ dirty = FALSE /\ snapshot = None
  /\ text = [r \in Resources |-> IF r \in others \ Keys(version) THEN User
                                 ELSE Package[version][r]]
  /\ cuts = [v \in {} |-> {}]
  /\ row = None
  /\ pc = [t \in Tasks |-> "idle"]
  /\ run = "manual"
  /\ seen = [t \in Tasks |-> None] /\ target = [t \in Tasks |-> None]
  /\ unstamped = {}
  /\ edits = 0 /\ calls = 0 /\ failures = 0
  /\ late = {} /\ raced = [t \in Tasks |-> FALSE] /\ clean = TRUE

-----------------------------------------------------------------------------
(* The check *)

\* listUpstreamTargets, listOriginUpdateCandidates: t reads `found` of the
\* head and asks the catalog.
Ask(t, found) ==
  /\ Goto(t, "idle", "asked")
  /\ seen' = [seen EXCEPT ![t] = found]
  /\ UNCHANGED <<library, settings, row, target, edits, failures, history>>

\* A mistaken form of Tick: nothing is due once something was checked.
TickOnce ==
  /\ CanEnter("job")
  /\ row = None
  /\ run' = mode
  /\ Ask("job", version)
  /\ UNCHANGED <<unstamped, calls>>

\* The schedule starts a check under the lock.  A run that finds one in
\* flight joins it and one that finds the lock taken is skipped: neither
\* changes anything.
Tick ==
  /\ CanEnter("job")
  /\ run' = mode
  /\ Ask("job", version)
  /\ UNCHANGED <<unstamped, calls>>

\* Desktop's "Check now": without the lock.
Check ==
  /\ calls < MaxCalls /\ MoreEvents
  /\ calls' = calls + 1
  /\ run' = "manual"
  /\ Ask("job", version)
  /\ UNCHANGED unstamped

\* A mistaken form of Checked: the installer follows every check.
CheckedByAll(c) ==
  /\ Goto(c, "asked", "stored")
  /\ seen' = [seen EXCEPT ![c] = None]
  /\ UNCHANGED <<library, settings, run, target, unstamped, edits, calls, history>>

\* The end of a check; the installer follows a scheduled one in install mode.
Checked(c) ==
  /\ LET installs == c = "job" /\ run = "install"
     IN Goto(c, "asked", IF installs THEN "stored" ELSE "idle")
  /\ seen' = [seen EXCEPT ![c] = None]
  /\ run' = IF c = "job" /\ run = "notify" THEN "manual" ELSE run
  /\ UNCHANGED <<library, settings, target, unstamped, edits, calls, history>>

NewestOrNone(V) == IF V = {} THEN {0} ELSE NewestOf(V)

\* The answers on the range of v, 0 for no update: the newest version to be had;
\* the newest, which counts for none when it is flagged as yanked; or that of an
\* older Cloud without `updates-since`, of which only the plugin's latest version
\* is known, if it is in the range.
LatestInRange(v) ==
  NewestOrNone(InRange(v)) \cup
    IF cloud = "current" THEN {}
    ELSE {IF w \in yanked THEN 0 ELSE w : w \in NewestOrNone(published \cap Caret(v))}
           \cup {IF w \in Caret(v) THEN w ELSE 0 : w \in published}

\* runUpstreamCheck classifies what it read before it asked.
Store(c) ==
  /\ Checked(c)
  /\ \E newest \in LatestInRange(seen[c]) :
       row' = [ref |-> seen[c], local |-> seen[c], inRange |-> newest]
  /\ UNCHANGED failures

Unreachable(c) ==
  /\ Checked(c)
  /\ row' = [ref |-> seen[c], local |-> seen[c], inRange |-> 0]
  /\ failures < MaxFailures /\ MoreEvents
  /\ failures' = failures + 1

-----------------------------------------------------------------------------
(* The installation: installOne *)

\* The variables of a call that has ended.
Left(T) ==
  /\ seen' = [t \in Tasks |-> IF t \in T THEN None ELSE seen[t]]
  /\ target' = [t \in Tasks |-> IF t \in T THEN None ELSE target[t]]
  /\ unstamped' = unstamped \ T
  /\ run' = IF "job" \in T THEN "manual" ELSE run
  /\ late' = IF "job" \in T THEN {} ELSE late
  /\ UNCHANGED <<settings, edits, calls>>

Ends(t, from) ==
  /\ Goto(t, from, "idle")
  /\ Left({t})

\* t ends with nothing installed.
EndsUnchanged(t, from) ==
  /\ Ends(t, from)
  /\ raced' = [raced EXCEPT ![t] = FALSE]
  /\ UNCHANGED <<version, attached, dirty, text, cuts, row, failures, clean>>

\* A mistaken form of Planned: the head may have moved since the check.
PlannedForAny == Installable(row.local, row.inRange)

\* The stored row is for this head and names a version to install.
Planned == Installable(row.local, row.inRange) /\ row.local = version

Plan ==
  /\ Goto("job", "stored", "planned")
  /\ Planned
  /\ seen' = [seen EXCEPT !["job"] = version]
  /\ target' = [target EXCEPT !["job"] = row.inRange]
  /\ UNCHANGED <<library, settings, row, run, unstamped, bounds, history>>

NothingToInstall ==
  /\ EndsUnchanged("job", "stored")
  /\ ~Planned
  /\ UNCHANGED <<stamp, snapshot>>

\* A mistaken form of Unedited: the dirty flag is trusted.
NotDirty(v) == ~dirty

\* The package of the installed version has come: the head is still that.
Unedited(v) == Matches(v)

Compare ==
  /\ Goto("job", "planned", "compared")
  /\ seen["job"] \notin yanked
  /\ Unedited(seen["job"])
  /\ UNCHANGED <<library, settings, row, run, seen, target, unstamped, bounds, history>>

\* "install skipped": there is no published package to compare with any more, or
\* the head is not what it has.
Skip ==
  /\ EndsUnchanged("job", "planned")
  /\ seen["job"] \in yanked \/ ~Unedited(seen["job"])
  /\ UNCHANGED <<stamp, snapshot>>

\* sharedResourceChange
ChangesShared(v) ==
  \E r \in Keys(v) \cap others \cap Rows : text[r] # Package[v][r]

\* ensureWorkingSnapshot
SnapshotNow ==
  IF snapshot = None THEN [version |-> version, keys |-> attached, dangling |-> FALSE]
  ELSE snapshot

\* The checks of cutPluginVersion, and the constraints its transaction meets:
\* one row per version, and no attachment to a row that is gone.
CutChecked(to) == to # version /\ to \notin DOMAIN cuts
CutFits(to) ==
  SnapshotNow.version \notin DOMAIN cuts \cup {to} /\ ~SnapshotNow.dangling

\* The head's version has changed under the other tasks of t's process.
Raced(t) ==
  [u \in Tasks |-> raced[u] \/ (u # t /\ SameProcess(t, u) /\ target[u] # None)]

\* cutPluginVersion: the snapshot becomes a frozen version, the head the new.
Freeze(to) ==
  /\ CutChecked(to) /\ CutFits(to)
  /\ cuts' = [v \in DOMAIN cuts \cup {SnapshotNow.version} |->
                IF v = SnapshotNow.version THEN SnapshotNow.keys ELSE cuts[v]]
  /\ version' = to
  /\ dirty' = FALSE /\ snapshot' = None

\* A mistaken form of Cut: only an edited head is kept.
CutWhenDirty ==
  /\ Goto("job", "compared", "cut")
  /\ target["job"] \notin yanked /\ ~ChangesShared(target["job"])
  /\ IF ~dirty THEN UNCHANGED <<cuts, version, dirty, snapshot, raced>>
     ELSE Freeze(target["job"]) /\ raced' = Raced("job")
  /\ clean' = (clean /\ ~raced["job"])
  /\ UNCHANGED <<stamp, attached, text, settings, row, run, seen, target, unstamped,
                 bounds, late>>

\* The new package has come: the installed version is kept as a cut, unless
\* there is one.
Cut ==
  /\ Goto("job", "compared", "cut")
  /\ target["job"] \notin yanked /\ ~ChangesShared(target["job"])
  /\ IF seen["job"] \in DOMAIN cuts
     THEN UNCHANGED <<cuts, version, dirty, snapshot, raced>>
     ELSE Freeze(target["job"]) /\ raced' = Raced("job")
  /\ clean' = (clean /\ ~raced["job"])
  /\ UNCHANGED <<stamp, attached, text, settings, row, run, seen, target, unstamped,
                 bounds, late>>

CutFails ==
  /\ EndsUnchanged("job", "compared")
  /\ \/ /\ target["job"] \in yanked \/ ChangesShared(target["job"])
        /\ UNCHANGED snapshot
     \/ /\ target["job"] \notin yanked /\ ~ChangesShared(target["job"])
        /\ seen["job"] \notin DOMAIN cuts
        /\ \/ ~CutChecked(target["job"]) /\ UNCHANGED snapshot
           \/ /\ CutChecked(target["job"]) /\ ~CutFits(target["job"])
              /\ snapshot' = SnapshotNow
  /\ UNCHANGED stamp

-----------------------------------------------------------------------------
(* applyCheckedPluginOrigin *)

\* t has the package of its target and nothing left to wait for.
Writes(t) ==
  \/ t = "job" /\ pc[t] = "cut"
  \/ t # "job" /\ pc[t] = "fetching" /\ target[t] \notin yanked

\* A mistaken form of Unused: frozen cuts are not looked at.
UnusedByHeads(D) == D \ others

\* The rows of D that nothing uses once the head does not.
Unused(D) == {r \in D \ others : \A v \in DOMAIN cuts : r \notin cuts[v]}

\* A mistaken form of Replaced: what the new version lacks stays attached.
ReplacedOnly(to, P, D) ==
  /\ attached' = attached \cup P
  /\ text' = [r \in Resources |-> IF r \in P THEN Package[to][r] ELSE text[r]]
  /\ UNCHANGED <<cuts, snapshot>>

\* replacePluginAttachments after the resources P of version `to` are written
\* and attached, and those of D are detached.
Replaced(to, P, D) ==
  /\ attached' = (attached \cup P) \ D
  /\ text' = [r \in Resources |-> IF r \in P THEN Package[to][r]
                                  ELSE IF r \in Unused(D) THEN Absent ELSE text[r]]
  /\ cuts' = [v \in DOMAIN cuts |-> cuts[v] \ Unused(D)]
  /\ snapshot' = IF snapshot = None THEN None
                 ELSE [snapshot EXCEPT !.dangling = @ \/ snapshot.keys \cap Unused(D) # {}]

\* The row of the check that led here, if it is still there.
RowAfter(t) ==
  IF t = "job" /\ row.ref = seen[t]
  THEN [row EXCEPT !.local = target[t], !.inRange = target[t]] ELSE row

Replace(t) ==
  /\ Writes(t) /\ Ends(t, pc[t])
  /\ target[t] \notin DOMAIN cuts
  /\ Replaced(target[t], Keys(target[t]), attached \ Keys(target[t]))
  /\ version' = target[t] /\ stamp' = target[t]
  /\ row' = RowAfter(t)
  /\ raced' = [Raced(t) EXCEPT ![t] = FALSE]
  /\ clean' = (clean /\ ~raced[t])
  /\ UNCHANGED <<dirty, failures>>

\* assertNoFrozenWorkingVersion
Refuse(t) ==
  /\ Writes(t) /\ EndsUnchanged(t, pc[t])
  /\ target[t] \in DOMAIN cuts
  /\ UNCHANGED <<stamp, snapshot>>

\* A version that has been withdrawn is not delivered.
FetchFails(t) ==
  /\ EndsUnchanged(t, "fetching")
  /\ target[t] \in yanked
  /\ UNCHANGED <<stamp, snapshot>>

\* What Replace leaves when it stops midway: some resources written, or all
\* and some detached, or all of that and the version.
LeavesPartOf(t) ==
  /\ Writes(t)
  /\ target[t] \notin DOMAIN cuts
  /\ \E P \in SUBSET Keys(target[t]), D \in SUBSET (attached \ Keys(target[t])) :
       /\ D # {} => P = Keys(target[t])
       /\ Replaced(target[t], P, D)
       /\ \/ UNCHANGED version
          \/ /\ P = Keys(target[t]) /\ D = attached \ Keys(target[t])
             /\ version' = target[t]
  /\ UNCHANGED <<stamp, dirty>>

\* A task fails where it is, or the sidecar is killed.
Stop(T) ==
  /\ failures < MaxFailures /\ MoreEvents
  /\ failures' = failures + 1
  /\ \E t \in T : pc[t] # "idle" /\ Scheduled(t)
  /\ pc' = [t \in Tasks |-> IF t \in T THEN "idle" ELSE pc[t]]
  /\ Left(T)
  /\ \/ UNCHANGED library /\ raced' = [t \in Tasks |-> raced[t] /\ t \notin T]
     \/ \E t \in T :
          /\ LeavesPartOf(t)
          /\ raced' = [u \in Tasks |-> Raced(t)[u] /\ u \notin T]
  /\ clean' = (clean /\ \A t \in T : ~Writes(t))
  /\ UNCHANGED row

-----------------------------------------------------------------------------
(* checkPluginOrigins and updatePluginOrigins: `ht plugin check`, Desktop's *)
(* update request and `ht plugin update`                                    *)

\* t asks for the latest version, to compare it with what it found.
AskOrigins(t, place) ==
  /\ calls < MaxCalls /\ MoreEvents
  /\ calls' = calls + 1
  /\ Goto(t, "idle", place)
  /\ seen' = [seen EXCEPT ![t] = IF stamp = None THEN version ELSE stamp]
  /\ unstamped' = IF stamp = None THEN unstamped \cup {t} ELSE unstamped
  /\ UNCHANGED <<library, settings, row, run, target, edits, failures, history>>

\* compareCatalog, with the head as it was before the answer.
Outdated(t, latest) == seen[t] # latest

\* A head that is current and has no stamp gets it.
Stamped(t, latest) ==
  stamp' = IF t \in unstamped /\ ~Outdated(t, latest) THEN latest ELSE stamp

CheckOrigins == AskOrigins("terminal", "origins")

\* `ht plugin check` goes on to the check above, whatever the answer was.
OriginsChecked ==
  /\ Goto("terminal", "origins", "asked")
  /\ seen' = [seen EXCEPT !["terminal"] = version]
  /\ unstamped' = unstamped \ {"terminal"}
  /\ UNCHANGED stamp \/ \E latest \in published : Stamped("terminal", latest)
  /\ UNCHANGED <<version, attached, dirty, snapshot, text, cuts,
                 settings, row, run, target, bounds, history>>

Update(t) ==
  /\ CanEnter(t)
  /\ AskOrigins(t, "asked")

\* An outdated plugin is downloaded, a current one only with --force.
Answer(t) ==
  /\ Goto(t, "asked", "fetching")
  /\ \E latest \in published :
       /\ target' = [target EXCEPT ![t] = latest]
       /\ Stamped(t, latest)
  /\ UNCHANGED <<version, attached, dirty, snapshot, text, cuts,
                 settings, row, run, seen, unstamped, bounds, history>>

UpToDate(t) ==
  /\ EndsUnchanged(t, "asked")
  /\ \E latest \in published :
       /\ ~Outdated(t, latest)
       /\ Stamped(t, latest)
  /\ UNCHANGED snapshot

-----------------------------------------------------------------------------
(* The user and the catalog *)

Changes ==
  /\ edits < MaxEdits /\ MoreEvents
  /\ edits' = edits + 1
  /\ clean' = FALSE
  /\ UNCHANGED <<settings, version, stamp, cuts, row, pc, run, seen, target,
                 unstamped, calls, failures, raced>>

\* r is not any more as the job compared it.
Later(r) == late' = IF pc["job"] \in {"compared", "cut"} THEN late \cup {r} ELSE late

\* A library resource is edited, or created under a free name.
Edit(r) ==
  /\ Changes
  /\ text' = [text EXCEPT ![r] = User]
  /\ Later(r)
  /\ UNCHANGED <<attached, dirty, snapshot>>

\* markPluginDirty, after the change: the first one takes the snapshot.
MarkDirty ==
  /\ dirty' = TRUE
  /\ snapshot' = IF dirty THEN snapshot
                 ELSE [version |-> version, keys |-> attached', dangling |-> FALSE]

Attach(r) ==
  /\ Changes
  /\ r \in Rows \ attached
  /\ attached' = attached \cup {r}
  /\ MarkDirty
  /\ Later(r)
  /\ UNCHANGED text

Detach(r) ==
  /\ Changes
  /\ r \in attached
  /\ attached' = attached \ {r}
  /\ MarkDirty
  /\ UNCHANGED <<text, late>>

SetMode ==
  /\ mode' \in {"notify", "install"} \ {mode}
  /\ UNCHANGED <<library, published, yanked, cloud, others, row, pc, run, seen, target, unstamped,
                 bounds, history>>

Publish ==
  /\ \E v \in Versions \ published : published' = published \cup {v}
  /\ UNCHANGED <<library, yanked, cloud, mode, others, row, pc, run, seen, target,
                 unstamped, bounds, history>>

Yank ==
  /\ Cardinality(yanked) < MaxYanks /\ MoreEvents
  /\ \E v \in published \ yanked : yanked' = yanked \cup {v}
  /\ UNCHANGED <<library, published, cloud, mode, others, row, pc, run, seen, target,
                 unstamped, bounds, history>>

-----------------------------------------------------------------------------
JobSteps ==
  Store("job") \/ Plan \/ NothingToInstall \/ Compare \/ Skip
  \/ Cut \/ CutFails \/ Replace("job") \/ Refuse("job")

UpdateSteps(t) == Answer(t) \/ UpToDate(t) \/ FetchFails(t) \/ Replace(t) \/ Refuse(t)

Environment ==
  \/ \E r \in Resources : Edit(r) \/ Attach(r) \/ Detach(r)
  \/ SetMode \/ Publish \/ Yank
  \/ Check \/ CheckOrigins
  \/ \E c \in Checkers : Unreachable(c)
  \/ \E t \in Updaters : Update(t)
  \/ \E T \in {{t} : t \in Tasks} \cup {Sidecar} : Stop(T)

Next ==
  \/ Tick \/ JobSteps \/ OriginsChecked \/ Store("terminal")
  \/ \E t \in Updaters : UpdateSteps(t)
  \/ Environment

Spec == Init /\ [][Next]_vars

FairSpec ==
  /\ Spec
  /\ WF_vars(Tick) /\ WF_vars(JobSteps)
  /\ WF_vars(\E t \in Updaters : UpdateSteps(t))

-----------------------------------------------------------------------------
(* Properties *)

\* As long as the user has left the plugin alone, no write was broken off and
\* no two tasks of the sidecar raced, the head has exactly the resources and
\* texts of the package of its version, whatever sequence of updates and
\* installations led there, and a frozen cut exactly the resources of its
\* own (installOne, replacePluginAttachments, cutPluginVersion).
UndisturbedIsPublished ==
  clean => /\ pc["job"] = "cut" \/ Matches(version)
           /\ \A v \in DOMAIN cuts : cuts[v] = Keys(v)

\* "Keep the installed version as a frozen cut next to the new one": when an
\* installation on such a plugin starts to write the new package, the version
\* it found is among the cuts (installOne).
PreviousIsKept ==
  clean /\ pc["job"] = "cut" => seen["job"] \in DOMAIN cuts

\* "Nothing is deleted": no update or installation takes a resource, or the
\* row of one, from a frozen cut (replacePluginAttachments and the cascade of
\* plugin_resources).
CutsAreKept ==
  [][\A v \in DOMAIN cuts : v \in DOMAIN cuts' /\ cuts'[v] = cuts[v]]_vars

\* t reaches the library in this step.
WrittenBy(t) == Writes(t) /\ pc'[t] # pc[t]

\* "Never a plugin with local edits": an unattended installation replaces or
\* deletes a text of the user's in the plugin only when it was written after
\* the comparison with the published package; what else overwrites one is an
\* update the user asked for (installOne).
EditIsNotOverwritten ==
  [][\A r \in attached \ late : text[r] = User /\ text'[r] # User =>
       \E t \in Updaters : WrittenBy(t)]_vars

\* "Never a major", nor a downgrade: an unattended installation takes the head to
\* a version of its own caret range, whatever the catalog publishes, withdraws or
\* calls the latest while it checks, plans and downloads, and whatever updates run
\* beside it; unless one of the sidecar has joined it in the lock and changed the
\* head under it.  An update the user asks for installs what the catalog names
\* (isAutoInstallable, withUpstreamUpdateLock).
UnattendedStaysInRange ==
  [][version' # version =>
       \/ version' \in Caret(version)
       \/ \E t \in Updaters : WrittenBy(t)
       \/ raced["job"] /\ pc'["job"] # pc["job"]]_vars

\* In install mode a plugin left alone, whose version can still be had and whose
\* range the catalog answers for, ends up at the newest version of that range,
\* although runs are skipped, joined to a manual check, find the catalog
\* unreachable or are killed; unless that version is one of its frozen cuts, which
\* no installation replaces (runScheduledUpstreamCheck, cutPluginVersion).
CatchesUp ==
  <>[](/\ mode = "install" /\ clean /\ others = {}
       /\ version \notin yanked /\ LatestInRange(version) = NewestOf(InRange(version)))
    => <>[](\E v \in NewestOf(InRange(version)) : v = version \/ v \in DOMAIN cuts)
=============================================================================
