------------------------- MODULE UpstreamInstall_proofs -------------------------
(***************************************************************************)
(* For every catalog, library and bound: the types, and all the safety     *)
(* properties of UpstreamInstall.                                          *)
(*                                                                         *)
(* The argument: a step changes the library only as the cut, as a task's   *)
(* write or as an edit (LibraryCases), and a task either is where it was,  *)
(* with what it had read, or has made one of a few moves (TaskCases).      *)
(* The lock keeps the tasks of other processes out, so what an             *)
(* installation chose is still in the range of the head when it writes,    *)
(* unless a task of its own process has changed the head under it, which   *)
(* `raced` records.                                                        *)
(* So the head an installation cuts is the one it compared, with nothing   *)
(* left over from an edit, and what it keeps and writes is what was        *)
(* published.                                                              *)
(***************************************************************************)
EXTENDS UpstreamInstall, TLAPS

\* What a task has read by the place it is at.
Places ==
  /\ pc["job"] \in {"planned", "compared", "cut"} =>
       seen["job"] \in Versions /\ target["job"] \in Versions
  /\ pc["job"] \in {"stored", "planned", "compared", "cut"} => row # None
  /\ \A t \in Tasks : pc[t] = "asked" => seen[t] \in Versions
  /\ \A t \in Updaters : pc[t] = "fetching" => target[t] \in Versions

Typed == TypeOK /\ Places

LEMMA TextsInTexts ==
  /\ User \in Texts /\ Absent \in Texts
  /\ \A v \in Versions, r \in Resources : Package[v][r] \in Texts
BY DEF Texts

LEMMA Names ==
  /\ "job" \in Tasks /\ "desktop" \in Tasks /\ "terminal" \in Tasks /\ "update" \in Tasks
  /\ \A t \in Tasks : t \in {"job", "desktop", "terminal", "update"}
  /\ Updaters \subseteq Tasks /\ Checkers \subseteq Tasks /\ "job" \notin Updaters
  /\ \A t \in Updaters : t # "job" /\ t # "terminal"
  /\ Sidecar \subseteq Tasks
BY DEF Tasks, Checkers, Updaters, Sidecar

LEMMA NoneIsNoVersion == None \notin Versions
BY NoneAssumption

LEMMA InitTypes == Init => Typed
<1> SUFFICES ASSUME Init PROVE Typed
  OBVIOUS
<1> USE NoneIsNoVersion, Names, BoundsAssumption, PulledAssumption, TextsInTexts
<1>1. published \subseteq Versions /\ version \in Versions
  BY DEF Init
<1>2. text \in [Resources -> Texts] /\ attached \subseteq Resources
  BY <1>1 DEF Init, Keys
<1>3. DOMAIN cuts \subseteq Versions /\ cuts \in [DOMAIN cuts -> SUBSET Resources]
  BY DEF Init
<1>4. others \subseteq Resources
  BY DEF Init
<1>5. seen \in [Tasks -> Versions \cup {None}] /\ target \in [Tasks -> Versions \cup {None}]
  BY DEF Init
<1>6. edits \in 0..MaxEdits /\ calls \in 0..MaxCalls /\ failures \in 0..MaxFailures
  BY DEF Init
<1>7. /\ pc \in [Tasks -> Steps]
      /\ \A t \in Tasks : pc[t] = "idle"
  BY DEF Init, Steps
<1>8. TypeOK
  BY <1>1, <1>2, <1>3, <1>4, <1>5, <1>6, <1>7 DEF Init, TypeOK
<1> QED
  BY <1>8, <1>7 DEF Init, Typed, Places

LEMMA AskTypes ==
  ASSUME Typed, Ask("job", version), unstamped' = unstamped,
         calls' \in 0..MaxCalls, run' \in {"manual", "notify", "install"}
  PROVE  Typed'
<1> USE NoneIsNoVersion, Names
<1>1. TypeOK'
  BY DEF Typed, TypeOK, Ask, Goto, library, settings, history, Steps, Snapshots
<1> QED
  BY <1>1 DEF Typed, TypeOK, Places, Ask, Goto, library, settings, history

LEMMA LeftTypes ==
  ASSUME Typed, NEW T \in SUBSET Tasks, Left(T),
         pc' = [t \in Tasks |-> IF t \in T THEN "idle" ELSE pc[t]],
         version' \in Versions, stamp' \in Versions \cup {None},
         attached' \subseteq Resources, dirty' \in BOOLEAN, snapshot' \in Snapshots \cup {None},
         text' \in [Resources -> Texts],
         DOMAIN cuts' \subseteq Versions, cuts' \in [DOMAIN cuts' -> SUBSET Resources],
         row' \in CheckRows \cup {None},
         row # None => row' # None, failures' \in 0..MaxFailures,
         raced' \in [Tasks -> BOOLEAN], clean' \in BOOLEAN
  PROVE  Typed'
<1> USE NoneIsNoVersion, Names
<1>1. TypeOK'
  <2>1. /\ seen' \in [Tasks -> Versions \cup {None}] /\ target' \in [Tasks -> Versions \cup {None}]
        /\ unstamped' \subseteq Tasks /\ run' \in {"manual", "notify", "install"}
        /\ late' \subseteq Resources
    BY DEF Typed, TypeOK, Left
  <2>2. /\ pc' \in [Tasks -> Steps]
        /\ pc'["job"] \notin {"origins", "fetching"} /\ pc'["terminal"] \in {"idle", "origins", "asked"}
        /\ \A t \in Updaters : pc'[t] \in {"idle", "asked", "fetching"}
    BY DEF Typed, TypeOK, Steps
  <2>3. Snapshots' = Snapshots
    BY DEF Snapshots
  <2> QED
    BY <2>1, <2>2, <2>3 DEF Typed, TypeOK, Left, settings
<1> QED
  BY <1>1 DEF Typed, TypeOK, Places, Left

LEMMA EndsUnchangedTypes ==
  ASSUME Typed, NEW t \in Tasks, NEW from, EndsUnchanged(t, from),
         stamp' \in Versions \cup {None}, snapshot' \in Snapshots \cup {None}
  PROVE  Typed'
<1>1. pc' = [u \in Tasks |-> IF u \in {t} THEN "idle" ELSE pc[u]]
  BY DEF EndsUnchanged, Ends, Goto, Typed, TypeOK
<1>2. raced' \in [Tasks -> BOOLEAN]
  BY DEF EndsUnchanged, Typed, TypeOK
<1> QED
  BY <1>1, <1>2, LeftTypes DEF EndsUnchanged, Ends, Typed, TypeOK

LEMMA CheckedTypes ==
  ASSUME Typed, NEW c \in Checkers, Checked(c), failures' \in 0..MaxFailures,
         row' \in CheckRows
  PROVE  Typed'
<1> USE NoneIsNoVersion, Names
<1>1. row' # None
  BY NoneAssumption
<1>2. TypeOK'
  BY <1>1 DEF Typed, TypeOK, Checked, Goto, library, settings, history, Snapshots, Steps, Checkers
<1> QED
  BY <1>1, <1>2 DEF Typed, TypeOK, Places, Checked, Goto, library, settings, history

LEMMA LatestIsVersion ==
  ASSUME Typed, NEW v \in Versions
  PROVE  LatestInRange(v) \subseteq Versions \cup {0}
BY DEF LatestInRange, NewestOrNone, NewestOf, InRange, Typed, TypeOK

LEMMA StoreTypes == ASSUME Typed, NEW c \in Checkers, Store(c) PROVE Typed'
<1>1. seen[c] \in Versions
  BY Names DEF Store, Checked, Goto, Typed, Places
<1>2. row' \in CheckRows
  BY <1>1, LatestIsVersion DEF Store, CheckRows
<1> QED
  BY <1>2, CheckedTypes DEF Store, Typed, TypeOK

LEMMA UnreachableTypes == ASSUME Typed, NEW c \in Checkers, Unreachable(c) PROVE Typed'
<1>1. seen[c] \in Versions
  BY Names DEF Unreachable, Checked, Goto, Typed, Places
<1>2. row' \in CheckRows
  BY <1>1 DEF Unreachable, CheckRows
<1>3. failures' \in 0..MaxFailures
  BY BoundsAssumption DEF Unreachable, Typed, TypeOK
<1> QED
  BY <1>2, <1>3, CheckedTypes DEF Unreachable

LEMMA PlannedVersion ==
  ASSUME Typed, row # None, Planned
  PROVE  row.inRange \in Caret(version) /\ row.inRange > version /\ row.inRange \in Versions
BY DEF Planned, Installable, Caret, Typed, TypeOK, CheckRows

LEMMA PlanTypes == ASSUME Typed, Plan PROVE Typed'
<1> USE NoneIsNoVersion, Names
<1>1. row # None /\ row.inRange \in Versions
  BY PlannedVersion DEF Plan, Goto, Typed, Places
<1>2. TypeOK'
  BY <1>1 DEF Typed, TypeOK, Plan, Goto, library, settings, bounds, history, Snapshots, Steps
<1> QED
  BY <1>1, <1>2 DEF Typed, TypeOK, Places, Plan, Goto, library, settings, bounds, history

LEMMA CompareTypes == ASSUME Typed, Compare PROVE Typed'
<1> USE NoneIsNoVersion, Names
<1>1. TypeOK'
  BY DEF Typed, TypeOK, Compare, Goto, library, settings, bounds, history, Snapshots, Steps
<1> QED
  BY <1>1 DEF Typed, TypeOK, Places, Compare, Goto, library, settings, bounds, history

LEMMA NothingTypes ==
  ASSUME Typed, NEW t \in Tasks, NEW from, EndsUnchanged(t, from), UNCHANGED <<stamp, snapshot>>
  PROVE  Typed'
BY EndsUnchangedTypes DEF Typed, TypeOK

LEMMA SnapshotNowType == Typed => SnapshotNow \in Snapshots
BY NoneAssumption DEF Typed, TypeOK, SnapshotNow, Snapshots

LEMMA RacedType == Typed => \A t \in Tasks : Raced(t) \in [Tasks -> BOOLEAN]
BY DEF Typed, TypeOK, Raced, SameProcess

LEMMA CutTypes == ASSUME Typed, Cut PROVE Typed'
<1> USE NoneIsNoVersion, Names
<1>1. target["job"] \in Versions /\ seen["job"] \in Versions /\ row # None
  BY DEF Cut, Goto, Typed, Places
<1>2. /\ DOMAIN cuts' \subseteq Versions /\ cuts' \in [DOMAIN cuts' -> SUBSET Resources]
      /\ version' \in Versions /\ dirty' \in BOOLEAN /\ snapshot' \in Snapshots \cup {None}
      /\ raced' \in [Tasks -> BOOLEAN]
  <2>1. CASE seen["job"] \in DOMAIN cuts
    BY <2>1 DEF Cut, Typed, TypeOK
  <2>2. CASE seen["job"] \notin DOMAIN cuts
    <3>1. Freeze(target["job"]) /\ raced' = Raced("job")
      BY <2>2 DEF Cut
    <3>2. SnapshotNow.version \in Versions /\ SnapshotNow.keys \in SUBSET Resources
      BY SnapshotNowType DEF Snapshots
    <3>3. cuts' \in [DOMAIN cuts \cup {SnapshotNow.version} -> SUBSET Resources]
      BY <3>1, <3>2 DEF Freeze, Typed, TypeOK
    <3>4. DOMAIN cuts' = DOMAIN cuts \cup {SnapshotNow.version}
      BY <3>3
    <3> QED
      BY <1>1, <3>1, <3>2, <3>3, <3>4, RacedType DEF Freeze, Typed, TypeOK
  <2> QED
    BY <2>1, <2>2
<1>3. Snapshots' = Snapshots
  BY DEF Snapshots
<1>4. TypeOK'
  BY <1>2, <1>3 DEF Typed, TypeOK, Cut, Goto, settings, bounds, Steps
<1> QED
  BY <1>1, <1>4 DEF Typed, TypeOK, Places, Cut, Goto, settings, bounds

LEMMA CutFailsTypes == ASSUME Typed, CutFails PROVE Typed'
<1>1. stamp' = stamp /\ snapshot' \in Snapshots \cup {None}
  BY SnapshotNowType DEF CutFails, Typed, TypeOK
<1> QED
  BY <1>1, Names, EndsUnchangedTypes DEF CutFails, Typed, TypeOK

LEMMA ReplacedTypes ==
  ASSUME Typed, NEW to \in Versions, NEW P \in SUBSET Resources, NEW D, Replaced(to, P, D)
  PROVE  /\ attached' \subseteq Resources /\ text' \in [Resources -> Texts]
         /\ DOMAIN cuts' = DOMAIN cuts /\ cuts' \in [DOMAIN cuts' -> SUBSET Resources]
         /\ snapshot' \in Snapshots \cup {None}
<1>1. text' \in [Resources -> Texts]
  <2>1. ASSUME NEW r \in Resources
        PROVE  (IF r \in P THEN Package[to][r] ELSE IF r \in Unused(D) THEN Absent ELSE text[r]) \in Texts
    BY TextsInTexts DEF Typed, TypeOK
  <2> QED
    BY <2>1 DEF Replaced
<1>2. snapshot' \in Snapshots \cup {None}
  <2>1. CASE snapshot = None
    BY <2>1 DEF Replaced
  <2>2. CASE snapshot # None
    <3>1. snapshot \in Snapshots
      BY <2>2 DEF Typed, TypeOK
    <3> QED
      BY <2>2, <3>1 DEF Replaced, Snapshots
  <2> QED
    BY <2>1, <2>2
<1>3. DOMAIN cuts' = DOMAIN cuts /\ cuts' \in [DOMAIN cuts' -> SUBSET Resources]
  <2>1. \A v \in DOMAIN cuts : cuts[v] \subseteq Resources
    BY DEF Typed, TypeOK
  <2> QED
    BY <2>1 DEF Replaced
<1> QED
  BY <1>1, <1>2, <1>3 DEF Replaced, Typed, TypeOK

LEMMA WritesTo ==
  ASSUME Typed, NEW t \in {"job"} \cup Updaters, Writes(t)
  PROVE  target[t] \in Versions /\ t \in Tasks /\ Keys(target[t]) \subseteq Resources
BY Names DEF Typed, Places, Writes, Keys

LEMMA ReplaceTypes == ASSUME Typed, NEW t \in {"job"} \cup Updaters, Replace(t) PROVE Typed'
<1> USE NoneIsNoVersion, Names
<1>1. target[t] \in Versions /\ t \in Tasks /\ Keys(target[t]) \subseteq Resources
  BY WritesTo DEF Replace
<1>2. /\ attached' \subseteq Resources /\ text' \in [Resources -> Texts]
      /\ DOMAIN cuts' \subseteq Versions /\ cuts' \in [DOMAIN cuts' -> SUBSET Resources]
      /\ snapshot' \in Snapshots \cup {None}
  BY <1>1, ReplacedTypes DEF Replace, Typed, TypeOK
<1>3. row' \in CheckRows \cup {None} /\ (row # None => row' # None)
  <2>1. CASE t = "job"
    <3>1. row \in CheckRows
      BY <2>1 DEF Replace, Writes, Typed, Places, TypeOK
    <3>2. row' \in CheckRows
      BY <1>1, <2>1, <3>1 DEF Replace, RowAfter, CheckRows
    <3> QED
      BY <3>2, NoneAssumption
  <2>2. CASE t # "job"
    BY <2>2 DEF Replace, RowAfter, Typed, TypeOK
  <2> QED
    BY <2>1, <2>2
<1>4. raced' \in [Tasks -> BOOLEAN] /\ clean' \in BOOLEAN
  BY <1>1, RacedType DEF Replace, Typed, TypeOK
<1>5. pc' = [u \in Tasks |-> IF u \in {t} THEN "idle" ELSE pc[u]]
  BY <1>1 DEF Replace, Ends, Goto, Typed, TypeOK
<1> QED
  BY <1>1, <1>2, <1>3, <1>4, <1>5, LeftTypes DEF Replace, Ends, Typed, TypeOK

LEMMA StopTypes == ASSUME Typed, NEW T \in SUBSET Tasks, T \subseteq Tasks, Stop(T) PROVE Typed'
<1> USE NoneIsNoVersion, Names
<1>1. failures' \in 0..MaxFailures
  BY BoundsAssumption DEF Stop, Typed, TypeOK
<1>2. clean' \in BOOLEAN
  BY DEF Stop, Typed, TypeOK
<1>3. CASE UNCHANGED library /\ raced' = [t \in Tasks |-> raced[t] /\ t \notin T]
  <2>1. raced' \in [Tasks -> BOOLEAN]
    BY <1>3
  <2> QED
    BY <1>1, <1>2, <1>3, <2>1, LeftTypes DEF Stop, library, Typed, TypeOK
<1>4. ASSUME NEW t \in T, LeavesPartOf(t), raced' = [u \in Tasks |-> Raced(t)[u] /\ u \notin T]
      PROVE  Typed'
  <2>1. t \in {"job"} \cup Updaters
    BY <1>4, Names DEF LeavesPartOf, Writes, Typed, TypeOK, Updaters
  <2>2. target[t] \in Versions /\ Keys(target[t]) \subseteq Resources
    BY <1>4, <2>1, WritesTo DEF LeavesPartOf
  <2>3. PICK P \in SUBSET Keys(target[t]), D \in SUBSET (attached \ Keys(target[t])) :
          Replaced(target[t], P, D)
    BY <1>4 DEF LeavesPartOf
  <2>4. /\ attached' \subseteq Resources /\ text' \in [Resources -> Texts]
        /\ DOMAIN cuts' \subseteq Versions /\ cuts' \in [DOMAIN cuts' -> SUBSET Resources]
        /\ snapshot' \in Snapshots \cup {None}
    BY <2>2, <2>3, ReplacedTypes DEF Typed, TypeOK
  <2>5. version' \in Versions /\ stamp' = stamp /\ dirty' = dirty
    BY <1>4, <2>2 DEF LeavesPartOf, Typed, TypeOK
  <2>6. raced' \in [Tasks -> BOOLEAN]
    BY <1>4
  <2> QED
    BY <1>1, <1>2, <2>4, <2>5, <2>6, LeftTypes DEF Stop, Typed, TypeOK
<1> QED
  BY <1>3, <1>4 DEF Stop

LEMMA AskOriginsTypes ==
  ASSUME Typed, NEW t \in Updaters \cup {"terminal"},
         AskOrigins(t, IF t = "terminal" THEN "origins" ELSE "asked")
  PROVE  Typed'
<1> USE NoneIsNoVersion, Names
<1>1. calls' \in 0..MaxCalls
  BY BoundsAssumption DEF AskOrigins, Typed, TypeOK
<1>2. (IF stamp = None THEN version ELSE stamp) \in Versions
  BY DEF Typed, TypeOK
<1>3. TypeOK'
  BY <1>1, <1>2 DEF Typed, TypeOK, AskOrigins, Goto, library, settings, history, Snapshots, Steps
<1> QED
  BY <1>2, <1>3 DEF Typed, TypeOK, Places, AskOrigins, Goto, library, settings, history

LEMMA UpdateTypes == ASSUME Typed, CheckOrigins \/ \E t \in Updaters : Update(t) PROVE Typed'
<1> USE Names
<1>1. CASE CheckOrigins
  BY <1>1, AskOriginsTypes DEF CheckOrigins
<1>2. ASSUME NEW t \in Updaters, Update(t)
      PROVE  Typed'
  <2>1. AskOrigins(t, IF t = "terminal" THEN "origins" ELSE "asked")
    BY <1>2 DEF Update
  <2> QED
    BY <2>1, AskOriginsTypes
<1> QED
  BY <1>1, <1>2

LEMMA OriginsTypes == ASSUME Typed, OriginsChecked PROVE Typed'
<1> USE NoneIsNoVersion, Names
<1>1. stamp' \in Versions \cup {None}
  BY DEF OriginsChecked, Stamped, Typed, TypeOK
<1>2. TypeOK'
  BY <1>1 DEF Typed, TypeOK, OriginsChecked, Goto, settings, bounds, history, Snapshots, Steps
<1> QED
  BY <1>2 DEF Typed, TypeOK, Places, OriginsChecked, Goto, settings, bounds, history

LEMMA AnswerTypes == ASSUME Typed, NEW t \in Updaters, Answer(t) PROVE Typed'
<1> USE NoneIsNoVersion, Names
<1>1. PICK latest \in published :
        target' = [target EXCEPT ![t] = latest] /\ Stamped(t, latest)
  BY DEF Answer
<1>2. latest \in Versions
  BY DEF Typed, TypeOK
<1>3. TypeOK'
  BY <1>1, <1>2 DEF Typed, TypeOK, Answer, Stamped, Goto, settings, bounds, history, Snapshots, Steps
<1> QED
  BY <1>1, <1>2, <1>3 DEF Typed, TypeOK, Places, Answer, Goto, settings, bounds, history

LEMMA UpToDateTypes == ASSUME Typed, NEW t \in Updaters, UpToDate(t) PROVE Typed'
<1>1. PICK latest \in published : Stamped(t, latest)
  BY DEF UpToDate
<1>2. latest \in Versions
  BY DEF Typed, TypeOK
<1>3. stamp' \in Versions \cup {None} /\ snapshot' = snapshot
  BY <1>1, <1>2 DEF Stamped, UpToDate, Typed, TypeOK
<1> QED
  BY <1>3, Names, EndsUnchangedTypes DEF UpToDate, Typed, TypeOK

\* What the user does to the library.
LEMMA ChangesTypes ==
  ASSUME Typed, Changes, attached' \subseteq Resources, dirty' \in BOOLEAN,
         snapshot' \in Snapshots \cup {None}, text' \in [Resources -> Texts],
         late' \subseteq Resources
  PROVE  Typed'
<1> USE NoneIsNoVersion, Names
<1>1. edits' \in 0..MaxEdits
  BY BoundsAssumption DEF Changes, Typed, TypeOK
<1>2. Snapshots' = Snapshots
  BY DEF Snapshots
<1>3. TypeOK'
  BY <1>1, <1>2 DEF Typed, TypeOK, Changes, settings
<1> QED
  BY <1>3 DEF Typed, TypeOK, Places, Changes, settings

LEMMA EditTypes ==
  ASSUME Typed, NEW r \in Resources, Edit(r) \/ Attach(r) \/ Detach(r)
  PROVE  Typed'
<1>1. CASE Edit(r)
  BY <1>1, TextsInTexts, ChangesTypes DEF Edit, Later, Typed, TypeOK
<1>2. CASE Attach(r)
  BY <1>2, ChangesTypes DEF Attach, MarkDirty, Later, Snapshots, Typed, TypeOK
<1>3. CASE Detach(r)
  BY <1>3, ChangesTypes DEF Detach, MarkDirty, Snapshots, Typed, TypeOK
<1> QED
  BY <1>1, <1>2, <1>3

LEMMA SettingTypes == ASSUME Typed, SetMode \/ Publish \/ Yank PROVE Typed'
<1> USE NoneIsNoVersion, Names
<1>1. TypeOK'
  BY DEF Typed, TypeOK, SetMode, Publish, Yank, library, bounds, history, Snapshots
<1> QED
  BY <1>1 DEF Typed, TypeOK, Places, SetMode, Publish, Yank, library, bounds, history

LEMMA CheckTypes == ASSUME Typed, Tick \/ Check PROVE Typed'
<1>1. CASE Tick
  BY <1>1, AskTypes DEF Tick, Typed, TypeOK
<1>2. CASE Check
  <2>1. calls' \in 0..MaxCalls
    BY <1>2, BoundsAssumption DEF Check, Typed, TypeOK
  <2> QED
    BY <1>2, <2>1, AskTypes DEF Check
<1> QED
  BY <1>1, <1>2

\* One disjunct per action.
LEMMA NextCases ==
  ASSUME Next
  PROVE  \/ Tick \/ Check \/ CheckOrigins \/ OriginsChecked
         \/ (\E c \in Checkers : Store(c) \/ Unreachable(c))
         \/ Plan \/ NothingToInstall \/ Compare \/ Skip \/ Cut \/ CutFails
         \/ (\E t \in {"job"} \cup Updaters : Replace(t) \/ Refuse(t))
         \/ (\E t \in Updaters : Update(t) \/ Answer(t) \/ UpToDate(t) \/ FetchFails(t))
         \/ (\E T \in SUBSET Tasks : Stop(T))
         \/ (\E r \in Resources : Edit(r) \/ Attach(r) \/ Detach(r))
         \/ SetMode \/ Publish \/ Yank
<1>1. CASE \E T \in {{t} : t \in Tasks} \cup {Sidecar} : Stop(T)
  BY <1>1, Names
<1>2. CASE JobSteps \/ Store("terminal") \/ Tick
  BY <1>2 DEF JobSteps, Checkers
<1>3. CASE \E t \in Updaters : UpdateSteps(t)
  BY <1>3 DEF UpdateSteps
<1> QED
  BY <1>1, <1>2, <1>3 DEF Next, Environment

LEMMA StepTypes == ASSUME Typed, [Next]_vars PROVE Typed'
<1>1. CASE Tick \/ Check \/ CheckOrigins \/ OriginsChecked
  BY <1>1, CheckTypes, UpdateTypes, OriginsTypes
<1>2. CASE \E c \in Checkers : Store(c) \/ Unreachable(c)
  BY <1>2, StoreTypes, UnreachableTypes
<1>3. CASE Plan \/ Compare \/ Cut \/ CutFails
  BY <1>3, PlanTypes, CompareTypes, CutTypes, CutFailsTypes
<1>4. CASE NothingToInstall
  BY <1>4, NothingTypes, Names DEF NothingToInstall
<1>5. CASE Skip
  BY <1>5, NothingTypes, Names DEF Skip
<1>6. ASSUME NEW t \in {"job"} \cup Updaters, Replace(t) \/ Refuse(t)
      PROVE  Typed'
  BY <1>6, ReplaceTypes, NothingTypes, Names DEF Refuse
<1>7. ASSUME NEW t \in Updaters, Update(t) \/ Answer(t) \/ UpToDate(t) \/ FetchFails(t)
      PROVE  Typed'
  BY <1>7, UpdateTypes, AnswerTypes, UpToDateTypes, NothingTypes, Names DEF FetchFails
<1>8. CASE \E T \in SUBSET Tasks : Stop(T)
  BY <1>8, StopTypes
<1>9. CASE (\E r \in Resources : Edit(r) \/ Attach(r) \/ Detach(r)) \/ SetMode \/ Publish \/ Yank
  BY <1>9, EditTypes, SettingTypes
<1>10. CASE UNCHANGED vars
  <2>1. TypeOK'
    BY <1>10 DEF vars, library, settings, bounds, history, Typed, TypeOK, Snapshots
  <2> QED
    BY <1>10, <2>1 DEF vars, library, settings, bounds, history, Typed, Places
<1> QED
  BY NextCases, <1>1, <1>2, <1>3, <1>4, <1>5, <1>6, <1>7, <1>8, <1>9, <1>10

\* Every variable has its type in every reachable state.
THEOREM UpstreamTypes == Spec => []TypeOK
<1>1. Spec => []Typed
  BY InitTypes, StepTypes, PTL DEF Spec
<1> QED
  BY <1>1, PTL DEF Typed

-----------------------------------------------------------------------------
(* What a step does to the library *)

\* The tasks of T end.
Ending(T) ==
  /\ pc' = [t \in Tasks |-> IF t \in T THEN "idle" ELSE pc[t]]
  /\ Left(T)

\* t writes its version, or a part of it, and ends with the others of T.
WritesPart(t, T) ==
  /\ Writes(t) /\ t \in T /\ Ending(T)
  /\ target[t] \notin DOMAIN cuts
  /\ \E P \in SUBSET Keys(target[t]), D \in SUBSET (attached \ Keys(target[t])) :
       Replaced(target[t], P, D)
  /\ version' = version \/ version' = target[t]
  /\ \A u \in Tasks \ T : raced'[u] = Raced(t)[u]

LEMMA ReplaceWrites ==
  ASSUME Typed, NEW t \in {"job"} \cup Updaters, Replace(t)
  PROVE  WritesPart(t, {t})
<1>1. t \in Tasks
  BY Names
<1>2. Ending({t})
  BY <1>1 DEF Replace, Ends, Goto, Ending, Typed, TypeOK
<1>3. \A u \in Tasks \ {t} : raced'[u] = Raced(t)[u]
  BY <1>1, RacedType DEF Replace
<1> QED
  BY <1>2, <1>3 DEF Replace, WritesPart

LEMMA StopWrites ==
  ASSUME Typed, NEW T \in SUBSET Tasks, Stop(T)
  PROVE  /\ Ending(T)
         /\ \/ UNCHANGED library /\ \A u \in Tasks \ T : raced'[u] = raced[u]
            \/ \E t \in T \cap ({"job"} \cup Updaters) : WritesPart(t, T)
<1>1. Ending(T)
  BY DEF Stop, Ending
<1>2. CASE UNCHANGED library /\ raced' = [t \in Tasks |-> raced[t] /\ t \notin T]
  BY <1>1, <1>2 DEF Typed, TypeOK
<1>3. ASSUME NEW t \in T, LeavesPartOf(t), raced' = [u \in Tasks |-> Raced(t)[u] /\ u \notin T]
      PROVE  t \in {"job"} \cup Updaters /\ WritesPart(t, T)
  <2>1. t \in {"job"} \cup Updaters
    BY <1>3, Names DEF LeavesPartOf, Writes, Typed, TypeOK, Updaters
  <2>2. \A u \in Tasks \ T : raced'[u] = Raced(t)[u]
    BY <1>3, RacedType
  <2> QED
    BY <1>1, <1>3, <2>1, <2>2 DEF LeavesPartOf, WritesPart
<1> QED
  BY <1>1, <1>2, <1>3 DEF Stop

\* A write keeps the cuts, and its writer goes idle.
LEMMA WritesKeepCuts ==
  ASSUME Typed, NEW t \in {"job"} \cup Updaters, NEW T \in SUBSET Tasks, WritesPart(t, T)
  PROVE  /\ DOMAIN cuts' = DOMAIN cuts /\ \A v \in DOMAIN cuts : cuts'[v] = cuts[v]
         /\ t \in Updaters => WrittenBy(t)
<1>1. t \in Tasks /\ pc'[t] = "idle" /\ pc[t] # "idle"
  BY Names DEF WritesPart, Writes, Ending
<1> QED
  BY <1>1 DEF WritesPart, Replaced, Unused, WrittenBy

LEMMA CutKeepsCuts ==
  ASSUME Typed, Cut
  PROVE  DOMAIN cuts \subseteq DOMAIN cuts' /\ \A v \in DOMAIN cuts : cuts'[v] = cuts[v]
BY DEF Cut, Freeze, CutFits

\* What is neither the cut, a write nor an edit leaves the library alone.
LEMMA LibraryCases ==
  ASSUME Typed, [Next]_vars
  PROVE  \/ UNCHANGED <<version, attached, text, cuts>>
         \/ Cut
         \/ \E T \in SUBSET Tasks : \E t \in T \cap ({"job"} \cup Updaters) : WritesPart(t, T)
         \/ \E r \in Resources : Edit(r) \/ Attach(r) \/ Detach(r)
<1>1. CASE \/ Tick \/ Check \/ CheckOrigins \/ OriginsChecked
           \/ \E c \in Checkers : Store(c) \/ Unreachable(c)
  BY <1>1 DEF Tick, Check, CheckOrigins, AskOrigins, OriginsChecked, Store, Unreachable, Ask, Checked, library
<1>2. CASE Plan \/ Compare \/ NothingToInstall \/ Skip \/ CutFails
  BY <1>2 DEF Plan, Compare, NothingToInstall, Skip, CutFails, EndsUnchanged, library
<1>3. ASSUME NEW t \in {"job"} \cup Updaters, Replace(t)
      PROVE  \E T \in SUBSET Tasks : t \in T /\ WritesPart(t, T)
  BY <1>3, ReplaceWrites, Names
<1>4. ASSUME NEW t \in {"job"} \cup Updaters, Refuse(t)
      PROVE  UNCHANGED <<version, attached, text, cuts>>
  BY <1>4 DEF Refuse, EndsUnchanged
<1>5. ASSUME NEW t \in Updaters, Update(t) \/ Answer(t) \/ UpToDate(t) \/ FetchFails(t)
      PROVE  UNCHANGED <<version, attached, text, cuts>>
  BY <1>5 DEF Update, AskOrigins, Answer, UpToDate, FetchFails, EndsUnchanged, library
<1>6. ASSUME NEW T \in SUBSET Tasks, Stop(T)
      PROVE  \/ UNCHANGED <<version, attached, text, cuts>>
             \/ \E t \in T \cap ({"job"} \cup Updaters) : WritesPart(t, T)
  BY <1>6, StopWrites DEF library
<1>7. CASE SetMode \/ Publish \/ Yank \/ UNCHANGED vars
  BY <1>7 DEF SetMode, Publish, Yank, library, vars
<1> QED
  BY NextCases, <1>1, <1>2, <1>3, <1>4, <1>5, <1>6, <1>7

\* No update or installation takes anything from a frozen cut.
THEOREM FrozenCutsAreKept == Spec => CutsAreKept
<1>1. ASSUME Typed, [Next]_vars
      PROVE  \A v \in DOMAIN cuts : v \in DOMAIN cuts' /\ cuts'[v] = cuts[v]
  <2>1. ASSUME NEW r \in Resources, Edit(r) \/ Attach(r) \/ Detach(r)
        PROVE  cuts' = cuts
    BY <2>1 DEF Edit, Attach, Detach, Changes
  <2> QED
    BY <1>1, <2>1, LibraryCases, WritesKeepCuts, CutKeepsCuts
<1> QED
  BY <1>1, InitTypes, StepTypes, PTL DEF Spec, CutsAreKept

-----------------------------------------------------------------------------
(* Where the tasks are *)

\* u starts; a check of the sidecar starts without the lock when it is manual.
Starts(u) ==
  /\ pc[u] = "idle" /\ \E place \in {"asked", "origins"} : pc' = [pc EXCEPT ![u] = place]
  /\ u \in Updaters => CanEnter(u)
  /\ u = "job" => CanEnter(u) \/ run' = "manual"
  /\ u # "job" => run' = run

\* u is where it was, with what it had read.
Stays(u) ==
  /\ pc'[u] = pc[u] /\ seen'[u] = seen[u] /\ target'[u] = target[u]
  /\ raced[u] => raced'[u]
  /\ u = "job" => run' = run /\ late \subseteq late'

JobMoves == Checked("job") \/ Plan \/ Compare \/ Cut

LEMMA EndingCases ==
  ASSUME Typed, NEW T \in SUBSET Tasks, Ending(T), NEW u \in Tasks, u \notin T => (raced[u] => raced'[u])
  PROVE  pc'[u] = "idle" \/ Stays(u)
BY DEF Ending, Left, Stays, Typed, TypeOK

LEMMA EndsUnchangedCases ==
  ASSUME Typed, NEW t \in Tasks, NEW from, EndsUnchanged(t, from), NEW u \in Tasks
  PROVE  pc'[u] = "idle" \/ Stays(u)
<1>1. Ending({t})
  BY DEF EndsUnchanged, Ends, Goto, Ending, Typed, TypeOK
<1>2. u \notin {t} => (raced[u] => raced'[u])
  BY DEF EndsUnchanged, Typed, TypeOK
<1> QED
  BY <1>1, <1>2, EndingCases

LEMMA TaskCases ==
  ASSUME Typed, [Next]_vars, NEW u \in Tasks
  PROVE  \/ pc'[u] = "idle" \/ Starts(u) \/ Stays(u)
         \/ u = "job" /\ JobMoves
         \/ u \in Updaters /\ Answer(u)
         \/ u = "terminal" /\ OriginsChecked
<1> USE Names
<1>1. CASE Tick
  BY <1>1 DEF Tick, Ask, Goto, Starts, Stays, history, Typed, TypeOK
<1>2. CASE Check
  BY <1>2 DEF Check, Ask, Goto, Starts, Stays, history, Typed, TypeOK
<1>3. ASSUME NEW c \in Checkers, Checked(c)
      PROVE  (u = "job" /\ JobMoves) \/ pc'[u] = "idle" \/ Stays(u)
  BY <1>3 DEF Checked, Goto, Stays, history, Typed, TypeOK, Checkers, JobMoves
<1>4. CASE Plan \/ Compare
  BY <1>4 DEF Plan, Compare, JobMoves, Goto, Stays, history, Typed, TypeOK
<1>5. CASE Cut
  <2>1. CASE u = "job"
    BY <1>5, <2>1 DEF JobMoves
  <2>2. CASE u # "job"
    <3>1. raced[u] => raced'[u]
      BY <1>5 DEF Cut, Raced
    <3> QED
      BY <1>5, <2>2, <3>1 DEF Cut, Goto, Stays, Typed, TypeOK
  <2> QED
    BY <2>1, <2>2
<1>6. CASE NothingToInstall \/ Skip \/ CutFails
  BY <1>6, EndsUnchangedCases DEF NothingToInstall, Skip, CutFails
<1>7. ASSUME NEW t \in {"job"} \cup Updaters, Refuse(t)
      PROVE  pc'[u] = "idle" \/ Stays(u)
  BY <1>7, EndsUnchangedCases DEF Refuse
<1>8. ASSUME NEW t \in Updaters, UpToDate(t) \/ FetchFails(t)
      PROVE  pc'[u] = "idle" \/ Stays(u)
  BY <1>8, EndsUnchangedCases DEF UpToDate, FetchFails
<1>9. ASSUME NEW t \in {"job"} \cup Updaters, NEW T \in SUBSET Tasks, WritesPart(t, T)
      PROVE  pc'[u] = "idle" \/ Stays(u)
  <2>1. u \notin T => (raced[u] => raced'[u])
    BY <1>9 DEF WritesPart, Raced
  <2> QED
    BY <1>9, <2>1, EndingCases DEF WritesPart
<1>10. ASSUME NEW t \in {"job"} \cup Updaters, Replace(t)
       PROVE  pc'[u] = "idle" \/ Stays(u)
  <2>1. WritesPart(t, {t})
    BY <1>10, ReplaceWrites
  <2> QED
    BY <2>1, <1>9
<1>11. ASSUME NEW T \in SUBSET Tasks, Stop(T)
       PROVE  pc'[u] = "idle" \/ Stays(u)
  <2>1. CASE \A w \in Tasks \ T : raced'[w] = raced[w]
    BY <1>11, <2>1, StopWrites, EndingCases
  <2> QED
    BY <1>11, <2>1, <1>9, StopWrites
<1>12. ASSUME NEW t \in Updaters, Update(t)
       PROVE  Starts(u) \/ Stays(u)
  BY <1>12 DEF Update, AskOrigins, Goto, Starts, Stays, history, Typed, TypeOK
<1>13. ASSUME NEW t \in Updaters, Answer(t)
       PROVE  (u \in Updaters /\ Answer(u)) \/ Stays(u)
  <2>1. CASE u = t
    BY <1>13, <2>1
  <2>2. CASE u # t
    BY <1>13, <2>2 DEF Answer, Goto, Stays, history, Typed, TypeOK
  <2> QED
    BY <2>1, <2>2
<1>14. ASSUME NEW r \in Resources, Edit(r) \/ Attach(r) \/ Detach(r)
       PROVE  Stays(u)
  BY <1>14 DEF Edit, Attach, Detach, Changes, Later, Stays
<1>15. CASE SetMode \/ Publish \/ Yank \/ UNCHANGED vars
  BY <1>15 DEF SetMode, Publish, Yank, vars, history, Stays
<1>16. CASE CheckOrigins
  BY <1>16 DEF CheckOrigins, AskOrigins, Goto, Starts, Stays, history, Typed, TypeOK, Updaters
<1>17. CASE OriginsChecked
  BY <1>17 DEF OriginsChecked, Goto, Stays, history, Typed, TypeOK
<1> QED
  BY NextCases, <1>1, <1>2, <1>3, <1>4, <1>5, <1>6, <1>7, <1>8, <1>10, <1>11, <1>12, <1>13, <1>14, <1>15,
     <1>16, <1>17
     DEF Store, Unreachable

-----------------------------------------------------------------------------
(* An edit is not overwritten by the installation *)

\* What the job compared holds no text of the user's that was there then.
NotEdited ==
  pc["job"] \in {"compared", "cut"} => \A r \in attached \ late : text[r] # User

LEMMA WritesNoUserText ==
  ASSUME Typed, NEW t \in {"job"} \cup Updaters, NEW T \in SUBSET Tasks, WritesPart(t, T),
         NEW r \in attached', text'[r] = User
  PROVE  r \in attached /\ text[r] = User
<1>1. PICK P \in SUBSET Keys(target[t]), D \in SUBSET (attached \ Keys(target[t])) :
        Replaced(target[t], P, D)
  BY DEF WritesPart
<1>2. target[t] \in Versions /\ Keys(target[t]) \subseteq Resources
  BY WritesTo DEF WritesPart
<1>3. r \in Resources
  BY <1>1, <1>2 DEF Replaced, Typed, TypeOK
<1>4. r \notin P
  BY <1>1, <1>2, <1>3, TextsAssumption DEF Replaced
<1> QED
  BY <1>1, <1>3, <1>4, TextsAssumption DEF Replaced

LEMMA StepNotEdited == ASSUME Typed, NotEdited, [Next]_vars PROVE NotEdited'
<1> SUFFICES ASSUME pc'["job"] \in {"compared", "cut"}, NEW r \in attached' \ late', text'[r] = User
             PROVE  FALSE
  BY DEF NotEdited
<1> USE Names
<1>1. CASE Compare
  <2>1. seen["job"] \in Versions /\ r \in attached /\ text[r] = User
    BY <1>1 DEF Compare, Goto, library, Typed, Places
  <2> QED
    BY <1>1, <2>1, TextsAssumption DEF Compare, Unedited, Matches, Typed, TypeOK
<1>2. CASE pc["job"] \in {"compared", "cut"} /\ late \subseteq late'
  <2>1. ~(r \in attached /\ text[r] = User)
    BY <1>2 DEF NotEdited
  <2>2. CASE UNCHANGED <<version, attached, text, cuts>> \/ Cut
    BY <2>1, <2>2 DEF Cut
  <2>3. ASSUME NEW T \in SUBSET Tasks, NEW t \in T \cap ({"job"} \cup Updaters), WritesPart(t, T)
        PROVE  FALSE
    BY <2>1, <2>3, WritesNoUserText
  <2>4. ASSUME NEW q \in Resources, Edit(q) \/ Attach(q) \/ Detach(q)
        PROVE  FALSE
    <3>1. CASE Edit(q) \/ Attach(q)
      <4>1. late' = late \cup {q}
        BY <1>2, <3>1 DEF Edit, Attach, Later
      <4> QED
        BY <2>1, <3>1, <4>1 DEF Edit, Attach, Typed, TypeOK
    <3>2. CASE Detach(q)
      BY <2>1, <3>2 DEF Detach
    <3> QED
      BY <2>4, <3>1, <3>2
  <2> QED
    BY <2>2, <2>3, <2>4, LibraryCases
<1>3. CASE Cut
  BY <1>2, <1>3 DEF Cut, Goto
<1>4. ~Starts("job") /\ ~Checked("job") /\ ~Plan
  BY DEF Starts, Checked, Plan, Goto, Typed, TypeOK
<1> QED
  BY <1>1, <1>2, <1>3, <1>4, TaskCases DEF Stays, JobMoves

\* The unattended installation spares what the user edited before it compared.
THEOREM EditsAreSpared == Spec => EditIsNotOverwritten
<1>1. ASSUME Typed, NotEdited, [Next]_vars
      PROVE  \A r \in attached \ late : text[r] = User /\ text'[r] # User =>
               \E t \in Updaters : WrittenBy(t)
  <2> SUFFICES ASSUME NEW r \in attached \ late, text[r] = User, text'[r] # User
               PROVE  \E t \in Updaters : WrittenBy(t)
    OBVIOUS
  <2>1. ~(UNCHANGED <<version, attached, text, cuts>> \/ Cut)
    BY DEF Cut
  <2>2. ASSUME NEW q \in Resources PROVE ~(Edit(q) \/ Attach(q) \/ Detach(q))
    BY <1>1 DEF Edit, Attach, Detach, Typed, TypeOK
  <2>3. PICK T \in SUBSET Tasks : \E t \in T \cap ({"job"} \cup Updaters) : WritesPart(t, T)
    BY <1>1, <2>1, <2>2, LibraryCases
  <2>4. ~WritesPart("job", T)
    BY <1>1 DEF NotEdited, WritesPart, Writes
  <2> QED
    BY <1>1, <2>3, <2>4, WritesKeepCuts
<1>2. Init => NotEdited
  BY Names DEF Init, NotEdited
<1> QED
  BY <1>1, <1>2, InitTypes, StepTypes, StepNotEdited, PTL DEF Spec, EditIsNotOverwritten

-----------------------------------------------------------------------------
(* The unattended installation stays in the range *)

InJob == {"stored", "planned", "compared", "cut"}

\* One process holds the lock, and the job that installs holds it.
Apart ==
  /\ \A t, u \in Holders : SameProcess(t, u)
  /\ pc["job"] \in InJob => run = "install"

LEMMA JobHolds ==
  ASSUME Typed, Apart
  PROVE  /\ pc["job"] \in InJob => "job" \in Holders
         /\ \A t \in Updaters : pc[t] # "idle" => t \in Holders
BY DEF Apart, Holders, InJob

LEMMA HoldersCases ==
  ASSUME Typed, Apart, [Next]_vars, NEW u \in Holders'
  PROVE  u \in Holders \/ (Starts(u) /\ CanEnter(u))
<1> USE Names
<1>1. u \in Tasks /\ pc'[u] # "idle" /\ (u = "job" => run' # "manual")
  BY DEF Holders
<1>2. u \in {"job"} \cup Updaters
  BY DEF Holders
<1>3. CASE Starts(u)
  BY <1>1, <1>2, <1>3 DEF Starts
<1>4. CASE Stays(u)
  BY <1>1, <1>2, <1>4 DEF Stays, Holders
<1>5. CASE u = "job" /\ Checked("job")
  BY <1>1, <1>5 DEF Checked, Goto, Holders, Typed, TypeOK
<1>6. CASE u = "job" /\ (Plan \/ Compare \/ Cut)
  <2>1. pc["job"] \in InJob
    BY <1>6 DEF Plan, Compare, Cut, Goto, InJob
  <2> QED
    BY <1>6, <2>1, JobHolds
<1>7. CASE u \in Updaters /\ Answer(u)
  BY <1>7, JobHolds DEF Answer, Goto
<1> QED
  BY <1>1, <1>2, <1>3, <1>4, <1>5, <1>6, <1>7, TaskCases DEF JobMoves

LEMMA StepApart == ASSUME Typed, Apart, [Next]_vars PROVE Apart'
<1> USE Names
<1>1. ASSUME NEW t \in Holders', NEW u \in Holders'
      PROVE  SameProcess(t, u)
  <2>1. CASE t = u
    BY <2>1 DEF SameProcess
  <2>2. ASSUME t # u, Starts(t), u \notin Holders
        PROVE  FALSE
    <3>1. Starts(u) /\ t \in Tasks /\ u \in Tasks
      BY <2>2, HoldersCases DEF Holders
    <3> QED
      BY <2>2, <3>1 DEF Starts, Typed, TypeOK
  <2> QED
    BY <2>1, <2>2, HoldersCases DEF Apart, CanEnter, SameProcess
<1>2. ASSUME pc'["job"] \in InJob
      PROVE  run' = "install"
  <2>1. CASE Starts("job")
    BY <1>2, <2>1 DEF Starts, InJob, Typed, TypeOK
  <2>2. CASE Stays("job")
    BY <1>2, <2>2 DEF Stays, Apart
  <2>3. CASE Checked("job")
    BY <1>2, <2>3 DEF Checked, Goto, InJob, Typed, TypeOK
  <2>4. CASE Plan \/ Compare \/ Cut
    BY <2>4 DEF Plan, Compare, Cut, Goto, InJob, Apart
  <2> QED
    BY <1>2, <2>1, <2>2, <2>3, <2>4, TaskCases DEF JobMoves, InJob
<1>3. \A t, u : SameProcess(t, u)' <=> SameProcess(t, u)
  BY DEF SameProcess
<1> QED
  BY <1>1, <1>2, <1>3 DEF Apart

\* What the job installs is in the range of the head it was chosen for, and that
\* head is still there unless another task of the process has changed it.
Chosen ==
  /\ pc["job"] \in {"planned", "compared", "cut"} /\ ~raced["job"] => target["job"] \in Caret(version)
  /\ pc["job"] \in {"planned", "compared"} /\ ~raced["job"] => seen["job"] = version

\* Another task changes the head under u only within u's process.
LEMMA ChangedUnder ==
  ASSUME Typed, Apart, NEW t \in Holders, NEW u \in Holders, t # u, target[u] # None
  PROVE  Raced(t)[u] /\ u # "update"
BY Names DEF Apart, Raced, SameProcess, Holders, Sidecar, Updaters

LEMMA VersionMoves ==
  ASSUME Typed, Apart, [Next]_vars, NEW u \in Holders, Stays(u), target[u] # None, version' # version
  PROVE  raced'[u] /\ u # "update"
<1> USE Names
<1>1. u \in Tasks /\ pc'[u] # "idle"
  BY DEF Holders, Stays
<1>2. CASE Cut
  <2>1. raced' = Raced("job") /\ pc["job"] \in InJob /\ pc'["job"] # pc["job"]
    BY <1>2 DEF Cut, Goto, InJob, Typed, TypeOK
  <2> QED
    BY <2>1, JobHolds, ChangedUnder DEF Stays
<1>3. ASSUME NEW T \in SUBSET Tasks, NEW t \in T \cap ({"job"} \cup Updaters), WritesPart(t, T)
      PROVE  raced'[u] /\ u # "update"
  <2>1. t \in Holders
    BY <1>3, JobHolds DEF WritesPart, Writes, InJob
  <2>2. u \notin T /\ raced'[u] = Raced(t)[u]
    BY <1>1, <1>3 DEF WritesPart, Ending
  <2> QED
    BY <1>3, <2>1, <2>2, ChangedUnder
<1>4. ASSUME NEW r \in Resources, Edit(r) \/ Attach(r) \/ Detach(r)
      PROVE  version' = version
  BY <1>4 DEF Edit, Attach, Detach, Changes
<1> QED
  BY <1>2, <1>3, <1>4, LibraryCases

LEMMA CaretStarts == \A v \in Versions : v \in Caret(v)
BY BoundsAssumption DEF Caret, Versions

LEMMA StepChosen == ASSUME Typed, Apart, Chosen, [Next]_vars PROVE Chosen'
<1> USE Names
<1> SUFFICES ASSUME ~raced'["job"]
             PROVE  /\ pc'["job"] \in {"planned", "compared", "cut"} =>
                         target'["job"] \in Caret(version')
                    /\ pc'["job"] \in {"planned", "compared"} => seen'["job"] = version'
  BY DEF Chosen, Caret
<1>1. CASE pc'["job"] \notin {"planned", "compared", "cut"}
  BY <1>1
<1>2. CASE Stays("job") /\ pc["job"] \in {"planned", "compared", "cut"}
  <2>1. "job" \in Holders /\ target["job"] # None
    BY <1>2, JobHolds, NoneIsNoVersion DEF InJob, Typed, Places
  <2>2. version' = version
    BY <1>2, <2>1, VersionMoves
  <2> QED
    BY <1>2, <2>2 DEF Stays, Chosen
<1>3. CASE Plan
  <2>1. row # None
    BY <1>3 DEF Plan, Goto, Typed, Places
  <2> QED
    BY <1>3, <2>1, PlannedVersion DEF Plan, library, Typed, TypeOK
<1>4. CASE Compare
  BY <1>4 DEF Compare, Goto, library, history, Chosen
<1>5. CASE Cut
  <2>1. pc'["job"] = "cut" /\ target'["job"] = target["job"] /\ target["job"] \in Versions
    BY <1>5 DEF Cut, Goto, Typed, TypeOK, Places
  <2>2. CASE version' = version
    <3>1. ~raced["job"]
      BY <1>5 DEF Cut, Raced
    <3> QED
      BY <1>5, <2>1, <2>2, <3>1 DEF Cut, Goto, Chosen
  <2>3. CASE version' = target["job"]
    BY <2>1, <2>3, CaretStarts
  <2> QED
    BY <1>5, <2>1, <2>2, <2>3 DEF Cut, Freeze
<1>6. CASE Starts("job") \/ Checked("job")
  BY <1>6 DEF Starts, Checked, Goto, Typed, TypeOK
<1> QED
  BY <1>1, <1>2, <1>3, <1>4, <1>5, <1>6, TaskCases DEF JobMoves, Stays

LEMMA InitChosen == Init => Apart /\ Chosen
BY Names DEF Init, Apart, Chosen, Holders, InJob

\* A step that changes the version goes up the line, or is an update's or that
\* of an installation that has raced.
LEMMA StepInLine ==
  ASSUME Typed, Apart, Chosen, [Next]_vars, version' # version
  PROVE  \/ version' \in Caret(version)
         \/ \E t \in Updaters : WrittenBy(t)
         \/ raced["job"] /\ pc'["job"] # pc["job"]
<1> USE Names
<1>1. CASE Cut
  <2>1. pc["job"] = "compared" /\ pc'["job"] = "cut" /\ version' = target["job"]
    BY <1>1 DEF Cut, Freeze, Goto, Typed, TypeOK
  <2> QED
    BY <2>1 DEF Chosen
<1>2. ASSUME NEW T \in SUBSET Tasks, WritesPart("job", T)
      PROVE  version' \in Caret(version) \/ (raced["job"] /\ pc'["job"] # pc["job"])
  <2>1. version' = target["job"] /\ pc["job"] = "cut" /\ pc'["job"] = "idle"
    BY <1>2 DEF WritesPart, Writes, Ending
  <2> QED
    BY <2>1 DEF Chosen
<1>3. ASSUME NEW r \in Resources, Edit(r) \/ Attach(r) \/ Detach(r)
      PROVE  version' = version
  BY <1>3 DEF Edit, Attach, Detach, Changes
<1> QED
  BY <1>1, <1>2, <1>3, LibraryCases, WritesKeepCuts

Steady == Typed /\ Apart /\ Chosen

LEMMA SteadyHolds == Spec => []Steady
<1>1. Init => Steady
  BY InitTypes, InitChosen DEF Steady
<1>2. Steady /\ [Next]_vars => Steady'
  BY StepTypes, StepApart, StepChosen DEF Steady
<1> QED
  BY <1>1, <1>2, PTL DEF Spec

\* Whatever the catalog publishes, withdraws or calls the latest and whatever
\* updates run beside it, the unattended installation takes the head to a version
\* of its own caret range, unless an update that joined it has changed the head.
THEOREM UnattendedInstallsStayInRange == Spec => UnattendedStaysInRange
<1>1. Steady /\ [Next]_vars =>
        (version' # version =>
           \/ version' \in Caret(version)
           \/ \E t \in Updaters : WrittenBy(t)
           \/ raced["job"] /\ pc'["job"] # pc["job"])
  BY StepInLine DEF Steady
<1> QED
  BY <1>1, SteadyHolds, PTL DEF Spec, UnattendedStaysInRange

-----------------------------------------------------------------------------
(* A plugin left alone is the published one *)

HeadIsNotCut == version \notin DOMAIN cuts

LEMMA StepHeadIsNotCut == ASSUME Typed, HeadIsNotCut, [Next]_vars PROVE HeadIsNotCut'
<1>1. CASE Cut
  <2>1. CASE UNCHANGED <<cuts, version>>
    BY <2>1 DEF HeadIsNotCut
  <2>2. CASE Freeze(target["job"])
    <3>1. DOMAIN cuts' = DOMAIN cuts \cup {SnapshotNow.version} /\ version' = target["job"]
      BY <2>2 DEF Freeze
    <3> QED
      BY <2>2, <3>1 DEF Freeze, CutChecked, CutFits, HeadIsNotCut
  <2> QED
    BY <1>1, <2>1, <2>2 DEF Cut
<1>2. ASSUME NEW T \in SUBSET Tasks, NEW t \in T \cap ({"job"} \cup Updaters), WritesPart(t, T)
      PROVE  HeadIsNotCut'
  BY <1>2, WritesKeepCuts DEF WritesPart, HeadIsNotCut
<1>3. ASSUME NEW r \in Resources, Edit(r) \/ Attach(r) \/ Detach(r)
      PROVE  HeadIsNotCut'
  BY <1>3 DEF Edit, Attach, Detach, Changes, HeadIsNotCut
<1> QED
  BY <1>1, <1>2, <1>3, LibraryCases DEF HeadIsNotCut

\* Nothing was left over, and an installation that has cut has a free target.
Untouched ==
  clean => /\ snapshot = None
           /\ pc["job"] = "cut" => seen["job"] \in DOMAIN cuts /\ target["job"] \notin DOMAIN cuts
           /\ pc["job"] = "cut" \/ Matches(version)
           /\ \A v \in DOMAIN cuts : cuts[v] = Keys(v)

\* The plugin is as it was, and so is the job if it has cut.
Calm ==
  /\ UNCHANGED <<version, attached, text, cuts, snapshot>>
  /\ clean' => clean
  /\ clean' /\ pc["job"] = "cut" => pc'["job"] = "cut"
  /\ pc'["job"] = "cut" => pc["job"] = "cut" /\ UNCHANGED <<seen["job"], target["job"]>>

LEMMA CalmKeeps == ASSUME Untouched, Calm PROVE Untouched'
BY DEF Untouched, Calm, Matches, Keys

LEMMA CutKeeps == ASSUME Steady, HeadIsNotCut, Untouched, Cut PROVE Untouched'
<1> USE Names
<1> SUFFICES ASSUME clean'
             PROVE  /\ snapshot' = None
                    /\ seen'["job"] \in DOMAIN cuts' /\ target'["job"] \notin DOMAIN cuts'
                    /\ \A v \in DOMAIN cuts' : cuts'[v] = Keys(v)
  <2>1. pc'["job"] = "cut"
    BY DEF Cut, Goto, Steady, Typed, TypeOK
  <2> QED
    BY <2>1 DEF Untouched, Keys
<1>1. clean /\ ~raced["job"] /\ pc["job"] = "compared"
  BY DEF Cut, Goto, Steady, Typed, TypeOK
<1>2. seen["job"] = version /\ snapshot = None /\ Matches(version)
  BY <1>1 DEF Steady, Chosen, Untouched
<1>3. Freeze(target["job"])
  BY <1>2 DEF Cut, HeadIsNotCut
<1>4. SnapshotNow.version = version /\ SnapshotNow.keys = Keys(version)
  BY <1>2 DEF SnapshotNow, Matches
<1>5. DOMAIN cuts' = DOMAIN cuts \cup {version} /\ \A v \in DOMAIN cuts' : cuts'[v] = Keys(v)
  BY <1>1, <1>3, <1>4 DEF Freeze, Untouched
<1>6. seen' = seen /\ target' = target /\ snapshot' = None
  BY <1>3 DEF Cut, Freeze
<1> QED
  BY <1>2, <1>3, <1>5, <1>6 DEF Freeze, CutChecked

LEMMA ReplaceKeeps ==
  ASSUME Steady, Untouched, NEW t \in {"job"} \cup Updaters, Replace(t)
  PROVE  Untouched'
<1> USE Names
<1> SUFFICES ASSUME clean' PROVE Untouched'
  BY DEF Untouched
<1>1. clean /\ snapshot = None /\ \A v \in DOMAIN cuts : cuts[v] = Keys(v)
  BY DEF Replace, Steady, Typed, TypeOK, Untouched
<1>2. target[t] \in Versions /\ Keys(target[t]) \subseteq Resources /\ attached \subseteq Resources
  BY WritesTo DEF Replace, Steady, Typed, TypeOK
<1>3. attached' = Keys(target[t]) /\ version' = target[t] /\ snapshot' = None
  BY <1>1 DEF Replace, Replaced
<1>4. \A r \in attached' : text'[r] = Package[version'][r]
  BY <1>2, <1>3 DEF Replace, Replaced
<1>5. Matches(version)'
  BY <1>3, <1>4 DEF Matches, Keys
<1>6. WritesPart(t, {t}) /\ {t} \in SUBSET Tasks
  BY ReplaceWrites DEF Steady
<1>7. DOMAIN cuts' = DOMAIN cuts /\ \A v \in DOMAIN cuts : cuts'[v] = cuts[v]
  BY <1>6, WritesKeepCuts DEF Steady
<1>8. pc'["job"] = "cut" =>
        pc["job"] = "cut" /\ seen'["job"] = seen["job"] /\ target'["job"] = target["job"]
  BY DEF Replace, Ends, Goto, Left, Writes, Steady, Typed, TypeOK
<1> QED
  BY <1>1, <1>3, <1>5, <1>7, <1>8 DEF Untouched, Keys

LEMMA EndsUnchangedIsCalm ==
  ASSUME Typed, NEW t \in Tasks, NEW from, EndsUnchanged(t, from), snapshot' = snapshot,
         t = "job" => from # "cut"
  PROVE  Calm
BY Names DEF EndsUnchanged, Ends, Goto, Left, Calm, Typed, TypeOK

LEMMA CutFailsIsCalm ==
  ASSUME Steady, HeadIsNotCut, Untouched, CutFails
  PROVE  Untouched'
<1>1. CASE snapshot' = snapshot
  BY <1>1, EndsUnchangedIsCalm, CalmKeeps, Names DEF CutFails, Steady
<1>2. CASE snapshot' # snapshot
  <2>1. CutChecked(target["job"]) /\ ~CutFits(target["job"]) /\ clean' = clean
    BY <1>2 DEF CutFails, EndsUnchanged
  <2>2. ~clean
    BY <2>1 DEF Untouched, HeadIsNotCut, CutChecked, CutFits, SnapshotNow
  <2> QED
    BY <2>1, <2>2 DEF Untouched
<1> QED
  BY <1>1, <1>2

LEMMA StepUntouched ==
  ASSUME Steady, HeadIsNotCut, Untouched, [Next]_vars
  PROVE  Untouched'
<1> USE Names
<1>0. Typed
  BY DEF Steady
<1>1. CASE Tick \/ Check \/ CheckOrigins \/ OriginsChecked
  <2>1. Calm
    BY <1>0, <1>1 DEF Tick, Check, Ask, CheckOrigins, AskOrigins, OriginsChecked, Goto, library, history,
                      Calm, Typed, TypeOK
  <2> QED
    BY <2>1, CalmKeeps
<1>2. ASSUME NEW c \in Checkers, Store(c) \/ Unreachable(c)
      PROVE  Untouched'
  <2>1. Calm
    BY <1>0, <1>2 DEF Store, Unreachable, Checked, Goto, library, history, Calm, Typed, TypeOK
  <2> QED
    BY <2>1, CalmKeeps
<1>3. CASE Plan \/ Compare
  <2>1. Calm
    BY <1>0, <1>3 DEF Plan, Compare, Goto, library, history, Calm, Typed, TypeOK
  <2> QED
    BY <2>1, CalmKeeps
<1>4. CASE NothingToInstall \/ Skip
  BY <1>0, <1>4, EndsUnchangedIsCalm, CalmKeeps DEF NothingToInstall, Skip
<1>5. CASE Cut \/ CutFails
  BY <1>5, CutKeeps, CutFailsIsCalm
<1>6. ASSUME NEW t \in {"job"} \cup Updaters, Replace(t)
      PROVE  Untouched'
  BY <1>6, ReplaceKeeps
<1>7. ASSUME NEW t \in {"job"} \cup Updaters, Refuse(t)
      PROVE  Untouched'
  <2>1. CASE t = "job"
    <3>1. pc["job"] = "cut" /\ target["job"] \in DOMAIN cuts /\ clean' = clean
      BY <1>7, <2>1 DEF Refuse, Writes, EndsUnchanged
    <3> QED
      BY <3>1 DEF Untouched
  <2>2. CASE t # "job"
    BY <1>0, <1>7, <2>2, EndsUnchangedIsCalm, CalmKeeps DEF Refuse
  <2> QED
    BY <2>1, <2>2
<1>8. ASSUME NEW t \in Updaters, Update(t) \/ Answer(t)
      PROVE  Untouched'
  <2>1. Calm
    BY <1>0, <1>8 DEF Update, Answer, AskOrigins, Goto, library, history, Calm, Typed, TypeOK
  <2> QED
    BY <2>1, CalmKeeps
<1>9. ASSUME NEW t \in Updaters, UpToDate(t) \/ FetchFails(t)
      PROVE  Untouched'
  BY <1>0, <1>9, EndsUnchangedIsCalm, CalmKeeps DEF UpToDate, FetchFails
<1>10. ASSUME NEW T \in SUBSET Tasks, Stop(T)
       PROVE  Untouched'
  <2>1. CASE \E t \in T : Writes(t)
    <3>1. ~clean'
      BY <1>10, <2>1 DEF Stop
    <3> QED
      BY <3>1 DEF Untouched
  <2>2. CASE \A t \in T : ~Writes(t)
    <3>2. Ending(T)
      BY <1>0, <1>10, StopWrites
    <3>3. UNCHANGED library
      BY <1>10, <2>2 DEF Stop, LeavesPartOf
    <3>4. clean' => clean
      BY <1>0, <1>10 DEF Stop, Typed, TypeOK
    <3>5. Calm
      BY <1>0, <2>2, <3>2, <3>3, <3>4 DEF Ending, Left, Writes, Calm, library, Typed, TypeOK
    <3> QED
      BY <3>5, CalmKeeps
  <2> QED
    BY <2>1, <2>2
<1>11. ASSUME NEW r \in Resources, Edit(r) \/ Attach(r) \/ Detach(r)
       PROVE  Untouched'
  BY <1>11 DEF Edit, Attach, Detach, Changes, Untouched
<1>12. CASE SetMode \/ Publish \/ Yank \/ UNCHANGED vars
  <2>1. Calm
    BY <1>0, <1>12 DEF SetMode, Publish, Yank, vars, library, history, Calm
  <2> QED
    BY <2>1, CalmKeeps
<1> QED
  BY NextCases, <1>1, <1>2, <1>3, <1>4, <1>5, <1>6, <1>7, <1>8, <1>9, <1>10, <1>11, <1>12

LEMMA InitUntouched == Init => HeadIsNotCut /\ Untouched
<1> SUFFICES ASSUME Init PROVE HeadIsNotCut /\ Untouched
  OBVIOUS
<1>1. DOMAIN cuts = {}
  BY DEF Init
<1>2. Matches(version)
  BY DEF Init, Matches, Keys
<1> QED
  BY <1>1, <1>2, Names DEF Init, HeadIsNotCut, Untouched

LEMMA UntouchedHolds == Spec => []Untouched
<1>1. Init => Steady /\ HeadIsNotCut /\ Untouched
  BY InitTypes, InitChosen, InitUntouched DEF Steady
<1>2. Steady /\ HeadIsNotCut /\ Untouched /\ [Next]_vars => HeadIsNotCut' /\ Untouched'
  BY StepHeadIsNotCut, StepUntouched DEF Steady
<1> QED
  BY <1>1, <1>2, SteadyHolds, PTL DEF Spec

\* Whatever updates and installations ran, a plugin that was left alone is
\* the published package of its version, and so are its cuts' resources.
THEOREM UndisturbedStaysPublished == Spec => []UndisturbedIsPublished
<1>1. Untouched => UndisturbedIsPublished
  BY DEF Untouched, UndisturbedIsPublished
<1> QED
  BY <1>1, UntouchedHolds, PTL

\* The version an installation replaces is kept before anything is replaced.
THEOREM PreviousStaysKept == Spec => []PreviousIsKept
<1>1. Untouched => PreviousIsKept
  BY DEF Untouched, PreviousIsKept
<1> QED
  BY <1>1, UntouchedHolds, PTL
=============================================================================
