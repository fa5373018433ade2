-------------------------- MODULE StatusReadCache --------------------------
(***************************************************************************)
(* The cache of `ht profile status` in one process (the sidecar): an entry *)
(* per key, refreshed by a worker thread or, when the worker is not there  *)
(* or its read fails, on the main thread.  A load on the main thread reads *)
(* the dry-run core through the same cache, under a key of its own; the    *)
(* worker always computes a whole status.                                  *)
(*                                                                         *)
(* The main thread runs one macrotask at a time and all continuations of   *)
(* settled promises before the next (Turn).  The worker, other processes,  *)
(* and the user's editor move at any time.                                 *)
(*                                                                         *)
(* Abstractions: a load reads the database and the files at one moment,    *)
(* the earliest at which it reads either, and writes nothing; a watcher    *)
(* may or may not signal a change, since it may not be armed yet, be new,  *)
(* or have died with the worker; one home; no eviction (16 keys).          *)
(***************************************************************************)
EXTENDS Naturals, Sequences, FiniteSets

CONSTANTS
  Reads,         \* callers of detectGlobalProfileStatus
  Outer,         \* their keys: depth, harness and project
  Core,          \* the key of the dry-run core
  MaxJobs,       \* bound: refreshes in memory at a time
  MaxEvents,     \* bound: commits, changes of watched files, clears, workers
                 \* that crash, exit or do not answer, and loads that throw
  NoSig          \* the empty fingerprint

ASSUME KeysAssumption == Core \notin Outer
ASSUME CacheBoundsAssumption == MaxJobs \in Nat /\ MaxEvents \in Nat
ASSUME ReadsAssumption == \A r \in Reads : r \notin Nat
ASSUME SigAssumption == NoSig \notin Nat

VARIABLES
  db,          \* commits so far that can change a status
  files,       \* changes of watched files so far
  signals,     \* changes whose watch event is on its way
  writeGen, dataVersion, epoch, generation, watchersHealthy,
  buckets, inflight,   \* per key
  job,         \* the refreshes: refreshJobs, and those on this thread
  queue,       \* jobs posted to the worker and not settled, oldest first
  worker,      \* "up", "failed" (workerFailed) or "none"
  call,        \* calls of withStatusReadCache: of a read, or of a job's load
  events,
  answer,      \* what this step answered a read, or NoAnswer
  heard,       \* history: <<commits, changes>> that the cache could know of
  cleared      \* history: <<commits, changes>> before the latest clear

source == <<db, files, signals>>
cache == <<writeGen, dataVersion, epoch, generation, watchersHealthy, buckets, inflight>>
refresh == <<job, queue, worker>>
history == <<heard, cleared>>
vars == <<source, cache, refresh, call, answer, events, history>>

Jobs == 1..MaxJobs
Keys == Outer \cup {Core}
Callers == Reads \cup Jobs

\* Old: given out because a load threw, or computed from a core so given.
Kinds == {"status", "core", "none", "old status", "old core"}
Values == [db : 0..MaxEvents, files : 0..MaxEvents, kind : Kinds]
NoValue == [db |-> 0, files |-> 0, kind |-> "none"]
Entries == [value : Values, epoch : Nat, writeGen : 0..MaxEvents, dataVersion : 0..MaxEvents,
            sig : (0..MaxEvents) \cup {NoSig}]
Settled(v) == [at |-> "settled", key |-> Core, gen |-> 0, epoch |-> 0, writeGen |-> 0, value |-> v]
Idle == [at |-> "idle", key |-> Core, job |-> 0, gen |-> 0, need |-> <<0, 0>>, floor |-> <<0, 0>>,
         value |-> NoValue]
NoAnswer == [value |-> NoValue, need |-> <<0, 0>>, floor |-> <<0, 0>>, refreshing |-> FALSE]
Moments == (0..MaxEvents) \X (0..MaxEvents)

TypeOK ==
  /\ db \in 0..MaxEvents /\ files \in 0..MaxEvents /\ signals \subseteq 1..files
  /\ writeGen \in 0..MaxEvents /\ dataVersion \in 0..MaxEvents /\ db = writeGen + dataVersion
  /\ epoch \in Nat /\ generation \in Nat /\ watchersHealthy \in BOOLEAN
  /\ \A k \in Keys :
       /\ buckets[k] \subseteq Entries /\ \A e, f \in buckets[k] : e = f
       /\ \A i \in inflight[k] : inflight[k] = {i} /\ i[1] <= generation /\ i[2] \in Jobs
  /\ \A j \in Jobs :
       /\ job[j].at \in {"settled", "posted", "replied", "timer", "loaded"}
       /\ job[j].key \in Keys /\ job[j].gen <= generation /\ job[j].epoch <= epoch
       /\ job[j].writeGen <= writeGen /\ job[j].value \in Values
  /\ queue \in Seq(Jobs) /\ \A n \in DOMAIN queue : job[queue[n]].at \in {"posted", "replied"}
  /\ worker \in {"up", "failed", "none"}
  /\ \A c \in Callers :
       /\ call[c].at \in {"idle", "joins", "waits", "answered"}
       /\ call[c].key \in Keys /\ call[c].job \in Jobs \cup {0} /\ call[c].gen <= generation
       /\ call[c].need \in Moments /\ call[c].floor \in Moments
       /\ call[c].value \in Values
  /\ answer.value \in Values /\ answer.need \in Moments /\ answer.floor \in Moments
  /\ answer.refreshing \in BOOLEAN
  /\ events \in 0..MaxEvents
  /\ heard \in Moments /\ cleared \in Moments

Happens == events < MaxEvents /\ events' = events + 1

Init ==
  /\ db = 0 /\ files = 0 /\ signals = {}
  /\ writeGen = 0 /\ dataVersion = 0 /\ epoch = 0 /\ generation = 0 /\ watchersHealthy = TRUE
  /\ buckets = [k \in Keys |-> {}] /\ inflight = [k \in Keys |-> {}]
  /\ job = [j \in Jobs |-> Settled(NoValue)] /\ queue = <<>> /\ worker \in {"up", "failed"}
  /\ call = [c \in Callers |-> Idle] /\ answer = NoAnswer
  /\ events = 0
  /\ heard = <<0, 0>> /\ cleared = <<0, 0>>

-----------------------------------------------------------------------------
(* Entries and refreshes *)

\* A mistaken form of DbMoved: commits of other processes are not looked for.
DbMovedHere(e) == e.writeGen # writeGen

\* databaseStateMatches
DbMoved(e) == e.writeGen # writeGen \/ e.dataVersion # dataVersion

\* entryIsCurrent: the watchers are quiet, or the mtimes are as they were.
IsCurrent(e) == e.epoch = epoch /\ (watchersHealthy \/ e.sig = files)

\* staleReason finds none
Fresh(e) == ~DbMoved(e) /\ IsCurrent(e)

Unsettled == {j \in Jobs : job[j].at # "settled"}
Awaiting(j) == {c \in Callers : call[c].at \in {"joins", "waits"} /\ call[c].job = j}
Free == {j \in Jobs \ Unsettled : Awaiting(j) = {}}
Reserved == {j \in Unsettled : job[j].key # Core} \cup {c \in Reads : call[c].at = "joins"}

\* Nothing is left to run before the next macrotask.
Turn ==
  /\ \A j \in Jobs \ Unsettled : Awaiting(j) = {}
  /\ \A j \in Jobs : call[j].at # "answered"

\* trackRefresh and enqueueStatusRefresh
Tracks(j, k, gen) ==
  /\ j \in Free /\ \A i \in Free : j <= i
  /\ job' = [job EXCEPT ![j] =
       [at |-> IF worker = "failed" THEN "timer" ELSE "posted",
        key |-> k, gen |-> gen, epoch |-> epoch, writeGen |-> writeGen, value |-> NoValue]]
  /\ queue' = IF worker = "failed" THEN queue ELSE Append(queue, j)
  /\ worker' = IF worker = "failed" THEN "failed" ELSE "up"
  /\ inflight' = [inflight EXCEPT ![k] = {<<gen, j>>}]

\* A mistaken form of Remembers: a refresh that was superseded is stored too.
RemembersAny(j, writes) ==
  buckets' = [buckets EXCEPT ![job[j].key] =
    {[value |-> job[j].value, epoch |-> job[j].epoch, writeGen |-> writes,
      dataVersion |-> dataVersion, sig |-> IF watchersHealthy THEN NoSig ELSE files]}]

\* remember, unless the refresh was superseded.  A watch event since the load
\* was asked for leaves the entry dirty.
Remembers(j, writes) ==
  buckets' = IF job[j].gen # generation THEN buckets ELSE [buckets EXCEPT ![job[j].key] =
    {[value |-> job[j].value, epoch |-> job[j].epoch, writeGen |-> writes,
      dataVersion |-> dataVersion, sig |-> IF watchersHealthy THEN NoSig ELSE files]}]

\* The promise of a refresh is settled, with a value for the call that waits
\* for it, if any; the map forgets the refresh if it still has it.
Settles(j, v) ==
  /\ job' = [job EXCEPT ![j] = Settled(IF \E c \in Callers : call[c].at = "waits" /\ call[c].job = j
                                       THEN v ELSE NoValue)]
  /\ inflight' = [inflight EXCEPT ![job[j].key] = {i \in @ : i[2] # j}]

-----------------------------------------------------------------------------
(* Calls of withStatusReadCache *)

Asked(c, k, gen) ==
  IF c \in Reads THEN [Idle EXCEPT !.key = k, !.gen = gen, !.need = heard, !.floor = cleared]
                 ELSE [Idle EXCEPT !.key = k, !.gen = gen]

\* A read is answered; the load of a job takes up its core in the next step.
Answers(c, a, v, refreshing) ==
  IF c \in Reads
  THEN /\ call' = [call EXCEPT ![c] = Idle]
       /\ answer' = [value |-> v, need |-> a.need, floor |-> a.floor, refreshing |-> refreshing]
  ELSE /\ call' = [call EXCEPT ![c] = [Idle EXCEPT !.at = "answered", !.value = v]]
       /\ answer' = NoAnswer

Awaits(c, a, place, j) ==
  /\ call' = [call EXCEPT ![c] = [a EXCEPT !.at = place, !.job = j]]
  /\ answer' = NoAnswer

Hit(c, k) ==
  /\ \E e \in buckets[k] : Fresh(e) /\ Answers(c, Asked(c, k, generation), e.value, FALSE)
  /\ UNCHANGED <<generation, buckets, inflight, refresh>>

\* A commit: whatever is cached or on its way is superseded.
Superseded(c, k) ==
  /\ \E e \in buckets[k] : DbMoved(e)
  /\ generation' = generation + 1
  /\ buckets' = [q \in Keys |-> {}]
  /\ \E j \in Jobs : Tracks(j, k, generation') /\ Awaits(c, Asked(c, k, generation'), "waits", j)

\* staleWhileRefresh: the old answer now, and a refresh unless there is one.
Stale(c, k) ==
  /\ \E e \in buckets[k] : ~DbMoved(e) /\ ~IsCurrent(e) /\ Answers(c, Asked(c, k, generation), e.value, TRUE)
  /\ \/ \E i \in inflight[k] : i[1] = generation
        /\ UNCHANGED <<inflight, refresh>>
     \/ /\ \A i \in inflight[k] : i[1] # generation
        /\ \E j \in Jobs : Tracks(j, k, generation)
  /\ UNCHANGED <<generation, buckets>>

\* loadNow: join the refresh in flight, or start one.
LoadsNow(c, k) ==
  /\ \/ /\ \E i \in inflight[k] :
             i[1] = generation /\ Awaits(c, Asked(c, k, generation), "joins", i[2])
        /\ UNCHANGED <<inflight, refresh>>
     \/ /\ \A i \in inflight[k] : i[1] # generation
        /\ \E j \in Jobs : Tracks(j, k, generation) /\ Awaits(c, Asked(c, k, generation), "waits", j)
  /\ UNCHANGED <<generation, buckets>>

\* detectGlobalProfileStatus.  Each refresh may need one of the core: bound.
Read(r, k) ==
  /\ Turn
  /\ call[r].at = "idle"
  /\ 2 * (Cardinality(Reserved) + 1) <= MaxJobs
  /\ Hit(r, k) \/ Superseded(r, k) \/ Stale(r, k) \/ (buckets[k] = {} /\ LoadsNow(r, k))
  /\ UNCHANGED <<source, writeGen, dataVersion, epoch, watchersHealthy, events, history>>

\* A call that joined looks at what came of it, and starts over if it is old.
Joined(c) ==
  /\ call[c].at = "joins" /\ job[call[c].job].at = "settled"
  /\ \/ \E e \in buckets[call[c].key] :
          /\ Fresh(e) /\ Answers(c, call[c], e.value, FALSE)
          /\ UNCHANGED <<inflight, refresh>>
     \/ /\ \A e \in buckets[call[c].key] : ~Fresh(e)
        /\ \E j \in Jobs :
             Tracks(j, call[c].key, call[c].gen) /\ Awaits(c, call[c], "waits", j)
  /\ UNCHANGED <<source, writeGen, dataVersion, epoch, generation, watchersHealthy, buckets,
                 events, history>>

\* The history a value carries on from a load that threw.
Old(v) == [v EXCEPT !.kind = IF v.kind \in {"core", "old core"} THEN "old core" ELSE "old status"]
IsCore(v) == v.kind \in {"core", "old core"}
StatusOf(v) == [v EXCEPT !.kind = IF v.kind = "core" THEN "status" ELSE "old status"]

\* A call whose own refresh is settled: the entry, the outcome, or an error.
Waited(c) ==
  /\ call[c].at = "waits" /\ job[call[c].job].at = "settled"
  /\ LET own == job[call[c].job].value
         usable == {e \in buckets[call[c].key] : generation = call[c].gen /\ IsCurrent(e)}
     IN \/ \E e \in usable :
             Answers(c, call[c], IF own = NoValue THEN Old(e.value) ELSE e.value, FALSE)
        \/ usable = {} /\ Answers(c, call[c], own, FALSE)
  /\ job' = [job EXCEPT ![call[c].job] = Settled(NoValue)]
  /\ UNCHANGED <<source, cache, queue, worker, events, history>>

-----------------------------------------------------------------------------
(* The worker *)

\* It takes one request after the other and computes a status.
WorkerReads(j) ==
  /\ worker = "up"
  /\ job[j].at = "posted"
  /\ \E n \in DOMAIN queue : queue[n] = j /\ \A m \in 1..(n - 1) : job[queue[m]].at = "replied"
  /\ job' = [job EXCEPT ![j].at = "replied", ![j].value = [db |-> db, files |-> files, kind |-> "status"]]
  /\ UNCHANGED <<source, cache, queue, worker, call, events, history>>

IsNext(j) == Turn /\ queue # <<>> /\ Head(queue) = j

\* completeRefreshJob
Deliver(j) ==
  /\ IsNext(j) /\ job[j].at = "replied"
  /\ Remembers(j, job[j].writeGen)
  /\ Settles(j, job[j].value)
  /\ queue' = Tail(queue)
  /\ UNCHANGED <<source, writeGen, dataVersion, epoch, generation, watchersHealthy, worker, call,
                 events, history>>

\* A mistaken form of WorkerFails: the refresh stays in refreshJobs.
WorkerFailsKept(j) ==
  /\ IsNext(j) /\ job[j].at = "posted"
  /\ Happens
  /\ job' = [job EXCEPT ![j].at = "timer"]
  /\ UNCHANGED <<source, cache, queue, worker, call, history>>

\* The worker's read throws: the load runs here instead.
WorkerFails(j) ==
  /\ IsNext(j) /\ job[j].at = "posted"
  /\ Happens
  /\ job' = [job EXCEPT ![j].at = "timer"]
  /\ queue' = Tail(queue)
  /\ UNCHANGED <<source, cache, worker, call, history>>

\* A mistaken form of WorkerDies: what was asked of the worker is forgotten.
WorkerDiesSilently ==
  /\ Turn /\ worker = "up"
  /\ Happens
  /\ worker' \in {"failed", "none"}
  /\ queue' = <<>>
  /\ UNCHANGED <<source, cache, job, call, history>>

\* A crash, an exit, or no answer in time: all its loads run here instead.
\* After an exit the next refresh starts a new worker.
WorkerDies ==
  /\ Turn /\ worker = "up"
  /\ Happens
  /\ worker' \in {"failed", "none"}
  /\ job' = [j \in Jobs |-> IF job[j].at \in {"posted", "replied"}
                              THEN [job[j] EXCEPT !.at = "timer", !.value = NoValue] ELSE job[j]]
  /\ queue' = <<>>
  /\ UNCHANGED <<source, cache, call, history>>

Respawn ==
  /\ Turn /\ worker = "failed"
  /\ worker' = "up"
  /\ UNCHANGED <<source, cache, job, queue, call, events, history>>

-----------------------------------------------------------------------------
(* A load on this thread *)

\* The load of a status first asks for the core, through the cache.
Nested(j) ==
  /\ Turn
  /\ job[j].at = "timer" /\ job[j].key # Core /\ call[j].at = "idle"
  /\ \/ Hit(j, Core) \/ Superseded(j, Core)
     \/ (\A e \in buckets[Core] : ~DbMoved(e) /\ ~IsCurrent(e)) /\ LoadsNow(j, Core)
  /\ UNCHANGED <<source, writeGen, dataVersion, epoch, watchersHealthy, events, history>>

\* With the core at hand it goes on; with anything else it throws.
NestedReturns(j) ==
  /\ job[j].at = "timer" /\ call[j].at = "answered"
  /\ call' = [call EXCEPT ![j] = Idle]
  /\ \/ /\ IsCore(call[j].value)
        /\ job' = [job EXCEPT ![j].at = "loaded", ![j].value = StatusOf(call[j].value)]
        /\ UNCHANGED inflight
     \/ ~IsCore(call[j].value) /\ Settles(j, NoValue)
  /\ UNCHANGED <<source, writeGen, dataVersion, epoch, generation, watchersHealthy, buckets,
                 queue, worker, events, history>>

LoadCore(j) ==
  /\ Turn
  /\ job[j].at = "timer" /\ job[j].key = Core
  /\ job' = [job EXCEPT ![j].at = "loaded", ![j].value = [db |-> db, files |-> files, kind |-> "core"]]
  /\ UNCHANGED <<source, cache, queue, worker, call, events, history>>

\* The load has ended: its own writes are not to count as a change.
Store(j) ==
  /\ Turn
  /\ job[j].at = "loaded"
  /\ Remembers(j, writeGen)
  /\ Settles(j, job[j].value)
  /\ UNCHANGED <<source, writeGen, dataVersion, epoch, generation, watchersHealthy, queue, worker,
                 call, events, history>>

LoadFails(j) ==
  /\ Turn
  /\ \/ job[j].at = "timer" /\ job[j].key = Core
     \/ job[j].at = "loaded"
  /\ Happens
  /\ Settles(j, NoValue)
  /\ UNCHANGED <<source, writeGen, dataVersion, epoch, generation, watchersHealthy, buckets, queue,
                 worker, call, history>>

-----------------------------------------------------------------------------
(* What changes a status *)

\* Loads on this thread that have read and are not stored; all loads.
HeldHere ==
  {j \in Jobs : job[j].gen = generation
     /\ (job[j].at = "loaded" \/ call[j].at = "answered" \/ \E i \in Jobs \ Unsettled : j \in Awaiting(i))}
Held == HeldHere \cup {j \in Jobs : job[j].gen = generation /\ job[j].at = "replied"}

OwnCommit ==
  /\ Turn
  /\ Happens
  /\ db' = db + 1 /\ writeGen' = writeGen + 1
  /\ heard' = IF HeldHere = {} THEN <<db + 1, heard[2]>> ELSE heard
  /\ UNCHANGED <<files, signals, dataVersion, epoch, generation, watchersHealthy, buckets, inflight,
                 refresh, call, cleared>>

OtherCommit ==
  /\ Happens
  /\ db' = db + 1 /\ dataVersion' = dataVersion + 1
  /\ heard' = IF Held = {} THEN <<db + 1, heard[2]>> ELSE heard
  /\ UNCHANGED <<files, signals, writeGen, epoch, generation, watchersHealthy, buckets, inflight,
                 refresh, call, cleared>>

\* A watched file changes; without healthy watchers the next read compares.
FileChange ==
  /\ Happens
  /\ files' = files + 1
  /\ signals' \in {signals, signals \cup {files + 1}}
  /\ heard' = IF ~watchersHealthy /\ Held = {} THEN <<heard[1], files + 1>> ELSE heard
  /\ UNCHANGED <<db, cache, refresh, call, cleared>>

\* markDirty
Signal(i) ==
  /\ Turn
  /\ i \in signals /\ \A s \in signals : i <= s
  /\ signals' = signals \ {i}
  /\ epoch' = epoch + 1
  /\ heard' = IF i > heard[2] THEN <<heard[1], i>> ELSE heard
  /\ UNCHANGED <<db, files, writeGen, dataVersion, generation, watchersHealthy, buckets, inflight,
                 refresh, call, events, cleared>>

\* markWatchersUnhealthy: entries without a fingerprint get one.
Unhealthy ==
  /\ Turn
  /\ watchersHealthy
  /\ Happens
  /\ watchersHealthy' = FALSE
  /\ buckets' = [k \in Keys |-> {IF e.sig = NoSig THEN [e EXCEPT !.sig = files] ELSE e : e \in buckets[k]}]
  /\ UNCHANGED <<source, writeGen, dataVersion, epoch, generation, inflight, refresh, call, history>>

\* clearGlobalProfileStatusCache, after an apply, a switch or an install.
Clear ==
  /\ Turn
  /\ Happens
  /\ generation' = generation + 1 /\ epoch' = epoch + 1
  /\ buckets' = [k \in Keys |-> {}] /\ inflight' = [k \in Keys |-> {}]
  /\ watchersHealthy' = TRUE
  /\ heard' = <<db, files>> /\ cleared' = <<db, files>>
  /\ UNCHANGED <<source, writeGen, dataVersion, refresh, call>>

-----------------------------------------------------------------------------
Changes ==
  /\ OwnCommit \/ OtherCommit \/ FileChange \/ (\E i \in signals : Signal(i)) \/ Unhealthy \/ Clear
  /\ answer' = NoAnswer
Continues(c) == Joined(c) \/ Waited(c) \/ (c \in Jobs /\ NestedReturns(c) /\ answer' = NoAnswer)
Dies == (WorkerDies \/ Respawn) /\ answer' = NoAnswer
Works(j) == (WorkerReads(j) \/ Deliver(j) \/ WorkerFails(j)) /\ answer' = NoAnswer
Runs(j) == Nested(j) \/ ((LoadCore(j) \/ Store(j) \/ LoadFails(j)) /\ answer' = NoAnswer)

Next ==
  \/ \E r \in Reads, k \in Outer : Read(r, k)
  \/ \E c \in Callers : Continues(c)
  \/ \E j \in Jobs : Works(j) \/ Runs(j)
  \/ Dies
  \/ Changes

Spec == Init /\ [][Next]_vars

-----------------------------------------------------------------------------
(* Properties *)

Answered == answer.value # NoValue

\* An answer has every commit the process could know of when it was asked
\* for, and every file change too unless it says that it is being refreshed:
\* what the watchers had reported, the mtimes showed or a clear announced.
\* Commits that fell between a load and its being stored are not known.  Old
\* answers are left out: when a load threw, its caller is given whatever is
\* cached, unasked whether the database moved; a core so given makes a status
\* that is stored, and counts as read now.
AnswersAreCurrent ==
  Answered /\ answer.value.kind # "old status" =>
    /\ answer.value.db >= answer.need[1]
    /\ answer.refreshing \/ answer.value.files >= answer.need[2]

\* "Apply, switch, and install clear the cache first, so the next read waits
\* and is not stale": no answer, being refreshed or not, is older than the
\* latest clear before it was asked for.
AnswersAreSinceClear ==
  Answered => answer.value.db >= answer.floor[1] /\ answer.value.files >= answer.floor[2]

\* Whatever happens to the worker, no call waits for a refresh that nobody
\* works on: the worker has it, or it is on this thread and waits at most for
\* a core that the worker has or that is on this thread.
AtWork(j) == job[j].at \in {"posted", "replied"} => worker = "up" /\ \E n \in DOMAIN queue : queue[n] = j
AwaitedIsAtWork ==
  \A c \in Callers : call[c].at \in {"joins", "waits"} =>
    /\ AtWork(call[c].job)
    /\ c \in Jobs => job[c].at = "timer" /\ job[call[c].job].key = Core
=============================================================================
