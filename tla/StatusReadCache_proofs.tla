----------------------- MODULE StatusReadCache_proofs -----------------------
(***************************************************************************)
(* For any readers, keys, refreshes and events: no call waits for a        *)
(* refresh nobody works on, and no answer is older than the latest clear   *)
(* before it was asked for.  The cache keeps its types.                    *)
(***************************************************************************)
EXTENDS StatusReadCache, SequenceTheorems, TLAPS

Upto == 0..MaxEvents
Vals == [db : Upto, files : Upto, kind : Kinds]
Pairs == Upto \X Upto
JobRecs == [at : {"settled", "posted", "replied", "timer", "loaded"}, key : Keys, gen : Nat,
            epoch : Nat, writeGen : Upto, value : Vals]
CallRecs == [at : {"idle", "joins", "waits", "answered"}, key : Keys, job : Jobs \cup {0}, gen : Nat,
             need : Pairs, floor : Pairs, value : Vals]
EntryRecs == [value : Vals, epoch : Nat, writeGen : Upto, dataVersion : Upto, sig : Upto \cup {NoSig}]

\* Every commit, change and failure is an event, of which there are few enough.
Counters ==
  /\ db \in Upto /\ files \in Upto /\ signals \subseteq 1..files
  /\ writeGen \in Upto /\ dataVersion \in Upto /\ db = writeGen + dataVersion
  /\ events \in Upto /\ db <= events /\ files <= events
  /\ epoch \in Nat /\ generation \in Nat /\ watchersHealthy \in BOOLEAN
  /\ heard \in Pairs /\ cleared \in Pairs
Cached == buckets \in [Keys -> SUBSET EntryRecs]
InFlight == inflight \in [Keys -> SUBSET (Nat \X Jobs)]
Refreshes == job \in [Jobs -> JobRecs] /\ queue \in Seq(Jobs) /\ worker \in {"up", "failed", "none"}
CallsMade ==
  /\ call \in [Callers -> CallRecs]
  /\ \A c \in Callers : call[c].at \in {"joins", "waits"} => call[c].job \in Jobs
Types == Counters /\ Cached /\ InFlight /\ Refreshes /\ CallsMade

-----------------------------------------------------------------------------
(* Types *)

LEMMA JobsAreNat == Jobs \subseteq Nat /\ 0 \notin Jobs /\ Reads \cap Jobs = {}
BY CacheBoundsAssumption, ReadsAssumption DEF Jobs

LEMMA ConstantTypes ==
  /\ NoValue \in Vals
  /\ Idle \in CallRecs
  /\ \A v \in Vals : Settled(v) \in JobRecs
<1>1. 0 \in Upto /\ Core \in Keys /\ 0 \in Nat /\ <<0, 0>> \in Pairs
  BY CacheBoundsAssumption DEF Upto, Keys, Pairs
<1>2. NoValue \in Vals
  BY <1>1 DEF NoValue, Vals, Kinds
<1>3. Idle \in CallRecs
  BY <1>1, <1>2 DEF Idle, CallRecs
<1>4. \A v \in Vals : Settled(v) \in JobRecs
  BY <1>1 DEF Settled, JobRecs
<1> QED
  BY <1>2, <1>3, <1>4

\* The marked forms of a value differ from it in their kind alone.
LEMMA MarkedValues ==
  ASSUME NEW v \in Vals
  PROVE  /\ Old(v) \in Vals /\ Old(v).db = v.db /\ Old(v).files = v.files /\ Old(v) # NoValue
         /\ StatusOf(v) \in Vals /\ StatusOf(v).db = v.db /\ StatusOf(v).files = v.files
         /\ StatusOf(v) # NoValue
         /\ IsCore(v) => v # NoValue
<1>1. /\ Old(v) \in Vals /\ Old(v).db = v.db /\ Old(v).files = v.files
      /\ Old(v).kind \in {"old core", "old status"}
  BY DEF Vals, Kinds, Old
<1>2. /\ StatusOf(v) \in Vals /\ StatusOf(v).db = v.db /\ StatusOf(v).files = v.files
      /\ StatusOf(v).kind \in {"status", "old status"}
  BY DEF Vals, Kinds, StatusOf
<1>3. NoValue.kind = "none"
  BY DEF NoValue
<1> QED
  BY <1>1, <1>2, <1>3 DEF IsCore

LEMMA UptoIsNat == Upto \subseteq Nat
BY DEF Upto

LEMMA OneMoreCommit ==
  ASSUME NEW d \in Nat, NEW e \in Nat, d <= e, e + 1 <= MaxEvents,
         NEW w \in Nat, NEW v \in Nat, d + 1 = w + v
  PROVE  d + 1 \in Upto /\ w \in Upto /\ v \in Upto /\ d + 1 <= e + 1
BY CacheBoundsAssumption DEF Upto

LEMMA TracksTypes ==
  ASSUME Types, NEW j \in Jobs, NEW k \in Keys, NEW gen \in Nat, Tracks(j, k, gen)
  PROVE  Refreshes' /\ InFlight'
<1> DEFINE new == [at |-> IF worker = "failed" THEN "timer" ELSE "posted",
                   key |-> k, gen |-> gen, epoch |-> epoch, writeGen |-> writeGen, value |-> NoValue]
<1>1. new \in JobRecs
  BY ConstantTypes DEF JobRecs, Types, Counters
<1>2. job' \in [Jobs -> JobRecs]
  BY <1>1 DEF Tracks, Types, Refreshes
<1>3. queue' \in Seq(Jobs) /\ worker' \in {"up", "failed", "none"}
  BY DEF Tracks, Types, Refreshes
<1>4. InFlight'
  BY DEF Tracks, Types, InFlight
<1> QED
  BY <1>2, <1>3, <1>4 DEF Refreshes

LEMMA AskedTypes ==
  ASSUME Types, NEW c \in Callers, NEW k \in Keys, NEW gen \in Nat
  PROVE  /\ Asked(c, k, gen) \in CallRecs
         /\ Asked(c, k, gen).gen = gen /\ Asked(c, k, gen).at = "idle"
         /\ c \in Reads => Asked(c, k, gen).floor = cleared
BY ConstantTypes DEF Asked, Idle, CallRecs, Types, Counters

LEMMA AnswersTypes ==
  ASSUME Types, NEW c \in Callers, NEW a \in CallRecs, NEW v \in Vals, NEW x,
         Answers(c, a, v, x)
  PROVE  CallsMade'
<1>1. [Idle EXCEPT !.at = "answered", !.value = v] \in CallRecs /\ Idle.at = "idle"
  BY ConstantTypes DEF CallRecs, Idle
<1>2. PICK x0 \in CallRecs : x0.at \in {"idle", "answered"} /\ call' = [call EXCEPT ![c] = x0]
  <2>1. CASE c \in Reads
    BY <1>1, <2>1, ConstantTypes DEF Answers
  <2>2. CASE c \notin Reads
    <3>1. [Idle EXCEPT !.at = "answered", !.value = v].at = "answered"
      BY DEF Idle
    <3> QED
      BY <1>1, <2>2, <3>1 DEF Answers
  <2> QED
    BY <2>1, <2>2
<1> QED
  BY <1>2 DEF Types, CallsMade

LEMMA AwaitsTypes ==
  ASSUME Types, NEW c \in Callers, NEW a \in CallRecs, NEW j \in Jobs,
         NEW place \in {"joins", "waits"}, Awaits(c, a, place, j)
  PROVE  CallsMade'
<1>1. [a EXCEPT !.at = place, !.job = j] \in CallRecs
  BY DEF CallRecs
<1> QED
  BY <1>1 DEF Awaits, Types, CallsMade

LEMMA RemembersTypes ==
  ASSUME Types, NEW j \in Jobs, NEW writes \in Upto, Remembers(j, writes)
  PROVE  Cached'
<1> DEFINE e == [value |-> job[j].value, epoch |-> job[j].epoch, writeGen |-> writes,
                 dataVersion |-> dataVersion, sig |-> IF watchersHealthy THEN NoSig ELSE files]
<1>1. e \in EntryRecs
  BY DEF EntryRecs, JobRecs, Types, Counters, Refreshes
<1> QED
  BY <1>1 DEF Remembers, Types, Cached

LEMMA SettlesTypes ==
  ASSUME Types, NEW j \in Jobs, NEW v \in Vals, Settles(j, v)
  PROVE  job' \in [Jobs -> JobRecs] /\ InFlight'
<1>1. job' \in [Jobs -> JobRecs]
  BY ConstantTypes DEF Settles, Types, Refreshes
<1>2. InFlight'
  BY DEF Settles, Types, InFlight, Refreshes, JobRecs
<1> QED
  BY <1>1, <1>2

LEMMA TailTypes ==
  ASSUME Types, queue # <<>>
  PROVE  Tail(queue) \in Seq(Jobs)
BY DEF Types, Refreshes

LEMMA CallTypes ==
  ASSUME Types, NEW c \in Callers, NEW k \in Keys,
         Hit(c, k) \/ Superseded(c, k) \/ Stale(c, k) \/ LoadsNow(c, k)
  PROVE  Cached' /\ InFlight' /\ Refreshes' /\ CallsMade' /\ generation' \in Nat
<1> USE DEF Types, Cached, Counters
<1>1. CASE Hit(c, k)
  <2>1. PICK e \in buckets[k] : Answers(c, Asked(c, k, generation), e.value, FALSE)
    BY <1>1 DEF Hit
  <2>2. e.value \in Vals
    BY DEF EntryRecs
  <2>3. CallsMade'
    BY <2>1, <2>2, AskedTypes, AnswersTypes
  <2> QED
    BY <1>1, <2>3 DEF Hit, refresh, InFlight, Refreshes
<1>2. CASE Superseded(c, k)
  <2>1. PICK j \in Jobs : Tracks(j, k, generation') /\ Awaits(c, Asked(c, k, generation'), "waits", j)
    BY <1>2 DEF Superseded
  <2>2. generation' \in Nat /\ Cached'
    BY <1>2 DEF Superseded
  <2>3. Refreshes' /\ InFlight'
    BY <2>1, <2>2, TracksTypes
  <2>4. CallsMade'
    BY <2>1, <2>2, AskedTypes, AwaitsTypes
  <2> QED
    BY <2>2, <2>3, <2>4
<1>3. CASE Stale(c, k)
  <2>1. PICK e \in buckets[k] : Answers(c, Asked(c, k, generation), e.value, TRUE)
    BY <1>3 DEF Stale
  <2>2. e.value \in Vals
    BY DEF EntryRecs
  <2>3. CallsMade'
    BY <2>1, <2>2, AskedTypes, AnswersTypes
  <2>4. Refreshes' /\ InFlight'
    <3>1. CASE UNCHANGED <<inflight, refresh>>
      BY <3>1 DEF refresh, InFlight, Refreshes
    <3>2. CASE \E j \in Jobs : Tracks(j, k, generation)
      BY <3>2, TracksTypes
    <3> QED
      BY <1>3, <3>1, <3>2 DEF Stale
  <2> QED
    BY <1>3, <2>3, <2>4 DEF Stale
<1>4. CASE LoadsNow(c, k)
  <2>1. CASE /\ \E i \in inflight[k] : Awaits(c, Asked(c, k, generation), "joins", i[2])
             /\ UNCHANGED <<inflight, refresh>>
    <3>1. PICK i \in inflight[k] : Awaits(c, Asked(c, k, generation), "joins", i[2])
      BY <2>1
    <3>2. i[2] \in Jobs
      BY DEF InFlight
    <3>3. CallsMade'
      BY <3>1, <3>2, AskedTypes, AwaitsTypes
    <3> QED
      BY <1>4, <2>1, <3>3 DEF LoadsNow, refresh, InFlight, Refreshes
  <2>2. CASE \E j \in Jobs : Tracks(j, k, generation) /\ Awaits(c, Asked(c, k, generation), "waits", j)
    BY <1>4, <2>2, TracksTypes, AskedTypes, AwaitsTypes DEF LoadsNow
  <2> QED
    BY <1>4, <2>1, <2>2 DEF LoadsNow
<1> QED
  BY <1>1, <1>2, <1>3, <1>4

\* What the bound on events is for: there are no more commits and changes.
LEMMA HappensCounts ==
  ASSUME Types, Happens
  PROVE  events' = events + 1 /\ events' \in Upto
BY CacheBoundsAssumption DEF Happens, Types, Counters, Upto

LEMMA CountersKept ==
  ASSUME Types, UNCHANGED <<source, writeGen, dataVersion>>, heard' \in Pairs, cleared' \in Pairs,
         UNCHANGED events \/ Happens,
         epoch' \in Nat, generation' \in Nat, watchersHealthy' \in BOOLEAN
  PROVE  Counters'
<1>1. events' \in Upto /\ events <= events'
  <2>1. events \in Nat
    BY UptoIsNat DEF Types, Counters
  <2>2. CASE Happens
    BY <2>1, <2>2, HappensCounts
  <2>3. CASE UNCHANGED events
    BY <2>1, <2>3 DEF Types, Counters
  <2> QED
    BY <2>2, <2>3
<1>2. UNCHANGED <<db, files, signals>>
  BY DEF source
<1> QED
  BY <1>1, <1>2, UptoIsNat DEF Types, Counters

\* A step leaves the counters as they were, moves them on or starts anew.
LEMMA TypesStep ==
  ASSUME Types, [Next]_vars
  PROVE  Types'
<1>0. /\ epoch \in Nat /\ generation \in Nat /\ watchersHealthy \in BOOLEAN
      /\ heard \in Pairs /\ cleared \in Pairs
  BY DEF Types, Counters
<1> USE DEF Types
<1>1. ASSUME NEW r \in Reads, NEW k \in Outer, Read(r, k)
      PROVE  Types'
  <2>1. Cached' /\ InFlight' /\ Refreshes' /\ CallsMade' /\ generation' \in Nat
    <3>1. Hit(r, k) \/ Superseded(r, k) \/ Stale(r, k) \/ LoadsNow(r, k)
      BY <1>1 DEF Read
    <3> QED
      BY <3>1, CallTypes DEF Callers, Keys
  <2> QED
    BY <1>1, <2>1 DEF Read, Counters, source, history
<1>2. ASSUME NEW c \in Callers, Joined(c)
      PROVE  Types'
  <2>1. call[c] \in CallRecs
    BY DEF CallsMade
  <2>2. Counters' /\ Cached'
    BY <1>2 DEF Joined, Counters, Cached, source, history
  <2>3. CASE \E e \in buckets[call[c].key] :
               /\ Answers(c, call[c], e.value, FALSE)
               /\ UNCHANGED <<inflight, refresh>>
    <3>1. PICK e \in buckets[call[c].key] : Answers(c, call[c], e.value, FALSE)
      BY <2>3
    <3>2. e.value \in Vals
      BY <2>1 DEF Cached, EntryRecs, CallRecs
    <3>3. CallsMade'
      BY <2>1, <3>1, <3>2, AnswersTypes
    <3> QED
      BY <2>2, <2>3, <3>3 DEF refresh, InFlight, Refreshes
  <2>4. CASE \E j \in Jobs : Tracks(j, call[c].key, call[c].gen) /\ Awaits(c, call[c], "waits", j)
    <3>1. PICK j \in Jobs : Tracks(j, call[c].key, call[c].gen) /\ Awaits(c, call[c], "waits", j)
      BY <2>4
    <3>2. call[c].key \in Keys /\ call[c].gen \in Nat
      BY <2>1 DEF CallRecs
    <3> QED
      BY <2>1, <2>2, <3>1, <3>2, TracksTypes, AwaitsTypes
  <2> QED
    BY <1>2, <2>3, <2>4 DEF Joined
<1>3. ASSUME NEW c \in Callers, Waited(c)
      PROVE  Types'
  <2>1. call[c] \in CallRecs /\ call[c].key \in Keys /\ call[c].job \in Jobs
    BY <1>3 DEF CallsMade, CallRecs, Waited
  <2>2. job' \in [Jobs -> JobRecs]
    BY <1>3, ConstantTypes DEF Waited, Refreshes
  <2>3. PICK v \in Vals : Answers(c, call[c], v, FALSE)
    <3>1. job[call[c].job].value \in Vals
      BY <2>1 DEF Refreshes, JobRecs
    <3>2. \A e \in buckets[call[c].key] : e.value \in Vals /\ Old(e.value) \in Vals
      BY <2>1, MarkedValues DEF Cached, EntryRecs
    <3> QED
      BY <1>3, <3>1, <3>2 DEF Waited
  <2>4. CallsMade'
    BY <2>1, <2>3, AnswersTypes
  <2> QED
    BY <1>3, <2>2, <2>4 DEF Waited, Counters, Cached, InFlight, Refreshes, source, cache, history
<1>4. ASSUME NEW j \in Jobs, NestedReturns(j)
      PROVE  Types'
  <2>1. call[j] \in CallRecs /\ call[j].value \in Vals
    BY DEF CallsMade, CallRecs, Callers
  <2>2. job' \in [Jobs -> JobRecs] /\ InFlight'
    <3>1. StatusOf(call[j].value) \in Vals
      BY <2>1, MarkedValues
    <3>2. CASE Settles(j, NoValue)
      BY <3>2, SettlesTypes, ConstantTypes
    <3>3. CASE /\ job' = [job EXCEPT ![j].at = "loaded", ![j].value = StatusOf(call[j].value)]
               /\ UNCHANGED inflight
      BY <3>1, <3>3 DEF InFlight, Refreshes, JobRecs
    <3> QED
      BY <1>4, <3>2, <3>3 DEF NestedReturns
  <2>3. CallsMade'
    BY <1>4, ConstantTypes DEF NestedReturns, CallsMade, Idle
  <2> QED
    BY <1>4, <2>2, <2>3 DEF NestedReturns, Counters, Cached, Refreshes, source, history
<1>5. ASSUME NEW j \in Jobs, Works(j)
      PROVE  Types'
  <2>1. CASE WorkerReads(j)
    <3>1. [db |-> db, files |-> files, kind |-> "status"] \in Vals
      BY DEF Vals, Kinds, Counters
    <3>2. job' \in [Jobs -> JobRecs]
      <4>1. job' = [job EXCEPT ![j].at = "replied", ![j].value = [db |-> db, files |-> files, kind |-> "status"]]
        BY <2>1 DEF WorkerReads
      <4> QED
        BY <3>1, <4>1 DEF Refreshes, JobRecs
    <3>3. Counters' /\ Cached' /\ InFlight' /\ CallsMade'
      BY <2>1 DEF WorkerReads, Counters, Cached, InFlight, CallsMade, source, cache, history
    <3>4. Refreshes'
      BY <2>1, <3>2 DEF WorkerReads, Refreshes
    <3> QED
      BY <3>3, <3>4
  <2>2. CASE Deliver(j)
    <3>1. Cached'
      BY <2>2, RemembersTypes DEF Deliver, Refreshes, JobRecs
    <3>2. job' \in [Jobs -> JobRecs] /\ InFlight'
      BY <2>2, SettlesTypes DEF Deliver, Refreshes, JobRecs
    <3>3. Tail(queue) \in Seq(Jobs)
      BY <2>2, TailTypes DEF Deliver, IsNext
    <3> QED
      BY <2>2, <3>1, <3>2, <3>3 DEF Deliver, Counters, Refreshes, CallsMade, source, history
  <2>3. CASE WorkerFails(j)
    <3>1. Tail(queue) \in Seq(Jobs)
      BY <2>3, TailTypes DEF WorkerFails, IsNext
    <3>2. Counters'
      <4>1. Happens /\ UNCHANGED <<source, cache, history>>
        BY <2>3 DEF WorkerFails, Refreshes, JobRecs
      <4> QED
        BY <1>0, <4>1, CountersKept DEF cache, history
    <3> QED
      BY <2>3, <3>1, <3>2 DEF WorkerFails, Cached, InFlight, Refreshes, CallsMade, JobRecs, cache
  <2> QED
    BY <1>5, <2>1, <2>2, <2>3 DEF Works
<1>6. ASSUME NEW j \in Jobs, Runs(j)
      PROVE  Types'
  <2>1. CASE Nested(j)
    <3>1. Cached' /\ InFlight' /\ Refreshes' /\ CallsMade' /\ generation' \in Nat
      BY <2>1, CallTypes DEF Nested, Callers, Keys
    <3> QED
      BY <2>1, <3>1 DEF Nested, Counters, source, history
  <2>2. CASE LoadCore(j)
    <3>1. [db |-> db, files |-> files, kind |-> "core"] \in Vals
      BY DEF Vals, Kinds, Counters
    <3> QED
      BY <2>2, <3>1 DEF LoadCore, Counters, Cached, InFlight, Refreshes, CallsMade, JobRecs,
                        source, cache, history
  <2>3. CASE Store(j)
    <3>1. Cached'
      BY <2>3, RemembersTypes DEF Store, Counters
    <3>2. job' \in [Jobs -> JobRecs] /\ InFlight'
      BY <2>3, SettlesTypes DEF Store, Refreshes, JobRecs
    <3> QED
      BY <2>3, <3>1, <3>2 DEF Store, Counters, Refreshes, CallsMade, source, history
  <2>4. CASE LoadFails(j)
    <3>1. job' \in [Jobs -> JobRecs] /\ InFlight'
      BY <2>4, SettlesTypes, ConstantTypes DEF LoadFails
    <3> QED
      BY <2>4, <3>1, HappensCounts DEF LoadFails, Counters, Cached, Refreshes, CallsMade, source, history
  <2> QED
    BY <1>6, <2>1, <2>2, <2>3, <2>4 DEF Runs
<1>7. ASSUME Dies
      PROVE  Types'
  <2>1. CASE WorkerDies
    <3>1. \A x \in JobRecs : [x EXCEPT !.at = "timer", !.value = NoValue] \in JobRecs
      BY ConstantTypes DEF JobRecs
    <3>2. job' \in [Jobs -> JobRecs]
      BY <2>1, <3>1 DEF WorkerDies, Refreshes
    <3>3. queue' \in Seq(Jobs)
      <4>1. queue' = <<>>
        BY <2>1 DEF WorkerDies
      <4> QED
        BY <4>1
    <3>4. Counters' /\ Cached' /\ InFlight' /\ CallsMade'
      <4>1. Counters'
        <5>1. Happens /\ UNCHANGED <<source, cache, history>>
          BY <2>1 DEF WorkerDies, Refreshes, JobRecs
        <5> QED
          BY <1>0, <5>1, CountersKept DEF cache, history
      <4> QED
        BY <2>1, <4>1 DEF WorkerDies, Cached, InFlight, CallsMade, cache
    <3>5. Refreshes'
      BY <2>1, <3>2, <3>3 DEF WorkerDies, Refreshes
    <3> QED
      BY <3>4, <3>5
  <2>2. CASE Respawn
    BY <2>2 DEF Respawn, Counters, Cached, InFlight, Refreshes, CallsMade, source, cache, history
  <2> QED
    BY <1>7, <2>1, <2>2 DEF Dies
<1>8. ASSUME Changes
      PROVE  Types'
  <2>1. InFlight' /\ Refreshes' /\ CallsMade'
    BY <1>8 DEF Changes, OwnCommit, OtherCommit, FileChange, Signal, Unhealthy, Clear, InFlight,
                Refreshes, CallsMade, cache, refresh
  <2>2. Counters'
    <3>0. /\ db \in Nat /\ files \in Nat /\ writeGen \in Nat /\ dataVersion \in Nat /\ events \in Nat
          /\ epoch \in Nat /\ generation \in Nat /\ heard[1] \in Upto /\ heard[2] \in Upto
          /\ db = writeGen + dataVersion /\ db <= events /\ files <= events
      BY UptoIsNat DEF Counters, Pairs
    <3>1. CASE OwnCommit \/ OtherCommit
      <4>1. events' = events + 1 /\ events' \in Upto
        BY <3>1, HappensCounts DEF OwnCommit, OtherCommit
      <4>2. db' = db + 1 /\ db' = writeGen' + dataVersion' /\ writeGen' \in Nat /\ dataVersion' \in Nat
        BY <3>0, <3>1 DEF OwnCommit, OtherCommit
      <4>3. db' \in Upto /\ writeGen' \in Upto /\ dataVersion' \in Upto /\ db' <= events'
        <5>1. events + 1 <= MaxEvents
          BY <4>1 DEF Upto
        <5> QED
          BY <3>0, <4>1, <4>2, <5>1, OneMoreCommit
      <4>4. heard' \in Pairs
        <5>1. heard' \in {heard, <<db', heard[2]>>}
          BY <3>1 DEF OwnCommit, OtherCommit
        <5> QED
          BY <3>0, <4>3, <5>1 DEF Counters, Pairs
      <4>5. files <= events'
        BY <3>0, <4>1
      <4> QED
        BY <3>1, <4>1, <4>2, <4>3, <4>4, <4>5 DEF OwnCommit, OtherCommit, Counters
    <3>2. CASE FileChange
      <4>1. events' = events + 1 /\ events' \in Upto
        BY <3>2, HappensCounts DEF FileChange
      <4>2. files' = files + 1 /\ UNCHANGED <<db, writeGen, dataVersion, epoch, generation, watchersHealthy, cleared>>
        BY <3>2 DEF FileChange, cache
      <4>3. files' \in Upto /\ db <= events' /\ files' <= events'
        BY <3>0, <4>1, <4>2, CacheBoundsAssumption DEF Upto
      <4>4. heard' \in Pairs
        <5>1. heard' \in {heard, <<heard[1], files'>>}
          BY <3>2, <4>2 DEF FileChange
        <5> QED
          BY <3>0, <4>3, <5>1 DEF Counters, Pairs
      <4>5. signals' \subseteq 1..files'
        BY <3>0, <3>2, <4>2 DEF FileChange, Counters
      <4> QED
        BY <4>1, <4>2, <4>3, <4>4, <4>5 DEF Counters
    <3>3. ASSUME NEW i \in signals, Signal(i) PROVE Counters'
      <4>1. i \in Upto
        <5>1. files \in 0..MaxEvents /\ i \in 1..files
          BY DEF Counters, Upto
        <5> QED
          BY <5>1, CacheBoundsAssumption DEF Upto
      <4>2. heard' \in Pairs
        <5>1. heard' \in {heard, <<heard[1], i>>}
          BY <3>3 DEF Signal
        <5> QED
          BY <3>0, <4>1, <5>1 DEF Counters, Pairs
      <4>3. epoch' \in Nat /\ signals' \subseteq signals
        BY <3>0, <3>3 DEF Signal
      <4> QED
        BY <3>3, <4>2, <4>3 DEF Signal, Counters
    <3>4. CASE Unhealthy
      <4>1. Happens /\ UNCHANGED <<source, writeGen, dataVersion, epoch, generation, history>>
            /\ watchersHealthy' = FALSE
        BY <3>4 DEF Unhealthy, Cached, EntryRecs
      <4> QED
        BY <1>0, <4>1, CountersKept DEF history
    <3>5. CASE Clear
      <4>1. heard' \in Pairs /\ cleared' \in Pairs
        BY <3>5 DEF Clear, Counters, Pairs
      <4> QED
        BY <3>0, <3>5, <4>1, CountersKept DEF Clear
    <3> QED
      BY <1>8, <3>1, <3>2, <3>3, <3>4, <3>5 DEF Changes
  <2>3. Cached'
    <3>1. CASE Unhealthy
      <4>1. \A e \in EntryRecs : (IF e.sig = NoSig THEN [e EXCEPT !.sig = files] ELSE e) \in EntryRecs
        BY DEF EntryRecs, Counters
      <4> QED
        BY <3>1, <4>1 DEF Unhealthy, Cached
    <3>2. CASE OwnCommit \/ OtherCommit \/ FileChange \/ Clear \/ \E i \in signals : Signal(i)
      BY <3>2 DEF OwnCommit, OtherCommit, FileChange, Signal, Clear, Cached, cache
    <3> QED
      BY <1>8, <3>1, <3>2 DEF Changes
  <2> QED
    BY <2>1, <2>2, <2>3
<1>9. CASE UNCHANGED vars
  BY <1>9 DEF vars, source, cache, refresh, history, Counters, Cached, InFlight, Refreshes, CallsMade
<1> QED
  BY <1>1, <1>2, <1>3, <1>4, <1>5, <1>6, <1>7, <1>8, <1>9 DEF Next, Continues

-----------------------------------------------------------------------------
(* No call waits for a refresh nobody works on *)

Posted == \A j \in Jobs : AtWork(j)

\* What is in flight for a key is unsettled and of that key.
Flying == \A k \in Keys : \A i \in inflight[k] : job[i[2]].at # "settled" /\ job[i[2]].key = k

\* A refresh has a call only while it loads a status here; the call is for the core.
Loading ==
  \A j \in Jobs :
    /\ call[j].key = Core
    /\ call[j].at # "idle" => job[j].at = "timer" /\ job[j].key # Core
    /\ call[j].at \in {"joins", "waits"} => job[call[j].job].key = Core

Work == Posted /\ Flying /\ Loading

LEMMA AwaitsEffect ==
  ASSUME Types, NEW c \in Callers, NEW a \in CallRecs, NEW j \in Jobs,
         NEW place \in {"joins", "waits"}, Awaits(c, a, place, j)
  PROVE  /\ \A b \in Callers \ {c} : call'[b] = call[b]
         /\ call'[c].at = place /\ call'[c].job = j
         /\ call'[c].key = a.key /\ call'[c].floor = a.floor /\ call'[c].gen = a.gen
         /\ answer' = NoAnswer
BY DEF Awaits, CallRecs, Types, CallsMade

LEMMA AnswersEffect ==
  ASSUME Types, NEW c \in Callers, NEW a \in CallRecs, NEW v \in Vals, NEW x,
         Answers(c, a, v, x)
  PROVE  /\ \A b \in Callers \ {c} : call'[b] = call[b]
         /\ call'[c].key = Core /\ call'[c].floor = <<0, 0>> /\ call'[c].gen = 0
         /\ c \in Reads => /\ call'[c].at = "idle"
                          /\ answer'.value = v /\ answer'.floor = a.floor
         /\ c \notin Reads => /\ call'[c].at = "answered" /\ call'[c].value = v
                             /\ answer' = NoAnswer
<1>1. call \in [Callers -> CallRecs]
  BY DEF Types, CallsMade
<1>2. CASE c \in Reads
  <2>1. /\ call' = [call EXCEPT ![c] = Idle]
        /\ answer' = [value |-> v, need |-> a.need, floor |-> a.floor, refreshing |-> x]
    BY <1>2 DEF Answers
  <2> QED
    BY <1>1, <1>2, <2>1 DEF Idle
<1>3. CASE c \notin Reads
  <2>1. /\ call' = [call EXCEPT ![c] = [Idle EXCEPT !.at = "answered", !.value = v]]
        /\ answer' = NoAnswer
    BY <1>3 DEF Answers
  <2> QED
    BY <1>1, <1>3, <2>1 DEF Idle
<1> QED
  BY <1>2, <1>3

LEMMA AskedEffect ==
  ASSUME NEW c, NEW k, NEW gen
  PROVE  /\ Asked(c, k, gen).key = k
         /\ Asked(c, k, gen).floor = IF c \in Reads THEN cleared ELSE <<0, 0>>
<1>1. CASE c \in Reads
  <2>1. Asked(c, k, gen) = [Idle EXCEPT !.key = k, !.gen = gen, !.need = heard, !.floor = cleared]
    BY <1>1 DEF Asked
  <2> QED
    BY <1>1, <2>1 DEF Idle
<1>2. CASE c \notin Reads
  <2>1. Asked(c, k, gen) = [Idle EXCEPT !.key = k, !.gen = gen]
    BY <1>2 DEF Asked
  <2> QED
    BY <1>2, <2>1 DEF Idle
<1> QED
  BY <1>1, <1>2

\* A refresh is given a place that no call waits for.
LEMMA TracksEffect ==
  ASSUME Types, Work, NEW j \in Jobs, NEW k \in Keys, NEW gen \in Nat, Tracks(j, k, gen)
  PROVE  /\ job[j].at = "settled" /\ call[j].at = "idle"
         /\ \A c \in Callers : call[c].at \in {"joins", "waits"} => call[c].job # j
         /\ \A i \in Jobs \ {j} : job'[i] = job[i]
         /\ job'[j].at \in {"posted", "timer"} /\ job'[j].key = k /\ job'[j].gen = gen
         /\ job'[j].value = NoValue
         /\ Posted' /\ Flying'
<1>1. job[j].at = "settled" /\ \A c \in Callers : call[c].at \in {"joins", "waits"} => call[c].job # j
  BY DEF Tracks, Free, Unsettled, Awaiting
<1>2. call[j].at = "idle"
  BY <1>1 DEF Work, Loading
<1>3. /\ \A i \in Jobs \ {j} : job'[i] = job[i]
      /\ job'[j].at = IF worker = "failed" THEN "timer" ELSE "posted"
      /\ job'[j].key = k /\ job'[j].gen = gen /\ job'[j].value = NoValue
  BY DEF Tracks, Types, Refreshes
<1>4. Posted'
  <2> SUFFICES ASSUME NEW i \in Jobs, job'[i].at \in {"posted", "replied"}
               PROVE  worker' = "up" /\ \E n \in DOMAIN queue' : queue'[n] = i
    BY DEF Posted, AtWork
  <2>1. worker # "failed"
    <3>1. CASE i = j
      BY <1>3, <3>1
    <3>2. CASE i # j
      BY <1>3, <3>2 DEF Work, Posted, AtWork
    <3> QED
      BY <3>1, <3>2
  <2>2. worker' = "up" /\ queue' = Append(queue, j)
    BY <2>1 DEF Tracks
  <2>3. queue \in Seq(Jobs)
    BY DEF Types, Refreshes
  <2>4. CASE i = j
    <3>1. Len(queue) + 1 \in DOMAIN queue' /\ queue'[Len(queue) + 1] = j
      BY <2>2, <2>3
    <3> QED
      BY <2>2, <2>4, <3>1
  <2>5. CASE i # j
    <3>1. PICK n \in DOMAIN queue : queue[n] = i
      BY <1>3, <2>5 DEF Work, Posted, AtWork
    <3>2. n \in DOMAIN queue' /\ queue'[n] = i
      BY <2>2, <2>3, <3>1
    <3> QED
      BY <2>2, <3>2
  <2> QED
    BY <2>4, <2>5
<1>5. Flying'
  <2> SUFFICES ASSUME NEW q \in Keys, NEW i \in inflight'[q]
               PROVE  job'[i[2]].at # "settled" /\ job'[i[2]].key = q
    BY DEF Flying
  <2>1. inflight' = [inflight EXCEPT ![k] = {<<gen, j>>}] /\ inflight \in [Keys -> SUBSET (Nat \X Jobs)]
    BY DEF Tracks, Types, InFlight
  <2>2. CASE q = k
    BY <1>3, <2>1, <2>2
  <2>3. CASE q # k
    <3>1. i \in inflight[q] /\ i[2] \in Jobs
      BY <2>1, <2>3
    <3>2. job[i[2]].at # "settled" /\ job[i[2]].key = q
      BY <3>1 DEF Work, Flying
    <3> QED
      BY <1>1, <1>3, <3>1, <3>2
  <2> QED
    BY <2>2, <2>3
<1> QED
  BY <1>1, <1>2, <1>3, <1>4, <1>5

LEMMA SettlesEffect ==
  ASSUME Types, Work, NEW j \in Jobs, NEW v \in Vals, Settles(j, v)
  PROVE  /\ \A i \in Jobs \ {j} : job'[i] = job[i]
         /\ job'[j].at = "settled" /\ job'[j].key = Core /\ job'[j].gen = 0
         /\ job'[j].value \in {v, NoValue}
         /\ Flying'
<1>1. /\ \A i \in Jobs \ {j} : job'[i] = job[i]
      /\ job'[j].at = "settled" /\ job'[j].key = Core /\ job'[j].gen = 0
      /\ job'[j].value \in {v, NoValue}
  BY DEF Settles, Settled, Types, Refreshes
<1>2. Flying'
  <2> SUFFICES ASSUME NEW q \in Keys, NEW i \in inflight'[q]
               PROVE  job'[i[2]].at # "settled" /\ job'[i[2]].key = q
    BY DEF Flying
  <2>1. job[j].key \in Keys
    BY DEF Types, Refreshes, JobRecs
  <2>2. i \in inflight[q] /\ i[2] \in Jobs /\ (q = job[j].key => i[2] # j)
    BY <2>1 DEF Settles, Types, InFlight
  <2>3. job[i[2]].at # "settled" /\ job[i[2]].key = q
    BY <2>2 DEF Work, Flying
  <2> QED
    BY <1>1, <2>2, <2>3
<1> QED
  BY <1>1, <1>2

LEMMA FlyingKept ==
  ASSUME Types, Work, inflight' = inflight,
         \A i \in Jobs : job[i].at # "settled" => job'[i].at # "settled" /\ job'[i].key = job[i].key
  PROVE  Flying'
<1> SUFFICES ASSUME NEW q \in Keys, NEW i \in inflight[q]
             PROVE  job'[i[2]].at # "settled" /\ job'[i[2]].key = q
  BY DEF Flying
<1>1. i[2] \in Jobs
  BY DEF Types, InFlight
<1> QED
  BY <1>1 DEF Work, Flying

LEMMA TailKeepsPosted ==
  ASSUME Types, Work, NEW j \in Jobs, queue # <<>>, Head(queue) = j, queue' = Tail(queue),
         worker' = worker, \A i \in Jobs \ {j} : job'[i] = job[i], job'[j].at \in {"settled", "timer"}
  PROVE  Posted'
<1> SUFFICES ASSUME NEW i \in Jobs, job'[i].at \in {"posted", "replied"}
             PROVE  worker' = "up" /\ \E n \in DOMAIN queue' : queue'[n] = i
  BY DEF Posted, AtWork
<1>1. i # j /\ job[i].at \in {"posted", "replied"}
  OBVIOUS
<1>2. worker = "up" /\ \E n \in DOMAIN queue : queue[n] = i
  BY <1>1 DEF Work, Posted, AtWork
<1>3. PICK n \in DOMAIN queue : queue[n] = i
  BY <1>2
<1>4. queue \in Seq(Jobs)
  BY DEF Types, Refreshes
<1>5. n # 1
  BY <1>1, <1>3, <1>4
<1>6. n - 1 \in DOMAIN Tail(queue) /\ Tail(queue)[n - 1] = i
  BY <1>3, <1>4, <1>5
<1> QED
  BY <1>2, <1>6

-----------------------------------------------------------------------------
(* No answer is older than the latest clear before it was asked for *)

Since(m, v) == m[1] <= v.db /\ m[2] <= v.files
Below(m, n) == m[1] <= n[1] /\ m[2] <= n[2]

Floors == Below(cleared, <<db, files>>) /\ \A c \in Callers : Below(call[c].floor, cleared)
Stored == \A k \in Keys : \A e \in buckets[k] : Since(cleared, e.value)
Gens == (\A j \in Jobs : job[j].gen <= generation) /\ (\A c \in Callers : call[c].gen <= generation)
Unread ==
  \A j \in Jobs :
    /\ job[j].at \in {"posted", "timer"} => job[j].value = NoValue
    /\ job[j].at \in {"replied", "loaded"} => job[j].value # NoValue

\* A value that refresh j may store, or hand to a read that waits for it.
Covers(j, v) ==
  v # NoValue =>
    /\ job[j].at # "settled" /\ job[j].gen = generation => Since(cleared, v)
    /\ \A r \in Reads : call[r].at = "waits" /\ call[r].job = j => Since(call[r].floor, v)

Covered ==
  \A j \in Jobs :
    /\ Covers(j, job[j].value)
    /\ call[j].at = "answered" => Covers(j, call[j].value)
    /\ call[j].at = "waits" => Covers(j, job[call[j].job].value)

Sound == Floors /\ Stored /\ Gens /\ Unread /\ Covered /\ AnswersAreSinceClear

LEMMA SinceBelow ==
  ASSUME NEW m \in Pairs, NEW n \in Pairs, NEW v \in Vals, Below(m, n), Since(n, v)
  PROVE  Since(m, v)
BY DEF Pairs, Upto, Vals, Since, Below

LEMMA BelowTransitive ==
  ASSUME NEW m \in Pairs, NEW n \in Pairs, NEW p \in Pairs, Below(m, n), Below(n, p)
  PROVE  Below(m, p)
BY DEF Pairs, Upto, Below

\* What is as recent as the latest clear covers every refresh.
LEMMA CoversNow ==
  ASSUME Types', Floors', NEW j \in Jobs, NEW v \in Vals, Since(cleared, v)'
  PROVE  Covers(j, v)'
<1>1. ASSUME NEW r \in Reads
      PROVE  Since(call'[r].floor, v)
  <2>1. call'[r].floor \in Pairs /\ cleared' \in Pairs
    BY DEF Types, CallsMade, CallRecs, Counters, Callers
  <2>2. Below(call'[r].floor, cleared')
    BY DEF Floors, Below, Callers
  <2>3. Since(cleared', v)
    BY DEF Since
  <2> QED
    BY <2>1, <2>2, <2>3, SinceBelow
<1> QED
  BY <1>1 DEF Covers, Since

\* What covered a refresh covers it later, unless a read has begun to wait for it.
LEMMA CoversLater ==
  ASSUME Types, Gens, NEW j \in Jobs, NEW v, Covers(j, v),
         job'[j].at = "settled" \/ (job[j].at # "settled" /\ job'[j].gen = job[j].gen),
         (generation' = generation /\ cleared' = cleared) \/ generation' = generation + 1,
         \A r \in Reads : call'[r].at = "waits" /\ call'[r].job = j =>
           call[r].at = "waits" /\ call[r].job = j /\ call'[r].floor = call[r].floor
  PROVE  Covers(j, v)'
<1> SUFFICES ASSUME v # NoValue
             PROVE  /\ job'[j].at # "settled" /\ job'[j].gen = generation' => Since(cleared, v)'
                    /\ \A r \in Reads : call'[r].at = "waits" /\ call'[r].job = j => Since(call'[r].floor, v)
  BY DEF Covers, Since
<1>1. \A r \in Reads : call'[r].at = "waits" /\ call'[r].job = j => Since(call'[r].floor, v)
  BY DEF Covers
<1>2. ASSUME job'[j].at # "settled", job'[j].gen = generation'
      PROVE  Since(cleared, v)'
  <2>1. job[j].gen = job'[j].gen /\ job[j].gen <= generation /\ generation \in Nat
    BY <1>2 DEF Gens, Types, Counters
  <2>2. generation' = generation /\ cleared' = cleared
    BY <1>2, <2>1
  <2> QED
    BY <1>2, <2>1, <2>2 DEF Covers, Since
<1> QED
  BY <1>1, <1>2

LEMMA NothingCovers ==
  ASSUME NEW j
  PROVE  Covers(j, NoValue)'
BY DEF Covers

Begun(j) ==
  /\ job[j].at = "settled" /\ call[j].at = "idle"
  /\ \A c \in Callers : call[c].at \in {"joins", "waits"} => call[c].job # j
  /\ \A i \in Jobs \ {j} : job'[i] = job[i]
  /\ job'[j].at \in {"posted", "timer"} /\ job'[j].value = NoValue
  /\ job'[j].gen <= generation'

\* A call is answered from the cache, or waits for a refresh of its key, begun
\* for it or in flight.
LEMMA CallMoves ==
  ASSUME Types, Types', Work, Sound,
         NEW c \in Callers, NEW k \in Keys, NEW a \in CallRecs, NEW g \in Nat,
         a.key = k, Below(a.floor, cleared), a.gen <= generation', g <= generation',
         c \in Jobs => k = Core /\ job[c].at = "timer" /\ job[c].key # Core,
         \/ /\ \E e \in buckets[k], x \in BOOLEAN : Answers(c, a, e.value, x)
            /\ UNCHANGED <<inflight, refresh>> \/ \E j \in Jobs : Tracks(j, k, g)
         \/ /\ \E i \in inflight[k] : Awaits(c, a, "joins", i[2])
            /\ UNCHANGED <<inflight, refresh>>
         \/ \E j \in Jobs : Tracks(j, k, g) /\ Awaits(c, a, "waits", j),
         generation' \in {generation, generation + 1},
         UNCHANGED <<db, files, cleared>>,
         \A q \in Keys : buckets'[q] \subseteq buckets[q]
  PROVE  Work' /\ Sound'
<1>1. /\ Posted' /\ Flying'
      /\ \/ \A i \in Jobs : job'[i] = job[i]
         \/ \E j \in Jobs : Tracks(j, k, g) /\ Begun(j) /\ job'[j].key = k
  <2>1. CASE UNCHANGED <<inflight, refresh>>
    BY <2>1 DEF refresh, Work, Posted, Flying, AtWork
  <2>2. ASSUME NEW j \in Jobs, Tracks(j, k, g)
        PROVE  Posted' /\ Flying' /\ Begun(j) /\ job'[j].key = k
    BY <2>2, TracksEffect DEF Begun
  <2> QED
    BY <2>1, <2>2
<1> DEFINE Outcome ==
       /\ \A b \in Callers \ {c} : call'[b] = call[b]
       /\ Below(call'[c].floor, cleared) /\ call'[c].gen <= generation'
       /\ c \in Jobs => call'[c].key = Core
       /\ AnswersAreSinceClear'
       /\ \/ c \in Reads /\ call'[c].at = "idle"
          \/ c \notin Reads /\ call'[c].at = "answered" /\ call'[c].value \in Vals /\ Since(cleared, call'[c].value)
          \/ /\ call'[c].at = "joins" /\ \A i \in Jobs : job'[i] = job[i]
             /\ \E i \in inflight[k] : call'[c].job = i[2]
          \/ /\ call'[c].at = "waits" /\ call'[c].job \in Jobs /\ job'[call'[c].job].key = k
             /\ Begun(call'[c].job)
<1>2. Outcome
  <2>1. ASSUME NEW e \in buckets[k], NEW x, Answers(c, a, e.value, x)
        PROVE  Outcome
    <3>1. e.value \in Vals /\ Since(cleared, e.value)
      BY DEF Types, Cached, EntryRecs, Sound, Stored
    <3>2. a.floor \in Pairs /\ cleared \in Pairs
      BY DEF CallRecs, Types, Counters
    <3>3. Since(a.floor, e.value)
      BY <3>1, <3>2, SinceBelow
    <3>4. Below(<<0, 0>>, cleared) /\ 0 <= generation'
      BY <3>2 DEF Below, Pairs, Upto, Types, Counters
    <3>5. /\ \A b \in Callers \ {c} : call'[b] = call[b]
          /\ call'[c].key = Core /\ call'[c].floor = <<0, 0>> /\ call'[c].gen = 0
          /\ c \in Reads => /\ call'[c].at = "idle"
                           /\ answer'.value = e.value /\ answer'.floor = a.floor
          /\ c \notin Reads => /\ call'[c].at = "answered" /\ call'[c].value = e.value
                              /\ answer' = NoAnswer
      BY <2>1, <3>1, AnswersEffect
    <3>6. AnswersAreSinceClear'
      <4>1. CASE c \in Reads
        BY <3>3, <3>5, <4>1 DEF AnswersAreSinceClear, Since
      <4>2. CASE c \notin Reads
        BY <3>5, <4>2 DEF AnswersAreSinceClear, Answered, NoAnswer
      <4> QED
        BY <4>1, <4>2
    <3> QED
      BY <3>1, <3>4, <3>5, <3>6
  <2>2. ASSUME NEW j \in Jobs, NEW place \in {"joins", "waits"}, Awaits(c, a, place, j)
        PROVE  /\ \A b \in Callers \ {c} : call'[b] = call[b]
               /\ Below(call'[c].floor, cleared) /\ call'[c].gen <= generation'
               /\ c \in Jobs => call'[c].key = Core
               /\ AnswersAreSinceClear'
               /\ call'[c].at = place /\ call'[c].job = j
    <3>1. /\ \A b \in Callers \ {c} : call'[b] = call[b]
          /\ call'[c].at = place /\ call'[c].job = j
          /\ call'[c].key = a.key /\ call'[c].floor = a.floor /\ call'[c].gen = a.gen
          /\ answer' = NoAnswer
      BY <2>2, AwaitsEffect
    <3>2. AnswersAreSinceClear'
      BY <3>1 DEF AnswersAreSinceClear, Answered, NoAnswer
    <3> QED
      BY <3>1, <3>2
  <2>3. ASSUME NEW i \in inflight[k], Awaits(c, a, "joins", i[2]), UNCHANGED <<inflight, refresh>>
        PROVE  Outcome
    <3>1. i[2] \in Jobs
      BY DEF Types, InFlight
    <3>2. \A n \in Jobs : job'[n] = job[n]
      BY <2>3 DEF refresh
    <3> QED
      BY <2>2, <2>3, <3>1, <3>2
  <2>4. ASSUME NEW j \in Jobs, Tracks(j, k, g), Awaits(c, a, "waits", j)
        PROVE  Outcome
    <3>1. Begun(j) /\ job'[j].key = k
      BY <2>4, TracksEffect DEF Begun
    <3> QED
      BY <2>2, <2>4, <3>1
  <2> QED
    BY <2>1, <2>3, <2>4
<1>3. c \in Jobs => c \notin Reads
  BY JobsAreNat
<1>4. \A b \in Callers \ {c} : call'[b] = call[b]
  BY <1>2
<1>5. ASSUME NEW i \in Jobs
      PROVE  \/ job'[i] = job[i] \/ Begun(i)
  BY <1>1 DEF Begun
<1>6. \A b \in Callers, n \in Jobs : call[b].at \in {"joins", "waits"} /\ call[b].job = n => job'[n] = job[n]
  BY <1>5 DEF Begun
<1>7. Work'
  <2>1. Loading'
    <3> SUFFICES ASSUME NEW i \in Jobs
                 PROVE  /\ call'[i].key = Core
                        /\ call'[i].at # "idle" => job'[i].at = "timer" /\ job'[i].key # Core
                        /\ call'[i].at \in {"joins", "waits"} => job'[call'[i].job].key = Core
      BY DEF Loading
    <3>1. CASE i = c
      <4>1. job'[c] = job[c] /\ k = Core /\ job[c].at = "timer" /\ job[c].key # Core
        BY <1>5, <3>1 DEF Begun
      <4>2. ASSUME NEW n \in inflight[k]
            PROVE  n[2] \in Jobs /\ job[n[2]].key = Core
        BY <4>1 DEF Types, InFlight, Work, Flying
      <4> QED
        BY <1>2, <1>3, <3>1, <4>1, <4>2
    <3>2. CASE i # c
      <4>1. call'[i] = call[i] /\ i \in Callers
        BY <1>4, <3>2 DEF Callers
      <4>2. call[i].at # "idle" => job'[i] = job[i]
        BY <1>5 DEF Begun
      <4>3. call[i].at \in {"joins", "waits"} => call[i].job \in Jobs
        BY <4>1 DEF Types, CallsMade
      <4>4. call[i].at \in {"joins", "waits"} => job'[call[i].job] = job[call[i].job]
        BY <1>6, <4>1, <4>3
      <4> QED
        BY <4>1, <4>2, <4>4 DEF Work, Loading
    <3> QED
      BY <3>1, <3>2
  <2> QED
    BY <1>1, <2>1 DEF Work
<1>8. Floors' /\ Stored'
  <2>1. Stored'
    BY DEF Sound, Stored, Since, Cached, Types
  <2>2. Floors'
    BY <1>2 DEF Sound, Floors, Below
  <2> QED
    BY <2>1, <2>2
<1>9. Gens'
  <2>1. generation \in Nat /\ generation' \in Nat /\ generation <= generation'
    BY DEF Types, Counters
  <2>2. ASSUME NEW i \in Jobs
        PROVE  job'[i].gen <= generation'
    BY <1>5, <2>1 DEF Sound, Gens, Begun, Types, Refreshes, JobRecs
  <2>3. ASSUME NEW b \in Callers
        PROVE  call'[b].gen <= generation'
    BY <1>2, <1>4, <2>1 DEF Sound, Gens, Types, CallsMade, CallRecs
  <2> QED
    BY <2>2, <2>3 DEF Gens
<1>10. Unread'
  BY <1>5 DEF Sound, Unread, Begun
<1>11. Covered'
  <2> SUFFICES ASSUME NEW i \in Jobs
               PROVE  /\ Covers(i, job[i].value)'
                      /\ call'[i].at = "answered" => Covers(i, call[i].value)'
                      /\ call'[i].at = "waits" => Covers(i, job[call[i].job].value)'
    BY DEF Covered
  <2>1. i \in Callers
    BY DEF Callers
  <2>2. ASSUME job'[i] = job[i], ~Begun(i), NEW v, Covers(i, v)
        PROVE  Covers(i, v)'
    <3>1. \A r \in Reads : call'[r].at = "waits" /\ call'[r].job = i =>
            call[r].at = "waits" /\ call[r].job = i /\ call'[r].floor = call[r].floor
      BY <1>2, <2>2 DEF Callers
    <3>2. (generation' = generation /\ cleared' = cleared) \/ generation' = generation + 1
      OBVIOUS
    <3> QED
      BY <2>2, <3>1, <3>2, CoversLater DEF Sound
  <2>3. CASE Begun(i)
    <3>1. call'[i] = call[i] /\ call[i].at = "idle" /\ job'[i].value = NoValue
      BY <1>4, <2>1, <2>3 DEF Begun
    <3> QED
      BY <3>1, NothingCovers
  <2>4. CASE job'[i] = job[i] /\ ~Begun(i)
    <3>1. Covers(i, job[i].value)'
      BY <2>2, <2>4 DEF Sound, Covered
    <3>2. ASSUME call'[i].at = "answered"
          PROVE  Covers(i, call[i].value)'
      <4>1. CASE i = c
        <5>1. call'[c].value \in Vals /\ Since(cleared, call'[c].value)
          BY <1>2, <1>3, <3>2, <4>1
        <5>2. Since(cleared, call[c].value)'
          BY <5>1 DEF Since
        <5> QED
          BY <1>8, <4>1, <5>1, <5>2, CoversNow
      <4>2. CASE i # c
        BY <1>4, <2>1, <2>2, <2>4, <3>2, <4>2 DEF Sound, Covered
      <4> QED
        BY <4>1, <4>2
    <3>3. ASSUME call'[i].at = "waits"
          PROVE  Covers(i, job[call[i].job].value)'
      <4>1. CASE i = c
        <5>1. job'[call'[c].job].value = NoValue
          BY <1>2, <3>3, <4>1 DEF Begun
        <5> QED
          BY <4>1, <5>1, NothingCovers
      <4>2. CASE i # c
        <5>1. call'[i] = call[i] /\ call[i].job \in Jobs
          BY <1>4, <2>1, <3>3, <4>2 DEF Types, CallsMade
        <5>2. job'[call[i].job] = job[call[i].job]
          BY <1>6, <2>1, <3>3, <5>1
        <5>3. Covers(i, job[call[i].job].value)
          BY <3>3, <5>1 DEF Sound, Covered
        <5>4. PICK v : v = job[call[i].job].value
          OBVIOUS
        <5>5. Covers(i, v)'
          BY <2>2, <2>4, <5>3, <5>4
        <5>6. job'[call'[i].job].value = v
          BY <5>1, <5>2, <5>4
        <5> QED
          BY <5>5, <5>6
      <4> QED
        BY <4>1, <4>2
    <3> QED
      BY <3>1, <3>2, <3>3
  <2> QED
    BY <1>5, <2>3, <2>4
<1> QED
  BY <1>2, <1>7, <1>8, <1>9, <1>10, <1>11 DEF Sound

\* The other steps: refreshes lose their values, or get one as recent as the
\* latest clear or as the core they were loaded from; calls are answered.
LEMMA JobMoves ==
  ASSUME Types, Types', Work, Gens, Covered, Floors',
         (generation' = generation /\ cleared' = cleared) \/ generation' = generation + 1,
         \A i \in Jobs : job'[i].at = "settled" \/ (job[i].at # "settled" /\ job'[i].gen = job[i].gen),
         \A i \in Jobs :
           \/ job'[i].value \in {job[i].value, NoValue}
           \/ Since(cleared', job'[i].value)
           \/ Covers(i, job'[i].value) /\ job[i].key # Core,
         \A r \in Reads : call'[r] = call[r] \/ call'[r].at = "idle",
         \A i \in Jobs :
           \/ call'[i] = call[i]
           \/ call'[i].at = "idle"
           \/ call'[i].at = "answered" /\ (Since(cleared', call'[i].value) \/ Covers(i, call'[i].value))
  PROVE  Covered'
<1>1. ASSUME NEW i \in Jobs, NEW v, Covers(i, v)
      PROVE  Covers(i, v)'
  <2>1. \A r \in Reads : call'[r].at = "waits" /\ call'[r].job = i =>
          call[r].at = "waits" /\ call[r].job = i /\ call'[r].floor = call[r].floor
    OBVIOUS
  <2> QED
    BY <1>1, <2>1, CoversLater
<1>2. ASSUME NEW i \in Jobs, NEW v \in Vals, Since(cleared', v)
      PROVE  Covers(i, v)'
  <2>1. Since(cleared, v)'
    BY <1>2 DEF Since
  <2> QED
    BY <2>1, CoversNow
<1>3. ASSUME NEW i \in Jobs
      PROVE  /\ i \in Callers /\ job'[i].value \in Vals /\ call'[i].value \in Vals
             /\ call[i].at \in {"joins", "waits"} => call[i].job \in Jobs /\ job[call[i].job].key = Core
  BY DEF Types, Refreshes, JobRecs, CallsMade, CallRecs, Callers, Work, Loading
<1> SUFFICES ASSUME NEW i \in Jobs
             PROVE  /\ Covers(i, job[i].value)'
                    /\ call'[i].at = "answered" => Covers(i, call[i].value)'
                    /\ call'[i].at = "waits" => Covers(i, job[call[i].job].value)'
  BY DEF Covered
<1>4. Covers(i, job[i].value)'
  <2>1. PICK v : v = job'[i].value
    OBVIOUS
  <2>2. Covers(i, job[i].value)
    BY DEF Covered
  <2>3. CASE v = NoValue
    BY <2>1, <2>3, NothingCovers
  <2>4. CASE Covers(i, v)
    BY <1>1, <2>1, <2>4
  <2>5. CASE Since(cleared', v)
    BY <1>2, <1>3, <2>1, <2>5
  <2> QED
    BY <2>1, <2>2, <2>3, <2>4, <2>5
<1>5. ASSUME call'[i].at = "answered"
      PROVE  Covers(i, call[i].value)'
  <2>1. PICK v : v = call'[i].value
    OBVIOUS
  <2>2. call'[i] = call[i] => Covers(i, v)
    BY <1>5, <2>1 DEF Covered
  <2>3. CASE Covers(i, v)
    BY <1>1, <2>1, <2>3
  <2>4. CASE Since(cleared', v)
    BY <1>2, <1>3, <2>1, <2>4
  <2> QED
    BY <1>5, <2>1, <2>2, <2>3, <2>4
<1>6. ASSUME call'[i].at = "waits"
      PROVE  Covers(i, job[call[i].job].value)'
  <2>1. call'[i] = call[i] /\ call[i].job \in Jobs /\ job[call[i].job].key = Core
    BY <1>3, <1>6
  <2>2. PICK n \in Jobs : n = call[i].job
    BY <2>1
  <2>3. PICK v : v = job'[n].value
    OBVIOUS
  <2>4. job[n].value = v => Covers(i, v)
    BY <1>6, <2>1, <2>2, <2>3 DEF Covered
  <2>5. CASE v = NoValue
    BY <2>1, <2>2, <2>3, <2>5, NothingCovers
  <2>6. CASE Covers(i, v)
    BY <1>1, <2>1, <2>2, <2>3, <2>6
  <2>7. CASE Since(cleared', v)
    BY <1>2, <1>3, <2>1, <2>2, <2>3, <2>7
  <2> QED
    BY <2>1, <2>2, <2>3, <2>4, <2>5, <2>6, <2>7
<1> QED
  BY <1>4, <1>5, <1>6

LEMMA WaitedStep ==
  ASSUME Types, Types', Work, Sound, NEW c \in Callers, Waited(c)
  PROVE  Work' /\ Sound'
<1> DEFINE n == call[c].job
           own == job[n].value
<1>1. n \in Jobs /\ job[n].at = "settled" /\ call[c].at = "waits" /\ call[c] \in CallRecs
      /\ call[c].key \in Keys /\ (c \in Jobs => c \notin Reads)
  BY JobsAreNat DEF Waited, Types, CallsMade, CallRecs
<1>2. /\ \A i \in Jobs \ {n} : job'[i] = job[i]
      /\ job'[n].at = "settled" /\ job'[n].key = Core /\ job'[n].gen = 0 /\ job'[n].value = NoValue
  BY <1>1 DEF Waited, Settled, Types, Refreshes
<1>3. PICK v \in Vals :
         /\ Answers(c, call[c], v, FALSE)
         /\ v = own \/ Since(cleared, v)
  <2>1. own \in Vals
    BY <1>1 DEF Types, Refreshes, JobRecs
  <2>2. \A e \in buckets[call[c].key] :
          /\ e.value \in Vals /\ Since(cleared, e.value)
          /\ Old(e.value) \in Vals /\ Since(cleared, Old(e.value))
    BY <1>1, MarkedValues DEF Types, Cached, EntryRecs, Sound, Stored, Since
  <2> QED
    BY <2>1, <2>2 DEF Waited
<1>4. /\ \A b \in Callers \ {c} : call'[b] = call[b]
      /\ call'[c].key = Core /\ call'[c].floor = <<0, 0>> /\ call'[c].gen = 0
      /\ c \in Reads => /\ call'[c].at = "idle"
                       /\ answer'.value = v /\ answer'.floor = call[c].floor
      /\ c \notin Reads => /\ call'[c].at = "answered" /\ call'[c].value = v
                          /\ answer' = NoAnswer
  BY <1>1, <1>3, AnswersEffect
<1>5. UNCHANGED <<db, files, buckets, inflight, generation, queue, worker, cleared>>
  BY DEF Waited, source, cache, history
<1>6. Work'
  <2>1. Posted'
    BY <1>1, <1>2, <1>5 DEF Work, Posted, AtWork
  <2>2. Flying'
    BY <1>1, <1>2, <1>5 DEF Work, Flying, Types, InFlight
  <2>3. Loading'
    <3> SUFFICES ASSUME NEW i \in Jobs
                 PROVE  /\ call'[i].key = Core
                        /\ call'[i].at # "idle" => job'[i].at = "timer" /\ job'[i].key # Core
                        /\ call'[i].at \in {"joins", "waits"} => job'[call'[i].job].key = Core
      BY DEF Loading
    <3>1. i \in Callers
      BY DEF Callers
    <3>2. call[i].at # "idle" => job'[i] = job[i] /\ job[i].at = "timer" /\ job[i].key # Core
      BY <1>1, <1>2 DEF Work, Loading
    <3>3. CASE i = c
      BY <1>1, <1>4, <3>2, <3>3
    <3>4. CASE i # c
      <4>1. call'[i] = call[i]
        BY <1>4, <3>1, <3>4
      <4>2. call[i].at \in {"joins", "waits"} => call[i].job \in Jobs /\ job[call[i].job].key = Core
        BY <3>1 DEF Types, CallsMade, Work, Loading
      <4> QED
        BY <1>2, <3>2, <4>1, <4>2 DEF Work, Loading
    <3> QED
      BY <3>3, <3>4
  <2> QED
    BY <2>1, <2>2, <2>3 DEF Work
<1>7. Floors' /\ Stored' /\ Gens' /\ Unread'
  <2>1. Below(<<0, 0>>, cleared) /\ 0 <= generation
    BY DEF Types, Counters, Pairs, Upto, Below
  <2>2. Floors'
    BY <1>4, <1>5, <2>1 DEF Sound, Floors, Below
  <2>3. Stored'
    BY <1>5 DEF Sound, Stored, Since
  <2>4. Gens'
    BY <1>2, <1>4, <1>5, <2>1 DEF Sound, Gens
  <2>5. Unread'
    BY <1>2 DEF Sound, Unread
  <2> QED
    BY <2>2, <2>3, <2>4, <2>5
<1>8. AnswersAreSinceClear'
  <2>1. CASE c \in Reads
    <3>1. call[c].floor \in Pairs /\ cleared \in Pairs /\ Below(call[c].floor, cleared)
      BY <1>1 DEF CallRecs, Types, Counters, Sound, Floors
    <3>2. v # NoValue => Since(call[c].floor, v)
      <4>1. CASE Since(cleared, v)
        BY <3>1, <4>1, SinceBelow
      <4>2. CASE v = own
        <5>1. Covers(n, own)
          BY <1>1 DEF Sound, Covered
        <5> QED
          BY <1>1, <2>1, <4>2, <5>1 DEF Covers
      <4> QED
        BY <1>3, <4>1, <4>2
    <3> QED
      BY <1>4, <2>1, <3>2 DEF AnswersAreSinceClear, Answered, Since
  <2>2. CASE c \notin Reads
    BY <1>4, <2>2 DEF AnswersAreSinceClear, Answered, NoAnswer
  <2> QED
    BY <2>1, <2>2
<1>9. Covered'
  <2>1. \A i \in Jobs : job'[i].at = "settled" \/ (job[i].at # "settled" /\ job'[i].gen = job[i].gen)
    BY <1>1, <1>2
  <2>2. \A i \in Jobs : job'[i].value \in {job[i].value, NoValue}
    BY <1>2
  <2>3. \A r \in Reads : call'[r] = call[r] \/ call'[r].at = "idle"
    BY <1>4 DEF Callers
  <2>4. c \in Jobs => Since(cleared, v) \/ Covers(c, v)
    BY <1>1, <1>3 DEF Sound, Covered
  <2>5. \A i \in Jobs :
          \/ call'[i] = call[i]
          \/ call'[i].at = "answered" /\ (Since(cleared', call'[i].value) \/ Covers(i, call'[i].value))
    BY <1>1, <1>4, <1>5, <2>4 DEF Callers
  <2> QED
    BY <1>5, <1>7, <2>1, <2>2, <2>3, <2>5, JobMoves DEF Sound
<1> QED
  BY <1>6, <1>7, <1>8, <1>9 DEF Sound

\* One refresh moves on, without a call of its own.
LEMMA JobStep ==
  ASSUME Types, Types', Work, Sound, NEW j \in Jobs,
         UNCHANGED <<call, db, files, generation, cleared>>, answer' = NoAnswer,
         job[j].at # "settled", call[j].at = "idle", \A i \in Jobs \ {j} : job'[i] = job[i],
         \/ /\ job'[j].at = "settled" /\ job'[j].key = Core /\ job'[j].gen = 0
            /\ job'[j].value \in {job[j].value, NoValue}
         \/ /\ job'[j].at = "timer" /\ job'[j].key = job[j].key /\ job'[j].gen = job[j].gen
            /\ job'[j].value = NoValue
         \/ /\ job'[j].at \in {"replied", "loaded"} /\ job'[j].key = job[j].key /\ job'[j].gen = job[j].gen
            /\ job'[j].value # NoValue /\ Since(cleared, job'[j].value),
         Posted', Flying', Stored'
  PROVE  Work' /\ Sound'
<1>1. Loading'
  <2>1. \A i \in Jobs : call[i].at \in {"joins", "waits"} => call[i].job \in Jobs
    BY DEF Types, CallsMade, Callers
  <2> QED
    BY <2>1 DEF Work, Loading
<1>2. Floors' /\ Gens' /\ Unread' /\ AnswersAreSinceClear'
  <2>1. 0 <= generation
    BY DEF Types, Counters
  <2>2. Gens'
    BY <2>1 DEF Sound, Gens
  <2>3. Floors'
    BY DEF Sound, Floors
  <2>4. Unread'
    BY DEF Sound, Unread
  <2>5. AnswersAreSinceClear'
    BY DEF AnswersAreSinceClear, Answered, NoAnswer
  <2> QED
    BY <2>2, <2>3, <2>4, <2>5
<1>3. Covered'
  <2>1. \A i \in Jobs : job'[i].at = "settled" \/ (job[i].at # "settled" /\ job'[i].gen = job[i].gen)
                       \/ job'[i] = job[i]
    OBVIOUS
  <2>2. \A i \in Jobs : job'[i].value \in {job[i].value, NoValue} \/ Since(cleared', job'[i].value)
    OBVIOUS
  <2> QED
    BY <1>2, <2>1, <2>2, JobMoves DEF Sound
<1> QED
  BY <1>1, <1>2, <1>3 DEF Work, Sound

LEMMA RemembersStored ==
  ASSUME Types, Sound, NEW j \in Jobs, job[j].at \in {"replied", "loaded"}, NEW w, Remembers(j, w),
         cleared' = cleared
  PROVE  Stored'
<1>1. CASE job[j].gen # generation
  BY <1>1 DEF Remembers, Sound, Stored, Since
<1>2. CASE job[j].gen = generation
  <2>1. job[j].value # NoValue /\ Since(cleared, job[j].value)
    BY <1>2 DEF Sound, Unread, Covered, Covers
  <2>2. PICK e : e.value = job[j].value /\ buckets' = [buckets EXCEPT ![job[j].key] = {e}]
    BY <1>2 DEF Remembers
  <2> QED
    BY <2>1, <2>2 DEF Sound, Stored, Since, Types, Cached
<1> QED
  BY <1>1, <1>2

LEMMA NowIsSinceClear ==
  ASSUME Types, Sound, NEW kind \in {"status", "core"}
  PROVE  /\ Since(cleared, [db |-> db, files |-> files, kind |-> kind])
         /\ [db |-> db, files |-> files, kind |-> kind] # NoValue
BY DEF Sound, Floors, Below, Since, NoValue

LEMMA WorksStep ==
  ASSUME Types, Types', Work, Sound, NEW j \in Jobs, Works(j)
  PROVE  Work' /\ Sound'
<1>1. job \in [Jobs -> JobRecs]
  BY DEF Types, Refreshes
<1>2. job[j].at \in {"posted", "replied"} /\ call[j].at = "idle" /\ answer' = NoAnswer
  BY DEF Works, WorkerReads, Deliver, WorkerFails, Work, Loading
<1>3. CASE WorkerReads(j)
  <2>1. UNCHANGED <<call, db, files, generation, cleared, buckets, inflight, queue, worker>>
    BY <1>3 DEF WorkerReads, source, cache, history
  <2>2. job' = [job EXCEPT ![j].at = "replied", ![j].value = [db |-> db, files |-> files, kind |-> "status"]]
    BY <1>3 DEF WorkerReads
  <2>3. job'[j] = [job[j] EXCEPT !.at = "replied", !.value = [db |-> db, files |-> files, kind |-> "status"]]
    BY <1>1, <2>2
  <2>4. /\ job'[j].at = "replied" /\ job'[j].key = job[j].key /\ job'[j].gen = job[j].gen
        /\ job'[j].value # NoValue /\ Since(cleared, job'[j].value)
    BY <1>1, <2>3, NowIsSinceClear DEF JobRecs
  <2>5. \A i \in Jobs \ {j} : job'[i] = job[i]
    BY <1>1, <2>2
  <2>6. Posted'
    <3> SUFFICES ASSUME NEW i \in Jobs, job'[i].at \in {"posted", "replied"}
                 PROVE  worker' = "up" /\ \E n \in DOMAIN queue' : queue'[n] = i
      BY DEF Posted, AtWork
    <3>1. job[i].at \in {"posted", "replied"}
      BY <1>2, <2>5
    <3> QED
      BY <2>1, <3>1 DEF Work, Posted, AtWork
  <2>7. Flying' /\ Stored'
    BY <2>1, <2>4, <2>5, FlyingKept DEF Sound, Stored, Since
  <2> QED
    BY <1>2, <2>1, <2>4, <2>5, <2>6, <2>7, JobStep
<1>4. CASE Deliver(j)
  <2>1. job[j].at = "replied" /\ job[j].value \in Vals
    BY <1>1, <1>4 DEF Deliver, JobRecs
  <2>2. Settles(j, job[j].value) /\ Remembers(j, job[j].writeGen)
    BY <1>4 DEF Deliver
  <2>3. /\ \A i \in Jobs \ {j} : job'[i] = job[i]
        /\ job'[j].at = "settled" /\ job'[j].key = Core /\ job'[j].gen = 0
        /\ job'[j].value \in {job[j].value, NoValue}
        /\ Flying'
    BY <2>1, <2>2, SettlesEffect
  <2>4. /\ UNCHANGED <<call, db, files, generation, cleared, worker>>
        /\ queue # <<>> /\ Head(queue) = j /\ queue' = Tail(queue)
    BY <1>4 DEF Deliver, IsNext, source, history
  <2>5. Stored'
    BY <2>1, <2>2, <2>4, RemembersStored
  <2>6. Posted'
    BY <2>3, <2>4, TailKeepsPosted
  <2> QED
    BY <1>2, <2>1, <2>3, <2>4, <2>5, <2>6, JobStep
<1>5. CASE WorkerFails(j)
  <2>1. /\ UNCHANGED <<call, db, files, generation, cleared, worker, buckets, inflight>>
        /\ queue # <<>> /\ Head(queue) = j /\ queue' = Tail(queue)
        /\ job[j].at = "posted" /\ job' = [job EXCEPT ![j].at = "timer"]
    BY <1>5 DEF WorkerFails, IsNext, source, cache, history
  <2>2. \A i \in Jobs \ {j} : job'[i] = job[i]
    BY <1>1, <2>1
  <2>3. /\ job'[j].at = "timer" /\ job'[j].key = job[j].key /\ job'[j].gen = job[j].gen
        /\ job'[j].value = NoValue
    BY <1>1, <2>1 DEF JobRecs, Sound, Unread
  <2>4. Posted'
    BY <2>1, <2>2, <2>3, TailKeepsPosted
  <2>5. Flying' /\ Stored'
    BY <2>1, <2>2, <2>3, FlyingKept DEF Sound, Stored, Since
  <2> QED
    BY <1>2, <2>1, <2>2, <2>3, <2>4, <2>5, JobStep
<1> QED
  BY <1>3, <1>4, <1>5 DEF Works

LEMMA CallStep ==
  ASSUME Types, Types', Work, Sound, NEW c \in Callers, NEW k \in Keys,
         c \in Jobs => k = Core /\ job[c].at = "timer" /\ job[c].key # Core,
         Hit(c, k) \/ Superseded(c, k) \/ Stale(c, k) \/ LoadsNow(c, k),
         UNCHANGED <<db, files, cleared>>
  PROVE  Work' /\ Sound'
<1>1. generation' \in {generation, generation + 1} /\ \A q \in Keys : buckets'[q] \subseteq buckets[q]
  BY DEF Hit, Superseded, Stale, LoadsNow
<1>2. PICK g \in Nat : g = generation'
  BY DEF Types, Counters
<1>3. PICK a \in CallRecs : a = Asked(c, k, g)
  BY AskedTypes
<1>4. a.key = k /\ a.gen = g /\ Below(a.floor, cleared)
  <2>1. cleared \in Pairs
    BY DEF Types, Counters
  <2> QED
    BY <1>3, <2>1, AskedTypes, AskedEffect DEF Below, Pairs, Upto
<1>5. \/ /\ \E e \in buckets[k], x \in BOOLEAN : Answers(c, a, e.value, x)
         /\ UNCHANGED <<inflight, refresh>> \/ \E j \in Jobs : Tracks(j, k, g)
      \/ /\ \E i \in inflight[k] : Awaits(c, a, "joins", i[2])
         /\ UNCHANGED <<inflight, refresh>>
      \/ \E j \in Jobs : Tracks(j, k, g) /\ Awaits(c, a, "waits", j)
  <2>1. CASE Hit(c, k)
    BY <1>2, <1>3, <2>1 DEF Hit
  <2>2. CASE Superseded(c, k)
    BY <1>2, <1>3, <2>2 DEF Superseded
  <2>3. CASE Stale(c, k)
    BY <1>2, <1>3, <2>3 DEF Stale
  <2>4. CASE LoadsNow(c, k)
    BY <1>2, <1>3, <2>4 DEF LoadsNow
  <2> QED
    BY <2>1, <2>2, <2>3, <2>4
<1>6. g <= generation'
  BY <1>2
<1> QED
  BY <1>1, <1>4, <1>5, <1>6, CallMoves

LEMMA ReadStep ==
  ASSUME Types, Types', Work, Sound, NEW r \in Reads, NEW k \in Outer, Read(r, k)
  PROVE  Work' /\ Sound'
<1>1. r \in Callers /\ r \notin Jobs /\ k \in Keys
  BY JobsAreNat DEF Callers, Keys
<1>2. Hit(r, k) \/ Superseded(r, k) \/ Stale(r, k) \/ LoadsNow(r, k)
  BY DEF Read
<1>3. UNCHANGED <<db, files, cleared>>
  BY DEF Read, source, history
<1> QED
  BY <1>1, <1>2, <1>3, CallStep

LEMMA JoinedStep ==
  ASSUME Types, Types', Work, Sound, NEW c \in Callers, Joined(c)
  PROVE  Work' /\ Sound'
<1>1. PICK a \in CallRecs : a = call[c]
  BY DEF Types, CallsMade
<1>2. PICK k \in Keys : k = a.key
  BY DEF CallRecs
<1>3. PICK g \in Nat : g = a.gen
  BY DEF CallRecs
<1>4. UNCHANGED <<db, files, cleared, generation, buckets>>
  BY DEF Joined, source, history
<1>5. Below(a.floor, cleared) /\ a.gen <= generation' /\ g <= generation'
  BY <1>1, <1>3, <1>4 DEF Sound, Floors, Gens
<1>6. c \in Jobs => k = Core /\ job[c].at = "timer" /\ job[c].key # Core
  BY <1>1, <1>2 DEF Joined, Work, Loading
<1>7. \/ /\ \E e \in buckets[k], x \in BOOLEAN : Answers(c, a, e.value, x)
         /\ UNCHANGED <<inflight, refresh>>
      \/ \E j \in Jobs : Tracks(j, k, g) /\ Awaits(c, a, "waits", j)
  BY <1>1, <1>2, <1>3 DEF Joined
<1> QED
  BY <1>2, <1>4, <1>5, <1>6, <1>7, CallMoves

LEMMA NestedReturnsStep ==
  ASSUME Types, Types', Work, Sound, NEW j \in Jobs, NestedReturns(j), answer' = NoAnswer
  PROVE  Work' /\ Sound'
<1>1. /\ job \in [Jobs -> JobRecs] /\ call \in [Callers -> CallRecs] /\ j \in Callers
      /\ job[j].at = "timer" /\ call[j].at = "answered" /\ job[j].key # Core
      /\ call[j].value \in Vals
  BY DEF Types, Refreshes, CallsMade, CallRecs, Callers, NestedReturns, Work, Loading
<1>2. UNCHANGED <<db, files, cleared, generation, buckets, queue, worker>>
  BY DEF NestedReturns, source, history
<1>3. /\ \A c \in Callers \ {j} : call'[c] = call[c]
      /\ call'[j].at = "idle" /\ call'[j].key = Core /\ call'[j].gen = 0 /\ call'[j].floor = <<0, 0>>
  BY <1>1 DEF NestedReturns, Idle
<1>4. /\ \A i \in Jobs \ {j} : job'[i] = job[i]
      /\ Flying'
      /\ \/ /\ job'[j].at = "settled" /\ job'[j].key = Core /\ job'[j].gen = 0
            /\ job'[j].value = NoValue
         \/ /\ job'[j].at = "loaded" /\ job'[j].key = job[j].key /\ job'[j].gen = job[j].gen
            /\ job'[j].value # NoValue /\ Covers(j, job'[j].value)
  <2>1. CASE Settles(j, NoValue)
    BY <2>1, SettlesEffect, ConstantTypes
  <2>2. CASE /\ IsCore(call[j].value)
             /\ job' = [job EXCEPT ![j].at = "loaded", ![j].value = StatusOf(call[j].value)]
             /\ UNCHANGED inflight
    <3>1. job'[j] = [job[j] EXCEPT !.at = "loaded", !.value = StatusOf(call[j].value)]
      BY <1>1, <2>2
    <3>2. /\ job'[j].at = "loaded" /\ job'[j].key = job[j].key /\ job'[j].gen = job[j].gen
          /\ job'[j].value = StatusOf(call[j].value)
      BY <1>1, <3>1 DEF JobRecs
    <3>3. /\ job'[j].value.db = call[j].value.db /\ job'[j].value.files = call[j].value.files
          /\ job'[j].value # NoValue
      BY <1>1, <3>2, MarkedValues
    <3>4. job'[j].value # NoValue /\ call[j].value # NoValue
      BY <1>1, <2>2, <3>3, MarkedValues
    <3>5. Covers(j, job'[j].value)
      BY <1>1, <3>3, <3>4 DEF Sound, Covered, Covers, Since
    <3>6. \A i \in Jobs \ {j} : job'[i] = job[i]
      BY <1>1, <2>2
    <3>7. Flying'
      BY <2>2, <3>2, <3>6, FlyingKept
    <3> QED
      BY <3>2, <3>4, <3>5, <3>6, <3>7
  <2> QED
    BY <2>1, <2>2 DEF NestedReturns
<1>5. Posted'
  BY <1>2, <1>4 DEF Work, Posted, AtWork
<1>6. Loading'
  <2> SUFFICES ASSUME NEW i \in Jobs
               PROVE  /\ call'[i].key = Core
                      /\ call'[i].at # "idle" => job'[i].at = "timer" /\ job'[i].key # Core
                      /\ call'[i].at \in {"joins", "waits"} => job'[call'[i].job].key = Core
    BY DEF Loading
  <2>1. CASE i = j
    BY <1>3, <2>1
  <2>2. CASE i # j
    <3>1. call'[i] = call[i] /\ job'[i] = job[i]
      BY <1>3, <1>4, <2>2 DEF Callers
    <3>2. call[i].at \in {"joins", "waits"} => call[i].job \in Jobs /\ call[i].job # j
      BY <1>1 DEF Types, CallsMade, Callers, Work, Loading
    <3> QED
      BY <1>4, <3>1, <3>2 DEF Work, Loading
  <2> QED
    BY <2>1, <2>2
<1>7. Floors' /\ Stored' /\ Gens' /\ Unread' /\ AnswersAreSinceClear'
  <2>1. Below(<<0, 0>>, cleared) /\ 0 <= generation
    BY DEF Types, Counters, Pairs, Upto, Below
  <2>2. Floors'
    BY <1>2, <1>3, <2>1 DEF Sound, Floors, Below
  <2>3. Stored'
    BY <1>2 DEF Sound, Stored, Since
  <2>4. Gens'
    BY <1>2, <1>3, <1>4, <2>1 DEF Sound, Gens
  <2>5. Unread'
    BY <1>4 DEF Sound, Unread
  <2>6. AnswersAreSinceClear'
    BY DEF AnswersAreSinceClear, Answered, NoAnswer
  <2> QED
    BY <2>2, <2>3, <2>4, <2>5, <2>6
<1>8. Covered'
  <2>1. \A i \in Jobs : job'[i].at = "settled" \/ (job[i].at # "settled" /\ job'[i].gen = job[i].gen)
    BY <1>1, <1>4
  <2>2. \A i \in Jobs :
          \/ job'[i].value \in {job[i].value, NoValue}
          \/ Covers(i, job'[i].value) /\ job[i].key # Core
    BY <1>1, <1>4
  <2>3. /\ \A r \in Reads : call'[r] = call[r] \/ call'[r].at = "idle"
        /\ \A i \in Jobs : call'[i] = call[i] \/ call'[i].at = "idle"
    BY <1>3 DEF Callers
  <2> QED
    BY <1>2, <1>7, <2>1, <2>2, <2>3, JobMoves DEF Sound
<1> QED
  BY <1>4, <1>5, <1>6, <1>7, <1>8 DEF Work, Sound

LEMMA RunsStep ==
  ASSUME Types, Types', Work, Sound, NEW j \in Jobs, Runs(j)
  PROVE  Work' /\ Sound'
<1>1. job \in [Jobs -> JobRecs] /\ j \in Callers /\ Core \in Keys
  BY DEF Types, Refreshes, Callers, Keys
<1>2. CASE Nested(j)
  <2>1. job[j].at = "timer" /\ job[j].key # Core
    BY <1>2 DEF Nested
  <2>2. UNCHANGED <<db, files, cleared>>
    BY <1>2 DEF Nested, source, history
  <2>3. Hit(j, Core) \/ Superseded(j, Core) \/ LoadsNow(j, Core)
    BY <1>2 DEF Nested
  <2> QED
    BY <1>1, <2>1, <2>2, <2>3, CallStep
<1>3. CASE LoadCore(j)
  <2>1. /\ UNCHANGED <<call, db, files, generation, cleared, buckets, inflight, queue, worker>>
        /\ job[j].at = "timer" /\ job[j].key = Core
        /\ job' = [job EXCEPT ![j].at = "loaded", ![j].value = [db |-> db, files |-> files, kind |-> "core"]]
    BY <1>3 DEF LoadCore, source, cache, history
  <2>2. job'[j] = [job[j] EXCEPT !.at = "loaded", !.value = [db |-> db, files |-> files, kind |-> "core"]]
    BY <1>1, <2>1
  <2>3. /\ job'[j].at = "loaded" /\ job'[j].key = job[j].key /\ job'[j].gen = job[j].gen
        /\ job'[j].value # NoValue /\ Since(cleared, job'[j].value)
    BY <1>1, <2>2, NowIsSinceClear DEF JobRecs
  <2>4. \A i \in Jobs \ {j} : job'[i] = job[i]
    BY <1>1, <2>1
  <2>5. Posted' /\ Stored'
    BY <2>1, <2>3, <2>4 DEF Work, Posted, AtWork, Sound, Stored, Since
  <2>6. Flying'
    BY <2>1, <2>3, <2>4, FlyingKept
  <2>7. call[j].at = "idle" /\ answer' = NoAnswer
    BY <1>3, <2>1 DEF Runs, LoadCore, Nested, Work, Loading
  <2> QED
    BY <2>1, <2>3, <2>4, <2>5, <2>6, <2>7, JobStep
<1>4. ASSUME Store(j) \/ LoadFails(j), answer' = NoAnswer
      PROVE  Work' /\ Sound'
  <2>1. /\ UNCHANGED <<call, db, files, generation, cleared, queue, worker>>
        /\ job[j].at = "loaded" \/ (job[j].at = "timer" /\ job[j].key = Core)
    BY <1>4 DEF Store, LoadFails, source, history
  <2>2. call[j].at = "idle" /\ job[j].value \in Vals
    BY <1>1, <2>1 DEF Work, Loading, JobRecs
  <2>3. /\ \A i \in Jobs \ {j} : job'[i] = job[i]
        /\ job'[j].at = "settled" /\ job'[j].key = Core /\ job'[j].gen = 0
        /\ job'[j].value \in {job[j].value, NoValue}
        /\ Flying'
    BY <1>4, <2>2, SettlesEffect, ConstantTypes DEF Store, LoadFails
  <2>4. Posted'
    BY <2>1, <2>3 DEF Work, Posted, AtWork
  <2>5. Stored'
    <3>1. CASE Store(j)
      BY <2>1, <3>1, RemembersStored DEF Store
    <3>2. CASE LoadFails(j)
      BY <2>1, <3>2 DEF LoadFails, Sound, Stored, Since
    <3> QED
      BY <1>4, <3>1, <3>2
  <2> QED
    BY <1>4, <2>1, <2>2, <2>3, <2>4, <2>5, JobStep
<1> QED
  BY <1>2, <1>3, <1>4 DEF Runs

LEMMA DiesStep ==
  ASSUME Types, Types', Work, Sound, Dies
  PROVE  Work' /\ Sound'
<1>1. /\ job \in [Jobs -> JobRecs]
      /\ UNCHANGED <<call, db, files, generation, cleared, buckets, inflight>> /\ answer' = NoAnswer
  BY DEF Types, Refreshes, Dies, WorkerDies, Respawn, source, cache, history
<1>2. ASSUME NEW i \in Jobs
      PROVE  /\ job'[i].key = job[i].key /\ job'[i].gen = job[i].gen
             /\ \/ job'[i] = job[i] /\ (job[i].at \in {"posted", "replied"} => Respawn)
                \/ job[i].at \in {"posted", "replied"} /\ job'[i].at = "timer" /\ job'[i].value = NoValue
  <2>1. CASE Respawn
    BY <2>1 DEF Respawn
  <2>2. CASE WorkerDies
    <3>1. job'[i] = IF job[i].at \in {"posted", "replied"}
                      THEN [job[i] EXCEPT !.at = "timer", !.value = NoValue] ELSE job[i]
      BY <2>2 DEF WorkerDies
    <3>2. PICK x \in JobRecs : x = job[i]
      BY <1>1
    <3>3. /\ [x EXCEPT !.at = "timer", !.value = NoValue].at = "timer"
          /\ [x EXCEPT !.at = "timer", !.value = NoValue].key = x.key
          /\ [x EXCEPT !.at = "timer", !.value = NoValue].gen = x.gen
          /\ [x EXCEPT !.at = "timer", !.value = NoValue].value = NoValue
      BY DEF JobRecs
    <3> QED
      BY <3>1, <3>2, <3>3
  <2> QED
    BY <2>1, <2>2 DEF Dies
<1>3. Work'
  <2>1. Posted'
    <3> SUFFICES ASSUME NEW i \in Jobs, job'[i].at \in {"posted", "replied"}
                 PROVE  worker' = "up" /\ \E n \in DOMAIN queue' : queue'[n] = i
      BY DEF Posted, AtWork
    <3>1. Respawn /\ job[i].at \in {"posted", "replied"}
      BY <1>2
    <3> QED
      BY <3>1 DEF Respawn, Work, Posted, AtWork
  <2>2. Flying'
    BY <1>1, <1>2, FlyingKept
  <2>3. Loading'
    <3>1. \A i \in Jobs : call[i].at \in {"joins", "waits"} => call[i].job \in Jobs
      BY DEF Types, CallsMade, Callers
    <3> QED
      BY <1>1, <1>2, <3>1 DEF Work, Loading
  <2> QED
    BY <2>1, <2>2, <2>3 DEF Work
<1>4. Floors' /\ Stored' /\ Gens' /\ Unread' /\ AnswersAreSinceClear'
  <2>1. Floors' /\ Stored'
    BY <1>1 DEF Sound, Floors, Stored, Since
  <2>2. Gens' /\ Unread'
    BY <1>1, <1>2 DEF Sound, Gens, Unread
  <2>3. AnswersAreSinceClear'
    BY <1>1 DEF AnswersAreSinceClear, Answered, NoAnswer
  <2> QED
    BY <2>1, <2>2, <2>3
<1>5. Covered'
  <2>1. \A i \in Jobs : job'[i].at = "settled" \/ (job[i].at # "settled" /\ job'[i].gen = job[i].gen)
    BY <1>2
  <2>2. \A i \in Jobs : job'[i].value \in {job[i].value, NoValue}
    BY <1>2
  <2> QED
    BY <1>1, <1>4, <2>1, <2>2, JobMoves DEF Sound
<1> QED
  BY <1>3, <1>4, <1>5 DEF Sound

LEMMA ChangesStep ==
  ASSUME Types, Types', Work, Sound, Changes
  PROVE  Work' /\ Sound'
<1>1. UNCHANGED <<call, refresh>> /\ job' = job /\ answer' = NoAnswer
  BY DEF Changes, OwnCommit, OtherCommit, FileChange, Signal, Unhealthy, Clear, refresh
<1>2. Work'
  <2>1. Posted' /\ Loading'
    BY <1>1 DEF refresh, Work, Posted, AtWork, Loading
  <2>2. Flying'
    <3>1. \A q \in Keys : inflight'[q] \subseteq inflight[q]
      BY DEF Changes, OwnCommit, OtherCommit, FileChange, Signal, Unhealthy, Clear, cache
    <3> QED
      BY <1>1, <3>1 DEF Work, Flying
  <2> QED
    BY <2>1, <2>2 DEF Work
<1>3. \/ Clear /\ generation' = generation + 1 /\ cleared' = <<db, files>> /\ UNCHANGED <<db, files>>
         /\ \A q \in Keys : buckets'[q] = {}
      \/ /\ UNCHANGED <<generation, cleared>> /\ db' \in {db, db + 1} /\ files' \in {files, files + 1}
         /\ \A q \in Keys : \A e \in buckets'[q] : \E f \in buckets[q] : e.value = f.value
  <2>1. CASE Clear
    BY <2>1 DEF Clear, source
  <2>2. CASE OwnCommit \/ OtherCommit \/ FileChange \/ \E i \in signals : Signal(i)
    BY <2>2 DEF OwnCommit, OtherCommit, FileChange, Signal, cache
  <2>3. CASE Unhealthy
    <3>1. UNCHANGED <<generation, cleared, db, files>>
      BY <2>3 DEF Unhealthy, source, history
    <3>2. \A e \in EntryRecs : [e EXCEPT !.sig = files].value = e.value
      BY DEF EntryRecs
    <3>3. ASSUME NEW q \in Keys, NEW e \in buckets'[q]
          PROVE  \E f \in buckets[q] : e.value = f.value
      <4>1. buckets'[q] = {IF f.sig = NoSig THEN [f EXCEPT !.sig = files] ELSE f : f \in buckets[q]}
        BY <2>3 DEF Unhealthy
      <4>2. PICK f \in buckets[q] : e = IF f.sig = NoSig THEN [f EXCEPT !.sig = files] ELSE f
        BY <3>3, <4>1
      <4>3. f \in EntryRecs
        BY DEF Types, Cached
      <4> QED
        BY <3>2, <4>2, <4>3
    <3> QED
      BY <3>1, <3>3
  <2> QED
    BY <2>1, <2>2, <2>3 DEF Changes
<1>4. /\ db \in Nat /\ files \in Nat /\ generation \in Nat /\ cleared \in Pairs
      /\ \A c \in Callers : call[c].floor \in Pairs /\ call[c].gen \in Nat
      /\ \A i \in Jobs : job[i].gen \in Nat
  BY UptoIsNat DEF Types, Counters, CallsMade, CallRecs, Refreshes, JobRecs
<1>5. Floors'
  <2>1. Below(cleared, cleared')
    BY <1>3, <1>4 DEF Sound, Floors, Below, Pairs, Upto
  <2>2. cleared' \in Pairs
    BY DEF Types, Counters
  <2>3. \A c \in Callers : Below(call[c].floor, cleared')
    BY <1>4, <2>1, <2>2, BelowTransitive DEF Sound, Floors
  <2>4. Below(cleared', <<db', files'>>)
    BY <1>3, <1>4 DEF Sound, Floors, Below, Pairs, Upto
  <2> QED
    BY <1>1, <2>3, <2>4 DEF Floors, Below
<1>6. Stored'
  BY <1>3 DEF Sound, Stored, Since
<1>7. Gens'
  BY <1>1, <1>3, <1>4 DEF Sound, Gens
<1>8. Unread' /\ AnswersAreSinceClear'
  BY <1>1 DEF Sound, Unread, AnswersAreSinceClear, Answered, NoAnswer
<1>9. Covered'
  <2>1. (generation' = generation /\ cleared' = cleared) \/ generation' = generation + 1
    BY <1>3
  <2> QED
    BY <1>1, <1>5, <2>1, JobMoves DEF Sound
<1> QED
  BY <1>2, <1>5, <1>6, <1>7, <1>8, <1>9 DEF Sound

-----------------------------------------------------------------------------
(* Typing: one entry and one refresh per key, a queue without repetitions *)

Posts == {"posted", "replied"}
AnswerRecs == [value : Vals, need : Pairs, floor : Pairs, refreshing : BOOLEAN]

Single == \A k \in Keys : \A e, f \in buckets[k] : e = f
Flights == \A k \in Keys : \A i \in inflight[k] : inflight[k] = {i} /\ i[1] <= generation
Ages == \A j \in Jobs : job[j].epoch <= epoch /\ job[j].writeGen <= writeGen
Queued ==
  /\ \A n \in DOMAIN queue : job[queue[n]].at \in Posts
  /\ \A m, n \in DOMAIN queue : queue[m] = queue[n] => m = n
Tidy == Single /\ Flights /\ Ages /\ Queued /\ answer \in AnswerRecs

\* The ways in which a step changes each of them.
BucketsMove ==
  \/ UNCHANGED buckets
  \/ \A k \in Keys : buckets'[k] = {}
  \/ \E j \in Jobs, writes \in Upto : Remembers(j, writes)
  \/ Unhealthy
FlightsMove ==
  /\ generation <= generation'
  /\ \A k \in Keys : \/ inflight'[k] \subseteq inflight[k]
                     \/ \E g \in Nat, j \in Jobs : g <= generation' /\ inflight'[k] = {<<g, j>>}
AgesMove ==
  /\ epoch <= epoch' /\ writeGen <= writeGen'
  /\ \A j \in Jobs : /\ job'[j].epoch \in {job[j].epoch, epoch, 0}
                     /\ job'[j].writeGen \in {job[j].writeGen, writeGen, 0}
StayPosted(J) == \A j \in J : job[j].at \in Posts => job'[j].at \in Posts
QueueMoves ==
  \/ UNCHANGED queue /\ StayPosted(Jobs)
  \/ \E j \in Jobs : /\ queue # <<>> /\ Head(queue) = j /\ queue' = Tail(queue)
                     /\ StayPosted(Jobs \ {j})
  \/ \E j \in Jobs : /\ job[j].at \notin Posts /\ queue' = Append(queue, j)
                     /\ job'[j].at \in Posts /\ StayPosted(Jobs \ {j})
  \/ queue' = <<>>
JobsMove == FlightsMove /\ AgesMove /\ QueueMoves

LEMMA TidyStep ==
  ASSUME Types, Types', Tidy, BucketsMove, JobsMove, answer' \in AnswerRecs
  PROVE  Tidy'
<1>1. Single'
  <2>1. buckets \in [Keys -> SUBSET EntryRecs]
    BY DEF Types, Cached
  <2>2. CASE UNCHANGED buckets
    BY <2>2 DEF Tidy, Single
  <2>3. CASE \A k \in Keys : buckets'[k] = {}
    BY <2>3 DEF Single
  <2>4. ASSUME NEW j \in Jobs, NEW writes \in Upto, Remembers(j, writes) PROVE Single'
    BY <2>1, <2>4 DEF Remembers, Tidy, Single
  <2>5. CASE Unhealthy
    <3>1. \A k \in Keys : buckets'[k] = {IF e.sig = NoSig THEN [e EXCEPT !.sig = files] ELSE e : e \in buckets[k]}
      BY <2>1, <2>5 DEF Unhealthy, EntryRecs
    <3> QED
      BY <3>1 DEF Tidy, Single
  <2> QED
    BY <2>2, <2>3, <2>4, <2>5 DEF BucketsMove
<1>2. Flights'
  <2> SUFFICES ASSUME NEW k \in Keys, NEW i \in inflight'[k]
               PROVE  inflight'[k] = {i} /\ i[1] <= generation'
    BY DEF Flights
  <2>1. /\ inflight \in [Keys -> SUBSET (Nat \X Jobs)] /\ generation \in Nat /\ generation' \in Nat
        /\ generation <= generation'
    BY DEF Types, InFlight, Counters, JobsMove, FlightsMove
  <2>2. CASE inflight'[k] \subseteq inflight[k]
    <3>1. inflight[k] = {i} /\ i[1] <= generation /\ i[1] \in Nat
      BY <2>1, <2>2 DEF Tidy, Flights
    <3> QED
      BY <2>1, <2>2, <3>1
  <2>3. ASSUME NEW g \in Nat, NEW j \in Jobs, g <= generation', inflight'[k] = {<<g, j>>}
        PROVE  inflight'[k] = {i} /\ i[1] <= generation'
    BY <2>3
  <2> QED
    BY <2>2, <2>3 DEF JobsMove, FlightsMove
<1>3. Ages'
  <2>1. /\ epoch \in Nat /\ epoch' \in Nat /\ writeGen \in Nat /\ writeGen' \in Nat
        /\ \A j \in Jobs : job[j].epoch \in Nat /\ job[j].writeGen \in Nat
    BY UptoIsNat DEF Types, Counters, Refreshes, JobRecs
  <2> QED
    BY <2>1 DEF Tidy, Ages, JobsMove, AgesMove
<1>4. Queued'
  <2>1. queue \in Seq(Jobs) /\ \A n \in DOMAIN queue : queue[n] \in Jobs
    BY DEF Types, Refreshes
  <2>2. CASE UNCHANGED queue /\ StayPosted(Jobs)
    BY <2>1, <2>2 DEF StayPosted, Tidy, Queued
  <2>3. ASSUME NEW j \in Jobs, queue # <<>>, Head(queue) = j, queue' = Tail(queue), StayPosted(Jobs \ {j})
        PROVE  Queued'
    <3>1. \A n \in DOMAIN queue' : n + 1 \in DOMAIN queue /\ queue'[n] = queue[n + 1] /\ n \in Nat /\ n # 0
      BY <2>1, <2>3
    <3>2. 1 \in DOMAIN queue /\ queue[1] = j
      BY <2>1, <2>3
    <3>3. \A n \in DOMAIN queue' : queue'[n] # j /\ queue'[n] \in Jobs
      <4> SUFFICES ASSUME NEW n \in DOMAIN queue' PROVE queue'[n] # j /\ queue'[n] \in Jobs
        OBVIOUS
      <4>1. n + 1 \in DOMAIN queue /\ n + 1 # 1
        BY <3>1
      <4> QED
        BY <2>1, <3>1, <3>2, <4>1 DEF Tidy, Queued
    <3>4. \A n \in DOMAIN queue' : job'[queue'[n]].at \in Posts
      BY <2>3, <3>1, <3>3 DEF StayPosted, Tidy, Queued
    <3>5. \A m, n \in DOMAIN queue' : queue'[m] = queue'[n] => m = n
      <4> SUFFICES ASSUME NEW m \in DOMAIN queue', NEW n \in DOMAIN queue', queue'[m] = queue'[n]
                   PROVE  m = n
        OBVIOUS
      <4>1. m + 1 = n + 1
        BY <3>1 DEF Tidy, Queued
      <4> QED
        BY <3>1, <4>1
    <3> QED
      BY <3>4, <3>5 DEF Queued
  <2>4. ASSUME NEW j \in Jobs, job[j].at \notin Posts, queue' = Append(queue, j), job'[j].at \in Posts,
               StayPosted(Jobs \ {j})
        PROVE  Queued'
    <3>1. \A n \in DOMAIN queue : queue[n] # j
      BY <2>4 DEF Tidy, Queued
    <3>2. \A n \in DOMAIN queue' : (n \in DOMAIN queue /\ queue'[n] = queue[n]) \/ (n = Len(queue) + 1 /\ queue'[n] = j)
      BY <2>1, <2>4
    <3>3. \A n \in DOMAIN queue' : job'[queue'[n]].at \in Posts
      BY <2>1, <2>4, <3>1, <3>2 DEF StayPosted, Tidy, Queued
    <3>4. \A m, n \in DOMAIN queue' : queue'[m] = queue'[n] => m = n
      BY <3>1, <3>2 DEF Tidy, Queued
    <3> QED
      BY <3>3, <3>4 DEF Queued
  <2>5. CASE queue' = <<>>
    BY <2>5 DEF Queued
  <2> QED
    BY <2>2, <2>3, <2>4, <2>5 DEF JobsMove, QueueMoves
<1> QED
  BY <1>1, <1>2, <1>3, <1>4 DEF Tidy

LEMMA TracksMove ==
  ASSUME Types, NEW j \in Jobs, NEW k \in Keys, NEW gen \in Nat, Tracks(j, k, gen),
         gen <= generation', generation <= generation', UNCHANGED <<epoch, writeGen>>
  PROVE  JobsMove
<1>1. job \in [Jobs -> JobRecs] /\ inflight \in [Keys -> SUBSET (Nat \X Jobs)] /\ epoch \in Nat /\ writeGen \in Nat
  BY UptoIsNat DEF Types, Refreshes, InFlight, Counters
<1>2. job[j].at = "settled"
  BY DEF Tracks, Free, Unsettled
<1>3. /\ \A i \in Jobs \ {j} : job'[i] = job[i]
      /\ job'[j].at = IF worker = "failed" THEN "timer" ELSE "posted"
      /\ job'[j].epoch = epoch /\ job'[j].writeGen = writeGen
  BY <1>1 DEF Tracks
<1>4. queue' = IF worker = "failed" THEN queue ELSE Append(queue, j)
  BY DEF Tracks
<1>5. QueueMoves
  <2>1. StayPosted(Jobs \ {j}) /\ job[j].at \notin Posts
    BY <1>2, <1>3 DEF StayPosted, Posts
  <2>2. CASE worker = "failed"
    BY <1>4, <2>1, <2>2 DEF QueueMoves, StayPosted
  <2>3. CASE worker # "failed"
    <3>1. queue' = Append(queue, j) /\ job'[j].at \in Posts
      BY <1>3, <1>4, <2>3 DEF Posts
    <3> QED
      BY <2>1, <3>1 DEF QueueMoves
  <2> QED
    BY <2>2, <2>3
<1>6. AgesMove
  BY <1>1, <1>3 DEF AgesMove
<1>7. inflight' = [inflight EXCEPT ![k] = {<<gen, j>>}]
  BY DEF Tracks
<1>8. FlightsMove
  BY <1>1, <1>7 DEF FlightsMove
<1> QED
  BY <1>5, <1>6, <1>8 DEF JobsMove

LEMMA SettlesMove ==
  ASSUME Types, NEW j \in Jobs, NEW v \in Vals, Settles(j, v), UNCHANGED <<generation, epoch, writeGen>>,
         \/ UNCHANGED queue /\ job[j].at \notin Posts
         \/ queue # <<>> /\ Head(queue) = j /\ queue' = Tail(queue)
  PROVE  JobsMove
<1>1. /\ job \in [Jobs -> JobRecs] /\ inflight \in [Keys -> SUBSET (Nat \X Jobs)]
      /\ generation \in Nat /\ epoch \in Nat /\ writeGen \in Nat
  BY UptoIsNat DEF Types, Refreshes, InFlight, Counters
<1>2. /\ \A i \in Jobs \ {j} : job'[i] = job[i]
      /\ job'[j].epoch = 0 /\ job'[j].writeGen = 0
  BY <1>1 DEF Settles, Settled
<1>3. QueueMoves
  BY <1>2 DEF QueueMoves, StayPosted
<1>4. AgesMove
  BY <1>1, <1>2 DEF AgesMove
<1>5. \A k \in Keys : inflight'[k] \subseteq inflight[k]
  BY <1>1 DEF Settles
<1> QED
  BY <1>1, <1>3, <1>4, <1>5 DEF JobsMove, FlightsMove

\* A refresh goes on: it stays in the queue if it is there, or leaves it at the head.
LEMMA OneJobMoves ==
  ASSUME Types, NEW j \in Jobs, \A i \in Jobs \ {j} : job'[i] = job[i],
         job'[j].epoch \in {job[j].epoch, 0}, job'[j].writeGen \in {job[j].writeGen, 0},
         UNCHANGED <<generation, epoch, writeGen, inflight>>,
         \/ UNCHANGED queue /\ StayPosted({j})
         \/ queue # <<>> /\ Head(queue) = j /\ queue' = Tail(queue)
  PROVE  JobsMove
<1>1. generation \in Nat /\ epoch \in Nat /\ writeGen \in Nat
  BY UptoIsNat DEF Types, Counters
<1>2. FlightsMove
  BY <1>1 DEF FlightsMove
<1>3. AgesMove
  BY <1>1 DEF AgesMove
<1>4. QueueMoves
  BY DEF QueueMoves, StayPosted
<1> QED
  BY <1>2, <1>3, <1>4 DEF JobsMove

LEMMA NoJobMoves ==
  ASSUME Types, UNCHANGED <<job, queue, inflight>>, UNCHANGED generation, UNCHANGED epoch, UNCHANGED writeGen
  PROVE  JobsMove
<1>1. generation \in Nat /\ epoch \in Nat /\ writeGen \in Nat
  BY UptoIsNat DEF Types, Counters
<1> QED
  BY <1>1 DEF JobsMove, FlightsMove, AgesMove, QueueMoves, StayPosted

LEMMA NoAnswerTyped == NoAnswer \in AnswerRecs
BY CacheBoundsAssumption, ConstantTypes DEF NoAnswer, AnswerRecs, Pairs, Upto

LEMMA AnswersTyped ==
  ASSUME Types, NEW c \in Callers, NEW a \in CallRecs, NEW v \in Vals, NEW x \in BOOLEAN,
         Answers(c, a, v, x)
  PROVE  answer' \in AnswerRecs
<1>1. a.need \in Pairs /\ a.floor \in Pairs
  BY DEF CallRecs
<1>2. [value |-> v, need |-> a.need, floor |-> a.floor, refreshing |-> x] \in AnswerRecs
  BY <1>1 DEF AnswerRecs
<1> QED
  BY <1>2, NoAnswerTyped DEF Answers

\* A call that hits, is superseded, is answered while refreshing or loads.
LEMMA CallMovesTidy ==
  ASSUME Types, NEW c \in Callers, NEW k \in Keys, UNCHANGED <<epoch, writeGen>>,
         Hit(c, k) \/ Superseded(c, k) \/ Stale(c, k) \/ LoadsNow(c, k)
  PROVE  BucketsMove /\ JobsMove /\ answer' \in AnswerRecs
<1>1. generation \in Nat /\ \A e \in buckets[k] : e.value \in Vals
  BY DEF Types, Counters, Cached, EntryRecs
<1>2. Asked(c, k, generation) \in CallRecs
  BY <1>1, AskedTypes
<1>3. CASE Hit(c, k)
  <2>1. answer' \in AnswerRecs
    BY <1>1, <1>2, <1>3, AnswersTyped DEF Hit
  <2>2. BucketsMove /\ JobsMove
    BY <1>3, NoJobMoves DEF Hit, refresh, BucketsMove
  <2> QED
    BY <2>1, <2>2
<1>4. CASE Superseded(c, k)
  <2>1. generation' = generation + 1 /\ buckets' = [q \in Keys |-> {}]
    BY <1>4 DEF Superseded
  <2>2. PICK j \in Jobs : Tracks(j, k, generation') /\ Awaits(c, Asked(c, k, generation'), "waits", j)
    BY <1>4 DEF Superseded
  <2>3. JobsMove
    BY <1>1, <2>1, <2>2, TracksMove
  <2> QED
    BY <2>1, <2>2, <2>3, NoAnswerTyped DEF BucketsMove, Awaits
<1>5. CASE Stale(c, k)
  <2>1. answer' \in AnswerRecs
    BY <1>1, <1>2, <1>5, AnswersTyped DEF Stale
  <2>2. UNCHANGED <<generation, buckets>>
    BY <1>5 DEF Stale
  <2>3. CASE UNCHANGED <<inflight, refresh>>
    BY <2>1, <2>2, <2>3, NoJobMoves DEF refresh, BucketsMove
  <2>4. CASE \E j \in Jobs : Tracks(j, k, generation)
    BY <1>1, <2>1, <2>2, <2>4, TracksMove DEF BucketsMove
  <2> QED
    BY <1>5, <2>3, <2>4 DEF Stale
<1>6. CASE LoadsNow(c, k)
  <2>1. UNCHANGED <<generation, buckets>> /\ answer' = NoAnswer
    BY <1>6 DEF LoadsNow, Awaits
  <2>2. CASE UNCHANGED <<inflight, refresh>>
    BY <2>1, <2>2, NoJobMoves, NoAnswerTyped DEF refresh, BucketsMove
  <2>3. CASE \E j \in Jobs : Tracks(j, k, generation)
    BY <1>1, <2>1, <2>3, TracksMove, NoAnswerTyped DEF BucketsMove
  <2> QED
    BY <1>6, <2>2, <2>3 DEF LoadsNow
<1> QED
  BY <1>3, <1>4, <1>5, <1>6

LEMMA ContinuesTidy ==
  ASSUME Types, Gens, NEW c \in Callers, Continues(c)
  PROVE  BucketsMove /\ JobsMove /\ answer' \in AnswerRecs
<1>1. /\ generation \in Nat /\ \A k \in Keys : \A e \in buckets[k] : e.value \in Vals
      /\ call[c] \in CallRecs /\ call[c].key \in Keys /\ job \in [Jobs -> JobRecs]
  BY DEF Types, Counters, Cached, EntryRecs, CallsMade, CallRecs, Refreshes
<1>2. CASE Joined(c)
  <2>1. UNCHANGED <<generation, epoch, writeGen, buckets>>
    BY <1>2 DEF Joined
  <2>2. CASE \E e \in buckets[call[c].key] :
               /\ Answers(c, call[c], e.value, FALSE)
               /\ UNCHANGED <<inflight, refresh>>
    <3>1. answer' \in AnswerRecs
      BY <1>1, <2>2, AnswersTyped
    <3> QED
      BY <2>1, <2>2, <3>1, NoJobMoves DEF refresh, BucketsMove
  <2>3. CASE \E j \in Jobs : Tracks(j, call[c].key, call[c].gen) /\ Awaits(c, call[c], "waits", j)
    <3>1. call[c].gen \in Nat /\ call[c].gen <= generation
      BY <1>1 DEF Gens, CallRecs
    <3>2. JobsMove
      BY <1>1, <2>1, <2>3, <3>1, TracksMove
    <3> QED
      BY <2>1, <2>3, <3>2, NoAnswerTyped DEF Awaits, BucketsMove
  <2> QED
    BY <1>2, <2>2, <2>3 DEF Joined
<1>3. CASE Waited(c)
  <2>1. call[c].job \in Jobs /\ job[call[c].job].at = "settled" /\ job[call[c].job].value \in Vals
    BY <1>1, <1>3 DEF Waited, Types, CallsMade, JobRecs
  <2>2. answer' \in AnswerRecs
    <3>1. PICK v \in Vals : Answers(c, call[c], v, FALSE)
      BY <1>1, <1>3, <2>1, MarkedValues DEF Waited
    <3> QED
      BY <1>1, <3>1, AnswersTyped
  <2>3. UNCHANGED <<cache, queue>>
    BY <1>1, <1>3 DEF Waited
  <2>4. job' = [job EXCEPT ![call[c].job] = Settled(NoValue)]
    BY <1>3 DEF Waited
  <2>5. /\ \A i \in Jobs \ {call[c].job} : job'[i] = job[i]
        /\ job'[call[c].job].epoch = 0 /\ job'[call[c].job].writeGen = 0
    BY <1>1, <2>1, <2>4 DEF Settled
  <2>6. JobsMove
    BY <2>1, <2>3, <2>5, OneJobMoves DEF cache, StayPosted, Posts
  <2> QED
    BY <2>2, <2>3, <2>6 DEF cache, BucketsMove
<1>4. CASE c \in Jobs /\ NestedReturns(c) /\ answer' = NoAnswer
  <2>1. UNCHANGED <<generation, epoch, writeGen, buckets, queue>> /\ job[c].at = "timer"
    BY <1>1, <1>4 DEF NestedReturns, JobRecs, CallRecs
  <2>2. CASE Settles(c, NoValue)
    BY <1>4, <2>1, <2>2, SettlesMove, ConstantTypes, NoAnswerTyped DEF Posts, BucketsMove
  <2>3. CASE /\ job' = [job EXCEPT ![c].at = "loaded", ![c].value = StatusOf(call[c].value)]
             /\ UNCHANGED inflight
    <3>1. /\ \A i \in Jobs \ {c} : job'[i] = job[i]
          /\ job'[c].epoch = job[c].epoch /\ job'[c].writeGen = job[c].writeGen
      BY <1>1, <1>4, <2>3 DEF JobRecs, CallRecs, Vals
    <3>2. JobsMove
      BY <1>4, <2>1, <2>3, <3>1, OneJobMoves DEF StayPosted, Posts
    <3> QED
      BY <1>4, <2>1, <3>2, NoAnswerTyped DEF BucketsMove
  <2> QED
    BY <1>4, <2>2, <2>3 DEF NestedReturns
<1> QED
  BY <1>2, <1>3, <1>4 DEF Continues

LEMMA WorksTidy ==
  ASSUME Types, NEW j \in Jobs, Works(j)
  PROVE  BucketsMove /\ JobsMove /\ answer' \in AnswerRecs
<1>1. job \in [Jobs -> JobRecs] /\ job[j].value \in Vals /\ job[j].writeGen \in Upto
  BY DEF Types, Refreshes, JobRecs
<1>2. answer' \in AnswerRecs
  BY NoAnswerTyped DEF Works
<1>3. CASE WorkerReads(j)
  <2>1. UNCHANGED <<cache, queue>> /\ job[j].at = "posted"
    BY <1>1, <1>3 DEF WorkerReads, JobRecs
  <2>2. job' = [job EXCEPT ![j].at = "replied", ![j].value = [db |-> db, files |-> files, kind |-> "status"]]
    BY <1>3 DEF WorkerReads
  <2>3. /\ \A i \in Jobs \ {j} : job'[i] = job[i]
        /\ job'[j].at = "replied" /\ job'[j].epoch = job[j].epoch /\ job'[j].writeGen = job[j].writeGen
    BY <1>1, <2>2 DEF JobRecs
  <2>4. JobsMove
    BY <2>1, <2>3, OneJobMoves DEF cache, StayPosted, Posts
  <2> QED
    BY <1>2, <2>1, <2>4 DEF cache, BucketsMove
<1>4. CASE Deliver(j)
  <2>1. /\ Remembers(j, job[j].writeGen) /\ Settles(j, job[j].value)
        /\ queue # <<>> /\ Head(queue) = j /\ queue' = Tail(queue)
        /\ UNCHANGED <<generation, epoch, writeGen>>
    BY <1>4 DEF Deliver, IsNext
  <2>2. JobsMove
    BY <1>1, <2>1, SettlesMove
  <2> QED
    BY <1>1, <1>2, <2>1, <2>2 DEF BucketsMove
<1>5. CASE WorkerFails(j)
  <2>1. /\ UNCHANGED cache /\ queue # <<>> /\ Head(queue) = j /\ queue' = Tail(queue)
        /\ job' = [job EXCEPT ![j].at = "timer"]
    BY <1>1, <1>5 DEF WorkerFails, IsNext, JobRecs
  <2>2. /\ \A i \in Jobs \ {j} : job'[i] = job[i]
        /\ job'[j].epoch = job[j].epoch /\ job'[j].writeGen = job[j].writeGen
    BY <1>1, <2>1 DEF JobRecs
  <2>3. JobsMove
    BY <2>1, <2>2, OneJobMoves DEF cache
  <2> QED
    BY <1>2, <2>1, <2>3 DEF cache, BucketsMove
<1> QED
  BY <1>3, <1>4, <1>5 DEF Works

LEMMA RunsTidy ==
  ASSUME Types, NEW j \in Jobs, Runs(j)
  PROVE  BucketsMove /\ JobsMove /\ answer' \in AnswerRecs
<1>1. /\ job \in [Jobs -> JobRecs] /\ job[j].value \in Vals /\ writeGen \in Upto
  BY DEF Types, Refreshes, JobRecs, Counters
<1>2. CASE Nested(j)
  <2>1. UNCHANGED <<epoch, writeGen>> /\ (Hit(j, Core) \/ Superseded(j, Core) \/ LoadsNow(j, Core))
    BY <1>2 DEF Nested
  <2> QED
    BY <2>1, CallMovesTidy DEF Callers, Keys
<1>3. CASE LoadCore(j) /\ answer' = NoAnswer
  <2>1. UNCHANGED <<cache, queue>> /\ job[j].at = "timer"
    BY <1>1, <1>3 DEF LoadCore, JobRecs
  <2>2. job' = [job EXCEPT ![j].at = "loaded", ![j].value = [db |-> db, files |-> files, kind |-> "core"]]
    BY <1>3 DEF LoadCore
  <2>3. /\ \A i \in Jobs \ {j} : job'[i] = job[i]
        /\ job'[j].epoch = job[j].epoch /\ job'[j].writeGen = job[j].writeGen
    BY <1>1, <2>2 DEF JobRecs
  <2>4. JobsMove
    BY <2>1, <2>3, OneJobMoves DEF cache, StayPosted, Posts
  <2> QED
    BY <1>3, <2>1, <2>4, NoAnswerTyped DEF cache, BucketsMove
<1>4. CASE Store(j) /\ answer' = NoAnswer
  <2>1. /\ Remembers(j, writeGen) /\ Settles(j, job[j].value) /\ job[j].at = "loaded"
        /\ UNCHANGED <<generation, epoch, writeGen, queue>>
    BY <1>4 DEF Store
  <2>2. JobsMove
    BY <1>1, <2>1, SettlesMove DEF Posts
  <2> QED
    BY <1>1, <1>4, <2>1, <2>2, NoAnswerTyped DEF BucketsMove
<1>5. CASE LoadFails(j) /\ answer' = NoAnswer
  <2>1. /\ Settles(j, NoValue) /\ job[j].at \in {"timer", "loaded"}
        /\ UNCHANGED <<generation, epoch, writeGen, queue, buckets>>
    BY <1>5 DEF LoadFails
  <2>2. JobsMove
    BY <2>1, SettlesMove, ConstantTypes DEF Posts
  <2> QED
    BY <1>5, <2>1, <2>2, NoAnswerTyped DEF BucketsMove
<1> QED
  BY <1>2, <1>3, <1>4, <1>5 DEF Runs

LEMMA DiesTidy ==
  ASSUME Types, Dies
  PROVE  BucketsMove /\ JobsMove /\ answer' \in AnswerRecs
<1>1. /\ job \in [Jobs -> JobRecs] /\ generation \in Nat /\ epoch \in Nat /\ writeGen \in Nat
  BY UptoIsNat DEF Types, Refreshes, Counters
<1>2. answer' \in AnswerRecs
  BY NoAnswerTyped DEF Dies
<1>3. CASE WorkerDies
  <2>1. UNCHANGED cache /\ queue' = <<>>
    BY <1>1, <1>3 DEF WorkerDies, JobRecs
  <2>2. job' = [i \in Jobs |-> IF job[i].at \in {"posted", "replied"}
                                THEN [job[i] EXCEPT !.at = "timer", !.value = NoValue] ELSE job[i]]
    BY <1>3 DEF WorkerDies
  <2>3. \A x \in JobRecs : LET y == [x EXCEPT !.at = "timer", !.value = NoValue]
                           IN y.epoch = x.epoch /\ y.writeGen = x.writeGen
    BY DEF JobRecs
  <2>4. \A i \in Jobs : job'[i].epoch = job[i].epoch /\ job'[i].writeGen = job[i].writeGen
    BY <1>1, <2>2, <2>3
  <2>5. JobsMove
    BY <1>1, <2>1, <2>4 DEF cache, JobsMove, FlightsMove, AgesMove, QueueMoves
  <2> QED
    BY <1>2, <2>1, <2>5 DEF cache, BucketsMove
<1>4. CASE Respawn
  BY <1>2, <1>4, NoJobMoves DEF Respawn, cache, BucketsMove
<1> QED
  BY <1>3, <1>4 DEF Dies

LEMMA ChangesTidy ==
  ASSUME Types, Changes
  PROVE  BucketsMove /\ JobsMove /\ answer' \in AnswerRecs
<1>1. /\ buckets \in [Keys -> SUBSET EntryRecs] /\ generation \in Nat /\ epoch \in Nat /\ writeGen \in Nat
  BY UptoIsNat DEF Types, Cached, Counters
<1>2. answer' \in AnswerRecs
  BY NoAnswerTyped DEF Changes
<1>3. BucketsMove
  <2>1. CASE Clear
    BY <2>1 DEF Clear, BucketsMove
  <2>2. CASE OwnCommit \/ OtherCommit \/ FileChange \/ \E i \in signals : Signal(i)
    BY <2>2 DEF OwnCommit, OtherCommit, FileChange, Signal, cache, BucketsMove
  <2> QED
    BY <2>1, <2>2 DEF Changes, BucketsMove
<1>4. /\ UNCHANGED <<job, queue>> /\ generation <= generation' /\ epoch <= epoch' /\ writeGen <= writeGen'
      /\ \A k \in Keys : inflight'[k] \subseteq inflight[k]
  BY <1>1 DEF Changes, OwnCommit, OtherCommit, FileChange, Signal, Unhealthy, Clear, cache, refresh, EntryRecs
<1>5. JobsMove
  BY <1>4 DEF JobsMove, FlightsMove, AgesMove, QueueMoves, StayPosted
<1> QED
  BY <1>2, <1>3, <1>5

LEMMA TidyAlong ==
  ASSUME Types, Types', Gens, Tidy, [Next]_vars
  PROVE  Tidy'
<1>1. ASSUME NEW r \in Reads, NEW k \in Outer, Read(r, k)
      PROVE  BucketsMove /\ JobsMove /\ answer' \in AnswerRecs
  <2>1. UNCHANGED <<epoch, writeGen>> /\ (Hit(r, k) \/ Superseded(r, k) \/ Stale(r, k) \/ LoadsNow(r, k))
    BY <1>1 DEF Read
  <2> QED
    BY <2>1, CallMovesTidy DEF Callers, Keys
<1>2. ASSUME UNCHANGED vars
      PROVE  BucketsMove /\ JobsMove /\ answer' \in AnswerRecs
  BY <1>2, NoJobMoves DEF vars, cache, refresh, BucketsMove, Tidy
<1> QED
  BY <1>1, <1>2, ContinuesTidy, WorksTidy, RunsTidy, DiesTidy, ChangesTidy, TidyStep DEF Next

-----------------------------------------------------------------------------
(* The theorems *)

Inv == Types /\ Work /\ Sound

LEMMA Initially == Init => Inv
<1> SUFFICES ASSUME Init
             PROVE  Inv
  OBVIOUS
<1>1. /\ job = [j \in Jobs |-> Settled(NoValue)] /\ call = [c \in Callers |-> Idle]
      /\ buckets = [k \in Keys |-> {}] /\ inflight = [k \in Keys |-> {}] /\ queue = <<>>
      /\ db = 0 /\ files = 0 /\ signals = {} /\ writeGen = 0 /\ dataVersion = 0 /\ epoch = 0
      /\ generation = 0 /\ worker \in {"up", "failed"} /\ answer = NoAnswer
      /\ heard = <<0, 0>> /\ cleared = <<0, 0>>
  BY DEF Init
<1>2. /\ \A j \in Jobs : job[j] \in JobRecs /\ job[j].at = "settled" /\ job[j].gen = 0
                         /\ job[j].value = NoValue
      /\ \A c \in Callers : call[c] \in CallRecs /\ call[c].at = "idle" /\ call[c].key = Core
                            /\ call[c].gen = 0 /\ call[c].floor = <<0, 0>>
  BY <1>1, ConstantTypes DEF Settled, Idle
<1>3. Types
  <2>1. queue \in Seq(Jobs)
    BY <1>1
  <2>2. Counters
    BY <1>1, CacheBoundsAssumption DEF Counters, Pairs, Upto, Init
  <2>3. Cached /\ InFlight
    BY <1>1 DEF Cached, InFlight
  <2>4. Refreshes
    BY <1>1, <1>2, <2>1 DEF Refreshes
  <2>5. CallsMade
    BY <1>1, <1>2 DEF CallsMade
  <2> QED
    BY <2>2, <2>3, <2>4, <2>5 DEF Types
<1>4. Work
  <2>1. Posted /\ Flying
    BY <1>1, <1>2 DEF Posted, AtWork, Flying
  <2>2. Loading
    BY <1>2 DEF Loading, Callers
  <2> QED
    BY <2>1, <2>2 DEF Work
<1>5. Sound
  <2>1. Floors
    BY <1>1, <1>2 DEF Floors, Below
  <2>2. Stored /\ Gens /\ Unread
    BY <1>1, <1>2 DEF Stored, Gens, Unread
  <2>3. Covered
    BY <1>2 DEF Covered, Covers, Callers
  <2>4. AnswersAreSinceClear
    BY <1>1 DEF AnswersAreSinceClear, Answered, NoAnswer
  <2> QED
    BY <2>1, <2>2, <2>3, <2>4 DEF Sound
<1> QED
  BY <1>3, <1>4, <1>5 DEF Inv

LEMMA StutterStep ==
  ASSUME Inv, UNCHANGED vars
  PROVE  Work' /\ Sound'
<1>1. UNCHANGED <<db, files, generation, buckets, inflight, job, queue, worker, call, answer, cleared>>
  BY DEF vars, source, cache, refresh, history
<1>2. Work'
  BY <1>1 DEF Inv, Work, Posted, AtWork, Flying, Loading
<1>3. Floors' /\ Stored' /\ Gens' /\ Unread' /\ AnswersAreSinceClear'
  BY <1>1 DEF Inv, Sound, Floors, Below, Stored, Since, Gens, Unread, AnswersAreSinceClear, Answered
<1>4. Covered'
  BY <1>1 DEF Inv, Sound, Covered, Covers, Since
<1> QED
  BY <1>2, <1>3, <1>4 DEF Sound

LEMMA Step ==
  ASSUME Inv, [Next]_vars
  PROVE  Inv'
<1>1. Types /\ Types' /\ Work /\ Sound
  BY TypesStep DEF Inv
<1>2. ASSUME NEW r \in Reads, NEW k \in Outer, Read(r, k)
      PROVE  Work' /\ Sound'
  BY <1>1, <1>2, ReadStep
<1>3. ASSUME NEW c \in Callers, Continues(c)
      PROVE  Work' /\ Sound'
  BY <1>1, <1>3, JoinedStep, WaitedStep, NestedReturnsStep DEF Continues
<1>4. ASSUME NEW j \in Jobs, Works(j) \/ Runs(j)
      PROVE  Work' /\ Sound'
  BY <1>1, <1>4, WorksStep, RunsStep
<1>5. ASSUME Dies
      PROVE  Work' /\ Sound'
  BY <1>1, <1>5, DiesStep
<1>6. ASSUME Changes
      PROVE  Work' /\ Sound'
  BY <1>1, <1>6, ChangesStep
<1>7. ASSUME UNCHANGED vars
      PROVE  Work' /\ Sound'
  BY <1>7, StutterStep
<1>8. Work' /\ Sound'
  BY <1>2, <1>3, <1>4, <1>5, <1>6, <1>7 DEF Next
<1> QED
  BY <1>1, <1>8 DEF Inv

LEMMA InvAlways == Spec => []Inv
<1>1. Inv /\ [Next]_vars => Inv'
  BY Step
<1> QED
  BY <1>1, Initially, PTL DEF Spec

\* No call waits for a refresh that nobody works on, whatever happens to the
\* worker: the refreshes of releaseRefreshJobs, of failed replies and of a
\* worker that is not there all go on on the main thread.
THEOREM NobodyWaitsForNothing == Spec => []AwaitedIsAtWork
<1>1. Inv => AwaitedIsAtWork
  <2> SUFFICES ASSUME Inv, NEW c \in Callers, call[c].at \in {"joins", "waits"}
               PROVE  AtWork(call[c].job) /\ (c \in Jobs => job[c].at = "timer" /\ job[call[c].job].key = Core)
    BY DEF AwaitedIsAtWork
  <2>1. call[c].job \in Jobs
    BY DEF Inv, Types, CallsMade
  <2> QED
    BY <2>1 DEF Inv, Work, Posted, Loading
<1> QED
  BY <1>1, InvAlways, PTL

\* The promise of clearGlobalProfileStatusCache: a refresh that was asked for
\* before a clear is neither stored nor handed to a read that came after it.
THEOREM ClearsAreSeen == Spec => []AnswersAreSinceClear
<1>1. Inv => AnswersAreSinceClear
  BY DEF Inv, Sound
<1> QED
  BY <1>1, InvAlways, PTL

\* The cache keeps its types: a key has one entry and one refresh in flight, no
\* refresh is in the worker's queue twice or when it is settled (refreshJobs),
\* and none is younger than the counters it was asked under.
THEOREM StatusTypes == Spec => []TypeOK
<1>1. Init => Tidy
  <2> SUFFICES ASSUME Init PROVE Tidy
    OBVIOUS
  <2>1. /\ job = [j \in Jobs |-> Settled(NoValue)] /\ queue = <<>> /\ answer = NoAnswer
        /\ buckets = [k \in Keys |-> {}] /\ inflight = [k \in Keys |-> {}]
        /\ epoch = 0 /\ writeGen = 0
    BY DEF Init
  <2>2. Ages
    BY <2>1 DEF Ages, Settled
  <2> QED
    BY <2>1, <2>2, NoAnswerTyped DEF Tidy, Single, Flights, Queued
<1>2. Inv /\ Tidy /\ [Next]_vars => Tidy'
  BY Step, TidyAlong DEF Inv, Sound
<1>3. Inv /\ Tidy => TypeOK
  <2> SUFFICES ASSUME Inv, Tidy PROVE TypeOK
    OBVIOUS
  <2>1. /\ db \in 0..MaxEvents /\ files \in 0..MaxEvents /\ signals \subseteq 1..files
        /\ writeGen \in 0..MaxEvents /\ dataVersion \in 0..MaxEvents /\ db = writeGen + dataVersion
        /\ epoch \in Nat /\ generation \in Nat /\ watchersHealthy \in BOOLEAN
        /\ events \in 0..MaxEvents /\ heard \in Moments /\ cleared \in Moments
    BY DEF Inv, Types, Counters, Upto, Pairs, Moments
  <2>2. Vals = Values /\ Pairs = Moments /\ EntryRecs = Entries
    BY DEF Vals, Values, Pairs, Moments, EntryRecs, Entries, Upto
  <2>3. \A k \in Keys :
          /\ buckets[k] \subseteq Entries /\ \A e, f \in buckets[k] : e = f
          /\ \A i \in inflight[k] : inflight[k] = {i} /\ i[1] <= generation /\ i[2] \in Jobs
    BY <2>2 DEF Inv, Types, Cached, InFlight, Tidy, Single, Flights
  <2>4. \A j \in Jobs :
          /\ job[j].at \in {"settled", "posted", "replied", "timer", "loaded"}
          /\ job[j].key \in Keys /\ job[j].gen <= generation /\ job[j].epoch <= epoch
          /\ job[j].writeGen <= writeGen /\ job[j].value \in Values
    BY <2>2 DEF Inv, Types, Refreshes, JobRecs, Sound, Gens, Tidy, Ages
  <2>5. /\ queue \in Seq(Jobs) /\ \A n \in DOMAIN queue : job[queue[n]].at \in {"posted", "replied"}
        /\ worker \in {"up", "failed", "none"}
    BY DEF Inv, Types, Refreshes, Tidy, Queued, Posts
  <2>6. \A c \in Callers :
          /\ call[c].at \in {"idle", "joins", "waits", "answered"}
          /\ call[c].key \in Keys /\ call[c].job \in Jobs \cup {0} /\ call[c].gen <= generation
          /\ call[c].need \in Moments /\ call[c].floor \in Moments
          /\ call[c].value \in Values
    BY <2>2 DEF Inv, Types, CallsMade, CallRecs, Sound, Gens
  <2>7. /\ answer.value \in Values /\ answer.need \in Moments /\ answer.floor \in Moments
        /\ answer.refreshing \in BOOLEAN
    BY <2>2 DEF Tidy, AnswerRecs
  <2> QED
    BY <2>1, <2>3, <2>4, <2>5, <2>6, <2>7 DEF TypeOK
<1> QED
  BY <1>1, <1>2, <1>3, InvAlways, PTL DEF Spec
=============================================================================
