------------------------ MODULE StatusCurrent_proofs ------------------------
(***************************************************************************)
(* For any readers, keys, refreshes and events: an answer has every commit *)
(* and every file change that the process could know of when it was asked  *)
(* for (AnswersAreCurrent of StatusReadCache).                             *)
(*                                                                         *)
(* The history heard moves on only while nothing that has read is on its   *)
(* way to the cache.  So whatever is stored and not seen to be old, and    *)
(* whatever is held and would be stored, has all that was heard (Fetched,  *)
(* Kept); and a refresh that a read waits for reads after the read asked.  *)
(***************************************************************************)
EXTENDS StatusReadCache_proofs

\* A value that does not go back to a load that threw.
Plain(v) == v.kind \in {"status", "core"}

HeardIsPast == Below(heard, <<db, files>>) /\ \A c \in Callers : Below(call[c].need, heard)

Aged ==
  \A k \in Keys : \A e \in buckets[k] :
    /\ e.epoch <= epoch /\ e.writeGen <= writeGen /\ e.dataVersion <= dataVersion
    /\ e.sig # NoSig => e.sig <= files
Fetched ==
  \A k \in Keys : \A e \in buckets[k] : Plain(e.value) =>
    /\ ~DbMoved(e) => heard[1] <= e.value.db
    /\ IsCurrent(e) => heard[2] <= e.value.files

\* Which kind of value is cached, or on its way, under a key.
OfKind(k, v) == v = NoValue \/ v.kind \in {"status", "old status"} \/ (k = Core /\ v.kind = "core")
EntriesOfKind == \A k \in Keys : \A e \in buckets[k] : OfKind(k, e.value)
LoadsOfKind ==
  /\ \A j \in Jobs : job[j].at # "settled" => OfKind(job[j].key, job[j].value)
  /\ \A j \in Jobs : job[j].at = "replied" => job[j].value.kind = "status"
  /\ \A c \in Callers : call[c].at = "waits" => OfKind(call[c].key, job[call[c].job].value)
  /\ \A r \in Reads : call[r].at # "idle" => call[r].key # Core

\* A call waits for a refresh of its key and generation, and a refresh for
\* calls of its own generation or of a later one.
Matched ==
  /\ \A c \in Callers : call[c].at = "waits" /\ job[call[c].job].at # "settled" =>
       job[call[c].job].key = call[c].key /\ job[call[c].job].gen = call[c].gen
  /\ \A j \in Jobs : call[j].at \in {"joins", "waits"} => job[j].gen <= call[j].gen

\* What was just stored is what the call that waits for it is about to get.
StoredIsOwn ==
  \A c \in Callers :
    /\ call[c].at = "waits" /\ call[c].gen = generation
    /\ job[call[c].job].at = "settled" /\ job[call[c].job].value # NoValue
    => \A e \in buckets[call[c].key] : e.value = job[call[c].job].value

\* A value that refresh j may store, or hand to a read that waits for it.  A
\* reply of the worker is stored under the write generation it was asked in.
Keeps(j, v) ==
  /\ job[j].at # "settled" /\ job[j].gen = generation =>
       /\ (job[j].at = "replied" => job[j].writeGen = writeGen) => heard[1] <= v.db
       /\ job[j].epoch = epoch => heard[2] <= v.files
  /\ \A r \in Reads : call[r].at = "waits" /\ call[r].job = j => Since(call[r].need, v)

\* The values of a refresh: its own, its core, and the one its core will be.
Kept ==
  \A j \in Jobs :
    /\ Plain(job[j].value) => Keeps(j, job[j].value)
    /\ call[j].at = "answered" /\ call[j].value.kind = "core" => Keeps(j, call[j].value)
    /\ call[j].at = "waits" /\ job[call[j].job].value.kind = "core" => Keeps(j, job[call[j].job].value)

Current == HeardIsPast /\ Aged /\ Fetched /\ EntriesOfKind /\ LoadsOfKind /\ Matched /\ StoredIsOwn /\ Kept

-----------------------------------------------------------------------------
(* How refreshes and calls move while the sources of change are quiet *)

Calm ==
  /\ UNCHANGED <<db, files, heard, epoch, writeGen, dataVersion, watchersHealthy>>
  /\ generation' \in {generation, generation + 1}

SameStamp(i) ==
  /\ job'[i].key = job[i].key /\ job'[i].gen = job[i].gen
  /\ job'[i].epoch = job[i].epoch /\ job'[i].writeGen = job[i].writeGen

JobGoes(i) ==
  \/ Begun(i)
  \/ job'[i].at = "settled" /\ job'[i].value \in {job[i].value, NoValue}
  \/ /\ job[i].at # "settled" /\ job'[i].at # "settled" /\ SameStamp(i)
     /\ job[i].at = "replied" => \/ job'[i].at = "replied"
                                 \/ job'[i].value = NoValue /\ call'[i].at = "idle"

CallGoes(c) ==
  \/ call'[c] = call[c]
  \/ call'[c].at \in {"idle", "answered"} /\ (c \in Reads => call'[c].at = "idle") /\ call'[c].need = <<0, 0>>
  \/ /\ call'[c].at \in {"joins", "waits"}
     /\ Below(call'[c].need, heard)
     /\ c \in Jobs => job[c].at # "settled" /\ job[c].gen <= call'[c].gen
     /\ c \in Reads => call'[c].key # Core
     /\ call'[c].at = "waits" => /\ Begun(call'[c].job) /\ job'[call'[c].job].key = call'[c].key
                                 /\ job'[call'[c].job].gen = call'[c].gen

\* What a refresh has after the step: what it had, what was heard, or its core.
ValueGoes(i) ==
  \/ /\ job'[i].value \in {job[i].value, NoValue}
     /\ job'[i].at = "replied" => job[i].at = "replied" /\ job'[i].value = job[i].value
  \/ /\ job[i].at # "settled" /\ OfKind(job[i].key, job'[i].value)
     /\ job'[i].at = "replied" => job'[i].value.kind = "status"
     /\ \/ Plain(job'[i].value) => Since(heard, job'[i].value)
        \/ job'[i].value.kind = "status" /\ Keeps(i, job'[i].value)

CoreGoes(i) ==
  call'[i].at = "answered" /\ call'[i].value.kind = "core" =>
    \/ call'[i] = call[i]
    \/ job[i].at = "timer" /\ (Since(heard, call'[i].value) \/ Keeps(i, call'[i].value))

Moves ==
  /\ Calm
  /\ \A i \in Jobs : JobGoes(i) /\ ValueGoes(i) /\ CoreGoes(i)
  /\ \A c \in Callers : CallGoes(c)

LEMMA KeepsNow ==
  ASSUME Types', HeardIsPast', NEW j \in Jobs, NEW v \in Vals, Since(heard', v)
  PROVE  Keeps(j, v)'
<1>1. heard' \in Pairs /\ v.db \in Nat /\ v.files \in Nat
  BY UptoIsNat DEF Types, Counters, Vals
<1>2. ASSUME NEW r \in Reads
      PROVE  Since(call'[r].need, v)
  <2>1. call'[r].need \in Pairs /\ Below(call'[r].need, heard')
    BY DEF Types, CallsMade, CallRecs, Callers, HeardIsPast, Below
  <2> QED
    BY <1>1, <2>1, SinceBelow
<1> QED
  BY <1>2 DEF Keeps, Since

LEMMA KeepsLater ==
  ASSUME Types, Gens, NEW j \in Jobs, NEW v, Keeps(j, v),
         \/ job'[j].at = "settled"
         \/ job[j].at # "settled" /\ SameStamp(j) /\ (job[j].at = "replied" => job'[j].at = "replied"),
         UNCHANGED <<generation, heard, epoch, writeGen>> \/ generation' = generation + 1,
         \A r \in Reads : call'[r].at = "waits" /\ call'[r].job = j =>
           call[r].at = "waits" /\ call[r].job = j /\ call'[r].need = call[r].need
  PROVE  Keeps(j, v)'
<1>1. \A r \in Reads : call'[r].at = "waits" /\ call'[r].job = j => Since(call'[r].need, v)
  BY DEF Keeps
<1>2. ASSUME job'[j].at # "settled", job'[j].gen = generation'
      PROVE  /\ (job'[j].at = "replied" => job'[j].writeGen = writeGen') => heard'[1] <= v.db
             /\ job'[j].epoch = epoch' => heard'[2] <= v.files
  <2>1. job[j].gen = job'[j].gen /\ job[j].gen <= generation /\ generation \in Nat /\ job[j].gen \in Nat
    BY <1>2 DEF Gens, Types, Counters, Refreshes, JobRecs, SameStamp
  <2>2. UNCHANGED <<generation, heard, epoch, writeGen>>
    BY <1>2, <2>1
  <2> QED
    BY <1>2, <2>1, <2>2 DEF Keeps, SameStamp
<1> QED
  BY <1>1, <1>2 DEF Keeps, Since

LEMMA HeardMoves ==
  ASSUME Types, HeardIsPast, Moves
  PROVE  HeardIsPast'
<1>1. heard \in Pairs /\ heard[1] \in Nat /\ heard[2] \in Nat
  BY UptoIsNat DEF Types, Counters, Pairs
<1>2. Below(<<0, 0>>, heard)
  BY <1>1 DEF Below
<1> QED
  BY <1>2 DEF HeardIsPast, Moves, Calm, CallGoes, Below

LEMMA MatchedMoves ==
  ASSUME Types, Work, Work', Matched, Moves
  PROVE  Matched'
<1>1. ASSUME NEW c \in Callers, call'[c].at = "waits", job'[call'[c].job].at # "settled"
      PROVE  job'[call'[c].job].key = call'[c].key /\ job'[call'[c].job].gen = call'[c].gen
  <2>1. CASE call'[c] = call[c]
    <3>1. call[c].job \in Jobs /\ ~Begun(call[c].job)
      BY <1>1, <2>1 DEF Types, CallsMade, Begun
    <3>2. SameStamp(call[c].job) /\ job[call[c].job].at # "settled"
      BY <1>1, <2>1, <3>1 DEF Moves, JobGoes
    <3> QED
      BY <1>1, <2>1, <3>2 DEF Matched, SameStamp
  <2> QED
    BY <1>1, <2>1 DEF Moves, CallGoes
<1>2. ASSUME NEW i \in Jobs, call'[i].at \in {"joins", "waits"}
      PROVE  job'[i].gen <= call'[i].gen
  <2>1. i \in Callers
    BY DEF Callers
  <2>2. job[i].at # "settled" /\ job[i].gen <= call'[i].gen
    BY <1>2, <2>1 DEF Moves, CallGoes, Matched, Work, Loading
  <2>3. job'[i].at # "settled"
    BY <1>2 DEF Work, Loading
  <2>4. job'[i].gen = job[i].gen
    BY <2>2, <2>3 DEF Moves, JobGoes, SameStamp, Begun
  <2> QED
    BY <2>2, <2>4
<1> QED
  BY <1>1, <1>2 DEF Matched

LEMMA KindMoves ==
  ASSUME Types, Work, LoadsOfKind, Matched, Moves
  PROVE  LoadsOfKind'
<1>1. NoValue.kind = "none"
  BY DEF NoValue
<1>2. ASSUME NEW i \in Jobs
      PROVE  /\ job'[i].at # "settled" => OfKind(job'[i].key, job'[i].value)
             /\ job'[i].at = "replied" => job'[i].value.kind = "status"
  <2>1. CASE Begun(i)
    BY <2>1 DEF Begun, OfKind
  <2>2. CASE ~Begun(i)
    <3>1. job'[i].at # "settled" => job[i].at # "settled" /\ job'[i].key = job[i].key
      BY <2>2 DEF Moves, JobGoes, SameStamp
    <3>2. OfKind(job[i].key, NoValue) /\ (job[i].at # "settled" => OfKind(job[i].key, job[i].value))
      BY DEF OfKind, LoadsOfKind
    <3>3. job'[i].at # "settled" => OfKind(job'[i].key, job'[i].value)
      BY <3>1, <3>2 DEF Moves, ValueGoes
    <3>4. job'[i].at = "replied" => job'[i].value.kind = "status"
      BY DEF LoadsOfKind, Moves, ValueGoes
    <3> QED
      BY <3>3, <3>4
  <2> QED
    BY <2>1, <2>2
<1>3. ASSUME NEW c \in Callers, call'[c].at = "waits"
      PROVE  OfKind(call'[c].key, job'[call'[c].job].value)
  <2>1. CASE call'[c] = call[c]
    <3>1. PICK n \in Jobs : n = call[c].job
      BY <1>3, <2>1 DEF Types, CallsMade
    <3>2. ~Begun(n) /\ OfKind(call[c].key, job[n].value)
      BY <1>3, <2>1, <3>1 DEF Begun, LoadsOfKind
    <3>3. CASE job'[n].value \in {job[n].value, NoValue}
      BY <2>1, <3>1, <3>2, <3>3 DEF OfKind
    <3>4. CASE job[n].at # "settled" /\ OfKind(job[n].key, job'[n].value)
      BY <1>3, <2>1, <3>1, <3>4 DEF Matched
    <3> QED
      BY <3>2, <3>3, <3>4 DEF Moves, ValueGoes, JobGoes
  <2>2. CASE call'[c] # call[c]
    BY <1>3, <2>2 DEF Moves, CallGoes, Begun, OfKind
  <2> QED
    BY <2>1, <2>2
<1>4. ASSUME NEW r \in Reads, call'[r].at # "idle"
      PROVE  call'[r].key # Core
  <2>1. r \in Callers
    BY DEF Callers
  <2> QED
    BY <1>4, <2>1 DEF Moves, CallGoes, LoadsOfKind
<1> QED
  BY <1>2, <1>3, <1>4 DEF LoadsOfKind

LEMMA KeptMoves ==
  ASSUME Types, Types', Work, Gens, Unread, HeardIsPast', Kept, Moves
  PROVE  Kept'
<1>1. ASSUME NEW j \in Jobs, NEW v, Keeps(j, v), ~Begun(j),
             job[j].at = "replied" => job'[j].at \in {"replied", "settled"}
      PROVE  Keeps(j, v)'
  <2>1. \/ job'[j].at = "settled"
        \/ job[j].at # "settled" /\ SameStamp(j) /\ (job[j].at = "replied" => job'[j].at = "replied")
    BY <1>1 DEF Moves, JobGoes
  <2>2. ASSUME NEW r \in Reads, call'[r].at = "waits", call'[r].job = j
        PROVE  call[r].at = "waits" /\ call[r].job = j /\ call'[r].need = call[r].need
    <3>1. r \in Callers
      BY DEF Callers
    <3> QED
      BY <1>1, <2>2, <3>1 DEF Moves, CallGoes
  <2>3. UNCHANGED <<generation, heard, epoch, writeGen>> \/ generation' = generation + 1
    BY DEF Moves, Calm
  <2> QED
    BY <1>1, <2>1, <2>2, <2>3, KeepsLater
<1>2. ASSUME NEW j \in Jobs, NEW v \in Vals, Since(heard, v)
      PROVE  Keeps(j, v)'
  BY <1>2, KeepsNow DEF Moves, Calm
<1> SUFFICES ASSUME NEW j \in Jobs
             PROVE  /\ Plain(job'[j].value) => Keeps(j, job[j].value)'
                    /\ call'[j].at = "answered" /\ call'[j].value.kind = "core" => Keeps(j, call[j].value)'
                    /\ call'[j].at = "waits" /\ job'[call'[j].job].value.kind = "core" =>
                         Keeps(j, job[call[j].job].value)'
  BY DEF Kept, Plain
<1>3. /\ j \in Callers /\ call'[j].value \in Vals
      /\ \A n \in Jobs : job'[n].value \in Vals
  BY DEF Types, Refreshes, JobRecs, CallsMade, CallRecs, Callers
<1>4. NoValue.kind = "none" /\ ~Plain(NoValue)
  BY DEF NoValue, Plain
<1>5. ASSUME Plain(job'[j].value)
      PROVE  Keeps(j, job[j].value)'
  <2>1. PICK v \in Vals : v = job'[j].value
    BY <1>3
  <2>2. ~Begun(j) /\ (job[j].at = "replied" => job'[j].at \in {"replied", "settled"})
    BY <1>4, <1>5 DEF Moves, JobGoes, Begun
  <2>3. Keeps(j, v) \/ Since(heard, v)
    BY <1>4, <1>5, <2>1 DEF Moves, ValueGoes, Kept
  <2> QED
    BY <1>1, <1>2, <2>1, <2>2, <2>3
<1>6. ASSUME call'[j].at = "answered", call'[j].value.kind = "core"
      PROVE  Keeps(j, call[j].value)'
  <2>1. PICK v \in Vals : v = call'[j].value
    BY <1>3
  <2>2. job[j].at = "timer" /\ (Keeps(j, v) \/ Since(heard, v))
    BY <1>6, <2>1 DEF Moves, CoreGoes, Kept, Work, Loading
  <2>3. CASE Since(heard, v)
    BY <1>2, <2>1, <2>3
  <2>4. CASE Keeps(j, v)
    BY <1>1, <2>1, <2>2, <2>4 DEF Begun
  <2> QED
    BY <2>2, <2>3, <2>4
<1>7. ASSUME call'[j].at = "waits", job'[call'[j].job].value.kind = "core"
      PROVE  Keeps(j, job[call[j].job].value)'
  <2>1. call'[j] = call[j]
    BY <1>3, <1>4, <1>7 DEF Moves, CallGoes, Begun
  <2>2. PICK n \in Jobs : n = call[j].job
    BY <1>3, <1>7, <2>1 DEF Types, CallsMade
  <2>3. ~Begun(n) /\ job[j].at = "timer"
    BY <1>3, <1>7, <2>1, <2>2 DEF Begun, Work, Loading
  <2>4. PICK v \in Vals : v = job'[n].value
    BY <1>3
  <2>5. v = job[n].value \/ Since(heard, v)
    BY <1>4, <1>7, <2>1, <2>2, <2>4 DEF Moves, ValueGoes, Plain
  <2>6. Keeps(j, v) \/ Since(heard, v)
    BY <1>7, <2>1, <2>2, <2>4, <2>5 DEF Kept
  <2>7. CASE Since(heard, v)
    BY <1>2, <2>1, <2>2, <2>4, <2>7
  <2>8. Keeps(j, v) => Keeps(j, v)'
    BY <1>1, <2>3 DEF Begun
  <2> QED
    BY <2>1, <2>2, <2>4, <2>6, <2>7, <2>8
<1> QED
  BY <1>5, <1>6, <1>7

LEMMA MovesKeep ==
  ASSUME Types, Types', Work, Work', Sound, Current, Moves
  PROVE  HeardIsPast' /\ LoadsOfKind' /\ Matched' /\ Kept'
<1>1. HeardIsPast'
  BY HeardMoves DEF Current
<1>2. LoadsOfKind' /\ Matched'
  BY KindMoves, MatchedMoves DEF Current
<1>3. Kept'
  BY <1>1, KeptMoves DEF Current, Sound
<1> QED
  BY <1>1, <1>2, <1>3

-----------------------------------------------------------------------------
(* What is cached *)

\* The entries stay, or go; what is settled with a value was settled before.
LEMMA EntriesStay ==
  ASSUME Types, Current, Moves, UNCHANGED files,
         \A q \in Keys : buckets'[q] \subseteq buckets[q],
         generation' = generation \/ \A q \in Keys : buckets'[q] = {},
         \A i \in Jobs : job'[i].at = "settled" /\ job'[i].value # NoValue =>
           job[i].at = "settled" /\ job'[i].value = job[i].value
  PROVE  Aged' /\ Fetched' /\ EntriesOfKind' /\ StoredIsOwn'
<1>1. UNCHANGED <<heard, epoch, writeGen, dataVersion, watchersHealthy>>
  BY DEF Moves, Calm
<1>2. Aged' /\ EntriesOfKind'
  BY <1>1 DEF Current, Aged, EntriesOfKind
<1>3. Fetched'
  BY <1>1 DEF Current, Fetched, DbMoved, IsCurrent
<1>4. StoredIsOwn'
  <2> SUFFICES ASSUME NEW c \in Callers, call'[c].at = "waits", call'[c].gen = generation',
                      job'[call'[c].job].at = "settled", job'[call'[c].job].value # NoValue,
                      NEW e \in buckets'[call'[c].key]
               PROVE  e.value = job'[call'[c].job].value
    BY DEF StoredIsOwn
  <2>1. call'[c] = call[c]
    BY DEF Moves, CallGoes, Begun
  <2>2. call[c].key \in Keys /\ call[c].job \in Jobs
    BY <2>1 DEF Types, CallsMade, CallRecs
  <2>3. generation' = generation /\ e \in buckets[call[c].key]
    BY <2>1, <2>2
  <2> QED
    BY <2>1, <2>2, <2>3 DEF Current, StoredIsOwn
<1> QED
  BY <1>2, <1>3, <1>4

\* A refresh that has read is stored, or was superseded.
LEMMA StoredEntries ==
  ASSUME Types, Sound, Ages, Current, Turn, NEW j \in Jobs, job[j].at \in {"replied", "loaded"},
         Remembers(j, IF job[j].at = "loaded" THEN writeGen ELSE job[j].writeGen),
         \A i \in Jobs \ {j} : job'[i] = job[i], job'[j].value \in {job[j].value, NoValue},
         UNCHANGED <<call, files, heard, epoch, generation, writeGen, dataVersion, watchersHealthy>>
  PROVE  Aged' /\ Fetched' /\ EntriesOfKind' /\ StoredIsOwn'
<1> DEFINE w == IF job[j].at = "loaded" THEN writeGen ELSE job[j].writeGen
           k == job[j].key
<1>1. /\ job[j].value \in Vals /\ k \in Keys /\ buckets \in [Keys -> SUBSET EntryRecs]
      /\ job[j].epoch \in Nat /\ epoch \in Nat /\ writeGen \in Nat /\ files \in Nat /\ dataVersion \in Nat
      /\ job[j].epoch <= epoch /\ w \in Nat /\ w <= writeGen
  <2>1. /\ job[j] \in JobRecs /\ buckets \in [Keys -> SUBSET EntryRecs]
        /\ epoch \in Nat /\ writeGen \in Nat /\ files \in Nat /\ dataVersion \in Nat
    BY UptoIsNat DEF Types, Refreshes, Cached, Counters
  <2>2. job[j].epoch <= epoch /\ job[j].writeGen <= writeGen
    BY DEF Ages
  <2>3. job[j].value \in Vals /\ k \in Keys /\ job[j].epoch \in Nat /\ job[j].writeGen \in Nat
    BY <2>1, UptoIsNat DEF JobRecs
  <2>4. w \in Nat /\ w <= writeGen
    <3>1. CASE job[j].at = "loaded"
      BY <2>1, <3>1
    <3>2. CASE job[j].at # "loaded"
      BY <2>2, <2>3, <3>2
    <3> QED
      BY <3>1, <3>2
  <2> QED
    BY <2>1, <2>2, <2>3, <2>4
<1>2. job[j].value # NoValue /\ OfKind(k, job[j].value)
      /\ (Plain(job[j].value) => Keeps(j, job[j].value))
  BY DEF Sound, Unread, Current, LoadsOfKind, Kept
<1>4. ASSUME NEW c \in Callers, call[c].at = "waits", job'[call[c].job].at = "settled"
      PROVE  call[c].job = j /\ call[c].key = k /\ call[c].gen = job[j].gen
  <2>1. call[c].job \in Jobs
    BY <1>4 DEF Types, CallsMade
  <2>2. job[call[c].job].at # "settled"
    BY <1>4, <2>1 DEF Turn, Unsettled, Awaiting
  <2>3. call[c].job = j
    BY <1>4, <2>1, <2>2
  <2> QED
    BY <1>4, <2>2, <2>3 DEF Current, Matched
<1>5. CASE job[j].gen # generation
  <2>1. buckets' = buckets
    BY <1>5 DEF Remembers
  <2>2. Aged' /\ EntriesOfKind' /\ Fetched'
    BY <2>1 DEF Current, Aged, EntriesOfKind, Fetched, DbMoved, IsCurrent
  <2>3. StoredIsOwn'
    BY <1>4, <1>5 DEF StoredIsOwn
  <2> QED
    BY <2>2, <2>3
<1>6. CASE job[j].gen = generation
  <2>0. PICK e : e = [value |-> job[j].value, epoch |-> job[j].epoch, writeGen |-> w,
                      dataVersion |-> dataVersion, sig |-> IF watchersHealthy THEN NoSig ELSE files]
    OBVIOUS
  <2>1. buckets' = [buckets EXCEPT ![k] = {e}]
    BY <1>6, <2>0 DEF Remembers
  <2>2. \A q \in Keys : buckets'[q] = IF q = k THEN {e} ELSE buckets[q]
    BY <1>1, <2>1
  <2>3. /\ e.value = job[j].value /\ e.epoch = job[j].epoch /\ e.writeGen = w
        /\ e.dataVersion = dataVersion /\ e.sig \in {NoSig, files}
    BY <2>0
  <2>4. Aged'
    BY <1>1, <2>2, <2>3 DEF Current, Aged
  <2>5. EntriesOfKind'
    BY <1>2, <2>2, <2>3 DEF Current, EntriesOfKind
  <2>6. ASSUME Plain(e.value)
        PROVE  /\ ~DbMoved(e)' => heard[1] <= e.value.db
               /\ IsCurrent(e)' => heard[2] <= e.value.files
    <3>1. Keeps(j, job[j].value)
      BY <1>2, <2>3, <2>6
    <3>2. job[j].at = "replied" => w = job[j].writeGen
      OBVIOUS
    <3> QED
      BY <1>6, <2>3, <3>1, <3>2 DEF Keeps, DbMoved, IsCurrent
  <2>7. Fetched'
    <3> SUFFICES ASSUME NEW q \in Keys, NEW f \in buckets'[q], Plain(f.value)
                 PROVE  /\ ~DbMoved(f)' => heard[1] <= f.value.db
                        /\ IsCurrent(f)' => heard[2] <= f.value.files
      BY DEF Fetched
    <3>1. CASE q = k
      <4>1. f = e
        BY <2>2, <3>1
      <4> QED
        BY <2>6, <4>1
    <3>2. CASE q # k
      BY <2>2, <3>2 DEF Current, Fetched, DbMoved, IsCurrent
    <3> QED
      BY <3>1, <3>2
  <2>8. StoredIsOwn'
    BY <1>1, <1>4, <2>2, <2>3 DEF StoredIsOwn
  <2> QED
    BY <2>4, <2>5, <2>7, <2>8
<1> QED
  BY <1>5, <1>6

-----------------------------------------------------------------------------
(* Calls *)

LEMMA NeedsCarried ==
  ASSUME Types, NEW c \in Callers, NEW a \in CallRecs
  PROVE  /\ \A v, x : Answers(c, a, v, x) =>
              /\ call'[c].need = <<0, 0>>
              /\ c \in Reads => answer'.need = a.need /\ answer'.refreshing = x
         /\ \A place, j : Awaits(c, a, place, j) => call'[c].need = a.need
<1>1. call \in [Callers -> CallRecs]
  BY DEF Types, CallsMade
<1>2. ASSUME NEW v, NEW x, Answers(c, a, v, x)
      PROVE  /\ call'[c].need = <<0, 0>>
             /\ c \in Reads => answer'.need = a.need /\ answer'.refreshing = x
  <2>1. CASE c \in Reads
    <3>1. /\ call' = [call EXCEPT ![c] = Idle]
          /\ answer' = [value |-> v, need |-> a.need, floor |-> a.floor, refreshing |-> x]
      BY <1>2, <2>1 DEF Answers
    <3> QED
      BY <1>1, <3>1 DEF Idle
  <2>2. CASE c \notin Reads
    <3>1. call' = [call EXCEPT ![c] = [Idle EXCEPT !.at = "answered", !.value = v]]
      BY <1>2, <2>2 DEF Answers
    <3> QED
      BY <1>1, <2>2, <3>1 DEF Idle
  <2> QED
    BY <2>1, <2>2
<1>3. ASSUME NEW place, NEW j, Awaits(c, a, place, j)
      PROVE  call'[c].need = a.need
  BY <1>1, <1>3 DEF Awaits, CallRecs
<1> QED
  BY <1>2, <1>3

LEMMA AskedNeeds ==
  ASSUME Types, NEW c, NEW k, NEW gen
  PROVE  Below(Asked(c, k, gen).need, heard)
<1>1. heard \in Pairs /\ heard[1] \in Nat /\ heard[2] \in Nat
  BY UptoIsNat DEF Types, Counters, Pairs
<1>2. CASE c \in Reads
  <2>1. Asked(c, k, gen) = [Idle EXCEPT !.key = k, !.gen = gen, !.need = heard, !.floor = cleared]
    BY <1>2 DEF Asked
  <2> QED
    BY <1>1, <2>1 DEF Idle, Below
<1>3. CASE c \notin Reads
  <2>1. Asked(c, k, gen) = [Idle EXCEPT !.key = k, !.gen = gen]
    BY <1>3 DEF Asked
  <2> QED
    BY <1>1, <2>1 DEF Idle, Below
<1> QED
  BY <1>2, <1>3

LEMMA NothingAnswered ==
  ASSUME answer' = NoAnswer
  PROVE  AnswersAreCurrent'
<1>1. answer'.value = NoValue
  BY DEF NoAnswer
<1> QED
  BY <1>1 DEF AnswersAreCurrent, Answered

\* What is cached and not seen to be old has all that was heard.
LEMMA CachedIsCurrent ==
  ASSUME Types, Current, NEW k \in Keys, NEW e \in buckets[k], ~DbMoved(e)
  PROVE  /\ e.value \in Vals /\ OfKind(k, e.value)
         /\ Plain(e.value) => heard[1] <= e.value.db
         /\ Plain(e.value) /\ IsCurrent(e) => Since(heard, e.value)
BY DEF Types, Cached, EntryRecs, Current, EntriesOfKind, Fetched, Since

\* A call is answered from the cache, or waits for a refresh of its key, begun
\* for it or in flight.
LEMMA CallCurrent ==
  ASSUME Types, Types', Work, Work', Sound, Current,
         NEW c \in Callers, NEW k \in Keys, NEW a \in CallRecs, NEW g \in Nat,
         a.key = k, a.gen = g, Below(a.need, heard), g <= generation',
         c \in Jobs => job[c].at = "timer" /\ job[c].gen <= g,
         c \in Reads => k # Core,
         \/ /\ \E e \in buckets[k], x \in BOOLEAN :
                 /\ Answers(c, a, e.value, x)
                 /\ ~DbMoved(e) /\ (IsCurrent(e) \/ (x /\ c \in Reads))
            /\ UNCHANGED <<inflight, refresh>> \/ \E j \in Jobs : Tracks(j, k, g)
         \/ /\ \E i \in inflight[k] : Awaits(c, a, "joins", i[2])
            /\ UNCHANGED <<inflight, refresh>>
         \/ \E j \in Jobs : Tracks(j, k, g) /\ Awaits(c, a, "waits", j),
         generation' \in {generation, generation + 1},
         UNCHANGED <<db, files, heard, epoch, writeGen, dataVersion, watchersHealthy>>,
         \A q \in Keys : buckets'[q] \subseteq buckets[q],
         generation' = generation \/ \A q \in Keys : buckets'[q] = {}
  PROVE  Current' /\ AnswersAreCurrent'
<1>1. \/ \A i \in Jobs : job'[i] = job[i]
      \/ \E j \in Jobs : Tracks(j, k, g) /\ Begun(j) /\ job'[j].key = k /\ job'[j].gen = g
  <2>1. CASE UNCHANGED <<inflight, refresh>>
    BY <2>1 DEF refresh
  <2>2. ASSUME NEW j \in Jobs, Tracks(j, k, g)
        PROVE  Begun(j) /\ job'[j].key = k /\ job'[j].gen = g
    BY <2>2, TracksEffect DEF Begun
  <2> QED
    BY <2>1, <2>2
<1>2. ASSUME NEW i \in Jobs
      PROVE  JobGoes(i) /\ ValueGoes(i) /\ (job'[i] = job[i] \/ Begun(i))
  <2>1. CASE job'[i] = job[i]
    BY <2>1 DEF JobGoes, ValueGoes, SameStamp
  <2>2. CASE Begun(i)
    BY <2>2 DEF JobGoes, ValueGoes, Begun
  <2> QED
    BY <1>1, <2>1, <2>2 DEF Begun
<1>3. (c \in Jobs => c \notin Reads) /\ (c \in Jobs \/ c \in Reads)
  BY JobsAreNat DEF Callers
<1> DEFINE Outcome ==
       /\ \A b \in Callers \ {c} : call'[b] = call[b]
       /\ CallGoes(c) /\ (c \in Jobs => CoreGoes(c)) /\ AnswersAreCurrent'
<1>4. Outcome
  <2>1. ASSUME NEW e \in buckets[k], NEW x \in BOOLEAN, Answers(c, a, e.value, x),
               ~DbMoved(e), IsCurrent(e) \/ (x /\ c \in Reads)
        PROVE  Outcome
    <3>1. /\ e.value \in Vals /\ OfKind(k, e.value)
          /\ Plain(e.value) => heard[1] <= e.value.db
          /\ Plain(e.value) /\ IsCurrent(e) => Since(heard, e.value)
      BY <2>1, CachedIsCurrent
    <3>2. /\ \A b \in Callers \ {c} : call'[b] = call[b]
          /\ c \in Reads => call'[c].at = "idle" /\ answer'.value = e.value
          /\ c \notin Reads => /\ call'[c].at = "answered" /\ call'[c].value = e.value
                              /\ answer' = NoAnswer
      BY <2>1, <3>1, AnswersEffect
    <3>3. /\ call'[c].need = <<0, 0>>
          /\ c \in Reads => answer'.need = a.need /\ answer'.refreshing = x
      BY <2>1, NeedsCarried
    <3>4. CallGoes(c)
      BY <1>3, <3>2, <3>3 DEF CallGoes
    <3>5. c \in Jobs => CoreGoes(c)
      BY <1>3, <2>1, <3>1, <3>2 DEF CoreGoes, Plain
    <3>6. AnswersAreCurrent'
      <4>1. CASE c \notin Reads
        BY <3>2, <4>1, NothingAnswered
      <4>2. CASE c \in Reads
        <5>1. e.value # NoValue /\ e.value.kind # "old status" => Plain(e.value)
          BY <3>1, <4>2 DEF OfKind, Plain
        <5>2. /\ a.need[1] \in Nat /\ a.need[2] \in Nat /\ heard[1] \in Nat /\ heard[2] \in Nat
              /\ e.value.db \in Nat /\ e.value.files \in Nat
          BY <3>1, UptoIsNat DEF CallRecs, Pairs, Types, Counters, Vals
        <5>3. Plain(e.value) => a.need[1] <= e.value.db /\ (x \/ a.need[2] <= e.value.files)
          BY <2>1, <3>1, <5>2 DEF Below, Since
        <5> QED
          BY <3>2, <3>3, <4>2, <5>1, <5>2, <5>3 DEF AnswersAreCurrent, Answered
      <4> QED
        BY <4>1, <4>2
    <3> QED
      BY <3>2, <3>4, <3>5, <3>6
  <2>2. ASSUME NEW j \in Jobs, NEW place \in {"joins", "waits"}, Awaits(c, a, place, j),
               place = "waits" => Tracks(j, k, g)
        PROVE  Outcome
    <3>1. /\ \A b \in Callers \ {c} : call'[b] = call[b]
          /\ call'[c].at = place /\ call'[c].job = j
          /\ call'[c].key = a.key /\ call'[c].gen = a.gen
          /\ answer' = NoAnswer
      BY <2>2, AwaitsEffect
    <3>2. call'[c].need = a.need
      BY <2>2, NeedsCarried
    <3>3. place = "waits" => Begun(j) /\ job'[j].key = k /\ job'[j].gen = g
      BY <2>2, TracksEffect DEF Begun
    <3>4. CallGoes(c) /\ CoreGoes(c)
      BY <3>1, <3>2, <3>3 DEF CallGoes, CoreGoes
    <3>5. AnswersAreCurrent'
      BY <3>1, NothingAnswered
    <3> QED
      BY <3>1, <3>4, <3>5
  <2>3. \A i \in inflight[k] : i[2] \in Jobs
    BY DEF Types, InFlight
  <2> QED
    BY <2>1, <2>2, <2>3
<1>5. ASSUME NEW b \in Callers
      PROVE  CallGoes(b)
  BY <1>4 DEF CallGoes
<1>6. ASSUME NEW i \in Jobs
      PROVE  CoreGoes(i)
  <2>1. i \in Callers
    BY DEF Callers
  <2> QED
    BY <1>4, <2>1 DEF CoreGoes
<1>7. Moves
  BY <1>2, <1>5, <1>6 DEF Moves, Calm
<1>8. HeardIsPast' /\ LoadsOfKind' /\ Matched' /\ Kept'
  BY <1>7, MovesKeep
<1>9. \A i \in Jobs : job'[i].at = "settled" /\ job'[i].value # NoValue =>
        job[i].at = "settled" /\ job'[i].value = job[i].value
  BY <1>2 DEF Begun
<1>10. Aged' /\ Fetched' /\ EntriesOfKind' /\ StoredIsOwn'
  BY <1>7, <1>9, EntriesStay
<1> QED
  BY <1>4, <1>8, <1>10 DEF Current

LEMMA AskedCurrent ==
  ASSUME Types, Types', Work, Work', Sound, Current, NEW c \in Callers, NEW k \in Keys,
         c \in Jobs => job[c].at = "timer", c \in Reads => k # Core,
         Hit(c, k) \/ Superseded(c, k) \/ (c \in Reads /\ Stale(c, k)) \/ LoadsNow(c, k),
         UNCHANGED <<db, files, heard, epoch, writeGen, dataVersion, watchersHealthy>>
  PROVE  Current' /\ AnswersAreCurrent'
<1>1. /\ generation' \in {generation, generation + 1} /\ \A q \in Keys : buckets'[q] \subseteq buckets[q]
      /\ generation' = generation \/ \A q \in Keys : buckets'[q] = {}
  BY DEF Hit, Superseded, Stale, LoadsNow
<1>2. PICK g \in Nat : g = generation'
  BY DEF Types, Counters
<1>3. PICK a \in CallRecs : a = Asked(c, k, g)
  BY AskedTypes
<1>4. a.key = k /\ a.gen = g /\ Below(a.need, heard) /\ g <= generation'
  BY <1>2, <1>3, AskedTypes, AskedEffect, AskedNeeds
<1>5. c \in Jobs => job[c].gen <= g
  <2>1. c \in Jobs => job[c].gen \in Nat /\ job[c].gen <= generation /\ generation \in Nat
    BY DEF Types, Refreshes, JobRecs, Counters, Sound, Gens
  <2> QED
    BY <1>1, <1>2, <2>1
<1>6. \/ /\ \E e \in buckets[k], x \in BOOLEAN :
              /\ Answers(c, a, e.value, x)
              /\ ~DbMoved(e) /\ (IsCurrent(e) \/ (x /\ c \in Reads))
         /\ UNCHANGED <<inflight, refresh>> \/ \E j \in Jobs : Tracks(j, k, g)
      \/ /\ \E i \in inflight[k] : Awaits(c, a, "joins", i[2])
         /\ UNCHANGED <<inflight, refresh>>
      \/ \E j \in Jobs : Tracks(j, k, g) /\ Awaits(c, a, "waits", j)
  <2>1. CASE Hit(c, k)
    BY <1>2, <1>3, <2>1 DEF Hit, Fresh
  <2>2. CASE Superseded(c, k)
    BY <1>2, <1>3, <2>2 DEF Superseded
  <2>3. CASE c \in Reads /\ Stale(c, k)
    BY <1>2, <1>3, <2>3 DEF Stale
  <2>4. CASE LoadsNow(c, k)
    BY <1>2, <1>3, <2>4 DEF LoadsNow
  <2> QED
    BY <2>1, <2>2, <2>3, <2>4
<1> QED
  BY <1>1, <1>4, <1>5, <1>6, CallCurrent

LEMMA JoinedCurrent ==
  ASSUME Types, Types', Work, Work', Sound, Current, NEW c \in Callers, Joined(c)
  PROVE  Current' /\ AnswersAreCurrent'
<1>1. PICK a \in CallRecs : a = call[c]
  BY DEF Types, CallsMade
<1>2. PICK k \in Keys : k = a.key
  BY DEF CallRecs
<1>3. PICK g \in Nat : g = a.gen
  BY DEF CallRecs
<1>4. UNCHANGED <<db, files, heard, epoch, writeGen, dataVersion, watchersHealthy, generation, buckets>>
  BY DEF Joined, source, history
<1>5. Below(a.need, heard) /\ g <= generation'
  BY <1>1, <1>3, <1>4 DEF Current, HeardIsPast, Sound, Gens
<1>6. call[c].at = "joins"
  BY DEF Joined
<1>7. c \in Jobs => job[c].at = "timer" /\ job[c].gen <= g
  BY <1>1, <1>3, <1>6 DEF Work, Loading, Current, Matched
<1>8. c \in Reads => k # Core
  BY <1>1, <1>2, <1>6 DEF Current, LoadsOfKind
<1>9. \/ /\ \E e \in buckets[k], x \in BOOLEAN :
              /\ Answers(c, a, e.value, x)
              /\ ~DbMoved(e) /\ (IsCurrent(e) \/ (x /\ c \in Reads))
         /\ UNCHANGED <<inflight, refresh>>
      \/ \E j \in Jobs : Tracks(j, k, g) /\ Awaits(c, a, "waits", j)
  BY <1>1, <1>2, <1>3 DEF Joined, Fresh
<1>10. /\ generation' \in {generation, generation + 1} /\ generation' = generation
       /\ \A q \in Keys : buckets'[q] \subseteq buckets[q]
  BY <1>4
<1> QED
  BY <1>2, <1>3, <1>4, <1>5, <1>7, <1>8, <1>9, <1>10, CallCurrent

\* A call whose own refresh is settled is given what was stored, which is what
\* its refresh has read, or that, or something that goes back to a failed load.
LEMMA WaitedCurrent ==
  ASSUME Types, Types', Work, Work', Sound, Current, NEW c \in Callers, Waited(c)
  PROVE  Current' /\ AnswersAreCurrent'
<1>1. PICK n \in Jobs : n = call[c].job
  BY DEF Waited, Types, CallsMade
<1>2. PICK own \in Vals : own = job[n].value
  BY DEF Types, Refreshes, JobRecs
<1>3. /\ call[c].at = "waits" /\ job[n].at = "settled" /\ call[c] \in CallRecs /\ call[c].key \in Keys
      /\ (c \in Jobs => c \notin Reads)
  BY <1>1, JobsAreNat DEF Waited, Types, CallsMade, CallRecs
<1>4. /\ \A i \in Jobs \ {n} : job'[i] = job[i]
      /\ job'[n].at = "settled" /\ job'[n].value = NoValue
  BY <1>1 DEF Waited, Settled, Types, Refreshes
<1>5. /\ UNCHANGED <<db, files, heard, epoch, writeGen, dataVersion, watchersHealthy, generation, buckets>>
  BY DEF Waited, source, cache, history
<1>6. PICK v \in Vals :
         /\ Answers(c, call[c], v, FALSE)
         /\ \/ v = own
            \/ \E e \in buckets[call[c].key] : v = Old(e.value)
  <2>1. \A e \in buckets[call[c].key] : e.value \in Vals /\ Old(e.value) \in Vals
    BY <1>3, MarkedValues DEF Types, Cached, EntryRecs
  <2>2. own # NoValue /\ generation = call[c].gen => \A e \in buckets[call[c].key] : e.value = own
    BY <1>1, <1>2, <1>3 DEF Current, StoredIsOwn
  <2>3. CASE \E e \in buckets[call[c].key] :
               /\ generation = call[c].gen
               /\ Answers(c, call[c], IF own = NoValue THEN Old(e.value) ELSE e.value, FALSE)
    BY <2>1, <2>2, <2>3
  <2>4. CASE Answers(c, call[c], own, FALSE)
    BY <2>4
  <2> QED
    BY <1>1, <1>2, <2>3, <2>4 DEF Waited
<1>7. /\ \A b \in Callers \ {c} : call'[b] = call[b]
      /\ c \in Reads => call'[c].at = "idle" /\ answer'.value = v
      /\ c \notin Reads => call'[c].at = "answered" /\ call'[c].value = v /\ answer' = NoAnswer
  BY <1>3, <1>6, AnswersEffect
<1>8. /\ call'[c].need = <<0, 0>>
      /\ c \in Reads => answer'.need = call[c].need
  BY <1>3, <1>6, NeedsCarried
<1>9. \A e \in buckets[call[c].key] : Old(e.value).kind \in {"old core", "old status"}
  <2>1. \A e \in buckets[call[c].key] : e.value \in Vals
    BY <1>3 DEF Types, Cached, EntryRecs
  <2> QED
    BY <2>1 DEF Old, Vals
<1>10. ASSUME NEW i \in Jobs
       PROVE  JobGoes(i) /\ ValueGoes(i)
  BY <1>3, <1>4 DEF JobGoes, ValueGoes, SameStamp
<1>11. ASSUME NEW i \in Jobs
       PROVE  CoreGoes(i)
  <2>1. i \in Callers
    BY DEF Callers
  <2>2. CASE i # c
    BY <1>7, <2>1, <2>2 DEF CoreGoes
  <2>3. CASE i = c
    <3>1. job[c].at = "timer"
      BY <1>3, <2>3 DEF Work, Loading
    <3>2. v.kind = "core" => v = own
      BY <1>6, <1>9
    <3>3. v.kind = "core" => Keeps(c, v)
      BY <1>1, <1>2, <1>3, <2>3, <3>2 DEF Current, Kept
    <3> QED
      BY <1>3, <1>7, <2>3, <3>1, <3>3 DEF CoreGoes
  <2> QED
    BY <2>2, <2>3
<1>12. ASSUME NEW b \in Callers
       PROVE  CallGoes(b)
  <2>1. c \in Jobs \/ c \in Reads
    BY DEF Callers
  <2> QED
    BY <1>3, <1>7, <1>8, <2>1 DEF CallGoes
<1>13. Moves
  BY <1>5, <1>10, <1>11, <1>12 DEF Moves, Calm
<1>14. HeardIsPast' /\ LoadsOfKind' /\ Matched' /\ Kept'
  BY <1>13, MovesKeep
<1>15. Aged' /\ Fetched' /\ EntriesOfKind' /\ StoredIsOwn'
  <2>1. \A i \in Jobs : job'[i].at = "settled" /\ job'[i].value # NoValue =>
          job[i].at = "settled" /\ job'[i].value = job[i].value
    BY <1>4
  <2> QED
    BY <1>5, <1>13, <2>1, EntriesStay
<1>16. AnswersAreCurrent'
  <2>1. CASE c \notin Reads
    BY <1>7, <2>1, NothingAnswered
  <2>2. CASE c \in Reads
    <3>1. call[c].key # Core
      BY <1>3, <2>2 DEF Current, LoadsOfKind
    <3>2. CASE v = own
      <4>1. own # NoValue /\ own.kind # "old status" => own.kind = "status"
        BY <1>1, <1>2, <1>3, <3>1 DEF Current, LoadsOfKind, OfKind
      <4>2. own.kind = "status" => Since(call[c].need, own)
        BY <1>1, <1>2, <1>3, <2>2 DEF Current, Kept, Keeps, Plain
      <4>3. /\ call[c].need[1] \in Nat /\ call[c].need[2] \in Nat /\ own.db \in Nat /\ own.files \in Nat
        BY <1>3, UptoIsNat DEF CallRecs, Pairs, Vals
      <4> QED
        BY <1>7, <1>8, <2>2, <3>2, <4>1, <4>2, <4>3 DEF AnswersAreCurrent, Answered, Since
    <3>3. ASSUME NEW e \in buckets[call[c].key], v = Old(e.value)
          PROVE  AnswersAreCurrent'
      <4>1. OfKind(call[c].key, e.value)
        BY <1>3, <3>3 DEF Current, EntriesOfKind
      <4>2. e.value.kind \notin {"core", "old core"} /\ e.value \in Vals
        <5>1. e.value \in Vals
          BY <1>3 DEF Types, Cached, EntryRecs
        <5>2. NoValue.kind = "none"
          BY DEF NoValue
        <5> QED
          BY <3>1, <4>1, <5>1, <5>2 DEF OfKind
      <4>3. v.kind = "old status"
        BY <3>3, <4>2 DEF Old, Vals
      <4> QED
        BY <1>7, <2>2, <4>3 DEF AnswersAreCurrent
    <3> QED
      BY <1>6, <3>2, <3>3
  <2> QED
    BY <2>1, <2>2
<1> QED
  BY <1>14, <1>15, <1>16 DEF Current

LEMMA NestedReturnsCurrent ==
  ASSUME Types, Types', Work, Work', Sound, Current, NEW j \in Jobs, NestedReturns(j), answer' = NoAnswer
  PROVE  Current' /\ AnswersAreCurrent'
<1>1. /\ job \in [Jobs -> JobRecs] /\ call \in [Callers -> CallRecs] /\ j \in Callers
      /\ job[j].at = "timer" /\ call[j].at = "answered"
  BY DEF Types, Refreshes, CallsMade, Callers, NestedReturns
<1>2. PICK v \in Vals : v = call[j].value
  BY <1>1 DEF CallRecs
<1>3. UNCHANGED <<db, files, heard, epoch, writeGen, dataVersion, watchersHealthy, generation, buckets>>
  BY DEF NestedReturns, source, history
<1>4. /\ \A b \in Callers \ {j} : call'[b] = call[b]
      /\ call'[j].at = "idle" /\ call'[j].need = <<0, 0>>
  BY <1>1 DEF NestedReturns, Idle
<1>5. /\ \A i \in Jobs \ {j} : job'[i] = job[i]
      /\ \/ job'[j].at = "settled" /\ job'[j].value = NoValue
         \/ /\ job'[j].at = "loaded" /\ SameStamp(j)
            /\ IsCore(v) /\ job'[j].value = StatusOf(v)
  <2>1. CASE Settles(j, NoValue)
    BY <2>1, SettlesEffect, ConstantTypes
  <2>2. CASE IsCore(v) /\ job' = [job EXCEPT ![j].at = "loaded", ![j].value = StatusOf(v)]
    <3>1. job'[j] = [job[j] EXCEPT !.at = "loaded", !.value = StatusOf(v)]
      BY <1>1, <2>2
    <3>2. job'[j].at = "loaded" /\ SameStamp(j) /\ job'[j].value = StatusOf(v)
      BY <1>1, <3>1 DEF JobRecs, SameStamp
    <3>3. \A i \in Jobs \ {j} : job'[i] = job[i]
      BY <1>1, <2>2
    <3> QED
      BY <2>2, <3>2, <3>3
  <2> QED
    BY <1>2, <2>1, <2>2 DEF NestedReturns
<1>6. ValueGoes(j)
  <2>1. CASE job'[j].at = "settled" /\ job'[j].value = NoValue
    BY <2>1 DEF ValueGoes
  <2>2. CASE job'[j].at = "loaded" /\ IsCore(v) /\ job'[j].value = StatusOf(v)
    <3>1. /\ job'[j].value.db = v.db /\ job'[j].value.files = v.files
      BY <2>2, MarkedValues
    <3>2. job'[j].value.kind = IF v.kind = "core" THEN "status" ELSE "old status"
      BY <2>2 DEF StatusOf, Vals
    <3>3. CASE v.kind = "core"
      <4>1. Keeps(j, v)
        BY <1>1, <1>2, <3>3 DEF Current, Kept
      <4>2. Keeps(j, job'[j].value)
        BY <3>1, <4>1 DEF Keeps, Since
      <4> QED
        BY <1>1, <2>2, <3>2, <3>3, <4>2 DEF ValueGoes, OfKind
    <3>4. CASE v.kind # "core"
      BY <1>1, <2>2, <3>2, <3>4 DEF ValueGoes, OfKind, Plain
    <3> QED
      BY <3>3, <3>4
  <2> QED
    BY <1>5, <2>1, <2>2
<1>7. ASSUME NEW i \in Jobs
      PROVE  JobGoes(i) /\ ValueGoes(i) /\ CoreGoes(i)
  <2>1. i \in Callers
    BY DEF Callers
  <2>2. CASE i = j
    BY <1>1, <1>4, <1>5, <1>6, <2>2 DEF JobGoes, CoreGoes
  <2>3. CASE i # j
    BY <1>4, <1>5, <2>1, <2>3 DEF JobGoes, ValueGoes, CoreGoes, SameStamp
  <2> QED
    BY <2>2, <2>3
<1>8. ASSUME NEW b \in Callers
      PROVE  CallGoes(b)
  BY <1>4 DEF CallGoes
<1>9. Moves
  BY <1>3, <1>7, <1>8 DEF Moves, Calm
<1>10. HeardIsPast' /\ LoadsOfKind' /\ Matched' /\ Kept'
  BY <1>9, MovesKeep
<1>11. Aged' /\ Fetched' /\ EntriesOfKind' /\ StoredIsOwn'
  <2>1. \A i \in Jobs : job'[i].at = "settled" /\ job'[i].value # NoValue =>
          job[i].at = "settled" /\ job'[i].value = job[i].value
    BY <1>5
  <2> QED
    BY <1>3, <1>9, <2>1, EntriesStay
<1> QED
  BY <1>10, <1>11, NothingAnswered DEF Current

-----------------------------------------------------------------------------
(* Refreshes *)

LEMMA QuietMoves ==
  ASSUME UNCHANGED call, Calm, \A i \in Jobs : JobGoes(i) /\ ValueGoes(i)
  PROVE  Moves
BY DEF Moves, CoreGoes, CallGoes

\* What is read now has all that was heard.
LEMMA NowIsHeard ==
  ASSUME Current, NEW kind
  PROVE  Since(heard, [db |-> db, files |-> files, kind |-> kind])
BY DEF Current, HeardIsPast, Below, Since

LEMMA WorksCurrent ==
  ASSUME Types, Types', Work, Work', Sound, Ages, Current, NEW j \in Jobs, Works(j)
  PROVE  Current' /\ AnswersAreCurrent'
<1>1. job \in [Jobs -> JobRecs]
  BY DEF Types, Refreshes
<1>2. UNCHANGED <<call, db, files, heard, epoch, writeGen, dataVersion, watchersHealthy, generation>>
      /\ answer' = NoAnswer
  BY DEF Works, WorkerReads, Deliver, WorkerFails, source, cache, history
<1>3. Calm
  BY <1>2 DEF Calm
<1>4. ASSUME Moves
      PROVE  HeardIsPast' /\ LoadsOfKind' /\ Matched' /\ Kept' /\ AnswersAreCurrent'
  BY <1>2, <1>4, MovesKeep, NothingAnswered
<1>5. ASSUME Moves, UNCHANGED buckets, job'[j].at # "settled", \A i \in Jobs \ {j} : job'[i] = job[i]
      PROVE  Current' /\ AnswersAreCurrent'
  <2>1. Aged' /\ Fetched' /\ EntriesOfKind' /\ StoredIsOwn'
    BY <1>2, <1>5, EntriesStay
  <2> QED
    BY <1>4, <1>5, <2>1 DEF Current
<1>6. \A i \in Jobs : job'[i] = job[i] => JobGoes(i) /\ ValueGoes(i)
  BY DEF JobGoes, ValueGoes, SameStamp
<1>7. CASE WorkerReads(j)
  <2>1. PICK v : v = [db |-> db, files |-> files, kind |-> "status"]
    OBVIOUS
  <2>2. job[j].at = "posted" /\ UNCHANGED buckets /\ job' = [job EXCEPT ![j].at = "replied", ![j].value = v]
    BY <1>7, <2>1 DEF WorkerReads, cache
  <2>3. job'[j] = [job[j] EXCEPT !.at = "replied", !.value = v]
    BY <1>1, <2>2
  <2>4. job'[j].at = "replied" /\ SameStamp(j) /\ job'[j].value = v
    BY <1>1, <2>3 DEF JobRecs, SameStamp
  <2>5. v.kind = "status" /\ Since(heard, v)
    BY <2>1, NowIsHeard
  <2>6. JobGoes(j) /\ ValueGoes(j)
    BY <2>2, <2>4, <2>5 DEF JobGoes, ValueGoes, OfKind
  <2>7. \A i \in Jobs \ {j} : job'[i] = job[i]
    BY <1>1, <2>2
  <2>8. Moves
    BY <1>2, <1>3, <1>6, <2>6, <2>7, QuietMoves
  <2> QED
    BY <1>5, <2>2, <2>4, <2>7, <2>8
<1>8. CASE Deliver(j)
  <2>1. job[j].at = "replied" /\ Remembers(j, job[j].writeGen) /\ Settles(j, job[j].value) /\ Turn
        /\ job[j].value \in Vals
    BY <1>1, <1>8 DEF Deliver, IsNext, JobRecs
  <2>2. /\ \A i \in Jobs \ {j} : job'[i] = job[i]
        /\ job'[j].at = "settled" /\ job'[j].value \in {job[j].value, NoValue}
    BY <2>1, SettlesEffect
  <2>3. JobGoes(j) /\ ValueGoes(j)
    BY <2>2 DEF JobGoes, ValueGoes
  <2>4. Moves
    BY <1>2, <1>3, <1>6, <2>2, <2>3, QuietMoves
  <2>5. Aged' /\ Fetched' /\ EntriesOfKind' /\ StoredIsOwn'
    BY <1>2, <2>1, <2>2, StoredEntries
  <2> QED
    BY <1>4, <2>4, <2>5 DEF Current
<1>9. CASE WorkerFails(j)
  <2>1. job[j].at = "posted" /\ UNCHANGED buckets /\ job' = [job EXCEPT ![j].at = "timer"]
    BY <1>9 DEF WorkerFails, cache
  <2>2. job'[j] = [job[j] EXCEPT !.at = "timer"]
    BY <1>1, <2>1
  <2>3. job'[j].at = "timer" /\ SameStamp(j) /\ job'[j].value = job[j].value
    BY <1>1, <2>2 DEF JobRecs, SameStamp
  <2>4. JobGoes(j) /\ ValueGoes(j)
    BY <2>1, <2>3 DEF JobGoes, ValueGoes
  <2>5. \A i \in Jobs \ {j} : job'[i] = job[i]
    BY <1>1, <2>1
  <2>6. Moves
    BY <1>2, <1>3, <1>6, <2>4, <2>5, QuietMoves
  <2> QED
    BY <1>5, <2>1, <2>3, <2>5, <2>6
<1> QED
  BY <1>7, <1>8, <1>9 DEF Works

LEMMA RunsCurrent ==
  ASSUME Types, Types', Work, Work', Sound, Ages, Current, NEW j \in Jobs, Runs(j)
  PROVE  Current' /\ AnswersAreCurrent'
<1>1. job \in [Jobs -> JobRecs] /\ j \in Callers /\ Core \in Keys /\ j \notin Reads
  BY JobsAreNat DEF Types, Refreshes, Callers, Keys
<1>2. \A i \in Jobs : job'[i] = job[i] => JobGoes(i) /\ ValueGoes(i)
  BY DEF JobGoes, ValueGoes, SameStamp
<1>3. CASE Nested(j)
  <2>1. job[j].at = "timer" /\ (Hit(j, Core) \/ Superseded(j, Core) \/ LoadsNow(j, Core))
    BY <1>3 DEF Nested
  <2>2. UNCHANGED <<db, files, heard, epoch, writeGen, dataVersion, watchersHealthy>>
    BY <1>3 DEF Nested, source, history
  <2> QED
    BY <1>1, <2>1, <2>2, AskedCurrent
<1>4. CASE LoadCore(j) /\ answer' = NoAnswer
  <2>1. PICK v : v = [db |-> db, files |-> files, kind |-> "core"]
    OBVIOUS
  <2>2. /\ job[j].at = "timer" /\ job[j].key = Core
        /\ job' = [job EXCEPT ![j].at = "loaded", ![j].value = v]
        /\ UNCHANGED <<call, db, files, heard, epoch, writeGen, dataVersion, watchersHealthy, generation, buckets>>
    BY <1>4, <2>1 DEF LoadCore, source, cache, history
  <2>3. job'[j] = [job[j] EXCEPT !.at = "loaded", !.value = v]
    BY <1>1, <2>2
  <2>4. job'[j].at = "loaded" /\ SameStamp(j) /\ job'[j].value = v
    BY <1>1, <2>3 DEF JobRecs, SameStamp
  <2>5. v.kind = "core" /\ Since(heard, v)
    BY <2>1, NowIsHeard
  <2>6. JobGoes(j) /\ ValueGoes(j)
    BY <2>2, <2>4, <2>5 DEF JobGoes, ValueGoes, OfKind
  <2>7. \A i \in Jobs \ {j} : job'[i] = job[i]
    BY <1>1, <2>2
  <2>8. Moves
    BY <1>2, <2>2, <2>6, <2>7, QuietMoves DEF Calm
  <2>9. HeardIsPast' /\ LoadsOfKind' /\ Matched' /\ Kept'
    BY <2>8, MovesKeep
  <2>10. Aged' /\ Fetched' /\ EntriesOfKind' /\ StoredIsOwn'
    BY <2>2, <2>4, <2>7, <2>8, EntriesStay
  <2> QED
    BY <1>4, <2>9, <2>10, NothingAnswered DEF Current
<1>5. ASSUME Store(j) \/ LoadFails(j), answer' = NoAnswer
      PROVE  Current' /\ AnswersAreCurrent'
  <2>1. job[j].value \in Vals /\ Turn
        /\ UNCHANGED <<call, db, files, heard, epoch, writeGen, dataVersion, watchersHealthy, generation>>
    BY <1>1, <1>5 DEF Store, LoadFails, JobRecs, source, history
  <2>2. /\ \A i \in Jobs \ {j} : job'[i] = job[i]
        /\ job'[j].at = "settled" /\ job'[j].value \in {job[j].value, NoValue}
        /\ LoadFails(j) => job'[j].value = NoValue
    BY <1>5, <2>1, SettlesEffect, ConstantTypes DEF Store, LoadFails
  <2>3. JobGoes(j) /\ ValueGoes(j)
    BY <2>2 DEF JobGoes, ValueGoes
  <2>4. Moves
    BY <1>2, <2>1, <2>2, <2>3, QuietMoves DEF Calm
  <2>5. HeardIsPast' /\ LoadsOfKind' /\ Matched' /\ Kept'
    BY <2>4, MovesKeep
  <2>6. Aged' /\ Fetched' /\ EntriesOfKind' /\ StoredIsOwn'
    <3>1. CASE Store(j)
      <4>1. job[j].at = "loaded" /\ Remembers(j, writeGen)
        BY <3>1 DEF Store
      <4> QED
        BY <2>1, <2>2, <4>1, StoredEntries
    <3>2. CASE LoadFails(j)
      <4>1. UNCHANGED buckets
        BY <3>2 DEF LoadFails
      <4> QED
        BY <2>1, <2>2, <2>4, <3>2, <4>1, EntriesStay
    <3> QED
      BY <1>5, <3>1, <3>2
  <2> QED
    BY <1>5, <2>5, <2>6, NothingAnswered DEF Current
<1> QED
  BY <1>3, <1>4, <1>5 DEF Runs

LEMMA DiesCurrent ==
  ASSUME Types, Types', Work, Work', Sound, Current, Dies
  PROVE  Current' /\ AnswersAreCurrent'
<1>1. /\ job \in [Jobs -> JobRecs] /\ answer' = NoAnswer
      /\ UNCHANGED <<call, db, files, heard, epoch, writeGen, dataVersion, watchersHealthy, generation, buckets>>
  BY DEF Types, Refreshes, Dies, WorkerDies, Respawn, source, cache, history
<1>2. ASSUME NEW i \in Jobs
      PROVE  \/ job'[i] = job[i]
             \/ /\ job[i].at \in {"posted", "replied"} /\ job'[i].at = "timer"
                /\ SameStamp(i) /\ job'[i].value = NoValue
  <2>1. CASE Respawn
    BY <2>1 DEF Respawn
  <2>2. CASE WorkerDies
    <3>1. job'[i] = IF job[i].at \in {"posted", "replied"}
                      THEN [job[i] EXCEPT !.at = "timer", !.value = NoValue] ELSE job[i]
      BY <2>2 DEF WorkerDies
    <3>2. PICK x \in JobRecs : x = job[i]
      BY <1>1
    <3>3. PICK y : y = [x EXCEPT !.at = "timer", !.value = NoValue]
      OBVIOUS
    <3>4. /\ y.at = "timer" /\ y.value = NoValue
          /\ y.key = x.key /\ y.gen = x.gen /\ y.epoch = x.epoch /\ y.writeGen = x.writeGen
      BY <3>3 DEF JobRecs
    <3> QED
      BY <3>1, <3>2, <3>3, <3>4 DEF SameStamp
  <2> QED
    BY <2>1, <2>2 DEF Dies
<1>3. ASSUME NEW i \in Jobs
      PROVE  JobGoes(i) /\ ValueGoes(i)
  <2>1. CASE job'[i] = job[i]
    BY <2>1 DEF JobGoes, ValueGoes, SameStamp
  <2>2. CASE /\ job[i].at \in {"posted", "replied"} /\ job'[i].at = "timer"
             /\ SameStamp(i) /\ job'[i].value = NoValue
    <3>1. call'[i].at = "idle"
      BY <1>1, <2>2 DEF Work, Loading
    <3> QED
      BY <2>2, <3>1 DEF JobGoes, ValueGoes
  <2> QED
    BY <1>2, <2>1, <2>2
<1>4. Moves
  BY <1>1, <1>3, QuietMoves DEF Calm
<1>5. HeardIsPast' /\ LoadsOfKind' /\ Matched' /\ Kept'
  BY <1>4, MovesKeep
<1>6. Aged' /\ Fetched' /\ EntriesOfKind' /\ StoredIsOwn'
  BY <1>1, <1>2, <1>4, EntriesStay
<1> QED
  BY <1>1, <1>5, <1>6, NothingAnswered DEF Current

-----------------------------------------------------------------------------
(* Changes: heard moves on while nothing that has read is held *)

Carries(j, v) ==
  \/ v = job[j].value /\ Plain(v)
  \/ call[j].at = "answered" /\ v = call[j].value /\ v.kind = "core"
  \/ call[j].at = "waits" /\ v = job[call[j].job].value /\ v.kind = "core"

LEMMA KeptAlong ==
  ASSUME UNCHANGED <<job, call>>, Kept,
         ASSUME NEW j \in Jobs, NEW v, Carries(j, v), Keeps(j, v),
                job[j].at # "settled", job[j].gen = generation'
         PROVE  /\ (job[j].at = "replied" => job[j].writeGen = writeGen') => heard'[1] <= v.db
                /\ job[j].epoch = epoch' => heard'[2] <= v.files
  PROVE  Kept'
<1>1. ASSUME NEW j \in Jobs, NEW v, Carries(j, v)
      PROVE  Keeps(j, v)'
  <2>1. Keeps(j, v)
    BY <1>1 DEF Carries, Kept
  <2>2. \A r \in Reads : call'[r].at = "waits" /\ call'[r].job = j => Since(call'[r].need, v)
    BY <2>1 DEF Keeps
  <2>3. job'[j].at # "settled" /\ job'[j].gen = generation' =>
          /\ (job'[j].at = "replied" => job'[j].writeGen = writeGen') => heard'[1] <= v.db
          /\ job'[j].epoch = epoch' => heard'[2] <= v.files
    BY <1>1, <2>1
  <2> QED
    BY <2>2, <2>3 DEF Keeps, Since
<1> SUFFICES ASSUME NEW j \in Jobs
             PROVE  /\ Plain(job'[j].value) => Keeps(j, job[j].value)'
                    /\ call'[j].at = "answered" /\ call'[j].value.kind = "core" => Keeps(j, call[j].value)'
                    /\ call'[j].at = "waits" /\ job'[call'[j].job].value.kind = "core" =>
                         Keeps(j, job[call[j].job].value)'
  BY DEF Kept, Plain
<1>2. PICK u : u = job[j].value
  OBVIOUS
<1>3. PICK v : v = call[j].value
  OBVIOUS
<1>4. PICK w : w = job[call[j].job].value
  OBVIOUS
<1>5. /\ Plain(u) => Keeps(j, u)'
      /\ call[j].at = "answered" /\ v.kind = "core" => Keeps(j, v)'
      /\ call[j].at = "waits" /\ w.kind = "core" => Keeps(j, w)'
  BY <1>1, <1>2, <1>3, <1>4 DEF Carries
<1>6. job'[j].value = u /\ call'[j].value = v /\ job'[call'[j].job].value = w
  BY <1>2, <1>3, <1>4
<1> QED
  BY <1>5, <1>6

\* While nothing that has read here is held, only replies of the worker are.
LEMMA HeldCarries ==
  ASSUME Types, Sound, Current, NEW j \in Jobs, NEW v, Carries(j, v),
         job[j].at # "settled", job[j].gen = generation, HeldHere = {}
  PROVE  job[j].at = "replied"
<1>1. \A i \in Jobs : job[i].gen = generation =>
        /\ job[i].at # "loaded" /\ call[i].at # "answered"
        /\ \A n \in Jobs \ Unsettled : i \notin Awaiting(n)
  BY DEF HeldHere
<1>2. NoValue.kind = "none" /\ ~Plain(NoValue)
  BY DEF NoValue, Plain
<1>3. CASE v = job[j].value /\ Plain(v)
  <2>1. job[j].at \in {"settled", "posted", "replied", "timer", "loaded"}
    BY DEF Types, Refreshes, JobRecs
  <2> QED
    BY <1>1, <1>2, <1>3, <2>1 DEF Sound, Unread
<1>4. CASE call[j].at = "waits" /\ v = job[call[j].job].value /\ v.kind = "core"
  <2>1. PICK n \in Jobs : n = call[j].job
    BY <1>4 DEF Types, CallsMade, Callers
  <2>2. j \in Callers /\ job[n].at \in {"settled", "posted", "replied", "timer", "loaded"}
    BY DEF Types, Refreshes, JobRecs, Callers
  <2>3. job[n].at # "settled"
    BY <1>1, <1>4, <2>1, <2>2 DEF Unsettled, Awaiting
  <2>4. job[n].at = "loaded"
    BY <1>2, <1>4, <2>1, <2>2, <2>3 DEF Sound, Unread, Current, LoadsOfKind
  <2>5. job[n].gen = call[j].gen /\ job[j].gen <= call[j].gen /\ call[j].gen <= generation
    BY <1>4, <2>1, <2>2, <2>3 DEF Current, Matched, Sound, Gens
  <2>6. call[j].gen \in Nat /\ generation \in Nat
    BY <2>2 DEF Types, CallsMade, CallRecs, Counters
  <2>7. job[n].gen = generation
    BY <2>5, <2>6
  <2> QED
    BY <1>1, <2>4, <2>7
<1> QED
  BY <1>1, <1>3, <1>4 DEF Carries

LEMMA HeldNothing ==
  ASSUME Types, Sound, Current, NEW j \in Jobs, NEW v, Carries(j, v),
         job[j].at # "settled", job[j].gen = generation
  PROVE  Held # {}
<1>1. CASE HeldHere = {}
  BY <1>1, HeldCarries DEF Held
<1> QED
  BY <1>1 DEF Held

\* What no change touches.
LEMMA ChangesKeepCalls ==
  ASSUME Types, Types', Sound, Current, UNCHANGED <<job, call>>, answer' = NoAnswer,
         Below(heard, heard'), Below(heard', <<db', files'>>),
         \/ \A k \in Keys : buckets'[k] = {}
         \/ /\ generation' = generation
            /\ \A k \in Keys : \A e \in buckets'[k] : \E f \in buckets[k] : e.value = f.value
  PROVE  HeardIsPast' /\ EntriesOfKind' /\ LoadsOfKind' /\ Matched' /\ StoredIsOwn' /\ AnswersAreCurrent'
<1>1. HeardIsPast'
  <2>1. \A c \in Callers : call[c].need \in Pairs /\ heard \in Pairs /\ heard' \in Pairs
    BY DEF Types, CallsMade, CallRecs, Counters
  <2>2. \A c \in Callers : Below(call[c].need, heard')
    BY <2>1, BelowTransitive DEF Current, HeardIsPast
  <2> QED
    BY <2>2 DEF HeardIsPast, Below
<1>2. EntriesOfKind'
  BY DEF Current, EntriesOfKind
<1>3. LoadsOfKind' /\ Matched'
  BY DEF Current, LoadsOfKind, Matched
<1>4. StoredIsOwn'
  <2> SUFFICES ASSUME NEW c \in Callers, call[c].at = "waits", call[c].gen = generation',
                      job[call[c].job].at = "settled", job[call[c].job].value # NoValue,
                      NEW e \in buckets'[call[c].key]
               PROVE  e.value = job[call[c].job].value
    BY DEF StoredIsOwn
  <2>1. call[c].key \in Keys
    BY DEF Types, CallsMade, CallRecs
  <2> QED
    BY <2>1 DEF Current, StoredIsOwn
<1> QED
  BY <1>1, <1>2, <1>3, <1>4, NothingAnswered

LEMMA ChangesCurrent ==
  ASSUME Types, Types', Sound, Ages, Current, Changes
  PROVE  Current' /\ AnswersAreCurrent'
<1>1. UNCHANGED <<job, call>> /\ answer' = NoAnswer
  BY DEF Changes, OwnCommit, OtherCommit, FileChange, Signal, Unhealthy, Clear, refresh
<1>2. /\ db \in Nat /\ files \in Nat /\ epoch \in Nat /\ writeGen \in Nat /\ dataVersion \in Nat
      /\ generation \in Nat /\ heard \in Pairs /\ heard[1] \in Nat /\ heard[2] \in Nat
      /\ heard[1] <= db /\ heard[2] <= files
  <2>1. /\ db \in Upto /\ files \in Upto /\ writeGen \in Upto /\ dataVersion \in Upto
        /\ epoch \in Nat /\ generation \in Nat /\ heard \in Upto \X Upto
    BY DEF Types, Counters, Pairs
  <2>2. heard[1] <= db /\ heard[2] <= files
    BY DEF Current, HeardIsPast, Below
  <2> QED
    BY <2>1, <2>2, UptoIsNat DEF Pairs
<1>3. ASSUME NEW k \in Keys, NEW e \in buckets[k]
      PROVE  /\ e \in EntryRecs /\ e.epoch \in Nat /\ e.writeGen \in Nat /\ e.dataVersion \in Nat
             /\ e.sig # NoSig => e.sig \in Nat
             /\ e.epoch <= epoch /\ e.writeGen <= writeGen /\ e.dataVersion <= dataVersion
             /\ e.sig # NoSig => e.sig <= files
             /\ Plain(e.value) /\ ~DbMoved(e) => heard[1] <= e.value.db
             /\ Plain(e.value) /\ IsCurrent(e) => heard[2] <= e.value.files
  <2>1. e \in EntryRecs
    BY <1>3 DEF Types, Cached
  <2>2. /\ e.epoch \in Nat /\ e.writeGen \in Nat /\ e.dataVersion \in Nat
        /\ e.sig # NoSig => e.sig \in Nat
    BY <2>1, UptoIsNat DEF EntryRecs
  <2> QED
    BY <1>3, <2>1, <2>2 DEF Current, Aged, Fetched
<1>4. ASSUME NEW j \in Jobs
      PROVE  /\ job[j].epoch \in Nat /\ job[j].writeGen \in Nat /\ job[j].gen \in Nat
             /\ job[j].epoch <= epoch /\ job[j].writeGen <= writeGen /\ job[j].gen <= generation
  BY UptoIsNat DEF Types, Refreshes, JobRecs, Ages, Sound, Gens
<1>5. Kept
  BY DEF Current
<1>6. ASSUME Below(heard, heard'), Below(heard', <<db', files'>>), Aged', Fetched', Kept',
             \/ \A k \in Keys : buckets'[k] = {}
             \/ /\ generation' = generation
                /\ \A k \in Keys : \A e \in buckets'[k] : \E f \in buckets[k] : e.value = f.value
      PROVE  Current' /\ AnswersAreCurrent'
  BY <1>1, <1>6, ChangesKeepCalls DEF Current
<1>7. CASE OwnCommit
  <2>1. /\ db' = db + 1 /\ writeGen' = writeGen + 1
        /\ UNCHANGED <<files, dataVersion, epoch, generation, watchersHealthy, buckets>>
        /\ heard' = heard \/ (HeldHere = {} /\ heard' = <<db + 1, heard[2]>>)
    BY <1>7 DEF OwnCommit
  <2>2. Below(heard, heard') /\ Below(heard', <<db', files'>>) /\ heard'[2] = heard[2]
    BY <1>2, <2>1 DEF Below
  <2>3. Aged'
    BY <1>2, <1>3, <2>1 DEF Aged
  <2>4. Fetched'
    BY <1>2, <1>3, <2>1, <2>2 DEF Fetched, DbMoved, IsCurrent
  <2>5. ASSUME NEW j \in Jobs, NEW v, Carries(j, v), Keeps(j, v),
               job[j].at # "settled", job[j].gen = generation'
        PROVE  /\ (job[j].at = "replied" => job[j].writeGen = writeGen') => heard'[1] <= v.db
               /\ job[j].epoch = epoch' => heard'[2] <= v.files
    <3>1. job[j].writeGen # writeGen'
      BY <1>2, <1>4, <2>1
    <3>2. job[j].at = "replied" \/ heard' = heard
      BY <2>1, <2>5, HeldCarries
    <3>3. job[j].at # "replied" => heard[1] <= v.db
      BY <2>1, <2>5 DEF Keeps
    <3>4. job[j].epoch = epoch' => heard[2] <= v.files
      BY <2>1, <2>5 DEF Keeps
    <3> QED
      BY <2>2, <3>1, <3>2, <3>3, <3>4
  <2>6. Kept'
    BY <1>1, <1>5, <2>5, KeptAlong
  <2> QED
    BY <1>6, <2>1, <2>2, <2>3, <2>4, <2>6
<1>8. CASE OtherCommit
  <2>1. /\ db' = db + 1 /\ dataVersion' = dataVersion + 1
        /\ UNCHANGED <<files, writeGen, epoch, generation, watchersHealthy, buckets>>
        /\ heard' = heard \/ (Held = {} /\ heard' = <<db + 1, heard[2]>>)
    BY <1>8 DEF OtherCommit
  <2>2. Below(heard, heard') /\ Below(heard', <<db', files'>>) /\ heard'[2] = heard[2]
    BY <1>2, <2>1 DEF Below
  <2>3. Aged'
    BY <1>2, <1>3, <2>1 DEF Aged
  <2>4. Fetched'
    BY <1>2, <1>3, <2>1, <2>2 DEF Fetched, DbMoved, IsCurrent
  <2>5. ASSUME NEW j \in Jobs, NEW v, Carries(j, v), Keeps(j, v),
               job[j].at # "settled", job[j].gen = generation'
        PROVE  /\ (job[j].at = "replied" => job[j].writeGen = writeGen') => heard'[1] <= v.db
               /\ job[j].epoch = epoch' => heard'[2] <= v.files
    <3>1. heard' = heard
      BY <2>1, <2>5, HeldNothing
    <3> QED
      BY <2>1, <2>5, <3>1 DEF Keeps
  <2>6. Kept'
    BY <1>1, <1>5, <2>5, KeptAlong
  <2> QED
    BY <1>6, <2>1, <2>2, <2>3, <2>4, <2>6
<1>9. CASE FileChange
  <2>1. /\ files' = files + 1
        /\ UNCHANGED <<db, writeGen, dataVersion, epoch, generation, watchersHealthy, buckets>>
        /\ heard' = heard \/ (~watchersHealthy /\ Held = {} /\ heard' = <<heard[1], files + 1>>)
    BY <1>9 DEF FileChange, cache
  <2>2. Below(heard, heard') /\ Below(heard', <<db', files'>>) /\ heard'[1] = heard[1]
    BY <1>2, <2>1 DEF Below
  <2>3. Aged'
    BY <1>2, <1>3, <2>1 DEF Aged
  <2>4. Fetched'
    <3> SUFFICES ASSUME NEW k \in Keys, NEW e \in buckets'[k], Plain(e.value)
                 PROVE  /\ ~DbMoved(e)' => heard'[1] <= e.value.db
                        /\ IsCurrent(e)' => heard'[2] <= e.value.files
      BY DEF Fetched
    <3>1. e \in buckets[k]
      BY <2>1
    <3>2. ~DbMoved(e)' => heard'[1] <= e.value.db
      BY <1>3, <2>1, <2>2, <3>1 DEF DbMoved
    <3>3. e.sig # files + 1
      BY <1>2, <1>3, <3>1, SigAssumption
    <3>4. IsCurrent(e)' => heard'[2] <= e.value.files
      BY <1>3, <2>1, <3>1, <3>3 DEF IsCurrent
    <3> QED
      BY <3>2, <3>4
  <2>5. ASSUME NEW j \in Jobs, NEW v, Carries(j, v), Keeps(j, v),
               job[j].at # "settled", job[j].gen = generation'
        PROVE  /\ (job[j].at = "replied" => job[j].writeGen = writeGen') => heard'[1] <= v.db
               /\ job[j].epoch = epoch' => heard'[2] <= v.files
    <3>1. heard' = heard
      BY <2>1, <2>5, HeldNothing
    <3> QED
      BY <2>1, <2>5, <3>1 DEF Keeps
  <2>6. Kept'
    BY <1>1, <1>5, <2>5, KeptAlong
  <2> QED
    BY <1>6, <2>1, <2>2, <2>3, <2>4, <2>6
<1>10. ASSUME NEW i \in signals, Signal(i)
       PROVE  Current' /\ AnswersAreCurrent'
  <2>1. /\ epoch' = epoch + 1
        /\ UNCHANGED <<db, files, writeGen, dataVersion, generation, watchersHealthy, buckets>>
        /\ heard' = heard \/ (i > heard[2] /\ heard' = <<heard[1], i>>)
    BY <1>10 DEF Signal
  <2>2. i \in Nat /\ i <= files
    BY <1>2 DEF Types, Counters
  <2>3. Below(heard, heard') /\ Below(heard', <<db', files'>>) /\ heard'[1] = heard[1]
    BY <1>2, <2>1, <2>2 DEF Below
  <2>4. Aged'
    BY <1>2, <1>3, <2>1 DEF Aged
  <2>5. Fetched'
    BY <1>2, <1>3, <2>1, <2>3 DEF Fetched, DbMoved, IsCurrent
  <2>6. ASSUME NEW j \in Jobs, NEW v, Carries(j, v), Keeps(j, v),
               job[j].at # "settled", job[j].gen = generation'
        PROVE  /\ (job[j].at = "replied" => job[j].writeGen = writeGen') => heard'[1] <= v.db
               /\ job[j].epoch = epoch' => heard'[2] <= v.files
    <3>1. job[j].epoch # epoch'
      BY <1>2, <1>4, <2>1
    <3> QED
      BY <2>1, <2>3, <2>6, <3>1 DEF Keeps
  <2>7. Kept'
    BY <1>1, <1>5, <2>6, KeptAlong
  <2> QED
    BY <1>6, <2>1, <2>3, <2>4, <2>5, <2>7
<1>11. CASE Unhealthy
  <2>1. /\ watchersHealthy /\ UNCHANGED <<db, files, writeGen, dataVersion, epoch, generation, heard>>
        /\ \A k \in Keys : buckets'[k] = {IF e.sig = NoSig THEN [e EXCEPT !.sig = files] ELSE e : e \in buckets[k]}
    BY <1>11 DEF Unhealthy, source, history
  <2>2. Below(heard, heard') /\ Below(heard', <<db', files'>>)
    BY <1>2, <2>1 DEF Below
  <2>3. ASSUME NEW k \in Keys, NEW e \in buckets'[k]
        PROVE  \E f \in buckets[k] : /\ e.value = f.value /\ e.epoch = f.epoch
                                     /\ e.writeGen = f.writeGen /\ e.dataVersion = f.dataVersion
                                     /\ e.sig = IF f.sig = NoSig THEN files ELSE f.sig
    <3>1. PICK f \in buckets[k] : e = IF f.sig = NoSig THEN [f EXCEPT !.sig = files] ELSE f
      BY <2>1, <2>3
    <3>2. f \in EntryRecs
      BY <1>3
    <3> QED
      BY <3>1, <3>2 DEF EntryRecs
  <2>4. Aged'
    BY <1>2, <1>3, <2>1, <2>3 DEF Aged
  <2>5. Fetched'
    <3> SUFFICES ASSUME NEW k \in Keys, NEW e \in buckets'[k], Plain(e.value)
                 PROVE  /\ ~DbMoved(e)' => heard'[1] <= e.value.db
                        /\ IsCurrent(e)' => heard'[2] <= e.value.files
      BY DEF Fetched
    <3>1. PICK f \in buckets[k] : /\ e.value = f.value /\ e.epoch = f.epoch
                                  /\ e.writeGen = f.writeGen /\ e.dataVersion = f.dataVersion
      BY <2>3
    <3>2. /\ ~DbMoved(e)' => ~DbMoved(f)
          /\ IsCurrent(e)' => IsCurrent(f)
      BY <2>1, <3>1 DEF DbMoved, IsCurrent
    <3> QED
      BY <1>3, <2>1, <3>1, <3>2
  <2>6. ASSUME NEW j \in Jobs, NEW v, Carries(j, v), Keeps(j, v),
               job[j].at # "settled", job[j].gen = generation'
        PROVE  /\ (job[j].at = "replied" => job[j].writeGen = writeGen') => heard'[1] <= v.db
               /\ job[j].epoch = epoch' => heard'[2] <= v.files
    BY <2>1, <2>6 DEF Keeps
  <2>7. Kept'
    BY <1>1, <1>5, <2>6, KeptAlong
  <2>8. \A k \in Keys : \A e \in buckets'[k] : \E f \in buckets[k] : e.value = f.value
    BY <2>3
  <2> QED
    BY <1>6, <2>1, <2>2, <2>4, <2>5, <2>7, <2>8
<1>12. CASE Clear
  <2>1. /\ generation' = generation + 1 /\ UNCHANGED <<db, files>> /\ heard' = <<db, files>>
        /\ \A k \in Keys : buckets'[k] = {}
    BY <1>12 DEF Clear, source
  <2>2. Below(heard, heard') /\ Below(heard', <<db', files'>>)
    BY <1>2, <2>1 DEF Below
  <2>3. Aged' /\ Fetched'
    BY <2>1 DEF Aged, Fetched
  <2>4. ASSUME NEW j \in Jobs, NEW v, Carries(j, v), Keeps(j, v),
               job[j].at # "settled", job[j].gen = generation'
        PROVE  /\ (job[j].at = "replied" => job[j].writeGen = writeGen') => heard'[1] <= v.db
               /\ job[j].epoch = epoch' => heard'[2] <= v.files
    BY <1>2, <1>4, <2>1, <2>4
  <2>5. Kept'
    BY <1>1, <1>5, <2>4, KeptAlong
  <2> QED
    BY <1>6, <2>1, <2>2, <2>3, <2>5
<1> QED
  BY <1>7, <1>8, <1>9, <1>10, <1>11, <1>12 DEF Changes

-----------------------------------------------------------------------------
(* The theorem *)

LEMMA CurrentInitially == Init => Tidy /\ Current /\ AnswersAreCurrent
<1> SUFFICES ASSUME Init
             PROVE  Tidy /\ Current /\ AnswersAreCurrent
  OBVIOUS
<1>1. /\ job = [j \in Jobs |-> Settled(NoValue)] /\ call = [c \in Callers |-> Idle]
      /\ buckets = [k \in Keys |-> {}] /\ inflight = [k \in Keys |-> {}] /\ queue = <<>>
      /\ db = 0 /\ files = 0 /\ epoch = 0 /\ writeGen = 0 /\ heard = <<0, 0>> /\ answer = NoAnswer
  BY DEF Init
<1>2. /\ \A j \in Jobs : job[j].at = "settled" /\ job[j].epoch = 0 /\ job[j].writeGen = 0
                         /\ job[j].value = NoValue
      /\ \A c \in Callers : call[c].at = "idle" /\ call[c].need = <<0, 0>>
  BY <1>1 DEF Settled, Idle
<1>3. Tidy
  BY <1>1, <1>2, NoAnswerTyped DEF Tidy, Single, Flights, Queued, Ages
<1>4. HeardIsPast
  BY <1>1, <1>2 DEF HeardIsPast, Below
<1>5. Aged /\ Fetched /\ EntriesOfKind /\ StoredIsOwn
  BY <1>1, <1>2 DEF Aged, Fetched, EntriesOfKind, StoredIsOwn
<1>6. LoadsOfKind /\ Matched
  BY <1>2 DEF LoadsOfKind, Matched, Callers
<1>7. Kept
  <2>1. ~Plain(NoValue)
    BY DEF Plain, NoValue
  <2> QED
    BY <1>2, <2>1 DEF Kept, Callers
<1>8. AnswersAreCurrent
  <2>1. answer.value = NoValue
    BY <1>1 DEF NoAnswer
  <2> QED
    BY <2>1 DEF AnswersAreCurrent, Answered
<1> QED
  BY <1>3, <1>4, <1>5, <1>6, <1>7, <1>8 DEF Current

LEMMA CurrentStutter ==
  ASSUME Current, AnswersAreCurrent, UNCHANGED vars
  PROVE  Current' /\ AnswersAreCurrent'
<1>1. UNCHANGED <<db, files, heard, epoch, writeGen, dataVersion, watchersHealthy, generation, buckets,
                  job, call, answer>>
  BY DEF vars, source, cache, refresh, history
<1>2. HeardIsPast' /\ Aged' /\ EntriesOfKind' /\ LoadsOfKind' /\ Matched' /\ StoredIsOwn'
  BY <1>1 DEF Current, HeardIsPast, Below, Aged, EntriesOfKind, LoadsOfKind, Matched, StoredIsOwn
<1>3. Fetched'
  BY <1>1 DEF Current, Fetched, DbMoved, IsCurrent
<1>4. Kept'
  BY <1>1 DEF Current, Kept, Keeps, Since
<1> QED
  BY <1>1, <1>2, <1>3, <1>4 DEF Current, AnswersAreCurrent, Answered

LEMMA CurrentStep ==
  ASSUME Inv, Inv', Tidy, Current, AnswersAreCurrent, [Next]_vars
  PROVE  Current' /\ AnswersAreCurrent'
<1>1. Types /\ Types' /\ Work /\ Work' /\ Sound /\ Ages
  BY DEF Inv, Tidy
<1>2. ASSUME NEW r \in Reads, NEW k \in Outer, Read(r, k)
      PROVE  Current' /\ AnswersAreCurrent'
  <2>1. r \in Callers /\ r \notin Jobs /\ k \in Keys /\ k # Core
    BY JobsAreNat, KeysAssumption DEF Callers, Keys
  <2>2. Hit(r, k) \/ Superseded(r, k) \/ Stale(r, k) \/ LoadsNow(r, k)
    BY <1>2 DEF Read
  <2>3. UNCHANGED <<db, files, heard, epoch, writeGen, dataVersion, watchersHealthy>>
    BY <1>2 DEF Read, source, history
  <2> QED
    BY <1>1, <2>1, <2>2, <2>3, AskedCurrent
<1>3. ASSUME NEW c \in Callers, Continues(c)
      PROVE  Current' /\ AnswersAreCurrent'
  BY <1>1, <1>3, JoinedCurrent, WaitedCurrent, NestedReturnsCurrent DEF Continues
<1>4. ASSUME NEW j \in Jobs, Works(j) \/ Runs(j)
      PROVE  Current' /\ AnswersAreCurrent'
  BY <1>1, <1>4, WorksCurrent, RunsCurrent
<1>5. CASE Dies
  BY <1>1, <1>5, DiesCurrent
<1>6. CASE Changes
  BY <1>1, <1>6, ChangesCurrent
<1>7. CASE UNCHANGED vars
  BY <1>7, CurrentStutter
<1> QED
  BY <1>2, <1>3, <1>4, <1>5, <1>6, <1>7 DEF Next

\* What withStatusReadCache promises its callers: an answer has every commit
\* the process could know of when it was asked for, and every change of a
\* watched file unless it says that it is being refreshed.
THEOREM AnswersKnowWhatWasHeard == Spec => []AnswersAreCurrent
<1> DEFINE I == Inv /\ Tidy /\ Current /\ AnswersAreCurrent
<1>1. Init => I
  BY Initially, CurrentInitially
<1>2. I /\ [Next]_vars => I'
  <2> SUFFICES ASSUME I, [Next]_vars
               PROVE  I'
    OBVIOUS
  <2>1. Inv'
    BY Step
  <2>2. Tidy'
    BY <2>1, TidyAlong DEF Inv, Sound
  <2>3. Current' /\ AnswersAreCurrent'
    BY <2>1, CurrentStep
  <2> QED
    BY <2>1, <2>2, <2>3
<1> HIDE DEF I
<1>3. I => AnswersAreCurrent
  BY DEF I
<1> QED
  BY <1>1, <1>2, <1>3, PTL DEF Spec
=============================================================================
