------------------------ MODULE ProcessShardsProofs ------------------------
(***************************************************************************)
(* What TLAPS proves of ProcessShards, for any number of threads, any      *)
(* number and size of shards and any contents of the shards.               *)
(***************************************************************************)
EXTENDS ProcessShards, DataProofs

(* std::sort keeps the number of pairs and their type.                     *)
LEMMA SortingsType ==
  ASSUME NEW S, NEW s \in Seq(S), NEW t \in Sortings(s)
  PROVE  t \in Seq(S) /\ Len(t) = Len(s) /\ DOMAIN t = DOMAIN s
<1>1. PICK p \in Bijection(DOMAIN s, DOMAIN s) : t = [i \in DOMAIN s |-> s[p[i]]]
  BY DEF Sortings
<1>2. p \in [DOMAIN s -> DOMAIN s]
  BY DEF Bijection, Injection, Surjection
<1>3. t \in [1 .. Len(s) -> S]
  BY <1>1, <1>2
<1>4. QED
  BY <1>1, <1>3

(* A trigram is its shard and its place there.                             *)
LEMMA GramParts ==
  /\ \A g \in Gram : /\ ShardIndex(g) \in Shard /\ ShardOffset(g) \in Offset
                     /\ GramOf(ShardIndex(g), ShardOffset(g)) = g
  /\ \A s \in Shard, o \in Offset : /\ GramOf(s, o) \in Gram
                                    /\ ShardIndex(GramOf(s, o)) = s
                                    /\ ShardOffset(GramOf(s, o)) = o
<1>1. NumShards \in Nat /\ OffsetsPerShard \in Nat \ {0}
  BY ShardDataAssumption
<1> QED
  BY <1>1, HighAndLow, HighWithLow
  DEF Gram, Shard, Offset, ShardIndex, ShardOffset, GramOf

-----------------------------------------------------------------------------
(***************************************************************************)
(* The strengthening of TypeOK that is inductive: a worker past its first  *)
(* step holds a job that exists.                                           *)
(***************************************************************************)
Busy == {"count", "lock", "check", "wait", "write", "notify", "unlock"}

JobsExist ==
  /\ \A w \in Worker : pc[w] \in Busy => job[w] < NumJobs
  /\ main = "find" => \A w \in Worker : pc[w] = "take"

(* A worker that has counted something knows which trigram it counts.      *)
RunKnown ==
  \A w \in Worker :
    pc[w] = "count" /\ current_count[w] # 0 => last_shard_offset[w] # NoOffset

TypeInv == TypeOK /\ JobsExist /\ RunKnown

(* The pairs of a busy worker are the pairs of a shard.                    *)
LEMMA BusyTypes ==
  ASSUME TypeInv, NEW w \in Worker, pc[w] \in Busy
  PROVE  ShardOf(job[w]) \in Shard /\ Pairs(w) \in Seq(Pair)
BY DEF TypeInv, TypeOK, JobsExist, ShardOf, Pairs, NumJobs

(* A pair has a place within its shard and a line.                         *)
LEMMA PairFields ==
  ASSUME NEW p \in Pair
  PROVE  p.shard_offset \in Offset /\ p.line_id \in LineId
BY DEF Pair

(* A count is stored in the mapping as a number.                           *)
LEMMA StoreCountType ==
  ASSUME TypeInv, NEW w \in Worker, pc[w] \in Busy,
         last_shard_offset[w] # NoOffset, StoreCount(w)
  PROVE  mapping' \in [Gram -> [offset : Nat, count : Nat]]
<1>1. ShardOf(job[w]) \in Shard
  BY BusyTypes
<1>2. last_shard_offset[w] \in Offset /\ current_count[w] \in Nat
  BY DEF TypeInv, TypeOK
<1>3. GramOf(ShardOf(job[w]), last_shard_offset[w]) \in Gram
  BY <1>1, <1>2, GramParts
<1>4. mapping \in [Gram -> [offset : Nat, count : Nat]]
  BY DEF TypeInv, TypeOK
<1>5. QED
  BY <1>2, <1>3, <1>4 DEF StoreCount

(* The types hold at the start.                                            *)
LEMMA TypeInit == Init => TypeInv
BY ProcessShardsAssumption
   DEF Init, Idle, TypeInv, TypeOK, JobsExist, RunKnown, Busy, Worker, Shard, NoWorker, NoOffset

(* Every step keeps the types.                                             *)
LEMMA TypeStep == TypeInv /\ [Next]_vars => TypeInv'
<1> SUFFICES ASSUME TypeInv, [Next]_vars PROVE TypeInv'
  OBVIOUS
<1> USE DEF TypeInv, TypeOK, JobsExist, RunKnown, Busy, NumJobs, Goto, mainVars,
            countVars
<1>1. CASE FindShard
  <2>1. loop \in Shard
    BY <1>1, ShardDataAssumption DEF FindShard, Shard
  <2>2. non_empty_shards' \in Seq(Shard) /\ loop' \in Nat
    BY <1>1, <2>1 DEF FindShard
  <2> QED
    BY <1>1, <2>2 DEF FindShard
<1>2. CASE StartPool
  BY <1>2 DEF StartPool
<1>3. CASE Join
  BY <1>3 DEF Join
<1>4. CASE MapGram
  <2>1. loop \in Gram /\ mapping[loop].count \in Nat
    BY <1>4 DEF MapGram
  <2>2. mapping' \in [Gram -> [offset : Nat, count : Nat]] /\ total_count' \in Nat
    BY <1>4, <2>1 DEF MapGram
  <2>3. loop' \in Nat
    BY <1>4 DEF MapGram
  <2> QED
    BY <1>4, <2>2, <2>3 DEF MapGram
<1>5. CASE MapDone
  BY <1>5 DEF MapDone
<1>6. ASSUME NEW w \in Worker, Consolidate(w) PROVE TypeInv'
  <2>1. ShardOf(job[w]) \in Shard
    BY <1>6 DEF Consolidate, ShardOf
  <2>2. shards[ShardOf(job[w])] \in Seq(Pair)
    BY <2>1, ProcessShardsAssumption
  <2>3. PICK sorted \in Sortings(shards[ShardOf(job[w])]) :
          consolidated' = [consolidated EXCEPT ![ShardOf(job[w])] = sorted]
    BY <1>6 DEF Consolidate
  <2>4. consolidated' \in [Shard -> Seq(Pair)]
    BY <2>1, <2>2, <2>3, SortingsType
  <2> QED
    BY <1>6, <2>4 DEF Consolidate
<1>7. ASSUME NEW w \in Worker, CountPair(w) PROVE TypeInv'
  <2>1. pc[w] \in Busy /\ pair[w] \in DOMAIN Pairs(w)
    BY <1>7, BusyTypes DEF CountPair
  <2>2. Pairs(w)[pair[w]].shard_offset \in Offset
    BY <2>1, BusyTypes, PairFields
  <2>3. Pairs(w)[pair[w]].shard_offset # NoOffset
    BY <2>2, ShardDataAssumption DEF Offset, NoOffset
  <2>4. mapping' \in [Gram -> [offset : Nat, count : Nat]]
    BY <1>7, <2>1, StoreCountType DEF CountPair
  <2>5. /\ last_shard_offset' \in [Worker -> Offset \cup {NoOffset}]
        /\ current_count' \in [Worker -> Nat]
        /\ pair' \in [Worker -> Nat \ {0}]
    <3>1. PICK n \in Nat : current_count' = [current_count EXCEPT ![w] = n]
      <4> DEFINE newRun == last_shard_offset[w] # NoOffset /\ last_shard_offset[w] # Pairs(w)[pair[w]].shard_offset
                 n == IF newRun THEN 1 ELSE current_count[w] + 1
      <4>1. n \in Nat
        OBVIOUS
      <4>2. current_count' = [current_count EXCEPT ![w] = n]
        BY <1>7 DEF CountPair
      <4> QED
        BY <4>1, <4>2
    <3>2. /\ last_shard_offset' = [last_shard_offset EXCEPT ![w] = Pairs(w)[pair[w]].shard_offset]
          /\ pair' = [pair EXCEPT ![w] = @ + 1]
      BY <1>7 DEF CountPair
    <3>3. last_shard_offset' \in [Worker -> Offset \cup {NoOffset}]
      BY <2>2, <3>2
    <3>4. current_count' \in [Worker -> Nat]
      BY <3>1
    <3>5. pair' \in [Worker -> Nat \ {0}]
      BY <3>2
    <3> QED
      BY <3>3, <3>4, <3>5
  <2>6. RunKnown'
    BY <1>7, <2>3 DEF CountPair
  <2> QED
    BY <1>7, <2>4, <2>5, <2>6 DEF CountPair
<1>8. ASSUME NEW w \in Worker, CountLast(w) PROVE TypeInv'
  <2>1. mapping' \in [Gram -> [offset : Nat, count : Nat]]
    BY <1>8, StoreCountType DEF CountLast
  <2> QED
    BY <1>8, <2>1 DEF CountLast
<1>9. ASSUME NEW w \in Worker, Lock(w) PROVE TypeInv'
  BY <1>9 DEF Lock
<1>10. ASSUME NEW w \in Worker, Turn(w) PROVE TypeInv'
  BY <1>10 DEF Turn
<1>11. ASSUME NEW w \in Worker, Wait(w) PROVE TypeInv'
  BY <1>11 DEF Wait
<1>12. ASSUME NEW w \in Worker, SpuriousWakeup(w) PROVE TypeInv'
  BY <1>12 DEF SpuriousWakeup
<1>13. ASSUME NEW w \in Worker, Write(w) PROVE TypeInv'
  <2>1. ShardOf(job[w]) \in Shard /\ Pairs(w) \in Seq(Pair)
    BY <1>13, BusyTypes DEF Write
  <2>0. pair[w] \in DOMAIN Pairs(w)
    BY <1>13, <2>1 DEF Write
  <2>2. Entry(w) \in Record
    BY <2>1, <2>0, PairFields DEF Entry, Record
  <2>3. index_file' \in Seq(Record) /\ pair' \in [Worker -> Nat \ {0}]
    BY <1>13, <2>2 DEF Write
  <2> QED
    BY <1>13, <2>3 DEF Write
<1>14. ASSUME NEW w \in Worker, Advance(w) PROVE TypeInv'
  BY <1>14 DEF Advance
<1>15. ASSUME NEW w \in Worker, NotifyAll(w) PROVE TypeInv'
  BY <1>15 DEF NotifyAll
<1>16. ASSUME NEW w \in Worker, Unlock(w) PROVE TypeInv'
  <2>1. holder' \in Worker \cup {NoWorker} /\ job' \in [Worker -> Nat]
    BY <1>16, ProcessShardsAssumption DEF Unlock
  <2> QED
    BY <1>16, <2>1 DEF Unlock
<1>17. ASSUME NEW w \in Worker, Return(w) PROVE TypeInv'
  BY <1>17 DEF Return
<1>18. CASE UNCHANGED vars
  BY <1>18 DEF vars, mainVars, countVars
<1> QED
  BY <1>1, <1>2, <1>3, <1>4, <1>5, <1>6, <1>7, <1>8, <1>9, <1>10, <1>11, <1>12, <1>13, <1>14, <1>15, <1>16, <1>17, <1>18
  DEF Next, MainStep, WorkerStep, Terminated

(* Every variable keeps its type.                                          *)
THEOREM ProcessShardsTypeOK == Spec => []TypeOK
<1>1. TypeInv => TypeOK
  BY DEF TypeInv
<1>2. QED
  BY TypeInit, TypeStep, <1>1, PTL DEF Spec

-----------------------------------------------------------------------------
(***************************************************************************)
(* The inductive invariant behind the properties, in its parts.            *)
(***************************************************************************)

(* non_empty_shards lists, in ascending order, the non-empty shards that   *)
(* the scan has passed.                                                    *)
Listed ==
  /\ main = "find" => loop <= NumShards
  /\ \A i \in DOMAIN non_empty_shards :
       /\ shards[non_empty_shards[i]] # <<>>
       /\ main = "find" => non_empty_shards[i] < loop
  /\ \A i, j \in DOMAIN non_empty_shards :
       i < j => non_empty_shards[i] < non_empty_shards[j]
  /\ \A s \in Shard :
       shards[s] # <<>> /\ (main = "find" => s < loop)
         => \E i \in DOMAIN non_empty_shards : non_empty_shards[i] = s

(* The mutex is held by the worker that is inside it.                      *)
Inside == {"check", "write", "notify", "unlock"}

Locked == \A w \in Worker : pc[w] \in Inside <=> holder = w

(* A worker is ahead of the turn until it has taken it, and of two workers *)
(* the lower one is in the same round of jobs as the other or one ahead.   *)
Turns ==
  /\ current_job <= NumJobs
  /\ \A w \in Worker :
       /\ pc[w] = "write" => job[w] = current_job
       /\ pc[w] \in {"notify", "unlock"} => job[w] + 1 = current_job
       /\ pc[w] \notin {"write", "notify", "unlock"} => job[w] >= current_job
  /\ \A v, w \in Worker :
       v < w => job[w] - job[v] \in {w - v, w - v - NumThreads}

(* A shard is sorted by its worker, once, when the worker takes it.        *)
Blocks ==
  /\ main = "find" => \A s \in Shard : consolidated[s] = <<>>
  /\ \A s \in Shard :
       consolidated[s] # <<>> => consolidated[s] \in Sortings(shards[s])
  /\ \A w \in Worker : pc[w] \in Busy => Pairs(w) # <<>>
  /\ \A i \in 0 .. NumJobs - 1 :
       i >= current_job /\ (\A w \in Worker : job[w] = i => pc[w] = "take")
         => consolidated[ShardOf(i)] = <<>>

(* The file ends where the writer is in its shard, or, with no shard begun,*)
(* with the last record of the shard whose turn it was before.             *)
EndsAt(s, k) ==
  /\ index_file # <<>>
  /\ index_file[Len(index_file)].shard = s
  /\ index_file[Len(index_file)].pos = k

Begun(w) == pc[w] = "write" /\ pair[w] > 1

FileEnd ==
  /\ \A w \in Worker : pc[w] = "write" => pair[w] <= Len(Pairs(w)) + 1
  /\ \A w \in Worker : Begun(w) => EndsAt(ShardOf(job[w]), pair[w] - 1)
  /\ (\A w \in Worker : ~Begun(w)) =>
       IF current_job = 0 THEN index_file = <<>>
       ELSE EndsAt(ShardOf(current_job - 1), Len(shards[ShardOf(current_job - 1)]))

IInv == TypeInv /\ Listed /\ Locked /\ Turns /\ Blocks /\ FileEnd

(* Workers are numbers.                                                    *)
LEMMA WorkerInt == \A w \in Worker : w \in Int /\ 0 <= w /\ w < NumThreads
BY ProcessShardsAssumption DEF Worker

(* No two workers have the same job.                                       *)
LEMMA JobsDiffer ==
  ASSUME TypeInv, Turns, NEW v \in Worker, NEW w \in Worker, job[v] = job[w]
  PROVE  v = w
<1>1. job[v] \in Nat /\ job[w] \in Nat
  BY DEF TypeInv, TypeOK
<1>2. ASSUME NEW a \in Worker, NEW b \in Worker, a < b, job[a] = job[b] PROVE FALSE
  <2>1. job[b] - job[a] \in {b - a, b - a - NumThreads}
    BY <1>2 DEF Turns
  <2>2. job[b] - job[a] = 0
    BY <1>2 DEF TypeInv, TypeOK
  <2> QED
    BY <1>2, <2>1, <2>2, WorkerInt, ProcessShardsAssumption
<1> QED
  BY <1>2, WorkerInt

(* The scan appends the shards that are not empty, in their order.         *)
LEMMA ListedStep == TypeInv /\ Listed /\ [Next]_vars => Listed'
<1> SUFFICES ASSUME TypeInv, Listed, [Next]_vars PROVE Listed'
  OBVIOUS
<1>1. CASE FindShard
  <2>1. loop \in Shard /\ non_empty_shards \in Seq(Shard) /\ shards[loop] \in Seq(Pair)
    BY <1>1, ShardDataAssumption, ProcessShardsAssumption
       DEF FindShard, TypeInv, TypeOK, Shard
  <2>2. loop + 1 <= NumShards /\ loop \in Int /\ \A s \in Shard : s \in Int
    BY <1>1, ShardDataAssumption DEF FindShard, TypeInv, TypeOK, Shard
  <2>3. CASE Len(shards[loop]) = 0
    <3>1. non_empty_shards' = non_empty_shards /\ loop' = loop + 1
          /\ main = "find" /\ main' = "find" /\ shards' = shards
      BY <1>1, <2>3 DEF FindShard
    <3>2. shards[loop] = <<>>
      BY <2>1, <2>3
    <3>3. \A i \in DOMAIN non_empty_shards : non_empty_shards[i] \in Int
      BY <2>1, ShardDataAssumption DEF Shard
    <3>4. \A s \in Shard : shards[s] # <<>> /\ s < loop + 1 => s < loop
      BY <2>1, <2>2, <3>2
    <3> QED
      BY <2>2, <3>1, <3>3, <3>4 DEF Listed
  <2>4. CASE Len(shards[loop]) # 0
    <3>1. non_empty_shards' = Append(non_empty_shards, loop) /\ loop' = loop + 1
          /\ main = "find" /\ main' = "find" /\ shards' = shards
      BY <1>1, <2>4 DEF FindShard
    <3>2. DOMAIN non_empty_shards' = 1 .. Len(non_empty_shards) + 1
      BY <2>1, <3>1
    <3>3. /\ \A i \in DOMAIN non_empty_shards : 
               non_empty_shards'[i] = non_empty_shards[i]
          /\ non_empty_shards'[Len(non_empty_shards) + 1] = loop
      BY <2>1, <3>1
    <3>4. shards[loop] # <<>>
      BY <2>4
    <3>0. \A i \in 1 .. Len(non_empty_shards) : non_empty_shards[i] \in Shard
      BY <2>1
    <3>5. /\ Len(non_empty_shards) \in Nat
          /\ \A i \in 1 .. Len(non_empty_shards) : non_empty_shards[i] \in Int
      BY <2>1, <3>0, ShardDataAssumption DEF Shard
    <3>6. \A i \in 1 .. Len(non_empty_shards) + 1 :
             i \in 1 .. Len(non_empty_shards) \/ i = Len(non_empty_shards) + 1
      BY <3>5
    <3>7. \A i \in DOMAIN non_empty_shards' :
             shards'[non_empty_shards'[i]] # <<>> /\ non_empty_shards'[i] < loop'
      BY <2>1, <2>2, <3>1, <3>2, <3>3, <3>4, <3>5, <3>6 DEF Listed
    <3>8. \A i, j \in DOMAIN non_empty_shards' :
             i < j => non_empty_shards'[i] < non_empty_shards'[j]
      BY <2>1, <2>2, <3>1, <3>2, <3>3, <3>5, <3>6 DEF Listed
    <3>9. ASSUME NEW s \in Shard, shards[s] # <<>>, s < loop + 1
          PROVE  \E i \in DOMAIN non_empty_shards' : non_empty_shards'[i] = s
      <4>1. CASE s = loop
        BY <3>2, <3>3, <3>5, <4>1
      <4>2. CASE s < loop
        BY <2>1, <3>1, <3>2, <3>3, <3>9, <4>2 DEF Listed
      <4> QED
        BY <2>2, <3>9, <4>1, <4>2
    <3> QED
      BY <2>2, <3>1, <3>7, <3>8, <3>9 DEF Listed
  <2> QED
    BY <2>3, <2>4
<1>2. CASE StartPool
  <2>1. \A s \in Shard : s < NumShards
    BY ShardDataAssumption DEF Shard
  <2> QED
    BY <1>2, <2>1 DEF StartPool, Listed
<1>3. CASE main # "find" /\ main' # "find" /\ UNCHANGED <<shards, non_empty_shards>>
  BY <1>3 DEF Listed
<1>4. CASE UNCHANGED <<shards, main, loop, non_empty_shards>>
  BY <1>4 DEF Listed
<1> QED
  BY <1>1, <1>2, <1>3, <1>4 
  DEF Next, MainStep, WorkerStep, Terminated, vars, mainVars, Join, MapGram, MapDone,
      Consolidate, CountPair, CountLast, Lock, Turn, Wait, SpuriousWakeup, Write,
      Advance, NotifyAll, Unlock, Return

(* The mutex belongs to the worker that is within the lock.                *)
LEMMA LockedStep == TypeInv /\ Locked /\ [Next]_vars => Locked'
<1> SUFFICES ASSUME TypeInv, Locked, [Next]_vars PROVE Locked'
  OBVIOUS
<1>1. NoWorker \notin Worker
  BY WorkerInt DEF NoWorker
<1> USE DEF TypeInv, TypeOK, Locked, Inside, Goto
<1>2. ASSUME NEW w \in Worker, Consolidate(w) PROVE Locked'
  BY <1>1, <1>2 DEF Consolidate
<1>3. ASSUME NEW w \in Worker, CountPair(w) PROVE Locked'
  BY <1>1, <1>3 DEF CountPair
<1>4. ASSUME NEW w \in Worker, CountLast(w) PROVE Locked'
  BY <1>1, <1>4 DEF CountLast
<1>5. ASSUME NEW w \in Worker, Lock(w) PROVE Locked'
  BY <1>1, <1>5 DEF Lock
<1>6. ASSUME NEW w \in Worker, Turn(w) PROVE Locked'
  BY <1>1, <1>6 DEF Turn
<1>7. ASSUME NEW w \in Worker, Wait(w) PROVE Locked'
  BY <1>1, <1>7 DEF Wait
<1>8. ASSUME NEW w \in Worker, SpuriousWakeup(w) PROVE Locked'
  BY <1>1, <1>8 DEF SpuriousWakeup
<1>9. ASSUME NEW w \in Worker, Write(w) PROVE Locked'
  BY <1>1, <1>9 DEF Write
<1>10. ASSUME NEW w \in Worker, Advance(w) PROVE Locked'
  BY <1>1, <1>10 DEF Advance
<1>11. ASSUME NEW w \in Worker, NotifyAll(w) PROVE Locked'
  BY <1>1, <1>11 DEF NotifyAll
<1>12. ASSUME NEW w \in Worker, Unlock(w) PROVE Locked'
  BY <1>1, <1>12 DEF Unlock
<1>13. ASSUME NEW w \in Worker, Return(w) PROVE Locked'
  BY <1>1, <1>13 DEF Return
<1>14. CASE UNCHANGED <<pc, holder>>
  BY <1>14
<1> QED
  BY <1>2, <1>3, <1>4, <1>5, <1>6, <1>7, <1>8, <1>9, <1>10, <1>11, <1>12, <1>13, <1>14
  DEF Next, MainStep, WorkerStep, Terminated, vars, FindShard, StartPool, Join, MapGram,
      MapDone

(* Two workers inside the mutex are one.                                   *)
LEMMA OneInside ==
  ASSUME Locked, NEW v \in Worker, NEW w \in Worker, pc[v] \in Inside, pc[w] \in Inside
  PROVE  v = w
BY DEF Locked

(* current_job moves on when the worker whose turn it is has finished.     *)
LEMMA TurnsStep == TypeInv /\ Locked /\ Turns /\ [Next]_vars => Turns'
<1> SUFFICES ASSUME TypeInv, Locked, Turns, [Next]_vars PROVE Turns'
  OBVIOUS
<1> USE DEF Goto
<1>1. CASE FindShard
  <2>1. NumJobs' \in Nat /\ NumJobs \in Nat /\ NumJobs <= NumJobs'
    BY <1>1 DEF FindShard, NumJobs, TypeInv, TypeOK
  <2> QED
    BY <1>1, <2>1 DEF FindShard, Turns, TypeInv, TypeOK
<1>2. ASSUME NEW w \in Worker, Turn(w) PROVE Turns'
  <2>1. /\ job[w] = current_job
        /\ \A v \in Worker : pc'[v] = IF v = w THEN "write" ELSE pc[v]
        /\ UNCHANGED <<job, current_job, non_empty_shards>>
    BY <1>2 DEF Turn, TypeInv, TypeOK, mainVars
  <2> QED
    BY <2>1 DEF Turns, NumJobs
<1>3. ASSUME NEW w \in Worker, Advance(w) PROVE Turns'
  <2>1. job[w] = current_job /\ current_job + 1 <= NumJobs /\ current_job' = current_job + 1
    BY <1>3 DEF Advance, Turns, TypeInv, TypeOK, JobsExist, Busy, NumJobs
  <2>2. ASSUME NEW v \in Worker, v # w
        PROVE  pc'[v] \notin {"write", "notify", "unlock"} /\ job[v] >= current_job + 1
    <3>1. pc[v] \notin Inside
      BY <1>3, <2>2, OneInside DEF Advance, Inside
    <3>2. job[v] # current_job
      BY <2>1, <2>2, JobsDiffer
    <3>3. pc'[v] = pc[v] /\ job[v] >= current_job
      BY <1>3, <2>2, <3>1 DEF Advance, Turns, Inside, TypeInv, TypeOK
    <3> QED
      BY <3>1, <3>2, <3>3 DEF Inside, TypeInv, TypeOK
  <2>3. /\ pc'[w] = "notify"
        /\ UNCHANGED <<job, non_empty_shards>>
    BY <1>3 DEF Advance, TypeInv, TypeOK, mainVars
  <2>4. current_job' <= NumJobs'
    BY <2>1, <2>3 DEF NumJobs
  <2>5. ASSUME NEW v \in Worker
        PROVE  /\ pc'[v] = "write" => job'[v] = current_job'
               /\ pc'[v] \in {"notify", "unlock"} => job'[v] + 1 = current_job'
               /\ pc'[v] \notin {"write", "notify", "unlock"} => job'[v] >= current_job'
    BY <2>1, <2>2, <2>3
  <2> QED
    BY <2>3, <2>4, <2>5 DEF Turns
<1>4. ASSUME NEW w \in Worker, NotifyAll(w) PROVE Turns'
  <2>1. /\ pc[w] = "notify"
        /\ \A v \in Worker : pc'[v] = IF v = w THEN "unlock"
                                      ELSE IF pc[v] = "wait" THEN "lock" ELSE pc[v]
        /\ UNCHANGED <<job, current_job, non_empty_shards>>
    BY <1>4 DEF NotifyAll, mainVars
  <2> QED
    BY <2>1 DEF Turns, NumJobs
<1>5. ASSUME NEW w \in Worker, Unlock(w) PROVE Turns'
  <2>1. job[w] + 1 = current_job /\ current_job' = current_job /\ NumJobs' = NumJobs
        /\ job' = [job EXCEPT ![w] = job[w] + NumThreads] /\ pc' = [pc EXCEPT ![w] = "take"]
    BY <1>5 DEF Unlock, Turns, NumJobs, mainVars
  <2>2. /\ \A v \in Worker : job[v] \in Nat
        /\ job \in [Worker -> Nat] /\ DOMAIN pc = Worker
        /\ current_job \in Nat /\ NumThreads \in Nat /\ NumThreads > 0
    BY ProcessShardsAssumption DEF TypeInv, TypeOK
  <2>3. \A v \in Worker : v # w => job[v] >= current_job
    BY <1>5, OneInside DEF Unlock, Turns, Inside
  <2>4. job'[w] >= current_job
    BY <2>1, <2>2
  <2>5. ASSUME NEW a \in Worker, NEW b \in Worker, a < b
        PROVE  job'[b] - job'[a] \in {b - a, b - a - NumThreads}
    <3>1. job[b] - job[a] \in {b - a, b - a - NumThreads}
      BY <2>5 DEF Turns
    <3>2. CASE a = w
      BY <2>1, <2>2, <2>3, <2>5, <3>1, <3>2, WorkerInt
    <3>3. CASE b = w
      BY <2>1, <2>2, <2>3, <2>5, <3>1, <3>3, WorkerInt
    <3>4. CASE a # w /\ b # w
      BY <2>1, <2>2, <3>1, <3>4
    <3> QED
      BY <3>2, <3>3, <3>4
  <2> QED
    BY <2>1, <2>2, <2>4, <2>5 DEF Turns
<1>6. ASSUME NEW w \in Worker,
             \/ Consolidate(w) \/ CountPair(w) \/ CountLast(w) \/ Lock(w) \/ Wait(w)
             \/ SpuriousWakeup(w) \/ Write(w) \/ Return(w)
      PROVE  Turns'
  BY <1>6 DEF Consolidate, CountPair, CountLast, Lock, Wait, SpuriousWakeup, Write, Return,
              Turns, TypeInv, TypeOK, NumJobs, mainVars
<1>7. CASE UNCHANGED <<pc, job, current_job, non_empty_shards>>
  BY <1>7 DEF Turns, NumJobs
<1> QED
  BY <1>1, <1>2, <1>3, <1>4, <1>5, <1>6, <1>7
  DEF Next, MainStep, WorkerStep, Terminated, vars, mainVars, StartPool, Join, MapGram,
      MapDone

(* Different jobs are different shards.                                    *)
LEMMA ShardsDiffer ==
  ASSUME TypeInv, Listed,
         NEW i \in 0 .. NumJobs - 1, NEW j \in 0 .. NumJobs - 1, ShardOf(i) = ShardOf(j)
  PROVE  i = j
<1>1. i + 1 \in DOMAIN non_empty_shards /\ j + 1 \in DOMAIN non_empty_shards
  BY DEF TypeInv, TypeOK, NumJobs
<1>2. ShardOf(i) \in Int /\ ShardOf(j) \in Int
  BY <1>1, ShardDataAssumption DEF ShardOf, TypeInv, TypeOK, Shard
<1>3. ~(i < j) /\ ~(j < i)
  BY <1>1, <1>2 DEF Listed, ShardOf
<1> QED
  BY <1>3

(* The shard a worker is about to sort is one that nobody has sorted yet.  *)
LEMMA TakenShard ==
  ASSUME TypeInv, Listed, Turns, Blocks, NEW w \in Worker, pc[w] = "take", job[w] < NumJobs
  PROVE  /\ job[w] \in 0 .. NumJobs - 1
         /\ ShardOf(job[w]) \in Shard
         /\ shards[ShardOf(job[w])] \in Seq(Pair)
         /\ shards[ShardOf(job[w])] # <<>>
         /\ consolidated[ShardOf(job[w])] = <<>>
<1>1. job[w] \in 0 .. NumJobs - 1 /\ job[w] + 1 \in DOMAIN non_empty_shards
  BY DEF TypeInv, TypeOK, NumJobs
<1>2. ShardOf(job[w]) \in Shard
  BY <1>1 DEF ShardOf, TypeInv, TypeOK
<1>3. shards[ShardOf(job[w])] \in Seq(Pair) 
  BY <1>2, ProcessShardsAssumption DEF TypeInv, TypeOK
<1>4. shards[ShardOf(job[w])] # <<>>
  BY <1>1 DEF Listed, ShardOf
<1>5. job[w] >= current_job
  BY DEF Turns
<1>6. \A v \in Worker : job[v] = job[w] => pc[v] = "take"
  BY JobsDiffer
<1> QED
  BY <1>1, <1>2, <1>3, <1>4, <1>5, <1>6 DEF Blocks

(* A shard is sorted when its worker takes it, and not before.             *)
LEMMA BlocksStep == TypeInv /\ Listed /\ Turns /\ Blocks /\ [Next]_vars => Blocks'
<1> SUFFICES ASSUME TypeInv, Listed, Turns, Blocks, [Next]_vars PROVE Blocks'
  OBVIOUS
<1>0. /\ DOMAIN pc = Worker /\ current_job \in Nat /\ NumJobs \in Nat
      /\ \A v \in Worker : job[v] \in Nat
  BY DEF TypeInv, TypeOK, NumJobs
<1>1. CASE FindShard
  <2>1. /\ \A v \in Worker : pc'[v] = "take"
        /\ \A s \in Shard : consolidated'[s] = <<>>
    BY <1>1 DEF FindShard, TypeInv, JobsExist, Blocks
  <2>2. /\ non_empty_shards \in Seq(Shard) /\ loop \in Shard
    BY <1>1, ShardDataAssumption DEF FindShard, TypeInv, TypeOK, Shard
  <2>3. non_empty_shards' \in Seq(Shard)
    BY <1>1, <2>2 DEF FindShard
  <2>4. \A i \in 0 .. NumJobs' - 1 : non_empty_shards'[i + 1] \in Shard
    BY <2>3 DEF NumJobs
  <2> QED
    BY <2>1, <2>4 DEF Blocks, ShardOf, Busy
<1>2. ASSUME NEW w \in Worker, Consolidate(w) PROVE Blocks'
  <2> DEFINE s == ShardOf(job[w])
  <2>1. pc[w] = "take" /\ job[w] < NumJobs /\ main = "work" /\ main' = "work"
        /\ UNCHANGED <<shards, non_empty_shards, job, current_job>>
        /\ \A v \in Worker : pc'[v] = IF v = w THEN "count" ELSE pc[v]
    BY <1>0, <1>2 DEF Consolidate, Goto, mainVars
  <2>2. /\ s \in Shard /\ shards[s] \in Seq(Pair) /\ shards[s] # <<>>
        /\ job[w] \in 0 .. NumJobs - 1
    BY <2>1, TakenShard
  <2>3. PICK sorted \in Sortings(shards[s]) :
          consolidated' = [consolidated EXCEPT ![s] = sorted]
    BY <1>2 DEF Consolidate
  <2>4. sorted # <<>>
    BY <2>2, <2>3, SortingsType
  <2>5. \A t \in Shard : consolidated'[t] = IF t = s THEN sorted ELSE consolidated[t]
    BY <2>3 DEF TypeInv, TypeOK
  <2>6. \A t \in Shard : consolidated'[t] # <<>> => consolidated'[t] \in Sortings(shards'[t])
    BY <2>1, <2>3, <2>5 DEF Blocks
  <2>7. ASSUME NEW v \in Worker, pc'[v] \in Busy PROVE Pairs(v)' # <<>>
    <3>1. CASE v = w
      BY <2>1, <2>2, <2>4, <2>5, <3>1 DEF Pairs, ShardOf
    <3>2. CASE v # w
      <4>1. pc[v] \in Busy
        BY <2>1, <2>7, <3>2
      <4>2. ShardOf(job[v]) \in Shard /\ Pairs(v) # <<>>
        BY <4>1, BusyTypes DEF Blocks
      <4> QED
        BY <2>1, <2>4, <2>5, <4>2 DEF Pairs, ShardOf
    <3> QED
      BY <3>1, <3>2
  <2>8. ASSUME NEW i \in 0 .. NumJobs - 1, i >= current_job,
               \A v \in Worker : job[v] = i => pc'[v] = "take"
        PROVE  consolidated'[ShardOf(i)] = <<>>
    <3>1. i # job[w]
      BY <2>1, <2>8
    <3>2. ShardOf(i) # s
      BY <2>2, <3>1, ShardsDiffer
    <3>3. ShardOf(i) \in Shard
      BY DEF ShardOf, NumJobs, TypeInv, TypeOK
    <3>4. consolidated[ShardOf(i)] = <<>>
      BY <2>1, <2>8, <3>1 DEF Blocks
    <3> QED
      BY <2>5, <3>2, <3>3, <3>4
  <2>9. \A i : ShardOf(i)' = ShardOf(i)
    BY <2>1 DEF ShardOf
  <2> QED
    BY <2>1, <2>6, <2>7, <2>8, <2>9 DEF Blocks, NumJobs
<1>3. ASSUME UNCHANGED <<shards, non_empty_shards, consolidated>>,
             main' = "find" => main = "find",
             current_job' \in Nat, current_job' >= current_job,
             \A v \in Worker : pc'[v] \in Busy => pc[v] \in Busy /\ job'[v] = job[v],
             \A v \in Worker : job[v] >= current_job /\ pc[v] # "take"
                                 => job'[v] = job[v] /\ pc'[v] # "take"
      PROVE  Blocks'
  <2>1. \A v : pc'[v] \in Busy /\ v \in Worker => Pairs(v)' = Pairs(v)
    BY <1>3 DEF Pairs, ShardOf
  <2>2. ASSUME NEW i \in 0 .. NumJobs - 1, i >= current_job',
               \A v \in Worker : job'[v] = i => pc'[v] = "take"
        PROVE  consolidated[ShardOf(i)] = <<>>
    <3>1. i >= current_job
      BY <1>0, <1>3, <2>2
    <3>2. \A v \in Worker : job[v] = i => pc[v] = "take"
      BY <1>3, <2>2, <3>1
    <3> QED
      BY <3>1, <3>2 DEF Blocks
  <2> QED
    BY <1>3, <2>1, <2>2 DEF Blocks, ShardOf, NumJobs
<1>4. ASSUME NEW w \in Worker, Unlock(w) PROVE Blocks'
  <2>1. job[w] + 1 = current_job
    BY <1>4 DEF Unlock, Turns
  <2>2. /\ UNCHANGED <<shards, non_empty_shards, consolidated, main, current_job>>
        /\ pc'[w] = "take"
        /\ \A v \in Worker : v # w => pc'[v] = pc[v] /\ job'[v] = job[v]
    BY <1>0, <1>4 DEF Unlock, Goto, mainVars, TypeInv, TypeOK
  <2>3. ~(job[w] >= current_job)
    BY <1>0, <2>1
  <2> QED
    BY <1>0, <1>3, <2>2, <2>3 DEF Busy
<1>5. ASSUME NEW w \in Worker, Advance(w) PROVE Blocks'
  BY <1>0, <1>3, <1>5 DEF Advance, Goto, mainVars, Busy
<1>6. ASSUME NEW w \in Worker,
             \/ CountPair(w) \/ CountLast(w) \/ Lock(w) \/ Turn(w) \/ Wait(w)
             \/ SpuriousWakeup(w) \/ Write(w) \/ NotifyAll(w) \/ Return(w)
      PROVE  Blocks'
  <2>1. /\ UNCHANGED <<shards, non_empty_shards, consolidated, main, current_job, job>>
        /\ \A v \in Worker : /\ pc'[v] \in Busy => pc[v] \in Busy
                             /\ pc[v] # "take" => pc'[v] # "take"
    BY <1>0, <1>6 DEF CountPair, CountLast, Lock, Turn, Wait, SpuriousWakeup, Write,
                      NotifyAll, Return, Goto, mainVars, Busy
  <2> QED
    BY <1>0, <1>3, <2>1
<1>7. CASE StartPool \/ Join \/ MapGram \/ MapDone \/ UNCHANGED vars
  BY <1>0, <1>3, <1>7 DEF StartPool, Join, MapGram, MapDone, vars, mainVars
<1> QED
  BY <1>1, <1>2, <1>4, <1>5, <1>6, <1>7 DEF Next, MainStep, WorkerStep, Terminated

(* What a worker has in hand in the last loop is a whole sorted shard.     *)
LEMMA WriterBlock ==
  ASSUME TypeInv, Listed, Blocks, NEW w \in Worker, pc[w] \in Busy
  PROVE  /\ job[w] \in 0 .. NumJobs - 1
         /\ ShardOf(job[w]) \in Shard
         /\ Pairs(w) \in Seq(Pair) /\ Len(Pairs(w)) \in Nat \ {0}
         /\ Len(Pairs(w)) = Len(shards[ShardOf(job[w])])
<1>1. job[w] \in 0 .. NumJobs - 1
  BY DEF TypeInv, TypeOK, JobsExist, NumJobs
<1>2. ShardOf(job[w]) \in Shard /\ Pairs(w) \in Seq(Pair)
  BY BusyTypes
<1>3. Pairs(w) # <<>>
  BY DEF Blocks
<1>4. shards[ShardOf(job[w])] \in Seq(Pair)
  BY <1>2, ProcessShardsAssumption DEF TypeInv, TypeOK
<1>5. Pairs(w) \in Sortings(shards[ShardOf(job[w])])
  BY <1>2, <1>3 DEF Blocks, Pairs
<1>6. Len(Pairs(w)) = Len(shards[ShardOf(job[w])])
  BY <1>4, <1>5, SortingsType
<1> QED
  BY <1>1, <1>2, <1>3, <1>6

(* The file grows by the pairs of the worker whose turn it is, in their    *)
(* order.                                                                  *)
LEMMA FileEndStep ==
  TypeInv /\ Listed /\ Locked /\ Turns /\ Blocks /\ FileEnd /\ [Next]_vars => FileEnd'
<1> SUFFICES ASSUME TypeInv, Listed, Locked, Turns, Blocks, FileEnd, [Next]_vars
             PROVE  FileEnd'
  OBVIOUS
<1>0. /\ DOMAIN pc = Worker /\ DOMAIN pair = Worker
      /\ current_job \in Nat /\ NumJobs \in Nat /\ current_job <= NumJobs
      /\ \A v \in Worker : pair[v] \in Nat /\ pair[v] >= 1 /\ job[v] \in Nat
      /\ index_file \in Seq(Record)
  BY DEF TypeInv, TypeOK, NumJobs, Turns
<1>1. CASE FindShard
  <2>1. \A v \in Worker : pc'[v] = "take"
    BY <1>1 DEF FindShard, TypeInv, JobsExist
  <2>2. \A v \in Worker : ~Begun(v) /\ ~Begun(v)'
    BY <1>1, <2>1 DEF FindShard, Begun
  <2>3. /\ non_empty_shards \in Seq(Shard) /\ loop \in Shard
        /\ UNCHANGED <<shards, current_job, index_file>>
    BY <1>1, ShardDataAssumption DEF FindShard, TypeInv, TypeOK, Shard
  <2>4. \A i \in 0 .. NumJobs - 1 : non_empty_shards'[i + 1] = non_empty_shards[i + 1]
    BY <1>1, <2>3 DEF FindShard, NumJobs
  <2>5. current_job # 0 => non_empty_shards'[(current_job - 1) + 1]
                             = non_empty_shards[(current_job - 1) + 1]
    BY <1>0, <2>4
  <2> QED
    BY <2>1, <2>2, <2>3, <2>5 DEF FileEnd, EndsAt, ShardOf
<1>2. ASSUME NEW w \in Worker, Consolidate(w) PROVE FileEnd'
  <2>1. /\ pc[w] = "take" /\ job[w] < NumJobs
        /\ UNCHANGED <<shards, non_empty_shards, job, current_job, index_file>>
        /\ \A v \in Worker : /\ pc'[v] = IF v = w THEN "count" ELSE pc[v]
                             /\ v # w => pair'[v] = pair[v]
    BY <1>0, <1>2 DEF Consolidate, Goto, mainVars
  <2>2. \A t \in Shard : t # ShardOf(job[w]) => consolidated'[t] = consolidated[t]
    BY <1>2 DEF Consolidate, TypeInv, TypeOK
  <2>3. ASSUME NEW v \in Worker, pc[v] = "write" PROVE Pairs(v)' = Pairs(v)
    <3>1. v # w /\ job[v] # job[w]
      BY <2>1, <2>3, JobsDiffer
    <3>2. job[v] \in 0 .. NumJobs - 1 /\ ShardOf(job[v]) \in Shard
      BY <2>3, WriterBlock DEF Busy
    <3>3. job[w] \in 0 .. NumJobs - 1
      BY <1>0, <2>1
    <3>4. ShardOf(job[v]) # ShardOf(job[w])
      BY <3>1, <3>2, <3>3, ShardsDiffer
    <3> QED
      BY <2>1, <2>2, <3>2, <3>4 DEF Pairs, ShardOf
  <2>4. \A v \in Worker : pc'[v] = "write" <=> pc[v] = "write"
    BY <2>1
  <2>5. \A v \in Worker : Begun(v)' <=> Begun(v)
    BY <2>1 DEF Begun
  <2>6. \A v \in Worker : pc[v] = "write" => pair'[v] = pair[v]
    BY <2>1
  <2> QED
    BY <2>1, <2>3, <2>4, <2>5, <2>6 DEF FileEnd, EndsAt, ShardOf, Begun
<1>3. ASSUME NEW w \in Worker, Turn(w) PROVE FileEnd'
  <2>1. /\ pc[w] = "check"
        /\ UNCHANGED <<shards, non_empty_shards, consolidated, job, current_job, index_file>>
        /\ \A v \in Worker : v # w => pc'[v] = pc[v]
        /\ pair'[w] = 1
    BY <1>0, <1>3 DEF Turn, Goto, mainVars
  <2>2. \A v \in Worker : v # w => pc[v] # "write" /\ pc'[v] # "write"
    BY <2>1, OneInside DEF Inside
  <2>3. \A v \in Worker : ~Begun(v) /\ ~Begun(v)'
    BY <2>1, <2>2 DEF Begun
  <2>4. Len(Pairs(w)) \in Nat \ {0} /\ Pairs(w)' = Pairs(w)
    BY <2>1, WriterBlock DEF Busy, Pairs, ShardOf
  <2> QED
    BY <2>1, <2>2, <2>3, <2>4 DEF FileEnd, EndsAt, ShardOf
<1>4. ASSUME NEW w \in Worker, Write(w) PROVE FileEnd'
  <2>1. /\ pc[w] = "write" /\ pc' = pc /\ pair[w] <= Len(Pairs(w))
        /\ UNCHANGED <<shards, non_empty_shards, consolidated, job, current_job>>
        /\ pair'[w] = pair[w] + 1
        /\ index_file' = Append(index_file, Entry(w))
    BY <1>0, <1>4 DEF Write, mainVars
  <2>2. \A v \in Worker : v # w => pc'[v] # "write"
    BY <2>1, OneInside DEF Inside
  <2>3. Begun(w)' /\ \A v \in Worker : Begun(v)' => v = w
    BY <1>0, <2>1, <2>2 DEF Begun
  <2>4. Len(Pairs(w)) \in Nat /\ Pairs(w)' = Pairs(w)
    BY <2>1, WriterBlock DEF Busy, Pairs, ShardOf
  <2>5. /\ Len(index_file') = Len(index_file) + 1 /\ index_file' # <<>>
        /\ index_file'[Len(index_file')] = Entry(w)
    BY <1>0, <2>1
  <2>6. EndsAt(ShardOf(job[w]), pair[w] - 1)'
    BY <1>0, <2>1, <2>5 DEF EndsAt, Entry, ShardOf
  <2>7. pair'[w] <= Len(Pairs(w)) + 1
    BY <1>0, <2>1, <2>4
  <2> QED
    BY <2>2, <2>3, <2>4, <2>6, <2>7 DEF FileEnd
<1>5. ASSUME NEW w \in Worker, Advance(w) PROVE FileEnd'
  <2>1. /\ pc[w] = "write" /\ pair[w] > Len(Pairs(w)) /\ current_job' = current_job + 1
        /\ UNCHANGED <<shards, non_empty_shards, consolidated, job, pair, index_file>>
        /\ \A v \in Worker : pc'[v] = IF v = w THEN "notify" ELSE pc[v]
    BY <1>0, <1>5 DEF Advance, Goto, mainVars
  <2>2. \A v \in Worker : pc'[v] # "write"
    BY <2>1, OneInside DEF Inside
  <2>3. /\ Len(Pairs(w)) \in Nat \ {0} /\ pair[w] = Len(Pairs(w)) + 1
        /\ Len(Pairs(w)) = Len(shards[ShardOf(job[w])])
    BY <1>0, <2>1, WriterBlock DEF Busy, FileEnd
  <2>4. EndsAt(ShardOf(job[w]), Len(shards[ShardOf(job[w])]))
    BY <1>0, <2>1, <2>3 DEF FileEnd, Begun
  <2>5. job[w] = current_job' - 1 /\ current_job' # 0
    BY <1>0, <2>1 DEF Turns
  <2> QED
    BY <2>1, <2>2, <2>4, <2>5 DEF FileEnd, EndsAt, ShardOf, Begun
<1>6. ASSUME UNCHANGED <<shards, non_empty_shards, consolidated, current_job, index_file>>,
             \A v \in Worker : /\ pc'[v] = "write" <=> pc[v] = "write"
                               /\ pc[v] = "write" => job'[v] = job[v] /\ pair'[v] = pair[v]
      PROVE  FileEnd'
  <2>1. \A v \in Worker : Begun(v)' <=> Begun(v)
    BY <1>6 DEF Begun
  <2>2. \A v \in Worker : pc[v] = "write" => Pairs(v)' = Pairs(v)
    BY <1>6 DEF Pairs, ShardOf
  <2> QED
    BY <1>6, <2>1, <2>2 DEF FileEnd, EndsAt, ShardOf, Begun
<1>7. ASSUME NEW w \in Worker,
             \/ CountLast(w) \/ Lock(w) \/ Wait(w) \/ SpuriousWakeup(w) \/ NotifyAll(w)
             \/ Return(w)
      PROVE  FileEnd'
  BY <1>0, <1>6, <1>7
  DEF CountLast, Lock, Wait, SpuriousWakeup, NotifyAll, Return, Goto, mainVars
<1>8. ASSUME NEW w \in Worker, CountPair(w) \/ Unlock(w) PROVE FileEnd'
  <2>1. /\ UNCHANGED <<shards, non_empty_shards, consolidated, current_job, index_file>>
        /\ pc[w] # "write" /\ pc'[w] # "write"
        /\ \A v \in Worker : v # w => pc'[v] = pc[v] /\ job'[v] = job[v] /\ pair'[v] = pair[v]
    BY <1>0, <1>8 DEF CountPair, Unlock, Goto, mainVars, TypeInv, TypeOK
  <2> QED
    BY <1>6, <2>1
<1>9. CASE StartPool \/ Join \/ MapGram \/ MapDone \/ UNCHANGED vars
  BY <1>6, <1>9 DEF StartPool, Join, MapGram, MapDone, vars, mainVars
<1> QED
  BY <1>1, <1>2, <1>3, <1>4, <1>5, <1>7, <1>8, <1>9 DEF Next, MainStep, WorkerStep, Terminated

(* The invariant holds at the start.                                       *)
LEMMA IInvInit == Init => IInv
<1> SUFFICES ASSUME Init PROVE IInv
  OBVIOUS
<1>1. TypeInv
  BY TypeInit
<1>2. Listed
  BY ShardDataAssumption DEF Init, Idle, Listed, Shard
<1>3. Locked
  BY WorkerInt DEF Init, Idle, Locked, Inside, NoWorker
<1>4. Turns
  BY WorkerInt, ProcessShardsAssumption DEF Init, Idle, Turns, NumJobs
<1>5. Blocks
  BY DEF Init, Idle, Blocks, Busy, NumJobs
<1>6. FileEnd
  BY DEF Init, Idle, FileEnd, Begun
<1> QED
  BY <1>1, <1>2, <1>3, <1>4, <1>5, <1>6 DEF IInv

(* The invariant holds for any number of threads and any shards.           *)
THEOREM ProcessShardsInvariant == Spec => []IInv
<1>1. IInv /\ [Next]_vars => IInv'
  BY TypeStep, ListedStep, LockedStep, TurnsStep, BlocksStep, FileEndStep DEF IInv
<1>2. QED
  BY IInvInit, <1>1, PTL DEF Spec

-----------------------------------------------------------------------------
(* No wakeup is lost: wait() and the test before it are one step of the    *)
(* mutex, and the notify_all after current_job++ leaves nobody waiting.    *)
THEOREM ProcessShardsNoLostWakeup == Spec => []NoLostWakeup
<1>1. Init => NoLostWakeup
  BY DEF Init, Idle, NoLostWakeup
<1>2. TypeInv /\ NoLostWakeup /\ [Next]_vars => NoLostWakeup'
  <2> SUFFICES ASSUME TypeInv, NoLostWakeup, [Next]_vars PROVE NoLostWakeup'
    OBVIOUS
  <2>0. DOMAIN pc = Worker /\ DOMAIN job = Worker
    BY DEF TypeInv, TypeOK
  <2>1. ASSUME NEW w \in Worker, Advance(w) PROVE NoLostWakeup'
    BY <2>0, <2>1 DEF Advance, Goto, NoLostWakeup
  <2>2. ASSUME NEW w \in Worker, NotifyAll(w) PROVE NoLostWakeup'
    BY <2>0, <2>2 DEF NotifyAll, NoLostWakeup
  <2>3. ASSUME NEW w \in Worker, Wait(w) PROVE NoLostWakeup'
    BY <2>0, <2>3 DEF Wait, Goto, NoLostWakeup
  <2>4. ASSUME NEW w \in Worker, Unlock(w) PROVE NoLostWakeup'
    BY <2>0, <2>4 DEF Unlock, Goto, NoLostWakeup
  <2>5. ASSUME NEW w \in Worker,
               \/ Consolidate(w) \/ CountPair(w) \/ CountLast(w) \/ Lock(w) \/ Turn(w)
               \/ SpuriousWakeup(w) \/ Write(w) \/ Return(w)
        PROVE  NoLostWakeup'
    <3>1. /\ UNCHANGED <<job, current_job>>
          /\ \A v \in Worker : /\ pc'[v] = "wait" => pc[v] = "wait"
                               /\ pc[v] = "notify" => pc'[v] = "notify"
      BY <2>0, <2>5 DEF Consolidate, CountPair, CountLast, Lock, Turn, SpuriousWakeup, Write,
                        Return, Goto
    <3> QED
      BY <3>1 DEF NoLostWakeup
  <2>6. CASE MainStep \/ UNCHANGED vars
    BY <2>6 DEF MainStep, FindShard, StartPool, Join, MapGram, MapDone, vars, NoLostWakeup
  <2> QED
    BY <2>1, <2>2, <2>3, <2>4, <2>5, <2>6 DEF Next, WorkerStep, Terminated
<1>3. QED
  BY <1>1, <1>2, TypeInit, TypeStep, PTL DEF Spec

-----------------------------------------------------------------------------
(* The shards between two that follow each other in non_empty_shards, and  *)
(* those before the first, are empty.                                      *)
LEMMA GapEmpty ==
  ASSUME TypeInv, Listed, main # "find", NEW i \in 0 .. NumJobs - 1
  PROVE  /\ i = 0 => Sequential!EmptyBetween(-1, ShardOf(0))
         /\ i # 0 => /\ ShardOf(i - 1) < ShardOf(i)
                     /\ Sequential!EmptyBetween(ShardOf(i - 1), ShardOf(i))
<1>1. /\ i + 1 \in DOMAIN non_empty_shards
      /\ DOMAIN non_empty_shards = 1 .. Len(non_empty_shards)
      /\ Len(non_empty_shards) \in Nat
      /\ i # 0 => (i - 1) + 1 \in DOMAIN non_empty_shards /\ (i - 1) + 1 < i + 1
  BY DEF NumJobs, TypeInv, TypeOK
<1>2. \A k \in DOMAIN non_empty_shards : non_empty_shards[k] \in Int
  BY ShardDataAssumption DEF TypeInv, TypeOK, Shard
<1>3. ASSUME NEW t \in Shard, t < ShardOf(i), i # 0 => ShardOf(i - 1) < t
      PROVE  shards[t] = <<>>
  <2> SUFFICES ASSUME shards[t] # <<>> PROVE FALSE
    OBVIOUS
  <2>1. PICK k \in DOMAIN non_empty_shards : non_empty_shards[k] = t
    BY DEF Listed
  <2>2. ~(i + 1 <= k)
    BY <1>1, <1>2, <1>3, <2>1 DEF Listed, ShardOf
  <2>3. i # 0 => ~(k <= (i - 1) + 1)
    BY <1>1, <1>2, <1>3, <2>1 DEF Listed, ShardOf
  <2> QED
    BY <1>1, <2>2, <2>3
<1>4. i # 0 => ShardOf(i - 1) < ShardOf(i)
  BY <1>1 DEF Listed, ShardOf
<1> QED
  BY <1>3, <1>4 DEF Sequential!EmptyBetween, Sequential!Shard, Shard

(* Writing a pair is the abstract specification's writing of it.           *)
LEMMA WriteRefines ==
  ASSUME IInv, NEW w \in Worker, Write(w)
  PROVE  Sequential!WriteRecord(ShardOf(job[w]), pair[w])
<1> DEFINE s == ShardOf(job[w])
<1> USE DEF IInv
<1>1. /\ pc[w] = "write" /\ pair[w] <= Len(Pairs(w)) /\ main # "find"
      /\ index_file' = Append(index_file, Entry(w))
      /\ UNCHANGED <<shards, consolidated>>
  BY DEF Write, TypeInv, JobsExist
<1>2. /\ s \in Shard /\ job[w] \in 0 .. NumJobs - 1
      /\ Pairs(w) \in Seq(Pair) /\ Len(Pairs(w)) \in Nat \ {0}
      /\ pair[w] \in Nat \ {0} /\ job[w] = current_job
  BY <1>1, WriterBlock DEF Busy, Turns, TypeInv, TypeOK
<1>3. pair[w] \in DOMAIN consolidated[s]
  BY <1>1, <1>2 DEF Pairs
<1>4. Entry(w) = Sequential!Record(s, pair[w])
  BY DEF Entry, Pairs, Sequential!Record
<1>5. pair[w] > 1 => EndsAt(s, pair[w] - 1)
  BY <1>1 DEF FileEnd, Begun
<1>6. pair[w] = 1 => \A v \in Worker : ~Begun(v)
  BY <1>1, OneInside DEF Begun, Inside
<1>7. Sequential!IsNext(index_file, s, pair[w])
  <2>1. CASE pair[w] > 1
    BY <1>2, <1>5, <2>1 DEF EndsAt, Sequential!IsNext
  <2>2. CASE pair[w] = 1 /\ job[w] = 0
    <3>1. index_file = <<>>
      BY <1>2, <1>6, <2>2 DEF FileEnd
    <3> QED
      BY <1>1, <1>2, <2>2, <3>1, GapEmpty DEF Sequential!IsNext
  <2>3. CASE pair[w] = 1 /\ job[w] # 0
    <3>1. EndsAt(ShardOf(job[w] - 1), Len(shards[ShardOf(job[w] - 1)]))
      BY <1>2, <1>6, <2>3 DEF FileEnd
    <3>2. ShardOf(job[w] - 1) < s /\ Sequential!EmptyBetween(ShardOf(job[w] - 1), s)
      BY <1>1, <1>2, <2>3, GapEmpty
    <3> QED
      BY <2>3, <3>1, <3>2 DEF EndsAt, Sequential!IsNext
  <2> QED
    BY <1>2, <2>1, <2>2, <2>3
<1> QED
  BY <1>1, <1>3, <1>4, <1>7 DEF Sequential!WriteRecord

(* Both specifications sort in the same way.                               *)
LEMMA SortingsSame == \A s : Sequential!Sortings(s) = Sortings(s)
<1>1. \A a, b : Sequential!PairLess(a, b) <=> PairLess(a, b)
  BY DEF Sequential!PairLess, PairLess
<1>2. \A s : Sequential!Sorted(s) <=> Sorted(s)
  BY <1>1 DEF Sequential!Sorted, Sorted
<1>3. \A S, T : Sequential!Bijection(S, T) = Bijection(S, T)
  BY DEF Sequential!Bijection, Bijection, Sequential!Injection, Injection,
         Sequential!Surjection, Surjection, Sequential!IsInjective, IsInjective
<1> QED
  BY <1>2, <1>3 DEF Sequential!Sortings, Sortings

(* Sorting a shard ahead of its turn is the abstract specification's       *)
(* sorting.                                                                *)
LEMMA ConsolidateRefines ==
  ASSUME IInv, NEW w \in Worker, Consolidate(w)
  PROVE  Sequential!SortBlock(ShardOf(job[w])) /\ ShardOf(job[w]) \in Shard
<1>1. pc[w] = "take" /\ job[w] < NumJobs /\ UNCHANGED <<shards, index_file>>
  BY DEF Consolidate
<1>2. /\ ShardOf(job[w]) \in Shard /\ shards[ShardOf(job[w])] # <<>>
      /\ consolidated[ShardOf(job[w])] = <<>>
  BY <1>1, TakenShard DEF IInv
<1> QED
  BY <1>1, <1>2, SortingsSame DEF Consolidate, Sequential!SortBlock

(* Whatever the interleaving, the pool of threads writes index.bin.new as  *)
(* one sequential writer would: process_shards implements SequentialIndex. *)
THEOREM ProcessShardsWritesSequentially == Spec => WritesSequentially
<1>1. Init => Sequential!Init
  BY DEF Init, Idle, Sequential!Init, Sequential!Shard, Shard
<1>2. IInv /\ [Next]_vars => [Sequential!Next]_(Sequential!vars)
  <2> SUFFICES ASSUME IInv, [Next]_vars PROVE [Sequential!Next]_(Sequential!vars)
    OBVIOUS
  <2>1. ASSUME NEW w \in Worker, Consolidate(w) PROVE Sequential!Next
    <3>1. ShardOf(job[w]) \in Sequential!Shard
      BY <2>1, ConsolidateRefines DEF Sequential!Shard, Shard
    <3>2. Sequential!SortBlock(ShardOf(job[w]))
      BY <2>1, ConsolidateRefines
    <3> QED
      BY <3>1, <3>2 DEF Sequential!Next
  <2>2. ASSUME NEW w \in Worker, Write(w) PROVE Sequential!Next
    <3>1. ShardOf(job[w]) \in Sequential!Shard
      BY <2>2, WriterBlock DEF Write, Busy, IInv, Sequential!Shard, Shard
    <3>2. Sequential!WriteRecord(ShardOf(job[w]), pair[w])
      BY <2>2, WriteRefines
    <3> QED
      BY <3>1, <3>2 DEF Sequential!Next, Sequential!WriteRecord
  <2>3. CASE UNCHANGED <<shards, consolidated, index_file>>
    BY <2>3 DEF Sequential!vars
  <2> QED
    BY <2>1, <2>2, <2>3
    DEF Next, MainStep, WorkerStep, Terminated, vars, FindShard, StartPool, Join, MapGram,
        MapDone, CountPair, CountLast, Lock, Turn, Wait, SpuriousWakeup, Advance,
        NotifyAll, Unlock, Return
<1>3. QED
  BY <1>1, <1>2, ProcessShardsInvariant, PTL DEF Spec, WritesSequentially, Sequential!Spec


-----------------------------------------------------------------------------
(***************************************************************************)
(* What lookups find: LookupExact.  The file has the records of the blocks *)
(* in order, with none missing; the counts of the workers are the lengths  *)
(* of the runs of a trigram in its block; and the offsets of create_mapping*)
(* are where those runs begin in the file.                                 *)
(***************************************************************************)

(* Every record is the pair that it says it is.                            *)
Recorded ==
  \A n \in DOMAIN index_file :
    /\ index_file[n].pos \in DOMAIN consolidated[index_file[n].shard]
    /\ index_file[n].line_id = consolidated[index_file[n].shard][index_file[n].pos].line_id

(* The records are in the order of their shards and places,                *)
Before(a, b) == a.shard < b.shard \/ (a.shard = b.shard /\ a.pos < b.pos)

Ordered == \A m, n \in DOMAIN index_file : m < n => Before(index_file[m], index_file[n])

(* a record comes after those of the places before it in its block,        *)
Placed ==
  \A n \in DOMAIN index_file :
    /\ index_file[n].pos <= n
    /\ \A k \in 1 .. index_file[n].pos :
         /\ index_file[n - index_file[n].pos + k].shard = index_file[n].shard
         /\ index_file[n - index_file[n].pos + k].pos = k

(* and nothing that comes before the last record is missing.               *)
UpTo(s, k, r) == s < r.shard \/ (s = r.shard /\ k <= r.pos)

Complete ==
  \A s \in Shard, k \in Nat \ {0} :
    index_file # <<>> /\ k <= Len(shards[s]) /\ UpTo(s, k, index_file[Len(index_file)])
      => \E n \in DOMAIN index_file : index_file[n].shard = s /\ index_file[n].pos = k

FileInv == Recorded /\ Ordered /\ Placed /\ Complete

(* A record with one more behind it.                                       *)
LEMMA RecordAppended ==
  ASSUME IInv, FileInv, NEW w \in Worker, Write(w)
  PROVE  FileInv'
<1> DEFINE s == ShardOf(job[w])
           k == pair[w]
           L == Len(index_file)
           e == Entry(w)
           last == index_file[L]
<1>1. /\ index_file' = Append(index_file, e) /\ UNCHANGED <<shards, consolidated>>
      /\ k \in DOMAIN consolidated[s] /\ Sequential!IsNext(index_file, s, k)
  BY WriteRefines DEF Write, Sequential!WriteRecord
<1>2. /\ index_file \in Seq(Record) /\ L \in Nat /\ s \in Shard /\ k \in Nat \ {0}
      /\ shards \in [Shard -> Seq(Pair)]
  BY WriterBlock, ProcessShardsAssumption DEF IInv, TypeInv, TypeOK, Write, Busy
<1>3. e.shard = s /\ e.pos = k /\ e.line_id = consolidated[s][k].line_id
  BY DEF Entry, Pairs
<1>4. /\ DOMAIN index_file = 1 .. L /\ DOMAIN index_file' = 1 .. L + 1
      /\ \A n \in 1 .. L : index_file'[n] = index_file[n]
      /\ index_file'[L + 1] = e /\ Len(index_file') = L + 1
  BY <1>1, <1>2
<1>5. /\ \A t \in Shard : t \in Int /\ -1 < t
      /\ \A n \in 1 .. L : index_file[n].shard \in Shard /\ index_file[n].pos \in Nat \ {0}
  <2>1. \A t \in Shard : t \in Int /\ -1 < t
    BY ShardDataAssumption DEF Shard
  <2>2. ASSUME NEW n \in 1 .. L PROVE index_file[n] \in Record
    BY <1>2, <2>2
  <2> QED
    BY <2>1, <2>2 DEF Record
<1>6. L = 0 => index_file = <<>> /\ k = 1 /\ Sequential!EmptyBetween(-1, s)
  BY <1>1, <1>2 DEF Sequential!IsNext
<1>7. L # 0 => \/ s = last.shard /\ k = last.pos + 1
               \/ /\ last.pos = Len(shards[last.shard]) /\ last.shard < s
                  /\ Sequential!EmptyBetween(last.shard, s) /\ k = 1
  BY <1>1, <1>2 DEF Sequential!IsNext
<1> HIDE DEF s, k, L, e, last
<1>8. L # 0 => L \in 1 .. L /\ last = index_file[L]
  BY <1>2 DEF last
<1>9. Recorded'
  <2> SUFFICES ASSUME NEW n \in 1 .. L + 1
               PROVE  LET r == index_file'[n]
                      IN  /\ r.pos \in DOMAIN consolidated[r.shard]
                          /\ r.line_id = consolidated[r.shard][r.pos].line_id
    BY <1>1, <1>4 DEF Recorded
  <2>1. CASE n = L + 1
    BY <1>1, <1>3, <1>4, <2>1
  <2>2. CASE n \in 1 .. L
    BY <1>4, <2>2 DEF Recorded, FileInv
  <2> QED
    BY <1>2, <2>1, <2>2
<1>10. Ordered'
  <2>1. ASSUME NEW m \in 1 .. L PROVE Before(index_file[m], e)
    <3>1. Before(last, e)
      BY <1>2, <1>3, <1>5, <1>7, <1>8, <2>1 DEF Before
    <3>2. m = L \/ Before(index_file[m], last)
      BY <1>2, <1>4, <1>8, <2>1 DEF Ordered, FileInv
    <3>3. CASE m = L
      BY <1>8, <2>1, <3>1, <3>3
    <3>4. CASE Before(index_file[m], last)
      <4>1. /\ L \in 1 .. L /\ last = index_file[L]
            /\ s \in Int /\ k \in Int
            /\ index_file[m].shard \in Int /\ index_file[m].pos \in Int
        BY <1>2, <1>5, <1>8, <2>1
      <4>2. last.shard \in Int /\ last.pos \in Int
        BY <1>5, <4>1
      <4> QED
        BY <1>3, <3>1, <3>4, <4>1, <4>2 DEF Before
    <3> QED
      BY <3>2, <3>3, <3>4
  <2> SUFFICES ASSUME NEW m \in 1 .. L + 1, NEW n \in 1 .. L + 1, m < n
               PROVE  Before(index_file'[m], index_file'[n])
    BY <1>4 DEF Ordered, Before
  <2>2. m \in 1 .. L /\ index_file'[m] = index_file[m]
    BY <1>2, <1>4
  <2>3. CASE n = L + 1
    BY <1>4, <2>1, <2>2, <2>3
  <2>4. CASE n \in 1 .. L
    BY <1>4, <2>2, <2>4 DEF Ordered, FileInv
  <2> QED
    BY <1>2, <2>3, <2>4
<1>11. Placed'
  <2> DEFINE At(n, j) == /\ index_file'[n - index_file'[n].pos + j].shard = index_file'[n].shard
                         /\ index_file'[n - index_file'[n].pos + j].pos = j
  <2>1. k <= L + 1 /\ \A j \in 1 .. k : At(L + 1, j)
    <3>1. index_file'[L + 1].pos = k /\ index_file'[L + 1].shard = s
      BY <1>3, <1>4
    <3>2. CASE k = 1
      <4>1. (L + 1) - 1 + 1 = L + 1 /\ 1 <= L + 1
        BY <1>2
      <4> QED
        BY <3>1, <3>2, <4>1
    <3>3. CASE k # 1
      <4>1. L # 0 /\ s = last.shard /\ k = last.pos + 1 /\ L \in 1 .. L /\ last = index_file[L]
        BY <1>6, <1>7, <1>8, <3>3
      <4>2. /\ last.pos <= L /\ last.pos \in Nat
            /\ \A j \in 1 .. last.pos : /\ index_file[L - last.pos + j].shard = last.shard
                                        /\ index_file[L - last.pos + j].pos = j
        BY <1>4, <1>5, <4>1 DEF Placed, FileInv
      <4>3. ASSUME NEW j \in 1 .. k PROVE At(L + 1, j)
        <5>1. CASE j = k
          <6>1. (L + 1) - k + j = L + 1
            BY <1>2, <5>1
          <6> QED
            BY <3>1, <5>1, <6>1
        <5>2. CASE j # k
          <6>1. /\ j \in 1 .. last.pos /\ (L + 1) - k + j = L - last.pos + j
                /\ L - last.pos + j \in 1 .. L
            <7>1. L \in Nat /\ last.pos \in Nat /\ last.pos <= L /\ k = last.pos + 1
              BY <1>2, <4>1, <4>2
            <7> HIDE DEF At
            <7> QED
              BY <4>3, <5>2, <7>1
          <6>2. index_file'[L - last.pos + j] = index_file[L - last.pos + j]
            BY <1>4, <6>1
          <6> QED
            BY <3>1, <4>1, <4>2, <6>1, <6>2
        <5> QED
          BY <5>1, <5>2
      <4>4. k <= L + 1
        BY <1>2, <4>1, <4>2
      <4> QED
        BY <4>3, <4>4
    <3> QED
      BY <3>2, <3>3
  <2>2. ASSUME NEW n \in 1 .. L
        PROVE  index_file'[n].pos <= n /\ \A j \in 1 .. index_file'[n].pos : At(n, j)
    <3>1. /\ index_file'[n] = index_file[n] /\ index_file[n].pos \in Nat /\ n \in Nat
          /\ index_file[n].pos <= n /\ n <= L
      <4>1. n \in DOMAIN index_file /\ n \in Nat /\ n <= L
        BY <1>2, <1>4, <2>2
      <4>2. index_file[n].pos <= n
        BY <4>1 DEF Placed, FileInv
      <4> QED
        BY <1>4, <1>5, <2>2, <4>1, <4>2
    <3>2. ASSUME NEW j \in 1 .. index_file[n].pos PROVE At(n, j)
      <4>1. n - index_file[n].pos + j \in 1 .. L
        BY <1>2, <3>1, <3>2
      <4>2. index_file'[n - index_file[n].pos + j] = index_file[n - index_file[n].pos + j]
        BY <1>4, <4>1
      <4> QED
        BY <1>4, <2>2, <3>1, <3>2, <4>2 DEF Placed, FileInv
    <3> QED
      BY <3>1, <3>2
  <2>3. /\ \A n \in 1 .. L + 1 : n = L + 1 \/ n \in 1 .. L
        /\ index_file'[L + 1].pos = k
    BY <1>2, <1>3, <1>4
  <2> QED
    BY <1>4, <2>1, <2>2, <2>3 DEF Placed
<1>12. Complete'
  <2> SUFFICES ASSUME NEW t \in Shard, NEW j \in Nat \ {0}, j <= Len(shards[t]), UpTo(t, j, e)
               PROVE  \E n \in 1 .. L + 1 : index_file'[n].shard = t /\ index_file'[n].pos = j
    BY <1>1, <1>4 DEF Complete
  <2>1. CASE t = s /\ j = k
    BY <1>2, <1>3, <1>4, <2>1
  <2>2. CASE ~(t = s /\ j = k)
    <3>0. t < s \/ (t = s /\ j < k)
      BY <1>2, <1>3, <2>2 DEF UpTo
    <3>1. L # 0
      BY <1>2, <1>5, <1>6, <3>0 DEF Sequential!EmptyBetween, Sequential!Shard, Shard
    <3>2. UpTo(t, j, last)
      <4>1. CASE s = last.shard /\ k = last.pos + 1
        BY <1>2, <1>5, <1>8, <3>0, <3>1, <4>1 DEF UpTo
      <4>2. CASE /\ last.pos = Len(shards[last.shard]) /\ last.shard < s
                 /\ Sequential!EmptyBetween(last.shard, s) /\ k = 1
        <5>1. t < s
          BY <3>0, <4>2
        <5>2. ~(last.shard < t)
          <6>1. shards[t] # <<>>
            BY <1>2
          <6> QED
            BY <4>2, <5>1, <6>1 DEF Sequential!EmptyBetween, Sequential!Shard, Shard
        <5> QED
          BY <1>5, <1>8, <3>1, <4>2, <5>2 DEF UpTo
      <4> QED
        BY <1>7, <3>1, <4>1, <4>2
    <3>3. index_file # <<>>
      BY <3>1 DEF L
    <3>4. PICK n \in 1 .. L : index_file[n].shard = t /\ index_file[n].pos = j
      BY <1>4, <3>2, <3>3 DEF Complete, FileInv, last, L
    <3> QED
      BY <1>2, <1>4, <3>4
  <2> QED
    BY <2>1, <2>2
<1> QED
  BY <1>9, <1>10, <1>11, <1>12 DEF FileInv

(* The file only grows by such records, and the blocks that it has records *)
(* of do not change.                                                       *)
LEMMA FileInvStep == IInv /\ FileInv /\ [Next]_vars => FileInv'
<1> SUFFICES ASSUME IInv, FileInv, [Next]_vars PROVE FileInv'
  OBVIOUS
<1>1. ASSUME NEW w \in Worker, Consolidate(w) PROVE FileInv'
  <2>1. /\ UNCHANGED <<shards, index_file>>
        /\ \A t : t # ShardOf(job[w]) => consolidated'[t] = consolidated[t]
    BY <1>1 DEF Consolidate, IInv, TypeInv, TypeOK
  <2>2. consolidated[ShardOf(job[w])] = <<>>
    BY <1>1, TakenShard DEF Consolidate, IInv
  <2>3. \A n \in DOMAIN index_file : index_file[n].shard # ShardOf(job[w])
    BY <2>2 DEF FileInv, Recorded
  <2> QED
    BY <2>1, <2>3 DEF FileInv, Recorded, Ordered, Placed, Complete
<1>2. CASE UNCHANGED <<shards, consolidated, index_file>>
  BY <1>2 DEF FileInv, Recorded, Ordered, Placed, Complete, Before
<1> QED
  BY <1>1, <1>2, RecordAppended
  DEF Next, MainStep, WorkerStep, Terminated, vars, FindShard, StartPool, Join, MapGram,
      MapDone, CountPair, CountLast, Lock, Turn, Wait, SpuriousWakeup, Advance,
      NotifyAll, Unlock, Return


-----------------------------------------------------------------------------
(* The pairs of trigram offset o among the first n of block b are c, one   *)
(* after the other.                                                        *)
Run(b, n, o, c) ==
  \E a \in 0 .. n : a + c <= n /\ \A i \in 1 .. n : b[i].shard_offset = o <=> a < i /\ i <= a + c

(* While a worker counts, the counts in the mapping, and its own for the   *)
(* trigram it is at, are those of the pairs it has passed;                 *)
CountingAt(w) ==
  /\ pair[w] <= Len(Pairs(w)) + 1
  /\ IF pair[w] = 1 THEN last_shard_offset[w] = NoOffset /\ current_count[w] = 0
                    ELSE last_shard_offset[w] = Pairs(w)[pair[w] - 1].shard_offset
  /\ \A o \in Offset :
       Run(Pairs(w), pair[w] - 1, o,
           IF o = last_shard_offset[w] THEN current_count[w]
                                       ELSE mapping[GramOf(ShardOf(job[w]), o)].count)

Counting == \A w \in Worker : pc[w] = "count" => CountingAt(w)

(* for the shards that nobody counts they are those of all pairs.          *)
CountedAll(s) ==
  \A o \in Offset : Run(consolidated[s], Len(consolidated[s]), o, mapping[GramOf(s, o)].count)

Counted ==
  \A s \in Shard : (\A w \in Worker : pc[w] = "count" => ShardOf(job[w]) # s) => CountedAll(s)

CountsInv == Counting /\ Counted

(* A run that does not go on is the same among one more pair.              *)
LEMMA RunKept ==
  ASSUME NEW b, NEW n \in Nat, NEW o, NEW c \in Nat, Run(b, n, o, c), b[n + 1].shard_offset # o
  PROVE  Run(b, n + 1, o, c)
<1>1. PICK a \in 0 .. n : a + c <= n /\ \A i \in 1 .. n : b[i].shard_offset = o <=> a < i /\ i <= a + c
  BY DEF Run
<1>2. a \in 0 .. n + 1 /\ a + c <= n + 1
  BY <1>1
<1>3. ASSUME NEW i \in 1 .. n + 1 PROVE b[i].shard_offset = o <=> a < i /\ i <= a + c
  <2>1. CASE i = n + 1
    BY <1>1, <2>1
  <2>2. CASE i # n + 1
    <3>1. i \in 1 .. n
      BY <1>3, <2>2
    <3> QED
      BY <1>1, <3>1
  <2> QED
    BY <2>1, <2>2
<1> QED
  BY <1>2, <1>3 DEF Run

(* A run that goes on has one pair more.                                   *)
LEMMA RunGrows ==
  ASSUME NEW b, NEW n \in Nat \ {0}, NEW o, NEW c \in Nat, Run(b, n, o, c),
         b[n].shard_offset = o, b[n + 1].shard_offset = o
  PROVE  Run(b, n + 1, o, c + 1)
<1>1. PICK a \in 0 .. n : a + c <= n /\ \A i \in 1 .. n : b[i].shard_offset = o <=> a < i /\ i <= a + c
  BY DEF Run
<1>2. a + c = n /\ a \in 0 .. n + 1 /\ a + (c + 1) <= n + 1
  <2>1. n \in 1 .. n
    OBVIOUS
  <2>2. n <= a + c
    BY <1>1, <2>1
  <2> QED
    BY <1>1, <2>2
<1>3. ASSUME NEW i \in 1 .. n + 1 PROVE b[i].shard_offset = o <=> a < i /\ i <= a + (c + 1)
  <2>1. CASE i = n + 1
    BY <1>1, <1>2, <2>1
  <2>2. CASE i # n + 1
    <3>1. i \in 1 .. n
      BY <1>3, <2>2
    <3>2. i <= a + (c + 1) <=> i <= a + c
      BY <1>2, <3>1
    <3> QED
      BY <1>1, <3>1, <3>2
  <2> QED
    BY <2>1, <2>2
<1> QED
  BY <1>2, <1>3 DEF Run

(* In a sorted block, a pair of another trigram than the one before it is  *)
(* the first of its trigram.                                               *)
LEMMA RunBegins ==
  ASSUME NEW b \in Seq(Pair), Sorted(b), NEW n \in Nat, n + 1 \in DOMAIN b,
         n # 0 => b[n].shard_offset # b[n + 1].shard_offset
  PROVE  Run(b, n + 1, b[n + 1].shard_offset, 1)
<1> DEFINE o == b[n + 1].shard_offset
<1>1. \A i \in DOMAIN b : b[i].shard_offset \in Int /\ b[i].line_id \in Int
  <2>1. \A i \in DOMAIN b : b[i] \in Pair
    OBVIOUS
  <2> QED
    BY <2>1, PairFields, ShardDataAssumption DEF Offset, LineId
<1>2. /\ \A i \in 1 .. n + 1 : i \in DOMAIN b
      /\ \A i, j \in DOMAIN b : i < j => b[i].shard_offset <= b[j].shard_offset
  BY <1>1 DEF Sorted, PairLess
<1>3. ASSUME NEW i \in 1 .. n PROVE b[i].shard_offset # o
  <2>1. n \in 1 .. n + 1 /\ n \in DOMAIN b /\ i \in DOMAIN b /\ n # 0 /\ n < n + 1 /\ (i = n \/ i < n)
    BY <1>2, <1>3
  <2>2. b[i].shard_offset <= b[n].shard_offset
    BY <1>1, <1>2, <2>1
  <2>3. b[n].shard_offset < o
    BY <1>1, <1>2, <2>1
  <2> QED
    BY <1>1, <2>1, <2>2, <2>3
<1>4. \A i \in 1 .. n + 1 : b[i].shard_offset = o <=> n < i /\ i <= n + 1
  <2> SUFFICES ASSUME NEW i \in 1 .. n + 1
               PROVE b[i].shard_offset = o <=> n < i /\ i <= n + 1
    OBVIOUS
  <2>1. i = n + 1 \/ i \in 1 .. n
    OBVIOUS
  <2> HIDE DEF o
  <2>2. b[n + 1].shard_offset = o
    BY DEF o
  <2> QED
    BY <1>3, <2>1, <2>2
<1>5. n \in 0 .. n + 1 /\ n + 1 <= n + 1
  OBVIOUS
<1> QED
  BY <1>4, <1>5 DEF Run


(* What storing a count does to the mapping.                               *)
LEMMA CountStored ==
  ASSUME TypeInv, NEW w \in Worker, pc[w] \in Busy, last_shard_offset[w] # NoOffset, StoreCount(w)
  PROVE  \A s \in Shard, o \in Offset :
           mapping'[GramOf(s, o)].count =
             IF s = ShardOf(job[w]) /\ o = last_shard_offset[w] THEN current_count[w]
             ELSE mapping[GramOf(s, o)].count
<1>1. ShardOf(job[w]) \in Shard /\ last_shard_offset[w] \in Offset
  BY BusyTypes DEF TypeInv, TypeOK
<1>2. mapping \in [Gram -> [offset : Nat, count : Nat]]
  BY DEF TypeInv, TypeOK
<1> DEFINE h == GramOf(ShardOf(job[w]), last_shard_offset[w])
<1>3. h \in Gram
  BY <1>1, GramParts
<1>4. mapping' = [mapping EXCEPT ![h] = [offset |-> mapping[h].offset, count |-> current_count[w]]]
  BY DEF StoreCount
<1> SUFFICES ASSUME NEW s \in Shard, NEW o \in Offset
             PROVE  mapping'[GramOf(s, o)].count =
                      IF s = ShardOf(job[w]) /\ o = last_shard_offset[w] THEN current_count[w]
                      ELSE mapping[GramOf(s, o)].count
  OBVIOUS
<1>5. GramOf(s, o) \in Gram /\ (GramOf(s, o) = h <=> s = ShardOf(job[w]) /\ o = last_shard_offset[w])
  BY <1>1, GramParts
<1> HIDE DEF h
<1>6. mapping'[GramOf(s, o)] = IF GramOf(s, o) = h
                              THEN [offset |-> mapping[h].offset, count |-> current_count[w]]
                              ELSE mapping[GramOf(s, o)]
  BY <1>2, <1>3, <1>4, <1>5
<1> QED
  BY <1>5, <1>6

(* The counts are numbers.                                                 *)
LEMMA CountTypes ==
  ASSUME TypeInv
  PROVE  /\ \A s \in Shard, o \in Offset : mapping[GramOf(s, o)].count \in Nat
         /\ \A w \in Worker : /\ current_count[w] \in Nat /\ pair[w] \in Nat \ {0}
                              /\ last_shard_offset[w] \in Offset \cup {NoOffset}
BY GramParts DEF TypeInv, TypeOK

(* The pairs that a busy worker works on are sorted.                       *)
LEMMA PairsSorted ==
  ASSUME IInv, NEW w \in Worker, pc[w] \in Busy
  PROVE  Pairs(w) \in Seq(Pair) /\ Sorted(Pairs(w)) /\ ShardOf(job[w]) \in Shard
<1>1. ShardOf(job[w]) \in Shard /\ Pairs(w) \in Seq(Pair) /\ Pairs(w) # <<>>
  BY BusyTypes DEF IInv, Blocks
<1> QED
  BY <1>1 DEF IInv, Blocks, Pairs, Sortings

(* Counting one pair more.                                                 *)
LEMMA OneCounted ==
  ASSUME IInv, CountsInv, NEW w \in Worker, CountPair(w)
  PROVE  CountingAt(w)'
<1> DEFINE b == Pairs(w)
           n == pair[w] - 1
           s == ShardOf(job[w])
           o == b[n + 1].shard_offset
           last == last_shard_offset[w]
           new == last # NoOffset /\ last # o
           C(p) == mapping[GramOf(s, p)].count
<1>1. pc[w] = "count" /\ pc[w] \in Busy /\ pair[w] <= Len(b)
  BY DEF CountPair, Busy
<1>2. /\ UNCHANGED <<shards, non_empty_shards, job, consolidated>>
      /\ new => StoreCount(w)
      /\ ~new => UNCHANGED mapping
      /\ current_count'[w] = IF new THEN 1 ELSE current_count[w] + 1
      /\ last_shard_offset'[w] = o /\ pair'[w] = pair[w] + 1
  <2>1. w \in DOMAIN current_count /\ w \in DOMAIN last_shard_offset /\ w \in DOMAIN pair
    BY DEF IInv, TypeInv, TypeOK
  <2>2. n + 1 = pair[w]
    BY CountTypes DEF IInv
  <2> QED
    BY <2>1, <2>2 DEF CountPair, mainVars
<1>3. b \in Seq(Pair) /\ Sorted(b) /\ s \in Shard
  BY <1>1, PairsSorted
<1>4. n \in Nat /\ n + 1 \in DOMAIN b /\ pair[w] = n + 1 /\ Len(b) \in Nat
  BY <1>1, <1>3, CountTypes DEF IInv
<1>5. b[n + 1] \in Pair /\ o \in Offset
  <2>1. b[n + 1] \in Pair
    BY <1>3, <1>4
  <2> QED
    BY <2>1, PairFields
<1>6. CountingAt(w)
  BY <1>1 DEF CountsInv, Counting
<1>7. /\ n = 0 => last = NoOffset /\ current_count[w] = 0
      /\ n # 0 => last = b[n].shard_offset /\ last # NoOffset /\ last \in Offset
      /\ \A p \in Offset : Run(b, n, p, IF p = last THEN current_count[w] ELSE C(p))
  <2>1. n # 0 => n \in DOMAIN b /\ b[n] \in Pair
    BY <1>3, <1>4
  <2>2. n # 0 => b[n].shard_offset \in Offset /\ b[n].shard_offset # NoOffset
    BY <2>1, PairFields, ShardDataAssumption DEF Offset, NoOffset
  <2> QED
    BY <1>4, <1>6, <2>2 DEF CountingAt
<1>8. Pairs(w)' = b /\ ShardOf(job[w])' = s
  BY <1>2 DEF Pairs, ShardOf
<1>9. \A p \in Offset : mapping'[GramOf(s, p)].count = IF new /\ p = last THEN current_count[w] ELSE C(p)
  <2>1. CASE new
    BY <1>1, <1>2, <1>3, <2>1, CountStored DEF IInv
  <2>2. CASE ~new
    BY <1>2, <2>2
  <2> QED
    BY <2>1, <2>2
<1>10. current_count[w] \in Nat /\ \A p \in Offset : C(p) \in Nat
  BY <1>3, CountTypes DEF IInv
<1> HIDE DEF b, n, s, o, last, C, new
<1>11. Run(b, n + 1, o, current_count'[w])
  <2>1. CASE n = 0
    <3>1. Run(b, n + 1, o, 1)
      BY <1>3, <1>4, <2>1, RunBegins DEF o
    <3>2. current_count'[w] = 1
      BY <1>2, <1>7, <2>1 DEF new
    <3> QED
      BY <3>1, <3>2
  <2>2. CASE n # 0 /\ last = o
    <3>1. Run(b, n, o, current_count[w]) /\ b[n].shard_offset = o
      BY <1>5, <1>7, <2>2
    <3>2. Run(b, n + 1, o, current_count[w] + 1)
      BY <1>4, <1>10, <2>2, <3>1, RunGrows DEF o
    <3> QED
      BY <1>2, <2>2, <3>2 DEF new
  <2>3. CASE n # 0 /\ last # o
    <3>1. b[n].shard_offset # o
      BY <1>7, <2>3
    <3>2. Run(b, n + 1, o, 1)
      BY <1>3, <1>4, <3>1, RunBegins DEF o
    <3>3. current_count'[w] = 1
      BY <1>2, <1>7, <2>3 DEF new
    <3> QED
      BY <3>2, <3>3
  <2> QED
    BY <2>1, <2>2, <2>3
<1>12. ASSUME NEW p \in Offset, p # o PROVE Run(b, n + 1, p, mapping'[GramOf(s, p)].count)
  <2>1. b[n + 1].shard_offset # p
    BY <1>12 DEF o
  <2>2. p = last => new
    BY <1>7, <1>12, ShardDataAssumption DEF new, Offset, NoOffset
  <2>3. Run(b, n, p, mapping'[GramOf(s, p)].count) /\ mapping'[GramOf(s, p)].count \in Nat
    BY <1>7, <1>9, <1>10, <2>2
  <2> QED
    BY <1>4, <2>1, <2>3, RunKept
<1>13. /\ pair'[w] = n + 2 /\ pair'[w] - 1 = n + 1 /\ pair'[w] <= Len(b) + 1 /\ pair'[w] # 1
  BY <1>1, <1>2, <1>4
<1>14. last_shard_offset'[w] = b[pair'[w] - 1].shard_offset
  BY <1>2, <1>13 DEF o
<1>15. \A p \in Offset :
         Run(b, pair'[w] - 1, p, IF p = last_shard_offset'[w] THEN current_count'[w]
                                 ELSE mapping'[GramOf(s, p)].count)
  BY <1>2, <1>11, <1>12, <1>13
<1> QED
  BY <1>8, <1>13, <1>14, <1>15 DEF CountingAt


(* Two workers that count, or are about to, do so in different shards.     *)
LEMMA CountersDiffer ==
  ASSUME IInv, NEW v \in Worker, NEW w \in Worker, v # w,
         job[v] < NumJobs, job[w] < NumJobs
  PROVE  ShardOf(job[v]) # ShardOf(job[w])
<1>1. job[v] \in 0 .. NumJobs - 1 /\ job[w] \in 0 .. NumJobs - 1
  BY DEF IInv, TypeInv, TypeOK, NumJobs
<1>2. job[v] # job[w]
  BY JobsDiffer DEF IInv
<1> QED
  BY <1>1, <1>2, ShardsDiffer DEF IInv

(* A worker whose shard keeps its counts goes on as it was.                *)
LEMMA CountingSame ==
  ASSUME NEW v \in Worker, CountingAt(v), ShardOf(job[v]) \in Shard,
         Pairs(v)' = Pairs(v), ShardOf(job[v])' = ShardOf(job[v]),
         pair'[v] = pair[v], last_shard_offset'[v] = last_shard_offset[v],
         current_count'[v] = current_count[v],
         \A o \in Offset : mapping'[GramOf(ShardOf(job[v]), o)].count =
                           mapping[GramOf(ShardOf(job[v]), o)].count
  PROVE  CountingAt(v)'
BY DEF CountingAt

(* The counts of a shard nobody counts are left alone.                     *)
LEMMA CountedSame ==
  ASSUME NEW s \in Shard, CountedAll(s), consolidated'[s] = consolidated[s],
         \A o \in Offset : mapping'[GramOf(s, o)].count = mapping[GramOf(s, o)].count
  PROVE  CountedAll(s)'
BY DEF CountedAll

(* A worker begins with a shard of which nothing has been counted.         *)
LEMMA CountsBegin ==
  ASSUME IInv, CountsInv, NEW w \in Worker, Consolidate(w)
  PROVE  CountsInv'
<1> DEFINE s == ShardOf(job[w])
<1>1. /\ pc[w] = "take" /\ job[w] < NumJobs
      /\ UNCHANGED <<shards, non_empty_shards, mapping, job>>
      /\ pc' = [pc EXCEPT ![w] = "count"] /\ pair' = [pair EXCEPT ![w] = 1]
      /\ last_shard_offset' = [last_shard_offset EXCEPT ![w] = NoOffset]
      /\ current_count' = [current_count EXCEPT ![w] = 0]
  BY DEF Consolidate, Goto, mainVars
<1>2. /\ s \in Shard /\ shards[s] \in Seq(Pair) /\ consolidated[s] = <<>>
  BY <1>1, TakenShard DEF IInv
<1>3. /\ \A t : ShardOf(t)' = ShardOf(t)
      /\ \A v \in Worker : pc'[v] = IF v = w THEN "count" ELSE pc[v]
      /\ \A v \in Worker : v # w => /\ pair'[v] = pair[v] /\ current_count'[v] = current_count[v]
                                    /\ last_shard_offset'[v] = last_shard_offset[v]
      /\ pair'[w] = 1 /\ last_shard_offset'[w] = NoOffset /\ current_count'[w] = 0
      /\ \A t \in Shard : t # s => consolidated'[t] = consolidated[t]
      /\ consolidated'[s] \in Sortings(shards[s])
  <2>1. /\ DOMAIN pc = Worker /\ DOMAIN pair = Worker /\ DOMAIN last_shard_offset = Worker
        /\ DOMAIN current_count = Worker /\ DOMAIN consolidated = Shard
    BY DEF IInv, TypeInv, TypeOK
  <2>2. \E sorted \in Sortings(shards[s]) : consolidated' = [consolidated EXCEPT ![s] = sorted]
    BY DEF Consolidate
  <2> QED
    BY <1>1, <1>2, <2>1, <2>2 DEF ShardOf
<1>4. ASSUME NEW v \in Worker, v # w, pc[v] = "count" PROVE ShardOf(job[v]) # s /\ ShardOf(job[v]) \in Shard
  <2>1. pc[v] \in Busy /\ job[v] < NumJobs
    BY <1>4 DEF Busy, IInv, TypeInv, JobsExist
  <2> QED
    BY <1>1, <1>4, <2>1, CountersDiffer, BusyTypes DEF IInv
<1>5. \A o \in Offset : mapping[GramOf(s, o)].count = 0
  <2>1. CountedAll(s)
    BY <1>1, <1>2, <1>4 DEF CountsInv, Counted
  <2>2. ASSUME NEW o \in Offset PROVE mapping[GramOf(s, o)].count = 0
    <3>1. Run(<<>>, 0, o, mapping[GramOf(s, o)].count)
      BY <1>2, <2>1 DEF CountedAll
    <3>2. mapping[GramOf(s, o)].count \in Nat
      BY <1>2, CountTypes DEF IInv
    <3> QED
      BY <3>1, <3>2 DEF Run
  <2> QED
    BY <2>2
<1> HIDE DEF s
<1>6. CountingAt(w)'
  <2>1. Pairs(w)' = consolidated'[s] /\ ShardOf(job[w])' = s
    BY <1>1, <1>3 DEF Pairs, s
  <2>2. Len(consolidated'[s]) \in Nat
    BY <1>2, <1>3, SortingsType
  <2>3. \A b, o : Run(b, 0, o, 0)
    BY DEF Run
  <2>4. \A o \in Offset : mapping'[GramOf(s, o)].count = 0
    BY <1>1, <1>5
  <2>5. pair'[w] - 1 = 0 /\ pair'[w] <= Len(consolidated'[s]) + 1
    BY <1>3, <2>2
  <2> QED
    BY <1>3, <2>1, <2>3, <2>4, <2>5 DEF CountingAt
<1>7. Counting'
  <2> SUFFICES ASSUME NEW v \in Worker, pc'[v] = "count" PROVE CountingAt(v)'
    BY DEF Counting
  <2>1. CASE v # w
    <3>1. pc[v] = "count" /\ CountingAt(v)
      BY <1>3, <2>1 DEF CountsInv, Counting
    <3>2. ShardOf(job[v]) # s /\ ShardOf(job[v]) \in Shard
      BY <1>4, <2>1, <3>1
    <3>3. Pairs(v)' = Pairs(v) /\ ShardOf(job[v])' = ShardOf(job[v])
      BY <1>1, <1>3, <3>2 DEF Pairs
    <3> QED
      BY <1>1, <1>3, <2>1, <3>1, <3>2, <3>3, CountingSame
  <2> QED
    BY <1>6, <2>1
<1>8. Counted'
  <2> SUFFICES ASSUME NEW t \in Shard, \A v \in Worker : pc'[v] = "count" => ShardOf(job[v])' # t
               PROVE  CountedAll(t)'
    BY DEF Counted
  <2>1. t # s
    BY <1>1, <1>3 DEF s
  <2>2. \A v \in Worker : pc[v] = "count" => ShardOf(job[v]) # t
    BY <1>1, <1>3
  <2>3. CountedAll(t)
    BY <2>2 DEF CountsInv, Counted
  <2> QED
    BY <1>1, <1>3, <2>1, <2>3, CountedSame
<1> QED
  BY <1>7, <1>8 DEF CountsInv

(* A step of a worker that counts leaves the counts of the other shards.   *)
LEMMA OthersCount ==
  ASSUME IInv, CountsInv, NEW w \in Worker, CountPair(w) \/ CountLast(w)
  PROVE  /\ \A v \in Worker : v # w /\ pc[v] = "count" => CountingAt(v)'
         /\ \A t \in Shard : t # ShardOf(job[w]) /\ CountedAll(t) => CountedAll(t)'
<1>1. /\ pc[w] = "count" /\ pc[w] \in Busy /\ UNCHANGED <<non_empty_shards, job, consolidated>>
      /\ \A v \in Worker : v # w => /\ pair'[v] = pair[v] /\ current_count'[v] = current_count[v]
                                    /\ last_shard_offset'[v] = last_shard_offset[v]
  BY DEF CountPair, CountLast, mainVars, countVars, Busy, IInv, TypeInv, TypeOK
<1>2. (StoreCount(w) /\ last_shard_offset[w] # NoOffset) \/ UNCHANGED mapping
  BY <1>1 DEF CountPair, CountLast, IInv, TypeInv, RunKnown
<1>3. \A t \in Shard, o \in Offset :
        t # ShardOf(job[w]) => mapping'[GramOf(t, o)].count = mapping[GramOf(t, o)].count
  <2>1. CASE StoreCount(w) /\ last_shard_offset[w] # NoOffset
    BY <1>1, <2>1, CountStored DEF IInv
  <2> QED
    BY <1>2, <2>1
<1>4. ASSUME NEW v \in Worker, v # w, pc[v] = "count" PROVE CountingAt(v)'
  <2>1. pc[v] \in Busy /\ job[v] < NumJobs /\ job[w] < NumJobs
    BY <1>1, <1>4 DEF Busy, IInv, TypeInv, JobsExist
  <2>2. ShardOf(job[v]) # ShardOf(job[w]) /\ ShardOf(job[v]) \in Shard
    BY <1>1, <1>4, <2>1, CountersDiffer, BusyTypes DEF IInv
  <2>3. CountingAt(v) /\ Pairs(v)' = Pairs(v) /\ ShardOf(job[v])' = ShardOf(job[v])
    BY <1>1, <1>4 DEF CountsInv, Counting, Pairs, ShardOf
  <2> QED
    BY <1>1, <1>3, <1>4, <2>2, <2>3, CountingSame
<1>5. ASSUME NEW t \in Shard, t # ShardOf(job[w]), CountedAll(t) PROVE CountedAll(t)'
  BY <1>1, <1>3, <1>5, CountedSame
<1> QED
  BY <1>4, <1>5


(* The last count is stored: the shard is counted.                         *)
LEMMA LastCounted ==
  ASSUME IInv, CountsInv, NEW w \in Worker, CountLast(w), NEW s, s = ShardOf(job[w])
  PROVE  CountedAll(s)'
<1> DEFINE b == Pairs(w)
           last == last_shard_offset[w]
           C(o) == mapping[GramOf(s, o)].count
<1>1. /\ pc[w] = "count" /\ pc[w] \in Busy /\ pair[w] > Len(b)
      /\ UNCHANGED <<non_empty_shards, job, consolidated>>
  BY DEF CountLast, mainVars, Busy
<1>2. b \in Seq(Pair) /\ s \in Shard /\ Len(b) \in Nat
  BY <1>1, PairsSorted
<1>3. CountingAt(w) /\ pair[w] = Len(b) + 1
  BY <1>1, <1>2, CountTypes DEF CountsInv, Counting, CountingAt, IInv
<1>4. /\ Len(b) = 0 => last = NoOffset
      /\ Len(b) # 0 => last = b[Len(b)].shard_offset
      /\ \A o \in Offset : Run(b, Len(b), o, IF o = last THEN current_count[w] ELSE C(o))
  BY <1>2, <1>3 DEF CountingAt
<1>5. CountedAll(s)' <=> \A o \in Offset : Run(b, Len(b), o, mapping'[GramOf(s, o)].count)
  BY <1>1 DEF CountedAll, Pairs, ShardOf
<1>6. last \in Offset => last # NoOffset
  BY ShardDataAssumption DEF Offset, NoOffset
<1> HIDE DEF b, last, C
<1>7. CASE current_count[w] # 0
  <2>1. last # NoOffset /\ StoreCount(w)
    BY <1>1, <1>7 DEF CountLast, IInv, TypeInv, RunKnown, last
  <2>2. \A o \in Offset : mapping'[GramOf(s, o)].count = IF o = last THEN current_count[w] ELSE C(o)
    BY <1>1, <1>2, <2>1, CountStored DEF IInv, last, C
  <2> QED
    BY <1>4, <1>5, <2>2
<1>8. CASE current_count[w] = 0
  <2>1. UNCHANGED mapping
    BY <1>8 DEF CountLast
  <2>2. last \notin Offset
    <3> SUFFICES ASSUME last \in Offset PROVE FALSE
      OBVIOUS
    <3>1. Len(b) # 0 /\ b[Len(b)].shard_offset = last /\ Run(b, Len(b), last, 0)
      BY <1>4, <1>6, <1>8
    <3>2. Len(b) \in 1 .. Len(b)
      BY <1>2, <3>1
    <3>3. \A a \in 0 .. Len(b) : ~(a < Len(b) /\ Len(b) <= a + 0)
      BY <1>2
    <3> QED
      BY <3>1, <3>2, <3>3 DEF Run
  <2> QED
    BY <1>4, <1>5, <2>1, <2>2 DEF C
<1> QED
  BY <1>7, <1>8

(* Every step keeps the counts what the sorted blocks say.                 *)
LEMMA CountsStep == IInv /\ CountsInv /\ [Next]_vars => CountsInv'
<1> SUFFICES ASSUME IInv, CountsInv, [Next]_vars PROVE CountsInv'
  OBVIOUS
<1>0. /\ DOMAIN pc = Worker
      /\ \A v \in Worker : pc[v] = "count" => pc[v] \in Busy /\ ShardOf(job[v]) \in Shard
  BY BusyTypes DEF IInv, TypeInv, TypeOK, Busy
<1>1. ASSUME NEW w \in Worker, CountPair(w) PROVE CountsInv'
  <2>1. pc[w] = "count" /\ UNCHANGED <<pc, job, non_empty_shards>>
    BY <1>1 DEF CountPair, mainVars
  <2>2. Counting'
    BY <1>1, <2>1, OneCounted, OthersCount DEF Counting
  <2>3. ASSUME NEW t \in Shard, \A v \in Worker : pc'[v] = "count" => ShardOf(job[v])' # t
        PROVE  CountedAll(t)'
    <3>1. \A v \in Worker : pc[v] = "count" => ShardOf(job[v]) # t
      BY <2>1, <2>3 DEF ShardOf
    <3>2. CountedAll(t) /\ t # ShardOf(job[w])
      BY <2>1, <3>1 DEF CountsInv, Counted
    <3> QED
      BY <1>1, <3>2, OthersCount
  <2> QED
    BY <2>2, <2>3 DEF CountsInv, Counted
<1>2. ASSUME NEW w \in Worker, CountLast(w) PROVE CountsInv'
  <2>1. /\ pc[w] = "count" /\ UNCHANGED <<job, non_empty_shards>>
        /\ \A v \in Worker : pc'[v] = IF v = w THEN "lock" ELSE pc[v]
    BY <1>0, <1>2 DEF CountLast, mainVars, Goto
  <2>2. Counting'
    BY <1>2, <2>1, OthersCount DEF Counting
  <2>3. ASSUME NEW t \in Shard, \A v \in Worker : pc'[v] = "count" => ShardOf(job[v])' # t
        PROVE  CountedAll(t)'
    <3>1. CASE t = ShardOf(job[w])
      BY <1>2, <3>1, LastCounted
    <3>2. CASE t # ShardOf(job[w])
      <4>1. \A v \in Worker : pc[v] = "count" => ShardOf(job[v]) # t
        BY <2>1, <2>3, <3>2 DEF ShardOf
      <4>2. CountedAll(t)
        BY <4>1 DEF CountsInv, Counted
      <4> QED
        BY <1>2, <3>2, <4>2, OthersCount
    <3> QED
      BY <3>1, <3>2
  <2> QED
    BY <2>2, <2>3 DEF CountsInv, Counted
<1>3. ASSUME UNCHANGED consolidated,
             \A g \in Gram : mapping'[g].count = mapping[g].count,
             \A v \in Worker : pc'[v] = "count" <=> pc[v] = "count",
             \A v \in Worker : pc[v] = "count" =>
               /\ ShardOf(job[v])' = ShardOf(job[v])
               /\ pair'[v] = pair[v] /\ current_count'[v] = current_count[v]
               /\ last_shard_offset'[v] = last_shard_offset[v]
      PROVE  CountsInv'
  <2>1. \A s \in Shard, o \in Offset : mapping'[GramOf(s, o)].count = mapping[GramOf(s, o)].count
    BY <1>3, GramParts
  <2>2. ASSUME NEW v \in Worker, pc'[v] = "count" PROVE CountingAt(v)'
    <3>1. pc[v] = "count" /\ CountingAt(v) /\ ShardOf(job[v]) \in Shard
      BY <1>0, <1>3, <2>2 DEF CountsInv, Counting
    <3>2. Pairs(v)' = Pairs(v)
      BY <1>3, <3>1 DEF Pairs
    <3> QED
      BY <1>3, <2>1, <3>1, <3>2, CountingSame
  <2>3. ASSUME NEW t \in Shard, \A v \in Worker : pc'[v] = "count" => ShardOf(job[v])' # t
        PROVE  CountedAll(t)'
    <3>1. CountedAll(t)
      BY <1>3, <2>3 DEF CountsInv, Counted
    <3> QED
      BY <1>3, <2>1, <3>1, CountedSame
  <2> QED
    BY <2>2, <2>3 DEF CountsInv, Counting, Counted
<1>4. ASSUME FindShard PROVE CountsInv'
  <2>1. /\ UNCHANGED <<consolidated, mapping, pc>> /\ \A v \in Worker : pc[v] # "count"
    BY <1>4 DEF FindShard, IInv, TypeInv, JobsExist
  <2> QED
    BY <1>3, <2>1
<1>5. ASSUME MapGram PROVE CountsInv'
  <2>1. /\ UNCHANGED <<consolidated, pc, non_empty_shards, job, pair, current_count, last_shard_offset>>
    BY <1>5 DEF MapGram, countVars
  <2>2. \A g \in Gram : mapping'[g].count = mapping[g].count
    BY <1>5 DEF MapGram, IInv, TypeInv, TypeOK
  <2> QED
    BY <1>3, <2>1, <2>2 DEF ShardOf
<1>6. ASSUME NEW w \in Worker,
             \/ Lock(w) \/ Turn(w) \/ Wait(w) \/ SpuriousWakeup(w) \/ Write(w)
             \/ Advance(w) \/ NotifyAll(w) \/ Unlock(w) \/ Return(w)
      PROVE  CountsInv'
  <2>1. /\ UNCHANGED <<consolidated, mapping, non_empty_shards, countVars>>
        /\ \A v \in Worker : pc'[v] = "count" <=> pc[v] = "count"
        /\ \A v \in Worker : pc[v] = "count" => job'[v] = job[v] /\ pair'[v] = pair[v]
    BY <1>0, <1>6
    DEF Lock, Turn, Wait, SpuriousWakeup, Write, Advance, NotifyAll, Unlock, Return, Goto,
        mainVars, IInv, TypeInv, TypeOK
  <2> QED
    BY <1>3, <2>1 DEF countVars, ShardOf
<1>7. CASE StartPool \/ Join \/ MapDone \/ UNCHANGED vars
  <2>1. UNCHANGED <<consolidated, mapping, non_empty_shards, countVars, pc, job, pair>>
    BY <1>7 DEF StartPool, Join, MapDone, vars, mainVars
  <2> QED
    BY <1>3, <2>1 DEF countVars, ShardOf
<1> QED
  BY <1>1, <1>2, <1>4, <1>5, <1>6, <1>7, CountsBegin
  DEF Next, MainStep, WorkerStep, Terminated


-----------------------------------------------------------------------------
(* A worker is done when no job is left for it, the pool when all are; and *)
(* current_job is the job of some worker, or one that unlocks made it so.  *)
Due(w) == job[w] = current_job \/ (pc[w] \in {"notify", "unlock"} /\ job[w] + 1 = current_job)

Ended ==
  /\ \A w \in Worker : pc[w] = "done" => job[w] >= NumJobs
  /\ main \in {"map", "done"} => \A w \in Worker : pc[w] = "done"
  /\ \E w \in Worker : Due(w)

(* When a worker moves on to its next job, the job whose turn it is is one *)
(* that some worker has.                                                   *)
LEMMA NextDue ==
  ASSUME IInv, NEW w \in Worker, Unlock(w)
  PROVE  \E v \in Worker : job'[v] = current_job'
<1>1. /\ pc[w] = "unlock" /\ job[w] + 1 = current_job /\ current_job' = current_job
      /\ job'[w] = job[w] + NumThreads /\ \A v \in Worker : v # w => job'[v] = job[v]
  BY DEF Unlock, IInv, Turns, TypeInv, TypeOK
<1>2. /\ NumThreads \in Nat \ {0} /\ w \in Int /\ 0 <= w /\ w < NumThreads
      /\ current_job \in Nat /\ \A v \in Worker : job[v] \in Nat
  BY WorkerInt, ProcessShardsAssumption DEF IInv, TypeInv, TypeOK
<1>3. ASSUME NEW v \in Worker, v # w PROVE job[v] >= current_job
  <2>1. pc[v] \notin Inside
    BY <1>1, <1>3, OneInside DEF Inside, IInv
  <2> QED
    BY <2>1 DEF Inside, IInv, Turns
<1>4. CASE NumThreads = 1
  BY <1>1, <1>2, <1>4
<1>5. CASE NumThreads # 1 /\ w + 1 < NumThreads
  <2>1. w + 1 \in Worker /\ w < w + 1 /\ w + 1 # w
    BY <1>2, <1>5 DEF Worker
  <2>2. job[w + 1] - job[w] \in {(w + 1) - w, (w + 1) - w - NumThreads}
    BY <2>1 DEF IInv, Turns
  <2>3. job[w + 1] >= current_job /\ job[w + 1] \in Nat /\ job[w] \in Nat
    BY <1>2, <1>3, <2>1
  <2>4. job[w + 1] = current_job
    BY <1>1, <1>2, <1>5, <2>2, <2>3
  <2> QED
    BY <1>1, <2>1, <2>4
<1>6. CASE NumThreads # 1 /\ w + 1 = NumThreads
  <2>1. 0 \in Worker /\ 0 < w
    BY <1>2, <1>6 DEF Worker
  <2>2. job[w] - job[0] \in {w - 0, w - 0 - NumThreads}
    BY <2>1 DEF IInv, Turns
  <2>3. job[0] >= current_job /\ job[0] \in Nat /\ job[w] \in Nat
    BY <1>2, <1>3, <2>1
  <2>4. job[0] = current_job
    BY <1>1, <1>2, <1>6, <2>1, <2>2, <2>3
  <2> QED
    BY <1>1, <2>1, <2>4
<1> QED
  BY <1>2, <1>4, <1>5, <1>6

(* The workers end when they have no job left.                             *)
LEMMA EndedStep == IInv /\ Ended /\ [Next]_vars => Ended'
<1> SUFFICES ASSUME IInv, Ended, [Next]_vars PROVE Ended'
  OBVIOUS
<1>0. DOMAIN pc = Worker /\ DOMAIN job = Worker
  BY DEF IInv, TypeInv, TypeOK
<1>1. PICK w \in Worker : Due(w)
  BY DEF Ended
<1>2. ASSUME NEW v \in Worker, Unlock(v) PROVE Ended'
  <2>1. /\ UNCHANGED <<main, non_empty_shards>> /\ pc[v] = "unlock"
        /\ \A u \in Worker : pc'[u] = "done" => pc[u] = "done" /\ job'[u] = job[u]
    BY <1>0, <1>2 DEF Unlock, Goto, mainVars
  <2>2. main' \notin {"map", "done"}
    BY <2>1 DEF Ended
  <2> QED
    BY <1>2, <2>1, <2>2, NextDue DEF Ended, Due, NumJobs
<1>3. ASSUME NEW v \in Worker, Advance(v) PROVE Ended'
  <2>1. /\ UNCHANGED <<main, non_empty_shards, job>> /\ pc[v] = "write" /\ pc'[v] = "notify"
        /\ \A u \in Worker : pc'[u] = "done" => pc[u] = "done"
        /\ current_job' = current_job + 1 /\ job[v] = current_job
    BY <1>0, <1>3 DEF Advance, Goto, mainVars, IInv, Turns
  <2>2. main' \notin {"map", "done"}
    BY <2>1 DEF Ended
  <2> QED
    BY <2>1, <2>2 DEF Ended, Due, NumJobs
<1>4. ASSUME NEW v \in Worker, Return(v) PROVE Ended'
  <2>1. /\ UNCHANGED <<main, non_empty_shards, job, current_job>> /\ main = "work"
        /\ \A u \in Worker : pc'[u] = IF u = v THEN "done" ELSE pc[u]
        /\ job[v] >= NumJobs /\ pc[v] = "take"
    BY <1>0, <1>4 DEF Return, Goto, mainVars
  <2> QED
    BY <1>1, <2>1 DEF Ended, Due, NumJobs
<1>5. ASSUME NEW v \in Worker,
             \/ Consolidate(v) \/ CountPair(v) \/ CountLast(v) \/ Lock(v) \/ Turn(v)
             \/ Wait(v) \/ SpuriousWakeup(v) \/ Write(v) \/ NotifyAll(v)
      PROVE  Ended'
  <2>1. /\ UNCHANGED <<main, non_empty_shards, job, current_job>> /\ pc[v] # "done"
        /\ \A u \in Worker : /\ pc'[u] = "done" => pc[u] = "done"
                             /\ pc[u] \in {"notify", "unlock"} => pc'[u] \in {"notify", "unlock"}
    BY <1>0, <1>5 DEF Consolidate, CountPair, CountLast, Lock, Turn, Wait, SpuriousWakeup, Write,
                      NotifyAll, Goto, mainVars
  <2>2. main' \notin {"map", "done"}
    BY <2>1 DEF Ended
  <2> QED
    BY <1>1, <2>1, <2>2 DEF Ended, Due, NumJobs
<1>6. CASE FindShard
  <2>1. /\ UNCHANGED <<main, pc, job, current_job>> /\ main = "find"
        /\ \A u \in Worker : pc[u] # "done"
    BY <1>6 DEF FindShard, IInv, TypeInv, JobsExist
  <2> QED
    BY <1>1, <2>1 DEF Ended, Due
<1>7. CASE StartPool \/ Join \/ MapGram \/ MapDone \/ UNCHANGED vars
  BY <1>1, <1>7 DEF StartPool, Join, MapGram, MapDone, vars, mainVars, Ended, Due, NumJobs
<1> QED
  BY <1>2, <1>3, <1>4, <1>5, <1>6, <1>7 DEF Next, MainStep, WorkerStep, Terminated

(* std::sort gives the same pairs, each as often as before, in order.      *)
LEMMA SortingsRange ==
  ASSUME NEW S, NEW s \in Seq(S), NEW t \in Sortings(s)
  PROVE  /\ Sorted(t)
         /\ \A i \in DOMAIN t : \E j \in DOMAIN s : t[i] = s[j]
         /\ \A j \in DOMAIN s : \E i \in DOMAIN t : t[i] = s[j]
         /\ IsInjective(s) => IsInjective(t)
<1>1. PICK p \in Bijection(DOMAIN s, DOMAIN s) : t = [i \in DOMAIN s |-> s[p[i]]]
  BY DEF Sortings
<1>2. /\ p \in [DOMAIN s -> DOMAIN s]
      /\ \A j \in DOMAIN s : \E i \in DOMAIN s : p[i] = j
      /\ \A i, j \in DOMAIN s : p[i] = p[j] => i = j
  BY DEF Bijection, Injection, Surjection, IsInjective
<1>3. Sorted(t)
  BY DEF Sortings
<1>4. IsInjective(s) => IsInjective(t)
  BY <1>1, <1>2 DEF IsInjective
<1> QED
  BY <1>1, <1>2, <1>3, <1>4


-----------------------------------------------------------------------------
(* When the pool has ended, the records of a trigram are one stretch of the*)
(* file, as long as its count, and the trigrams come in ascending order.   *)
FileGram(n) ==
  GramOf(index_file[n].shard, consolidated[index_file[n].shard][index_file[n].pos].shard_offset)

Stretch(g, a) ==
  /\ a \in Nat /\ a + mapping[g].count <= Len(index_file)
  /\ \A n \in DOMAIN index_file : FileGram(n) = g <=> a < n /\ n <= a + mapping[g].count

PoolInv == IInv /\ FileInv /\ CountsInv /\ Ended

(* What there is of a record.                                              *)
LEMMA RecordFacts ==
  ASSUME IInv, FileInv
  PROVE  /\ Len(index_file) \in Nat /\ DOMAIN index_file = 1 .. Len(index_file)
         /\ \A s \in Shard : /\ consolidated[s] \in Seq(Pair) /\ shards[s] \in Seq(Pair)
                             /\ Len(consolidated[s]) \in Nat
                             /\ DOMAIN consolidated[s] = 1 .. Len(consolidated[s])
         /\ \A n \in DOMAIN index_file :
              /\ index_file[n].shard \in Shard /\ index_file[n].pos \in Nat \ {0}
              /\ index_file[n].pos \in DOMAIN consolidated[index_file[n].shard]
              /\ consolidated[index_file[n].shard][index_file[n].pos] \in Pair
<1>1. /\ index_file \in Seq(Record) /\ shards \in [Shard -> Seq(Pair)]
      /\ consolidated \in [Shard -> Seq(Pair)]
  BY ProcessShardsAssumption DEF IInv, TypeInv, TypeOK
<1>2. Len(index_file) \in Nat /\ DOMAIN index_file = 1 .. Len(index_file)
  BY <1>1
<1>3. ASSUME NEW s \in Shard
      PROVE  /\ consolidated[s] \in Seq(Pair) /\ shards[s] \in Seq(Pair)
             /\ Len(consolidated[s]) \in Nat
             /\ DOMAIN consolidated[s] = 1 .. Len(consolidated[s])
  BY <1>1
<1>4. ASSUME NEW n \in DOMAIN index_file
      PROVE  /\ index_file[n].shard \in Shard /\ index_file[n].pos \in Nat \ {0}
             /\ index_file[n].pos \in DOMAIN consolidated[index_file[n].shard]
             /\ consolidated[index_file[n].shard][index_file[n].pos] \in Pair
  <2>1. index_file[n] \in Record
    BY <1>1, <1>4
  <2>2. index_file[n].shard \in Shard /\ index_file[n].pos \in Nat \ {0}
    BY <2>1 DEF Record
  <2>3. index_file[n].pos \in DOMAIN consolidated[index_file[n].shard]
    BY DEF FileInv, Recorded
  <2> QED
    BY <1>3, <2>2, <2>3
<1> QED
  BY <1>2, <1>3, <1>4

(* A block is its shard, sorted.                                           *)
LEMMA BlockOfShard ==
  ASSUME IInv, NEW s \in Shard
  PROVE  /\ consolidated[s] # <<>> => /\ consolidated[s] \in Sortings(shards[s])
                                      /\ Len(consolidated[s]) = Len(shards[s])
                                      /\ Sorted(consolidated[s])
<1>1. shards[s] \in Seq(Pair)
  BY ProcessShardsAssumption DEF IInv, TypeInv, TypeOK
<1> QED
  BY <1>1, SortingsType, SortingsRange DEF IInv, Blocks

(* The trigram of a record, and the order of the file.                     *)
LEMMA FileGrams ==
  ASSUME IInv, FileInv
  PROVE  /\ \A n \in DOMAIN index_file : FileGram(n) \in Gram
         /\ \A m, n \in DOMAIN index_file : m < n => FileGram(m) <= FileGram(n)
<1>1. ASSUME NEW n \in DOMAIN index_file
      PROVE  /\ index_file[n].shard \in Shard
             /\ consolidated[index_file[n].shard][index_file[n].pos].shard_offset \in Offset
  BY RecordFacts, PairFields
<1>2. \A n \in DOMAIN index_file : FileGram(n) \in Gram
  BY <1>1, GramParts DEF FileGram
<1>3. ASSUME NEW s \in Shard, NEW t \in Shard, NEW o \in Offset, NEW p \in Offset,
             s < t \/ (s = t /\ o <= p)
      PROVE  GramOf(s, o) <= GramOf(t, p)
  <2>1. /\ OffsetsPerShard \in Nat \ {0} /\ s \in Nat /\ t \in Nat
        /\ o \in Nat /\ p \in Nat /\ o < OffsetsPerShard
    BY ShardDataAssumption DEF Shard, Offset
  <2>2. CASE s = t
    BY <1>3, <2>1, <2>2 DEF GramOf
  <2>3. CASE s < t
    <3>1. (s + 1) * OffsetsPerShard <= t * OffsetsPerShard
      BY <2>1, <2>3
    <3>2. /\ (s + 1) * OffsetsPerShard = s * OffsetsPerShard + OffsetsPerShard
          /\ s * OffsetsPerShard \in Nat /\ t * OffsetsPerShard \in Nat
      BY <2>1
    <3> QED
      BY <2>1, <3>1, <3>2 DEF GramOf
  <2> QED
    BY <1>3, <2>2, <2>3
<1>4. ASSUME NEW m \in DOMAIN index_file, NEW n \in DOMAIN index_file, m < n
      PROVE  FileGram(m) <= FileGram(n)
  <2> DEFINE s == index_file[m].shard
             b == consolidated[s]
             j == index_file[m].pos
             k == index_file[n].pos
  <2>1. s < index_file[n].shard \/ (s = index_file[n].shard /\ j < k)
    BY <1>4 DEF FileInv, Ordered, Before
  <2>2. CASE s < index_file[n].shard
    BY <1>1, <1>3, <2>2 DEF FileGram
  <2>3. CASE s = index_file[n].shard /\ j < k
    <3>1. s \in Shard /\ j \in DOMAIN b /\ k \in DOMAIN b /\ b[j] \in Pair /\ b[k] \in Pair
      BY <2>3, RecordFacts
    <3>2. b # <<>>
      BY <3>1
    <3>3. ~PairLess(b[k], b[j])
      BY <2>3, <3>1, <3>2, BlockOfShard DEF Sorted
    <3>4. b[j].shard_offset \in Offset /\ b[k].shard_offset \in Offset
      BY <3>1, PairFields
    <3>5. b[j].shard_offset <= b[k].shard_offset
      BY <3>3, <3>4, ShardDataAssumption DEF PairLess, Offset
    <3> QED
      BY <1>3, <2>3, <3>1, <3>4, <3>5 DEF FileGram
  <2> QED
    BY <2>1, <2>2, <2>3
<1> QED
  BY <1>2, <1>4

(* Once the pool has ended, every pair has its record.                     *)
LEMMA AllRecorded ==
  ASSUME PoolInv, main \in {"map", "done"}
  PROVE  \A s \in Shard : /\ Len(consolidated[s]) = Len(shards[s])
                          /\ \A k \in 1 .. Len(shards[s]) :
                               \E n \in DOMAIN index_file : index_file[n].shard = s /\ index_file[n].pos = k
<1> USE DEF PoolInv
<1>0. Len(index_file) \in Nat /\ DOMAIN index_file = 1 .. Len(index_file)
  BY RecordFacts
<1>1. current_job = NumJobs /\ NumJobs \in Nat /\ main # "find"
  <2>1. PICK w \in Worker : Due(w)
    BY DEF Ended
  <2>2. pc[w] = "done" /\ job[w] = current_job /\ job[w] >= NumJobs
    BY <2>1 DEF Ended, Due
  <2> QED
    BY <2>2 DEF IInv, Turns, TypeInv, TypeOK, NumJobs
<1>2. IF NumJobs = 0 THEN index_file = <<>>
      ELSE EndsAt(ShardOf(NumJobs - 1), Len(shards[ShardOf(NumJobs - 1)]))
  <2>1. \A w \in Worker : ~Begun(w)
    BY DEF Ended, Begun
  <2> QED
    BY <1>1, <2>1 DEF IInv, FileEnd
<1>3. ASSUME NEW s \in Shard, NEW k \in 1 .. Len(shards[s])
      PROVE  \E n \in DOMAIN index_file : index_file[n].shard = s /\ index_file[n].pos = k
  <2>1. shards[s] \in Seq(Pair)
    BY RecordFacts
  <2>2. shards[s] # <<>> /\ k \in Nat \ {0} /\ k <= Len(shards[s])
    BY <1>3, <2>1
  <2>3. PICK i \in DOMAIN non_empty_shards : non_empty_shards[i] = s
    BY <1>1, <2>2 DEF IInv, Listed
  <2>4. /\ i \in 1 .. NumJobs /\ NumJobs # 0 /\ NumJobs \in DOMAIN non_empty_shards
        /\ (NumJobs - 1) + 1 = NumJobs
    BY <1>1, <2>3 DEF IInv, TypeInv, TypeOK, NumJobs
  <2>5. i = NumJobs \/ non_empty_shards[i] < non_empty_shards[NumJobs]
    <3>1. i = NumJobs \/ i < NumJobs
      BY <1>1, <2>4
    <3>2. Listed
      BY DEF IInv
    <3> QED
      BY <2>3, <2>4, <3>1, <3>2 DEF Listed
  <2>6. /\ index_file # <<>> /\ index_file[Len(index_file)].shard = non_empty_shards[NumJobs]
        /\ index_file[Len(index_file)].pos = Len(shards[non_empty_shards[NumJobs]])
    BY <1>2, <2>4 DEF EndsAt, ShardOf
  <2>7. UpTo(s, k, index_file[Len(index_file)])
    BY <2>2, <2>3, <2>5, <2>6 DEF UpTo
  <2> QED
    BY <2>2, <2>6, <2>7 DEF FileInv, Complete
<1>4. ASSUME NEW s \in Shard PROVE Len(consolidated[s]) = Len(shards[s])
  <2>1. shards[s] \in Seq(Pair) /\ consolidated[s] \in Seq(Pair)
    BY RecordFacts
  <2>2. CASE shards[s] = <<>>
    <3>1. consolidated[s] = <<>>
      <4> SUFFICES ASSUME consolidated[s] # <<>> PROVE FALSE
        OBVIOUS
      <4>1. Len(consolidated[s]) = 0
        BY <2>2, BlockOfShard
      <4> QED
        BY <2>1, <4>1
    <3> QED
      BY <2>2, <3>1
  <2>3. CASE shards[s] # <<>>
    <3>1. 1 \in 1 .. Len(shards[s])
      BY <2>1, <2>3
    <3>2. PICK n \in DOMAIN index_file : index_file[n].shard = s /\ index_file[n].pos = 1
      BY <1>3, <3>1
    <3>3. 1 \in DOMAIN consolidated[s]
      BY <3>2, RecordFacts
    <3> QED
      BY <3>3, BlockOfShard
  <2> QED
    BY <2>2, <2>3
<1> QED
  BY <1>3, <1>4


(* The records of a trigram are where those of its shard are, and there    *)
(* where its run is.                                                       *)
LEMMA GramStretch ==
  ASSUME PoolInv, main \in {"map", "done"}, NEW g \in Gram
  PROVE  \E a : Stretch(g, a)
<1> USE DEF PoolInv
<1> DEFINE s == ShardIndex(g)
           o == ShardOffset(g)
           b == consolidated[s]
           c == mapping[g].count
           L == Len(index_file)
<1>1. s \in Shard /\ o \in Offset /\ GramOf(s, o) = g
  BY GramParts
<1>2. /\ L \in Nat /\ DOMAIN index_file = 1 .. L
      /\ b \in Seq(Pair) /\ Len(b) \in Nat /\ DOMAIN b = 1 .. Len(b) /\ c \in Nat
      /\ \A n \in 1 .. L : /\ index_file[n].shard = s => index_file[n].pos \in 1 .. Len(b)
                           /\ index_file[n].pos \in Nat
  <2>1. L \in Nat /\ DOMAIN index_file = 1 .. L
    BY RecordFacts
  <2>2. b \in Seq(Pair) /\ Len(b) \in Nat /\ DOMAIN b = 1 .. Len(b)
    BY <1>1, RecordFacts
  <2>3. mapping[GramOf(s, o)].count \in Nat
    BY <1>1, CountTypes DEF IInv
  <2>4. c \in Nat
    BY <1>1, <2>3
  <2>5. ASSUME NEW n \in 1 .. L
        PROVE  /\ index_file[n].shard = s => index_file[n].pos \in 1 .. Len(b)
               /\ index_file[n].pos \in Nat
    BY <2>1, <2>2, <2>5, RecordFacts
  <2> QED
    BY <2>1, <2>2, <2>4, <2>5
<1>3. \A n \in 1 .. L : FileGram(n) = g <=> /\ index_file[n].shard = s
                                            /\ b[index_file[n].pos].shard_offset = o
  <2> SUFFICES ASSUME NEW n \in 1 .. L
               PROVE  FileGram(n) = g <=> /\ index_file[n].shard = s
                                          /\ b[index_file[n].pos].shard_offset = o
    OBVIOUS
  <2>1. /\ index_file[n].shard \in Shard
        /\ consolidated[index_file[n].shard][index_file[n].pos].shard_offset \in Offset
    BY <1>2, RecordFacts, PairFields
  <2> QED
    BY <1>1, <2>1, GramParts DEF FileGram
<1>4. PICK d \in 0 .. Len(b) :
         /\ d + c <= Len(b)
         /\ \A i \in 1 .. Len(b) : b[i].shard_offset = o <=> d < i /\ i <= d + c
  <2>1. CountedAll(s)
    BY <1>1 DEF CountsInv, Counted, Ended
  <2>2. Run(b, Len(b), o, c)
    BY <1>1, <2>1 DEF CountedAll
  <2> QED
    BY <2>2 DEF Run
<1> HIDE DEF s, o, b, c, L
<1>5. CASE Len(b) = 0
  <2>1. c = 0 /\ \A n \in 1 .. L : index_file[n].shard # s
    BY <1>2, <1>4, <1>5
  <2>2. 0 \in Nat /\ 0 + c <= L /\ \A n \in 1 .. L : FileGram(n) = g <=> 0 < n /\ n <= 0 + c
    BY <1>2, <1>3, <2>1
  <2> QED
    BY <1>2, <2>2 DEF Stretch, c, L
<1>6. CASE Len(b) # 0
  <2>1. PICK e \in 1 .. L : index_file[e].shard = s /\ index_file[e].pos = Len(b)
    <3>1. Len(b) = Len(shards[s]) /\ Len(b) \in 1 .. Len(b)
      BY <1>1, <1>2, <1>6, AllRecorded DEF b
    <3> QED
      BY <1>1, <1>2, <3>1, AllRecorded
  <2> DEFINE B == e - Len(b)
  <2>2. B \in Nat /\ e = B + Len(b)
    <3>1. Len(b) <= e
      BY <1>2, <2>1 DEF FileInv, Placed
    <3> QED
      BY <1>2, <3>1
  <2>3. \A k \in 1 .. Len(b) : index_file[B + k].shard = s /\ index_file[B + k].pos = k
    <3>1. \A k \in 1 .. index_file[e].pos :
            /\ index_file[e - index_file[e].pos + k].shard = index_file[e].shard
            /\ index_file[e - index_file[e].pos + k].pos = k
      BY <1>2, <2>1 DEF FileInv, Placed
    <3> QED
      BY <2>1, <3>1
  <2> HIDE DEF B
  <2>4. \A k \in 1 .. Len(b) : B + k \in 1 .. L
    BY <1>2, <2>1, <2>2
  <2>5. ASSUME NEW n \in 1 .. L, index_file[n].shard = s PROVE n = B + index_file[n].pos
    <3> DEFINE k == index_file[n].pos
    <3>1. k \in 1 .. Len(b) /\ B + k \in 1 .. L
      BY <1>2, <2>4, <2>5
    <3>2. /\ index_file[B + k].shard = index_file[n].shard
          /\ index_file[B + k].pos = index_file[n].pos
      BY <2>3, <2>5, <3>1
    <3>3. s \in Int /\ k \in Int
      BY <1>1, <3>1, ShardDataAssumption DEF Shard
    <3>4. ~Before(index_file[n], index_file[B + k]) /\ ~Before(index_file[B + k], index_file[n])
      BY <2>5, <3>2, <3>3 DEF Before
    <3>5. ~(n < B + k) /\ ~(B + k < n)
      BY <1>2, <3>1, <3>4 DEF FileInv, Ordered
    <3> QED
      BY <2>2, <3>1, <3>5
  <2>6. B + d \in Nat /\ (B + d) + c <= L
    BY <1>2, <1>4, <2>1, <2>2
  <2>7. ASSUME NEW n \in 1 .. L PROVE FileGram(n) = g <=> B + d < n /\ n <= (B + d) + c
    <3>1. CASE index_file[n].shard = s
      <4>1. n = B + index_file[n].pos /\ index_file[n].pos \in 1 .. Len(b)
        BY <1>2, <2>5, <3>1
      <4>2. FileGram(n) = g <=> d < index_file[n].pos /\ index_file[n].pos <= d + c
        BY <1>3, <1>4, <3>1, <4>1
      <4> QED
        BY <1>2, <1>4, <2>2, <4>1, <4>2
    <3>2. CASE index_file[n].shard # s
      <4>1. FileGram(n) # g
        BY <1>3, <3>2
      <4>2. ASSUME B + d < n, n <= (B + d) + c PROVE FALSE
        <5>1. n - B \in 1 .. Len(b) /\ B + (n - B) = n
          BY <1>2, <1>4, <2>2, <4>2
        <5> QED
          BY <2>3, <3>2, <5>1
      <4> QED
        BY <4>1, <4>2
    <3> QED
      BY <3>1, <3>2
  <2> QED
    BY <1>2, <2>6, <2>7 DEF Stretch, c, L
<1> QED
  BY <1>5, <1>6


-----------------------------------------------------------------------------
(* create_mapping gives each trigram that it has passed the place in the   *)
(* file after the records of the lower trigrams.                           *)
Passed(g) ==
  IF g < loop /\ mapping[g].count # 0 THEN Stretch(g, mapping[g].offset)
                                      ELSE mapping[g].offset = 0

Mapped ==
  /\ main \in {"find", "work"} => \A g \in Gram : mapping[g].offset = 0
  /\ main \in {"map", "done"} =>
       /\ loop <= NumShards * OffsetsPerShard
       /\ total_count <= Len(index_file)
       /\ \A n \in DOMAIN index_file : FileGram(n) < loop <=> n <= total_count
       /\ \A g \in Gram : Passed(g)
  /\ main = "done" => loop = NumShards * OffsetsPerShard

LookupInv == PoolInv /\ Mapped

(* The number of trigrams.                                                 *)
LEMMA GramNumbers ==
  /\ NumShards * OffsetsPerShard \in Nat
  /\ \A g : g \in Gram <=> g \in Nat /\ g < NumShards * OffsetsPerShard
<1>1. NumShards \in Nat /\ OffsetsPerShard \in Nat
  BY ShardDataAssumption
<1>2. NumShards * OffsetsPerShard \in Nat
  BY <1>1
<1> QED
  BY <1>2 DEF Gram

(* The next trigram begins where the lower ones end.                       *)
LEMMA NextStretch ==
  ASSUME LookupInv, main = "map", loop \in Gram
  PROVE  /\ mapping[loop].count # 0 => Stretch(loop, total_count)
         /\ total_count + mapping[loop].count <= Len(index_file)
         /\ \A n \in DOMAIN index_file :
              FileGram(n) < loop + 1 <=> n <= total_count + mapping[loop].count
<1> USE DEF LookupInv, PoolInv
<1> DEFINE g == loop
           c == mapping[g].count
           L == Len(index_file)
           t == total_count
<1>1. L \in Nat /\ DOMAIN index_file = 1 .. L
  BY RecordFacts
<1>2. g \in Nat /\ c \in Nat /\ t \in Nat
  BY DEF IInv, TypeInv, TypeOK
<1>3. /\ \A n \in 1 .. L : FileGram(n) \in Nat
      /\ \A m, n \in 1 .. L : m < n => FileGram(m) <= FileGram(n)
  BY <1>1, FileGrams, GramNumbers
<1>4. PICK a : Stretch(g, a)
  BY GramStretch
<1>5. a \in Nat /\ a + c <= L /\ \A n \in 1 .. L : FileGram(n) = g <=> a < n /\ n <= a + c
  BY <1>1, <1>4 DEF Stretch
<1>6. t <= L /\ \A n \in 1 .. L : FileGram(n) < g <=> n <= t
  BY <1>1 DEF Mapped
<1> HIDE DEF g, c, L, t
<1>7. ASSUME c # 0 PROVE a = t
  <2>1. a + 1 \in 1 .. L /\ FileGram(a + 1) = g
    <3>1. a + 1 \in 1 .. L /\ a < a + 1 /\ a + 1 <= a + c
      BY <1>1, <1>2, <1>5, <1>7
    <3> QED
      BY <1>5, <3>1
  <2>2. ~(a + 1 <= t)
    BY <1>2, <1>6, <2>1
  <2>3. ASSUME t < a PROVE FALSE
    <3>1. t + 1 \in 1 .. L /\ t + 1 < a + 1 /\ ~(t + 1 <= t) /\ ~(a < t + 1)
      BY <1>1, <1>2, <1>5, <2>1, <2>3
    <3>2. FileGram(t + 1) <= g /\ ~(FileGram(t + 1) < g) /\ FileGram(t + 1) # g
      BY <1>3, <1>5, <1>6, <2>1, <3>1
    <3> QED
      BY <1>2, <1>3, <3>1, <3>2
  <2> QED
    BY <1>2, <1>5, <2>2, <2>3
<1>8. t + c <= L
  BY <1>1, <1>2, <1>5, <1>6, <1>7
<1>9. ASSUME NEW n \in 1 .. L PROVE FileGram(n) < g + 1 <=> n <= t + c
  <2>1. FileGram(n) < g + 1 <=> FileGram(n) < g \/ FileGram(n) = g
    BY <1>2, <1>3
  <2>2. CASE c = 0
    <3>1. FileGram(n) # g
      BY <1>5, <2>2, <1>1
    <3> QED
      BY <1>2, <1>6, <2>1, <2>2, <3>1
  <2>3. CASE c # 0
    <3>1. FileGram(n) = g <=> t < n /\ n <= t + c
      BY <1>5, <1>7, <2>3
    <3>2. FileGram(n) < g <=> n <= t
      BY <1>6
    <3> QED
      BY <1>1, <1>2, <2>1, <3>1, <3>2
  <2> QED
    BY <2>2, <2>3
<1>10. c # 0 => Stretch(g, t)
  BY <1>4, <1>7
<1> QED
  BY <1>1, <1>8, <1>9, <1>10 DEF g, c, L, t

(* Storing a count leaves the offsets.                                     *)
LEMMA OffsetsKept ==
  ASSUME TypeInv, NEW w \in Worker, CountPair(w) \/ CountLast(w)
  PROVE  \A g \in Gram : mapping'[g].offset = mapping[g].offset
<1>1. mapping \in [Gram -> [offset : Nat, count : Nat]]
  BY DEF TypeInv, TypeOK
<1>2. StoreCount(w) \/ UNCHANGED mapping
  BY DEF CountPair, CountLast
<1> QED
  BY <1>1, <1>2 DEF StoreCount

(* Every step keeps the offsets what the file says.                        *)
LEMMA MappedStep == LookupInv /\ [Next]_vars => Mapped'
<1> SUFFICES ASSUME LookupInv, [Next]_vars PROVE Mapped'
  OBVIOUS
<1> USE DEF LookupInv, PoolInv
<1>1. ASSUME NEW w \in Worker, WorkerStep(w) \/ Lock(w) \/ SpuriousWakeup(w) PROVE Mapped'
  <2>1. pc[w] # "done" /\ main' = main /\ main \notin {"map", "done"}
    BY <1>1 DEF WorkerStep, Consolidate, CountPair, CountLast, Lock, Turn, Wait, SpuriousWakeup,
                Write, Advance, NotifyAll, Unlock, Return, mainVars, Ended
  <2>2. CASE CountPair(w) \/ CountLast(w)
    BY <2>1, <2>2, OffsetsKept DEF IInv, Mapped
  <2>3. CASE UNCHANGED mapping
    BY <2>1, <2>3 DEF Mapped
  <2> QED
    BY <1>1, <2>2, <2>3
    DEF WorkerStep, Consolidate, Lock, Turn, Wait, SpuriousWakeup,
        Write, Advance, NotifyAll, Unlock, Return, mainVars
<1>2. CASE FindShard \/ StartPool
  BY <1>2 DEF FindShard, StartPool, Mapped
<1>3. CASE Join
  <2>1. /\ main = "work" /\ main' = "map" /\ loop' = 0 /\ total_count' = 0
        /\ UNCHANGED <<mapping, index_file, consolidated>>
    BY <1>3 DEF Join
  <2>2. Len(index_file) \in Nat /\ DOMAIN index_file = 1 .. Len(index_file)
    BY RecordFacts
  <2>3. \A n \in DOMAIN index_file : FileGram(n) \in Nat
    BY FileGrams, GramNumbers
  <2>4. \A n \in DOMAIN index_file : FileGram(n)' = FileGram(n)
    BY <2>1 DEF FileGram
  <2>5. \A n \in DOMAIN index_file : FileGram(n) < 0 <=> n <= 0
    BY <2>2, <2>3
  <2>6. \A g \in Gram : mapping[g].offset = 0 /\ ~(g < 0)
    BY <2>1, GramNumbers DEF Mapped
  <2> QED
    BY <2>1, <2>2, <2>4, <2>5, <2>6, GramNumbers DEF Mapped, Passed
<1>4. CASE MapGram
  <2>1. /\ main = "map" /\ main' = "map" /\ loop \in Gram /\ loop' = loop + 1
        /\ UNCHANGED <<index_file, consolidated>>
    BY <1>4 DEF MapGram
  <2>2. /\ mapping \in [Gram -> [offset : Nat, count : Nat]] /\ total_count \in Nat
    BY DEF IInv, TypeInv, TypeOK
  <2>3. /\ total_count' = total_count + mapping[loop].count
        /\ \A g \in Gram :
             /\ mapping'[g].count = mapping[g].count
             /\ g = loop /\ mapping[g].count # 0 => mapping'[g].offset = total_count
             /\ g # loop \/ mapping[g].count = 0 => mapping'[g] = mapping[g]
    BY <1>4, <2>1, <2>2 DEF MapGram
  <2>4. \A n, g, a : FileGram(n)' = FileGram(n) /\ (mapping'[g].count = mapping[g].count => Stretch(g, a)' = Stretch(g, a))
    BY <2>1 DEF FileGram, Stretch
  <2>5. \A g \in Gram : Passed(g)'
    <3> SUFFICES ASSUME NEW g \in Gram PROVE Passed(g)'
      OBVIOUS
    <3>1. mapping'[g].count = mapping[g].count
      BY <2>3
    <3>2. Passed(g)
      BY <2>1 DEF Mapped
    <3>3. CASE g = loop
      <4>1. g < loop + 1 /\ ~(g < loop)
        BY <2>1, <3>3, GramNumbers
      <4>2. mapping[g].offset = 0
        BY <3>2, <4>1 DEF Passed
      <4>3. CASE mapping[g].count = 0
        BY <2>3, <3>1, <4>2, <4>3 DEF Passed
      <4>4. CASE mapping[g].count # 0
        <5>1. Stretch(g, total_count) /\ mapping'[g].offset = total_count
          BY <2>1, <2>3, <3>3, <4>4, NextStretch
        <5> QED
          BY <2>1, <2>4, <3>1, <4>1, <4>4, <5>1 DEF Passed
      <4> QED
        BY <4>3, <4>4
    <3>4. CASE g # loop
      <4>1. g < loop + 1 <=> g < loop
        BY <2>1, <3>4, GramNumbers
      <4>2. mapping'[g] = mapping[g]
        BY <2>3, <3>4
      <4> QED
        BY <2>1, <2>4, <3>2, <4>1, <4>2 DEF Passed
    <3> QED
      BY <3>3, <3>4
  <2>6. loop' <= NumShards * OffsetsPerShard
    BY <2>1, GramNumbers
  <2>7. /\ total_count' <= Len(index_file')
        /\ \A n \in DOMAIN index_file' : FileGram(n)' < loop' <=> n <= total_count'
    BY <2>1, <2>3, <2>4, NextStretch
  <2> QED
    BY <2>1, <2>5, <2>6, <2>7 DEF Mapped
<1>5. CASE MapDone
  <2>1. /\ main = "map" /\ main' = "done" /\ loop \notin Gram
        /\ UNCHANGED <<loop, total_count, mapping, index_file, consolidated>>
    BY <1>5 DEF MapDone
  <2>2. loop = NumShards * OffsetsPerShard
    <3>1. loop \in Nat /\ loop <= NumShards * OffsetsPerShard
      BY <2>1 DEF Mapped, IInv, TypeInv, TypeOK
    <3> QED
      BY <2>1, <3>1, GramNumbers
  <2> QED
    BY <2>1, <2>2 DEF Mapped, Passed, Stretch, FileGram
<1>6. CASE UNCHANGED vars
  BY <1>6 DEF vars, mainVars, Mapped, Passed, Stretch, FileGram
<1> QED
  BY <1>1, <1>2, <1>3, <1>4, <1>5, <1>6 DEF Next, MainStep, Terminated


-----------------------------------------------------------------------------
(* The k-th line that a lookup of g finds is that of the k-th record of g. *)
LEMMA LookupRecord ==
  ASSUME LookupInv, main = "done", NEW g \in Gram, NEW k \in 1 .. mapping[g].count
  PROVE  LET n == mapping[g].offset + k
             r == index_file[n]
             b == consolidated[ShardIndex(g)]
         IN  /\ n \in DOMAIN index_file /\ r.shard = ShardIndex(g)
             /\ r.pos \in DOMAIN b /\ b[r.pos].shard_offset = ShardOffset(g) /\ b[r.pos] \in Pair
             /\ Lookup(g)[k] = b[r.pos].line_id
<1> USE DEF LookupInv, PoolInv
<1> DEFINE n == mapping[g].offset + k
           L == Len(index_file)
<1>1. mapping[g].count \in Nat /\ mapping[g].offset \in Nat /\ L \in Nat /\ DOMAIN index_file = 1 .. L
  BY RecordFacts DEF IInv, TypeInv, TypeOK
<1>2. Stretch(g, mapping[g].offset)
  <2>1. g < loop /\ mapping[g].count # 0
    BY <1>1, GramNumbers DEF Mapped
  <2> QED
    BY <2>1 DEF Mapped, Passed
<1>3. n \in 1 .. L /\ FileGram(n) = g
  <2>1. n \in 1 .. L /\ mapping[g].offset < n /\ n <= mapping[g].offset + mapping[g].count
    BY <1>1, <1>2 DEF Stretch
  <2> QED
    BY <1>1, <1>2, <2>1 DEF Stretch
<1> HIDE DEF n, L
<1> DEFINE r == index_file[n]
<1>4. /\ r.shard \in Shard /\ r.pos \in DOMAIN consolidated[r.shard]
      /\ consolidated[r.shard][r.pos] \in Pair
      /\ r.line_id = consolidated[r.shard][r.pos].line_id
  BY <1>1, <1>3, RecordFacts DEF FileInv, Recorded
<1>5. r.shard = ShardIndex(g) /\ consolidated[r.shard][r.pos].shard_offset = ShardOffset(g)
  BY <1>3, <1>4, PairFields, GramParts DEF FileGram
<1>6. Lookup(g)[k] = r.line_id
  BY DEF Lookup, n
<1> QED
  BY <1>1, <1>3, <1>4, <1>5, <1>6 DEF n

(* A finished index answers every lookup exactly, whatever the threads did.*)
LEMMA LookupFound == LookupInv => LookupExact
<1> USE DEF LookupInv, PoolInv
<1> SUFFICES ASSUME LookupInv, main = "done", NEW g \in Gram
             PROVE  /\ mapping[g].offset + mapping[g].count <= Len(index_file)
                    /\ Range(Lookup(g)) = LinesOf(g)
                    /\ \A i, j \in 1 .. mapping[g].count : i < j => Lookup(g)[i] < Lookup(g)[j]
  BY DEF LookupExact
<1> DEFINE s == ShardIndex(g)
           o == ShardOffset(g)
           b == consolidated[s]
           c == mapping[g].count
           a == mapping[g].offset
           L == Len(index_file)
<1>1. s \in Shard /\ o \in Offset /\ GramOf(s, o) = g
  BY GramParts
<1>2. c \in Nat /\ a \in Nat /\ L \in Nat /\ DOMAIN index_file = 1 .. L
  BY RecordFacts DEF IInv, TypeInv, TypeOK
<1>3. IF c # 0 THEN Stretch(g, a) ELSE a = 0
  <2>1. g < loop
    BY GramNumbers DEF Mapped
  <2> QED
    BY <2>1 DEF Mapped, Passed
<1>4. a + c <= L
  BY <1>2, <1>3 DEF Stretch
<1>5. /\ shards[s] \in Seq(Pair) /\ b \in Seq(Pair) /\ IsInjective(shards[s])
      /\ b # <<>> => Sorted(b) /\ b \in Sortings(shards[s])
  <2>1. shards \in Fillings
    BY DEF IInv, TypeInv, TypeOK
  <2> QED
    BY <1>1, <2>1, RecordFacts, BlockOfShard, ProcessShardsAssumption
<1>6. /\ DOMAIN Lookup(g) = 1 .. c
      /\ Range(Lookup(g)) = { Lookup(g)[k] : k \in 1 .. c }
  BY DEF Lookup, Range
<1>7. ASSUME NEW k \in 1 .. c PROVE Lookup(g)[k] \in LinesOf(g)
  <2>1. PICK p \in DOMAIN b : b[p].shard_offset = o /\ Lookup(g)[k] = b[p].line_id
    BY <1>7, LookupRecord
  <2>2. b # <<>>
    BY <2>1
  <2>3. PICK i \in DOMAIN shards[s] : b[p] = shards[s][i]
    BY <1>5, <2>1, <2>2, SortingsRange
  <2> QED
    BY <2>1, <2>3 DEF LinesOf
<1>8. ASSUME NEW i \in DOMAIN shards[s], shards[s][i].shard_offset = o
      PROVE  \E k \in 1 .. c : Lookup(g)[k] = shards[s][i].line_id
  <2>1. Len(b) = Len(shards[s]) /\ DOMAIN b = DOMAIN shards[s] /\ b # <<>>
    <3>1. Len(b) = Len(shards[s])
      BY <1>1, AllRecorded
    <3> QED
      BY <1>5, <1>8, <3>1
  <2>2. PICK p \in DOMAIN b : b[p] = shards[s][i]
    BY <1>5, <1>8, <2>1, SortingsRange
  <2>3. p \in 1 .. Len(shards[s])
    BY <1>5, <2>1, <2>2
  <2>4. PICK n \in 1 .. L : index_file[n].shard = s /\ index_file[n].pos = p
    BY <1>1, <1>2, <2>3, AllRecorded
  <2>5. FileGram(n) = g
    BY <1>1, <1>8, <2>2, <2>4 DEF FileGram
  <2>6. c # 0
    <3>1. PICK d : Stretch(g, d)
      BY GramStretch
    <3> QED
      BY <1>2, <2>4, <2>5, <3>1 DEF Stretch
  <2>7. a < n /\ n <= a + c
    BY <1>2, <1>3, <2>4, <2>5, <2>6 DEF Stretch
  <2>8. n - a \in 1 .. c /\ a + (n - a) = n
    BY <1>2, <2>7
  <2>9. Lookup(g)[n - a] = index_file[n].line_id
    BY <2>8 DEF Lookup
  <2>10. index_file[n].line_id = b[p].line_id
    BY <1>2, <2>4 DEF FileInv, Recorded
  <2> QED
    BY <2>2, <2>8, <2>9, <2>10
<1>9. Range(Lookup(g)) = LinesOf(g)
  <2>1. Range(Lookup(g)) \subseteq LinesOf(g)
    BY <1>6, <1>7
  <2>2. LinesOf(g) \subseteq Range(Lookup(g))
    <3> SUFFICES ASSUME NEW l \in LinesOf(g) PROVE l \in Range(Lookup(g))
      OBVIOUS
    <3>1. PICK i \in DOMAIN shards[s] : shards[s][i].shard_offset = o /\ l = shards[s][i].line_id
      BY DEF LinesOf
    <3> QED
      BY <1>6, <1>8, <3>1
  <2> QED
    BY <2>1, <2>2
<1>10. ASSUME NEW i \in 1 .. c, NEW j \in 1 .. c, i < j PROVE Lookup(g)[i] < Lookup(g)[j]
  <2> DEFINE p == index_file[a + i].pos
             q == index_file[a + j].pos
  <2>1. /\ p \in DOMAIN b /\ b[p] \in Pair /\ b[p].shard_offset = o /\ Lookup(g)[i] = b[p].line_id
        /\ q \in DOMAIN b /\ b[q] \in Pair /\ b[q].shard_offset = o /\ Lookup(g)[j] = b[q].line_id
        /\ a + i \in DOMAIN index_file /\ a + j \in DOMAIN index_file
        /\ index_file[a + i].shard = s /\ index_file[a + j].shard = s
    BY <1>10, LookupRecord
  <2>2. a + i < a + j
    BY <1>2, <1>10
  <2>3. p < q
    <3>1. Before(index_file[a + i], index_file[a + j])
      BY <2>1, <2>2 DEF FileInv, Ordered
    <3>2. ~(s < s)
      BY <1>1, ShardDataAssumption DEF Shard
    <3> QED
      BY <2>1, <3>1, <3>2 DEF Before
  <2>4. b # <<>>
    BY <2>1
  <2>5. IsInjective(b) /\ Sorted(b)
    BY <1>5, <2>4, SortingsRange
  <2>6. b[p] # b[q]
    <3>1. p # q
      BY <1>5, <2>1, <2>3
    <3> QED
      BY <2>1, <2>5, <3>1 DEF IsInjective
  <2>7. b[p].line_id # b[q].line_id
    BY <2>1, <2>6 DEF Pair
  <2>8. ~(b[q].line_id < b[p].line_id)
    BY <2>1, <2>3, <2>5 DEF Sorted, PairLess
  <2>9. b[p].line_id \in Int /\ b[q].line_id \in Int
    BY <2>1, PairFields, ShardDataAssumption DEF LineId
  <2> QED
    BY <2>1, <2>7, <2>8, <2>9
<1> QED
  BY <1>4, <1>9, <1>10

(* The finished files: index.bin.new is the stretches of the trigrams that *)
(* have a count, and mapping.bin.new says where they begin.                *)
LEMMA FinishedFiles ==
  ASSUME LookupInv, main = "done"
  PROVE  /\ index_file \in Seq(Record) /\ mapping \in [Gram -> [offset : Nat, count : Nat]]
         /\ \A n \in DOMAIN index_file : FileGram(n) \in Gram
         /\ \A m, n \in DOMAIN index_file : m < n => FileGram(m) <= FileGram(n)
         /\ \A g \in Gram :
              IF mapping[g].count # 0 THEN Stretch(g, mapping[g].offset)
              ELSE mapping[g].offset = 0 /\ \A n \in DOMAIN index_file : FileGram(n) # g
<1> USE DEF LookupInv, PoolInv
<1>1. index_file \in Seq(Record) /\ mapping \in [Gram -> [offset : Nat, count : Nat]]
  BY DEF IInv, TypeInv, TypeOK
<1>2. ASSUME NEW g \in Gram, mapping[g].count # 0 PROVE Stretch(g, mapping[g].offset)
  <2>1. g < loop
    BY GramNumbers DEF Mapped
  <2> QED
    BY <1>2, <2>1 DEF Mapped, Passed
<1>3. ASSUME NEW g \in Gram, mapping[g].count = 0 PROVE mapping[g].offset = 0
  BY <1>3 DEF Mapped, Passed
<1>4. ASSUME NEW g \in Gram, mapping[g].count = 0, NEW n \in DOMAIN index_file
      PROVE  FileGram(n) # g
  <2>1. PICK a : Stretch(g, a)
    BY GramStretch
  <2>2. n \in Nat /\ a \in Nat
    BY <2>1, RecordFacts DEF Stretch
  <2> HIDE DEF LookupInv, PoolInv
  <2> QED
    BY <1>4, <2>1, <2>2 DEF Stretch
<1> QED
  BY <1>1, <1>2, <1>3, <1>4, FileGrams

(* The whole invariant holds at the start,                                 *)
LEMMA LookupInvInit == Init => LookupInv
<1> SUFFICES ASSUME Init PROVE LookupInv
  OBVIOUS
<1>1. IInv
  BY IInvInit
<1>2. FileInv
  BY DEF Init, Idle, FileInv, Recorded, Ordered, Placed, Complete
<1>3. CountsInv
  <2>1. Counting
    BY DEF Init, Idle, Counting
  <2>2. ASSUME NEW s \in Shard PROVE CountedAll(s)
    <3>1. consolidated[s] = <<>> /\ \A o \in Offset : mapping[GramOf(s, o)].count = 0
      BY GramParts DEF Init, Idle
    <3>2. \A o : Run(<<>>, 0, o, 0)
      BY DEF Run
    <3> QED
      BY <3>1, <3>2 DEF CountedAll
  <2> QED
    BY <2>1, <2>2 DEF CountsInv, Counted
<1>4. Ended
  <2>1. 0 \in Worker
    BY ProcessShardsAssumption DEF Worker
  <2> QED
    BY <2>1 DEF Init, Idle, Ended, Due
<1>5. Mapped
  BY DEF Init, Idle, Mapped
<1> QED
  BY <1>1, <1>2, <1>3, <1>4, <1>5 DEF LookupInv, PoolInv

(* and every step keeps it.                                                *)
LEMMA LookupInvStep == LookupInv /\ [Next]_vars => LookupInv'
<1>1. IInv /\ [Next]_vars => IInv'
  BY TypeStep, ListedStep, LockedStep, TurnsStep, BlocksStep, FileEndStep DEF IInv
<1> QED
  BY <1>1, FileInvStep, CountsStep, EndedStep, MappedStep DEF LookupInv, PoolInv

(* For any number of threads and any contents of the shards, the finished  *)
(* files answer every lookup exactly: in range, with the lines pushed for  *)
(* the trigram, once each and in ascending order.                          *)
THEOREM ProcessShardsLookupExact == Spec => []LookupExact
<1>1. Spec => []LookupInv
  BY LookupInvInit, LookupInvStep, PTL DEF Spec
<1> QED
  BY <1>1, LookupFound, PTL
=============================================================================
