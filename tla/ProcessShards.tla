--------------------------- MODULE ProcessShards ---------------------------
(***************************************************************************)
(* TrigramBuilder::process_shards and TrigramBuilder::create_mapping, the  *)
(* part of a build that turns the filled shards into index.bin.new and     *)
(* mapping.bin.new.  The main thread lists the non-empty shards, a pool of *)
(* NumThreads threads sorts and counts them in parallel, and a mutex, a    *)
(* condition variable and the counter current_job make the threads append  *)
(* their shards to the one FILE in ascending order.  The main thread then  *)
(* turns the counts into offsets.                                          *)
(*                                                                         *)
(* Worker w handles the jobs w, w + NumThreads, w + 2 * NumThreads, ...;   *)
(* job i is the shard non_empty_shards[i], at position i + 1 of the        *)
(* sequence here.                                                          *)
(***************************************************************************)
EXTENDS ShardData

CONSTANTS
  NumThreads,   \* ThreadingPool's num_threads: max(1, hardware_concurrency())
  Fillings      \* what create_shards may have left in the shards

ASSUME ProcessShardsAssumption ==
  /\ NumThreads \in Nat \ {0}
  /\ Fillings \subseteq [Shard -> Seq(Pair)]
  /\ \A f \in Fillings, s \in Shard : IsInjective(f[s])  \* CreateShards shows it

VARIABLES
  shards,            \* shards_manager.shards: pairs in the order pushed
  non_empty_shards,  \* shards_manager.non_empty_shards
  main,              \* phase of the main thread
  loop,              \* its loop variable: a shard in "find", a gram in "map"
  total_count,       \* create_mapping's total_count
  mapping,           \* mapping.bin.new, zero-filled by ftruncate
  pc,                \* program counter of each worker
  job,               \* i of each worker
  pair,              \* its pointer into the shard's pairs
  last_shard_offset, \* its last_shard_offset
  current_count,     \* its current_count
  consolidated,      \* the sorted pairs of each shard (kept after use)
  holder,            \* the worker that owns mutex, or NoWorker
  current_job,       \* the job whose turn it is to write
  index_file         \* the records fwrite appended to index.bin.new

mainVars   == <<main, loop, total_count, non_empty_shards>>
countVars  == <<last_shard_offset, current_count>>
vars == <<shards, mainVars, mapping, pc, job, pair, countVars, consolidated,
          holder, current_job, index_file>>

Worker   == 0 .. NumThreads - 1
NoWorker == -1
NoOffset == -1     \* uint32_t -1, which no uint16_t shard_offset equals
NumJobs  == Len(non_empty_shards)

ShardOf(i) == non_empty_shards[i + 1]

Goto(w, label) == pc' = [pc EXCEPT ![w] = label]

(* The pairs worker w works on.                                            *)
Pairs(w) == consolidated[ShardOf(job[w])]

Entry(w) == [shard |-> ShardOf(job[w]), pos |-> pair[w],
             line_id |-> Pairs(w)[pair[w]].line_id]

(* mapping[(shard_id << 16) | last_shard_offset].count = current_count     *)
StoreCount(w) ==
  mapping' = [mapping EXCEPT ![GramOf(ShardOf(job[w]), last_shard_offset[w])] =
                [offset |-> @.offset, count |-> current_count[w]]]

(* process_shards and the workers have not begun.                          *)
Idle ==
  /\ non_empty_shards = <<>>
  /\ main = "find" /\ loop = 0 /\ total_count = 0
  /\ mapping = [g \in Gram |-> [offset |-> 0, count |-> 0]]
  /\ pc = [w \in Worker |-> "take"]
  /\ job = [w \in Worker |-> w]
  /\ pair = [w \in Worker |-> 1]
  /\ last_shard_offset = [w \in Worker |-> NoOffset]
  /\ current_count = [w \in Worker |-> 0]
  /\ consolidated = [s \in Shard |-> <<>>]
  /\ holder = NoWorker
  /\ current_job = 0
  /\ index_file = <<>>

Init == shards \in Fillings /\ Idle

-----------------------------------------------------------------------------
(* The main thread, before the pool: find_non_empty_shards.                *)

FindShard ==
  /\ main = "find" /\ loop < NumShards
  /\ non_empty_shards' = IF Len(shards[loop]) # 0
                         THEN Append(non_empty_shards, loop)
                         ELSE non_empty_shards
  /\ loop' = loop + 1
  /\ UNCHANGED <<shards, main, total_count, mapping, pc, job, pair, countVars,
                 consolidated, holder, current_job, index_file>>

StartPool ==
  /\ main = "find" /\ loop = NumShards
  /\ main' = "work"
  /\ UNCHANGED <<shards, loop, total_count, non_empty_shards, mapping, pc, job,
                 pair, countVars, consolidated, holder, current_job, index_file>>

-----------------------------------------------------------------------------
(***************************************************************************)
(* Faulty variants of the worker's steps below.  Each is a slip this code  *)
(* could have; none is part of Next.  They show that the properties can    *)
(* fail.                                                                   *)
(***************************************************************************)

(* The last loop starts one pair before the first.                         *)
TurnOneEarly(w) ==
  /\ pc[w] = "check" /\ job[w] = current_job
  /\ pair' = [pair EXCEPT ![w] = 0]
  /\ Goto(w, "write")
  /\ UNCHANGED <<shards, mainVars, mapping, job, countVars, consolidated, holder,
                 current_job, index_file>>

(* wait() without its predicate.                                           *)
TurnUnchecked(w) ==
  /\ pc[w] = "check"
  /\ pair' = [pair EXCEPT ![w] = 1]
  /\ Goto(w, "write")
  /\ UNCHANGED <<shards, mainVars, mapping, job, countVars, consolidated, holder,
                 current_job, index_file>>

(* The count of the last trigram is forgotten.                             *)
CountLastForgotten(w) ==
  /\ pc[w] = "count" /\ pair[w] > Len(Pairs(w))
  /\ Goto(w, "lock")
  /\ UNCHANGED <<shards, mainVars, mapping, job, pair, countVars, consolidated, holder,
                 current_job, index_file>>

(* current_job++ is forgotten.                                             *)
AdvanceForgotten(w) ==
  /\ pc[w] = "write" /\ pair[w] > Len(Pairs(w))
  /\ Goto(w, "notify")
  /\ UNCHANGED <<shards, mainVars, mapping, job, pair, countVars, consolidated, holder,
                 current_job, index_file>>

(* notify_one() in place of notify_all().                                  *)
NotifyOne(w) ==
  /\ pc[w] = "notify"
  /\ \E v \in Worker :
       /\ pc[v] = "wait" \/ \A u \in Worker : pc[u] # "wait"
       /\ pc' = [u \in Worker |-> IF u = w THEN "unlock"
                                  ELSE IF u = v /\ pc[u] = "wait" THEN "lock"
                                  ELSE pc[u]]
  /\ UNCHANGED <<shards, mainVars, mapping, job, pair, countVars, consolidated, holder,
                 current_job, index_file>>

-----------------------------------------------------------------------------
(* The workers.                                                            *)

(* consolidate() and std::sort of the next shard.                          *)
Consolidate(w) ==
  /\ main = "work" /\ pc[w] = "take" /\ job[w] < NumJobs
  /\ \E sorted \in Sortings(shards[ShardOf(job[w])]) :
       consolidated' = [consolidated EXCEPT ![ShardOf(job[w])] = sorted]
  /\ pair' = [pair EXCEPT ![w] = 1]
  /\ last_shard_offset' = [last_shard_offset EXCEPT ![w] = NoOffset]
  /\ current_count' = [current_count EXCEPT ![w] = 0]
  /\ Goto(w, "count")
  /\ UNCHANGED <<shards, mainVars, mapping, job, holder, current_job, index_file>>

(* One round of the loop that counts the pairs of each trigram.            *)
CountPair(w) ==
  /\ pc[w] = "count" /\ pair[w] <= Len(Pairs(w))
  /\ LET o      == Pairs(w)[pair[w]].shard_offset
         newRun == last_shard_offset[w] # NoOffset /\ last_shard_offset[w] # o
     IN  /\ \/ newRun /\ StoreCount(w)
            \/ ~newRun /\ UNCHANGED mapping
         /\ current_count' = [current_count EXCEPT ![w] = IF newRun THEN 1 ELSE @ + 1]
         /\ last_shard_offset' = [last_shard_offset EXCEPT ![w] = o]
  /\ pair' = [pair EXCEPT ![w] = @ + 1]
  /\ UNCHANGED <<shards, mainVars, pc, job, consolidated, holder, current_job, index_file>>

(* The count of the last trigram is stored after the loop.                 *)
CountLast(w) ==
  /\ pc[w] = "count" /\ pair[w] > Len(Pairs(w))
  /\ \/ current_count[w] # 0 /\ StoreCount(w)
     \/ current_count[w] = 0 /\ UNCHANGED mapping
  /\ Goto(w, "lock")
  /\ UNCHANGED <<shards, mainVars, job, pair, countVars, consolidated, holder,
                 current_job, index_file>>

(* guard lock(mutex), and the mutex taken again when wait() returns.       *)
Lock(w) ==
  /\ pc[w] = "lock" /\ holder = NoWorker
  /\ holder' = w
  /\ Goto(w, "check")
  /\ UNCHANGED <<shards, mainVars, mapping, job, pair, countVars, consolidated,
                 current_job, index_file>>

(* wait()'s predicate i == current_job holds: the worker goes on to write. *)
Turn(w) ==
  /\ pc[w] = "check" /\ job[w] = current_job
  /\ pair' = [pair EXCEPT ![w] = 1]
  /\ Goto(w, "write")
  /\ UNCHANGED <<shards, mainVars, mapping, job, countVars, consolidated, holder,
                 current_job, index_file>>

(* It does not hold: wait() releases the mutex and blocks, in one step.    *)
Wait(w) ==
  /\ pc[w] = "check" /\ job[w] # current_job
  /\ holder' = NoWorker
  /\ Goto(w, "wait")
  /\ UNCHANGED <<shards, mainVars, mapping, job, pair, countVars, consolidated,
                 current_job, index_file>>

(* A condition variable may wake a thread that nobody notified.            *)
SpuriousWakeup(w) ==
  /\ pc[w] = "wait"
  /\ Goto(w, "lock")
  /\ UNCHANGED <<shards, mainVars, mapping, job, pair, countVars, consolidated,
                 holder, current_job, index_file>>

(* fwrite of one line id.                                                  *)
Write(w) ==
  /\ pc[w] = "write" /\ pair[w] <= Len(Pairs(w))
  /\ index_file' = Append(index_file, Entry(w))
  /\ pair' = [pair EXCEPT ![w] = @ + 1]
  /\ UNCHANGED <<shards, mainVars, mapping, pc, job, countVars, consolidated, holder,
                 current_job>>

(* current_job++                                                           *)
Advance(w) ==
  /\ pc[w] = "write" /\ pair[w] > Len(Pairs(w))
  /\ current_job' = current_job + 1
  /\ Goto(w, "notify")
  /\ UNCHANGED <<shards, mainVars, mapping, job, pair, countVars, consolidated, holder,
                 index_file>>

(* notify_all(), with the mutex still held: every waiter goes for the mutex. *)
NotifyAll(w) ==
  /\ pc[w] = "notify"
  /\ pc' = [v \in Worker |-> IF v = w THEN "unlock"
                             ELSE IF pc[v] = "wait" THEN "lock" ELSE pc[v]]
  /\ UNCHANGED <<shards, mainVars, mapping, job, pair, countVars, consolidated, holder,
                 current_job, index_file>>

(* The lock goes out of scope and i += step.                               *)
Unlock(w) ==
  /\ pc[w] = "unlock"
  /\ holder' = NoWorker
  /\ job' = [job EXCEPT ![w] = @ + NumThreads]
  /\ Goto(w, "take")
  /\ UNCHANGED <<shards, mainVars, mapping, pair, countVars, consolidated, current_job,
                 index_file>>

(* i < end fails: the worker returns.                                      *)
Return(w) ==
  /\ main = "work" /\ pc[w] = "take" /\ job[w] >= NumJobs
  /\ Goto(w, "done")
  /\ UNCHANGED <<shards, mainVars, mapping, job, pair, countVars, consolidated, holder,
                 current_job, index_file>>

WorkerStep(w) ==
  \/ Consolidate(w) \/ CountPair(w) \/ CountLast(w)
  \/ Turn(w) \/ Wait(w) \/ Write(w) \/ Advance(w) \/ NotifyAll(w) \/ Unlock(w)
  \/ Return(w)

-----------------------------------------------------------------------------
(* The main thread, after the pool: join() and create_mapping.             *)

Join ==
  /\ main = "work"
  /\ \A w \in Worker : pc[w] = "done"
  /\ main' = "map" /\ loop' = 0 /\ total_count' = 0
  /\ UNCHANGED <<shards, non_empty_shards, mapping, pc, job, pair, countVars,
                 consolidated, holder, current_job, index_file>>

MapGram ==
  /\ main = "map" /\ loop \in Gram
  /\ \/ /\ mapping[loop].count # 0
        /\ mapping' = [mapping EXCEPT ![loop] =
                         [offset |-> total_count, count |-> @.count]]
        /\ total_count' = total_count + mapping[loop].count
     \/ /\ mapping[loop].count = 0
        /\ UNCHANGED <<mapping, total_count>>
  /\ loop' = loop + 1
  /\ UNCHANGED <<shards, non_empty_shards, main, pc, job, pair, countVars,
                 consolidated, holder, current_job, index_file>>

MapDone ==
  /\ main = "map" /\ loop \notin Gram
  /\ main' = "done"
  /\ UNCHANGED <<shards, non_empty_shards, loop, total_count, mapping, pc, job, pair,
                 countVars, consolidated, holder, current_job, index_file>>

MainStep == FindShard \/ StartPool \/ Join \/ MapGram \/ MapDone

(* Nothing is left to do; keeps TLC's deadlock check on everywhere else.   *)
Terminated == main = "done" /\ UNCHANGED vars

Next ==
  \/ MainStep
  \/ \E w \in Worker : WorkerStep(w) \/ Lock(w) \/ SpuriousWakeup(w)
  \/ Terminated

(***************************************************************************)
(* The scheduler runs every thread that can run.  Acquiring the mutex needs*)
(* strong fairness: spurious wakeups can take it from a thread again and   *)
(* again, but a thread that finds it free infinitely often obtains it.     *)
(* Nobody is obliged to wake up spuriously.                                *)
(***************************************************************************)
Fairness ==
  /\ WF_vars(MainStep)
  /\ \A w \in Worker : WF_vars(WorkerStep(w)) /\ SF_vars(Lock(w))

Spec == Init /\ [][Next]_vars /\ Fairness

-----------------------------------------------------------------------------
(***************************************************************************)
(* Properties.                                                             *)
(***************************************************************************)

Record == [shard : Shard, pos : Nat \ {0}, line_id : LineId]

(* The type of every variable.                                             *)
TypeOK ==
  /\ shards \in Fillings
  /\ non_empty_shards \in Seq(Shard)
  /\ main \in {"find", "work", "map", "done"}
  /\ loop \in Nat
  /\ total_count \in Nat
  /\ mapping \in [Gram -> [offset : Nat, count : Nat]]
  /\ pc \in [Worker -> {"take", "count", "lock", "check", "wait", "write",
                        "notify", "unlock", "done"}]
  /\ job \in [Worker -> Nat]
  /\ pair \in [Worker -> Nat \ {0}]
  /\ last_shard_offset \in [Worker -> Offset \cup {NoOffset}]
  /\ current_count \in [Worker -> Nat]
  /\ consolidated \in [Shard -> Seq(Pair)]
  /\ holder \in Worker \cup {NoWorker}
  /\ current_job \in Nat
  /\ index_file \in Seq(Record)

(***************************************************************************)
(* No lost wakeup: a worker whose turn it is never sits in wait() with     *)
(* nobody left to notify it.  The turn passes to it inside the mutex and   *)
(* the notify_all that follows, still inside, comes after every wait()     *)
(* that saw the old current_job.                                           *)
(***************************************************************************)
NoLostWakeup ==
  \A w \in Worker :
    pc[w] = "wait" /\ job[w] = current_job => \E v \in Worker : pc[v] = "notify"

(***************************************************************************)
(* What a query reads for trigram g: mapping[g].count line ids of          *)
(* index.bin, from mapping[g].offset on.                                   *)
(***************************************************************************)
Lookup(g) ==
  [k \in 1 .. mapping[g].count |-> index_file[mapping[g].offset + k].line_id]

LinesOf(g) ==
  LET s == shards[ShardIndex(g)]
  IN  { s[i].line_id : i \in { n \in DOMAIN s : s[n].shard_offset = ShardOffset(g) } }

(***************************************************************************)
(* The finished index answers every lookup exactly: the counts of the      *)
(* parallel workers, the offsets create_mapping derives from them in       *)
(* trigram order, and the order in which the threads wrote the file fit    *)
(* together, so that the lookup of g stays inside the file and lists, in   *)
(* ascending order and once each, the lines pushed for g.  The ascending   *)
(* order is what set_intersection in a query relies on.                    *)
(***************************************************************************)
LookupExact ==
  main = "done" =>
    \A g \in Gram :
      /\ mapping[g].offset + mapping[g].count <= Len(index_file)
      /\ Range(Lookup(g)) = LinesOf(g)
      /\ \A i, j \in 1 .. mapping[g].count : i < j => Lookup(g)[i] < Lookup(g)[j]

(***************************************************************************)
(* The pool writes what one sequential writer would: whatever the          *)
(* interleaving, index.bin.new grows record by record in the order of the  *)
(* shards and of their sorted pairs, with none missing, doubled or out of  *)
(* place.                                                                  *)
(***************************************************************************)
Sequential == INSTANCE SequentialIndex WITH blocks <- consolidated, file <- index_file
WritesSequentially == Sequential!Spec

(***************************************************************************)
(* The workers never wait for each other for ever: process_shards and      *)
(* create_mapping come to an end.                                          *)
(***************************************************************************)
Finishes == <>(main = "done")
=============================================================================
