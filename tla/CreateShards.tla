---------------------------- MODULE CreateShards ----------------------------
(***************************************************************************)
(* TrigramBuilder::create_shards, with the FlushableBuffers it uses.  A    *)
(* pool of NumThreads threads goes over the lines of the text; worker w    *)
(* handles the lines w, w + NumThreads, ...  For each trigram of a line it *)
(* pushes a pair into its own buffer for the trigram's shard, and a buffer *)
(* that grows beyond BufferSize is pushed into the shard, which all        *)
(* workers share.  At its end a worker flushes all its buffers.  The       *)
(* workers also share a progress bar, whose methods are atomic.            *)
(*                                                                         *)
(* Shard::push holds the shard's grow_mutex from its first line to its     *)
(* last, so it is one step here; module Shard looks inside it.             *)
(***************************************************************************)
EXTENDS ShardData, Progress, FiniteSets

CONSTANTS
  NumThreads,    \* ThreadingPool's num_threads: max(1, hardware_concurrency())
  BufferSize,    \* the limit of a ShardBuffer: 1 << 18
  LineIdMod,     \* 2^32: a line number is a uint32_t
  Documents,     \* texts: for each line what generate_unique_trigrams yields
  LongestLines   \* results get_longest_line may give

(* A line's trigrams come out sorted and without repetition.               *)
StrictlyAscending(s) == \A i, j \in DOMAIN s : i < j => s[i] < s[j]

ASSUME CreateShardsAssumption ==
  /\ NumThreads \in Nat \ {0}
  /\ BufferSize \in Nat
  /\ LineIdMod \in Nat
  /\ LongestLines \subseteq Nat
  /\ \A d \in Documents :
       /\ d \in Seq(Seq(Gram))
       /\ \A i \in DOMAIN d : StrictlyAscending(d[i])
       /\ Len(d) \in 1 .. MaxLineId + 1
       /\ Len(d) + NumThreads <= LineIdMod   \* beyond, i += step wraps around

VARIABLES
  document,      \* the trigrams of each line
  longest_line,  \* get_longest_line's result
  shards,        \* shards_manager.shards: the pairs of each shard
  pc,            \* program counter of each worker
  line,          \* i of each worker: a line number, counted from 0
  grams,         \* the rest of line_grams that the worker's loop has to push
  buffers,       \* the worker's buffer for each shard
  flushing,      \* the shard its last loop has come to
  bar,           \* pb_create_shards
  joined,        \* creation_pool.join() has returned and the bar is finished
  terminated     \* std::terminate ended the process

inputs     == <<document, longest_line>>
workerVars == <<pc, line, grams, buffers, flushing>>
mainVars   == <<bar, joined, terminated>>
vars       == <<inputs, shards, workerVars, mainVars>>

Worker   == 0 .. NumThreads - 1
NumLines == Len(document)

Goto(w, label) == pc' = [pc EXCEPT ![w] = label]

(* No worker has begun.                                                    *)
NotBegun ==
  /\ shards = [s \in Shard |-> <<>>]
  /\ pc = [w \in Worker |-> "start"]
  /\ line = [w \in Worker |-> w]
  /\ grams = [w \in Worker |-> <<>>]
  /\ buffers = [w \in Worker |-> [s \in Shard |-> <<>>]]
  /\ flushing = [w \in Worker |-> 0]
  /\ joined = FALSE /\ terminated = FALSE

Init ==
  /\ document \in Documents
  /\ longest_line \in LongestLines
  /\ NotBegun
  /\ bar = NewBar(NumLines + 1)   \* line_boundaries has one more than lines

-----------------------------------------------------------------------------
(* Faulty variants of steps below, to show that the properties can fail.   *)
(* They are no part of Next.                                               *)

(* The buffer is pushed when it is one longer than it should get.          *)
PushPairLate(w, s, p) ==
  LET b == Append(buffers[w][s], p)
  IN  IF Len(b) > BufferSize + 1
      THEN /\ shards' = [shards EXCEPT ![s] = @ \o b]
           /\ buffers' = [buffers EXCEPT ![w] = [@ EXCEPT ![s] = <<>>]]
      ELSE /\ buffers' = [buffers EXCEPT ![w] = [@ EXCEPT ![s] = b]]
           /\ UNCHANGED shards

(* push() flushes the buffer and does not clear it.                        *)
PushPairUncleared(w, s, p) ==
  LET b == Append(buffers[w][s], p)
  IN  /\ shards' = [shards EXCEPT ![s] = IF Len(b) > BufferSize THEN @ \o b ELSE @]
      /\ buffers' = [buffers EXCEPT ![w] = [@ EXCEPT ![s] = b]]

(* The exception is swallowed, and the worker is heard of no more.         *)
StartSwallowed(w) ==
  /\ pc[w] = "start"
  /\ IF longest_line >= 2 THEN Goto(w, "line") ELSE UNCHANGED pc
  /\ UNCHANGED <<inputs, shards, line, grams, buffers, flushing, mainVars>>

(* The bar grows by one where it should grow by a quantum.                 *)
TakeLineByOne(w) ==
  /\ pc[w] = "line" /\ line[w] < NumLines
  /\ bar' = IF line[w] % bar.quantum = 0 THEN Add(bar, 1) ELSE bar
  /\ grams' = [grams EXCEPT ![w] = document[line[w] + 1]]
  /\ Goto(w, "push")
  /\ UNCHANGED <<inputs, shards, line, buffers, flushing, terminated, joined>>

(* The worker returns before it has flushed its last buffer.               *)
ReturnEarly(w) ==
  /\ pc[w] = "flush" /\ flushing[w] + 1 \notin Shard
  /\ Goto(w, "done")
  /\ UNCHANGED <<inputs, shards, line, grams, buffers, flushing, mainVars>>

-----------------------------------------------------------------------------
(* FlushableBuffer::push of pair p into buffer b of shard s.               *)
PushPair(w, s, p) ==
  LET b == Append(buffers[w][s], p)
  IN  IF Len(b) > BufferSize
      THEN /\ shards' = [shards EXCEPT ![s] = @ \o b]
           /\ buffers' = [buffers EXCEPT ![w] = [@ EXCEPT ![s] = <<>>]]
      ELSE /\ buffers' = [buffers EXCEPT ![w] = [@ EXCEPT ![s] = b]]
           /\ UNCHANGED shards

(* std::vector line_grams(longest_line - 2) and the worker's buffers.  The *)
(* subtraction is unsigned: a longest_line below 2 asks for more than a    *)
(* vector can hold, and the exception leaves the thread.                   *)
Start(w) ==
  /\ pc[w] = "start"
  /\ IF longest_line >= 2
     THEN Goto(w, "line") /\ UNCHANGED terminated
     ELSE terminated' = TRUE /\ UNCHANGED pc
  /\ UNCHANGED <<inputs, shards, line, grams, buffers, flushing, bar, joined>>

(* The next line: a quantum for the bar at each of its multiples, and      *)
(* generate_unique_trigrams.                                               *)
TakeLine(w) ==
  /\ pc[w] = "line" /\ line[w] < NumLines
  /\ bar' = IF line[w] % bar.quantum = 0 THEN Add(bar, bar.quantum) ELSE bar
  /\ grams' = [grams EXCEPT ![w] = document[line[w] + 1]]
  /\ Goto(w, "push")
  /\ UNCHANGED <<inputs, shards, line, buffers, flushing, terminated, joined>>

PushGram(w) ==
  /\ pc[w] = "push" /\ grams[w] # <<>>
  /\ LET g == Head(grams[w])
     IN  PushPair(w, ShardIndex(g), [shard_offset |-> ShardOffset(g), line_id |-> line[w]])
  /\ grams' = [grams EXCEPT ![w] = Tail(@)]
  /\ UNCHANGED <<inputs, pc, line, flushing, mainVars>>

(* i += step, in 32 bits.                                                  *)
NextLine(w) ==
  /\ pc[w] = "push" /\ grams[w] = <<>>
  /\ line' = [line EXCEPT ![w] = (@ + NumThreads) % LineIdMod]
  /\ Goto(w, "line")
  /\ UNCHANGED <<inputs, shards, grams, buffers, flushing, mainVars>>

LinesDone(w) ==
  /\ pc[w] = "line" /\ line[w] >= NumLines
  /\ Goto(w, "flush")
  /\ UNCHANGED <<inputs, shards, line, grams, buffers, flushing, mainVars>>

(* for (auto &shard : shards) shard.flush(): the buffers are not cleared.  *)
Flush(w) ==
  /\ pc[w] = "flush" /\ flushing[w] \in Shard
  /\ shards' = [shards EXCEPT ![flushing[w]] = @ \o buffers[w][flushing[w]]]
  /\ flushing' = [flushing EXCEPT ![w] = @ + 1]
  /\ UNCHANGED <<inputs, pc, line, grams, buffers, mainVars>>

Return(w) ==
  /\ pc[w] = "flush" /\ flushing[w] \notin Shard
  /\ Goto(w, "done")
  /\ UNCHANGED <<inputs, shards, line, grams, buffers, flushing, mainVars>>

WorkerStep(w) ==
  /\ ~terminated
  /\ \/ Start(w) \/ TakeLine(w) \/ PushGram(w) \/ NextLine(w)
     \/ LinesDone(w) \/ Flush(w) \/ Return(w)

AllDone == \A w \in Worker : pc[w] = "done"

(* The thread of the build, after join().                                  *)
Finish ==
  /\ AllDone /\ ~joined
  /\ joined' = TRUE
  /\ bar' = FinishBar(bar)
  /\ UNCHANGED <<inputs, shards, workerVars, terminated>>

(* Nothing is left to do; keeps TLC's deadlock check on everywhere else.   *)
Stopped == (joined \/ terminated) /\ UNCHANGED vars

Next == (\E w \in Worker : WorkerStep(w)) \/ Finish \/ Stopped

(* The scheduler runs every thread that can run.                           *)
Spec ==
  /\ Init /\ [][Next]_vars
  /\ \A w \in Worker : WF_vars(WorkerStep(w))
  /\ WF_vars(Finish)

-----------------------------------------------------------------------------
(***************************************************************************)
(* Properties.                                                             *)
(***************************************************************************)

(* The type of every variable.                                             *)
TypeOK ==
  /\ document \in Documents
  /\ longest_line \in LongestLines
  /\ shards \in [Shard -> Seq(Pair)]
  /\ pc \in [Worker -> {"start", "line", "push", "flush", "done"}]
  /\ line \in [Worker -> Nat]
  /\ grams \in [Worker -> Seq(Gram)]
  /\ buffers \in [Worker -> [Shard -> Seq(Pair)]]
  /\ \A w \in Worker, s \in Shard : Len(buffers[w][s]) <= BufferSize
  /\ flushing \in [Worker -> 0 .. NumShards]
  /\ bar \in [{"total", "quantum", "next", "last", "done", "shown"} -> 0 .. NumLines + 1]
  /\ joined \in BOOLEAN /\ terminated \in BOOLEAN

(* The text has pair p for shard s.                                        *)
Belongs(s, p) ==
  /\ p.line_id + 1 \in DOMAIN document
  /\ GramOf(s, p.shard_offset) \in Range(document[p.line_id + 1])

(* Worker w has come past pair p of shard s.                               *)
Handled(w, s, p) ==
  /\ Belongs(s, p)
  /\ p.line_id % NumThreads = w
  /\ \/ p.line_id < line[w]
     \/ /\ p.line_id = line[w] /\ pc[w] = "push"
        /\ GramOf(s, p.shard_offset) \notin Range(grams[w])

Occurrences(p, seq) == Cardinality({ i \in DOMAIN seq : seq[i] = p })

(* A buffer counts until the worker's last loop has pushed it.             *)
InBuffer(w, s, p) ==
  IF flushing[w] > s THEN 0 ELSE Occurrences(p, buffers[w][s])

(***************************************************************************)
(* No pair is lost, doubled or put in the wrong shard on its way: each     *)
(* pair that a worker has come past is once in the shard or in that        *)
(* worker's buffer, and nothing else is anywhere.                          *)
(***************************************************************************)
Conserved ==
  \A s \in Shard, p \in Pair :
    Occurrences(p, shards[s]) + SumFunction([w \in Worker |-> InBuffer(w, s, p)])
      = Cardinality({ w \in Worker : Handled(w, s, p) })

(***************************************************************************)
(* What process_shards starts from: every shard holds each of its pairs    *)
(* exactly once, whatever the workers' order.                              *)
(***************************************************************************)
Filled ==
  AllDone => \A s \in Shard : IsInjective(shards[s]) /\ Range(shards[s]) = { p \in Pair : Belongs(s, p) }

(* Some worker has come to line i, counted from 0.                         *)
Taken(i) ==
  \E w \in Worker : /\ i % NumThreads = w
                    /\ i < line[w] \/ (i = line[w] /\ pc[w] = "push")

(***************************************************************************)
(* The bar counts what the threads do, in any order: a quantum for each of *)
(* its multiples that a thread has come to, capped at the total; what it   *)
(* shows never runs ahead of that nor lags by a quantum; and it ends full. *)
(***************************************************************************)
BarCounts ==
  /\ bar.done = Smaller(bar.total,
        bar.quantum * Cardinality({ i \in 0 .. NumLines - 1 : i % bar.quantum = 0 /\ Taken(i) }))
  /\ ~joined => bar.shown <= bar.done /\ bar.done - bar.shown < bar.quantum
  /\ joined => bar.shown = bar.total
=============================================================================
