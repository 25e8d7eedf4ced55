-------------------------- MODULE SequentialIndex --------------------------
(***************************************************************************)
(* What process_shards promises of index.bin.new, with no thread in sight: *)
(* the pairs of each shard are sorted once, and one writer appends the     *)
(* records of the shards in ascending order of shard, each shard's in its  *)
(* sorted order, passing over the empty ones.  ProcessShards, with its     *)
(* pool of threads, its mutex and its condition variable, is shown to      *)
(* implement this module.                                                  *)
(***************************************************************************)
EXTENDS ShardData

CONSTANT Fillings    \* what create_shards may have left in the shards

VARIABLES
  shards,     \* the pairs of each shard, in the order they were pushed
  blocks,     \* the sorted pairs of each shard, <<>> until they are sorted
  file        \* the records of index.bin.new in file order

vars == <<shards, blocks, file>>

(***************************************************************************)
(* A record of the file carries the line id that is on disk and, for the   *)
(* statement of the properties only, the shard and the position in it that *)
(* it was read from.                                                       *)
(***************************************************************************)
Record(s, k) == [shard |-> s, pos |-> k, line_id |-> blocks[s][k].line_id]

(* No shard above a and below b holds a pair (a = -1: no shard below b).   *)
EmptyBetween(a, b) == \A t \in Shard : a < t /\ t < b => shards[t] = <<>>

(* Record k of shard s has to follow the records of f.                     *)
IsNext(f, s, k) ==
  IF f = <<>> THEN EmptyBetween(-1, s) /\ k = 1
  ELSE LET last == f[Len(f)]
       IN  \/ s = last.shard /\ k = last.pos + 1
           \/ /\ last.pos = Len(shards[last.shard])
              /\ last.shard < s /\ EmptyBetween(last.shard, s)
              /\ k = 1

Init ==
  /\ shards \in Fillings
  /\ blocks = [s \in Shard |-> <<>>]
  /\ file = <<>>

SortBlock(s) ==
  /\ shards[s] # <<>>
  /\ blocks[s] = <<>>
  /\ \E b \in Sortings(shards[s]) : blocks' = [blocks EXCEPT ![s] = b]
  /\ UNCHANGED <<shards, file>>

WriteRecord(s, k) ==
  /\ k \in DOMAIN blocks[s]
  /\ IsNext(file, s, k)
  /\ file' = Append(file, Record(s, k))
  /\ UNCHANGED <<shards, blocks>>

Next == \E s \in Shard : 
          \/ SortBlock(s)
          \/ \E k \in DOMAIN blocks[s] : WriteRecord(s, k)

Spec == Init /\ [][Next]_vars
=============================================================================
