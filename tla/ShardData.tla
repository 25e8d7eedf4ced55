----------------------------- MODULE ShardData -----------------------------
(***************************************************************************)
(* The values that travel through the index builder: trigrams, the pairs   *)
(* ShardIndexPair that the shards hold, and the order process_shards sorts *)
(* them in.  A trigram is a number below NumShards * OffsetsPerShard (2^24 *)
(* = 256 * 65536 in the program): the shard it belongs to is its high part,*)
(* its place within the shard, shard_offset, its low part.                 *)
(***************************************************************************)
EXTENDS Integers, Sequences, Functions

CONSTANTS
  NumShards,        \* NUM_SHARDS: 256
  OffsetsPerShard,  \* SHARD_OFFSET_MASK + 1: 65536
  MaxLineId         \* largest line id of the instance

ASSUME ShardDataAssumption ==
  /\ NumShards \in Nat \ {0}
  /\ OffsetsPerShard \in Nat \ {0}
  /\ MaxLineId \in Nat

Shard  == 0 .. NumShards - 1
Offset == 0 .. OffsetsPerShard - 1
LineId == 0 .. MaxLineId
Gram   == 0 .. NumShards * OffsetsPerShard - 1

Pair == [shard_offset : Offset, line_id : LineId]

(* gram >> 16, gram & SHARD_OFFSET_MASK and back: (shard_id << 16) | offset *)
ShardIndex(g)  == g \div OffsetsPerShard
ShardOffset(g) == g % OffsetsPerShard
GramOf(s, o)   == s * OffsetsPerShard + o

(* The comparison std::sort is given: by shard_offset, then by line_id.    *)
PairLess(a, b) ==
  \/ a.shard_offset < b.shard_offset
  \/ a.shard_offset = b.shard_offset /\ a.line_id < b.line_id

Sorted(s) == \A i, j \in DOMAIN s : i < j => ~PairLess(s[j], s[i])

(* std::sort: the sequences that hold the elements of s, each as often as  *)
(* s does, in an order the comparison accepts.                             *)
Sortings(s) ==
  { t \in { [i \in DOMAIN s |-> s[p[i]]] : p \in Bijection(DOMAIN s, DOMAIN s) }
      : Sorted(t) }
=============================================================================
