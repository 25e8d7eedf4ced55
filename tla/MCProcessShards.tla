-------------------------- MODULE MCProcessShards --------------------------
(* Instances of ProcessShards for TLC.                                     *)
EXTENDS ProcessShards

P(o, l) == [shard_offset |-> o, line_id |-> l]

(***************************************************************************)
(* Four shards of two offsets, so that with three threads worker 0 has two *)
(* jobs.  The pairs arrive unsorted; a shard holds one trigram, two, one   *)
(* with several lines, or none, and the empty ones come first, in the      *)
(* middle, last, or leave fewer jobs than threads, or no job at all.       *)
(***************************************************************************)
SomeFillings ==
  { << <<P(1,0), P(0,1), P(1,1)>>, <<P(0,2)>>, <<P(1,2), P(0,0)>>, <<P(1,1)>> >>,
    << <<P(1,2), P(1,0)>>, <<>>, <<P(1,1), P(0,1)>>, <<P(0,0)>> >>,
    << <<>>, <<P(0,1), P(1,0), P(0,0)>>, <<P(0,2)>>, <<>> >>,
    << <<>>, <<P(1,1)>>, <<>>, <<>> >>,
    << <<>>, <<>>, <<>>, <<>> >> }
MCFillings == { [s \in Shard |-> f[s + 1]] : f \in SomeFillings }
=============================================================================
