---------------------------- MODULE MCIndexBuild ----------------------------
(* Instances of IndexBuild for TLC.  The letters are 1, 2 and 3.           *)
EXTENDS IndexBuild

(***************************************************************************)
(* With three threads and buffers of one pair: worker 0 has two lines and  *)
(* its buffers overflow, and the same with a line without trigrams; fewer  *)
(* lines than threads, both alike; and short last lines, which bring       *)
(* longest_line down to 0.  Newlines come last, in a row, or not at the    *)
(* end.  Shards 1 to 3 are filled or empty, shard 0, the newline's, is     *)
(* empty in every build.                                                   *)
(***************************************************************************)
MCTexts ==
  { <<1, 1, 1, 2, 0, 2, 1, 1, 0, 3, 1, 1, 2, 0, 1, 1, 2, 3>>,
    <<1, 1, 1, 2, 0, 2, 1, 1, 0, 0, 1, 1, 2, 3>>,
    <<1, 2, 3, 0, 1, 2, 3>>,
    <<2, 2, 2, 0, 1, 0, 0>> }

MCDocuments == { DocumentOf(t) : t \in MCTexts }
=============================================================================
