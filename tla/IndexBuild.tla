----------------------------- MODULE IndexBuild -----------------------------
(***************************************************************************)
(* TrigramBuilder::build up to the renames, as a composition: LineScan     *)
(* finds the lines of content.bin.new, CreateShards' pool distributes their*)
(* trigrams to the shards, and ProcessShards' pool writes the shards to    *)
(* index.bin.new and mapping.bin.new.  The variables are those of the three*)
(* modules; they share longest_line and shards, and this module adds what  *)
(* build() does in between.                                                *)
(*                                                                         *)
(* That the threads leave exactly the files that TrigramIndex computes from*)
(* the text is what the models of queries and of searches build on.        *)
(***************************************************************************)
EXTENDS CreateShards

CONSTANTS
  Base, Newline,   \* TrigramIndex: the number of byte values, and '\n'
  Texts,           \* content.bin.new may be any of these
  SizeMod          \* LineScan: 2^64

VARIABLES
  step,                                            \* what build() has come to
  ids,                                             \* ids.bin.new, if build() writes it
  content, phase, scan_i, line_boundaries, offsets,     \* of LineScan
  non_empty_shards, main, loop, total_count, mapping, pool_pc, job, pair,
  last_shard_offset, current_count, consolidated, holder, current_job,
  index_file                                       \* of ProcessShards

Index   == INSTANCE TrigramIndex

(* The trigrams of the lines of a text, as create_shards comes by them.    *)
DocumentOf(text) == [k \in 1 .. Index!NumLines(text) |-> Index!LineGrams(text, k - 1)]

ASSUME IndexBuildAssumption ==
  /\ NumShards = Base /\ OffsetsPerShard = Base * Base /\ Newline \in 0 .. Base - 1
  /\ SizeMod \in Nat \ {0}
  /\ Texts \subseteq Seq(0 .. Base - 1) \ {<<>>}   \* an empty file cannot be mapped
  /\ \A t \in Texts : /\ Len(t) + 1 < SizeMod
                      /\ DocumentOf(t) \in Documents
                      /\ 0 .. Len(t) \subseteq LongestLines

Scan    == INSTANCE LineScan WITH Byte <- 0 .. Base - 1, Contents <- Texts, i <- scan_i
Process == INSTANCE ProcessShards WITH pc <- pool_pc, Fillings <- {}

scanVars    == <<content, phase, scan_i, line_boundaries, offsets>>
createVars  == <<document, workerVars, mainVars>>
processVars == <<non_empty_shards, main, loop, total_count, mapping, pool_pc, job, pair,
                 last_shard_offset, current_count, consolidated, holder, current_job,
                 index_file>>
buildVars   == <<step, ids, scanVars, createVars, longest_line, shards, processVars>>

(* No thread has begun: bar and document are set when create_shards starts.*)
BuildInit ==
  /\ step = "scan" /\ ids = <<>>
  /\ Scan!Init
  /\ document = <<>> /\ bar = NewBar(0)
  /\ NotBegun
  /\ Process!Idle

-----------------------------------------------------------------------------
(* Faulty variant of LineBytes, to show that IndexExact can fail: the      *)
(* newline before a line belongs to it.                                    *)
LineBytesUnshifted(k) ==
  SubSeq(content, ((line_boundaries[k + 1] + 1) % SizeMod) + (IF k = 0 THEN 1 ELSE 0),
         line_boundaries[k + 2])

(* The bytes of line k, counted from 0: from input_file +                  *)
(* line_boundaries.at(k) + 1, a sum that wraps for line 0, up to           *)
(* input_file + line_boundaries.at(k + 1).                                 *)
LineBytes(k) ==
  SubSeq(content, ((line_boundaries[k + 1] + 1) % SizeMod) + 1, line_boundaries[k + 2])

(* generate_unique_trigrams: sorted, and without repetition.               *)
LineGrams(k) == Index!Ascending(Index!UniqueTrigrams(LineBytes(k)))

ScanStep ==
  /\ step = "scan"
  /\ Scan!Next
  /\ UNCHANGED <<step, ids, createVars, shards, processVars>>

(* create_shards begins: its bar has a part for each boundary, its pool a  *)
(* line for each but one.                                                  *)
StartCreation ==
  /\ step = "scan" /\ phase = "done"
  /\ step' = "create"
  /\ document' = [k \in 1 .. Len(line_boundaries) - 1 |-> LineGrams(k - 1)]
  /\ bar' = NewBar(Len(line_boundaries))
  /\ UNCHANGED <<ids, scanVars, longest_line, shards, workerVars, joined, terminated, processVars>>

CreateThread(w) ==
  /\ step = "create" /\ WorkerStep(w)
  /\ UNCHANGED <<step, ids, scanVars, processVars>>

FinishCreation == step = "create" /\ Finish /\ UNCHANGED <<step, ids, scanVars, processVars>>

StartProcessing ==
  /\ step = "create" /\ joined
  /\ step' = "process"
  /\ UNCHANGED <<ids, scanVars, createVars, longest_line, shards, processVars>>

(* A step of process_shards and create_mapping.                            *)
InProcess(A) ==
  /\ step = "process" /\ A
  /\ UNCHANGED <<step, ids, scanVars, createVars, longest_line>>

(* build_ids, for a text that does not come from the database: a line is   *)
(* its own id.                                                             *)
BuildIds ==
  /\ step = "process" /\ main = "done"
  /\ step' = "built"
  /\ ids' \in { <<>>, [k \in DOMAIN line_boundaries |-> k - 1] }
  /\ UNCHANGED <<scanVars, createVars, longest_line, shards, processVars>>

ProcessThread(w) == InProcess(Process!WorkerStep(w))
ProcessLock(w)   == InProcess(Process!Lock(w))

(* The thread of the build.                                                *)
MainThread ==
  \/ ScanStep \/ StartCreation \/ FinishCreation
  \/ StartProcessing \/ InProcess(Process!MainStep) \/ BuildIds

(* Nothing is left to do; keeps TLC's deadlock check on everywhere else.   *)
BuildEnded == (step = "built" \/ terminated) /\ UNCHANGED buildVars

BuildNext ==
  \/ MainThread
  \/ \E w \in Worker : \/ CreateThread(w) \/ ProcessThread(w) \/ ProcessLock(w)
                       \/ InProcess(Process!SpuriousWakeup(w))
  \/ BuildEnded

(* The fairness of the parts: the scheduler runs what can run, and a thread*)
(* that finds a mutex free infinitely often obtains it.                    *)
BuildSpec ==
  /\ BuildInit /\ [][BuildNext]_buildVars
  /\ WF_buildVars(MainThread)
  /\ \A w \in Worker :
       /\ WF_buildVars(CreateThread(w)) /\ WF_buildVars(ProcessThread(w))
       /\ SF_buildVars(ProcessLock(w))

-----------------------------------------------------------------------------
(***************************************************************************)
(* Properties, beside those of CreateShards.                               *)
(***************************************************************************)

(* The types of CreateShards' variables, once it has begun, and of the new *)
(* ones.                                                                   *)
BuildTypeOK ==
  /\ step \in {"scan", "create", "process", "built"}
  /\ ids \in Seq(Nat)
  /\ step # "scan" => TypeOK

(***************************************************************************)
(* Whatever the interleavings in both pools, the files of a build are the  *)
(* ones that are computed from the text: index.bin.new lists, trigram by   *)
(* trigram, the lines that hold it, mapping.bin.new says where, and        *)
(* offsets.bin.new has the boundaries of the lines; ids.bin.new, if the    *)
(* build writes it, has an id for each of them.                            *)
(***************************************************************************)
IndexExact ==
  step = "built" =>
    /\ [n \in DOMAIN index_file |-> index_file[n].line_id] = Index!IndexFile(content)
    /\ mapping = Index!MappingFile(content)
    /\ offsets = Index!OffsetsFile(content)
    /\ ids \in { <<>>, Index!LinearIds(content) }

(***************************************************************************)
(* A build ends, in files or, for a text whose longest_line comes out below*)
(* 2, in the end of the process: no thread waits for ever for another.     *)
(***************************************************************************)
BuildEnds == <>(step = "built" \/ terminated)
=============================================================================
