---------------------------- MODULE TrigramIndex ----------------------------
(***************************************************************************)
(* The files of an index as functions of the text they are built from:     *)
(* what TrigramBuilder::build leaves in mapping.bin, index.bin, offsets.bin*)
(* and (on request) ids.bin, with no thread and no loop in sight.  LineScan,*)
(* CreateShards and ProcessShards model how the builder gets there; here   *)
(* the files are values, which a query reads.                              *)
(*                                                                         *)
(* A text is a sequence of bytes.  Positions, lines and file elements are  *)
(* counted from 0 in the code; sequences here count from 1.                *)
(***************************************************************************)
EXTENDS ShardData, SequencesExt

CONSTANTS
  Base,      \* the number of byte values: 256
  Newline    \* '\n'

ByteValue == 0 .. Base - 1

ASSUME TrigramIndexAssumption ==
  /\ Newline \in ByteValue
  /\ NumShards = Base /\ OffsetsPerShard = Base * Base

(* build_trigram: the third byte is the high one, so it names the shard.   *)
BuildTrigram(b) == b[3] * Base * Base + b[2] * Base + b[1]

(* generate_unique_trigrams, as a set.                                     *)
UniqueTrigrams(bytes) ==
  { BuildTrigram(SubSeq(bytes, i, i + 2)) : i \in 1 .. Len(bytes) - 2 }

(* The elements of a finite set of numbers in ascending order: the one     *)
(* that has n - 1 below it comes n-th.  SetToSortSeq is the same, but is   *)
(* built on SortSeq, of which nothing can be proved.                       *)
Ascending(S) ==
  [n \in 1 .. Cardinality(S) |-> CHOOSE x \in S : Cardinality({ y \in S : y < x }) = n - 1]

(* line_boundaries: -1, the positions of the newlines, and the size.       *)
LineBoundaries(text) ==
  << -1 >> \o Ascending({ p \in 0 .. Len(text) - 1 : text[p + 1] = Newline })
           \o << Len(text) >>

(* A line ends at each newline, and the last one with the text.            *)
NumLines(text) == Len(LineBoundaries(text)) - 1

(* Line k, from the byte after its boundary up to the next boundary.       *)
Line(text, k) ==
  LET lb == LineBoundaries(text)
  IN  SubSeq(text, lb[k + 1] + 2, lb[k + 2])

(* get_longest_line, with the 1 that it takes off in every round.          *)
LongestLine(text) ==
  LET lb == LineBoundaries(text)
      longest[n \in 0 .. NumLines(text)] ==
        IF n = 0 THEN 0
        ELSE IF longest[n - 1] > lb[n + 1] - lb[n] THEN longest[n - 1] - 1
        ELSE lb[n + 1] - lb[n] - 1
  IN  longest[NumLines(text)]

(* What generate_unique_trigrams makes of line k.                          *)
LineGrams(text, k) == Ascending(UniqueTrigrams(Line(text, k)))

(* The lines that hold trigram g, in ascending order.                      *)
Postings(text, g) ==
  Ascending({ k \in 0 .. NumLines(text) - 1 : g \in UniqueTrigrams(Line(text, k)) })

(* The trigrams of the text.                                               *)
GramsOf(text) == UNION { UniqueTrigrams(Line(text, k)) : k \in 0 .. NumLines(text) - 1 }

(* The postings of some trigrams, one after the other in their order.      *)
PostingsOf(text, grams) ==
  FlattenSeq([n \in 1 .. Cardinality(grams) |-> Postings(text, Ascending(grams)[n])])

(* index.bin: the postings of all trigrams.                                *)
IndexFile(text) == PostingsOf(text, GramsOf(text))

(* mapping.bin: where the postings of each trigram are in index.bin.       *)
MappingFile(text) ==
  [g \in Gram |->
     IF Postings(text, g) = <<>>
     THEN [offset |-> 0, count |-> 0]
     ELSE [offset |-> Len(PostingsOf(text, { h \in GramsOf(text) : h < g })),
           count  |-> Len(Postings(text, g))]]

(* offsets.bin: the boundaries, with the first set to 0.                   *)
OffsetsFile(text) == [LineBoundaries(text) EXCEPT ![1] = 0]

(* build_ids: ids.bin when the lines are their own ids.                    *)
LinearIds(text) == [k \in 1 .. NumLines(text) + 1 |-> k - 1]
=============================================================================
