---------------------------- MODULE MCIndexQuery ----------------------------
(***************************************************************************)
(* Searches on the index of a text, for every text and query of a bounded  *)
(* size.  LineScan writes offsets.bin; when it is done, the other files are*)
(* those that TrigramIndex says are built from the text, except that the   *)
(* end of index.bin may be missing: process_shards writes it with fopen and*)
(* fwrite and looks at no result, so a full disk goes unnoticed.           *)
(***************************************************************************)
EXTENDS LineScan

CONSTANTS
  Base, NumShards, OffsetsPerShard, MaxLineId,
  MaxText,    \* length of the longest text of arbitrary bytes
  MaxWords,   \* number of words in a text of words
  MaxQuery    \* length of the longest query

Q == INSTANCE TrigramQuery

(* Texts of arbitrary bytes have empty lines first, last and in a row, and *)
(* a last line with and without its newline.  Texts of words hold a trigram*)
(* in several lines, or twice in one.                                      *)
Words == { <<1>>, <<1, 1, 1, 1>>, <<1, 1, 2>>, <<1, 1, 2, 1>>, <<2, 1, 1, 2>> }

MCContents ==
  UNION { [1 .. n -> Byte] : n \in 1 .. MaxText }
  \cup { Q!FlattenSeq([k \in DOMAIN ws |-> Append(ws[k], Newline)]) :
           ws \in UNION { [1 .. n -> Words] : n \in 1 .. MaxWords } }

Queries == UNION { [1 .. n -> Byte] : n \in 1 .. MaxQuery }

NoAnswer == [status |-> "none", ids |-> <<>>]

VARIABLES
  query,    \* what a client searches for
  written,  \* the records of index.bin that are on the disk
  answer    \* what it is answered

queryVars == <<query, written, answer>>

IndexSize == Len(Q!IndexFile(content))

MCInit == Init /\ query = <<>> /\ written = 0 /\ answer = NoAnswer

Build == Next /\ UNCHANGED queryVars

(* A file of no bytes cannot be mapped.                                    *)
Search ==
  /\ phase = "done" /\ answer = NoAnswer
  /\ query' \in Queries
  /\ written' \in 0 .. IndexSize
  /\ answer' \in IF written' = 0 THEN {Q!Error}
                 ELSE Q!Answers(query', Q!MappingFile(content),
                                SubSeq(Q!IndexFile(content), 1, written'),
                                offsets, Q!LinearIds(content), content)
  /\ UNCHANGED vars

Answered == answer # NoAnswer /\ UNCHANGED <<vars, queryVars>>

MCSpec == MCInit /\ [][Build \/ Search \/ Answered]_<<vars, queryVars>>

(***************************************************************************)
(* The index loses no line and the verification lets no wrong one through: *)
(* trigrams that overlap, repeat or span the query, lines shorter than a   *)
(* trigram, the early end of the intersection, and a newline in the query, *)
(* which the range of a line begins with but no line contains, do not      *)
(* matter.  A query of fewer than three bytes is refused, and so is every  *)
(* query if no line has a trigram.                                         *)
(***************************************************************************)
AnswerExact ==
  answer # NoAnswer /\ written = IndexSize =>
    answer = IF Len(query) < 3 \/ IndexSize = 0 THEN Q!Error
             ELSE Q!Truth(query, Q!LinearIds(content), content)

(***************************************************************************)
(* An index.bin whose end was never written costs lines, or ends the       *)
(* process, but never gives a line that does not hold the query: whatever  *)
(* the lookups return, each line is verified in the text.                  *)
(***************************************************************************)
TruncatedIndexSound ==
  answer.status = "200" =>
    Q!Range(answer.ids) \subseteq Q!Range(Q!Truth(query, Q!LinearIds(content), content).ids)
=============================================================================
