---------------------------- MODULE TrigramQuery ----------------------------
(***************************************************************************)
(* TrigramQuery::query, the answer of /search: the trigrams of the query   *)
(* are looked up in mapping.bin, their postings in index.bin intersected,  *)
(* and each line that is left is searched for the query, in the range that *)
(* offsets.bin gives for it in content.bin.  The ids of the lines that     *)
(* hold it are taken from ids.bin.                                         *)
(*                                                                         *)
(* The five files are mapped into memory and the code indexes them without *)
(* looking at their size (but for ids.at).  A read past the end of a file  *)
(* finds a zero in the rest of its last page, or ends the process.         *)
(***************************************************************************)
EXTENDS TrigramIndex

Ok(ids) == [status |-> "200", ids |-> ids]
Error   == [status |-> "500", ids |-> <<>>]      \* an exception
Killed  == [status |-> "killed", ids |-> <<>>]   \* SIGSEGV or SIGBUS

Has(file, k)  == 0 <= k /\ k < Len(file)
Read(file, k) == IF Has(file, k) THEN file[k + 1] ELSE 0

(* start .. end of a trigram's postings in index.bin.                      *)
Slice(index, m)  == [k \in 1 .. m.count |-> Read(index, m.offset + k - 1)]
SliceIn(index, m) == m.count = 0 \/ Has(index, m.offset + m.count - 1)

(* std::set_intersection, which expects a and b to ascend.                 *)
Intersection(a, b) ==
  LET merge[i \in 1 .. Len(a) + 1, j \in 1 .. Len(b) + 1] ==
        IF i > Len(a) \/ j > Len(b) THEN <<>>
        ELSE IF a[i] < b[j] THEN merge[i + 1, j]
        ELSE IF b[j] < a[i] THEN merge[i, j + 1]
        ELSE <<a[i]>> \o merge[i + 1, j + 1]
  IN  merge[1, 1]

(* The mappings of the query's trigrams from the least to the most common. *)
(* std::sort may leave those with equal counts in any order.               *)
SortedMappings(query, mapping) ==
  LET grams == SetToSortSeq(UniqueTrigrams(query), LAMBDA a, b : a < b)
      N     == DOMAIN grams
  IN  { ms \in { [n \in N |-> mapping[grams[p[n]]]] : p \in Bijection(N, N) } :
          \A i, j \in N : i < j => ms[i].count <= ms[j].count }

(* Faulty variant of the next definition: the loop ends only at one line,  *)
(* so that an empty intersection is taken for the first round.             *)
LineOptionsRestarting(ms, index) ==
  LET options[n \in DOMAIN ms] ==
        IF n = 1 \/ options[n - 1] = <<>> THEN Slice(index, ms[n])
        ELSE IF Len(options[n - 1]) = 1 THEN options[n - 1]
        ELSE Intersection(Slice(index, ms[n]), options[n - 1])
  IN  options[Len(ms)]

(* line_options after round n of the loop, which ends early once there is  *)
(* at most one.                                                            *)
LineOptions(ms, index) ==
  LET options[n \in DOMAIN ms] ==
        IF n = 1 THEN Slice(index, ms[1])
        ELSE IF Len(options[n - 1]) <= 1 THEN options[n - 1]
        ELSE Intersection(Slice(index, ms[n]), options[n - 1])
  IN  options[Len(ms)]

(* The range of line k in content.bin is within it, and the right way round. *)
RangeIn(k, offsets, content) ==
  /\ Has(offsets, k) /\ Has(offsets, k + 1)
  /\ Read(offsets, k) <= Read(offsets, k + 1)
  /\ Read(offsets, k + 1) <= Len(content)

(* Faulty variant of the next definition: the candidates are not verified. *)
MatchesUnverified(query, k, offsets, content) == TRUE

(* std::search finds the query in the range of line k.                     *)
Matches(query, k, offsets, content) ==
  /\ Len(query) <= Read(offsets, k + 1) - Read(offsets, k)
  /\ query \in SubSeqs([p \in 1 .. Read(offsets, k + 1) - Read(offsets, k) |->
                          Read(content, Read(offsets, k) + p - 1)])

(* ids.at(k) throws if k is greater than the size: not if it is the size.  *)
IdThrows(k, ids) == k > Len(ids)

(* What the search may answer, given the five files it has opened.         *)
Answers(query, mapping, index, offsets, ids, content) ==
  IF UniqueTrigrams(query) = {} THEN {Error}   \* "not enough trigrams"
  ELSE UNION { LET options == LineOptions(ms, index)
                   found   == SelectSeq(options, LAMBDA k : Matches(query, k, offsets, content))
                   inFiles == /\ \A n \in DOMAIN ms : SliceIn(index, ms[n])
                              /\ \A k \in Range(options) : RangeIn(k, offsets, content)
                              /\ \A k \in Range(found) : Has(ids, k)
               IN  { IF \E k \in Range(found) : IdThrows(k, ids) THEN Error
                     ELSE Ok([n \in DOMAIN found |-> Read(ids, found[n])]) }
                   \cup IF inFiles THEN {} ELSE {Killed}
             : ms \in SortedMappings(query, mapping) }

(* What it should answer: the ids of the lines that hold the query.        *)
Truth(query, ids, content) ==
  LET found == SelectSeq([k \in 1 .. NumLines(content) |-> k - 1],
                         LAMBDA k : query \in SubSeqs(Line(content, k)))
  IN  Ok([n \in DOMAIN found |-> ids[found[n] + 1]])
=============================================================================
