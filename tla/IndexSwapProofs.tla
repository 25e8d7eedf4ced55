--------------------------- MODULE IndexSwapProofs ---------------------------
(***************************************************************************)
(* What TLAPS proves of IndexSwap, for any numbers of builds and searches, *)
(* any tables and uploaded texts, and any number of faults.                *)
(***************************************************************************)
EXTENDS IndexSwap, DataProofs, FiniteSetTheorems

(***************************************************************************)
(* Lemmas about the data.                                                  *)
(***************************************************************************)

(* The content and the ids that are fetched from a table.                  *)
TableRow == [id : Nat, word : Seq(ByteValue)]

(* The text that is written from a table is a sequence of bytes and its ids*)
(* are numbers; a table without ids has no text.                           *)
LEMMA TextType ==
  ASSUME NEW t \in Seq(TableRow)
  PROVE  /\ TextOf(t) \in Seq(ByteValue) /\ IdsOf(t) \in Seq(Nat)
         /\ IdsOf(t) = <<>> => TextOf(t) = <<>>
<1> DEFINE w == [n \in DOMAIN t |-> Append(t[n].word, Newline)]
<1>1. \A n \in DOMAIN t : t[n].id \in Nat /\ t[n].word \in Seq(ByteValue)
  <2>1. \A n \in DOMAIN t : t[n] \in TableRow
    OBVIOUS
  <2> QED
    BY <2>1 DEF TableRow
<1>2. w \in Seq(Seq(ByteValue))
  <2>1. \A n \in DOMAIN t : Append(t[n].word, Newline) \in Seq(ByteValue)
    BY <1>1, TrigramIndexAssumption
  <2>2. DOMAIN t = 1 .. Len(t) /\ Len(t) \in Nat
    OBVIOUS
  <2> QED
    BY <2>1, <2>2
<1>3. TextOf(t) \in Seq(ByteValue)
  BY <1>2, FlattenType DEF TextOf
<1>4. IdsOf(t) \in Seq(Nat)
  BY <1>1 DEF IdsOf
<1>5. ASSUME IdsOf(t) = <<>> PROVE TextOf(t) = <<>>
  <2>1. DOMAIN t = {}
    BY <1>5 DEF IdsOf
  <2>2. w = <<>> /\ Len(w) = 0
    BY <2>1
  <2> HIDE DEF w
  <2>3. FlattenSeq(w) = <<>>
    BY <2>2 DEF FlattenSeq
  <2> QED
    BY <2>3 DEF TextOf, w
<1> QED
  BY <1>3, <1>4, <1>5

(* The state of the table and the texts a build may find.                  *)
LEMMA TableType ==
  /\ \A n \in DOMAIN Tables : Tables[n] \in Seq(TableRow)
  /\ \A t \in Range(Tables) : t \in Seq(TableRow)
  /\ 1 \in DOMAIN Tables /\ Len(Tables) \in Nat /\ DOMAIN Tables = 1 .. Len(Tables)
<1>1. Tables \in Seq(Seq(TableRow)) /\ Tables # <<>>
  BY IndexSwapAssumption DEF TableRow
<1>2. \A n \in DOMAIN Tables : Tables[n] \in Seq(TableRow)
  BY <1>1
<1>3. 1 \in DOMAIN Tables /\ Len(Tables) \in Nat /\ DOMAIN Tables = 1 .. Len(Tables)
  BY <1>1
<1> QED
  BY <1>2, <1>3 DEF Range

(* A new file is filled with zeros.                                        *)
LEMMA ZerosType ==
  ASSUME NEW n \in Nat
  PROVE  Zeros(n) \in Seq(ByteValue) /\ Zeros(n) \in Seq(Nat)
<1>1. 0 \in ByteValue
  BY TrigramIndexAssumption, ShardDataAssumption DEF ByteValue
<1> QED
  BY <1>1 DEF Zeros

(* There is an id for every line, and so at least one.                     *)
LEMMA LinearIdsType ==
  ASSUME NEW c \in Seq(ByteValue)
  PROVE  LinearIds(c) \in Seq(Nat) /\ LinearIds(c) # <<>>
<1> DEFINE newlines == { p \in 0 .. Len(c) - 1 : c[p + 1] = Newline }
<1>1. IsFiniteSet(0 .. Len(c) - 1)
  BY FS_Interval
<1>2. IsFiniteSet(newlines)
  BY <1>1, FS_Subset
<1>3. Cardinality(newlines) \in Nat
  BY <1>2, FS_CardinalityType
<1> HIDE DEF newlines
<1>4. NumLines(c) \in Nat \ {0}
  <2> DEFINE lines == Ascending(newlines)
             n == Cardinality(newlines)
  <2> DEFINE Nth(k) == CHOOSE x \in newlines : Cardinality({ y \in newlines : y < x }) = k - 1
  <2>a. lines = [k \in 1 .. n |-> Nth(k)]
    BY DEF Ascending
  <2> HIDE DEF Nth
  <2>1. lines = [k \in 1 .. n |-> lines[k]]
    BY <2>a
  <2> HIDE DEF lines, n
  <2>2. n \in Nat
    BY <1>3 DEF n
  <2> DEFINE S == { lines[k] : k \in 1 .. n }
  <2>3. lines \in Seq(S) /\ Len(lines) = n
    BY <2>1, <2>2
  <2> DEFINE T == S \cup { -1, Len(c) }
  <2>4. lines \in Seq(T) /\ << -1 >> \in Seq(T) /\ << Len(c) >> \in Seq(T)
    BY <2>1, <2>2
  <2> HIDE DEF S, T
  <2>5. Len(<< -1 >> \o lines \o << Len(c) >>) = 1 + n + 1
    BY <2>2, <2>3, <2>4
  <2>6. LineBoundaries(c) = << -1 >> \o lines \o << Len(c) >>
    BY DEF LineBoundaries, lines, newlines
  <2> QED
    BY <2>2, <2>5, <2>6 DEF NumLines
<1>5. 1 \in DOMAIN LinearIds(c) /\ LinearIds(c) \in Seq(Nat)
  BY <1>4 DEF LinearIds
<1> QED
  BY <1>5

(* Bytes are numbers.                                                      *)
LEMMA BytesAreNumbers == Seq(ByteValue) \subseteq Seq(Nat)
<1>1. ByteValue \subseteq Nat
  BY TrigramIndexAssumption, ShardDataAssumption DEF ByteValue
<1> SUFFICES ASSUME NEW s \in Seq(ByteValue) PROVE s \in Seq(Nat)
  OBVIOUS
<1>2. s \in [1 .. Len(s) -> ByteValue] /\ Len(s) \in Nat
  OBVIOUS
<1>3. s \in [1 .. Len(s) -> Nat]
  BY <1>1, <1>2
<1> QED
  BY <1>2, <1>3

(* An answer is of one of three kinds.                                     *)
LEMMA AnswerStatus ==
  ASSUME NEW q, NEW m, NEW i, NEW o, NEW d, NEW c, NEW a \in Answers(q, m, i, o, d, c)
  PROVE  a.status \in {"200", "500", "killed"}
<1>1. CASE UniqueTrigrams(q) = {}
  BY <1>1 DEF Answers, Error
<1>2. CASE UniqueTrigrams(q) # {}
  <2>1. PICK ids : a \in {Error, Killed, Ok(ids)}
    BY <1>2, Zenon DEF Answers
  <2> QED
    BY <2>1 DEF Ok, Error, Killed
<1> QED
  BY <1>1, <1>2

-----------------------------------------------------------------------------
(***************************************************************************)
(* The inductive invariant, in its parts.                                  *)
(***************************************************************************)
Writing == {"offsets", "index", "ids", "rename"}
AtWork  == {"fetch", "fill", "open"} \cup Writing

(* What TypeOK leaves open: the program counter and the results are        *)
(* functions, and a content file is a text.                                *)
Shape ==
  /\ pc = [r \in Request |-> pc[r]]
  /\ result = [s \in Searcher |-> result[s]]
  /\ fresh["content"] \in Seq(ByteValue)

(* build_mutex belongs to the build that is at work, which has not begun to*)
(* rename before it comes to that.                                         *)
Exclusive ==
  /\ \A b \in Builder : holder = b <=> pc[b] \in AtWork
  /\ \A b \in Builder : pc[b] \notin {"rename", "answered"} => step[b] = 1
  /\ \A b \in Builder : pc[b] = "ids" => mode[b] = "linear"

(* v is a file of the index of the text c.                                 *)
FileOf(f, v, c) == v # Missing /\ IF f = "ids" THEN Belong(v, c) ELSE v = c

(* What a build has fetched is there when it opens it.                     *)
Fetched ==
  \A b \in Builder :
    pc[b] = "open" /\ mode[b] = "db" =>
      \E t \in Range(Tables) : fresh["content"] = TextOf(t) /\ fresh["ids"] = IdsOf(t)

(* The .new files a build has written so far are its own.                  *)
Written ==
  \A b \in Builder :
    /\ pc[b] \in {"offsets", "index", "ids"} =>
         /\ FileOf("content", fresh["content"], text[b])
         /\ mode[b] = "db" => FileOf("ids", fresh["ids"], text[b])
    /\ pc[b] \in {"index", "ids"} => FileOf("offsets", fresh["offsets"], text[b])
    /\ pc[b] = "ids" => \A f \in {"mapping", "index"} : FileOf(f, fresh[f], text[b])

(* While it renames them, those to come are still there, and those renamed *)
(* are in place, unless the swap was cut.                                  *)
Swapping ==
  \A b \in Builder : pc[b] = "rename" =>
    \A i \in DOMAIN FileOrder :
      /\ i >= step[b] => FileOf(FileOrder[i], fresh[FileOrder[i]], text[b])
      /\ i < step[b] /\ ~cut => FileOf(FileOrder[i], active[FileOrder[i]], text[b])

(* Until it renames, the active files are those it found.                  *)
Untouched == \A b \in Builder : pc[b] \in AtWork \ {"rename"} => before[b] = active

(* A search has no result while it opens files, and has opened those up to *)
(* its step.                                                               *)
Reading ==
  \A s \in Searcher : pc[s] \in {"idle", "opening"} =>
    /\ result[s] = NoResult
    /\ pc[s] = "idle" => step[s] = 1
    /\ \A i \in DOMAIN FileOrder : got[s][FileOrder[i]] = Missing <=> i >= step[s]

(* If no swap disturbed it, they are the active files, which are one index.*)
Undisturbed ==
  \A s \in Searcher : Opening(s) /\ ~disturbed[s] =>
    /\ OneIndex(active)
    /\ \A i \in DOMAIN FileOrder :
         i < step[s] => got[s][FileOrder[i]] = active[FileOrder[i]]

(* A search that no swap disturbed was refused because there was a file    *)
(* that it could not map, or has got an answer that query() gives on the   *)
(* files of one index.                                                     *)
QuietSearchOneIndex ==
  \A s \in Searcher :
    result[s] # NoResult /\ ~disturbed[s] =>
      IF \E f \in Files : got[s][f] = Missing THEN result[s] = Error
      ELSE LET c == got[s].content
           IN  /\ OneIndex(got[s])
               /\ result[s] \in Answers(query[s], Built[c].mapping, Built[c].index,
                                        Built[c].offsets, got[s].ids, c)

SwapInv ==
  /\ TypeOK /\ Shape /\ Exclusive /\ Fetched /\ Written /\ Swapping /\ Untouched
  /\ Reading /\ Undisturbed /\ SettledIndex /\ QuietSearchOneIndex


-----------------------------------------------------------------------------
(* The order of the renames names every file once.                         *)
LEMMA Order ==
  /\ DOMAIN FileOrder = 1 .. 5 /\ Len(FileOrder) = 5
  /\ \A i \in DOMAIN FileOrder : FileOrder[i] \in Files
  /\ \A f \in Files : \E i \in DOMAIN FileOrder : FileOrder[i] = f
  /\ \A i, j \in DOMAIN FileOrder : FileOrder[i] = FileOrder[j] => i = j
  /\ FileOrder[5] = "content"
<1>1. DOMAIN FileOrder = 1 .. 5 /\ Len(FileOrder) = 5
  BY DEF FileOrder
<1>2. /\ FileOrder[1] = "mapping" /\ FileOrder[2] = "index" /\ FileOrder[3] = "offsets"
      /\ FileOrder[4] = "ids" /\ FileOrder[5] = "content"
  BY DEF FileOrder
<1>3. \A i \in 1 .. 5 : i = 1 \/ i = 2 \/ i = 3 \/ i = 4 \/ i = 5
  OBVIOUS
<1>4. \A i \in DOMAIN FileOrder : FileOrder[i] \in Files
  BY <1>1, <1>2, <1>3 DEF Files
<1>5. \A f \in Files : \E i \in DOMAIN FileOrder : FileOrder[i] = f
  BY <1>1, <1>2 DEF Files
<1>6. \A i, j \in DOMAIN FileOrder : FileOrder[i] = FileOrder[j] => i = j
  BY <1>1, <1>2, <1>3
<1> QED
  BY <1>1, <1>2, <1>4, <1>5, <1>6

(* Moving one request's program counter leaves the others where they are.  *)
LEMMA GotoPlace ==
  ASSUME Shape, NEW r \in Request, NEW label, Goto(r, label)
  PROVE  /\ pc'[r] = label /\ \A q \in Request : q # r => pc'[q] = pc[q]
         /\ pc' = [q \in Request |-> pc'[q]]
<1>1. DOMAIN pc = Request
  <2>1. pc = [q \in Request |-> pc[q]]
    BY DEF Shape
  <2> QED
    BY <2>1
<1> QED
  BY <1>1 DEF Goto

(* No request is both a build and a search.                                *)
LEMMA TwoKinds ==
  /\ \A b \in Builder : b \in Request /\ b \notin Searcher /\ b # NoBuilder
  /\ \A s \in Searcher : s \in Request /\ s \notin Builder
BY IndexSwapAssumption DEF Request

(* The build that is at work holds the mutex, and no other build is.       *)
LEMMA AloneAtWork ==
  ASSUME Exclusive, NEW b \in Builder, pc[b] \in AtWork
  PROVE  holder = b /\ \A c \in Builder : c # b => pc[c] \notin AtWork
BY DEF Exclusive

(* At the start there is one index or none, and no request has begun.      *)
LEMMA SwapInvInit == Init => SwapInv
<1> SUFFICES ASSUME Init PROVE SwapInv
  OBVIOUS
<1> USE DEF Init
<1>1. \A r \in Request : pc[r] = "idle"
  OBVIOUS
<1>2. \A f \in Files : NoFiles[f] = Missing
  BY DEF NoFiles
<1>3. <<>> \in Seq(Nat) /\ <<>> \in Seq(ByteValue)
  OBVIOUS
<1>4. NoFiles \in [Files -> Seq(Nat)] /\ NoFiles["content"] \in Seq(ByteValue)
  BY <1>3 DEF NoFiles, Missing, Files
<1>5. TypeOK
  <2>1. table \in DOMAIN Tables /\ rows \in [Builder -> DOMAIN Tables]
    BY TableType
  <2>2. faults \in 0 .. MaxFaults
    BY IndexSwapAssumption
  <2>3. \A s \in Searcher : result[s].status = "none"
    BY DEF NoResult
  <2>4. step \in [Request -> 1 .. Len(FileOrder) + 1]
    BY Order
  <2> QED
    BY <1>1, <1>3, <1>4, <2>1, <2>2, <2>3, <2>4, TwoKinds DEF TypeOK
<1>6. Shape
  BY <1>1, <1>4 DEF Shape
<1>7. Exclusive /\ Fetched /\ Written /\ Swapping /\ Untouched
  BY <1>1, TwoKinds DEF Exclusive, Fetched, Written, Swapping, Untouched, AtWork, Writing
<1>8. Reading
  BY <1>1, <1>2, Order, TwoKinds DEF Reading
<1>9. Undisturbed
  BY <1>1, TwoKinds DEF Undisturbed, Opening
<1>10. SettledIndex /\ QuietSearchOneIndex
  BY DEF SettledIndex, QuietSearchOneIndex
<1> QED
  BY <1>5, <1>6, <1>7, <1>8, <1>9, <1>10 DEF SwapInv

(* What ends the process moves every request that has begun to its end.    *)
LEMMA EndPlace ==
  ASSUME ProcessEnds
  PROVE  /\ \A r \in Request : pc'[r] = (IF pc[r] = "idle" THEN "idle" ELSE "answered")
         /\ pc' = [r \in Request |-> pc'[r]]
BY DEF ProcessEnds


(* The program counters and results stay functions and the content file a  *)
(* text.                                                                   *)
LEMMA ShapeStep == SwapInv /\ [Next]_vars => Shape'
<1> SUFFICES ASSUME SwapInv, [Next]_vars PROVE Shape'
  OBVIOUS
<1> USE TwoKinds
<1>0. Shape /\ TypeOK
  BY DEF SwapInv
<1>1. pc' = [r \in Request |-> pc'[r]]
  <2>1. ASSUME NEW r \in Request, NEW label, Goto(r, label) PROVE pc' = [q \in Request |-> pc'[q]]
    BY <1>0, <2>1, GotoPlace
  <2>2. ASSUME UNCHANGED pc PROVE pc' = [q \in Request |-> pc'[q]]
    BY <1>0, <2>2 DEF Shape
  <2>3. ASSUME ProcessEnds PROVE pc' = [q \in Request |-> pc'[q]]
    BY <2>3, EndPlace
  <2>4. CASE UNCHANGED vars
    BY <2>2, <2>4 DEF vars
  <2>5. ASSUME NEW b \in Builder, Arrive(b) \/ Lock(b) \/ BuildStep(b) PROVE pc' = [q \in Request |-> pc'[q]]
    BY <2>5, <2>1, <2>2, <2>3
       DEF Arrive, Lock, BuildStep, FetchCreate, FetchFill, FetchFails, OpenContent, OpenFails, Fail,
           WriteFile, BuildKills, WriteFails, Rename, RenameFails, Reply
  <2>6. ASSUME NEW s \in Searcher, Search(s) \/ Open(s) \/ Answer(s) PROVE pc' = [q \in Request |-> pc'[q]]
    <3>1. CASE Search(s)
      BY <3>1, <2>1 DEF Search
    <3>2. CASE Open(s)
      BY <3>2, <2>1, <2>2 DEF Open
    <3>3. CASE Answer(s)
      BY <3>3, <2>1, <2>3 DEF Answer
    <3> QED
      BY <2>6, <3>1, <3>2, <3>3
  <2>7. CASE EditTable \/ Upload \/ Crash \/ Idle
    BY <2>2, <2>3, <2>4, <2>7 DEF EditTable, Upload, Crash, Idle
  <2> QED
    BY <2>4, <2>5, <2>6, <2>7 DEF Next
<1>2. result' = [s \in Searcher |-> result'[s]]
  <2>1. ASSUME NEW s \in Searcher, NEW v, result' = [result EXCEPT ![s] = v]
        PROVE  result' = [q \in Searcher |-> result'[q]]
    BY <1>0, <2>1 DEF Shape
  <2>2. ASSUME UNCHANGED result PROVE result' = [q \in Searcher |-> result'[q]]
    BY <1>0, <2>2 DEF Shape
  <2>4. CASE UNCHANGED vars
    BY <2>2, <2>4 DEF vars, searchVars
  <2>5. ASSUME NEW b \in Builder, Arrive(b) \/ Lock(b) \/ BuildStep(b) PROVE UNCHANGED result
    BY <2>5
       DEF Arrive, Lock, BuildStep, FetchCreate, FetchFill, FetchFails, OpenContent, OpenFails, Fail,
           WriteFile, BuildKills, WriteFails, Rename, RenameFails, Reply, searchVars
  <2>6. ASSUME NEW s \in Searcher, Search(s) \/ Open(s) \/ Answer(s)
        PROVE  result' = [q \in Searcher |-> result'[q]]
    <3>1. CASE Search(s)
      BY <3>1, <2>2 DEF Search, searchVars
    <3>2. CASE Open(s)
      BY <3>2, <2>1, <2>2 DEF Open
    <3>3. CASE Answer(s)
      BY <3>3, <2>1 DEF Answer
    <3> QED
      BY <2>6, <3>1, <3>2, <3>3
  <2>7. CASE EditTable \/ Upload \/ Crash \/ Idle
    BY <2>2, <2>4, <2>7 DEF EditTable, Upload, Crash, Idle, searchVars
  <2> QED
    BY <2>2, <2>4, <2>5, <2>6, <2>7 DEF Next
<1>3. fresh'["content"] \in Seq(ByteValue)
  <2>0. fresh \in [Files -> Seq(Nat)] /\ fresh["content"] \in Seq(ByteValue) /\ "content" \in Files /\ "ids" \in Files
    BY <1>0 DEF Shape, TypeOK, Files
  <2>2. ASSUME UNCHANGED fresh PROVE fresh'["content"] \in Seq(ByteValue)
    BY <2>0, <2>2
  <2>4. CASE UNCHANGED vars
    BY <2>2, <2>4 DEF vars
  <2>5. ASSUME NEW b \in Builder, Arrive(b) \/ Lock(b) \/ BuildStep(b) PROVE fresh'["content"] \in Seq(ByteValue)
    <3>1. CASE FetchCreate(b)
      <4>1. Len(TextOf(Tables[table])) \in Nat
        BY <1>0, TableType, TextType DEF TypeOK
      <4>2. Zeros(Len(TextOf(Tables[table]))) \in Seq(ByteValue)
        BY <4>1, ZerosType
      <4>3. fresh'["content"] = Zeros(Len(TextOf(Tables[table])))
        BY <3>1, <2>0 DEF FetchCreate
      <4> QED
        BY <4>2, <4>3
    <3>2. CASE FetchFill(b)
      <4>1. TextOf(Tables[rows[b]]) \in Seq(ByteValue)
        BY <1>0, TableType, TextType DEF TypeOK
      <4>3. fresh'["content"] = TextOf(Tables[rows[b]])
        BY <3>2, <2>0 DEF FetchFill
      <4> QED
        BY <4>1, <4>3
    <3>3. CASE WriteFile(b)
      <4>1. fresh'["content"] = fresh["content"]
        BY <3>3, <2>0 DEF WriteFile
      <4> QED
        BY <4>1, <2>0
    <3>4. CASE Rename(b)
      <4>1. fresh'["content"] \in {fresh["content"], Missing}
        BY <3>4, <2>0 DEF Rename
      <4>2. Missing \in Seq(ByteValue)
        BY DEF Missing
      <4> QED
        BY <4>1, <4>2, <2>0
    <3>5. CASE Arrive(b) \/ Lock(b) \/ FetchFails(b) \/ OpenContent(b) \/ OpenFails(b) \/ BuildKills(b)
               \/ WriteFails(b) \/ RenameFails(b) \/ Reply(b)
      BY <2>2, <3>5 DEF Arrive, Lock, FetchFails, OpenContent, OpenFails, Fail, BuildKills, ProcessEnds,
           WriteFails, RenameFails, Reply
    <3> QED
      BY <2>5, <3>1, <3>2, <3>3, <3>4, <3>5 DEF BuildStep
  <2>6. ASSUME NEW s \in Searcher, Search(s) \/ Open(s) \/ Answer(s) PROVE UNCHANGED fresh
    BY <2>6, Zenon DEF Search, Open, Answer, ProcessEnds
  <2>7. CASE EditTable \/ Crash \/ Idle
    BY <2>2, <2>4, <2>7 DEF EditTable, Crash, Idle, ProcessEnds
  <2>8. CASE Upload
    <3>1. PICK u \in Uploads : fresh' = [fresh EXCEPT !["content"] = u]
      BY <2>8 DEF Upload
    <3> QED
      BY <2>0, <3>1, IndexSwapAssumption
  <2> QED
    BY <2>2, <2>4, <2>5, <2>6, <2>7, <2>8 DEF Next
<1> QED
  BY <1>1, <1>2, <1>3 DEF Shape

(* The mutex passes from one build to the next only between their works.   *)
LEMMA ExclusiveStep == SwapInv /\ [Next]_vars => Exclusive'
<1> SUFFICES ASSUME SwapInv, [Next]_vars PROVE Exclusive'
  OBVIOUS
<1> USE TwoKinds
<1>0. Shape /\ TypeOK /\ Exclusive
  BY DEF SwapInv
<1> DEFINE Same(c) == (pc'[c] \in AtWork <=> pc[c] \in AtWork) /\ step'[c] = step[c] /\ mode'[c] = mode[c]
                      /\ (pc'[c] = pc[c])
<1>1. CASE UNCHANGED vars
  BY <1>0, <1>1 DEF Exclusive, vars, buildVars
<1>2. ASSUME NEW b \in Builder, Arrive(b) \/ Lock(b) \/ BuildStep(b) PROVE Exclusive'
  <2>0. step[b] \in Nat /\ DOMAIN step = Request
    BY <1>0 DEF TypeOK
  <2>1. CASE Arrive(b)
    BY <1>0, <2>1, GotoPlace DEF Arrive, Exclusive, buildVars, AtWork, Writing
  <2>2. CASE Lock(b)
    <3>1. \A c \in Builder : pc[c] \notin AtWork
      BY <1>0, <2>2 DEF Lock, Exclusive
    <3> QED
      BY <1>0, <2>2, <3>1, GotoPlace DEF Lock, Exclusive, AtWork, Writing
  <2>3. CASE FetchCreate(b)
    BY <1>0, <2>3, GotoPlace DEF FetchCreate, Exclusive, AtWork, Writing
  <2>4. CASE FetchFill(b)
    BY <1>0, <2>4, GotoPlace DEF FetchFill, Exclusive, AtWork, Writing, buildVars
  <2>5. CASE OpenContent(b)
    BY <1>0, <2>5, GotoPlace DEF OpenContent, Exclusive, AtWork, Writing
  <2>6. CASE WriteFile(b)
    BY <1>0, <2>6, GotoPlace DEF WriteFile, Exclusive, AtWork, Writing, buildVars
  <2>7. CASE FetchFails(b) \/ OpenFails(b) \/ WriteFails(b)
    <3>1. pc[b] \in AtWork /\ Fail(b)
      BY <2>7 DEF FetchFails, OpenFails, WriteFails, AtWork, Writing
    <3>2. \A c \in Builder : c # b => pc[c] \notin AtWork
      BY <1>0, <3>1, AloneAtWork
    <3> QED
      BY <1>0, <3>1, <3>2, GotoPlace DEF Fail, Exclusive, AtWork, Writing
  <2>8. CASE BuildKills(b)
    BY <1>0, <2>8, EndPlace DEF BuildKills, ProcessEnds, Exclusive, AtWork, Writing
  <2>9. CASE Rename(b) \/ RenameFails(b)
    <3>1. pc[b] = "rename" /\ UNCHANGED <<pc, holder, mode>> /\ step' = [step EXCEPT ![b] = @ + 1]
      BY <2>9 DEF Rename, RenameFails, buildVars
    <3> QED
      BY <1>0, <3>1 DEF Exclusive
  <2>10. CASE Reply(b)
    <3>1. pc[b] \in AtWork
      BY <2>10 DEF Reply, Renamed, AtWork, Writing
    <3>2. \A c \in Builder : c # b => pc[c] \notin AtWork
      BY <1>0, <3>1, AloneAtWork
    <3> QED
      BY <1>0, <2>10, <3>2, GotoPlace DEF Reply, Exclusive, AtWork, Writing
  <2> QED
    BY <1>2, <2>1, <2>2, <2>3, <2>4, <2>5, <2>6, <2>7, <2>8, <2>9, <2>10 DEF BuildStep
<1>3. ASSUME NEW s \in Searcher, Search(s) \/ Open(s) \/ Answer(s) PROVE Exclusive'
  <2>0. DOMAIN step = Request
    BY <1>0 DEF TypeOK
  <2>1. ASSUME ~ProcessEnds PROVE /\ UNCHANGED <<holder, mode>>
                                  /\ \A c \in Builder : pc'[c] = pc[c] /\ step'[c] = step[c]
    <3>1. CASE Search(s)
      BY <1>0, <3>1, GotoPlace DEF Search, buildVars
    <3>2. CASE Open(s)
      BY <1>0, <2>0, <3>2, GotoPlace DEF Open, buildVars
    <3>3. CASE Answer(s)
      BY <1>0, <2>1, <3>3, GotoPlace, Zenon DEF Answer, buildVars
    <3> QED
      BY <1>3, <3>1, <3>2, <3>3
  <2>2. CASE ProcessEnds
    BY <1>0, <2>2, EndPlace DEF ProcessEnds, Exclusive, AtWork, Writing
  <2> QED
    BY <1>0, <2>1, <2>2 DEF Exclusive
<1>4. CASE EditTable \/ Upload \/ Idle
  BY <1>0, <1>1, <1>4 DEF Exclusive, EditTable, Upload, Idle, buildVars
<1>5. CASE Crash
  BY <1>0, <1>5, EndPlace DEF Crash, ProcessEnds, Exclusive, AtWork, Writing
<1> QED
  BY <1>1, <1>2, <1>3, <1>4, <1>5 DEF Next


(* A build that is at work has taken a step of its own, or nothing it      *)
(* relies on has changed: this is what build_mutex is for.                 *)
OwnStep(b) ==
  \/ Lock(b) \/ FetchCreate(b) \/ FetchFill(b) \/ OpenContent(b) \/ WriteFile(b)
  \/ Rename(b) \/ RenameFails(b)

Unmoved(b) ==
  /\ pc'[b] = pc[b] /\ step'[b] = step[b]
  /\ UNCHANGED <<fresh, active, text, mode, before, cut>>

(* While a build is at work a step is the build's own, or leaves what it   *)
(* has written and the active files alone.                                 *)
LEMMA OwnSteps ==
  ASSUME SwapInv, [Next]_vars, NEW b \in Builder, pc'[b] \in AtWork
  PROVE  OwnStep(b) \/ Unmoved(b)
<1> USE TwoKinds
<1>0. Shape /\ TypeOK /\ Exclusive
  BY DEF SwapInv
<1>1. CASE UNCHANGED vars
  BY <1>1 DEF vars, buildVars, noteVars, Unmoved
<1>2. ~ProcessEnds
  <2>1. SUFFICES ASSUME ProcessEnds PROVE FALSE
    OBVIOUS
  <2>2. pc'[b] \in {"idle", "answered"}
    BY <2>1, EndPlace
  <2> QED
    BY <2>2 DEF AtWork, Writing
<1>3. ASSUME NEW c \in Builder, Arrive(c) \/ Lock(c) \/ BuildStep(c), c # b PROVE Unmoved(b)
  <2>1. CASE Arrive(c)
    BY <1>0, <1>3, <2>1, GotoPlace DEF Arrive, Unmoved, buildVars, noteVars
  <2>2. CASE Lock(c) \/ BuildStep(c)
    <3>1. pc'[b] = pc[b]
      BY <1>0, <1>2, <1>3, <2>2, GotoPlace
         DEF Lock, BuildStep, FetchCreate, FetchFill, FetchFails, OpenContent, OpenFails, Fail,
             WriteFile, BuildKills, WriteFails, Rename, RenameFails, Reply
    <3>2. holder = NoBuilder \/ pc[c] \in AtWork
      BY <2>2
         DEF Lock, BuildStep, FetchCreate, FetchFill, FetchFails, OpenContent, OpenFails,
             WriteFile, BuildKills, WriteFails, Rename, RenameFails, Reply, Renamed, AtWork, Writing
    <3>3. FALSE
      BY <1>0, <1>3, <3>1, <3>2 DEF Exclusive
    <3> QED
      BY <3>3
  <2> QED
    BY <1>3, <2>1, <2>2
<1>4. ASSUME Arrive(b) \/ Lock(b) \/ BuildStep(b) PROVE OwnStep(b)
  <2>1. CASE Arrive(b)
    BY <1>0, <2>1, GotoPlace DEF Arrive, AtWork, Writing
  <2>2. CASE FetchFails(b) \/ OpenFails(b) \/ WriteFails(b)
    BY <1>0, <2>2, GotoPlace DEF FetchFails, OpenFails, WriteFails, Fail, AtWork, Writing
  <2>3. CASE Reply(b)
    BY <1>0, <2>3, GotoPlace DEF Reply, AtWork, Writing
  <2> QED
    BY <1>2, <1>4, <2>1, <2>2, <2>3 DEF BuildStep, BuildKills, OwnStep
<1>5. ASSUME NEW s \in Searcher, Search(s) \/ Open(s) \/ Answer(s) PROVE Unmoved(b)
  <2>0. DOMAIN step = Request
    BY <1>0 DEF TypeOK
  <2>1. CASE Search(s)
    BY <1>0, <2>1, GotoPlace DEF Search, Unmoved, buildVars, noteVars
  <2>2. CASE Open(s)
    BY <1>0, <2>0, <2>2, GotoPlace DEF Open, Unmoved, buildVars
  <2>3. CASE Answer(s)
    BY <1>0, <1>2, <2>3, GotoPlace, Zenon DEF Answer, Unmoved, buildVars, noteVars
  <2> QED
    BY <1>5, <2>1, <2>2, <2>3
<1>6. CASE EditTable \/ Idle
  BY <1>1, <1>6 DEF EditTable, Idle, Unmoved, buildVars, noteVars
<1>7. CASE Upload
  <2>1. pc'[b] = pc[b] /\ holder = NoBuilder
    BY <1>7 DEF Upload
  <2> QED
    BY <1>0, <2>1 DEF Exclusive
<1> QED
  BY <1>1, <1>2, <1>3, <1>4, <1>5, <1>6, <1>7 DEF Next, Crash

(* What a build opens is what it has fetched: nobody else writes           *)
(* content.bin.new meanwhile.                                              *)
LEMMA FetchedStep == SwapInv /\ [Next]_vars => Fetched'
<1> SUFFICES ASSUME SwapInv, [Next]_vars, NEW b \in Builder, pc'[b] = "open", mode'[b] = "db"
             PROVE  \E t \in Range(Tables) : fresh'["content"] = TextOf(t) /\ fresh'["ids"] = IdsOf(t)
  BY DEF Fetched
<1>0. Shape /\ TypeOK /\ Fetched /\ b \in Request
  BY TwoKinds DEF SwapInv
<1>1. OwnStep(b) \/ Unmoved(b)
  BY OwnSteps DEF AtWork
<1>2. CASE Unmoved(b)
  BY <1>0, <1>2 DEF Unmoved, Fetched
<1>3. CASE FetchFill(b)
  <2>1. rows[b] \in DOMAIN Tables
    BY <1>0 DEF TypeOK
  <2>2. Tables[rows[b]] \in Range(Tables)
    BY <2>1 DEF Range
  <2>3. fresh'["content"] = TextOf(Tables[rows[b]]) /\ fresh'["ids"] = IdsOf(Tables[rows[b]])
    BY <1>0, <1>3 DEF FetchFill, TypeOK, Files
  <2> QED
    BY <2>2, <2>3
<1>4. CASE Lock(b)
  BY <1>0, <1>4, GotoPlace DEF Lock
<1>5. ~FetchCreate(b) /\ ~OpenContent(b) /\ ~WriteFile(b) /\ ~Rename(b) /\ ~RenameFails(b)
  BY <1>0, GotoPlace DEF FetchCreate, OpenContent, WriteFile, Rename, RenameFails
<1> QED
  BY <1>1, <1>2, <1>3, <1>4, <1>5 DEF OwnStep

(* Only a build that renames changes the active files.                     *)
LEMMA UntouchedStep == SwapInv /\ [Next]_vars => Untouched'
<1> SUFFICES ASSUME SwapInv, [Next]_vars, NEW b \in Builder, pc'[b] \in AtWork \ {"rename"}
             PROVE  before'[b] = active'
  BY DEF Untouched, AtWork, Writing
<1>0. Shape /\ TypeOK /\ Untouched /\ b \in Request
  BY TwoKinds DEF SwapInv
<1>1. OwnStep(b) \/ Unmoved(b)
  BY OwnSteps
<1>2. CASE Unmoved(b)
  BY <1>0, <1>2 DEF Unmoved, Untouched
<1>3. CASE FetchCreate(b) \/ FetchFill(b) \/ OpenContent(b) \/ WriteFile(b)
  <2>1. pc[b] \in AtWork \ {"rename"} /\ UNCHANGED <<before, active>>
    BY <1>3 DEF FetchCreate, FetchFill, OpenContent, WriteFile, AtWork, Writing, buildVars
  <2> QED
    BY <1>0, <2>1 DEF Untouched
<1>4. CASE Lock(b)
  BY <1>0, <1>4 DEF Lock, TypeOK
<1>5. ~Rename(b) /\ ~RenameFails(b)
  BY DEF Rename, RenameFails
<1> QED
  BY <1>1, <1>2, <1>3, <1>4, <1>5 DEF OwnStep


(* Each write adds the file to those that are of the build's text.         *)
LEMMA WrittenStep == SwapInv /\ [Next]_vars => Written'
<1> SUFFICES ASSUME SwapInv, [Next]_vars, NEW b \in Builder, pc'[b] \in {"offsets", "index", "ids"}
             PROVE
    /\ FileOf("content", fresh'["content"], text'[b])
    /\ mode'[b] = "db" => FileOf("ids", fresh'["ids"], text'[b])
    /\ pc'[b] \in {"index", "ids"} => FileOf("offsets", fresh'["offsets"], text'[b])
    /\ pc'[b] = "ids" => \A f \in {"mapping", "index"} : FileOf(f, fresh'[f], text'[b])
  BY DEF Written, FileOf, Belong
<1>0. Shape /\ TypeOK /\ Exclusive /\ Fetched /\ Written /\ b \in Request
  BY TwoKinds DEF SwapInv
<1>1. OwnStep(b) \/ Unmoved(b)
  BY OwnSteps DEF AtWork, Writing
<1>2. CASE Unmoved(b)
  BY <1>0, <1>2 DEF Unmoved, Written
<1>3. CASE OpenContent(b)
  <2>1. /\ pc[b] = "open" /\ fresh["content"] # Missing /\ pc'[b] = "offsets"
        /\ text'[b] = fresh["content"] /\ UNCHANGED <<fresh, mode>>
    BY <1>0, <1>3, GotoPlace DEF OpenContent, TypeOK
  <2>2. ASSUME mode[b] = "db" PROVE FileOf("ids", fresh["ids"], fresh["content"])
    <3>1. PICK t \in Range(Tables) : fresh["content"] = TextOf(t) /\ fresh["ids"] = IdsOf(t)
      BY <1>0, <2>1, <2>2 DEF Fetched
    <3>2. fresh["ids"] # Missing
      BY <2>1, <3>1, TableType, TextType DEF Missing
    <3> QED
      BY <3>1, <3>2 DEF FileOf, Belong
  <2> QED
    BY <2>1, <2>2 DEF FileOf
<1>4. CASE WriteFile(b)
  <2>0. text'[b] = text[b] /\ mode'[b] = mode[b] /\ fresh \in [Files -> Seq(Nat)]
    BY <1>0, <1>4 DEF WriteFile, buildVars, TypeOK
  <2>1. CASE pc[b] = "offsets"
    <3>1. pc'[b] = "index" /\ fresh' = [fresh EXCEPT !["offsets"] = text[b]]
      BY <1>0, <1>4, <2>1, GotoPlace DEF WriteFile
    <3>2. /\ fresh'["content"] = fresh["content"] /\ fresh'["ids"] = fresh["ids"]
          /\ fresh'["offsets"] = text[b]
      BY <2>0, <3>1 DEF Files
    <3>3. FileOf("content", fresh["content"], text[b]) /\ (mode[b] = "db" => FileOf("ids", fresh["ids"], text[b]))
      BY <1>0, <2>1 DEF Written
    <3>4. FileOf("offsets", text[b], text[b])
      BY <3>3 DEF FileOf
    <3> QED
      BY <2>0, <3>1, <3>2, <3>3, <3>4
  <2>2. CASE pc[b] = "index"
    <3>1. pc'[b] = "ids" /\ fresh' = [fresh EXCEPT !["mapping"] = text[b], !["index"] = text[b]]
      BY <1>0, <1>4, <2>2, GotoPlace DEF WriteFile
    <3>2. /\ fresh'["content"] = fresh["content"] /\ fresh'["ids"] = fresh["ids"]
          /\ fresh'["offsets"] = fresh["offsets"]
          /\ fresh'["mapping"] = text[b] /\ fresh'["index"] = text[b]
      BY <2>0, <3>1 DEF Files
    <3>3. /\ FileOf("content", fresh["content"], text[b])
          /\ mode[b] = "db" => FileOf("ids", fresh["ids"], text[b])
          /\ FileOf("offsets", fresh["offsets"], text[b])
      BY <1>0, <2>2 DEF Written
    <3>4. FileOf("mapping", text[b], text[b]) /\ FileOf("index", text[b], text[b])
      BY <3>3 DEF FileOf
    <3> QED
      BY <2>0, <3>1, <3>2, <3>3, <3>4
  <2>3. pc[b] # "ids"
    BY <1>0, <1>4, GotoPlace DEF WriteFile
  <2> QED
    BY <1>4, <2>1, <2>2, <2>3 DEF WriteFile
<1>5. ~Lock(b) /\ ~FetchCreate(b) /\ ~FetchFill(b) /\ ~Rename(b) /\ ~RenameFails(b)
  BY <1>0, GotoPlace DEF Lock, FetchCreate, FetchFill, Rename, RenameFails
<1> QED
  BY <1>1, <1>2, <1>3, <1>4, <1>5 DEF OwnStep

(* Each rename moves one file of the build's index to its place, and leaves*)
(* those before it there.                                                  *)
LEMMA SwappingStep == SwapInv /\ [Next]_vars => Swapping'
<1> SUFFICES ASSUME SwapInv, [Next]_vars, NEW b \in Builder, pc'[b] = "rename", NEW i \in DOMAIN FileOrder
             PROVE
    /\ i >= step'[b] => FileOf(FileOrder[i], fresh'[FileOrder[i]], text'[b])
    /\ i < step'[b] /\ ~cut' => FileOf(FileOrder[i], active'[FileOrder[i]], text'[b])
  BY DEF Swapping, FileOf, Belong
<1>0. Shape /\ TypeOK /\ Exclusive /\ Written /\ Swapping /\ b \in Request
  BY TwoKinds DEF SwapInv
<1>a. fresh \in [Files -> Seq(Nat)] /\ active \in [Files -> Seq(Nat)] /\ step[b] \in 1 .. 6
  <2>1. step \in [Request -> 1 .. Len(FileOrder) + 1] /\ Len(FileOrder) + 1 = 6
    BY <1>0, Order DEF TypeOK
  <2>2. step[b] \in 1 .. 6
    BY <1>0, <2>1
  <2> QED
    BY <1>0, <2>2 DEF TypeOK
<1>1. OwnStep(b) \/ Unmoved(b)
  BY OwnSteps DEF AtWork, Writing
<1>2. CASE Unmoved(b)
  BY <1>0, <1>2 DEF Unmoved, Swapping
<1>3. CASE WriteFile(b)
  <2>0. text'[b] = text[b] /\ step'[b] = 1 /\ text[b] \in Seq(ByteValue)
    BY <1>0, <1>3 DEF WriteFile, buildVars, TypeOK, Exclusive
  <2>1. CASE pc[b] = "index"
    <3>1. mode[b] # "linear" /\ fresh' = [fresh EXCEPT !["mapping"] = text[b], !["index"] = text[b]]
      BY <1>0, <1>3, <2>1, GotoPlace DEF WriteFile
    <3>2. mode[b] = "db"
      BY <1>0, <3>1, IndexSwapAssumption DEF TypeOK
    <3>3. /\ FileOf("content", fresh["content"], text[b]) /\ FileOf("ids", fresh["ids"], text[b])
          /\ FileOf("offsets", fresh["offsets"], text[b])
      BY <1>0, <2>1, <3>2 DEF Written
    <3>4. FileOf("mapping", text[b], text[b]) /\ FileOf("index", text[b], text[b])
      BY <3>3 DEF FileOf
    <3>5. /\ fresh'["content"] = fresh["content"] /\ fresh'["ids"] = fresh["ids"]
          /\ fresh'["offsets"] = fresh["offsets"]
          /\ fresh'["mapping"] = text[b] /\ fresh'["index"] = text[b]
      BY <1>a, <3>1 DEF Files
    <3>6. \A f \in Files : FileOf(f, fresh'[f], text[b])
      BY <3>3, <3>4, <3>5 DEF Files
    <3> QED
      BY <1>a, <2>0, <3>6, Order
  <2>2. CASE pc[b] = "ids"
    <3>1. fresh' = [fresh EXCEPT !["ids"] = LinearIds(text[b])]
      BY <1>3, <2>2 DEF WriteFile
    <3>2. FileOf("ids", LinearIds(text[b]), text[b])
      BY <2>0, LinearIdsType DEF FileOf, Missing, Belong
    <3>3. /\ FileOf("content", fresh["content"], text[b]) /\ FileOf("offsets", fresh["offsets"], text[b])
          /\ FileOf("mapping", fresh["mapping"], text[b]) /\ FileOf("index", fresh["index"], text[b])
      BY <1>0, <2>2 DEF Written
    <3>5. /\ fresh'["content"] = fresh["content"] /\ fresh'["offsets"] = fresh["offsets"]
          /\ fresh'["mapping"] = fresh["mapping"] /\ fresh'["index"] = fresh["index"]
          /\ fresh'["ids"] = LinearIds(text[b])
      BY <1>a, <3>1 DEF Files
    <3>6. \A f \in Files : FileOf(f, fresh'[f], text[b])
      BY <3>2, <3>3, <3>5 DEF Files
    <3> QED
      BY <1>a, <2>0, <3>6, Order
  <2>3. pc[b] # "offsets"
    BY <1>0, <1>3, GotoPlace DEF WriteFile
  <2> QED
    BY <1>3, <2>1, <2>2, <2>3 DEF WriteFile
<1>4. CASE Rename(b)
  <2> DEFINE f == FileOrder[step[b]]
  <2>1. /\ pc[b] = "rename" /\ step[b] \in DOMAIN FileOrder /\ step'[b] = step[b] + 1 /\ text'[b] = text[b]
        /\ active' = [active EXCEPT ![f] = fresh[f]] /\ fresh' = [fresh EXCEPT ![f] = Missing]
        /\ cut' = (step[b] > 1 /\ cut)
    BY <1>0, <1>4 DEF Rename, TypeOK, buildVars
  <2>2. FileOrder[i] \in Files /\ f \in Files /\ (FileOrder[i] = f <=> i = step[b]) /\ i \in 1 .. 5
    BY <2>1, Order
  <2>3. ASSUME i >= step'[b] PROVE FileOf(FileOrder[i], fresh'[FileOrder[i]], text'[b])
    <3>1. i # step[b] /\ i >= step[b]
      BY <1>a, <2>1, <2>2, <2>3
    <3>2. fresh'[FileOrder[i]] = fresh[FileOrder[i]]
      BY <1>a, <2>1, <2>2, <3>1
    <3> QED
      BY <1>0, <2>1, <3>1, <3>2 DEF Swapping
  <2>4. ASSUME i < step'[b], ~cut' PROVE FileOf(FileOrder[i], active'[FileOrder[i]], text'[b])
    <3>1. CASE i = step[b]
      <4>1. active'[FileOrder[i]] = fresh[FileOrder[i]]
        BY <1>a, <2>1, <2>2, <3>1
      <4>2. i >= step[b]
        BY <1>a, <3>1
      <4> QED
        BY <1>0, <2>1, <4>1, <4>2 DEF Swapping
    <3>2. CASE i # step[b]
      <4>0. i < step[b] /\ step[b] > 1
        BY <1>a, <2>1, <2>2, <2>4, <3>2
      <4>1. ~cut
        BY <2>1, <2>4, <4>0
      <4>2. active'[FileOrder[i]] = active[FileOrder[i]]
        BY <1>a, <2>1, <2>2, <3>2
      <4> QED
        BY <1>0, <2>1, <4>0, <4>1, <4>2 DEF Swapping
    <3> QED
      BY <3>1, <3>2
  <2> QED
    BY <2>3, <2>4
<1>5. CASE RenameFails(b)
  <2>1. pc[b] = "rename" /\ step'[b] = step[b] + 1 /\ text'[b] = text[b] /\ cut' /\ UNCHANGED fresh
    BY <1>0, <1>5 DEF RenameFails, TypeOK, buildVars
  <2>2. i >= step'[b] => i >= step[b]
    BY <1>a, <2>1, Order
  <2> QED
    BY <1>0, <2>1, <2>2 DEF Swapping
<1>6. ~Lock(b) /\ ~FetchCreate(b) /\ ~FetchFill(b) /\ ~OpenContent(b)
  BY <1>0, GotoPlace DEF Lock, FetchCreate, FetchFill, OpenContent
<1> QED
  BY <1>1, <1>2, <1>3, <1>4, <1>5, <1>6 DEF OwnStep


(* Five files of the index of one text are one index.                      *)
LEMMA FilesMakeIndex ==
  ASSUME NEW files, NEW c, \A i \in DOMAIN FileOrder : FileOf(FileOrder[i], files[FileOrder[i]], c)
  PROVE  OneIndex(files) /\ files["content"] = c
<1>1. \A f \in Files : FileOf(f, files[f], c)
  BY Order
<1>2. files["content"] = c
  BY <1>1 DEF Files, FileOf
<1>3. \A f \in Files : files[f] # Missing
  BY <1>1 DEF FileOf
<1>4. \A f \in Files \ {"ids"} : files[f] = files["content"]
  BY <1>1, <1>2 DEF FileOf
<1>5. Belong(files["ids"], files["content"])
  BY <1>1, <1>2 DEF FileOf, Files
<1> QED
  BY <1>2, <1>3, <1>4, <1>5 DEF OneIndex

(* A swap that has begun stays half done until a rename or the end of the  *)
(* process.                                                                *)
LEMMA StillHalf ==
  ASSUME SwapInv, [Next]_vars, HalfSwapped,
         \A b \in Builder : ~Rename(b) /\ ~RenameFails(b), ~ProcessEnds
  PROVE  HalfSwapped'
<1> USE TwoKinds
<1>0. Shape /\ TypeOK
  BY DEF SwapInv
<1>1. PICK c \in Builder : pc[c] = "rename" /\ step[c] \in 2 .. Len(FileOrder)
  BY DEF HalfSwapped
<1>2. step[c] \in DOMAIN FileOrder /\ DOMAIN step = Request
  BY <1>0, <1>1, Order DEF TypeOK
<1>3. pc'[c] = pc[c] /\ step'[c] = step[c]
  <2>1. CASE UNCHANGED vars
    BY <2>1 DEF vars
  <2>2. ASSUME NEW b \in Builder, Arrive(b) \/ Lock(b) \/ BuildStep(b) PROVE pc'[c] = pc[c] /\ step'[c] = step[c]
    <3>1. UNCHANGED step
      BY <2>2
         DEF Arrive, Lock, BuildStep, FetchCreate, FetchFill, FetchFails, OpenContent, OpenFails, Fail,
             WriteFile, BuildKills, ProcessEnds, WriteFails, Reply
    <3>2. b # c
      BY <2>2, <1>1, <1>2
         DEF Arrive, Lock, BuildStep, FetchCreate, FetchFill, FetchFails, OpenContent, OpenFails, Fail,
             WriteFile, BuildKills, WriteFails, Reply, Renamed
    <3>3. pc'[c] = pc[c]
      BY <1>0, <2>2, <3>2, GotoPlace
         DEF Arrive, Lock, BuildStep, FetchCreate, FetchFill, FetchFails, OpenContent, OpenFails, Fail,
             WriteFile, BuildKills, WriteFails, Reply
    <3> QED
      BY <3>1, <3>3
  <2>3. ASSUME NEW s \in Searcher, Search(s) \/ Open(s) \/ Answer(s) PROVE pc'[c] = pc[c] /\ step'[c] = step[c]
    <3>1. CASE Search(s)
      BY <1>0, <3>1, GotoPlace DEF Search
    <3>2. CASE Open(s)
      BY <1>0, <1>2, <3>2, GotoPlace DEF Open
    <3>3. CASE Answer(s)
      BY <1>0, <3>3, GotoPlace, Zenon DEF Answer
    <3> QED
      BY <2>3, <3>1, <3>2, <3>3
  <2>4. CASE EditTable \/ Upload \/ Idle
    BY <2>1, <2>4 DEF EditTable, Upload, Idle
  <2> QED
    BY <2>1, <2>2, <2>3, <2>4 DEF Next, Crash
<1> QED
  BY <1>1, <1>3 DEF HalfSwapped

(* The last rename completes the index; a swap that is cut says so.        *)
LEMMA SettledStep == SwapInv /\ [Next]_vars => SettledIndex'
<1> SUFFICES ASSUME SwapInv, [Next]_vars, ~HalfSwapped', ~cut'
             PROVE  OneIndex(active') \/ active' = NoFiles
  BY DEF SettledIndex, OneIndex, Belong
<1> USE TwoKinds
<1>0. Shape /\ TypeOK /\ SettledIndex
  BY DEF SwapInv
<1>1. ASSUME NEW b \in Builder, Rename(b) PROVE OneIndex(active')
  <2>1. /\ pc'[b] = "rename" /\ step[b] \in DOMAIN FileOrder /\ step'[b] = step[b] + 1
    BY <1>0, <1>1 DEF Rename, TypeOK
  <2>2. step'[b] = 6
    <3>1. step'[b] \notin 2 .. Len(FileOrder)
      BY <2>1 DEF HalfSwapped
    <3> QED
      BY <2>1, <3>1, Order
  <2>3. Swapping'
    BY SwappingStep
  <2>4. \A i \in DOMAIN FileOrder : FileOf(FileOrder[i], active'[FileOrder[i]], text'[b])
    <3> SUFFICES ASSUME NEW i \in DOMAIN FileOrder PROVE FileOf(FileOrder[i], active'[FileOrder[i]], text'[b])
      OBVIOUS
    <3>1. i < step'[b]
      BY <2>2, Order
    <3> QED
      BY <2>1, <2>3, <3>1 DEF Swapping, FileOf, Belong
  <2> QED
    BY <2>4, FilesMakeIndex
<1>2. ASSUME NEW b \in Builder, RenameFails(b) PROVE FALSE
  BY <1>2 DEF RenameFails
<1>3. CASE ProcessEnds
  BY <1>0, <1>3 DEF ProcessEnds, SettledIndex
<1>4. ASSUME ~ProcessEnds, \A b \in Builder : ~Rename(b) /\ ~RenameFails(b)
      PROVE  OneIndex(active') \/ active' = NoFiles
  <2>1. ~HalfSwapped
    BY <1>4, StillHalf
  <2>2. cut' = cut /\ active' = active
    <3>1. CASE UNCHANGED vars
      BY <3>1 DEF vars, noteVars
    <3>2. ASSUME NEW b \in Builder, Arrive(b) \/ Lock(b) \/ BuildStep(b) PROVE UNCHANGED <<active, cut>>
      BY <1>4, <3>2
         DEF Arrive, Lock, BuildStep, FetchCreate, FetchFill, FetchFails, OpenContent, OpenFails, Fail,
             WriteFile, BuildKills, WriteFails, Reply, noteVars
    <3>3. ASSUME NEW s \in Searcher, Search(s) \/ Open(s) \/ Answer(s) PROVE UNCHANGED <<active, cut>>
      BY <1>4, <3>3, Zenon DEF Search, Open, Answer, noteVars
    <3>4. CASE EditTable \/ Upload \/ Idle
      BY <3>1, <3>4 DEF EditTable, Upload, Idle, noteVars
    <3> QED
      BY <1>4, <3>1, <3>2, <3>3, <3>4 DEF Next, Crash
  <2> QED
    BY <1>0, <2>1, <2>2 DEF SettledIndex
<1> QED
  BY <1>1, <1>2, <1>3, <1>4

(* A search has taken a step of its own, or it is where it was and has what*)
(* it had, and if an active file was replaced it has been disturbed; or the*)
(* process has ended.                                                      *)
Stayed(s) ==
  /\ result'[s] = result[s] /\ got'[s] = got[s] /\ step'[s] = step[s] /\ query'[s] = query[s]
  /\ pc'[s] \in {pc[s], "answered"}
  /\ disturbed[s] => disturbed'[s]
  /\ active' = active \/ (Opening(s) => disturbed'[s])

(* A step is the search's own, or leaves it alone but for noting that a    *)
(* swap has disturbed it.                                                  *)
LEMMA OwnSearch ==
  ASSUME SwapInv, [Next]_vars, NEW s \in Searcher
  PROVE  Search(s) \/ Open(s) \/ Answer(s) \/ Stayed(s)
<1> USE TwoKinds
<1>0. /\ Shape /\ TypeOK /\ DOMAIN step = Request /\ DOMAIN got = Searcher /\ DOMAIN disturbed = Searcher
      /\ DOMAIN result = Searcher
  BY DEF SwapInv, TypeOK, Shape
<1>1. CASE UNCHANGED vars
  BY <1>1 DEF vars, searchVars, noteVars, Stayed
<1>2. ASSUME ProcessEnds, result'[s] = result[s] PROVE Stayed(s)
  BY <1>2, EndPlace DEF ProcessEnds, Stayed
<1>3. ASSUME NEW b \in Builder, Arrive(b) \/ Lock(b) \/ BuildStep(b) PROVE Stayed(s)
  <2>1. CASE Rename(b)
    <3>1. disturbed'[s] = (disturbed[s] \/ Opening(s)) /\ UNCHANGED <<pc, query, got, result>>
      BY <2>1 DEF Rename, searchVars
    <3>2. step'[s] = step[s]
      BY <1>0, <2>1 DEF Rename
    <3> QED
      BY <3>1, <3>2 DEF Stayed
  <2>2. CASE RenameFails(b)
    <3>2. step'[s] = step[s]
      BY <1>0, <2>2 DEF RenameFails
    <3> QED
      BY <2>2, <3>2 DEF RenameFails, Stayed, searchVars
  <2>3. CASE BuildKills(b)
    BY <1>2, <2>3 DEF BuildKills
  <2>4. CASE ~Rename(b) /\ ~RenameFails(b) /\ ~BuildKills(b)
    <3>1. pc'[s] = pc[s]
      BY <1>0, <1>3, <2>4, GotoPlace
         DEF Arrive, Lock, BuildStep, FetchCreate, FetchFill, FetchFails, OpenContent, OpenFails, Fail,
             WriteFile, WriteFails, Reply
    <3>2. UNCHANGED <<active, step, query, got, result, disturbed>>
      BY <1>3, <2>4
         DEF Arrive, Lock, BuildStep, FetchCreate, FetchFill, FetchFails, OpenContent, OpenFails, Fail,
             WriteFile, WriteFails, Reply, searchVars, noteVars
    <3> QED
      BY <3>1, <3>2 DEF Stayed
  <2> QED
    BY <2>1, <2>2, <2>3, <2>4
<1>4. ASSUME NEW z \in Searcher, Search(z) \/ Open(z) \/ Answer(z), z # s PROVE Stayed(s)
  <2>1. CASE Search(z)
    BY <1>0, <1>4, <2>1, GotoPlace DEF Search, Stayed, searchVars, noteVars
  <2>2. CASE Open(z)
    <3>1. /\ got'[s] = got[s] /\ step'[s] = step[s] /\ pc'[s] = pc[s] /\ result'[s] = result[s]
      BY <1>0, <1>4, <2>2, GotoPlace DEF Open
    <3>2. disturbed'[s] = disturbed[s] /\ UNCHANGED <<active, query>>
      BY <1>0, <1>4, <2>2 DEF Open
    <3> QED
      BY <3>1, <3>2 DEF Stayed
  <2>3. CASE Answer(z)
    <3>1. PICK a : /\ result' = [result EXCEPT ![z] = a]
                   /\ IF a = Killed THEN ProcessEnds /\ UNCHANGED faults
                      ELSE /\ Goto(z, "answered")
                           /\ UNCHANGED <<fresh, active, holder, step, buildVars, query, got, noteVars, envVars>>
      BY <2>3 DEF Answer
    <3>2. result'[s] = result[s]
      BY <1>0, <1>4, <3>1
    <3>3. CASE a = Killed
      BY <1>2, <3>1, <3>2, <3>3
    <3>4. CASE a # Killed
      BY <1>0, <1>4, <3>1, <3>2, <3>4, GotoPlace DEF Stayed, noteVars
    <3> QED
      BY <3>3, <3>4
  <2> QED
    BY <1>4, <2>1, <2>2, <2>3
<1>5. CASE EditTable \/ Upload \/ Idle
  BY <1>1, <1>5 DEF EditTable, Upload, Idle, Stayed, searchVars, noteVars
<1>6. CASE Crash
  BY <1>2, <1>6 DEF Crash
<1> QED
  BY <1>1, <1>3, <1>4, <1>5, <1>6 DEF Next


(* A search opens one file, or is refused because it cannot be mapped.     *)
LEMMA OpenEffect ==
  ASSUME SwapInv, NEW s \in Searcher, Open(s)
  PROVE
    /\ pc[s] = "opening" /\ step[s] \in DOMAIN FileOrder
    /\ disturbed'[s] = (disturbed[s] \/ HalfSwapped \/ cut) /\ active' = active
    /\ \/ /\ active[FileOrder[step[s]]] # Missing
          /\ got'[s] = [got[s] EXCEPT ![FileOrder[step[s]]] = active[FileOrder[step[s]]]]
          /\ step'[s] = step[s] + 1 /\ pc'[s] = "opening" /\ result'[s] = result[s]
       \/ /\ got'[s] = got[s] /\ step'[s] = step[s]
          /\ pc'[s] = "answered" /\ result'[s] = Error
<1>0. /\ Shape /\ DOMAIN step = Request /\ DOMAIN got = Searcher /\ DOMAIN disturbed = Searcher
      /\ DOMAIN result = Searcher /\ s \in Request
  BY TwoKinds DEF SwapInv, TypeOK, Shape
<1>1. disturbed'[s] = (disturbed[s] \/ HalfSwapped \/ cut) /\ active' = active
  BY <1>0 DEF Open
<1>2. pc[s] = "opening" /\ step[s] \in DOMAIN FileOrder
  BY DEF Open
<1> DEFINE f == FileOrder[step[s]]
<1>3. CASE /\ Mappable(f)
           /\ got' = [got EXCEPT ![s] = [@ EXCEPT ![f] = active[f]]]
           /\ step' = [step EXCEPT ![s] = @ + 1]
           /\ UNCHANGED <<pc, result>>
  BY <1>0, <1>1, <1>2, <1>3 DEF Mappable
<1>4. CASE /\ result' = [result EXCEPT ![s] = Error]
           /\ Goto(s, "answered")
           /\ UNCHANGED <<got, step>>
  BY <1>0, <1>1, <1>2, <1>4, GotoPlace
<1> QED
  BY <1>3, <1>4 DEF Open

(* An answer is one that query() gives on the files the search has opened. *)
LEMMA AnswerEffect ==
  ASSUME SwapInv, NEW s \in Searcher, Answer(s)
  PROVE
    /\ pc[s] = "opening" /\ step[s] = 6 /\ pc'[s] = "answered"
    /\ result'[s] \in Answers(query[s], Built[got[s].mapping].mapping, Built[got[s].index].index,
                              Built[got[s].offsets].offsets, got[s].ids, got[s].content)
    /\ got' = got /\ query' = query /\ disturbed' = disturbed /\ active' = active
<1>0. Shape /\ DOMAIN result = Searcher /\ s \in Request /\ step \in [Request -> 1 .. Len(FileOrder) + 1]
  BY TwoKinds DEF SwapInv, TypeOK, Shape
<1>1. pc[s] = "opening" /\ step[s] = 6
  <2>1. step[s] \in 1 .. 6 /\ step[s] \notin 1 .. 5 /\ pc[s] = "opening"
    BY <1>0, Order DEF Answer
  <2> QED
    BY <2>1
<1>2. PICK a \in Answers(query[s], Built[got[s].mapping].mapping, Built[got[s].index].index,
                         Built[got[s].offsets].offsets, got[s].ids, got[s].content) :
          /\ result' = [result EXCEPT ![s] = a]
          /\ IF a = Killed THEN ProcessEnds /\ UNCHANGED faults
             ELSE /\ Goto(s, "answered")
                  /\ UNCHANGED <<fresh, active, holder, step, buildVars, query, got, noteVars, envVars>>
  BY DEF Answer
<1>3. result'[s] = a
  BY <1>0, <1>2
<1>4. pc'[s] = "answered" /\ got' = got /\ query' = query /\ disturbed' = disturbed /\ active' = active
  <2>1. CASE a = Killed
    BY <1>0, <1>1, <1>2, <2>1, EndPlace DEF ProcessEnds
  <2>2. CASE a # Killed
    BY <1>0, <1>2, <2>2, GotoPlace DEF noteVars
  <2> QED
    BY <2>1, <2>2
<1> QED
  BY <1>1, <1>2, <1>3, <1>4

(* A search opens the files in their order, and each once.                 *)
LEMMA ReadingStep == SwapInv /\ [Next]_vars => Reading'
<1> SUFFICES ASSUME SwapInv, [Next]_vars, NEW s \in Searcher, pc'[s] \in {"idle", "opening"}
             PROVE
    /\ result'[s] = NoResult
    /\ pc'[s] = "idle" => step'[s] = 1
    /\ \A i \in DOMAIN FileOrder : got'[s][FileOrder[i]] = Missing <=> i >= step'[s]
  BY DEF Reading
<1>0. Shape /\ TypeOK /\ Reading /\ s \in Request /\ got[s] \in [Files -> Seq(Nat)]
  BY TwoKinds DEF SwapInv, TypeOK
<1>1. CASE Stayed(s)
  BY <1>0, <1>1 DEF Stayed, Reading
<1>2. CASE Search(s)
  BY <1>0, <1>2, GotoPlace DEF Search, searchVars, Reading
<1>3. CASE Open(s)
  <2>1. /\ active[FileOrder[step[s]]] # Missing /\ step[s] \in DOMAIN FileOrder /\ pc[s] = "opening"
        /\ got'[s] = [got[s] EXCEPT ![FileOrder[step[s]]] = active[FileOrder[step[s]]]]
        /\ step'[s] = step[s] + 1 /\ pc'[s] = "opening" /\ result'[s] = result[s]
    BY <1>3, OpenEffect
  <2>2. ASSUME NEW i \in DOMAIN FileOrder PROVE got'[s][FileOrder[i]] = Missing <=> i >= step'[s]
    <3>1. i \in 1 .. 5 /\ step[s] \in 1 .. 5 /\ FileOrder[i] \in Files
      BY <2>1, Order
    <3>2. CASE i = step[s]
      <4>1. got'[s][FileOrder[i]] # Missing
        BY <1>0, <2>1, <3>1, <3>2
      <4> QED
        BY <2>1, <3>1, <3>2, <4>1
    <3>3. CASE i # step[s]
      <4>1. got'[s][FileOrder[i]] = got[s][FileOrder[i]]
        BY <1>0, <2>1, <3>1, <3>3, Order
      <4>2. got[s][FileOrder[i]] = Missing <=> i >= step[s]
        BY <1>0, <2>1 DEF Reading
      <4>3. i >= step'[s] <=> i >= step[s]
        BY <2>1, <3>1, <3>3
      <4> QED
        BY <4>1, <4>2, <4>3
    <3> QED
      BY <3>2, <3>3
  <2> QED
    BY <1>0, <2>1, <2>2 DEF Reading
<1>4. ~Answer(s)
  BY AnswerEffect
<1> QED
  BY <1>1, <1>2, <1>3, <1>4, OwnSearch

(* A rename disturbs every search that is opening, so that one that is not *)
(* disturbed still has the active files.                                   *)
LEMMA UndisturbedStep == SwapInv /\ [Next]_vars => Undisturbed'
<1> SUFFICES ASSUME SwapInv, [Next]_vars, NEW s \in Searcher, pc'[s] = "opening", step'[s] > 1, ~disturbed'[s]
             PROVE  OneIndex(active') /\ \A i \in DOMAIN FileOrder :
                      i < step'[s] => got'[s][FileOrder[i]] = active'[FileOrder[i]]
  BY DEF Undisturbed, Opening, OneIndex, Belong
<1>0. /\ Shape /\ TypeOK /\ Reading /\ Undisturbed /\ SettledIndex /\ s \in Request
      /\ got[s] \in [Files -> Seq(Nat)]
  BY TwoKinds DEF SwapInv, TypeOK
<1>1. CASE Stayed(s)
  <2>1. Opening(s) /\ ~disturbed[s] /\ active' = active /\ got'[s] = got[s] /\ step'[s] = step[s]
    BY <1>1 DEF Stayed, Opening
  <2> QED
    BY <1>0, <2>1 DEF Undisturbed
<1>2. CASE Search(s)
  BY <1>0, <1>2 DEF Search, Reading
<1>3. CASE Open(s)
  <2>1. /\ active[FileOrder[step[s]]] # Missing /\ step[s] \in DOMAIN FileOrder /\ pc[s] = "opening"
        /\ got'[s] = [got[s] EXCEPT ![FileOrder[step[s]]] = active[FileOrder[step[s]]]]
        /\ step'[s] = step[s] + 1 /\ active' = active
        /\ ~disturbed[s] /\ ~HalfSwapped /\ ~cut
    BY <1>3, OpenEffect
  <2>2. FileOrder[step[s]] \in Files /\ step[s] \in 1 .. 5
    BY <2>1, Order
  <2>3. OneIndex(active)
    BY <1>0, <2>1, <2>2 DEF SettledIndex, NoFiles
  <2>4. ASSUME NEW i \in DOMAIN FileOrder, i < step'[s] PROVE got'[s][FileOrder[i]] = active[FileOrder[i]]
    <3>1. i \in 1 .. 5 /\ FileOrder[i] \in Files
      BY Order
    <3>2. CASE i = step[s]
      BY <1>0, <2>1, <3>1, <3>2
    <3>3. CASE i # step[s]
      <4>1. got'[s][FileOrder[i]] = got[s][FileOrder[i]]
        BY <1>0, <2>1, <3>1, <3>3, Order
      <4>2. i < step[s] /\ step[s] > 1
        BY <2>1, <2>2, <2>4, <3>1, <3>3
      <4> QED
        BY <1>0, <2>1, <4>1, <4>2 DEF Undisturbed, Opening
    <3> QED
      BY <3>2, <3>3
  <2> QED
    BY <2>1, <2>3, <2>4
<1>4. ~Answer(s)
  BY AnswerEffect
<1> QED
  BY <1>1, <1>2, <1>3, <1>4, OwnSearch

(* A search that is not disturbed answers from the files it has, which are *)
(* one index.                                                              *)
LEMMA QuietStep == SwapInv /\ [Next]_vars => QuietSearchOneIndex'
<1> DEFINE Right(r, q, g) ==
      IF \E f \in Files : g[f] = Missing THEN r = Error
      ELSE LET c == g.content
           IN  /\ OneIndex(g)
               /\ r \in Answers(q, Built[c].mapping, Built[c].index, Built[c].offsets, g.ids, c)
<1> SUFFICES ASSUME SwapInv, [Next]_vars, NEW s \in Searcher, result'[s] # NoResult, ~disturbed'[s]
             PROVE  Right(result'[s], query'[s], got'[s])
  BY Zenon DEF QuietSearchOneIndex, OneIndex, Belong
<1>0. Shape /\ TypeOK /\ Reading /\ Undisturbed /\ s \in Request
  BY TwoKinds DEF SwapInv
<1>a. ASSUME result[s] # NoResult, ~disturbed[s] PROVE Right(result[s], query[s], got[s])
  BY <1>a, Zenon DEF SwapInv, QuietSearchOneIndex
<1>1. CASE Stayed(s)
  <2>1. result'[s] = result[s] /\ ~disturbed[s] /\ query'[s] = query[s] /\ got'[s] = got[s]
    BY <1>1 DEF Stayed
  <2> HIDE DEF Right
  <2> QED
    BY <1>a, <2>1
<1>2. CASE Search(s)
  <2>1. result'[s] = result[s] /\ ~disturbed[s] /\ query'[s] = query[s] /\ got'[s] = got[s]
    BY <1>2 DEF Search, searchVars, noteVars
  <2> HIDE DEF Right
  <2> QED
    BY <1>a, <2>1
<1>3. CASE Open(s)
  <2>1. result[s] = NoResult
    BY <1>0, <1>3 DEF Open, Reading
  <2>2. /\ pc[s] = "opening" /\ step[s] \in DOMAIN FileOrder
        /\ got'[s] = got[s] /\ step'[s] = step[s] /\ result'[s] = Error
    BY <1>3, <2>1, OpenEffect
  <2>3. step[s] \in 1 .. 5 /\ step[s] >= step[s]
    BY <2>2, Order
  <2>4. got'[s][FileOrder[step[s]]] = Missing
    BY <1>0, <2>2, <2>3 DEF Reading
  <2>5. FileOrder[step[s]] \in Files
    BY <2>2, Order
  <2> QED
    BY <2>2, <2>4, <2>5
<1>4. CASE Answer(s)
  <2>1. /\ pc[s] = "opening" /\ step[s] = 6
        /\ result'[s] \in Answers(query[s], Built[got[s].mapping].mapping, Built[got[s].index].index,
                                  Built[got[s].offsets].offsets, got[s].ids, got[s].content)
        /\ got' = got /\ query' = query /\ ~disturbed[s]
    BY <1>4, AnswerEffect
  <2>2. /\ OneIndex(active)
        /\ \A i \in DOMAIN FileOrder : i < step[s] => got[s][FileOrder[i]] = active[FileOrder[i]]
    <3>1. Opening(s)
      BY <2>1 DEF Opening
    <3> QED
      BY <1>0, <2>1, <3>1 DEF Undisturbed
  <2>3. \A i \in DOMAIN FileOrder : i < step[s]
    BY <2>1, Order
  <2>4. \A f \in Files : got[s][f] = active[f]
    BY <2>2, <2>3, Order
  <2>5. OneIndex(got[s]) /\ \A f \in Files : got[s][f] # Missing
    BY <2>2, <2>4 DEF OneIndex, Files
  <2>6. /\ got[s].mapping = got[s].content /\ got[s].index = got[s].content
        /\ got[s].offsets = got[s].content
    BY <2>5 DEF OneIndex, Files
  <2> QED
    BY <2>1, <2>5, <2>6, Zenon
<1> QED
  BY <1>1, <1>2, <1>3, <1>4, OwnSearch


(* The types of the variables of the files and the mutex, ...              *)
LEMMA FileTypes ==
  ASSUME SwapInv, [Next]_vars
  PROVE  /\ fresh' \in [Files -> Seq(Nat)] /\ active' \in [Files -> Seq(Nat)]
         /\ before' \in [Builder -> [Files -> Seq(Nat)]]
         /\ holder' \in Builder \cup {NoBuilder} /\ cut' \in BOOLEAN
<1>0. /\ fresh \in [Files -> Seq(Nat)] /\ active \in [Files -> Seq(Nat)]
      /\ before \in [Builder -> [Files -> Seq(Nat)]]
      /\ holder \in Builder \cup {NoBuilder} /\ cut \in BOOLEAN
      /\ table \in DOMAIN Tables /\ rows \in [Builder -> DOMAIN Tables] /\ text \in [Builder -> Seq(ByteValue)]
  BY DEF SwapInv, TypeOK
<1> DEFINE Goal == /\ fresh' \in [Files -> Seq(Nat)] /\ active' \in [Files -> Seq(Nat)]
                   /\ before' \in [Builder -> [Files -> Seq(Nat)]]
                   /\ holder' \in Builder \cup {NoBuilder} /\ cut' \in BOOLEAN
<1>a. \A n \in DOMAIN Tables : /\ IdsOf(Tables[n]) \in Seq(Nat) /\ TextOf(Tables[n]) \in Seq(ByteValue)
                               /\ TextOf(Tables[n]) \in Seq(Nat)
  BY TableType, TextType, BytesAreNumbers
<1>b. \A b \in Builder : text[b] \in Seq(ByteValue) /\ text[b] \in Seq(Nat)
  BY <1>0, BytesAreNumbers
<1>1. CASE UNCHANGED vars
  BY <1>0, <1>1 DEF vars, buildVars, noteVars
<1>2. ASSUME NEW b \in Builder, Arrive(b) \/ Lock(b) \/ BuildStep(b) PROVE Goal
  <2>1. CASE Arrive(b) \/ Lock(b)
    BY <1>0, <2>1 DEF Arrive, Lock, buildVars, noteVars
  <2>2. CASE FetchFails(b) \/ OpenFails(b) \/ WriteFails(b) \/ Reply(b)
    BY <1>0, <2>2 DEF FetchFails, OpenFails, WriteFails, Fail, Reply, buildVars, noteVars
  <2>3. CASE FetchCreate(b)
    <3>1. /\ Len(TextOf(Tables[table])) \in Nat /\ Len(Tables[table]) \in Nat
      BY <1>0, <1>a, TableType
    <3>2. Zeros(Len(TextOf(Tables[table]))) \in Seq(Nat) /\ Zeros(Len(Tables[table])) \in Seq(Nat)
      BY <3>1, ZerosType
    <3> QED
      BY <1>0, <2>3, <3>2 DEF FetchCreate, noteVars
  <2>4. CASE FetchFill(b)
    <3>1. rows[b] \in DOMAIN Tables
      BY <1>0
    <3> QED
      BY <1>0, <1>a, <2>4, <3>1 DEF FetchFill, buildVars, noteVars
  <2>5. CASE OpenContent(b)
    BY <1>0, <2>5 DEF OpenContent, noteVars
  <2>6. CASE WriteFile(b)
    <3>1. LinearIds(text[b]) \in Seq(Nat)
      BY <1>b, LinearIdsType
    <3>2. UNCHANGED <<active, holder, before, cut>>
      BY <2>6 DEF WriteFile, buildVars, noteVars
    <3>3. fresh' \in [Files -> Seq(Nat)]
      BY <1>0, <1>b, <2>6, <3>1 DEF WriteFile
    <3> QED
      BY <1>0, <3>2, <3>3
  <2>7. CASE BuildKills(b)
    BY <1>0, <2>7 DEF BuildKills, ProcessEnds
  <2>8. CASE Rename(b)
    <3>1. FileOrder[step[b]] \in Files
      BY <2>8, Order DEF Rename
    <3>2. fresh[FileOrder[step[b]]] \in Seq(Nat) /\ Missing \in Seq(Nat)
      BY <1>0, <3>1 DEF Missing
    <3>3. /\ fresh' = [fresh EXCEPT ![FileOrder[step[b]]] = Missing]
          /\ active' = [active EXCEPT ![FileOrder[step[b]]] = fresh[FileOrder[step[b]]]]
          /\ UNCHANGED <<before, holder>> /\ cut' = (step[b] > 1 /\ cut)
      BY <2>8 DEF Rename, buildVars
    <3>4. cut' \in BOOLEAN
      BY <3>3
    <3>5. fresh' \in [Files -> Seq(Nat)] /\ active' \in [Files -> Seq(Nat)]
      BY <1>0, <3>1, <3>2, <3>3
    <3> QED
      BY <1>0, <3>3, <3>4, <3>5
  <2>9. CASE RenameFails(b)
    BY <1>0, <2>9 DEF RenameFails, buildVars
  <2> QED
    BY <1>2, <2>1, <2>2, <2>3, <2>4, <2>5, <2>6, <2>7, <2>8, <2>9 DEF BuildStep
<1>3. ASSUME NEW s \in Searcher, Search(s) \/ Open(s) \/ Answer(s) PROVE Goal
  <2>1. CASE Search(s)
    BY <1>0, <2>1 DEF Search, buildVars, noteVars
  <2>2. CASE Open(s)
    BY <1>0, <2>2 DEF Open, buildVars
  <2>3. CASE Answer(s)
    <3>1. UNCHANGED <<fresh, active, holder, before, cut>> \/ ProcessEnds
      BY <2>3, Zenon DEF Answer, buildVars, noteVars
    <3> QED
      BY <1>0, <3>1 DEF ProcessEnds
  <2> QED
    BY <1>3, <2>1, <2>2, <2>3
<1>4. CASE EditTable \/ Idle
  BY <1>0, <1>1, <1>4 DEF EditTable, Idle, buildVars, noteVars
<1>5. CASE Upload
  <2>1. PICK u \in Uploads : fresh' = [fresh EXCEPT !["content"] = u]
    BY <1>5 DEF Upload
  <2>2. u \in Seq(Nat)
    BY IndexSwapAssumption, BytesAreNumbers
  <2>3. fresh' \in [Files -> Seq(Nat)]
    BY <1>0, <2>1, <2>2
  <2> QED
    BY <1>0, <1>5, <2>3 DEF Upload, buildVars, noteVars
<1>6. CASE Crash
  BY <1>0, <1>6 DEF Crash, ProcessEnds
<1> QED
  BY <1>1, <1>2, <1>3, <1>4, <1>5, <1>6 DEF Next

(* ... of those of the builds and the environment, ...                     *)
LEMMA BuildTypes ==
  ASSUME SwapInv, [Next]_vars
  PROVE  /\ table' \in DOMAIN Tables /\ faults' \in 0 .. MaxFaults /\ uploaded' \in BOOLEAN
         /\ mode' \in [Builder -> Modes] /\ rows' \in [Builder -> DOMAIN Tables]
         /\ text' \in [Builder -> Seq(ByteValue)]
         /\ reply' \in [Builder -> {"none", "200", "500", "lost"}]
<1>0. /\ table \in DOMAIN Tables /\ faults \in 0 .. MaxFaults /\ uploaded \in BOOLEAN
      /\ mode \in [Builder -> Modes] /\ rows \in [Builder -> DOMAIN Tables]
      /\ text \in [Builder -> Seq(ByteValue)]
      /\ reply \in [Builder -> {"none", "200", "500", "lost"}]
      /\ fresh["content"] \in Seq(ByteValue) /\ MaxFaults \in Nat
  BY IndexSwapAssumption DEF SwapInv, TypeOK, Shape
<1> DEFINE Goal == /\ table' \in DOMAIN Tables /\ faults' \in 0 .. MaxFaults /\ uploaded' \in BOOLEAN
                   /\ mode' \in [Builder -> Modes] /\ rows' \in [Builder -> DOMAIN Tables]
                   /\ text' \in [Builder -> Seq(ByteValue)]
                   /\ reply' \in [Builder -> {"none", "200", "500", "lost"}]
<1>1. CASE UNCHANGED vars
  BY <1>0, <1>1 DEF vars, buildVars, envVars
<1>a. ASSUME ProcessEnds, faults' \in 0 .. MaxFaults PROVE Goal
  <2>1. reply' \in [Builder -> {"none", "200", "500", "lost"}]
    BY <1>0, <1>a DEF ProcessEnds
  <2> QED
    BY <1>0, <1>a, <2>1 DEF ProcessEnds
<1>2. ASSUME NEW b \in Builder, Arrive(b) \/ Lock(b) \/ BuildStep(b) PROVE Goal
  <2>1. CASE Arrive(b) \/ Lock(b) \/ FetchFill(b) \/ WriteFile(b) \/ Rename(b)
    BY <1>0, <2>1 DEF Arrive, Lock, FetchFill, WriteFile, Rename, buildVars, envVars
  <2>2. CASE FetchFails(b) \/ OpenFails(b) \/ WriteFails(b) \/ Reply(b)
    BY <1>0, <2>2 DEF FetchFails, OpenFails, WriteFails, Fail, Reply, envVars
  <2>3. CASE FetchCreate(b)
    BY <1>0, <2>3 DEF FetchCreate, envVars
  <2>5. CASE OpenContent(b)
    BY <1>0, <2>5 DEF OpenContent, envVars
  <2>7. CASE BuildKills(b)
    BY <1>0, <1>a, <2>7 DEF BuildKills
  <2>9. CASE RenameFails(b)
    <3>1. faults' \in 0 .. MaxFaults
      BY <1>0, <2>9 DEF RenameFails
    <3> QED
      BY <1>0, <2>9, <3>1 DEF RenameFails, buildVars
  <2> QED
    BY <1>2, <2>1, <2>2, <2>3, <2>5, <2>7, <2>9 DEF BuildStep
<1>3. ASSUME NEW s \in Searcher, Search(s) \/ Open(s) \/ Answer(s) PROVE Goal
  <2>1. CASE Search(s)
    BY <1>0, <2>1 DEF Search, buildVars, envVars
  <2>2. CASE Open(s)
    BY <1>0, <2>2 DEF Open, buildVars, envVars
  <2>3. CASE Answer(s)
    <3>1. \/ UNCHANGED <<fresh, active, holder, step, buildVars, query, got, noteVars, envVars>>
          \/ ProcessEnds /\ UNCHANGED faults
      BY <2>3, Zenon DEF Answer
    <3> QED
      BY <1>0, <1>a, <3>1 DEF buildVars, envVars
  <2> QED
    BY <1>3, <2>1, <2>2, <2>3
<1>4. CASE EditTable
  BY <1>0, <1>4, TableType DEF EditTable, buildVars
<1>5. CASE Upload \/ Idle
  BY <1>0, <1>1, <1>5 DEF Upload, Idle, buildVars
<1>6. CASE Crash
  <2>1. faults' \in 0 .. MaxFaults
    BY <1>0, <1>6 DEF Crash
  <2> QED
    BY <1>a, <1>6, <2>1 DEF Crash
<1> QED
  BY <1>1, <1>2, <1>3, <1>4, <1>5, <1>6 DEF Next


(* ... and of those of the searches and the requests.                      *)
LEMMA PlaceTypes ==
  ASSUME SwapInv, [Next]_vars
  PROVE  /\ \A b \in Builder : pc'[b] \in {"idle", "answered", "lock"} \cup AtWork
         /\ \A s \in Searcher : pc'[s] \in {"idle", "opening", "answered"}
         /\ step' \in [Request -> 1 .. Len(FileOrder) + 1]
<1> USE TwoKinds
<1>0. /\ Shape /\ step \in [Request -> 1 .. 6] /\ DOMAIN FileOrder = 1 .. 5 /\ Len(FileOrder) + 1 = 6
      /\ \A b \in Builder : pc[b] \in {"idle", "answered", "lock"} \cup AtWork
      /\ \A s \in Searcher : pc[s] \in {"idle", "opening", "answered"}
  BY Order DEF SwapInv, TypeOK, AtWork, Writing
<1>1. \A b \in Builder : pc'[b] \in {"idle", "answered", "lock"} \cup AtWork
  <2> SUFFICES ASSUME NEW b \in Builder, pc'[b] \notin AtWork, pc[b] # pc'[b]
               PROVE  pc'[b] \in {"idle", "answered", "lock"}
    BY <1>0
  <2>1. CASE ProcessEnds
    BY <2>1, EndPlace
  <2>2. ASSUME NEW c \in Builder, Arrive(c) \/ Lock(c) \/ BuildStep(c), ~ProcessEnds
        PROVE  \E l \in {"idle", "answered", "lock"} \cup AtWork : pc' = pc \/ Goto(c, l)
    BY <2>2
       DEF Arrive, Lock, BuildStep, FetchCreate, FetchFill, FetchFails, OpenContent, OpenFails, Fail,
           WriteFile, BuildKills, WriteFails, Rename, RenameFails, Reply, AtWork, Writing
  <2>3. ASSUME NEW c \in Builder, Arrive(c) \/ Lock(c) \/ BuildStep(c), ~ProcessEnds
        PROVE  pc'[b] \in {"idle", "answered", "lock"}
    <3>1. PICK l \in {"idle", "answered", "lock"} \cup AtWork : pc' = pc \/ Goto(c, l)
      BY <2>2, <2>3
    <3>2. pc'[b] \in {pc[b], l}
      BY <1>0, <3>1, GotoPlace
    <3> QED
      BY <1>0, <3>2
  <2>4. ASSUME NEW s \in Searcher, Search(s) \/ Open(s) \/ Answer(s), ~ProcessEnds
        PROVE  FALSE
    <3>1. CASE Search(s)
      BY <1>0, <3>1, GotoPlace DEF Search
    <3>2. CASE Open(s)
      BY <1>0, <3>2, GotoPlace DEF Open
    <3>3. CASE Answer(s)
      <4>1. Goto(s, "answered")
        BY <2>4, <3>3, Zenon DEF Answer
      <4> QED
        BY <1>0, <4>1, GotoPlace
    <3> QED
      BY <2>4, <3>1, <3>2, <3>3
  <2> QED
    BY <2>1, <2>3, <2>4 DEF Next, EditTable, Upload, Crash, Idle, vars
<1>2. \A s \in Searcher : pc'[s] \in {"idle", "opening", "answered"}
  <2> SUFFICES ASSUME NEW s \in Searcher PROVE pc'[s] \in {"idle", "opening", "answered"}
    OBVIOUS
  <2>1. CASE Search(s)
    BY <1>0, <2>1, GotoPlace DEF Search
  <2>2. CASE Open(s)
    BY <2>2, OpenEffect
  <2>3. CASE Answer(s)
    BY <2>3, AnswerEffect
  <2>4. CASE Stayed(s)
    BY <1>0, <2>4 DEF Stayed
  <2> QED
    BY <2>1, <2>2, <2>3, <2>4, OwnSearch
<1>3. step' \in [Request -> 1 .. 6]
  <2>1. ASSUME NEW r \in Request, step[r] \in DOMAIN FileOrder, step' = [step EXCEPT ![r] = @ + 1]
        PROVE  step' \in [Request -> 1 .. 6]
    <3>1. step[r] + 1 \in 1 .. 6
      BY <1>0, <2>1
    <3> QED
      BY <1>0, <2>1, <3>1
  <2>2. ASSUME NEW b \in Builder, Arrive(b) \/ Lock(b) \/ BuildStep(b) PROVE step' \in [Request -> 1 .. 6]
    <3>1. CASE Rename(b) \/ RenameFails(b)
      BY <2>1, <3>1 DEF Rename, RenameFails
    <3>2. CASE ~Rename(b) /\ ~RenameFails(b)
      BY <1>0, <2>2, <3>2
         DEF Arrive, Lock, BuildStep, FetchCreate, FetchFill, FetchFails, OpenContent, OpenFails, Fail,
             WriteFile, BuildKills, ProcessEnds, WriteFails, Reply
    <3> QED
      BY <3>1, <3>2
  <2>3. ASSUME NEW s \in Searcher, Search(s) \/ Open(s) \/ Answer(s) PROVE step' \in [Request -> 1 .. 6]
    <3>1. CASE Search(s)
      BY <1>0, <3>1 DEF Search
    <3>2. CASE Open(s)
      BY <1>0, <2>1, <3>2 DEF Open
    <3>3. CASE Answer(s)
      BY <1>0, <3>3, Zenon DEF Answer, ProcessEnds
    <3> QED
      BY <2>3, <3>1, <3>2, <3>3
  <2> QED
    BY <1>0, <2>2, <2>3 DEF Next, EditTable, Upload, Crash, Idle, ProcessEnds, vars
<1> QED
  BY <1>0, <1>1, <1>2, <1>3

(* The types of what belongs to the searches.                              *)
LEMMA SearchTypes ==
  ASSUME SwapInv, [Next]_vars
  PROVE  /\ query' \in [Searcher -> Queries] /\ got' \in [Searcher -> [Files -> Seq(Nat)]]
         /\ \A s \in Searcher : result'[s].status \in {"none", "200", "500", "killed"}
         /\ disturbed' \in [Searcher -> BOOLEAN]
<1>0. /\ query \in [Searcher -> Queries] /\ got \in [Searcher -> [Files -> Seq(Nat)]]
      /\ \A s \in Searcher : result[s].status \in {"none", "200", "500", "killed"}
      /\ disturbed \in [Searcher -> BOOLEAN] /\ cut \in BOOLEAN /\ active \in [Files -> Seq(Nat)]
  BY DEF SwapInv, TypeOK
<1>1. \A s \in Searcher : result'[s].status \in {"none", "200", "500", "killed"}
  <2> SUFFICES ASSUME NEW s \in Searcher PROVE result'[s].status \in {"none", "200", "500", "killed"}
    OBVIOUS
  <2>1. CASE Search(s)
    BY <1>0, <2>1 DEF Search, searchVars
  <2>2. CASE Open(s)
    <3>1. Error.status = "500"
      BY DEF Error
    <3> QED
      BY <1>0, <2>2, <3>1, OpenEffect
  <2>3. CASE Answer(s)
    BY <2>3, AnswerEffect, AnswerStatus
  <2>4. CASE Stayed(s)
    BY <1>0, <2>4 DEF Stayed
  <2> QED
    BY <2>1, <2>2, <2>3, <2>4, OwnSearch
<1> DEFINE Goal == query' \in [Searcher -> Queries] /\ got' \in [Searcher -> [Files -> Seq(Nat)]]
                   /\ disturbed' \in [Searcher -> BOOLEAN]
<1>2. CASE UNCHANGED vars
  BY <1>0, <1>2 DEF vars, searchVars, noteVars
<1>3. ASSUME NEW b \in Builder, Arrive(b) \/ Lock(b) \/ BuildStep(b) PROVE Goal
  <2>1. CASE Rename(b)
    <3>1. \A s \in Searcher : (disturbed[s] \/ Opening(s)) \in BOOLEAN
      OBVIOUS
    <3>2. disturbed' \in [Searcher -> BOOLEAN]
      BY <2>1, <3>1 DEF Rename
    <3> QED
      BY <1>0, <2>1, <3>2 DEF Rename, searchVars
  <2>2. CASE ~Rename(b)
    BY <1>0, <1>3, <2>2
       DEF Arrive, Lock, BuildStep, FetchCreate, FetchFill, FetchFails, OpenContent, OpenFails, Fail,
           WriteFile, BuildKills, ProcessEnds, WriteFails, RenameFails, Reply, searchVars, noteVars
  <2> QED
    BY <2>1, <2>2
<1>4. ASSUME NEW s \in Searcher, Search(s) \/ Open(s) \/ Answer(s) PROVE Goal
  <2>1. CASE Search(s)
    BY <1>0, <2>1 DEF Search, searchVars, noteVars
  <2>2. CASE Open(s)
    <3>0. query' = query /\ disturbed' = [disturbed EXCEPT ![s] = @ \/ HalfSwapped \/ cut]
      BY <2>2 DEF Open
    <3>1. disturbed' \in [Searcher -> BOOLEAN]
      BY <1>0, <3>0 DEF HalfSwapped
    <3>2. FileOrder[step[s]] \in Files
      BY <2>2, OpenEffect, Order, <1>4
    <3>3. active[FileOrder[step[s]]] \in Seq(Nat)
      BY <1>0, <3>2
    <3>4. got' = got \/ got' = [got EXCEPT ![s] = [@ EXCEPT ![FileOrder[step[s]]] = active[FileOrder[step[s]]]]]
      BY <2>2 DEF Open
    <3>5. [got[s] EXCEPT ![FileOrder[step[s]]] = active[FileOrder[step[s]]]] \in [Files -> Seq(Nat)]
      BY <1>0, <3>3
    <3>6. got' \in [Searcher -> [Files -> Seq(Nat)]]
      BY <1>0, <3>4, <3>5
    <3> QED
      BY <1>0, <3>0, <3>1, <3>6
  <2>3. CASE Answer(s)
    BY <1>0, <2>3, AnswerEffect
  <2> QED
    BY <1>4, <2>1, <2>2, <2>3
<1>5. CASE EditTable \/ Upload \/ Crash \/ Idle
  BY <1>0, <1>2, <1>5 DEF EditTable, Upload, Crash, ProcessEnds, Idle, searchVars, noteVars
<1> QED
  BY <1>1, <1>2, <1>3, <1>4, <1>5 DEF Next

(* The types of all variables.                                             *)
LEMMA TypesStep == SwapInv /\ [Next]_vars => TypeOK'
BY FileTypes, BuildTypes, PlaceTypes, SearchTypes DEF TypeOK, AtWork, Writing

(* The parts together: the invariant is inductive.                         *)
LEMMA SwapInvStep == SwapInv /\ [Next]_vars => SwapInv'
BY TypesStep, ShapeStep, ExclusiveStep, FetchedStep, WrittenStep, SwappingStep, UntouchedStep,
   ReadingStep, UndisturbedStep, SettledStep, QuietStep DEF SwapInv


-----------------------------------------------------------------------------
(***************************************************************************)
(* Theorems.                                                               *)
(***************************************************************************)

(* The inductive invariant holds throughout.                               *)
THEOREM SwapInvariant == Spec => []SwapInv
<1>1. Init => SwapInv
  BY SwapInvInit
<1>2. SwapInv /\ [Next]_vars => SwapInv'
  BY SwapInvStep
<1> QED
  BY <1>1, <1>2, PTL DEF Spec

(* Every variable keeps its type.                                          *)
THEOREM IndexSwapTypeOK == Spec => []TypeOK
<1>1. SwapInv => TypeOK
  BY DEF SwapInv
<1> QED
  BY <1>1, SwapInvariant, PTL

(* However many builds are asked for and whatever earlier ones left lying  *)
(* about, a build renames files that are all there and all its own, and    *)
(* build_mutex is held exactly by the one build that is at work.           *)
THEOREM BuildsPromoteTheirOwn == Spec => []PromotesItsOwn
<1>1. SwapInv => PromotesItsOwn
  <2> SUFFICES ASSUME SwapInv, NEW b \in Builder
               PROVE  /\ holder = b <=> pc[b] \notin {"idle", "lock", "answered"}
                      /\ pc[b] = "rename" /\ step[b] = 1 => OneIndex(fresh) /\ fresh["content"] = text[b]
    BY DEF PromotesItsOwn
  <2>1. holder = b <=> pc[b] \notin {"idle", "lock", "answered"}
    BY DEF SwapInv, TypeOK, Exclusive, AtWork, Writing
  <2>2. ASSUME pc[b] = "rename", step[b] = 1 PROVE OneIndex(fresh) /\ fresh["content"] = text[b]
    <3>1. \A i \in DOMAIN FileOrder : FileOf(FileOrder[i], fresh[FileOrder[i]], text[b])
      <4> SUFFICES ASSUME NEW i \in DOMAIN FileOrder PROVE FileOf(FileOrder[i], fresh[FileOrder[i]], text[b])
        OBVIOUS
      <4>1. i >= step[b]
        BY <2>2, Order
      <4> QED
        BY <2>2, <4>1 DEF SwapInv, Swapping
    <3> QED
      BY <3>1, FilesMakeIndex
  <2> QED
    BY <2>1, <2>2
<1> QED
  BY <1>1, SwapInvariant, PTL

(* Between swaps the active files are one index, or there is none yet,     *)
(* unless the last swap lost a rename or was cut short.                    *)
THEOREM IndexSettles == Spec => []SettledIndex
<1>1. SwapInv => SettledIndex
  BY DEF SwapInv
<1> QED
  BY <1>1, SwapInvariant, PTL

(* A search that no swap disturbs is refused for a file it cannot map, or  *)
(* gets an answer of query() on the five files of one build, of however    *)
(* many that write and rename theirs meanwhile.                            *)
THEOREM QuietSearchesReadOneIndex == Spec => []QuietSearchOneIndex
<1>1. SwapInv => QuietSearchOneIndex
  BY DEF SwapInv
<1> QED
  BY <1>1, SwapInvariant, PTL

(* A build that is answered with an error has left the index that searches *)
(* use as it found it.                                                     *)
THEOREM FailedBuildsKeepIndex == Spec => FailedBuildKeepsIndex
<1>1. SwapInv /\ [Next]_vars =>
        [\A b \in Builder : reply[b] # "500" /\ reply'[b] = "500" => active' = before[b]]_vars
  <2> SUFFICES ASSUME SwapInv, [Next]_vars, NEW b \in Builder, reply[b] # "500", reply'[b] = "500"
               PROVE  active' = before[b]
    OBVIOUS
  <2>0. DOMAIN reply = Builder /\ Untouched
    BY DEF SwapInv, TypeOK
  <2>1. ~ProcessEnds
    BY DEF ProcessEnds
  <2>2. ASSUME UNCHANGED reply PROVE FALSE
    BY <2>2
  <2>3. ASSUME NEW c \in Builder, Arrive(c) \/ Lock(c) \/ BuildStep(c) PROVE active' = before[b]
    <3>1. CASE FetchFails(c) \/ OpenFails(c) \/ WriteFails(c)
      <4>1. pc[c] \in AtWork \ {"rename"} /\ Fail(c)
        BY <3>1 DEF FetchFails, OpenFails, WriteFails, AtWork, Writing
      <4>2. c = b
        BY <2>0, <4>1 DEF Fail
      <4> QED
        BY <2>0, <4>1, <4>2 DEF Fail, Untouched
    <3>2. CASE Reply(c)
      BY <2>0, <3>2 DEF Reply
    <3>3. CASE ~FetchFails(c) /\ ~OpenFails(c) /\ ~WriteFails(c) /\ ~Reply(c)
      BY <2>1, <2>2, <2>3, <3>3
         DEF Arrive, Lock, BuildStep, FetchCreate, FetchFill, OpenContent, WriteFile, BuildKills,
             Rename, RenameFails, buildVars
    <3> QED
      BY <3>1, <3>2, <3>3
  <2>4. ASSUME NEW s \in Searcher, Search(s) \/ Open(s) \/ Answer(s) PROVE FALSE
    <3>1. CASE Search(s)
      BY <2>2, <3>1 DEF Search, buildVars
    <3>2. CASE Open(s)
      BY <2>2, <3>2 DEF Open, buildVars
    <3>3. CASE Answer(s)
      <4>1. UNCHANGED <<fresh, active, holder, step, buildVars, query, got, noteVars, envVars>>
        BY <2>1, <3>3, Zenon DEF Answer
      <4> QED
        BY <2>2, <4>1 DEF buildVars
    <3> QED
      BY <2>4, <3>1, <3>2, <3>3
  <2>5. ~EditTable /\ ~Upload /\ ~Crash /\ ~Idle /\ ~UNCHANGED vars
    BY <2>1, <2>2 DEF EditTable, Upload, Crash, Idle, vars, buildVars
  <2> QED
    BY <2>3, <2>4, <2>5 DEF Next
<1> QED
  BY <1>1, SwapInvariant, PTL DEF Spec, FailedBuildKeepsIndex
=============================================================================
