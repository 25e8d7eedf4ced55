---------------------------- MODULE ContentFetch ----------------------------
(***************************************************************************)
(* DatabaseConnector::request_content: the words of the table, a newline   *)
(* after each, become content.bin.new and their ids ids.bin.new.  One      *)
(* statement asks how large the files have to be, a second one fetches the *)
(* rows.  pqxx::work is a transaction of the level READ COMMITTED, so each *)
(* of the two sees the table as it is when it is executed.                 *)
(*                                                                         *)
(* The files are mapped at the size the first statement gave.  at() lets   *)
(* an index through that is equal to the size, and operator[] lets any     *)
(* through.  A write past a file's end is lost in the rest of its last     *)
(* page; beyond that page it ends the process.                             *)
(*                                                                         *)
(* The words come from init_db, which inserts the lines of a file in one   *)
(* transaction, and from other clients of the database, which may insert   *)
(* words of any bytes.                                                     *)
(***************************************************************************)
EXTENDS Integers, Sequences, SequencesExt, FiniteSetsExt

CONSTANTS
  Tables,        \* the successive states of the table: sequences of rows
  Newline,       \* '\n'
  PageBytes,     \* bytes of a page: 4096
  PageIds        \* ids of a page: 512

Row == [id : Nat, word : Seq(Nat)]

ASSUME ContentFetchAssumption ==
  /\ Tables \in Seq(Seq(Row)) \ {<<>>}
  /\ Newline \in Nat
  /\ {PageBytes, PageIds} \subseteq Nat \ {0}

VARIABLES
  table,              \* index into Tables of the present state
  pc,                 \* program counter
  words, bytes,       \* results of the first statement
  rows,               \* result of the second, without the rows dealt with
  word,               \* what is left to copy of the present row's word
  content, ids,       \* content.bin.new and ids.bin.new
  word_file_offset,
  ids_file_offset,
  sized, read         \* the states the two statements saw (for the properties)

sizeVars == <<words, bytes, sized>>
rowVars  == <<rows, word, read>>
fileVars == <<content, ids, word_file_offset, ids_file_offset>>
vars == <<table, pc, sizeVars, rowVars, fileVars>>

(* A faulty variant of Bytes: the words run together. *)
BytesBare(row) == row.word

Bytes(row) == Append(row.word, Newline)

TextOf(t)    == FlattenSeq([n \in DOMAIN t |-> Bytes(t[n])])
IdsOf(t)     == [n \in DOMAIN t |-> t[n].id]
OctetSum(t)  == Len(FlattenSeq([n \in DOMAIN t |-> t[n].word]))
Zeros(n)     == [k \in 1 .. n |-> 0]

(* The lines of a text, without their newlines: what init_db's loop over   *)
(* getline() reads.  A newline at the end begins no further line.          *)
Starts(text) == { k \in DOMAIN text : k = 1 \/ text[k - 1] = Newline }

LineAt(text, k) ==
  LET ends == { m \in k .. Len(text) : text[m] = Newline }
      end  == IF ends = {} THEN Len(text) ELSE Min(ends) - 1
  IN SubSeq(text, k, end)

LinesOf(text) ==
  LET starts == SetToSortSeq(Starts(text), <)
  IN [n \in DOMAIN starts |-> LineAt(text, starts[n])]

(* The table after an import into t; ids is where the sequence of ids goes *)
(* on.                                                                     *)
Imported(t, id, file) ==
  t \o [n \in DOMAIN LinesOf(file) |-> [id |-> id + n - 1, word |-> LinesOf(file)[n]]]

Init ==
  /\ table = 1 /\ pc = "size"
  /\ words = 0 /\ bytes = 0 /\ sized = 1
  /\ rows = <<>> /\ word = <<>> /\ read = 1
  /\ content = <<>> /\ ids = <<>>
  /\ word_file_offset = 0 /\ ids_file_offset = 0

-----------------------------------------------------------------------------
(* Faulty variants of steps below, to show that the properties can fail.   *)
(* They are no part of Next.                                               *)

(* operator[] in place of at().                                            *)
AtUnchecked(offset, size) == FALSE

(* The newlines are not compensated for.                                   *)
CreateContentShort ==
  /\ pc = "create content"
  /\ content' = Zeros(bytes)
  /\ pc' = "create ids"
  /\ UNCHANGED <<table, sizeVars, rowVars, ids, word_file_offset, ids_file_offset>>

(* The null of an empty table goes for a number.                           *)
SizeQueryUnchecked ==
  /\ pc = "size"
  /\ words' = Len(Tables[table])
  /\ bytes' = IF Tables[table] = <<>> THEN -1 ELSE OctetSum(Tables[table])
  /\ pc' = "create content"
  /\ sized' = table
  /\ UNCHANGED <<table, rowVars, fileVars>>

-----------------------------------------------------------------------------
(* SUM() of no rows is null: the call throws.                              *)
SizeQuery ==
  /\ pc = "size"
  /\ IF Tables[table] = <<>>
     THEN pc' = "threw" /\ UNCHANGED <<words, bytes>>
     ELSE /\ words' = Len(Tables[table]) /\ bytes' = OctetSum(Tables[table])
          /\ pc' = "create content"
  /\ sized' = table
  /\ UNCHANGED <<table, rowVars, fileVars>>

(* The file has bytes + words bytes: "compensate for '\n'".                *)
CreateContent ==
  /\ pc = "create content"
  /\ content' = Zeros(bytes + words)
  /\ pc' = "create ids"
  /\ UNCHANGED <<table, sizeVars, rowVars, ids, word_file_offset, ids_file_offset>>

CreateIds ==
  /\ pc = "create ids"
  /\ ids' = Zeros(words)
  /\ pc' = "fetch"
  /\ UNCHANGED <<table, sizeVars, rowVars, content, word_file_offset, ids_file_offset>>

RowsQuery ==
  /\ pc = "fetch"
  /\ rows' = Tables[table] /\ read' = table
  /\ word' = IF Tables[table] = <<>> THEN <<>> ELSE Bytes(Head(Tables[table]))
  /\ pc' = "copy"
  /\ UNCHANGED <<table, sizeVars, fileVars>>

(* A statement or the creation of a file fails.                            *)
Fails ==
  /\ pc \in {"size", "create content", "create ids", "fetch"}
  /\ pc' = "threw"
  /\ UNCHANGED <<table, sizeVars, rowVars, fileVars>>

(* at() throws: not at an index that is the size.                          *)
AtThrows(offset, size) == offset > size

(* Index k is in a page that a file of this size is mapped in.             *)
InPages(k, size, page) == k < ((size + page - 1) \div page) * page

Store(file, k, value) == IF k < Len(file) THEN [file EXCEPT ![k + 1] = value] ELSE file

CopyByte ==
  /\ pc = "copy" /\ rows # <<>> /\ word # <<>>
  /\ ~AtThrows(word_file_offset, Len(content))
  /\ InPages(word_file_offset, Len(content), PageBytes)
  /\ content' = Store(content, word_file_offset, Head(word))
  /\ word_file_offset' = word_file_offset + 1
  /\ word' = Tail(word)
  /\ UNCHANGED <<table, pc, sizeVars, rows, read, ids, ids_file_offset>>

CopyByteThrows ==
  /\ pc = "copy" /\ rows # <<>> /\ word # <<>>
  /\ AtThrows(word_file_offset, Len(content))
  /\ pc' = "threw"
  /\ UNCHANGED <<table, sizeVars, rowVars, fileVars>>

CopyId ==
  /\ pc = "copy" /\ rows # <<>> /\ word = <<>>
  /\ InPages(ids_file_offset, Len(ids), PageIds)
  /\ ids' = Store(ids, ids_file_offset, Head(rows).id)
  /\ ids_file_offset' = ids_file_offset + 1
  /\ rows' = Tail(rows)
  /\ word' = IF Len(rows) > 1 THEN Bytes(rows[2]) ELSE <<>>
  /\ UNCHANGED <<table, pc, sizeVars, read, content, word_file_offset>>

(* A write beyond the last page: nothing, or something else, is there.     *)
Killed ==
  /\ pc = "copy" /\ rows # <<>>
  /\ IF word = <<>>
     THEN ~InPages(ids_file_offset, Len(ids), PageIds)
     ELSE /\ ~AtThrows(word_file_offset, Len(content))
          /\ ~InPages(word_file_offset, Len(content), PageBytes)
  /\ pc' = "killed"
  /\ UNCHANGED <<table, sizeVars, rowVars, fileVars>>

Return ==
  /\ pc = "copy" /\ rows = <<>>
  /\ pc' = "returned"
  /\ UNCHANGED <<table, sizeVars, rowVars, fileVars>>

(* Somebody commits a change to the table.                                 *)
EditTable ==
  /\ table < Len(Tables)
  /\ table' = table + 1
  /\ UNCHANGED <<pc, sizeVars, rowVars, fileVars>>

Stopped == pc \in {"returned", "threw", "killed"} /\ UNCHANGED vars

Next ==
  \/ SizeQuery \/ CreateContent \/ CreateIds \/ RowsQuery \/ Fails
  \/ CopyByte \/ CopyByteThrows \/ CopyId \/ Killed \/ Return
  \/ EditTable \/ Stopped

Spec == Init /\ [][Next]_vars

-----------------------------------------------------------------------------
(***************************************************************************)
(* Properties.                                                             *)
(***************************************************************************)

(* The type of every variable.                                             *)
TypeOK ==
  /\ {table, sized, read} \subseteq DOMAIN Tables
  /\ pc \in {"size", "create content", "create ids", "fetch", "copy", "returned",
             "threw", "killed"}
  /\ words \in Nat /\ bytes \in Nat
  /\ rows \in Seq(Row)
  /\ word \in Seq(Nat)
  /\ content \in Seq(Nat) /\ ids \in Seq(Nat)
  /\ word_file_offset \in Nat /\ ids_file_offset \in Nat

(***************************************************************************)
(* The files are exact if no change was committed between the statements,  *)
(* whatever is committed before, between the other steps or later: every   *)
(* word with its newline, every id, no byte left over, and no exception    *)
(* and no write past an end on the way.                                    *)
(***************************************************************************)
StillExact ==
  sized = read /\ pc \in {"copy", "returned", "killed"} =>
    /\ pc # "killed"
    /\ Len(content) = Len(TextOf(Tables[read])) /\ Len(ids) = Len(Tables[read])
    /\ word_file_offset <= Len(content) /\ ids_file_offset <= Len(ids)
    /\ pc = "returned" => content = TextOf(Tables[read]) /\ ids = IdsOf(Tables[read])

(***************************************************************************)
(* The writes to ids are not checked, but the check of content bounds them:*)
(* a row's id comes after its newline, so however many rows have been added*)
(* since the first statement, the ids never run further ahead than content *)
(* may get, one element past its end.                                      *)
(***************************************************************************)
IdsBounded ==
  /\ word_file_offset <= Len(content) + 1
  /\ ids_file_offset <= word_file_offset

(***************************************************************************)
(* Searches answer ids.at(n) for the n-th line of content.  Up to the first*)
(* word that contains a newline that is the id of the row whose word the   *)
(* line is, for every fetch between whose statements no change was         *)
(* committed.  That word makes more than one line and has one id, so that  *)
(* the lines behind its first get the ids of other words.                  *)
(***************************************************************************)
LinesMatchIds ==
  pc = "returned" /\ sized = read =>
    LET t     == Tables[read]
        lines == LinesOf(content)
    IN \A n \in DOMAIN t :
         (\A m \in 1 .. n : Newline \notin Range(t[m].word))
           => lines[n] = t[n].word /\ ids[n] = t[n].id

(***************************************************************************)
(* The files hold what the table held at one time, in the size that the    *)
(* comment "compensate for '\n' by adding the number of words" reckons     *)
(* with.  The code does not keep to it if a change is committed between    *)
(* the two statements.                                                     *)
(***************************************************************************)
FetchExact ==
  pc = "returned" =>
    \E n \in DOMAIN Tables : content = TextOf(Tables[n]) /\ ids = IdsOf(Tables[n])
=============================================================================
