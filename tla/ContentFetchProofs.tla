------------------------- MODULE ContentFetchProofs -------------------------
(***************************************************************************)
(* What TLAPS proves of ContentFetch, for any successive states of the     *)
(* table and any sizes of a page: the writes stay within what was checked, *)
(* and the files are exact if no change came between the two statements.   *)
(***************************************************************************)
EXTENDS ContentFetch, DataProofs

(* The words of a table, and the words with their newlines.                *)
WordsOf(t) == [n \in DOMAIN t |-> t[n].word]
BytesOf(t) == [n \in DOMAIN t |-> Bytes(t[n])]

(* Where the bytes of each row begin in the text of the table.             *)
Place(t) == CHOOSE off : Begins(off, BytesOf(t))

-----------------------------------------------------------------------------
(* A table in one of its states, and its rows.                             *)
LEMMA TableRows ==
  ASSUME NEW k \in DOMAIN Tables
  PROVE  Tables[k] \in Seq(Row)
BY ContentFetchAssumption

LEMMA RowTypes ==
  ASSUME NEW t \in Seq(Row), NEW n \in DOMAIN t
  PROVE  /\ t[n] \in Row /\ t[n].id \in Nat /\ t[n].word \in Seq(Nat)
         /\ Bytes(t[n]) \in Seq(Nat) /\ Len(t[n].word) \in Nat
         /\ Len(Bytes(t[n])) = Len(t[n].word) + 1
<1>1. t[n] \in Row
  OBVIOUS
<1>2. t[n].id \in Nat /\ t[n].word \in Seq(Nat)
  BY <1>1 DEF Row
<1> QED
  BY <1>1, <1>2, ContentFetchAssumption DEF Bytes

LEMMA TableTypes ==
  ASSUME NEW t \in Seq(Row)
  PROVE  /\ Len(t) \in Nat /\ DOMAIN t = 1 .. Len(t)
         /\ WordsOf(t) \in Seq(Seq(Nat)) /\ Len(WordsOf(t)) = Len(t)
         /\ BytesOf(t) \in Seq(Seq(Nat)) /\ Len(BytesOf(t)) = Len(t)
         /\ \A n \in 1 .. Len(t) : /\ BytesOf(t)[n] = Bytes(t[n])
                                   /\ WordsOf(t)[n] = t[n].word
<1>1. Len(t) \in Nat /\ DOMAIN t = 1 .. Len(t)
  OBVIOUS
<1>2. \A n \in 1 .. Len(t) : t[n].word \in Seq(Nat) /\ Bytes(t[n]) \in Seq(Nat)
  BY <1>1, RowTypes
<1>3. WordsOf(t) \in Seq(Seq(Nat)) /\ Len(WordsOf(t)) = Len(t)
  BY <1>1, <1>2 DEF WordsOf
<1>4. BytesOf(t) \in Seq(Seq(Nat)) /\ Len(BytesOf(t)) = Len(t)
  BY <1>1, <1>2 DEF BytesOf
<1> QED
  BY <1>1, <1>3, <1>4 DEF WordsOf, BytesOf

(* The bytes of the rows follow one another, a newline after each word.    *)
LEMMA PlaceBegins ==
  ASSUME NEW t \in Seq(Row)
  PROVE  /\ Begins(Place(t), BytesOf(t)) /\ TextOf(t) = FlattenSeq(BytesOf(t))
         /\ TextOf(t) \in Seq(Nat) /\ Len(TextOf(t)) \in Nat
<1>1. \E off : Begins(off, BytesOf(t))
  BY TableTypes, FlattenPlaces
<1>2. TextOf(t) = FlattenSeq(BytesOf(t))
  BY DEF TextOf, BytesOf
<1>3. TextOf(t) \in Seq(Nat)
  BY <1>2, TableTypes, FlattenType
<1> QED
  BY <1>1, <1>2, <1>3 DEF Place

(* What Place says of the text.                                            *)
LEMMA Places ==
  ASSUME NEW t \in Seq(Row)
  PROVE  /\ Place(t) \in [1 .. Len(t) + 1 -> Nat] /\ Place(t)[1] = 0
         /\ Place(t)[Len(t) + 1] = Len(TextOf(t))
         /\ \A n \in 1 .. Len(t) :
              /\ Place(t)[n + 1] = Place(t)[n] + Len(t[n].word) + 1
              /\ \A i \in 1 .. Len(Bytes(t[n])) :
                   /\ Place(t)[n] + i \in 1 .. Len(TextOf(t))
                   /\ TextOf(t)[Place(t)[n] + i] = Bytes(t[n])[i]
<1> DEFINE off == Place(t)
           s == BytesOf(t)
           text == TextOf(t)
<1>1. Begins(off, s) /\ text = FlattenSeq(s)
  BY PlaceBegins
<1>2. Len(t) \in Nat /\ Len(s) = Len(t) /\ \A n \in 1 .. Len(t) : s[n] = Bytes(t[n])
  BY TableTypes
<1>3. \A n \in 1 .. Len(t) : Len(Bytes(t[n])) = Len(t[n].word) + 1 /\ Len(t[n].word) \in Nat
  BY RowTypes
<1> HIDE DEF off, s, text
<1>4. /\ off \in [1 .. Len(t) + 1 -> Nat] /\ off[1] = 0
      /\ Len(text) = off[Len(t) + 1]
      /\ \A n \in 1 .. Len(t) : off[n + 1] = off[n] + Len(Bytes(t[n]))
      /\ \A n \in 1 .. Len(t) : \A i \in 1 .. Len(Bytes(t[n])) :
           off[n] + i \in 1 .. Len(text) /\ text[off[n] + i] = Bytes(t[n])[i]
  <2>1. /\ off \in [1 .. Len(t) + 1 -> Nat] /\ off[1] = 0
        /\ Len(text) = off[Len(t) + 1]
        /\ \A n \in 1 .. Len(t) : off[n + 1] = off[n] + Len(s[n])
    BY <1>1, <1>2 DEF Begins
  <2>2. \A n \in 1 .. Len(t) : \A i \in 1 .. Len(s[n]) :
           off[n] + i \in 1 .. Len(text) /\ text[off[n] + i] = s[n][i]
    BY <1>1, <1>2 DEF Begins
  <2>3. \A n \in 1 .. Len(t) : s[n] = Bytes(t[n])
    BY <1>2
  <2> QED
    BY <2>1, <2>2, <2>3
<1>5. ASSUME NEW n \in 1 .. Len(t) PROVE off[n + 1] = off[n] + Len(t[n].word) + 1
  <2>1. off[n] \in Nat /\ off[n + 1] = off[n] + Len(Bytes(t[n]))
    BY <1>2, <1>4, <1>5
  <2>2. Len(Bytes(t[n])) = Len(t[n].word) + 1 /\ Len(t[n].word) \in Nat
    BY <1>3, <1>5
  <2> QED
    BY <2>1, <2>2
<1> QED
  BY <1>4, <1>5 DEF off, text

(* Each row takes at least the byte of its newline, and none begins past   *)
(* the end of the text.                                                    *)
LEMMA PlacesApart ==
  ASSUME NEW t \in Seq(Row), NEW n \in 1 .. Len(t) + 1
  PROVE  /\ Place(t)[n] \in Nat /\ n - 1 <= Place(t)[n]
         /\ Place(t)[n] <= Len(TextOf(t))
<1> DEFINE off == Place(t)
<1>1. /\ off \in [1 .. Len(t) + 1 -> Nat] /\ off[1] = 0
      /\ \A m \in 1 .. Len(t) : off[m + 1] = off[m] + Len(t[m].word) + 1
      /\ off[Len(t) + 1] = Len(TextOf(t))
  BY Places
<1>2. Len(t) \in Nat /\ \A m \in 1 .. Len(t) : Len(t[m].word) \in Nat
  BY RowTypes
<1>3. off[n] <= off[Len(t) + 1]
  <2>1. Begins(off, BytesOf(t)) /\ BytesOf(t) \in Seq(Seq(Nat)) /\ Len(BytesOf(t)) = Len(t)
    BY PlaceBegins, TableTypes
  <2>2. Len(t) + 1 \in 1 .. Len(t) + 1 /\ n <= Len(t) + 1
    BY <1>2
  <2> HIDE DEF off
  <2> QED
    BY <2>1, <2>2, BeginsInOrder
<1> HIDE DEF off
<1> DEFINE Bad == { m \in 1 .. Len(t) + 1 : off[m] < m - 1 }
<1>4. Bad = {}
  <2>1. SUFFICES ASSUME Bad # {} PROVE FALSE
    OBVIOUS
  <2>2. PICK m \in Bad : \A j \in Bad : m <= j
    <3>1. Bad \in SUBSET Nat
      BY <1>2
    <3> HIDE DEF Bad
    <3> QED
      BY <2>1, <3>1, Least
  <2>3. m \in 1 .. Len(t) + 1 /\ off[m] < m - 1 /\ off[m] \in Nat /\ m \in Nat
    BY <1>1, <1>2, <2>2
  <2>4. m # 1 /\ m - 1 \in 1 .. Len(t) /\ m - 1 \in 1 .. Len(t) + 1 /\ (m - 1) + 1 = m
    BY <1>1, <1>2, <2>3
  <2>5. off[m] = off[m - 1] + Len(t[m - 1].word) + 1 /\ off[m - 1] \in Nat
    BY <1>1, <2>4
  <2>6. off[m - 1] < (m - 1) - 1 /\ ~(m <= m - 1)
    BY <1>2, <2>3, <2>4, <2>5
  <2>7. m - 1 \in Bad
    BY <2>4, <2>6
  <2> HIDE DEF Bad
  <2> QED
    BY <2>2, <2>6, <2>7
<1>5. off[n] \in Nat /\ n - 1 <= off[n]
  BY <1>1, <1>2, <1>4
<1> QED
  BY <1>1, <1>3, <1>5 DEF off

(* "Compensate for '\n' by adding the number of words": the octets of the  *)
(* words and one byte for each word are the bytes of the text.             *)
LEMMA OctetsAndNewlines ==
  ASSUME NEW t \in Seq(Row)
  PROVE  OctetSum(t) \in Nat /\ Len(TextOf(t)) = OctetSum(t) + Len(t)
<1> DEFINE off == Place(t)
           sum == Len(FlattenSeq(WordsOf(t)))
<1>1. /\ off \in [1 .. Len(t) + 1 -> Nat] /\ off[1] = 0
      /\ \A m \in 1 .. Len(t) : off[m + 1] = off[m] + Len(t[m].word) + 1
      /\ off[Len(t) + 1] = Len(TextOf(t))
  BY Places
<1>2. Len(t) \in Nat /\ \A m \in 1 .. Len(t) : Len(t[m].word) \in Nat
  BY RowTypes
<1>3. PICK at : Begins(at, WordsOf(t))
  BY TableTypes, FlattenPlaces
<1>4. /\ at \in [1 .. Len(t) + 1 -> Nat] /\ at[1] = 0
      /\ \A m \in 1 .. Len(t) : at[m + 1] = at[m] + Len(t[m].word)
      /\ sum = at[Len(t) + 1]
  BY <1>3, TableTypes DEF Begins
<1>5. OctetSum(t) = sum
  BY DEF OctetSum, WordsOf
<1> HIDE DEF off, sum
<1> DEFINE Bad == { m \in 1 .. Len(t) + 1 : off[m] # at[m] + m - 1 }
<1>6. Bad = {}
  <2>1. SUFFICES ASSUME Bad # {} PROVE FALSE
    OBVIOUS
  <2>2. PICK m \in Bad : \A j \in Bad : m <= j
    <3>1. Bad \in SUBSET Nat
      BY <1>2
    <3> HIDE DEF Bad
    <3> QED
      BY <2>1, <3>1, Least
  <2>3. m \in 1 .. Len(t) + 1 /\ off[m] # at[m] + m - 1 /\ m \in Nat
    BY <1>2, <2>2
  <2>4. m # 1 /\ m - 1 \in 1 .. Len(t) /\ m - 1 \in 1 .. Len(t) + 1 /\ (m - 1) + 1 = m
    BY <1>1, <1>2, <1>4, <2>3
  <2>5. /\ off[m] = off[m - 1] + Len(t[m - 1].word) + 1 /\ off[m - 1] \in Nat
        /\ at[m] = at[m - 1] + Len(t[m - 1].word) /\ at[m - 1] \in Nat
        /\ Len(t[m - 1].word) \in Nat
    BY <1>1, <1>2, <1>4, <2>4
  <2>6. off[m - 1] # at[m - 1] + (m - 1) - 1 /\ ~(m <= m - 1)
    <3> DEFINE o == off[m - 1]
               a == at[m - 1]
               l == Len(t[m - 1].word)
    <3>1. o \in Nat /\ a \in Nat /\ l \in Nat /\ m \in Nat /\ o + l + 1 # (a + l) + m - 1
      BY <2>3, <2>5
    <3> HIDE DEF o, a, l
    <3>2. o # a + (m - 1) - 1 /\ ~(m <= m - 1)
      BY <3>1
    <3> QED
      BY <3>2 DEF o, a
  <2>7. m - 1 \in Bad
    BY <2>4, <2>6
  <2> HIDE DEF Bad
  <2> QED
    BY <2>2, <2>6, <2>7
<1>7. Len(t) + 1 \in 1 .. Len(t) + 1
  BY <1>2
<1>8. off[Len(t) + 1] = at[Len(t) + 1] + (Len(t) + 1) - 1 /\ at[Len(t) + 1] \in Nat
  BY <1>4, <1>6, <1>7
<1> QED
  BY <1>1, <1>2, <1>4, <1>5, <1>8

(* Every element of a file is within the pages the file is mapped in.      *)
LEMMA WithinPages ==
  ASSUME NEW size \in Nat, NEW k \in Nat, k < size, NEW page \in Nat \ {0}
  PROVE  InPages(k, size, page)
<1> DEFINE x == size + page - 1
           q == x \div page
           r == x % page
<1>1. x \in Nat
  OBVIOUS
<1>2. q \in Nat /\ r \in 0 .. page - 1 /\ x = q * page + r
  <2> HIDE DEF x
  <2> QED
    BY <1>1, Quotient
<1>3. q * page \in Nat
  BY <1>2
<1>4. size <= q * page
  <2> DEFINE y == q * page
  <2>1. y \in Nat /\ size + page - 1 = y + r /\ r \in 0 .. page - 1
    BY <1>2, <1>3
  <2> HIDE DEF y, r, q
  <2>2. size <= y
    BY <2>1
  <2> QED
    BY <2>2 DEF y
<1>5. InPages(k, size, page) <=> k < q * page
  BY DEF InPages
<1> HIDE DEF q
<1> QED
  BY <1>3, <1>4, <1>5

-----------------------------------------------------------------------------
(***************************************************************************)
(* The invariant of the fetch, in its parts.                               *)
(***************************************************************************)

(* The results of the first statement, and the sizes of the files.         *)
Reckoned ==
  /\ pc \notin {"size", "threw"} =>
       words = Len(Tables[sized]) /\ bytes = OctetSum(Tables[sized])
  /\ pc \notin {"size", "create content", "threw"} => Len(content) = bytes + words
  /\ pc \notin {"size", "create content", "create ids", "threw"} => Len(ids) = words

(* Nothing is copied before the second statement.                          *)
Unread ==
  pc \in {"size", "create content", "create ids", "fetch"} =>
    word_file_offset = 0 /\ ids_file_offset = 0

(* There are as many ids in the file as rows are dealt with; the others    *)
(* are left.                                                               *)
RowsLeft(t) ==
  /\ ids_file_offset <= Len(t) /\ Len(rows) = Len(t) - ids_file_offset
  /\ \A n \in 1 .. Len(rows) : rows[n] = t[ids_file_offset + n]

(* The offset into content is in the bytes of the first row that is left,  *)
(* or past its newline; what is left of them is what follows in the text.  *)
WordLeft(t) ==
  /\ rows = <<>> => word = <<>> /\ word_file_offset = Place(t)[ids_file_offset + 1]
  /\ rows # <<>> => /\ word_file_offset >= Place(t)[ids_file_offset + 1]
                    /\ word_file_offset + Len(word) = Place(t)[ids_file_offset + 2]
  /\ \A n \in 1 .. Len(word) : /\ word_file_offset + n \in 1 .. Len(TextOf(t))
                               /\ word[n] = TextOf(t)[word_file_offset + n]

(* Up to the offsets the files have what the table had.                    *)
Written(t) ==
  /\ \A k \in 1 .. Len(content) : k <= word_file_offset =>
       k \in 1 .. Len(TextOf(t)) /\ content[k] = TextOf(t)[k]
  /\ \A k \in 1 .. Len(ids) : k <= ids_file_offset => k \in 1 .. Len(t) /\ ids[k] = t[k].id

Copied ==
  pc \in {"copy", "returned", "killed"} =>
    /\ RowsLeft(Tables[read]) /\ WordLeft(Tables[read]) /\ Written(Tables[read])
    /\ pc = "returned" => rows = <<>>
    /\ pc = "killed" => sized # read

FetchInv == TypeOK /\ Reckoned /\ Unread /\ Copied /\ IdsBounded

-----------------------------------------------------------------------------
(* A file of zeros.                                                        *)
LEMMA ZeroFile ==
  ASSUME NEW n \in Nat
  PROVE  Zeros(n) \in Seq(Nat) /\ Len(Zeros(n)) = n
BY DEF Zeros

(* A write leaves the size of a file.                                      *)
LEMMA Stored ==
  ASSUME NEW file \in Seq(Nat), NEW k \in Nat, NEW value \in Nat
  PROVE  /\ Store(file, k, value) \in Seq(Nat) /\ Len(Store(file, k, value)) = Len(file)
         /\ \A m \in 1 .. Len(file) :
              Store(file, k, value)[m] = IF m = k + 1 THEN value ELSE file[m]
BY DEF Store

(* What is left of a sequence without its first element.                   *)
LEMMA Rest ==
  ASSUME NEW S, NEW q \in Seq(S), q # <<>>
  PROVE  /\ Head(q) \in S /\ Head(q) = q[1] /\ Tail(q) \in Seq(S)
         /\ Len(q) \in Nat \ {0} /\ Len(Tail(q)) = Len(q) - 1
         /\ \A n \in 1 .. Len(q) - 1 : n + 1 \in 1 .. Len(q) /\ Tail(q)[n] = q[n + 1]
OBVIOUS

LEMMA FetchInvInit == Init => FetchInv
<1> SUFFICES ASSUME Init PROVE FetchInv
  OBVIOUS
<1>1. 1 \in DOMAIN Tables
  BY ContentFetchAssumption
<1>2. TypeOK
  BY <1>1 DEF Init, TypeOK
<1>3. Reckoned /\ Unread /\ Copied /\ IdsBounded
  BY DEF Init, Reckoned, Unread, Copied, IdsBounded
<1> QED
  BY <1>2, <1>3 DEF FetchInv

(* The tables of the two statements and the rows that are left.            *)
LEMMA FetchTables ==
  ASSUME FetchInv
  PROVE  /\ Tables[table] \in Seq(Row) /\ Tables[sized] \in Seq(Row)
         /\ Tables[read] \in Seq(Row)
BY TableRows DEF FetchInv, TypeOK

LEMMA TypesStep == FetchInv /\ [Next]_vars => TypeOK'
<1> SUFFICES ASSUME FetchInv, [Next]_vars PROVE TypeOK'
  OBVIOUS
<1>0. TypeOK
  BY DEF FetchInv
<1>t. Tables[table] \in Seq(Row) /\ Tables[read] \in Seq(Row)
  BY FetchTables
<1>w. words \in Nat /\ bytes \in Nat
  BY <1>0 DEF TypeOK
<1>r. rows \in Seq(Row)
  BY <1>0 DEF TypeOK
<1>1. CASE SizeQuery
  <2>1. Len(Tables[table]) \in Nat /\ OctetSum(Tables[table]) \in Nat
    BY <1>t, OctetsAndNewlines
  <2> QED
    BY <1>0, <1>1, <2>1 DEF SizeQuery, TypeOK, rowVars, fileVars
<1>2. CASE CreateContent
  <2>1. bytes + words \in Nat
    BY <1>w
  <2> QED
    BY <1>0, <1>2, <2>1, ZeroFile DEF CreateContent, TypeOK, sizeVars, rowVars
<1>3. CASE CreateIds
  BY <1>0, <1>3, ZeroFile DEF CreateIds, TypeOK, sizeVars, rowVars
<1>4. CASE RowsQuery
  <2>1. Tables[table] # <<>> => Bytes(Head(Tables[table])) \in Seq(Nat)
    <3>1. Tables[table] # <<>> => 1 \in DOMAIN Tables[table] /\ Head(Tables[table]) = Tables[table][1]
      BY <1>t
    <3> QED
      BY <1>t, <3>1, RowTypes
  <2> QED
    BY <1>0, <1>t, <1>4, <2>1 DEF RowsQuery, TypeOK, sizeVars, fileVars
<1>5. CASE Fails \/ CopyByteThrows \/ Killed \/ Return
  BY <1>0, <1>5 DEF Fails, CopyByteThrows, Killed, Return, TypeOK, sizeVars, rowVars, fileVars
<1>6. CASE CopyByte
  <2>1. Head(word) \in Nat /\ Tail(word) \in Seq(Nat)
    BY <1>0, <1>6, Rest DEF CopyByte, TypeOK
  <2>2. content' \in Seq(Nat)
    BY <1>0, <1>6, <2>1, Stored DEF CopyByte, TypeOK
  <2> QED
    BY <1>0, <1>6, <2>1, <2>2 DEF CopyByte, TypeOK, sizeVars
<1>7. CASE CopyId
  <2>1. Head(rows) \in Row /\ Tail(rows) \in Seq(Row)
    BY <1>0, <1>7, Rest DEF CopyId, TypeOK
  <2>2. ids' \in Seq(Nat)
    <3>1. Head(rows).id \in Nat
      BY <2>1 DEF Row
    <3> QED
      BY <1>0, <1>7, <3>1, Stored DEF CopyId, TypeOK
  <2>3. Len(rows) > 1 => Bytes(rows[2]) \in Seq(Nat)
    <3>1. Len(rows) > 1 => 2 \in DOMAIN rows
      BY <1>r
    <3> QED
      BY <1>r, <3>1, RowTypes
  <2> QED
    BY <1>0, <1>7, <2>1, <2>2, <2>3 DEF CopyId, TypeOK, sizeVars
<1>8. CASE EditTable
  <2>1. Tables \in Seq(Seq(Row)) /\ table \in DOMAIN Tables /\ table < Len(Tables)
    BY <1>0, <1>8, ContentFetchAssumption DEF EditTable, TypeOK
  <2>2. table + 1 \in DOMAIN Tables
    BY <2>1
  <2> QED
    BY <1>0, <1>8, <2>2 DEF EditTable, TypeOK, sizeVars, rowVars, fileVars
<1>9. CASE Stopped \/ UNCHANGED vars
  BY <1>0, <1>9 DEF Stopped, vars, TypeOK, sizeVars, rowVars, fileVars
<1> QED
  BY <1>1, <1>2, <1>3, <1>4, <1>5, <1>6, <1>7, <1>8, <1>9 DEF Next

(* The length of the content never changes once it is created.             *)
LEMMA ReckonedStep == FetchInv /\ [Next]_vars => Reckoned'
<1> SUFFICES ASSUME FetchInv, [Next]_vars PROVE Reckoned'
  OBVIOUS
<1>0. TypeOK /\ Reckoned
  BY DEF FetchInv
<1>w. words \in Nat /\ bytes \in Nat
  BY <1>0 DEF TypeOK
<1>1. CASE SizeQuery
  BY <1>0, <1>1 DEF SizeQuery, Reckoned, rowVars, fileVars
<1>2. CASE CreateContent
  <2>1. bytes + words \in Nat
    BY <1>w
  <2>2. Len(content') = bytes + words
    BY <1>2, <2>1, ZeroFile DEF CreateContent
  <2> QED
    BY <1>0, <1>2, <2>2 DEF CreateContent, Reckoned, sizeVars, rowVars
<1>3. CASE CreateIds
  <2>1. Len(ids') = words
    BY <1>0, <1>3, ZeroFile DEF CreateIds, TypeOK
  <2> QED
    BY <1>0, <1>3, <2>1 DEF CreateIds, Reckoned, sizeVars, rowVars
<1>4. CASE RowsQuery
  BY <1>0, <1>4 DEF RowsQuery, Reckoned, sizeVars, fileVars
<1>5. CASE Fails \/ CopyByteThrows \/ Killed \/ Return
  BY <1>0, <1>5 DEF Fails, CopyByteThrows, Killed, Return, Reckoned, sizeVars, rowVars, fileVars
<1>6. CASE CopyByte
  <2>1. Head(word) \in Nat
    BY <1>0, <1>6, Rest DEF CopyByte, TypeOK
  <2>2. Len(content') = Len(content)
    BY <1>0, <1>6, <2>1, Stored DEF CopyByte, TypeOK
  <2> QED
    BY <1>0, <1>6, <2>2 DEF CopyByte, Reckoned, sizeVars
<1>7. CASE CopyId
  <2>1. Head(rows) \in Row
    BY <1>0, <1>7, Rest DEF CopyId, TypeOK
  <2>2. Head(rows).id \in Nat
    BY <2>1 DEF Row
  <2>3. Len(ids') = Len(ids)
    BY <1>0, <1>7, <2>2, Stored DEF CopyId, TypeOK
  <2> QED
    BY <1>0, <1>7, <2>3 DEF CopyId, Reckoned, sizeVars
<1>8. CASE EditTable \/ Stopped \/ UNCHANGED vars
  BY <1>0, <1>8 DEF EditTable, Stopped, vars, Reckoned, sizeVars, rowVars, fileVars
<1> QED
  BY <1>1, <1>2, <1>3, <1>4, <1>5, <1>6, <1>7, <1>8 DEF Next

LEMMA UnreadStep == FetchInv /\ [Next]_vars => Unread'
<1> SUFFICES ASSUME FetchInv, [Next]_vars PROVE Unread'
  OBVIOUS
<1>0. Unread
  BY DEF FetchInv
<1>1. CASE SizeQuery \/ CreateContent \/ CreateIds \/ RowsQuery \/ Fails
  BY <1>0, <1>1 DEF SizeQuery, CreateContent, CreateIds, RowsQuery, Fails, Unread, fileVars
<1>2. CASE CopyByte \/ CopyByteThrows \/ CopyId \/ Killed \/ Return
  BY <1>0, <1>2 DEF CopyByte, CopyByteThrows, CopyId, Killed, Return, Unread
<1>3. CASE EditTable \/ Stopped \/ UNCHANGED vars
  BY <1>0, <1>3 DEF EditTable, Stopped, vars, Unread, fileVars
<1> QED
  BY <1>1, <1>2, <1>3 DEF Next

-----------------------------------------------------------------------------
(* The second statement: all rows are left, and all bytes of the first.    *)
LEMMA RowsRead ==
  ASSUME FetchInv, RowsQuery
  PROVE  Copied'
<1> DEFINE t == Tables[table]
           text == TextOf(t)
<1>1. /\ rows' = t /\ word' = IF t = <<>> THEN <<>> ELSE Bytes(Head(t))
      /\ pc' = "copy" /\ word_file_offset' = 0 /\ ids_file_offset' = 0
      /\ content' = content /\ ids' = ids /\ Tables[read'] = t
  BY DEF RowsQuery, sizeVars, fileVars, FetchInv, Unread
<1>2. t \in Seq(Row) /\ content \in Seq(Nat) /\ ids \in Seq(Nat)
  BY FetchTables DEF FetchInv, TypeOK
<1> HIDE DEF t
<1>3. Place(t)[1] = 0 /\ Len(t) \in Nat
  BY <1>2, Places
<1>4. RowsLeft(Tables[read])'
  <2>1. 0 <= Len(t) /\ Len(t) = Len(t) - 0 /\ \A n \in 1 .. Len(t) : t[n] = t[0 + n]
    BY <1>3
  <2> QED
    BY <1>1, <2>1 DEF RowsLeft
<1>5. Written(Tables[read])'
  <2>1. \A k \in 1 .. Len(content) : ~(k <= 0)
    BY <1>2
  <2>2. \A k \in 1 .. Len(ids) : ~(k <= 0)
    BY <1>2
  <2> QED
    BY <1>1, <2>1, <2>2 DEF Written
<1>6. WordLeft(Tables[read])'
  <2>1. CASE t = <<>>
    <3>1. word' = <<>> /\ rows' = <<>> /\ (\A n \in 1 .. Len(word') : FALSE)
      BY <1>1, <2>1
    <3>2. word_file_offset' = Place(t)[0 + 1]
      BY <1>1, <1>3
    <3> QED
      BY <1>1, <3>1, <3>2 DEF WordLeft
  <2>2. CASE t # <<>>
    <3>1. 1 \in 1 .. Len(t) /\ 1 \in DOMAIN t /\ Head(t) = t[1] /\ word' = Bytes(t[1])
      BY <1>1, <1>2, <2>2
    <3>2. Len(word') = Len(t[1].word) + 1 /\ Len(t[1].word) \in Nat
      BY <1>2, <3>1, RowTypes
    <3>3. /\ Place(t)[1 + 1] = Place(t)[1] + Len(t[1].word) + 1
          /\ \A n \in 1 .. Len(word') : /\ Place(t)[1] + n \in 1 .. Len(text)
                                        /\ text[Place(t)[1] + n] = word'[n]
      BY <1>2, <3>1, Places
    <3>4. \A n \in 1 .. Len(word') : 0 + n \in 1 .. Len(text) /\ word'[n] = text[0 + n]
      BY <1>3, <3>3
    <3>5. 0 >= Place(t)[0 + 1] /\ 0 + 2 = 1 + 1
      BY <1>3
    <3>6. 0 + Len(word') = Place(t)[0 + 2]
      BY <1>3, <3>2, <3>3, <3>5
    <3>7. rows' # <<>>
      BY <1>1, <2>2
    <3> QED
      BY <1>1, <3>4, <3>5, <3>6, <3>7 DEF WordLeft
  <2> QED
    BY <2>1, <2>2
<1> QED
  BY <1>1, <1>4, <1>5, <1>6 DEF Copied

(* Where the copying is, in numbers: the row that is dealt with is one of  *)
(* the table's.                                                            *)
LEMMA CopyPlace ==
  ASSUME FetchInv, pc \in {"copy", "returned", "killed"}, rows # <<>>
  PROVE  LET t == Tables[read]
         IN /\ t \in Seq(Row) /\ Len(t) \in Nat
            /\ ids_file_offset \in Nat /\ word_file_offset \in Nat
            /\ ids_file_offset + 1 \in 1 .. Len(t) /\ rows[1] = t[ids_file_offset + 1]
            /\ Len(rows) = Len(t) - ids_file_offset
            /\ Place(t)[ids_file_offset + 2] \in Nat
            /\ ids_file_offset + 1 <= Place(t)[ids_file_offset + 2]
            /\ Place(t)[ids_file_offset + 2] <= Len(TextOf(t))
            /\ word_file_offset + Len(word) = Place(t)[ids_file_offset + 2]
<1> DEFINE t == Tables[read]
<1>1. t \in Seq(Row)
  BY FetchTables
<1> HIDE DEF t
<1>2. ids_file_offset \in Nat /\ word_file_offset \in Nat /\ rows \in Seq(Row)
  BY DEF FetchInv, TypeOK
<1>3. RowsLeft(t) /\ WordLeft(t)
  BY DEF FetchInv, Copied, t
<1>4. Len(t) \in Nat /\ Len(rows) \in Nat \ {0} /\ 1 \in 1 .. Len(rows)
  BY <1>1, <1>2
<1>5. Len(rows) = Len(t) - ids_file_offset /\ rows[1] = t[ids_file_offset + 1]
  BY <1>3, <1>4 DEF RowsLeft
<1>6. ids_file_offset + 1 \in 1 .. Len(t) /\ ids_file_offset + 2 \in 1 .. Len(t) + 1
  BY <1>2, <1>4, <1>5
<1>7. /\ Place(t)[ids_file_offset + 2] \in Nat
      /\ (ids_file_offset + 2) - 1 <= Place(t)[ids_file_offset + 2]
      /\ Place(t)[ids_file_offset + 2] <= Len(TextOf(t))
  BY <1>1, <1>6, PlacesApart
<1>8. word_file_offset + Len(word) = Place(t)[ids_file_offset + 2]
  BY <1>3 DEF WordLeft
<1>9. ids_file_offset + 1 <= Place(t)[ids_file_offset + 2]
  BY <1>2, <1>7
<1> QED
  BY <1>1, <1>2, <1>4, <1>5, <1>6, <1>7, <1>8, <1>9 DEF t

(* A byte is copied.                                                       *)
LEMMA ByteCopied ==
  ASSUME FetchInv, CopyByte
  PROVE  Copied'
<1> DEFINE t == Tables[read]
           text == TextOf(t)
<1>1. /\ pc = "copy" /\ rows # <<>> /\ word # <<>>
      /\ content' = Store(content, word_file_offset, Head(word))
      /\ word_file_offset' = word_file_offset + 1 /\ word' = Tail(word)
      /\ pc' = pc /\ rows' = rows /\ read' = read /\ ids' = ids
      /\ ids_file_offset' = ids_file_offset /\ sized' = sized
  BY DEF CopyByte, sizeVars
<1>2. /\ word \in Seq(Nat) /\ content \in Seq(Nat) /\ word_file_offset \in Nat
      /\ ids_file_offset \in Nat
  BY DEF FetchInv, TypeOK
<1>3. t \in Seq(Row) /\ RowsLeft(t) /\ WordLeft(t) /\ Written(t)
  BY <1>1, FetchTables DEF FetchInv, Copied
<1> HIDE DEF t
<1>4. /\ Head(word) \in Nat /\ Head(word) = word[1] /\ Len(word) \in Nat \ {0}
      /\ Len(Tail(word)) = Len(word) - 1
      /\ \A n \in 1 .. Len(word) - 1 : n + 1 \in 1 .. Len(word) /\ Tail(word)[n] = word[n + 1]
  BY <1>1, <1>2, Rest
<1>5. \A n \in 1 .. Len(word) : /\ word_file_offset + n \in 1 .. Len(text)
                                /\ word[n] = text[word_file_offset + n]
  BY <1>3 DEF WordLeft
<1>6. RowsLeft(t)'
  BY <1>1, <1>3 DEF RowsLeft, t
<1>7. WordLeft(t)'
  <2>1. ASSUME NEW n \in 1 .. Len(Tail(word))
        PROVE  /\ word_file_offset + 1 + n \in 1 .. Len(text)
               /\ Tail(word)[n] = text[word_file_offset + 1 + n]
    <3>1. n \in 1 .. Len(word) - 1 /\ n \in Nat
      BY <1>4
    <3>2. n + 1 \in 1 .. Len(word) /\ Tail(word)[n] = word[n + 1]
      BY <1>4, <3>1
    <3>3. word_file_offset + (n + 1) = word_file_offset + 1 + n
      BY <1>2, <3>1
    <3> QED
      BY <1>5, <3>2, <3>3
  <2>2. /\ word_file_offset >= Place(t)[ids_file_offset + 1]
        /\ word_file_offset + Len(word) = Place(t)[ids_file_offset + 2]
    BY <1>1, <1>3 DEF WordLeft
  <2>3. Place(t)[ids_file_offset + 1] \in Nat
    <3>1. ids_file_offset + 1 \in 1 .. Len(t) + 1
      BY <1>1, CopyPlace DEF t
    <3> QED
      BY <1>3, <3>1, PlacesApart
  <2>4. word_file_offset + 1 >= Place(t)[ids_file_offset + 1]
    BY <1>2, <2>2, <2>3
  <2>5. word_file_offset + 1 + Len(Tail(word)) = Place(t)[ids_file_offset + 2]
    BY <1>2, <1>4, <2>2
  <2>6. t' = t
    BY <1>1 DEF t
  <2> QED
    BY <1>1, <2>1, <2>4, <2>5, <2>6 DEF WordLeft
<1>8. Written(t)'
  <2>1. /\ Len(content') = Len(content)
        /\ \A m \in 1 .. Len(content) :
             content'[m] = IF m = word_file_offset + 1 THEN Head(word) ELSE content[m]
    BY <1>1, <1>2, <1>4, Stored
  <2>2. ASSUME NEW k \in 1 .. Len(content), k <= word_file_offset + 1
        PROVE  k \in 1 .. Len(text) /\ content'[k] = text[k]
    <3>1. CASE k = word_file_offset + 1
      <4>1. 1 \in 1 .. Len(word)
        BY <1>4
      <4> QED
        BY <1>4, <1>5, <2>1, <3>1, <4>1
    <3>2. CASE k # word_file_offset + 1
      <4>1. k <= word_file_offset
        BY <1>2, <2>2, <3>2
      <4>2. k \in 1 .. Len(text) /\ content[k] = text[k]
        BY <1>3, <2>2, <4>1 DEF Written
      <4> QED
        BY <2>1, <2>2, <3>2, <4>2
    <3> QED
      BY <3>1, <3>2
  <2>3. t' = t
    BY <1>1 DEF t
  <2>4. \A k \in 1 .. Len(ids) : k <= ids_file_offset => k \in 1 .. Len(t) /\ ids[k] = t[k].id
    BY <1>3 DEF Written
  <2> QED
    BY <1>1, <2>1, <2>2, <2>3, <2>4 DEF Written
<1> QED
  BY <1>1, <1>6, <1>7, <1>8 DEF Copied, t

(* A row is done: its id is copied, and the bytes of the next one are left.*)
LEMMA IdCopied ==
  ASSUME FetchInv, CopyId
  PROVE  Copied'
<1> DEFINE t == Tables[read]
           text == TextOf(t)
           d == ids_file_offset
<1>1. /\ pc = "copy" /\ rows # <<>> /\ word = <<>>
      /\ ids' = Store(ids, d, Head(rows).id)
      /\ ids_file_offset' = d + 1 /\ rows' = Tail(rows)
      /\ word' = IF Len(rows) > 1 THEN Bytes(rows[2]) ELSE <<>>
      /\ word_file_offset' = word_file_offset /\ content' = content
      /\ pc' = pc /\ read' = read /\ sized' = sized
  BY DEF CopyId, sizeVars
<1>2. /\ rows \in Seq(Row) /\ ids \in Seq(Nat) /\ word_file_offset \in Nat /\ d \in Nat
  BY DEF FetchInv, TypeOK
<1>3. t \in Seq(Row) /\ Len(t) \in Nat /\ RowsLeft(t) /\ WordLeft(t) /\ Written(t)
  BY <1>1, FetchTables DEF FetchInv, Copied
<1>4. /\ d + 1 \in 1 .. Len(t) /\ rows[1] = t[d + 1] /\ Len(rows) = Len(t) - d
      /\ Place(t)[d + 2] \in Nat /\ word_file_offset + Len(word) = Place(t)[d + 2]
  BY <1>1, CopyPlace
<1>t. t' = t
  BY <1>1
<1> HIDE DEF t, d
<1>5. /\ Head(rows) = rows[1] /\ Len(rows) \in Nat \ {0} /\ Len(Tail(rows)) = Len(rows) - 1
      /\ \A n \in 1 .. Len(rows) - 1 : n + 1 \in 1 .. Len(rows) /\ Tail(rows)[n] = rows[n + 1]
  BY <1>1, <1>2, Rest
<1>6. word_file_offset = Place(t)[d + 2]
  BY <1>1, <1>2, <1>4
<1>7. \A n \in 1 .. Len(rows) : rows[n] = t[d + n]
  BY <1>3 DEF RowsLeft, d
<1>8. RowsLeft(t)'
  <2>1. ASSUME NEW n \in 1 .. Len(Tail(rows))
        PROVE  Tail(rows)[n] = t[d + 1 + n]
    <3>1. n \in 1 .. Len(rows) - 1 /\ n \in Nat
      BY <1>5
    <3>2. d + (n + 1) = d + 1 + n
      BY <1>2, <3>1
    <3> QED
      BY <1>5, <1>7, <3>1, <3>2
  <2>2. d + 1 <= Len(t) /\ Len(Tail(rows)) = Len(t) - (d + 1)
    BY <1>2, <1>3, <1>4, <1>5
  <2> QED
    BY <1>1, <1>t, <2>1, <2>2 DEF RowsLeft
<1>9. WordLeft(t)'
  <2>1. CASE Len(rows) > 1
    <3>1. 2 \in 1 .. Len(rows) /\ rows[2] = t[d + 2] /\ d + 2 \in 1 .. Len(t) /\ (d + 2) + 1 = d + 3
      BY <1>2, <1>3, <1>4, <1>5, <1>7, <2>1
    <3>2. Len(Bytes(t[d + 2])) = Len(t[d + 2].word) + 1 /\ Len(t[d + 2].word) \in Nat
      BY <1>3, <3>1, RowTypes
    <3>3. /\ Place(t)[d + 3] = Place(t)[d + 2] + Len(t[d + 2].word) + 1
          /\ \A n \in 1 .. Len(Bytes(t[d + 2])) :
               /\ Place(t)[d + 2] + n \in 1 .. Len(text)
               /\ text[Place(t)[d + 2] + n] = Bytes(t[d + 2])[n]
      BY <1>3, <3>1, Places
    <3>4. word' = Bytes(t[d + 2])
      BY <1>1, <2>1, <3>1
    <3>5. \A n \in 1 .. Len(word') : /\ word_file_offset + n \in 1 .. Len(text)
                                     /\ word'[n] = text[word_file_offset + n]
      BY <1>6, <3>3, <3>4
    <3>6. word_file_offset + Len(word') = Place(t)[d + 3]
      <4>1. Len(word') = Len(t[d + 2].word) + 1
        BY <3>2, <3>4
      <4>2. Place(t)[d + 3] = Place(t)[d + 2] + Len(t[d + 2].word) + 1 /\ Place(t)[d + 2] \in Nat
        BY <1>4, <3>3
      <4> DEFINE l == Len(t[d + 2].word)
                 p == Place(t)[d + 2]
      <4>3. l \in Nat /\ p \in Nat /\ word_file_offset = p /\ Len(word') = l + 1 /\ Place(t)[d + 3] = p + l + 1
        BY <1>6, <3>2, <4>1, <4>2
      <4> HIDE DEF l, p
      <4> QED
        BY <4>3
    <3>7. (d + 1) + 1 = d + 2 /\ (d + 1) + 2 = d + 3 /\ word_file_offset >= Place(t)[d + 2]
      BY <1>2, <1>4, <1>6
    <3>8. rows' # <<>>
      BY <1>1, <1>5, <2>1
    <3> QED
      BY <1>1, <1>t, <3>5, <3>6, <3>7, <3>8 DEF WordLeft
  <2>2. CASE ~(Len(rows) > 1)
    <3>1. word' = <<>>
      BY <1>1, <2>2
    <3>2. (d + 1) + 1 = d + 2
      BY <1>2
    <3>3. rows' = <<>>
      <4>1. Len(Tail(rows)) = 0 /\ Tail(rows) \in Seq(Row)
        BY <1>1, <1>2, <1>5, <2>2, Rest
      <4> QED
        BY <1>1, <4>1
    <3> QED
      BY <1>1, <1>t, <1>6, <3>1, <3>2, <3>3 DEF WordLeft
  <2> QED
    BY <2>1, <2>2
<1>10. Written(t)'
  <2>0. Head(rows).id = t[d + 1].id /\ t[d + 1].id \in Nat
    BY <1>3, <1>4, <1>5, RowTypes
  <2>1. /\ Len(ids') = Len(ids)
        /\ \A m \in 1 .. Len(ids) : ids'[m] = IF m = d + 1 THEN t[d + 1].id ELSE ids[m]
    <3> DEFINE v == t[d + 1].id
    <3>1. ids \in Seq(Nat) /\ d \in Nat /\ v \in Nat /\ ids' = Store(ids, d, v)
      BY <1>1, <1>2, <2>0
    <3> HIDE DEF v
    <3>2. /\ Len(ids') = Len(ids)
          /\ \A m \in 1 .. Len(ids) : ids'[m] = IF m = d + 1 THEN v ELSE ids[m]
      BY <3>1, Stored
    <3> QED
      BY <3>2 DEF v
  <2>2. ASSUME NEW k \in 1 .. Len(ids), k <= d + 1
        PROVE  k \in 1 .. Len(t) /\ ids'[k] = t[k].id
    <3>1. CASE k = d + 1
      BY <1>4, <2>1, <2>2, <3>1
    <3>2. CASE k # d + 1
      <4>1. k <= d
        BY <1>2, <2>2, <3>2
      <4>2. k \in 1 .. Len(t) /\ ids[k] = t[k].id
        BY <1>3, <2>2, <4>1 DEF Written, d
      <4> QED
        BY <2>1, <2>2, <3>2, <4>2
    <3> QED
      BY <3>1, <3>2
  <2>3. \A k \in 1 .. Len(content) : k <= word_file_offset =>
          k \in 1 .. Len(text) /\ content[k] = text[k]
    BY <1>3 DEF Written
  <2> QED
    BY <1>1, <1>t, <2>1, <2>2, <2>3 DEF Written
<1> QED
  BY <1>1, <1>t, <1>8, <1>9, <1>10 DEF Copied, t

(* The end of the process: something was committed in between.             *)
LEMMA KilledByChange ==
  ASSUME FetchInv, Killed
  PROVE  sized # read
<1> SUFFICES ASSUME sized = read PROVE FALSE
  OBVIOUS
<1> DEFINE t == Tables[read]
<1>1. /\ t \in Seq(Row) /\ Len(t) \in Nat
      /\ ids_file_offset \in Nat /\ word_file_offset \in Nat
      /\ ids_file_offset + 1 \in 1 .. Len(t)
      /\ Place(t)[ids_file_offset + 2] \in Nat
      /\ Place(t)[ids_file_offset + 2] <= Len(TextOf(t))
      /\ word_file_offset + Len(word) = Place(t)[ids_file_offset + 2]
  BY CopyPlace DEF Killed
<1>2. Len(content) = OctetSum(t) + Len(t) /\ Len(ids) = Len(t)
  BY DEF FetchInv, Reckoned, Killed
<1> HIDE DEF t
<1>3. Len(content) = Len(TextOf(t))
  BY <1>1, <1>2, OctetsAndNewlines
<1>4. /\ Len(content) \in Nat /\ word \in Seq(Nat)
      /\ PageBytes \in Nat \ {0} /\ PageIds \in Nat \ {0}
  <2>1. content \in Seq(Nat) /\ word \in Seq(Nat)
    BY DEF FetchInv, TypeOK
  <2>2. Len(content) \in Nat
    BY <2>1
  <2>3. PageBytes \in Nat \ {0} /\ PageIds \in Nat \ {0}
    BY ContentFetchAssumption
  <2> QED
    BY <2>1, <2>2, <2>3
<1>5. CASE word = <<>>
  <2>1. ids_file_offset < Len(ids) /\ Len(ids) \in Nat
    BY <1>1, <1>2
  <2>2. InPages(ids_file_offset, Len(ids), PageIds)
    BY <1>1, <1>4, <2>1, WithinPages
  <2> QED
    BY <1>5, <2>2 DEF Killed
<1>6. CASE word # <<>>
  <2>1. Len(word) \in Nat \ {0}
    BY <1>4, <1>6
  <2>2. word_file_offset < Len(content)
    BY <1>1, <1>3, <1>4, <2>1
  <2>3. InPages(word_file_offset, Len(content), PageBytes)
    BY <1>1, <1>4, <2>2, WithinPages
  <2> QED
    BY <1>6, <2>3 DEF Killed
<1> QED
  BY <1>5, <1>6

LEMMA CopiedStep == FetchInv /\ [Next]_vars => Copied'
<1> SUFFICES ASSUME FetchInv, [Next]_vars PROVE Copied'
  OBVIOUS
<1>0. Copied
  BY DEF FetchInv
<1>1. CASE SizeQuery \/ CreateContent \/ CreateIds \/ Fails \/ CopyByteThrows
  BY <1>1 DEF SizeQuery, CreateContent, CreateIds, Fails, CopyByteThrows, Copied
<1>2. CASE RowsQuery
  BY <1>2, RowsRead
<1>3. CASE CopyByte
  BY <1>3, ByteCopied
<1>4. CASE CopyId
  BY <1>4, IdCopied
<1>5. CASE Killed
  <2>1. sized # read
    BY <1>5, KilledByChange
  <2> QED
    BY <1>0, <1>5, <2>1 DEF Killed, Copied, RowsLeft, WordLeft, Written, sizeVars, rowVars, fileVars
<1>6. CASE Return
  BY <1>0, <1>6 DEF Return, Copied, RowsLeft, WordLeft, Written, sizeVars, rowVars, fileVars
<1>7. CASE EditTable \/ Stopped \/ UNCHANGED vars
  BY <1>0, <1>7
  DEF EditTable, Stopped, vars, Copied, RowsLeft, WordLeft, Written, sizeVars, rowVars, fileVars
<1> QED
  BY <1>1, <1>2, <1>3, <1>4, <1>5, <1>6, <1>7 DEF Next

(* at() lets an offset through that is the size, so a byte may be written  *)
(* one past the end; each id comes after a byte.                           *)
LEMMA IdsBoundedStep == FetchInv /\ [Next]_vars => IdsBounded'
<1> SUFFICES ASSUME FetchInv, [Next]_vars PROVE IdsBounded'
  OBVIOUS
<1>0. IdsBounded /\ Unread
  BY DEF FetchInv
<1>t. /\ content \in Seq(Nat) /\ Len(content) \in Nat /\ word \in Seq(Nat)
      /\ word_file_offset \in Nat /\ ids_file_offset \in Nat
  <2>1. /\ content \in Seq(Nat) /\ word \in Seq(Nat)
        /\ word_file_offset \in Nat /\ ids_file_offset \in Nat
    BY DEF FetchInv, TypeOK
  <2> QED
    BY <2>1
<1>1. CASE CreateContent
  <2>1. TypeOK'
    BY TypesStep
  <2>2. Len(content') \in Nat
    <3>1. content' \in Seq(Nat)
      BY <2>1 DEF TypeOK
    <3> QED
      BY <3>1
  <2>3. word_file_offset' = 0 /\ ids_file_offset' = 0
    BY <1>0, <1>1 DEF CreateContent, Unread
  <2> QED
    BY <2>2, <2>3 DEF IdsBounded
<1>2. CASE SizeQuery \/ CreateIds \/ RowsQuery \/ Fails \/ CopyByteThrows \/ Killed \/ Return
  BY <1>0, <1>2
  DEF SizeQuery, CreateIds, RowsQuery, Fails, CopyByteThrows, Killed, Return, IdsBounded, fileVars
<1>3. CASE CopyByte
  <2>1. word_file_offset <= Len(content) /\ word_file_offset' = word_file_offset + 1
        /\ ids_file_offset' = ids_file_offset /\ word # <<>>
        /\ content' = Store(content, word_file_offset, Head(word))
    BY <1>t, <1>3 DEF CopyByte, AtThrows
  <2>2. Len(content') = Len(content)
    BY <1>t, <2>1, Stored, Rest
  <2> QED
    BY <1>0, <1>t, <2>1, <2>2 DEF IdsBounded
<1>4. CASE CopyId
  <2>1. word = <<>> /\ rows # <<>> /\ pc = "copy" /\ ids_file_offset' = ids_file_offset + 1
        /\ word_file_offset' = word_file_offset /\ content' = content
    BY <1>4 DEF CopyId
  <2> DEFINE p == Place(Tables[read])[ids_file_offset + 2]
  <2>2. p \in Nat /\ ids_file_offset + 1 <= p /\ word_file_offset + Len(word) = p
    BY <2>1, CopyPlace
  <2>3. Len(word) = 0
    BY <2>1
  <2> HIDE DEF p
  <2>4. ids_file_offset + 1 <= word_file_offset
    BY <1>t, <2>2, <2>3
  <2> QED
    BY <1>0, <2>1, <2>4 DEF IdsBounded
<1>5. CASE EditTable \/ Stopped \/ UNCHANGED vars
  BY <1>0, <1>5 DEF EditTable, Stopped, vars, IdsBounded, fileVars
<1> QED
  BY <1>1, <1>2, <1>3, <1>4, <1>5 DEF Next

LEMMA FetchInvStep == FetchInv /\ [Next]_vars => FetchInv'
BY TypesStep, ReckonedStep, UnreadStep, CopiedStep, IdsBoundedStep DEF FetchInv

-----------------------------------------------------------------------------
(* Two sequences of one length with the same elements are the same.        *)
LEMMA SameElements ==
  ASSUME NEW S, NEW a \in Seq(S), NEW b \in Seq(S), Len(a) = Len(b),
         \A k \in 1 .. Len(a) : a[k] = b[k]
  PROVE  a = b
OBVIOUS

(* The files are complete when the rows are all dealt with.                *)
LEMMA FetchFound == FetchInv => StillExact
<1> SUFFICES ASSUME FetchInv, sized = read, pc \in {"copy", "returned", "killed"}
             PROVE  /\ pc # "killed"
                    /\ Len(content) = Len(TextOf(Tables[read])) /\ Len(ids) = Len(Tables[read])
                    /\ word_file_offset <= Len(content) /\ ids_file_offset <= Len(ids)
                    /\ pc = "returned" => /\ content = TextOf(Tables[read])
                                          /\ ids = IdsOf(Tables[read])
  BY DEF StillExact
<1> DEFINE t == Tables[read]
           text == TextOf(t)
<1>1. t \in Seq(Row) /\ Len(t) \in Nat
  BY FetchTables
<1>2. /\ content \in Seq(Nat) /\ ids \in Seq(Nat) /\ word \in Seq(Nat) /\ rows \in Seq(Row)
      /\ word_file_offset \in Nat /\ ids_file_offset \in Nat
  BY DEF FetchInv, TypeOK
<1>3. /\ RowsLeft(t) /\ WordLeft(t) /\ Written(t) /\ pc # "killed"
      /\ pc = "returned" => rows = <<>>
  BY DEF FetchInv, Copied
<1>4. Len(content) = OctetSum(t) + Len(t) /\ Len(ids) = Len(t)
  BY DEF FetchInv, Reckoned
<1>p. rows # <<>> => /\ Place(t)[ids_file_offset + 2] \in Nat
                     /\ Place(t)[ids_file_offset + 2] <= Len(text)
                     /\ word_file_offset + Len(word) = Place(t)[ids_file_offset + 2]
  BY CopyPlace
<1> HIDE DEF t
<1>5. Len(content) = Len(text) /\ text \in Seq(Nat) /\ Len(text) \in Nat
  BY <1>1, <1>4, OctetsAndNewlines, PlaceBegins
<1>6. ids_file_offset <= Len(ids) /\ Len(rows) = Len(t) - ids_file_offset
  BY <1>3, <1>4 DEF RowsLeft
<1>7. rows = <<>> => ids_file_offset = Len(t) /\ word_file_offset = Len(text)
  <2>1. SUFFICES ASSUME rows = <<>> PROVE ids_file_offset = Len(t) /\ word_file_offset = Len(text)
    OBVIOUS
  <2>2. Len(rows) = 0
    BY <2>1
  <2>3. ids_file_offset = Len(t)
    BY <1>1, <1>2, <1>6, <2>2
  <2>4. word_file_offset = Place(t)[Len(t) + 1]
    BY <1>3, <2>1, <2>3 DEF WordLeft
  <2> QED
    BY <1>1, <2>3, <2>4, Places
<1>8. word_file_offset <= Len(content)
  <2>1. CASE rows = <<>>
    BY <1>5, <1>7, <2>1
  <2>2. CASE rows # <<>>
    <3>1. Len(word) \in Nat
      BY <1>2
    <3> DEFINE p == Place(t)[ids_file_offset + 2]
    <3>2. p \in Nat /\ p <= Len(text) /\ word_file_offset + Len(word) = p
      BY <1>p, <2>2
    <3> HIDE DEF p
    <3>3. word_file_offset <= Len(text)
      BY <1>2, <1>5, <3>1, <3>2
    <3> QED
      BY <1>5, <3>3
  <2> QED
    BY <2>1, <2>2
<1>9. ASSUME pc = "returned" PROVE content = text /\ ids = IdsOf(t)
  <2>1. ids_file_offset = Len(t) /\ word_file_offset = Len(text)
    BY <1>3, <1>7, <1>9
  <2>2. \A k \in 1 .. Len(content) : content[k] = text[k]
    <3>1. \A k \in 1 .. Len(content) : k <= Len(text)
      BY <1>5
    <3> QED
      BY <1>3, <2>1, <3>1 DEF Written
  <2>3. content = text
    <3> HIDE DEF text
    <3> QED
      BY <1>2, <1>5, <2>2, SameElements
  <2>4. IdsOf(t) \in Seq(Nat) /\ Len(IdsOf(t)) = Len(t) /\ \A k \in 1 .. Len(t) : IdsOf(t)[k] = t[k].id
    <3>1. \A k \in 1 .. Len(t) : t[k].id \in Nat
      BY <1>1, RowTypes
    <3> QED
      BY <1>1, <3>1 DEF IdsOf
  <2>5. \A k \in 1 .. Len(ids) : ids[k] = t[k].id
    <3>1. \A k \in 1 .. Len(ids) : k <= Len(t)
      BY <1>1, <1>4
    <3> QED
      BY <1>3, <2>1, <3>1 DEF Written
  <2>6. \A k \in 1 .. Len(ids) : ids[k] = IdsOf(t)[k]
    BY <1>4, <2>4, <2>5
  <2>7. ids = IdsOf(t)
    BY <1>2, <1>4, <2>4, <2>6, SameElements
  <2> QED
    BY <2>3, <2>7
<1> QED
  BY <1>3, <1>4, <1>5, <1>6, <1>8, <1>9 DEF t

(* The invariant holds in every state the fetch gets to.                   *)
THEOREM ContentFetchInvariant == Spec => []FetchInv
<1>1. Init => FetchInv
  BY FetchInvInit
<1>2. FetchInv /\ [Next]_vars => FetchInv'
  BY FetchInvStep
<1> QED
  BY <1>1, <1>2, PTL DEF Spec

(* Every variable of request_content keeps its type: offsets, sizes and the*)
(* elements of the files are unsigned numbers throughout.                  *)
THEOREM ContentFetchTypeOK == Spec => []TypeOK
<1>1. FetchInv => TypeOK
  BY DEF FetchInv
<1> QED
  BY <1>1, ContentFetchInvariant, PTL

(* Whatever is committed before, after or between other steps: as long as  *)
(* the two statements of request_content saw one state of the table, the   *)
(* files are exact and no write is past an end.                            *)
THEOREM FetchStillExact == Spec => []StillExact
BY FetchFound, ContentFetchInvariant, PTL

(* However the table has grown between the statements, the unchecked writes*)
(* of ids are bounded by the checked ones of content.                      *)
THEOREM FetchIdsBounded == Spec => []IdsBounded
<1>1. FetchInv => IdsBounded
  BY DEF FetchInv
<1> QED
  BY <1>1, ContentFetchInvariant, PTL
=============================================================================
