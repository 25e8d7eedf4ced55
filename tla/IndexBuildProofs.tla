-------------------------- MODULE IndexBuildProofs --------------------------
(***************************************************************************)
(* Proofs about CreateShards and about the build that it is a part of.     *)
(*                                                                         *)
(* create_shards: the workers' buffers neither lose nor double a pair,     *)
(* every shard ends with each of its pairs once, and the progress bar      *)
(* counts what was done, in every order and for any number of threads.     *)
(*                                                                         *)
(* TrigramBuilder::build: the scan finds the lines of any text, and what   *)
(* the three parts leave behind are exactly the files that TrigramIndex    *)
(* computes from it.                                                       *)
(***************************************************************************)
EXTENDS IndexBuild, DataProofs, FiniteSetTheorems, SequenceTheorems

(* A sum of which all terms but one are zero.                              *)
LEMMA SumOfOne ==
  ASSUME NEW W, IsFiniteSet(W), NEW f \in [W -> Nat], NEW w \in W,
         \A v \in W : v # w => f[v] = 0
  PROVE  SumFunction(f) = f[w]
<1> DEFINE Rest(it, s) == LET x == CHOOSE x \in s : TRUE IN f[x] + it[s \ {x}]
           Eq(it) == it = [s \in SUBSET W |-> IF s = {} THEN 0 ELSE Rest(it, s)]
           closed == [s \in SUBSET W |-> IF w \in s THEN f[w] ELSE 0]
           sum == CHOOSE it : Eq(it)
<1>1. ASSUME NEW s \in SUBSET W, s # {}, NEW it, NEW x, x = CHOOSE y \in s : TRUE,
             it[s \ {x}] = closed[s \ {x}]
      PROVE  Rest(it, s) = closed[s] /\ x \in s
  <2>1. x \in s /\ s \ {x} \in SUBSET W
    BY <1>1
  <2>2. Rest(it, s) = f[x] + it[s \ {x}]
    BY <1>1
  <2>3. closed[s \ {x}] = (IF w \in s \ {x} THEN f[w] ELSE 0) /\ closed[s] = IF w \in s THEN f[w] ELSE 0
    BY <2>1
  <2>4. f[x] \in Nat /\ f[w] \in Nat /\ (x # w => f[x] = 0)
    BY <2>1
  <2> DEFINE total == closed[s]
             rest == Rest(it, s)
             less == closed[s \ {x}]
  <2>5. rest = f[x] + less
    BY <1>1, <2>2
  <2> HIDE DEF closed, Rest
  <2>6. CASE x = w
    <3>1. less = 0 /\ total = f[w]
      BY <2>1, <2>3, <2>6
    <3> HIDE DEF less, total, rest
    <3>2. rest = total
      BY <2>4, <2>5, <2>6, <3>1
    <3> QED
      BY <2>1, <3>2 DEF rest, total
  <2>7. CASE x # w
    <3>1. less = total /\ less \in Nat
      BY <2>3, <2>4, <2>7
    <3> HIDE DEF less, total, rest
    <3>2. rest = total
      BY <2>4, <2>5, <2>7, <3>1
    <3> QED
      BY <2>1, <3>2 DEF rest, total
  <2> QED
    BY <2>6, <2>7
<1>2. Eq(closed)
  <2>1. ASSUME NEW s \in SUBSET W PROVE closed[s] = IF s = {} THEN 0 ELSE Rest(closed, s)
    <3>1. CASE s = {}
      BY <3>1
    <3>2. CASE s # {}
      <4> HIDE DEF closed, Rest
      <4> QED
        BY <1>1, <3>2
    <3> QED
      BY <3>1, <3>2
  <2>2. closed = [s \in SUBSET W |-> closed[s]]
    OBVIOUS
  <2> HIDE DEF closed, Rest
  <2> QED
    BY <2>1, <2>2
<1>3. Eq(sum)
  <2> HIDE DEF closed, Eq
  <2> QED
    BY <1>2
<1>4. SumFunction(f) = sum[W]
  BY DEF SumFunction, SumFunctionOnSet, FoldFunctionOnSet, MapThenFoldSet
<1> HIDE DEF sum
<1> DEFINE Bad == { n \in Nat : \E s \in SUBSET W : Cardinality(s) = n /\ sum[s] # closed[s] }
<1>5. ASSUME NEW s \in SUBSET W
      PROVE  /\ IsFiniteSet(s) /\ Cardinality(s) \in Nat
             /\ sum[s] = IF s = {} THEN 0 ELSE Rest(sum, s)
  <2>1. IsFiniteSet(s)
    BY FS_Subset
  <2>2. Cardinality(s) \in Nat
    BY <2>1, FS_CardinalityType
  <2>3. sum[s] = IF s = {} THEN 0 ELSE Rest(sum, s)
    <3> HIDE DEF Rest
    <3> QED
      BY <1>3
  <2> QED
    BY <2>1, <2>2, <2>3
<1>6. Bad = {}
  <2>1. SUFFICES ASSUME Bad # {} PROVE FALSE
    OBVIOUS
  <2>2. PICK n \in Bad : \A m \in Bad : n <= m
    <3>1. Bad \in SUBSET Nat
      OBVIOUS
    <3> HIDE DEF Bad
    <3> QED
      BY <2>1, <3>1, Least
  <2>3. PICK s \in SUBSET W : Cardinality(s) = n /\ sum[s] # closed[s]
    BY <2>2
  <2>4. CASE s = {}
    BY <1>5, <2>3, <2>4
  <2>5. CASE s # {}
    <3> DEFINE x == CHOOSE y \in s : TRUE
    <3>1. x \in s
      BY <2>5
    <3> HIDE DEF closed, x, Rest
    <3>2. s \ {x} \in SUBSET W /\ IsFiniteSet(s)
      BY <1>5
    <3>3. Cardinality(s \ {x}) = Cardinality(s) - 1
      BY <3>1, <3>2, FS_RemoveElement
    <3>4. Cardinality(s \ {x}) \in Nat /\ ~(n <= Cardinality(s \ {x}))
      BY <1>5, <2>3, <3>2, <3>3
    <3>5. sum[s \ {x}] = closed[s \ {x}]
      BY <2>2, <3>2, <3>4
    <3>6. Rest(sum, s) = closed[s]
      BY <1>1, <2>5, <3>5 DEF x
    <3> QED
      BY <1>5, <2>3, <2>5, <3>6
  <2> QED
    BY <2>4, <2>5
<1>7. sum[W] = closed[W]
  <2>1. W \in SUBSET W /\ Cardinality(W) \in Nat
    BY <1>5
  <2> HIDE DEF closed
  <2> QED
    BY <1>6, <2>1
<1> QED
  BY <1>4, <1>7

(* The next line of a worker is n on, and has the same remainder; no line  *)
(* in between has it.                                                      *)
LEMMA NextOfWorker ==
  ASSUME NEW a \in Nat, NEW b \in Nat, NEW n \in Nat \ {0}
  PROVE  /\ (b + n) % n = b % n
         /\ a % n = b % n => (a < b + n <=> a <= b)
<1> DEFINE qa == a \div n
           qb == b \div n
           ra == a % n
           rb == b % n
<1>1. /\ qa \in Nat /\ ra \in 0 .. n - 1 /\ a = qa * n + ra
      /\ qb \in Nat /\ rb \in 0 .. n - 1 /\ b = qb * n + rb
  BY Quotient
<1>2. (b + n) % n = rb
  <2> HIDE DEF qb, rb
  <2>1. b + n = (qb + 1) * n + rb
    BY <1>1
  <2>2. qb + 1 \in Nat
    BY <1>1
  <2> QED
    BY <1>1, <2>1, <2>2, QuotientOf
<1>3. ASSUME ra = rb, a < b + n PROVE a <= b
  <2> HIDE DEF qa, qb, ra, rb
  <2>1. qa * n - qb * n = (qa - qb) * n /\ (qa - qb) * n \in Int
    BY <1>1
  <2>2. (qa - qb) * n < n
    BY <1>1, <1>3, <2>1
  <2>3. qa - qb < 1
    <3>1. SUFFICES ASSUME qa - qb >= 1 PROVE FALSE
      BY <1>1
    <3>2. (qa - qb) * n >= 1 * n
      BY <1>1, <3>1
    <3> QED
      BY <2>1, <2>2, <3>2
  <2>4. (qa - qb) * n <= 0
    BY <1>1, <2>3
  <2> QED
    BY <1>1, <1>3, <2>1, <2>4
<1> QED
  BY <1>1, <1>2, <1>3

(* A trigram is its shard and its place there.                             *)
LEMMA GramPlace ==
  /\ \A g \in Gram : /\ ShardIndex(g) \in Shard /\ ShardOffset(g) \in Offset
                     /\ GramOf(ShardIndex(g), ShardOffset(g)) = g
  /\ \A s \in Shard, o \in Offset : /\ GramOf(s, o) \in Gram
                                    /\ ShardIndex(GramOf(s, o)) = s
                                    /\ ShardOffset(GramOf(s, o)) = o
<1>1. NumShards \in Nat /\ OffsetsPerShard \in Nat \ {0}
  BY ShardDataAssumption
<1> QED
  BY <1>1, HighAndLow, HighWithLow
  DEF Gram, Shard, Offset, ShardIndex, ShardOffset, GramOf

(* What is in a sequence that is taken apart: in its head or in the rest.  *)
LEMMA HeadAndTail ==
  ASSUME NEW S, NEW q \in Seq(S), q # <<>>
  PROVE  /\ Head(q) \in S /\ Tail(q) \in Seq(S)
         /\ Range(q) = {Head(q)} \cup Range(Tail(q))
<1>1. /\ Len(q) \in Nat \ {0} /\ Head(q) = q[1] /\ Tail(q) \in Seq(S)
      /\ DOMAIN q = 1 .. Len(q) /\ DOMAIN Tail(q) = 1 .. Len(q) - 1
      /\ \A i \in 1 .. Len(q) : q[i] \in S
      /\ \A i \in 1 .. Len(q) - 1 : Tail(q)[i] = q[i + 1]
  OBVIOUS
<1>2. Range(q) \subseteq {Head(q)} \cup Range(Tail(q))
  <2>1. SUFFICES ASSUME NEW i \in 1 .. Len(q), i # 1 PROVE q[i] \in Range(Tail(q))
    BY <1>1 DEF Range
  <2>2. i - 1 \in 1 .. Len(q) - 1 /\ q[i] = Tail(q)[i - 1]
    BY <1>1, <2>1
  <2> QED
    BY <1>1, <2>2 DEF Range
<1>3. {Head(q)} \cup Range(Tail(q)) \subseteq Range(q)
  <2>1. 1 \in 1 .. Len(q) /\ \A i \in 1 .. Len(q) - 1 : i + 1 \in 1 .. Len(q)
    BY <1>1
  <2> QED
    BY <1>1, <2>1 DEF Range
<1> QED
  BY <1>1, <1>2, <1>3

(* In a line's trigrams the first does not come again.                     *)
LEMMA AscendingTail ==
  ASSUME NEW q \in Seq(Gram), q # <<>>, StrictlyAscending(q)
  PROVE  StrictlyAscending(Tail(q)) /\ Head(q) \notin Range(Tail(q))
<1>1. /\ Len(q) \in Nat \ {0} /\ Head(q) = q[1]
      /\ DOMAIN q = 1 .. Len(q) /\ DOMAIN Tail(q) = 1 .. Len(q) - 1
      /\ \A i \in 1 .. Len(q) - 1 : Tail(q)[i] = q[i + 1]
  OBVIOUS
<1>2. \A i \in 1 .. Len(q) : q[i] \in Int
  BY ShardDataAssumption DEF Gram
<1>3. \A i, j \in 1 .. Len(q) : i < j => q[i] < q[j]
  BY <1>1 DEF StrictlyAscending
<1>4. \A i \in 1 .. Len(q) - 1 : i + 1 \in 1 .. Len(q) /\ 1 < i + 1 /\ 1 \in 1 .. Len(q)
  BY <1>1
<1>5. StrictlyAscending(Tail(q))
  <2>1. ASSUME NEW i \in 1 .. Len(q) - 1, NEW j \in 1 .. Len(q) - 1, i < j
        PROVE  Tail(q)[i] < Tail(q)[j]
    <3>1. i + 1 < j + 1
      BY <2>1
    <3> QED
      BY <1>1, <1>3, <1>4, <3>1
  <2> QED
    BY <1>1, <2>1 DEF StrictlyAscending
<1>6. ASSUME NEW i \in 1 .. Len(q) - 1 PROVE Tail(q)[i] # q[1]
  BY <1>1, <1>2, <1>3, <1>4
<1> QED
  BY <1>1, <1>5, <1>6 DEF Range

(* What is in two sequences joined; nothing is in it twice when nothing is *)
(* in both nor twice in one.                                               *)
LEMMA JoinedRange ==
  ASSUME NEW S, NEW a \in Seq(S), NEW b \in Seq(S)
  PROVE  /\ Range(a \o b) = Range(a) \cup Range(b)
         /\ IsInjective(a) /\ IsInjective(b) /\ Range(a) \cap Range(b) = {}
              => IsInjective(a \o b)
<1> DEFINE c == a \o b
           m == Len(a)
           n == Len(b)
<1>1. /\ m \in Nat /\ n \in Nat
      /\ DOMAIN a = 1 .. m /\ DOMAIN b = 1 .. n
  OBVIOUS
<1>2. /\ DOMAIN c = 1 .. m + n
      /\ \A i \in 1 .. m : c[i] = a[i]
      /\ \A i \in 1 .. n : c[m + i] = b[i]
  <2>1. c \in Seq(S) /\ Len(c) = m + n
    BY Joined
  <2>2. DOMAIN c = 1 .. Len(c)
    BY <2>1
  <2> QED
    BY <2>1, <2>2, Joined
<1> HIDE DEF c, m, n
<1>3. ASSUME NEW i \in 1 .. m + n
      PROVE  \/ i \in 1 .. m /\ c[i] = a[i]
             \/ i - m \in 1 .. n /\ c[i] = b[i - m] /\ ~(i \in 1 .. m)
  <2>1. CASE i <= m
    BY <1>1, <1>2, <2>1
  <2>2. CASE i > m
    <3>1. i - m \in 1 .. n /\ m + (i - m) = i
      BY <1>1, <2>2
    <3> QED
      BY <1>1, <1>2, <2>2, <3>1
  <2> QED
    BY <1>1, <2>1, <2>2
<1>4. Range(c) = Range(a) \cup Range(b)
  <2>1. Range(c) \subseteq Range(a) \cup Range(b)
    BY <1>1, <1>2, <1>3 DEF Range
  <2>2. (\A i \in 1 .. m : i \in 1 .. m + n) /\ (\A i \in 1 .. n : m + i \in 1 .. m + n)
    BY <1>1
  <2>3. Range(a) \cup Range(b) \subseteq Range(c)
    BY <1>1, <1>2, <2>2 DEF Range
  <2> QED
    BY <2>1, <2>3
<1>5. ASSUME IsInjective(a), IsInjective(b), Range(a) \cap Range(b) = {} PROVE IsInjective(c)
  <2>1. SUFFICES ASSUME NEW i \in 1 .. m + n, NEW j \in 1 .. m + n, c[i] = c[j] PROVE i = j
    BY <1>2 DEF IsInjective
  <2>2. \A k \in 1 .. m, l \in 1 .. n : a[k] # b[l]
    BY <1>1, <1>5 DEF Range
  <2>3. (\A k, l \in 1 .. m : a[k] = a[l] => k = l) /\ (\A k, l \in 1 .. n : b[k] = b[l] => k = l)
    BY <1>1, <1>5 DEF IsInjective
  <2>4. CASE i \in 1 .. m /\ j \in 1 .. m
    BY <1>3, <2>1, <2>3, <2>4
  <2>5. CASE ~(i \in 1 .. m) /\ ~(j \in 1 .. m)
    <3>1. i - m \in 1 .. n /\ j - m \in 1 .. n /\ b[i - m] = b[j - m]
      BY <1>3, <2>1, <2>5
    <3>2. i - m = j - m
      BY <2>3, <3>1
    <3> QED
      BY <1>1, <3>2
  <2>6. CASE (i \in 1 .. m) # (j \in 1 .. m)
    BY <1>3, <2>1, <2>2, <2>6
  <2> QED
    BY <2>4, <2>5, <2>6
<1> QED
  BY <1>4, <1>5 DEF c

(* A buffer with one more pair.                                            *)
LEMMA OneMore ==
  ASSUME NEW S, NEW a \in Seq(S), NEW p \in S
  PROVE  /\ Append(a, p) \in Seq(S) /\ Range(Append(a, p)) = Range(a) \cup {p}
         /\ IsInjective(a) /\ p \notin Range(a) => IsInjective(Append(a, p))
<1>1. /\ Append(a, p) = a \o <<p>> /\ <<p>> \in Seq(S) /\ Append(a, p) \in Seq(S)
      /\ DOMAIN <<p>> = {1} /\ <<p>>[1] = p
  OBVIOUS
<1>2. Range(<<p>>) = {p} /\ IsInjective(<<p>>)
  BY <1>1 DEF Range, IsInjective
<1> DEFINE b == <<p>>
<1>3. /\ Range(a \o b) = Range(a) \cup Range(b)
      /\ IsInjective(a) /\ IsInjective(b) /\ Range(a) \cap Range(b) = {} => IsInjective(a \o b)
  <2> HIDE DEF b
  <2>1. b \in Seq(S)
    BY <1>1 DEF b
  <2> QED
    BY <2>1, JoinedRange
<1> HIDE DEF b
<1>4. Append(a, p) = a \o b /\ Range(b) = {p} /\ IsInjective(b)
  BY <1>1, <1>2 DEF b
<1> QED
  BY <1>1, <1>3, <1>4

(* Where nothing is twice, a pair occurs once or not at all.               *)
LEMMA Once ==
  ASSUME NEW S, NEW q \in Seq(S), IsInjective(q), NEW p
  PROVE  Occurrences(p, q) = IF p \in Range(q) THEN 1 ELSE 0
<1> DEFINE at == { i \in DOMAIN q : q[i] = p }
<1>1. CASE p \in Range(q)
  <2>1. PICK i \in DOMAIN q : q[i] = p
    BY <1>1 DEF Range
  <2>2. at = {i}
    BY <2>1 DEF IsInjective
  <2>3. Cardinality({i}) = 1
    BY FS_Singleton
  <2> QED
    BY <1>1, <2>2, <2>3 DEF Occurrences
<1>2. CASE p \notin Range(q)
  <2>1. at = {}
    BY <1>2 DEF Range
  <2> QED
    BY <1>2, <2>1, FS_EmptySet DEF Occurrences
<1> QED
  BY <1>1, <1>2

-----------------------------------------------------------------------------
(* The inductive invariant.                                                *)

(* Where each worker is: at a line of its own, with trigrams left that are *)
(* the line's, and its last loop after all its lines.                      *)
Going ==
  \A w \in Worker :
    /\ line[w] % NumThreads = w
    /\ pc[w] = "push" => /\ line[w] < NumLines
                         /\ Range(grams[w]) \subseteq Range(document[line[w] + 1])
                         /\ StrictlyAscending(grams[w])
    /\ pc[w] \in {"flush", "done"} => line[w] >= NumLines
    /\ pc[w] \notin {"flush", "done"} => flushing[w] = 0
    /\ pc[w] = "done" => flushing[w] = NumShards

(* A shard's sequence q and the workers' buffers for it hold no pair twice,*)
(* and exactly the pairs that the workers have come past: buffers[w], as   *)
(* long as w's last loop has not come past the shard, those of came[w]     *)
(* that are not yet in q.                                                  *)
Holds(s, q, buffer, flushed, came) ==
  /\ IsInjective(q)
  /\ \A p \in Range(q) : p \in came[p.line_id % NumThreads]
  /\ \A w \in Worker :
       /\ \A p \in came[w] : p.line_id % NumThreads = w
       /\ flushed[w] <= s => /\ IsInjective(buffer[w])
                             /\ Range(buffer[w]) \subseteq came[w] \ Range(q)
       /\ \A p \in came[w] : p \in Range(q) \/ (flushed[w] <= s /\ p \in Range(buffer[w]))

BuffersOf(s) == [w \in Worker |-> buffers[w][s]]
CameTo(s)    == [w \in Worker |-> { p \in Pair : Handled(w, s, p) }]
Distributed  == \A s \in Shard : Holds(s, shards[s], BuffersOf(s), flushing, CameTo(s))

(* The multiples of the bar's quantum that a worker has come to.           *)
Quanta == { i \in 0 .. NumLines - 1 : i % bar.quantum = 0 /\ Taken(i) }

(* What a bar shows is what it was when it last grew by a quantum, and the *)
(* next time is not further than another.                                  *)
Drawn(b) ==
  /\ b.shown = b.last /\ b.last <= b.done
  /\ b.next <= b.total /\ b.next <= b.last + b.quantum
  /\ b.done = b.last \/ b.done < b.next

BarInStep ==
  /\ bar.total = NumLines + 1 /\ bar.quantum \in 1 .. bar.total
  /\ bar.done = Smaller(bar.total, bar.quantum * Cardinality(Quanta))
  /\ ~joined => Drawn(bar)
  /\ joined => bar.shown = bar.total /\ AllDone

CreateInv == TypeOK /\ Going /\ Distributed /\ BarInStep

-----------------------------------------------------------------------------
(* What the documents are: at least one line, and the line numbers stay    *)
(* below LineIdMod.                                                        *)
LEMMA Lines ==
  ASSUME document \in Documents
  PROVE  /\ NumThreads \in Nat \ {0} /\ LineIdMod \in Nat /\ NumShards \in Nat \ {0}
         /\ NumLines \in Nat \ {0} /\ NumLines <= MaxLineId + 1 /\ MaxLineId \in Nat
         /\ NumLines + NumThreads <= LineIdMod
         /\ DOMAIN document = 1 .. NumLines
         /\ \A i \in 1 .. NumLines : document[i] \in Seq(Gram) /\ StrictlyAscending(document[i])
<1>1. /\ document \in Seq(Seq(Gram)) /\ Len(document) \in 1 .. MaxLineId + 1
      /\ Len(document) + NumThreads <= LineIdMod
      /\ \A i \in DOMAIN document : StrictlyAscending(document[i])
      /\ NumThreads \in Nat \ {0} /\ LineIdMod \in Nat
      /\ MaxLineId \in Nat /\ NumShards \in Nat \ {0}
  BY CreateShardsAssumption, ShardDataAssumption
<1>2. DOMAIN document = 1 .. Len(document) /\ \A i \in 1 .. Len(document) : document[i] \in Seq(Gram)
  BY <1>1
<1>3. \A i \in 1 .. Len(document) : StrictlyAscending(document[i])
  BY <1>1, <1>2
<1>4. Len(document) \in Nat \ {0} /\ Len(document) <= MaxLineId + 1
  BY <1>1
<1> QED
  BY <1>1, <1>2, <1>3, <1>4 DEF NumLines

(* The pair that PushGram pushes, and its shard.                           *)
Pushed(w) == [shard_offset |-> ShardOffset(Head(grams[w])), line_id |-> line[w]]
Into(w)   == ShardIndex(Head(grams[w]))

(* PushGram pushes a pair of the line, into the shard of its trigram.      *)
LEMMA PushedPair ==
  ASSUME TypeOK, Going, NEW w \in Worker, PushGram(w)
  PROVE  /\ Into(w) \in Shard /\ Pushed(w) \in Pair /\ PushPair(w, Into(w), Pushed(w))
         /\ Head(grams[w]) \in Gram
         /\ GramOf(Into(w), Pushed(w).shard_offset) = Head(grams[w])
         /\ Pushed(w).line_id = line[w] /\ line[w] < NumLines
<1>1. grams[w] \in Seq(Gram) /\ grams[w] # <<>> /\ line[w] \in Nat /\ line[w] < NumLines
  BY DEF TypeOK, Going, PushGram
<1>2. Head(grams[w]) \in Gram
  BY <1>1, HeadAndTail
<1>3. line[w] \in LineId
  <2>1. NumLines \in Nat /\ NumLines <= MaxLineId + 1 /\ MaxLineId \in Nat
    BY Lines DEF TypeOK
  <2> QED
    BY <1>1, <2>1 DEF LineId
<1>4. PushPair(w, Into(w), Pushed(w))
  BY DEF PushGram, Into, Pushed
<1> QED
  BY <1>1, <1>2, <1>3, <1>4, GramPlace DEF Into, Pushed, Pair

(* Where a pair comes to rest: at the end of the buffer, or with the       *)
(* buffer in the shard.                                                    *)
LEMMA PushPairTypes ==
  ASSUME TypeOK, NEW w \in Worker, NEW s \in Shard, NEW p \in Pair, PushPair(w, s, p)
  PROVE  /\ shards' \in [Shard -> Seq(Pair)]
         /\ buffers' \in [Worker -> [Shard -> Seq(Pair)]]
         /\ \A v \in Worker, t \in Shard : Len(buffers'[v][t]) <= BufferSize
<1> DEFINE b == Append(buffers[w][s], p)
<1>0. /\ buffers \in [Worker -> [Shard -> Seq(Pair)]] /\ shards \in [Shard -> Seq(Pair)]
      /\ \A v \in Worker, t \in Shard : Len(buffers[v][t]) <= BufferSize
      /\ BufferSize \in Nat
  BY CreateShardsAssumption DEF TypeOK
<1>1. b \in Seq(Pair) /\ <<>> \in Seq(Pair) /\ Len(<<>>) = 0 /\ Len(b) \in Nat
  BY <1>0, OneMore
<1>2. shards[s] \o b \in Seq(Pair)
  <2> HIDE DEF b
  <2> QED
    BY <1>0, <1>1, Joined
<1>3. \/ /\ Len(b) > BufferSize
         /\ shards' = [shards EXCEPT ![s] = @ \o b]
         /\ buffers' = [buffers EXCEPT ![w] = [@ EXCEPT ![s] = <<>>]]
      \/ /\ ~(Len(b) > BufferSize)
         /\ shards' = shards
         /\ buffers' = [buffers EXCEPT ![w] = [@ EXCEPT ![s] = b]]
  BY DEF PushPair
<1> HIDE DEF b
<1> DEFINE With(c) == [buffers EXCEPT ![w] = [@ EXCEPT ![s] = c]]
           Fit(new) == /\ new \in [Worker -> [Shard -> Seq(Pair)]]
                       /\ \A v \in Worker, t \in Shard : Len(new[v][t]) <= BufferSize
<1>4. ASSUME NEW c \in Seq(Pair), Len(c) <= BufferSize
      PROVE  Fit(With(c))
  <2>1. \A v \in Worker, t \in Shard : With(c)[v][t] = IF v = w /\ t = s THEN c ELSE buffers[v][t]
    BY <1>0
  <2>2. With(c) \in [Worker -> [Shard -> Seq(Pair)]]
    BY <1>0, <1>4
  <2> QED
    BY <1>0, <1>4, <2>1, <2>2
<1>5. CASE Len(b) > BufferSize
  <2>1. Fit(With(<<>>))
    <3> DEFINE e == <<>>
    <3>1. e \in Seq(Pair) /\ Len(e) <= BufferSize
      BY <1>0, <1>1
    <3> HIDE DEF With, Fit, e
    <3>2. Fit(With(e))
      BY <1>4, <3>1
    <3> QED
      BY <3>2 DEF e
  <2>2. shards' \in [Shard -> Seq(Pair)]
    BY <1>0, <1>2, <1>3, <1>5
  <2> QED
    BY <1>3, <1>5, <2>1, <2>2
<1>6. CASE ~(Len(b) > BufferSize)
  <2>1. Fit(With(b))
    <3> HIDE DEF With, Fit
    <3> QED
      BY <1>0, <1>1, <1>4, <1>6
  <2> QED
    BY <1>0, <1>3, <1>6, <2>1
<1> QED
  BY <1>5, <1>6

(* The bar keeps its total and its quantum.                                *)
LEMMA BarTypes ==
  ASSUME TypeOK, NEW o \in Nat
  PROVE  /\ Add(bar, o) \in [{"total", "quantum", "next", "last", "done", "shown"} -> 0 .. NumLines + 1]
         /\ FinishBar(bar) \in [{"total", "quantum", "next", "last", "done", "shown"} -> 0 .. NumLines + 1]
<1>1. NumLines \in Nat
  BY Lines DEF TypeOK
<1>2. bar \in [{"total", "quantum", "next", "last", "done", "shown"} -> 0 .. NumLines + 1]
  BY DEF TypeOK
<1>3. bar.total \in 0 .. NumLines + 1 /\ bar.done \in Nat /\ bar.quantum \in Nat
  BY <1>1, <1>2
<1>4. Smaller(bar.done + o, bar.total) \in 0 .. NumLines + 1
  BY <1>1, <1>3 DEF Smaller
<1>5. Smaller(bar.total, Smaller(bar.done + o, bar.total) + bar.quantum) \in 0 .. NumLines + 1
  <2> DEFINE m == Smaller(bar.done + o, bar.total)
  <2>1. m \in 0 .. NumLines + 1
    BY <1>4
  <2> HIDE DEF m
  <2>2. Smaller(bar.total, m + bar.quantum) \in 0 .. NumLines + 1
    BY <1>1, <1>3, <2>1 DEF Smaller
  <2> QED
    BY <2>2 DEF m
<1> HIDE DEF NumLines
<1>6. Add(bar, o) \in [{"total", "quantum", "next", "last", "done", "shown"} -> 0 .. NumLines + 1]
  BY <1>2, <1>4, <1>5 DEF Add
<1> QED
  BY <1>2, <1>3, <1>6 DEF FinishBar

(* Every step keeps the types, and every buffer within its limit.          *)
LEMMA CreateTypesStep ==
  ASSUME TypeOK, Going, [Next]_vars
  PROVE  TypeOK'
<1>0. /\ NumThreads \in Nat \ {0} /\ LineIdMod \in Nat /\ NumShards \in Nat \ {0}
      /\ NumLines \in Nat \ {0} /\ DOMAIN document = 1 .. NumLines
      /\ \A i \in 1 .. NumLines : document[i] \in Seq(Gram)
  BY Lines DEF TypeOK
<1> DEFINE fields == {"total", "quantum", "next", "last", "done", "shown"}
<1>1. ASSUME NEW w \in Worker, Start(w) PROVE TypeOK'
  BY <1>1 DEF TypeOK, Start, Goto, inputs, mainVars, NumLines
<1>2. ASSUME NEW w \in Worker, TakeLine(w) PROVE TypeOK'
  <2>1. line[w] + 1 \in 1 .. NumLines
    BY <1>0, <1>2 DEF TakeLine, TypeOK
  <2>2. grams' \in [Worker -> Seq(Gram)] /\ pc' \in [Worker -> {"start", "line", "push", "flush", "done"}]
    BY <1>0, <1>2, <2>1 DEF TakeLine, TypeOK, Goto
  <2>3. bar.quantum \in Nat
    BY <1>0 DEF TypeOK
  <2>4. bar' \in [fields -> 0 .. NumLines + 1]
    BY <1>2, <2>3, BarTypes DEF TakeLine, TypeOK
  <2> QED
    BY <1>2, <2>2, <2>4 DEF TakeLine, TypeOK, inputs, NumLines
<1>3. ASSUME NEW w \in Worker, PushGram(w) PROVE TypeOK'
  <2>1. /\ shards' \in [Shard -> Seq(Pair)]
        /\ buffers' \in [Worker -> [Shard -> Seq(Pair)]]
        /\ \A v \in Worker, t \in Shard : Len(buffers'[v][t]) <= BufferSize
    BY <1>3, PushedPair, PushPairTypes
  <2>2. grams' \in [Worker -> Seq(Gram)]
    <3>1. grams \in [Worker -> Seq(Gram)] /\ Tail(grams[w]) \in Seq(Gram)
      BY <1>3, HeadAndTail DEF PushGram, TypeOK
    <3> QED
      BY <1>3, <3>1 DEF PushGram
  <2> QED
    BY <1>3, <2>1, <2>2 DEF PushGram, TypeOK, inputs, mainVars, NumLines
<1>4. ASSUME NEW w \in Worker, NextLine(w) PROVE TypeOK'
  <2>1. line' \in [Worker -> Nat]
    <3>1. (line[w] + NumThreads) % LineIdMod \in Nat
      <4>1. line[w] + NumThreads \in Nat /\ LineIdMod \in Nat \ {0}
        <5>1. LineIdMod # 0
          BY <1>0, Lines DEF TypeOK
        <5> QED
          BY <1>0, <5>1 DEF TypeOK
      <4> QED
        BY <4>1
    <3> QED
      BY <1>4, <3>1 DEF NextLine, TypeOK
  <2> QED
    BY <1>4, <2>1 DEF NextLine, TypeOK, Goto, inputs, mainVars, NumLines
<1>5. ASSUME NEW w \in Worker, LinesDone(w) PROVE TypeOK'
  BY <1>5 DEF TypeOK, LinesDone, Goto, inputs, mainVars, NumLines
<1>6. ASSUME NEW w \in Worker, Flush(w) PROVE TypeOK'
  <2>1. flushing[w] \in Shard
    BY <1>6 DEF Flush
  <2>2. shards' \in [Shard -> Seq(Pair)]
    <3>1. shards[flushing[w]] \o buffers[w][flushing[w]] \in Seq(Pair)
      BY <2>1, Joined DEF TypeOK
    <3> QED
      BY <1>6, <2>1, <3>1 DEF Flush, TypeOK
  <2>3. flushing' \in [Worker -> 0 .. NumShards]
    <3>1. flushing[w] + 1 \in 0 .. NumShards
      BY <1>0, <2>1 DEF Shard
    <3> QED
      BY <1>6, <3>1 DEF Flush, TypeOK
  <2> QED
    BY <1>6, <2>2, <2>3 DEF Flush, TypeOK, inputs, mainVars, NumLines
<1>7. ASSUME NEW w \in Worker, Return(w) PROVE TypeOK'
  BY <1>7 DEF TypeOK, Return, Goto, inputs, mainVars, NumLines
<1>8. CASE Finish
  BY <1>8, BarTypes DEF TypeOK, Finish, inputs, workerVars, NumLines
<1>9. CASE UNCHANGED vars
  BY <1>9 DEF TypeOK, vars, inputs, workerVars, mainVars, NumLines
<1> QED
  BY <1>1, <1>2, <1>3, <1>4, <1>5, <1>6, <1>7, <1>8, <1>9 DEF Next, WorkerStep, Stopped

-----------------------------------------------------------------------------
(* NextLine's addition does not wrap around.                               *)
LEMMA NoWrap ==
  ASSUME TypeOK, Going, NEW w \in Worker, NextLine(w)
  PROVE  /\ line' = [line EXCEPT ![w] = @ + NumThreads] /\ line[w] \in Nat
         /\ (line[w] + NumThreads) % NumThreads = line[w] % NumThreads
<1>1. line[w] \in Nat /\ line[w] < NumLines
  BY DEF NextLine, TypeOK, Going
<1>2. /\ NumThreads \in Nat \ {0} /\ LineIdMod \in Nat /\ NumLines \in Nat
      /\ NumLines + NumThreads <= LineIdMod
  BY Lines DEF TypeOK
<1>3. line[w] + NumThreads \in 0 .. LineIdMod - 1
  BY <1>1, <1>2
<1>4. (line[w] + NumThreads) % LineIdMod = line[w] + NumThreads
  <2> DEFINE n == line[w] + NumThreads
  <2> HIDE DEF n
  <2>1. n % LineIdMod = n
    BY <1>2, <1>3 DEF n
  <2> QED
    BY <2>1 DEF n
<1> QED
  BY <1>1, <1>2, <1>4, NextOfWorker DEF NextLine

(* Of one worker: that it is where it should be.                           *)
LEMMA GoingStep ==
  ASSUME TypeOK, Going, [Next]_vars
  PROVE  Going'
<1>0. /\ NumThreads \in Nat \ {0} /\ NumShards \in Nat \ {0}
      /\ NumLines \in Nat \ {0}
      /\ \A i \in 1 .. NumLines : document[i] \in Seq(Gram) /\ StrictlyAscending(document[i])
  BY Lines DEF TypeOK
<1>1. document' = document /\ NumLines' = NumLines
  BY DEF Next, WorkerStep, Start, TakeLine, PushGram, NextLine, LinesDone, Flush, Return,
         Finish, Stopped, vars, inputs, NumLines
<1> HIDE DEF NumLines
<1> DEFINE At(v) ==
             /\ line[v] % NumThreads = v
             /\ pc[v] = "push" => /\ line[v] < NumLines
                                  /\ Range(grams[v]) \subseteq Range(document[line[v] + 1])
                                  /\ StrictlyAscending(grams[v])
             /\ pc[v] \in {"flush", "done"} => line[v] >= NumLines
             /\ pc[v] \notin {"flush", "done"} => flushing[v] = 0
             /\ pc[v] = "done" => flushing[v] = NumShards
<1>2. \A v \in Worker : At(v)
  BY DEF Going
<1>3. ASSUME NEW w \in Worker, Start(w), NEW v \in Worker PROVE At(v)'
  BY <1>1, <1>2, <1>3 DEF Start, Goto, TypeOK
<1>4. ASSUME NEW w \in Worker, TakeLine(w), NEW v \in Worker PROVE At(v)'
  <2>1. CASE v = w
    <3>1. line[w] + 1 \in 1 .. NumLines
      BY <1>0, <1>4 DEF TakeLine, TypeOK
    <3>2. StrictlyAscending(document[line[w] + 1])
      BY <1>0, <3>1
    <3> HIDE DEF StrictlyAscending
    <3> QED
      BY <1>1, <1>2, <1>4, <2>1, <3>2 DEF TakeLine, Goto, TypeOK
  <2>2. CASE v # w
    BY <1>1, <1>2, <1>4, <2>2 DEF TakeLine, Goto, TypeOK
  <2> QED
    BY <2>1, <2>2
<1>5. ASSUME NEW w \in Worker, PushGram(w), NEW v \in Worker PROVE At(v)'
  <2>1. CASE v = w
    <3>1. grams[w] \in Seq(Gram) /\ grams[w] # <<>> /\ StrictlyAscending(grams[w])
      BY <1>2, <1>5 DEF PushGram, TypeOK
    <3>2. Range(Tail(grams[w])) \subseteq Range(grams[w]) /\ StrictlyAscending(Tail(grams[w]))
      BY <3>1, HeadAndTail, AscendingTail
    <3> QED
      BY <1>1, <1>2, <1>5, <2>1, <3>2 DEF PushGram, TypeOK
  <2>2. CASE v # w
    BY <1>1, <1>2, <1>5, <2>2 DEF PushGram, TypeOK
  <2> QED
    BY <2>1, <2>2
<1>6. ASSUME NEW w \in Worker, NextLine(w), NEW v \in Worker PROVE At(v)'
  <2>1. line' = [line EXCEPT ![w] = @ + NumThreads]
        /\ (line[w] + NumThreads) % NumThreads = line[w] % NumThreads
    BY <1>6, NoWrap
  <2> QED
    BY <1>1, <1>2, <1>6, <2>1 DEF NextLine, Goto, TypeOK
<1>7. ASSUME NEW w \in Worker, LinesDone(w), NEW v \in Worker PROVE At(v)'
  BY <1>1, <1>2, <1>7 DEF LinesDone, Goto, TypeOK
<1>8. ASSUME NEW w \in Worker, Flush(w), NEW v \in Worker PROVE At(v)'
  BY <1>1, <1>2, <1>8 DEF Flush, TypeOK
<1>9. ASSUME NEW w \in Worker, Return(w), NEW v \in Worker PROVE At(v)'
  <2>1. flushing[w] = NumShards
    BY <1>0, <1>9 DEF Return, TypeOK, Shard
  <2> QED
    BY <1>1, <1>2, <1>9, <2>1 DEF Return, Goto, TypeOK
<1>10. ASSUME Finish \/ UNCHANGED vars, NEW v \in Worker PROVE At(v)'
  BY <1>1, <1>2, <1>10 DEF Finish, vars, workerVars
<1>11. \A v \in Worker : At(v)'
  BY <1>3, <1>4, <1>5, <1>6, <1>7, <1>8, <1>9, <1>10 DEF Next, WorkerStep, Stopped
<1> QED
  BY <1>11 DEF Going

(* Whether a worker has come past a pair depends on the worker only.       *)
LEMMA HandledUnchanged ==
  ASSUME document' = document, NEW v \in Worker,
         line'[v] = line[v], pc'[v] = pc[v], grams'[v] = grams[v],
         NEW s \in Shard, NEW p \in Pair
  PROVE  Handled(v, s, p)' <=> Handled(v, s, p)
BY DEF Handled, Belongs

(* No step but PushGram changes it: a line begins with all its trigrams    *)
(* left and ends with none, and no line of the worker's is skipped.        *)
LEMMA HandledSame ==
  ASSUME TypeOK, Going, [Next]_vars, NEW v \in Worker, ~PushGram(v),
         NEW s \in Shard, NEW p \in Pair
  PROVE  Handled(v, s, p)' <=> Handled(v, s, p)
<1>0. document' = document
  BY DEF Next, WorkerStep, Start, TakeLine, PushGram, NextLine, LinesDone, Flush, Return,
         Finish, Stopped, vars, inputs
<1>1. /\ line[v] \in Nat /\ p.line_id \in Nat /\ NumThreads \in Nat \ {0}
      /\ line[v] % NumThreads = v
  BY Lines DEF TypeOK, Going, Pair, LineId
<1>2. CASE TakeLine(v)
  <2>1. /\ line' = line /\ pc[v] = "line" /\ pc'[v] = "push"
        /\ grams'[v] = document[line[v] + 1]
    BY <1>2 DEF TakeLine, Goto, TypeOK
  <2> QED
    BY <1>0, <2>1 DEF Handled, Belongs
<1>3. CASE NextLine(v)
  <2>1. line'[v] = line[v] + NumThreads
    BY <1>3, NoWrap DEF TypeOK
  <2>2. /\ pc[v] = "push" /\ pc'[v] = "line" /\ grams[v] = <<>>
    BY <1>3 DEF NextLine, Goto, TypeOK
  <2>3. Range(grams[v]) = {}
    BY <2>2 DEF Range
  <2>4. p.line_id % NumThreads = v =>
          (p.line_id < line[v] + NumThreads <=> p.line_id <= line[v])
    BY <1>1, NextOfWorker
  <2> QED
    BY <1>0, <1>1, <2>1, <2>2, <2>3, <2>4 DEF Handled, Belongs
<1>4. CASE Start(v) \/ LinesDone(v) \/ Return(v)
  <2>1. /\ line' = line /\ grams' = grams /\ pc[v] # "push" /\ pc'[v] # "push"
    BY <1>4 DEF Start, LinesDone, Return, Goto, TypeOK
  <2> QED
    BY <1>0, <2>1 DEF Handled, Belongs
<1>5. CASE Flush(v) \/ Finish \/ UNCHANGED vars
  BY <1>0, <1>5, HandledUnchanged DEF Flush, Finish, vars, workerVars
<1>6. ASSUME NEW w \in Worker, w # v, WorkerStep(w)
      PROVE  line'[v] = line[v] /\ pc'[v] = pc[v] /\ grams'[v] = grams[v]
  BY <1>6 DEF WorkerStep, Start, TakeLine, PushGram, NextLine, LinesDone, Flush, Return,
              Goto, TypeOK
<1>7. CASE \E w \in Worker : w # v /\ WorkerStep(w)
  BY <1>0, <1>6, <1>7, HandledUnchanged
<1> QED
  BY <1>2, <1>3, <1>4, <1>5, <1>7 DEF Next, WorkerStep, Stopped

(* PushGram adds the pair it pushes.                                       *)
LEMMA HandledPushed ==
  ASSUME TypeOK, Going, NEW w \in Worker, PushGram(w),
         NEW v \in Worker, NEW s \in Shard, NEW p \in Pair
  PROVE  /\ Handled(v, s, p)' <=> Handled(v, s, p) \/ (v = w /\ s = Into(w) /\ p = Pushed(w))
         /\ ~Handled(v, Into(w), Pushed(w))
<1> DEFINE g == Head(grams[w])
           q == Tail(grams[w])
           o == p.shard_offset
<1>0. document' = document /\ line' = line /\ pc' = pc /\ pc[w] = "push"
  BY DEF PushGram, inputs
<1>1. /\ Into(w) \in Shard /\ Pushed(w) \in Pair /\ g \in Gram
      /\ GramOf(Into(w), Pushed(w).shard_offset) = g
      /\ Pushed(w).line_id = line[w] /\ line[w] < NumLines
      /\ Into(w) = ShardIndex(g) /\ Pushed(w).shard_offset = ShardOffset(g)
  BY PushedPair DEF Into, Pushed
<1>2. /\ grams[w] \in Seq(Gram) /\ grams[w] # <<>> /\ line[w] % NumThreads = w
      /\ Range(grams[w]) \subseteq Range(document[line[w] + 1])
      /\ StrictlyAscending(grams[w]) /\ line[w] \in Nat
  BY DEF PushGram, TypeOK, Going
<1>3. Range(grams[w]) = {g} \cup Range(q) /\ g \notin Range(q)
  BY <1>2, HeadAndTail, AscendingTail
<1>4. grams'[w] = q /\ \A u \in Worker : u # w => grams'[u] = grams[u]
  BY DEF PushGram, TypeOK
<1>5. ~Handled(v, Into(w), Pushed(w))
  <2>1. g \in Range(grams[w]) /\ line[w] % NumThreads = w /\ ~(line[w] < line[w])
    BY <1>2, <1>3
  <2> HIDE DEF g, q
  <2>2. SUFFICES ASSUME v = w PROVE ~Handled(v, Into(w), Pushed(w))
    BY <1>1, <1>2 DEF Handled
  <2> QED
    BY <1>1, <2>1, <2>2 DEF Handled
<1>6. CASE v # w
  <2>1. line'[v] = line[v] /\ pc'[v] = pc[v] /\ grams'[v] = grams[v]
    BY <1>0, <1>4, <1>6
  <2>2. Handled(v, s, p)' <=> Handled(v, s, p)
    BY <1>0, <2>1 DEF Handled, Belongs
  <2> QED
    BY <1>5, <1>6, <2>2
<1>7. CASE v = w
  <2>1. o \in Offset /\ (GramOf(s, o) = g <=> s = Into(w) /\ o = Pushed(w).shard_offset)
    BY <1>1, GramPlace DEF Pair
  <2>2. p = Pushed(w) <=> o = Pushed(w).shard_offset /\ p.line_id = Pushed(w).line_id
    BY <1>1 DEF Pair
  <2> DEFINE h == GramOf(s, o)
  <2>3. h = g <=> s = Into(w) /\ o = Pushed(w).shard_offset
    BY <2>1
  <2>4. (p.line_id = line[w] /\ h = g) <=> (s = Into(w) /\ p = Pushed(w))
    BY <1>1, <2>2, <2>3
  <2>5. p.line_id = line[w] /\ h = g => Belongs(s, p) /\ p.line_id % NumThreads = w
    <3>1. line[w] + 1 \in DOMAIN document
      <4>1. DOMAIN document = 1 .. NumLines /\ NumLines \in Nat
        BY Lines DEF TypeOK
      <4> HIDE DEF NumLines
      <4> QED
        BY <1>1, <1>2, <4>1
    <3> QED
      BY <1>2, <1>3, <3>1 DEF Belongs
  <2>6. Belongs(s, p)' <=> Belongs(s, p)
    BY <1>0 DEF Belongs
  <2>7. Handled(v, s, p)' <=>
          /\ Belongs(s, p) /\ p.line_id % NumThreads = w
          /\ p.line_id < line[w] \/ (p.line_id = line[w] /\ h \notin Range(q))
    BY <1>0, <1>4, <1>7, <2>6 DEF Handled
  <2>8. Handled(v, s, p) <=>
          /\ Belongs(s, p) /\ p.line_id % NumThreads = w
          /\ p.line_id < line[w] \/ (p.line_id = line[w] /\ h \notin Range(grams[w]))
    BY <1>0, <1>7 DEF Handled
  <2> HIDE DEF g, q, h, o
  <2>9. h \notin Range(q) <=> h \notin Range(grams[w]) \/ h = g
    BY <1>3
  <2> QED
    BY <1>5, <1>7, <2>4, <2>5, <2>7, <2>8, <2>9
<1> QED
  BY <1>5, <1>6, <1>7

-----------------------------------------------------------------------------
(* A pair that comes into the buffer of the worker that came past it.      *)
LEMMA PairAdded ==
  ASSUME NEW s \in Shard, NEW q \in Seq(Pair), NEW b \in [Worker -> Seq(Pair)],
         NEW fl \in [Worker -> Nat], NEW c \in [Worker -> SUBSET Pair],
         Holds(s, q, b, fl, c),
         NEW w \in Worker, fl[w] <= s,
         NEW p \in Pair, p.line_id % NumThreads = w, p \notin c[w]
  PROVE  Holds(s, q, [b EXCEPT ![w] = Append(b[w], p)], fl, [c EXCEPT ![w] = @ \cup {p}])
<1> DEFINE more == Append(b[w], p)
           b2 == [b EXCEPT ![w] = more]
           c2 == [c EXCEPT ![w] = @ \cup {p}]
<1>1. /\ IsInjective(q) /\ \A x \in Range(q) : x \in c[x.line_id % NumThreads]
      /\ \A v \in Worker :
           /\ \A x \in c[v] : x.line_id % NumThreads = v
           /\ fl[v] <= s => IsInjective(b[v]) /\ Range(b[v]) \subseteq c[v] \ Range(q)
           /\ \A x \in c[v] : x \in Range(q) \/ (fl[v] <= s /\ x \in Range(b[v]))
  BY DEF Holds
<1>2. p \notin Range(q) /\ p \notin Range(b[w])
  BY <1>1
<1>3. IsInjective(more) /\ Range(more) = Range(b[w]) \cup {p}
  BY <1>1, <1>2, OneMore
<1>4. /\ \A v \in Worker : b2[v] = IF v = w THEN more ELSE b[v]
      /\ \A v \in Worker : c2[v] = IF v = w THEN c[w] \cup {p} ELSE c[v]
  OBVIOUS
<1>5. \A x \in Range(q) : x \in c2[x.line_id % NumThreads]
  <2>1. ASSUME NEW x \in Range(q) PROVE x \in c2[x.line_id % NumThreads]
    <3>1. x.line_id % NumThreads \in Worker
      <4>1. x \in Pair
        BY DEF Range
      <4>2. x.line_id \in Nat /\ NumThreads \in Nat \ {0}
        BY <4>1, ShardDataAssumption, CreateShardsAssumption DEF Pair, LineId
      <4> QED
        BY <4>2 DEF Worker
    <3> QED
      BY <1>1, <1>4, <3>1
  <2> QED
    BY <2>1
<1> HIDE DEF more, b2, c2
<1>6. ASSUME NEW v \in Worker
      PROVE  /\ \A x \in c2[v] : x.line_id % NumThreads = v
             /\ fl[v] <= s => IsInjective(b2[v]) /\ Range(b2[v]) \subseteq c2[v] \ Range(q)
             /\ \A x \in c2[v] : x \in Range(q) \/ (fl[v] <= s /\ x \in Range(b2[v]))
  <2>1. CASE v = w
    BY <1>1, <1>2, <1>3, <1>4, <2>1
  <2>2. CASE v # w
    BY <1>1, <1>4, <2>2
  <2> QED
    BY <2>1, <2>2
<1>7. Holds(s, q, b2, fl, c2)
  BY <1>1, <1>5, <1>6 DEF Holds
<1> QED
  BY <1>7 DEF b2, c2, more

(* A buffer pushed into the shard, which is cleared or counts no more.     *)
LEMMA BufferMoved ==
  ASSUME NEW s \in Shard, NEW q \in Seq(Pair), NEW b \in [Worker -> Seq(Pair)],
         NEW fl \in [Worker -> Nat], NEW c \in [Worker -> SUBSET Pair],
         Holds(s, q, b, fl, c),
         NEW w \in Worker, fl[w] <= s,
         NEW b2 \in [Worker -> Seq(Pair)], NEW fl2 \in [Worker -> Nat],
         \A v \in Worker : v # w => b2[v] = b[v] /\ fl2[v] = fl[v],
         b2[w] = <<>> \/ fl2[w] > s
  PROVE  Holds(s, q \o b[w], b2, fl2, c)
<1> DEFINE q2 == q \o b[w]
<1>1. /\ IsInjective(q) /\ \A x \in Range(q) : x \in c[x.line_id % NumThreads]
      /\ \A v \in Worker :
           /\ \A x \in c[v] : x.line_id % NumThreads = v
           /\ fl[v] <= s => IsInjective(b[v]) /\ Range(b[v]) \subseteq c[v] \ Range(q)
           /\ \A x \in c[v] : x \in Range(q) \/ (fl[v] <= s /\ x \in Range(b[v]))
  BY DEF Holds
<1>2. IsInjective(q2) /\ Range(q2) = Range(q) \cup Range(b[w])
  BY <1>1, JoinedRange
<1>3. IsInjective(<<>>) /\ Range(<<>>) = {}
  BY DEF IsInjective, Range
<1>4. s \in Nat
  BY DEF Shard
<1> HIDE DEF q2
<1>5. \A x \in Range(q2) : x \in c[x.line_id % NumThreads]
  BY <1>1, <1>2
<1>6. ASSUME NEW v \in Worker
      PROVE  /\ fl2[v] <= s => IsInjective(b2[v]) /\ Range(b2[v]) \subseteq c[v] \ Range(q2)
             /\ \A x \in c[v] : x \in Range(q2) \/ (fl2[v] <= s /\ x \in Range(b2[v]))
  <2>1. CASE v = w
    <3>1. fl2[w] <= s => b2[w] = <<>>
      BY <1>4
    <3>2. fl2[w] <= s => IsInjective(b2[w]) /\ Range(b2[w]) = {}
      BY <1>3, <3>1
    <3> QED
      BY <1>1, <1>2, <2>1, <3>2
  <2>2. CASE v # w
    <3>1. b2[v] = b[v] /\ fl2[v] = fl[v] /\ c[v] \cap c[w] = {}
      BY <1>1, <2>2
    <3>2. Range(b[w]) \subseteq c[w]
      BY <1>1
    <3> QED
      BY <1>1, <1>2, <3>1, <3>2
  <2> QED
    BY <2>1, <2>2
<1>7. Holds(s, q2, b2, fl2, c)
  BY <1>1, <1>2, <1>5, <1>6 DEF Holds
<1> QED
  BY <1>7 DEF q2

(* The types that the shards' parts have.                                  *)
LEMMA PartTypes ==
  ASSUME TypeOK, NEW s \in Shard
  PROVE  /\ shards[s] \in Seq(Pair) /\ BuffersOf(s) \in [Worker -> Seq(Pair)]
         /\ flushing \in [Worker -> Nat] /\ CameTo(s) \in [Worker -> SUBSET Pair]
BY ShardDataAssumption DEF TypeOK, BuffersOf, CameTo

(* No step loses a pair or doubles it.                                     *)
LEMMA DistributedStep ==
  ASSUME TypeOK, Going, Distributed, [Next]_vars
  PROVE  Distributed'
<1>1. SUFFICES ASSUME NEW s \in Shard
               PROVE  Holds(s, shards'[s], BuffersOf(s)', flushing', CameTo(s)')
  BY DEF Distributed
<1> DEFINE q == shards[s]
           b == BuffersOf(s)
           c == CameTo(s)
<1>2. Holds(s, q, b, flushing, c)
  BY DEF Distributed
<1>3. /\ q \in Seq(Pair) /\ b \in [Worker -> Seq(Pair)]
      /\ flushing \in [Worker -> Nat] /\ c \in [Worker -> SUBSET Pair] /\ s \in Nat
  BY PartTypes DEF Shard
<1>4. ASSUME \A w \in Worker : ~PushGram(w) PROVE CameTo(s)' = c
  <2>1. \A v \in Worker, p \in Pair : Handled(v, s, p)' <=> Handled(v, s, p)
    BY <1>4, HandledSame
  <2> QED
    BY <2>1 DEF CameTo
<1>5. ASSUME UNCHANGED <<shards, buffers, flushing>>, \A w \in Worker : ~PushGram(w)
      PROVE  Holds(s, shards'[s], BuffersOf(s)', flushing', CameTo(s)')
  <2>1. BuffersOf(s)' = b /\ CameTo(s)' = c
    BY <1>4, <1>5 DEF BuffersOf
  <2> HIDE DEF b, c
  <2> QED
    BY <1>2, <1>5, <2>1
<1>6. ASSUME NEW w \in Worker, Flush(w)
      PROVE  Holds(s, shards'[s], BuffersOf(s)', flushing', CameTo(s)')
  <2>1. /\ flushing[w] \in Shard /\ buffers' = buffers
        /\ shards' = [shards EXCEPT ![flushing[w]] = @ \o buffers[w][flushing[w]]]
        /\ flushing' = [flushing EXCEPT ![w] = @ + 1] /\ pc[w] = "flush" /\ pc' = pc
    BY <1>6 DEF Flush
  <2>2. \A v \in Worker : ~PushGram(v)
    <3>1. ASSUME NEW v \in Worker, PushGram(v) PROVE FALSE
      BY <1>3, <1>6, <3>1 DEF PushGram, Flush
    <3> QED
      BY <3>1
  <2>3. BuffersOf(s)' = b /\ CameTo(s)' = c
    BY <1>4, <2>1, <2>2 DEF BuffersOf
  <2>4. flushing' \in [Worker -> Nat] /\ \A v \in Worker : flushing'[v] = IF v = w THEN flushing[w] + 1 ELSE flushing[v]
    BY <1>3, <2>1
  <2>5. CASE flushing[w] = s
    <3>1. shards'[s] = q \o b[w]
      BY <2>1, <2>5 DEF TypeOK, BuffersOf
    <3>2. flushing[w] <= s /\ flushing'[w] > s
      BY <1>3, <2>4, <2>5
    <3> HIDE DEF q, b, c
    <3>3. Holds(s, q \o b[w], b, flushing', c)
      BY <1>2, <1>3, <2>4, <3>2, BufferMoved
    <3> QED
      BY <2>3, <3>1, <3>3
  <2>6. CASE flushing[w] # s
    <3>1. shards'[s] = q
      BY <2>1, <2>6 DEF TypeOK
    <3>2. \A v \in Worker : flushing'[v] <= s <=> flushing[v] <= s
      <4>1. s \in Nat /\ \A v \in Worker : flushing[v] \in Nat
        BY <1>3
      <4> QED
        BY <2>4, <2>6, <4>1
    <3> HIDE DEF q, b, c
    <3>3. Holds(s, q, b, flushing', c)
      BY <1>2, <3>2 DEF Holds
    <3> QED
      BY <2>3, <3>1, <3>3
  <2> QED
    BY <2>5, <2>6
<1>7. ASSUME NEW w \in Worker, PushGram(w)
      PROVE  Holds(s, shards'[s], BuffersOf(s)', flushing', CameTo(s)')
  <2> DEFINE p == Pushed(w)
             t == Into(w)
  <2>1. t \in Shard /\ p \in Pair /\ PushPair(w, t, p) /\ p.line_id = line[w]
    BY <1>7, PushedPair
  <2>2. flushing' = flushing /\ flushing[w] <= s /\ line[w] % NumThreads = w
    <3>1. flushing' = flushing /\ pc[w] = "push"
      BY <1>7 DEF PushGram
    <3>2. flushing[w] = 0 /\ line[w] % NumThreads = w
      BY <3>1 DEF Going
    <3>3. s \in Nat
      BY DEF Shard
    <3> QED
      BY <3>1, <3>2, <3>3
  <2>3. ASSUME NEW v \in Worker, NEW x \in Pair
        PROVE  Handled(v, s, x)' <=> Handled(v, s, x) \/ (v = w /\ s = t /\ x = p)
    BY <1>7, HandledPushed
  <2>31. ~Handled(w, t, p)
    BY <1>7, <2>1, HandledPushed
  <2>4. CASE t # s
    <3>1. shards'[s] = q /\ BuffersOf(s)' = b
      <4>1. shards'[s] = shards[s] /\ \A v \in Worker : buffers'[v][s] = buffers[v][s]
        <5> HIDE DEF t, p
        <5>1. /\ \E x : shards' = [shards EXCEPT ![t] = x] \/ shards' = shards
              /\ \E x : buffers' = [buffers EXCEPT ![w] = [@ EXCEPT ![t] = x]]
          <6> DEFINE more == Append(buffers[w][t], p)
                     all == shards[t] \o more
                     e == <<>>
          <6>1. \/ /\ shards' = [shards EXCEPT ![t] = all]
                   /\ buffers' = [buffers EXCEPT ![w] = [@ EXCEPT ![t] = e]]
                \/ shards' = shards /\ buffers' = [buffers EXCEPT ![w] = [@ EXCEPT ![t] = more]]
            BY <2>1 DEF PushPair
          <6> HIDE DEF more, all, e
          <6> QED
            BY <6>1
        <5>2. shards \in [Shard -> Seq(Pair)] /\ buffers \in [Worker -> [Shard -> Seq(Pair)]]
          BY DEF TypeOK
        <5>3. shards'[s] = shards[s]
          BY <2>4, <5>1, <5>2
        <5>4. ASSUME NEW v \in Worker PROVE buffers'[v][s] = buffers[v][s]
          BY <2>4, <5>1, <5>2
        <5> QED
          BY <5>3, <5>4
      <4> QED
        BY <4>1 DEF BuffersOf
    <3>2. CameTo(s)' = c
      BY <2>3, <2>4 DEF CameTo
    <3> HIDE DEF q, b, c
    <3> QED
      BY <1>2, <2>2, <3>1, <3>2
  <2>5. CASE t = s
    <3> DEFINE more == Append(b[w], p)
               c2 == [c EXCEPT ![w] = @ \cup {p}]
               b2 == [b EXCEPT ![w] = more]
    <3>1. CameTo(s)' = c2
      <4> HIDE DEF p, t
      <4> QED
        BY <2>1, <2>3, <2>5 DEF CameTo
    <3>2. p \notin c[w] /\ p.line_id % NumThreads = w
      BY <2>1, <2>2, <2>31, <2>5 DEF CameTo
    <3>3. more \in Seq(Pair) /\ b2 \in [Worker -> Seq(Pair)]
      BY <1>3, <2>1, OneMore
    <3>4. c2 \in [Worker -> SUBSET Pair]
      BY <1>3, <2>1
    <3>5. \/ /\ shards'[s] = q \o more
             /\ BuffersOf(s)' = [b EXCEPT ![w] = <<>>]
          \/ shards'[s] = q /\ BuffersOf(s)' = b2
      <4>1. b[w] = buffers[w][s] /\ BuffersOf(s)' = [v \in Worker |-> buffers'[v][s]]
        BY DEF BuffersOf
      <4> HIDE DEF p, t
      <4>2. \/ /\ shards' = [shards EXCEPT ![s] = @ \o more]
               /\ buffers' = [buffers EXCEPT ![w] = [@ EXCEPT ![s] = <<>>]]
            \/ shards' = shards /\ buffers' = [buffers EXCEPT ![w] = [@ EXCEPT ![s] = more]]
        BY <2>1, <2>5, <4>1 DEF PushPair
      <4> HIDE DEF more
      <4>3. ASSUME NEW x, buffers' = [buffers EXCEPT ![w] = [@ EXCEPT ![s] = x]]
            PROVE  BuffersOf(s)' = [b EXCEPT ![w] = x]
        <5>1. \A v \in Worker : buffers'[v][s] = IF v = w THEN x ELSE buffers[v][s]
          BY <4>3 DEF TypeOK
        <5> QED
          BY <4>1, <5>1 DEF BuffersOf
      <4>4. CASE shards' = shards /\ buffers' = [buffers EXCEPT ![w] = [@ EXCEPT ![s] = more]]
        BY <4>3, <4>4
      <4>5. CASE /\ shards' = [shards EXCEPT ![s] = @ \o more]
                 /\ buffers' = [buffers EXCEPT ![w] = [@ EXCEPT ![s] = <<>>]]
        <5>1. shards'[s] = q \o more
          BY <4>5 DEF TypeOK
        <5> DEFINE e == <<>>
        <5>2. buffers' = [buffers EXCEPT ![w] = [@ EXCEPT ![s] = e]]
          BY <4>5
        <5> HIDE DEF e
        <5>3. BuffersOf(s)' = [b EXCEPT ![w] = e]
          BY <4>3, <5>2
        <5> QED
          BY <5>1, <5>3 DEF e
      <4> QED
        BY <4>2, <4>4, <4>5
    <3> HIDE DEF q, b, c, p, t, c2
    <3>6. Holds(s, q, b2, flushing, c2)
      BY <1>2, <1>3, <2>1, <2>2, <3>2, PairAdded DEF c2
    <3>7. CASE shards'[s] = q /\ BuffersOf(s)' = b2
      <4> HIDE DEF b2
      <4> QED
        BY <2>2, <3>1, <3>6, <3>7
    <3>8. CASE shards'[s] = q \o more /\ BuffersOf(s)' = [b EXCEPT ![w] = <<>>]
      <4> DEFINE b3 == [b EXCEPT ![w] = <<>>]
      <4>1. /\ b3 \in [Worker -> Seq(Pair)] /\ b3[w] = <<>> /\ b2[w] = more
            /\ \A v \in Worker : v # w => b3[v] = b2[v]
        <5> HIDE DEF more
        <5> QED
          BY <1>3
      <4> HIDE DEF b2, b3, more
      <4>2. Holds(s, q \o b2[w], b3, flushing, c2)
        BY <1>3, <2>2, <3>3, <3>4, <3>6, <4>1, BufferMoved
      <4> QED
        BY <2>2, <3>1, <3>8, <4>1, <4>2 DEF b3
    <3> QED
      BY <3>5, <3>7, <3>8
  <2> QED
    BY <2>4, <2>5
<1>8. CASE \A w \in Worker : ~PushGram(w) /\ ~Flush(w)
  <2>1. UNCHANGED <<shards, buffers, flushing>>
    BY <1>8 DEF Next, WorkerStep, Start, TakeLine, NextLine, LinesDone, Return,
                Finish, Stopped, vars, workerVars
  <2> QED
    BY <1>5, <1>8, <2>1
<1> QED
  BY <1>6, <1>7, <1>8

-----------------------------------------------------------------------------
(* A line is taken once: only TakeLine comes to a new one.                 *)
LEMMA TakenStep ==
  ASSUME TypeOK, Going, [Next]_vars, NEW i \in Nat
  PROVE  /\ (\A w \in Worker : ~TakeLine(w)) => (Taken(i)' <=> Taken(i))
         /\ \A w \in Worker : TakeLine(w) =>
              /\ Taken(i)' <=> Taken(i) \/ i = line[w]
              /\ ~Taken(line[w]) /\ line[w] \in 0 .. NumLines - 1
<1> DEFINE At(v) == i % NumThreads = v /\ (i < line[v] \/ (i = line[v] /\ pc[v] = "push"))
<1>0. /\ Taken(i) <=> \E v \in Worker : At(v)
      /\ Taken(i)' <=> \E v \in Worker : At(v)'
  BY DEF Taken
<1>1. /\ line \in [Worker -> Nat] /\ NumThreads \in Nat \ {0}
      /\ \A v \in Worker : line[v] % NumThreads = v
  BY Lines DEF TypeOK, Going
<1>2. ASSUME NEW w \in Worker, WorkerStep(w), NEW v \in Worker, v # w PROVE At(v)' <=> At(v)
  <2>1. line'[v] = line[v] /\ pc'[v] = pc[v]
    BY <1>2 DEF WorkerStep, Start, TakeLine, PushGram, NextLine, LinesDone, Flush, Return,
                Goto, TypeOK
  <2> QED
    BY <2>1
<1>3. ASSUME NEW w \in Worker, TakeLine(w)
      PROVE  /\ At(w)' <=> At(w) \/ i = line[w]
             /\ ~Taken(line[w]) /\ line[w] \in 0 .. NumLines - 1
  <2>1. line' = line /\ pc[w] = "line" /\ pc'[w] = "push" /\ line[w] < NumLines
    BY <1>3 DEF TakeLine, Goto, TypeOK
  <2>2. line[w] \in 0 .. NumLines - 1
    <3>1. NumLines \in Nat
      BY Lines DEF TypeOK
    <3> HIDE DEF NumLines
    <3> QED
      BY <1>1, <2>1, <3>1
  <2>3. ~Taken(line[w])
    BY <1>1, <2>1 DEF Taken
  <2> QED
    BY <1>1, <2>1, <2>2, <2>3
<1>4. ASSUME NEW w \in Worker, NextLine(w) PROVE At(w)' <=> At(w)
  <2>1. line'[w] = line[w] + NumThreads /\ pc[w] = "push" /\ pc'[w] = "line"
    BY <1>4, NoWrap DEF NextLine, Goto, TypeOK
  <2>2. line[w] \in Nat /\ line[w] % NumThreads = w
    BY <1>1
  <2>3. i % NumThreads = w => (i < line[w] + NumThreads <=> i <= line[w])
    BY <1>1, <2>2, NextOfWorker
  <2> QED
    BY <2>1, <2>2, <2>3
<1>5. ASSUME NEW w \in Worker, Start(w) \/ PushGram(w) \/ LinesDone(w) \/ Flush(w) \/ Return(w)
      PROVE  At(w)' <=> At(w)
  <2>1. line' = line /\ (pc'[w] = "push" <=> pc[w] = "push")
    BY <1>5 DEF Start, PushGram, LinesDone, Flush, Return, Goto, TypeOK
  <2> QED
    BY <2>1
<1>6. CASE Finish \/ UNCHANGED vars
  <2>1. line' = line /\ pc' = pc
    BY <1>6 DEF Finish, vars, workerVars
  <2>2. Taken(i)' <=> Taken(i)
    BY <2>1 DEF Taken
  <2>3. ASSUME NEW w \in Worker, TakeLine(w) PROVE FALSE
    BY <2>1, <2>3 DEF TakeLine, Goto, TypeOK
  <2> QED
    BY <2>2, <2>3
<1>7. ASSUME NEW w \in Worker, WorkerStep(w), ~TakeLine(w)
      PROVE  /\ Taken(i)' <=> Taken(i)
             /\ \A v \in Worker : ~TakeLine(v)
  <2>1. At(w)' <=> At(w)
    BY <1>4, <1>5, <1>7 DEF WorkerStep
  <2>2. \A v \in Worker : At(v)' <=> At(v)
    BY <1>2, <1>7, <2>1
  <2>3. ASSUME NEW v \in Worker, TakeLine(v) PROVE FALSE
    <3>1. v # w /\ pc[v] = "line" /\ pc'[v] = "push"
      BY <1>7, <2>3 DEF TakeLine, Goto, TypeOK
    <3>2. pc'[v] = pc[v]
      BY <1>7, <3>1 DEF WorkerStep, Start, TakeLine, PushGram, NextLine, LinesDone, Flush,
                        Return, Goto, TypeOK
    <3> QED
      BY <3>1, <3>2
  <2> HIDE DEF At
  <2> QED
    BY <1>0, <2>2, <2>3
<1>8. ASSUME NEW w \in Worker, WorkerStep(w), TakeLine(w)
      PROVE  /\ Taken(i)' <=> Taken(i) \/ i = line[w]
             /\ ~Taken(line[w]) /\ line[w] \in 0 .. NumLines - 1
  <2>1. \A v \in Worker : v # w => (At(v)' <=> At(v))
    BY <1>2, <1>8
  <2>2. At(w)' <=> At(w) \/ i = line[w]
    BY <1>3, <1>8
  <2> HIDE DEF At
  <2>3. Taken(i)' <=> Taken(i) \/ i = line[w]
    BY <1>0, <2>1, <2>2
  <2> QED
    BY <1>3, <1>8, <2>3
<1>9. ASSUME NEW w \in Worker, TakeLine(w), ~(Finish \/ UNCHANGED vars) PROVE WorkerStep(w)
  <2>1. PICK v \in Worker : WorkerStep(v)
    BY <1>9 DEF Next, Stopped
  <2>2. pc[w] = "line" /\ pc'[w] = "push"
    BY <1>9 DEF TakeLine, Goto, TypeOK
  <2>3. v # w => pc'[w] = pc[w]
    BY <2>1 DEF WorkerStep, Start, TakeLine, PushGram, NextLine, LinesDone, Flush,
                Return, Goto, TypeOK
  <2> QED
    BY <2>1, <2>2, <2>3
<1>10. CASE ~(Finish \/ UNCHANGED vars)
  <2>1. PICK v \in Worker : WorkerStep(v)
    BY <1>10 DEF Next, Stopped
  <2> QED
    BY <1>7, <1>8, <1>9, <1>10, <2>1
<1> QED
  BY <1>6, <1>10

(* The bar after one more quantum, from what it was before.                *)
LEMMA BarAdds ==
  ASSUME NEW b \in [{"total", "quantum", "next", "last", "done", "shown"} -> Nat],
         NEW k \in Nat, b.quantum # 0,
         b.done = Smaller(b.total, b.quantum * k), Drawn(b)
  PROVE  /\ Add(b, b.quantum).total = b.total /\ Add(b, b.quantum).quantum = b.quantum
         /\ Add(b, b.quantum).done = Smaller(b.total, b.quantum * (k + 1))
         /\ Drawn(Add(b, b.quantum))
<1> DEFINE a == Add(b, b.quantum)
           more == Smaller(b.done + b.quantum, b.total)
           far == Smaller(b.total, more + b.quantum)
           all == b.quantum * k
           all1 == b.quantum * (k + 1)
<1>0. /\ b.total \in Nat /\ b.quantum \in Nat \ {0} /\ b.next \in Nat /\ b.last \in Nat
      /\ b.done \in Nat
  OBVIOUS
<1>1. all1 = all + b.quantum /\ all \in Nat /\ b.done = Smaller(b.total, all)
  BY <1>0
<1>2. a = IF more <= b.last \/ (more < b.next /\ more < b.total)
          THEN [b EXCEPT !.done = more]
          ELSE [b EXCEPT !.done = more, !.last = more, !.shown = more, !.next = far]
  BY DEF Add
<1>3. far <= b.total /\ far <= more + b.quantum /\ more \in Nat
  BY <1>0 DEF Smaller
<1> HIDE DEF all, all1, a, far
<1>4. more = Smaller(b.total, all1) /\ b.done <= more /\ (more > b.done \/ more = b.total)
  <2> DEFINE t == b.total
             q == b.quantum
             d == b.done
  <2>1. t \in Nat /\ q \in Nat \ {0} /\ d \in Nat /\ all \in Nat /\ all1 = all + q /\ d = Smaller(t, all)
    BY <1>0, <1>1
  <2> HIDE DEF t, q, d
  <2>2. LET m == Smaller(d + q, t) IN m = Smaller(t, all1) /\ d <= m /\ (m > d \/ m = t)
    BY <2>1 DEF Smaller
  <2> QED
    BY <2>2 DEF t, q, d
<1> HIDE DEF more
<1>5. CASE more <= b.last \/ (more < b.next /\ more < b.total)
  <2>1. a = [b EXCEPT !.done = more]
    BY <1>2, <1>5
  <2>2. b.last <= more /\ (more = b.last \/ more < b.next)
    BY <1>0, <1>3, <1>4, <1>5 DEF Drawn
  <2>3. a.total = b.total /\ a.quantum = b.quantum /\ a.done = more /\ Drawn(a)
    BY <2>1, <2>2 DEF Drawn
  <2> QED
    BY <1>4, <2>3 DEF a, all1
<1>6. CASE ~(more <= b.last \/ (more < b.next /\ more < b.total))
  <2>1. a = [b EXCEPT !.done = more, !.last = more, !.shown = more, !.next = far]
    BY <1>2, <1>6
  <2>2. a.total = b.total /\ a.quantum = b.quantum /\ a.done = more /\ Drawn(a)
    BY <1>3, <2>1 DEF Drawn
  <2> QED
    BY <1>4, <2>2 DEF a, all1
<1> QED
  BY <1>5, <1>6

(* A step that takes a line at a multiple of the quantum adds one to the   *)
(* multiples taken and a quantum to the bar; the others change neither.    *)
LEMMA BarStep ==
  ASSUME TypeOK, Going, BarInStep, [Next]_vars
  PROVE  BarInStep'
<1>0. document' = document /\ NumLines' = NumLines /\ NumLines \in Nat \ {0}
  BY Lines DEF TypeOK, Next, WorkerStep, Start, TakeLine, PushGram, NextLine, LinesDone,
               Flush, Return, Finish, Stopped, vars, inputs, NumLines
<1> HIDE DEF NumLines
<1>1. IsFiniteSet(Quanta) /\ Cardinality(Quanta) \in Nat
  <2>1. IsFiniteSet(0 .. NumLines - 1)
    BY <1>0, FS_Interval
  <2>2. Quanta \in SUBSET (0 .. NumLines - 1)
    BY DEF Quanta
  <2> QED
    BY <2>1, <2>2, FS_Subset, FS_CardinalityType
<1>2. ASSUME \A w \in Worker : ~TakeLine(w), bar'.quantum = bar.quantum PROVE Quanta' = Quanta
  <2>1. \A i \in 0 .. NumLines - 1 : Taken(i)' <=> Taken(i)
    BY <1>0, <1>2, TakenStep
  <2> QED
    BY <1>0, <1>2, <2>1 DEF Quanta
<1>3. ASSUME UNCHANGED <<bar, joined>>, joined => AllDone', \A w \in Worker : ~TakeLine(w)
      PROVE  BarInStep'
  <2>1. Quanta' = Quanta
    BY <1>2, <1>3
  <2> QED
    BY <1>0, <1>3, <2>1 DEF BarInStep
<1>4. ASSUME joined PROVE AllDone' /\ bar' = bar /\ joined'
  <2>1. \A w \in Worker : pc[w] = "done"
    BY <1>4 DEF BarInStep, AllDone
  <2>2. ~Finish /\ \A w \in Worker : ~WorkerStep(w)
    BY <1>4, <2>1 DEF Finish, WorkerStep, Start, TakeLine, PushGram, NextLine, LinesDone, Flush, Return
  <2> QED
    BY <1>4, <2>1, <2>2 DEF Next, Stopped, vars, workerVars, mainVars, AllDone
<1>5. ASSUME NEW w \in Worker, TakeLine(w) PROVE BarInStep'
  <2> DEFINE i == line[w]
             k == Cardinality(Quanta)
  <2>1. ~joined /\ joined' = joined
    BY <1>5 DEF TakeLine, BarInStep, AllDone
  <2>2. /\ i \in 0 .. NumLines - 1 /\ ~Taken(i)
        /\ \A l \in 0 .. NumLines - 1 : Taken(l)' <=> Taken(l) \/ l = i
    BY <1>0, <1>5, TakenStep
  <2>3. /\ bar.total = NumLines + 1 /\ bar.quantum \in 1 .. bar.total
        /\ bar.done = Smaller(bar.total, bar.quantum * k) /\ Drawn(bar)
    BY <2>1 DEF BarInStep
  <2>4. bar \in [{"total", "quantum", "next", "last", "done", "shown"} -> Nat]
        /\ bar.quantum \in Nat \ {0}
    BY <1>0, <2>3 DEF TypeOK
  <2>5. bar' = IF i % bar.quantum = 0 THEN Add(bar, bar.quantum) ELSE bar
    BY <1>5 DEF TakeLine
  <2>6. CASE i % bar.quantum = 0
    <3>1. /\ bar'.total = bar.total /\ bar'.quantum = bar.quantum
          /\ bar'.done = Smaller(bar.total, bar.quantum * (k + 1)) /\ Drawn(bar)'
      <4>1. k \in Nat
        BY <1>1
      <4> DEFINE b == bar
      <4>2. /\ b \in [{"total", "quantum", "next", "last", "done", "shown"} -> Nat]
            /\ b.quantum # 0 /\ b.done = Smaller(b.total, b.quantum * k) /\ Drawn(b)
        BY <2>3, <2>4
      <4> HIDE DEF k, b
      <4>3. /\ Add(b, b.quantum).total = b.total /\ Add(b, b.quantum).quantum = b.quantum
            /\ Add(b, b.quantum).done = Smaller(b.total, b.quantum * (k + 1))
            /\ Drawn(Add(b, b.quantum))
        BY <4>1, <4>2, BarAdds
      <4>4. bar' = Add(b, b.quantum)
        BY <2>5, <2>6 DEF b
      <4>5. Drawn(bar')
        BY <4>3, <4>4
      <4> QED
        BY <4>3, <4>4, <4>5 DEF b, Drawn
    <3>2. Quanta' = Quanta \cup {i} /\ i \notin Quanta
      BY <1>0, <2>2, <2>6, <3>1 DEF Quanta
    <3>3. Cardinality(Quanta') = k + 1
      BY <1>1, <3>2, FS_AddElement
    <3> QED
      BY <1>0, <2>1, <2>3, <3>1, <3>3 DEF BarInStep
  <2>7. CASE i % bar.quantum # 0
    <3>1. bar' = bar
      BY <2>5, <2>7
    <3>2. Quanta' = Quanta
      BY <1>0, <2>2, <2>7, <3>1 DEF Quanta
    <3> QED
      BY <1>0, <2>1, <3>1, <3>2 DEF BarInStep
  <2> QED
    BY <2>6, <2>7
<1>6. CASE Finish
  <2>1. /\ AllDone /\ pc' = pc /\ ~joined /\ joined' = TRUE
        /\ bar' = FinishBar(bar)
    BY <1>6 DEF Finish, workerVars
  <2>2. AllDone' /\ \A w \in Worker : ~TakeLine(w)
    BY <2>1 DEF AllDone, TakeLine
  <2>3. bar \in [{"total", "quantum", "next", "last", "done", "shown"} -> 0 .. NumLines + 1]
    BY DEF TypeOK
  <2>4. /\ bar'.total = bar.total /\ bar'.quantum = bar.quantum /\ bar'.done = bar.done
        /\ bar'.shown = bar.total
    BY <2>1, <2>3 DEF FinishBar, BarInStep, Drawn
  <2>5. Quanta' = Quanta
    BY <1>2, <2>2, <2>4
  <2> QED
    BY <1>0, <2>1, <2>2, <2>4, <2>5 DEF BarInStep
<1>7. CASE ~Finish /\ \A w \in Worker : ~TakeLine(w)
  <2>1. UNCHANGED <<bar, joined>>
    BY <1>7 DEF Next, WorkerStep, Start, PushGram, NextLine, LinesDone, Flush, Return,
                Stopped, vars, mainVars
  <2> QED
    BY <1>3, <1>4, <1>7, <2>1
<1> QED
  BY <1>5, <1>6, <1>7

-----------------------------------------------------------------------------
(* At the start nothing is pushed and no line is taken.                    *)
LEMMA CreateInvInit ==
  Init => CreateInv
<1> SUFFICES ASSUME Init PROVE CreateInv
  OBVIOUS
<1>0. /\ NumThreads \in Nat \ {0} /\ NumShards \in Nat \ {0} /\ NumLines \in Nat \ {0}
      /\ BufferSize \in Nat /\ Renders \in Nat \ {0}
  BY Lines, CreateShardsAssumption, ProgressAssumption DEF Init
<1>1. /\ document \in Documents /\ longest_line \in LongestLines
      /\ shards = [s \in Shard |-> <<>>]
      /\ pc = [w \in Worker |-> "start"] /\ line = [w \in Worker |-> w]
      /\ grams = [w \in Worker |-> <<>>]
      /\ buffers = [w \in Worker |-> [s \in Shard |-> <<>>]]
      /\ flushing = [w \in Worker |-> 0]
      /\ joined = FALSE /\ terminated = FALSE /\ bar = NewBar(NumLines + 1)
  BY DEF Init, NotBegun
<1> HIDE DEF NumLines
<1>2. ASSUME NEW i \in Nat, NEW w \in Worker, i % NumThreads = w PROVE ~(i < line[w])
  <2>1. /\ i \div NumThreads \in Nat
        /\ i = (i \div NumThreads) * NumThreads + (i % NumThreads)
    BY <1>0, Quotient
  <2>2. (i \div NumThreads) * NumThreads \in Nat
    BY <1>0, <2>1
  <2>3. line[w] = w /\ w \in Nat
    BY <1>0, <1>1 DEF Worker
  <2> QED
    BY <1>2, <2>1, <2>2, <2>3
<1>3. bar.quantum \in 1 .. NumLines + 1
  <2> DEFINE n == NumLines + 1
             q == n \div Renders
  <2>1. n \in Nat /\ n >= 1
    BY <1>0
  <2>2. q \in Nat /\ q <= n
    <3>1. q \in Nat /\ n % Renders \in Nat /\ n = q * Renders + (n % Renders)
      <4> HIDE DEF n
      <4> QED
        BY <1>0, <2>1, Quotient
    <3> DEFINE r == n % Renders
    <3> HIDE DEF q, n, r
    <3>2. q * Renders >= q
      BY <1>0, <3>1
    <3>3. q * Renders \in Nat /\ r \in Nat /\ n = q * Renders + r
      BY <1>0, <3>1 DEF r
    <3> QED
      BY <3>1, <3>2, <3>3
  <2>3. bar.quantum = Larger(q, 1)
    BY <1>1 DEF NewBar
  <2> HIDE DEF q
  <2> QED
    BY <1>0, <2>2, <2>3 DEF Larger
<1>4. TypeOK
  <2>1. bar \in [{"total", "quantum", "next", "last", "done", "shown"} -> 0 .. NumLines + 1]
    <3>1. bar = [total |-> NumLines + 1, quantum |-> bar.quantum,
                 next |-> 0, last |-> 0, done |-> 0, shown |-> 0]
      BY <1>1 DEF NewBar
    <3>2. bar.quantum \in 0 .. NumLines + 1 /\ NumLines + 1 \in 0 .. NumLines + 1
          /\ 0 \in 0 .. NumLines + 1
      BY <1>0, <1>3
    <3> DEFINE q == bar.quantum
    <3> HIDE DEF q
    <3>3. bar = [total |-> NumLines + 1, quantum |-> q,
                 next |-> 0, last |-> 0, done |-> 0, shown |-> 0]
      BY <3>1 DEF q
    <3>4. q \in 0 .. NumLines + 1
      BY <3>2 DEF q
    <3> QED
      BY <3>2, <3>3, <3>4
  <2>2. /\ line \in [Worker -> Nat] /\ flushing \in [Worker -> 0 .. NumShards]
    BY <1>0, <1>1 DEF Worker
  <2>3. /\ shards \in [Shard -> Seq(Pair)] /\ grams \in [Worker -> Seq(Gram)]
        /\ buffers \in [Worker -> [Shard -> Seq(Pair)]]
    BY <1>1
  <2>4. \A w \in Worker, s \in Shard : Len(buffers[w][s]) <= BufferSize
    BY <1>0, <1>1
  <2> QED
    BY <1>1, <2>1, <2>2, <2>3, <2>4 DEF TypeOK
<1>5. Going
  <2>1. \A w \in Worker : w % NumThreads = w
    BY <1>0 DEF Worker
  <2> QED
    BY <1>1, <2>1 DEF Going
<1>6. Distributed
  <2>1. SUFFICES ASSUME NEW s \in Shard
                 PROVE  Holds(s, shards[s], BuffersOf(s), flushing, CameTo(s))
    BY DEF Distributed
  <2>2. \A w \in Worker : CameTo(s)[w] = {}
    <3>1. ASSUME NEW w \in Worker, NEW p \in Pair, Handled(w, s, p) PROVE FALSE
      <4>1. p.line_id \in Nat
        BY ShardDataAssumption DEF Pair, LineId
      <4>2. pc[w] # "push"
        BY <1>1
      <4> QED
        BY <1>2, <3>1, <4>1, <4>2 DEF Handled
    <3> QED
      BY <3>1 DEF CameTo
  <2>3. shards[s] = <<>> /\ \A w \in Worker : BuffersOf(s)[w] = <<>>
    BY <1>1 DEF BuffersOf
  <2>4. IsInjective(<<>>) /\ Range(<<>>) = {}
    BY DEF IsInjective, Range
  <2>5. IsInjective(shards[s]) /\ Range(shards[s]) = {}
    BY <2>3, <2>4
  <2>6. \A w \in Worker : IsInjective(BuffersOf(s)[w]) /\ Range(BuffersOf(s)[w]) = {}
    BY <2>3, <2>4
  <2> QED
    BY <2>2, <2>5, <2>6 DEF Holds
<1>7. BarInStep
  <2>1. Quanta = {}
    <3>1. ASSUME NEW i \in 0 .. NumLines - 1, Taken(i) PROVE FALSE
      <4>1. i \in Nat /\ \A w \in Worker : pc[w] # "push"
        BY <1>0, <1>1
      <4> QED
        BY <1>2, <3>1, <4>1 DEF Taken
    <3> QED
      BY <3>1 DEF Quanta
  <2>2. Cardinality(Quanta) = 0
    BY <2>1, FS_EmptySet
  <2>3. /\ bar.total = NumLines + 1 /\ bar.next = 0 /\ bar.last = 0 /\ bar.done = 0
        /\ bar.shown = 0
    BY <1>1 DEF NewBar
  <2>4. bar.quantum * Cardinality(Quanta) = 0
    BY <1>3, <2>2
  <2>5. bar.done = Smaller(bar.total, bar.quantum * Cardinality(Quanta))
    BY <1>0, <2>3, <2>4 DEF Smaller
  <2>6. Drawn(bar)
    BY <1>0, <1>3, <2>3 DEF Drawn
  <2> QED
    BY <1>0, <1>1, <1>3, <2>3, <2>5, <2>6 DEF BarInStep
<1> QED
  BY <1>4, <1>5, <1>6, <1>7 DEF CreateInv

(* Every step keeps the invariant.                                         *)
LEMMA CreateInvStep == CreateInv /\ [Next]_vars => CreateInv'
BY CreateTypesStep, GoingStep, DistributedStep, BarStep DEF CreateInv

(* A pair that a worker came to is in its shard or in the worker's buffer. *)
LEMMA CreateInvConserved == CreateInv => Conserved
<1>1. SUFFICES ASSUME CreateInv, NEW s \in Shard, NEW p \in Pair
               PROVE  Occurrences(p, shards[s]) + SumFunction([w \in Worker |-> InBuffer(w, s, p)])
                        = Cardinality({ w \in Worker : Handled(w, s, p) })
  BY DEF Conserved
<1> DEFINE v == p.line_id % NumThreads
           in == [w \in Worker |-> InBuffer(w, s, p)]
           came == { w \in Worker : Handled(w, s, p) }
<1>2. /\ NumThreads \in Nat \ {0} /\ p.line_id \in Nat /\ v \in Worker
  <2>1. NumThreads \in Nat \ {0}
    BY CreateShardsAssumption
  <2>2. p.line_id \in Nat
    BY ShardDataAssumption DEF Pair, LineId
  <2> QED
    BY <2>1, <2>2 DEF Worker
<1>3. /\ shards[s] \in Seq(Pair) /\ \A w \in Worker : buffers[w][s] \in Seq(Pair)
      /\ s \in Nat /\ \A w \in Worker : flushing[w] \in Nat
  BY <1>1, ShardDataAssumption DEF CreateInv, TypeOK, Shard
<1>4. /\ IsInjective(shards[s])
      /\ p \in Range(shards[s]) => Handled(v, s, p)
      /\ \A w \in Worker :
           /\ flushing[w] <= s => /\ IsInjective(buffers[w][s])
                                  /\ p \in Range(buffers[w][s]) => Handled(w, s, p) /\ p \notin Range(shards[s])
           /\ Handled(w, s, p) =>
                w = v /\ (p \in Range(shards[s]) \/ (flushing[w] <= s /\ p \in Range(buffers[w][s])))
  <2>1. Holds(s, shards[s], BuffersOf(s), flushing, CameTo(s))
    BY <1>1 DEF CreateInv, Distributed
  <2>2. \A w \in Worker : /\ BuffersOf(s)[w] = buffers[w][s]
                          /\ p \in CameTo(s)[w] <=> Handled(w, s, p)
    BY DEF BuffersOf, CameTo
  <2> HIDE DEF v
  <2>3. \A w \in Worker : Handled(w, s, p) => w = v
    BY DEF Handled, v
  <2>4. IsInjective(shards[s]) /\ (p \in Range(shards[s]) => Handled(v, s, p))
    BY <1>2, <2>1, <2>2 DEF Holds, v
  <2> QED
    BY <2>1, <2>2, <2>3, <2>4 DEF Holds
<1> HIDE DEF v
<1>5. Occurrences(p, shards[s]) = IF p \in Range(shards[s]) THEN 1 ELSE 0
  BY <1>3, <1>4, Once
<1>6. ASSUME NEW w \in Worker
      PROVE  in[w] = IF flushing[w] <= s /\ p \in Range(buffers[w][s]) THEN 1 ELSE 0
  <2>1. CASE flushing[w] > s
    BY <1>3, <2>1 DEF InBuffer
  <2>2. CASE flushing[w] <= s
    BY <1>3, <1>4, <2>2, Once DEF InBuffer
  <2> QED
    BY <1>3, <2>1, <2>2
<1>7. SumFunction(in) = in[v]
  <2>1. in \in [Worker -> Nat]
    BY <1>6
  <2>2. \A w \in Worker : w # v => in[w] = 0
    BY <1>4, <1>6
  <2>3. IsFiniteSet(Worker)
    <3>1. NumThreads - 1 \in Int
      BY <1>2
    <3> QED
      BY <3>1, FS_Interval DEF Worker
  <2> HIDE DEF in
  <2> QED
    BY <1>2, <2>1, <2>2, <2>3, SumOfOne
<1>8. CASE Handled(v, s, p)
  <2>1. came = {v}
    BY <1>2, <1>4, <1>8
  <2>2. Cardinality(came) = 1
    BY <2>1, FS_Singleton
  <2>3. Occurrences(p, shards[s]) + in[v] = 1
    BY <1>2, <1>4, <1>5, <1>6, <1>8
  <2> QED
    BY <1>7, <2>2, <2>3
<1>9. CASE ~Handled(v, s, p)
  <2>1. came = {}
    BY <1>4, <1>9
  <2>2. Cardinality(came) = 0
    BY <2>1, FS_EmptySet
  <2>3. Occurrences(p, shards[s]) + in[v] = 0
    BY <1>2, <1>4, <1>5, <1>6, <1>9
  <2> QED
    BY <1>7, <2>2, <2>3
<1> QED
  BY <1>8, <1>9

(* When the workers are done, the buffers are empty.                       *)
LEMMA CreateInvFills == CreateInv => Filled
<1>1. SUFFICES ASSUME CreateInv, AllDone, NEW s \in Shard
               PROVE  IsInjective(shards[s]) /\ Range(shards[s]) = { p \in Pair : Belongs(s, p) }
  BY DEF Filled
<1>2. Holds(s, shards[s], BuffersOf(s), flushing, CameTo(s))
  BY <1>1 DEF CreateInv, Distributed
<1>3. NumThreads \in Nat \ {0} /\ NumLines \in Nat /\ DOMAIN document = 1 .. NumLines
  BY <1>1, Lines DEF CreateInv, TypeOK
<1>4. \A w \in Worker : line[w] >= NumLines /\ flushing[w] = NumShards /\ line[w] \in Nat
  BY <1>1 DEF CreateInv, TypeOK, Going, AllDone
<1>5. \A w \in Worker : ~(flushing[w] <= s)
  BY <1>4, ShardDataAssumption DEF Shard
<1> HIDE DEF NumLines
<1>6. ASSUME NEW p \in Pair
      PROVE  /\ p.line_id % NumThreads \in Worker
             /\ Handled(p.line_id % NumThreads, s, p) <=> Belongs(s, p)
  <2>1. p.line_id \in Nat
    BY ShardDataAssumption DEF Pair, LineId
  <2>2. p.line_id % NumThreads \in Worker
    BY <1>3, <2>1 DEF Worker
  <2>3. Belongs(s, p) => p.line_id < NumLines
    BY <1>3, <2>1 DEF Belongs
  <2>4. Belongs(s, p) => p.line_id < line[p.line_id % NumThreads]
    BY <1>3, <1>4, <2>1, <2>2, <2>3
  <2> QED
    BY <2>2, <2>4 DEF Handled
<1>7. shards[s] \in Seq(Pair)
  BY <1>1 DEF CreateInv, TypeOK
<1>8. Range(shards[s]) \subseteq Pair
  BY <1>7 DEF Range
<1>9. ASSUME NEW p \in Pair
      PROVE  p \in Range(shards[s]) <=> p \in CameTo(s)[p.line_id % NumThreads]
  BY <1>2, <1>5, <1>6 DEF Holds
<1>10. ASSUME NEW p \in Pair
       PROVE  p \in CameTo(s)[p.line_id % NumThreads] <=> Belongs(s, p)
  BY <1>6 DEF CameTo
<1> QED
  BY <1>2, <1>8, <1>9, <1>10 DEF Holds

(* The bar has drawn what it counted.                                      *)
LEMMA CreateInvCounts == CreateInv => BarCounts
<1>1. SUFFICES ASSUME CreateInv PROVE BarCounts
  OBVIOUS
<1>2. NumLines \in Nat \ {0}
  BY <1>1, Lines DEF CreateInv, TypeOK
<1>3. bar \in [{"total", "quantum", "next", "last", "done", "shown"} -> Nat]
  BY <1>1, <1>2 DEF CreateInv, TypeOK
<1>4. bar.done = Smaller(bar.total, bar.quantum * Cardinality(Quanta)) /\ bar.quantum >= 1
  BY <1>1, <1>2 DEF CreateInv, BarInStep
<1>5. ~joined => bar.shown <= bar.done /\ bar.done - bar.shown < bar.quantum
  BY <1>1, <1>3, <1>4 DEF CreateInv, BarInStep, Drawn
<1>6. joined => bar.shown = bar.total
  BY <1>1 DEF CreateInv, BarInStep
<1> QED
  BY <1>4, <1>5, <1>6 DEF BarCounts, Quanta

(***************************************************************************)
(* The inductive invariant holds in every execution, for any number of     *)
(* threads and shards, any size of the buffers and any text.               *)
(***************************************************************************)
THEOREM CreateInvariant ==
  Spec => []CreateInv
BY CreateInvInit, CreateInvStep, PTL DEF Spec

(* Every variable has its type: no buffer outgrows its limit and no worker *)
(* flushes a shard that is not there.                                      *)
THEOREM CreateTypeOK ==
  Spec => []TypeOK
<1>1. CreateInv => TypeOK
  BY DEF CreateInv
<1> QED
  BY <1>1, CreateInvariant, PTL

(***************************************************************************)
(* No pair is lost, doubled or put in the wrong shard: each that a worker  *)
(* has come past is once in its shard or in that worker's buffer.          *)
(***************************************************************************)
THEOREM PairsConserved ==
  Spec => []Conserved
BY CreateInvConserved, CreateInvariant, PTL

(***************************************************************************)
(* When the workers are done every shard holds each of its pairs exactly   *)
(* once, whatever their order: what process_shards starts from.            *)
(***************************************************************************)
THEOREM ShardsFilled ==
  Spec => []Filled
BY CreateInvFills, CreateInvariant, PTL

(* The bar shows what the threads have done, in whatever order they do it. *)
THEOREM BarCountsLines ==
  Spec => []BarCounts
BY CreateInvCounts, CreateInvariant, PTL

-----------------------------------------------------------------------------
(***************************************************************************)
(* Sets in ascending order.                                                *)
(***************************************************************************)

(* TrigramIndex counts elements as the other modules do.                   *)
LEMMA SameCardinality == \A S : Index!Cardinality(S) = Cardinality(S)
BY DEF Index!Cardinality, Cardinality

(* The first n elements of an ascending sequence are n.                    *)
LEMMA FirstElements ==
  ASSUME NEW q \in Seq(Nat), StrictlyAscending(q), NEW n \in 0 .. Len(q)
  PROVE  /\ IsFiniteSet({ q[k] : k \in 1 .. n })
         /\ Cardinality({ q[k] : k \in 1 .. n }) = n
<1> DEFINE S == { q[k] : k \in 1 .. n }
           f == [k \in 1 .. n |-> q[k]]
<1>0. Len(q) \in Nat /\ DOMAIN q = 1 .. Len(q) /\ n \in Nat /\ n <= Len(q)
  OBVIOUS
<1>1. f \in [1 .. n -> S] /\ \A s \in S : \E k \in 1 .. n : f[k] = s
  OBVIOUS
<1>2. ASSUME NEW j \in 1 .. n, NEW k \in 1 .. n, f[j] = f[k] PROVE j = k
  <2>1. j \in DOMAIN q /\ k \in DOMAIN q /\ q[j] \in Nat /\ q[k] \in Nat /\ q[j] = q[k]
    BY <1>0, <1>2
  <2>2. j \in Int /\ k \in Int
    OBVIOUS
  <2> QED
    BY <2>1, <2>2 DEF StrictlyAscending
<1> HIDE DEF f, S
<1>3. f \in Bijection(1 .. n, S)
  BY <1>1, <1>2 DEF Bijection, Injection, Surjection, IsInjective
<1>4. ExistsBijection(1 .. n, S)
  BY <1>3 DEF ExistsBijection
<1>5. IsFiniteSet(1 .. n)
  BY <1>0, FS_Interval
<1> QED
  BY <1>0, <1>4, <1>5, FS_Bijection, FS_CountingElements DEF S

(* The n-th element of an ascending sequence has n - 1 of the others below *)
(* it, and no other one has.                                               *)
LEMMA ElementsBelow ==
  ASSUME NEW q \in Seq(Nat), StrictlyAscending(q), NEW n \in 1 .. Len(q)
  PROVE  Cardinality({ y \in Range(q) : y < q[n] }) = n - 1
<1>0. Len(q) \in Nat /\ DOMAIN q = 1 .. Len(q) /\ \A k \in 1 .. Len(q) : q[k] \in Nat
  OBVIOUS
<1>1. n - 1 \in 0 .. Len(q)
  BY <1>0
<1>2. \A k \in 1 .. Len(q) : q[k] < q[n] <=> k \in 1 .. n - 1
  <2> SUFFICES ASSUME NEW k \in 1 .. Len(q) PROVE q[k] < q[n] <=> k \in 1 .. n - 1
    OBVIOUS
  <2>1. k < n => q[k] < q[n]
    BY <1>0 DEF StrictlyAscending
  <2>2. n < k => q[n] < q[k]
    BY <1>0 DEF StrictlyAscending
  <2> QED
    BY <1>0, <2>1, <2>2
<1>3. { y \in Range(q) : y < q[n] } = { q[k] : k \in 1 .. n - 1 }
  <2>1. \A k \in 1 .. n - 1 : k \in 1 .. Len(q)
    BY <1>0
  <2> QED
    BY <1>0, <1>2, <2>1 DEF Range
<1> QED
  BY <1>1, <1>3, FirstElements

(* An ascending sequence is the only one that has its elements.            *)
LEMMA AscendingIs ==
  ASSUME NEW q \in Seq(Nat), StrictlyAscending(q)
  PROVE  Index!Ascending(Range(q)) = q
<1> DEFINE S == Range(q)
           Below(x) == Index!Cardinality({ y \in S : y < x })
<1>0. Len(q) \in Nat /\ DOMAIN q = 1 .. Len(q) /\ \A k \in 1 .. Len(q) : q[k] \in Nat
  OBVIOUS
<1>1. Cardinality(S) = Len(q)
  <2>1. S = { q[k] : k \in 1 .. Len(q) }
    BY <1>0 DEF Range
  <2>2. Len(q) \in 0 .. Len(q)
    BY <1>0
  <2> QED
    BY <2>1, <2>2, FirstElements
<1>2. ASSUME NEW n \in 1 .. Len(q) PROVE (CHOOSE x \in S : Below(x) = n - 1) = q[n]
  <2>1. \A k \in 1 .. Len(q) : Below(q[k]) = k - 1
    BY ElementsBelow, SameCardinality
  <2>2. q[n] \in S
    BY <1>0 DEF Range
  <2>3. ASSUME NEW x \in S, Below(x) = n - 1 PROVE x = q[n]
    <3>1. PICK k \in 1 .. Len(q) : x = q[k]
      BY <1>0 DEF Range
    <3>2. k - 1 = n - 1
      BY <2>1, <2>3, <3>1
    <3>3. k = n
      BY <1>0, <3>2
    <3> QED
      BY <3>1, <3>3
  <2> HIDE DEF Below, S
  <2> QED
    BY <2>1, <2>2, <2>3
<1>3. Index!Ascending(S) = [n \in 1 .. Len(q) |-> CHOOSE x \in S : Below(x) = n - 1]
  <2>1. Index!Ascending(S) = [n \in 1 .. Index!Cardinality(S) |-> CHOOSE x \in S : Below(x) = n - 1]
    BY DEF Index!Ascending
  <2> HIDE DEF Below, S
  <2> QED
    BY <1>1, <2>1, SameCardinality
<1>4. [n \in 1 .. Len(q) |-> CHOOSE x \in S : Below(x) = n - 1] = [n \in 1 .. Len(q) |-> q[n]]
  <2> HIDE DEF Below, S
  <2> QED
    BY <1>2
<1>5. q = [n \in 1 .. Len(q) |-> q[n]]
  BY <1>0
<1> QED
  BY <1>3, <1>4, <1>5

(* Each set of numbers below a bound has an ascending sequence.            *)
LEMMA AscendingExists ==
  ASSUME NEW m \in Nat, NEW S \in SUBSET (0 .. m - 1)
  PROVE  \E q \in Seq(Nat) : StrictlyAscending(q) /\ Range(q) = S
<1> DEFINE Listed(T) == \E q \in Seq(Nat) : StrictlyAscending(q) /\ Range(q) = T
           Bad == { n \in Nat : \E T \in SUBSET (0 .. n - 1) : ~Listed(T) }
<1>1. SUFFICES ASSUME Bad # {} PROVE FALSE
  OBVIOUS
<1>2. PICK n \in Bad : \A k \in Bad : n <= k
  <2>1. Bad \in SUBSET Nat
    OBVIOUS
  <2> HIDE DEF Bad
  <2> QED
    BY <1>1, <2>1, Least
<1>3. PICK T \in SUBSET (0 .. n - 1) : ~Listed(T)
  BY <1>2
<1>4. CASE n = 0
  <2>1. T = {} /\ <<>> \in Seq(Nat) /\ StrictlyAscending(<<>>) /\ Range(<<>>) = {}
    BY <1>4 DEF StrictlyAscending, Range
  <2> QED
    BY <1>3, <2>1
<1>5. CASE n # 0
  <2>1. n \in Nat /\ n - 1 \in Nat /\ ~(n <= n - 1)
    BY <1>5
  <2>2. n - 1 \notin Bad
    <3> HIDE DEF Bad
    <3> QED
      BY <1>2, <2>1
  <2> DEFINE U == T \ {n - 1}
  <2>3. U \in SUBSET (0 .. (n - 1) - 1)
    BY <2>1
  <2>4. PICK q \in Seq(Nat) : StrictlyAscending(q) /\ Range(q) = U
    BY <2>1, <2>2, <2>3
  <2>5. CASE n - 1 \notin T
    BY <1>3, <2>4, <2>5
  <2>6. CASE n - 1 \in T
    <3> DEFINE r == Append(q, n - 1)
    <3>0. Len(q) \in Nat /\ DOMAIN q = 1 .. Len(q) /\ \A k \in 1 .. Len(q) : q[k] \in Nat
      OBVIOUS
    <3>1. /\ r \in Seq(Nat) /\ Len(r) = Len(q) + 1 /\ DOMAIN r = 1 .. Len(q) + 1
          /\ r[Len(q) + 1] = n - 1 /\ \A k \in 1 .. Len(q) : r[k] = q[k]
      BY <2>1
    <3>2. \A k \in 1 .. Len(q) : q[k] < n - 1
      <4>1. \A k \in 1 .. Len(q) : q[k] \in U
        BY <2>4, <3>0 DEF Range
      <4> QED
        BY <2>1, <2>3, <4>1
    <3> HIDE DEF r
    <3>3. StrictlyAscending(r)
      <4> SUFFICES ASSUME NEW j \in 1 .. Len(q) + 1, NEW k \in 1 .. Len(q) + 1, j < k
                   PROVE  r[j] < r[k]
        BY <3>1 DEF StrictlyAscending
      <4>1. j \in 1 .. Len(q)
        BY <3>0
      <4>2. CASE k = Len(q) + 1
        BY <3>1, <3>2, <4>1, <4>2
      <4>3. CASE k # Len(q) + 1
        <5>1. k \in 1 .. Len(q)
          BY <3>0, <4>3
        <5>2. q[j] < q[k]
          BY <2>4, <3>0, <4>1, <5>1 DEF StrictlyAscending
        <5> QED
          BY <3>1, <4>1, <5>1, <5>2
      <4> QED
        BY <4>2, <4>3
    <3>4. Range(r) = T
      <4>1. Range(r) = { r[k] : k \in 1 .. Len(q) + 1 } /\ Range(q) = { q[k] : k \in 1 .. Len(q) }
        BY <3>0, <3>1 DEF Range
      <4>2. \A k \in 1 .. Len(q) + 1 : k = Len(q) + 1 \/ k \in 1 .. Len(q)
        BY <3>0
      <4>3. (\A k \in 1 .. Len(q) : k \in 1 .. Len(q) + 1) /\ Len(q) + 1 \in 1 .. Len(q) + 1
        BY <3>0
      <4>4. Range(r) = U \cup {n - 1}
        <5>1. \A x \in Range(r) : x \in U \cup {n - 1}
          BY <2>4, <3>1, <4>1, <4>2
        <5>2. \A x \in U : x \in Range(r)
          BY <2>4, <3>1, <4>1, <4>3
        <5>3. n - 1 \in Range(r)
          BY <3>1, <4>1, <4>3
        <5> HIDE DEF U
        <5> QED
          BY <5>1, <5>2, <5>3
      <4> QED
        BY <2>6, <4>4
    <3> QED
      BY <1>3, <3>1, <3>3, <3>4
  <2> QED
    BY <2>5, <2>6
<1> QED
  BY <1>4, <1>5

(* Ascending lists every element of a bounded set in ascending order.      *)
LEMMA AscendingLists ==
  ASSUME NEW m \in Nat, NEW S \in SUBSET (0 .. m - 1)
  PROVE  LET q == Index!Ascending(S)
         IN  /\ q \in Seq(Nat) /\ StrictlyAscending(q) /\ Range(q) = S
             /\ IsFiniteSet(S) /\ Len(q) = Cardinality(S) /\ Len(q) \in Nat
             /\ DOMAIN q = 1 .. Len(q) /\ \A n \in 1 .. Len(q) : q[n] \in S
<1>1. PICK q \in Seq(Nat) : StrictlyAscending(q) /\ Range(q) = S
  BY AscendingExists
<1>2. Index!Ascending(S) = q
  BY <1>1, AscendingIs
<1>3. Len(q) \in Nat /\ DOMAIN q = 1 .. Len(q) /\ Len(q) \in 0 .. Len(q)
  OBVIOUS
<1>4. S = { q[k] : k \in 1 .. Len(q) }
  BY <1>1, <1>3 DEF Range
<1>5. IsFiniteSet(S) /\ Cardinality(S) = Len(q)
  BY <1>1, <1>3, <1>4, FirstElements
<1> QED
  BY <1>1, <1>2, <1>3, <1>4, <1>5

-----------------------------------------------------------------------------
(***************************************************************************)
(* A file that is made of stretches.                                       *)
(***************************************************************************)

(* The sequences s are in q one after the other, from the places at on.    *)
InPlace(s, q, at) ==
  /\ at \in [1 .. Len(s) + 1 -> Nat] /\ at[1] = 0 /\ at[Len(s) + 1] = Len(q)
  /\ \A k \in 1 .. Len(s) : at[k + 1] = at[k] + Len(s[k])
  /\ \A k \in 1 .. Len(s) : \A i \in 1 .. Len(s[k]) : q[at[k] + i] = s[k][i]

(* Sequences joined are the sequence that has each of them in its place.   *)
LEMMA FlattenIs ==
  ASSUME NEW S, NEW s \in Seq(Seq(S)), NEW q \in Seq(S), NEW at, InPlace(s, q, at)
  PROVE  FlattenSeq(s) = q
<1> DEFINE K == Len(s)
           r == FlattenSeq(s)
<1>1. K \in Nat /\ \A k \in 1 .. K : s[k] \in Seq(S) /\ Len(s[k]) \in Nat
  OBVIOUS
<1>2. r \in Seq(S)
  BY FlattenType
<1>3. PICK off : Begins(off, s)
  BY FlattenPlaces
<1>4. /\ off[1] = 0 /\ \A k \in 1 .. K : off[k + 1] = off[k] + Len(s[k])
      /\ off \in [1 .. K + 1 -> Nat] /\ Len(r) = off[K + 1]
      /\ \A p \in 1 .. Len(r) : \E k \in 1 .. K : \E i \in 1 .. Len(s[k]) : p = off[k] + i
      /\ \A k \in 1 .. K : \A i \in 1 .. Len(s[k]) : r[off[k] + i] = s[k][i]
  BY <1>3 DEF Begins
<1> HIDE DEF r
<1>a. /\ at[1] = 0 /\ \A k \in 1 .. K : at[k + 1] = at[k] + Len(s[k])
      /\ at[K + 1] = Len(q)
      /\ \A k \in 1 .. K : \A i \in 1 .. Len(s[k]) : q[at[k] + i] = s[k][i]
  BY DEF InPlace
<1>5. \A k \in 1 .. K + 1 : off[k] = at[k]
  <2> DEFINE Bad == { k \in 1 .. K + 1 : off[k] # at[k] }
  <2> SUFFICES ASSUME Bad # {} PROVE FALSE
    OBVIOUS
  <2>1. PICK k \in Bad : \A j \in Bad : k <= j
    <3>1. Bad \in SUBSET Nat
      BY <1>1
    <3> HIDE DEF Bad
    <3> QED
      BY <3>1, Least
  <2>2. k \in 1 .. K + 1 /\ off[k] # at[k]
    BY <2>1
  <2>3. k # 1
    BY <1>4, <1>a, <2>2
  <2>4. k - 1 \in 1 .. K /\ k - 1 \in 1 .. K + 1 /\ (k - 1) + 1 = k /\ ~(k <= k - 1)
    BY <1>1, <2>2, <2>3
  <2>5. off[k - 1] = at[k - 1]
    BY <2>1, <2>4
  <2>6. off[k] = off[k - 1] + Len(s[k - 1]) /\ at[k] = at[k - 1] + Len(s[k - 1])
    BY <1>4, <1>a, <2>4
  <2> QED
    BY <2>2, <2>5, <2>6
<1>6. Len(r) = Len(q)
  <2>1. K + 1 \in 1 .. K + 1
    BY <1>1
  <2> QED
    BY <1>4, <1>a, <1>5, <2>1
<1>7. \A p \in 1 .. Len(r) : r[p] = q[p]
  <2> SUFFICES ASSUME NEW p \in 1 .. Len(r) PROVE r[p] = q[p]
    OBVIOUS
  <2>1. PICK k \in 1 .. K : \E i \in 1 .. Len(s[k]) : p = off[k] + i
    BY <1>4
  <2>2. PICK i \in 1 .. Len(s[k]) : p = off[k] + i
    BY <2>1
  <2>3. k \in 1 .. K + 1
    BY <1>1
  <2>4. off[k] = at[k]
    BY <1>5, <2>3
  <2> QED
    BY <1>4, <1>a, <2>2, <2>4
<1> QED
  BY <1>2, <1>6, <1>7, SeqEqual DEF r

(* The numbers from 1 to L have kinds, in ascending order; those of kind   *)
(* g[j] are a stretch, from begin[j] + 1 to end[j].                        *)
Stretches(L, K, kind, g, begin, end) ==
  /\ kind \in [1 .. L -> Nat] /\ g \in [1 .. K -> Nat]
  /\ begin \in [1 .. K -> Nat] /\ end \in [1 .. K -> Nat]
  /\ \A m, n \in 1 .. L : m < n => kind[m] <= kind[n]
  /\ \A j, k \in 1 .. K : j < k => g[j] < g[k]
  /\ \A n \in 1 .. L : \E j \in 1 .. K : kind[n] = g[j]
  /\ \A j \in 1 .. K : begin[j] < end[j] /\ end[j] <= L
  /\ \A j \in 1 .. K : \A n \in 1 .. L : kind[n] = g[j] <=> begin[j] < n /\ n <= end[j]

(* The stretches follow each other without a gap.                          *)
LEMMA StretchesMeet ==
  ASSUME NEW L \in Nat, NEW K \in Nat, NEW kind, NEW g, NEW begin, NEW end,
         Stretches(L, K, kind, g, begin, end)
  PROVE  /\ K = 0 => L = 0
         /\ K # 0 => begin[1] = 0 /\ end[K] = L
         /\ \A k \in 1 .. K : k # K => begin[k + 1] = end[k]
<1>1. ASSUME NEW j \in 1 .. K
      PROVE  /\ begin[j] \in Nat /\ end[j] \in Nat /\ begin[j] < end[j] /\ end[j] <= L
             /\ begin[j] + 1 \in 1 .. L /\ kind[begin[j] + 1] = g[j]
             /\ end[j] \in 1 .. L /\ kind[end[j]] = g[j]
  <2>1. begin[j] \in Nat /\ end[j] \in Nat /\ begin[j] < end[j] /\ end[j] <= L
    BY DEF Stretches
  <2>2. begin[j] + 1 \in 1 .. L /\ end[j] \in 1 .. L /\ begin[j] < begin[j] + 1
        /\ begin[j] + 1 <= end[j] /\ end[j] <= end[j]
    BY <2>1
  <2>3. kind[begin[j] + 1] = g[j] /\ kind[end[j]] = g[j]
    BY <2>1, <2>2 DEF Stretches
  <2> QED
    BY <2>1, <2>2, <2>3
<1>2. ASSUME NEW j \in 1 .. K, NEW k \in 1 .. K, g[j] <= g[k] PROVE j <= k
  <2>1. k < j => g[k] < g[j]
    BY DEF Stretches
  <2>2. g[j] \in Nat /\ g[k] \in Nat
    BY DEF Stretches
  <2> QED
    BY <1>2, <2>1, <2>2
<1>3. ASSUME NEW n \in 1 .. L PROVE \E j \in 1 .. K : begin[j] < n /\ n <= end[j] /\ kind[n] = g[j]
  BY DEF Stretches
<1>4. ASSUME NEW m \in 1 .. L, NEW n \in 1 .. L, m <= n PROVE kind[m] <= kind[n]
  <2>1. kind[m] \in Nat /\ kind[n] \in Nat
    BY DEF Stretches
  <2>2. CASE m = n
    BY <2>1, <2>2
  <2>3. CASE m < n
    BY <2>3 DEF Stretches
  <2> QED
    BY <1>4, <2>2, <2>3
<1>5. ASSUME K # 0, begin[1] # 0 PROVE FALSE
  <2>1. 1 \in 1 .. K
    BY <1>5
  <2>2. begin[1] \in Nat /\ begin[1] + 1 \in 1 .. L /\ kind[begin[1] + 1] = g[1]
    BY <1>1, <2>1
  <2>3. begin[1] \in 1 .. L /\ begin[1] <= begin[1] + 1
    BY <1>5, <2>2
  <2>4. PICK j \in 1 .. K : begin[j] < begin[1] /\ kind[begin[1]] = g[j]
    BY <1>3, <2>3
  <2>5. g[j] <= g[1]
    BY <1>4, <2>2, <2>3, <2>4
  <2>6. j <= 1
    BY <1>2, <2>1, <2>5
  <2>7. j = 1
    BY <2>6
  <2> QED
    BY <2>2, <2>4, <2>7
<1>6. ASSUME NEW k \in 1 .. K, k # K PROVE begin[k + 1] = end[k]
  <2>1. k + 1 \in 1 .. K /\ k < k + 1
    BY <1>6
  <2>2. g[k] \in Nat /\ g[k + 1] \in Nat /\ g[k] < g[k + 1]
    BY <2>1 DEF Stretches
  <2>3. /\ begin[k + 1] \in Nat /\ end[k] \in 1 .. L /\ begin[k + 1] + 1 \in 1 .. L
        /\ kind[end[k]] = g[k] /\ kind[begin[k + 1] + 1] = g[k + 1]
    BY <1>1, <2>1
  <2>4. ~(begin[k + 1] + 1 <= end[k])
    <3>1. ~(g[k + 1] <= g[k])
      BY <2>2
    <3> QED
      BY <1>4, <2>3, <3>1
  <2>5. ~(end[k] < begin[k + 1])
    <3> SUFFICES ASSUME end[k] < begin[k + 1] PROVE FALSE
      OBVIOUS
    <3>1. begin[k + 1] \in 1 .. L /\ end[k] <= begin[k + 1] /\ begin[k + 1] <= begin[k + 1] + 1
      BY <2>3
    <3>2. PICK j \in 1 .. K : /\ begin[j] < begin[k + 1] /\ begin[k + 1] <= end[j]
                              /\ kind[begin[k + 1]] = g[j]
      BY <1>3, <3>1
    <3>3. g[k] <= g[j] /\ g[j] <= g[k + 1]
      BY <1>4, <2>3, <3>1, <3>2
    <3>4. k <= j /\ j <= k + 1
      BY <1>2, <2>1, <3>3
    <3>5. j = k \/ j = k + 1
      BY <3>4
    <3>6. ~(begin[k + 1] <= end[k])
      BY <2>3
    <3>7. ~(begin[k + 1] < begin[k + 1])
      BY <2>3
    <3> QED
      BY <3>2, <3>5, <3>6, <3>7
  <2> QED
    BY <2>3, <2>4, <2>5
<1>7. ASSUME K # 0, end[K] # L PROVE FALSE
  <2>1. K \in 1 .. K
    BY <1>7
  <2>2. end[K] \in 1 .. L /\ kind[end[K]] = g[K] /\ end[K] <= L
    BY <1>1, <2>1
  <2>3. L \in 1 .. L
    BY <2>2
  <2>4. PICK j \in 1 .. K : L <= end[j] /\ kind[L] = g[j]
    BY <1>3, <2>3
  <2>5. g[K] <= g[j]
    BY <1>4, <2>2, <2>3, <2>4
  <2>6. K <= j
    BY <1>2, <2>1, <2>5
  <2>7. j = K
    BY <2>6
  <2> QED
    BY <1>7, <2>2, <2>4, <2>7
<1>8. ASSUME K = 0, L # 0 PROVE FALSE
  <2>1. L \in 1 .. L
    BY <1>8
  <2> QED
    BY <1>3, <1>8, <2>1
<1> QED
  BY <1>5, <1>6, <1>7, <1>8

(* The n-th element of q is of kind kind[n], and those of kind G[j] are    *)
(* the sequence s[j], from begin[j] + 1 on.                                *)
MadeOf(q, kind, G, s, begin) ==
  LET end == [j \in 1 .. Len(G) |-> begin[j] + Len(s[j])]
  IN  /\ G \in Seq(Nat) /\ Len(s) = Len(G)
      /\ Stretches(Len(q), Len(G), kind, G, begin, end)
      /\ \A j \in 1 .. Len(G) : \A i \in 1 .. Len(s[j]) : q[begin[j] + i] = s[j][i]

(* A file whose n-th element is of kind kind[n], with the kinds in ascending*)
(* order, is the elements of each kind joined.                             *)
LEMMA StretchesJoined ==
  ASSUME NEW q \in Seq(Nat), NEW kind, NEW G, NEW s \in Seq(Seq(Nat)), NEW begin,
         MadeOf(q, kind, G, s, begin)
  PROVE  FlattenSeq(s) = q
<1> DEFINE K == Len(G)
           L == Len(q)
           end == [j \in 1 .. K |-> begin[j] + Len(s[j])]
           at == [k \in 1 .. K + 1 |-> IF k = K + 1 THEN L ELSE begin[k]]
<1>1. K \in Nat /\ L \in Nat /\ Len(s) = K
  BY DEF MadeOf
<1>2. end \in [1 .. K -> Nat] /\ \A j \in 1 .. K : end[j] = begin[j] + Len(s[j])
  BY DEF MadeOf, Stretches
<1>3. Stretches(L, K, kind, G, begin, end)
  BY DEF MadeOf
<1>4. begin \in [1 .. K -> Nat] /\ \A j \in 1 .. K : \A i \in 1 .. Len(s[j]) : q[begin[j] + i] = s[j][i]
  BY DEF MadeOf, Stretches
<1> HIDE DEF K, L, end
<1>9. /\ K = 0 => L = 0
      /\ K # 0 => begin[1] = 0 /\ end[K] = L
      /\ \A k \in 1 .. K : k # K => begin[k + 1] = end[k]
  BY <1>1, <1>3, StretchesMeet
<1>10. at \in [1 .. K + 1 -> Nat] /\ at[K + 1] = L /\ \A k \in 1 .. K : at[k] = begin[k]
  <2>1. \A k \in 1 .. K + 1 : k # K + 1 => k \in 1 .. K
    BY <1>1
  <2>2. \A k \in 1 .. K : k # K + 1 /\ k \in 1 .. K + 1
    BY <1>1
  <2>3. K + 1 \in 1 .. K + 1
    BY <1>1
  <2>4. \A k \in 1 .. K : begin[k] \in Nat
    BY <1>4
  <2> QED
    BY <1>1, <2>1, <2>2, <2>3, <2>4
<1> HIDE DEF at
<1>11. at[1] = 0
  <2>1. K # 0 => 1 \in 1 .. K
    BY <1>1
  <2>2. K = 0 => K + 1 = 1
    BY <1>1
  <2> QED
    BY <1>9, <1>10, <2>1, <2>2
<1>12. ASSUME NEW k \in 1 .. K PROVE at[k + 1] = at[k] + Len(s[k])
  <2>1. at[k] + Len(s[k]) = end[k]
    BY <1>2, <1>10
  <2>2. CASE k = K
    <3>1. K # 0
      BY <1>1
    <3> QED
      BY <1>9, <1>10, <2>1, <2>2, <3>1
  <2>3. CASE k # K
    <3>1. k + 1 \in 1 .. K
      BY <1>1, <2>3
    <3> QED
      BY <1>9, <1>10, <2>1, <2>3, <3>1
  <2> QED
    BY <2>2, <2>3
<1>13. \A k \in 1 .. K : \A i \in 1 .. Len(s[k]) : q[at[k] + i] = s[k][i]
  BY <1>4, <1>10
<1>14. InPlace(s, q, at)
  BY <1>1, <1>10, <1>11, <1>12, <1>13 DEF InPlace, L
<1> QED
  BY <1>14, FlattenIs

-----------------------------------------------------------------------------
(***************************************************************************)
(* The line scan: LineScan's steps on the variables of IndexBuild.         *)
(***************************************************************************)

(* The newlines among the first n bytes.                                   *)
Newlines(n) == { p \in 0 .. n - 1 : content[p + 1] = Newline }

(* After the first, up to the m-th, the boundaries are these newlines.     *)
Lists(n, m) ==
  /\ \A k \in 2 .. m : line_boundaries[k] \in Newlines(n)
  /\ \A p \in Newlines(n) : \E k \in 2 .. m : line_boundaries[k] = p

Ascends == \A j, k \in 2 .. Len(line_boundaries) : j < k => line_boundaries[j] < line_boundaries[k]

Scanning ==
  phase = "scan" => /\ scan_i <= Len(content) /\ Len(line_boundaries) <= scan_i + 1
                    /\ Lists(scan_i, Len(line_boundaries))

Scanned ==
  phase # "scan" =>
    /\ Len(line_boundaries) \in 2 .. Len(content) + 2
    /\ line_boundaries[Len(line_boundaries)] = Len(content)
    /\ Lists(Len(content), Len(line_boundaries) - 1)

(* The longest line is none that is longer than the text.                  *)
Measuring ==
  /\ longest_line \in 0 .. Len(content)
  /\ phase = "longest" => scan_i <= Len(line_boundaries) - 1

(* Each boundary but the first is copied to the offsets.                   *)
Copying ==
  /\ phase = "offsets" =>
       /\ scan_i \in 1 .. Len(line_boundaries) /\ Len(offsets) = Len(line_boundaries)
       /\ \A k \in 2 .. scan_i : offsets[k] = line_boundaries[k]
  /\ phase = "done" =>
       /\ scan_i = Len(line_boundaries) /\ Len(offsets) = Len(line_boundaries)
       /\ offsets[1] = 0 /\ \A k \in 2 .. Len(line_boundaries) : offsets[k] = line_boundaries[k]

ScanTypes ==
  /\ content \in Texts /\ phase \in {"scan", "longest", "offsets", "done"} /\ scan_i \in Nat
  /\ line_boundaries \in Seq(Scan!Size) /\ Len(line_boundaries) >= 1
  /\ line_boundaries[1] = SizeMod - 1
  /\ offsets \in Seq(Scan!Size)

ScanInv == ScanTypes /\ Ascends /\ Scanning /\ Scanned /\ Measuring /\ Copying

(* Unsigned numbers wrap around once at most in what follows.              *)
LEMMA Wraps ==
  ASSUME NEW m \in Nat \ {0}, NEW x \in 0 .. m - 1
  PROVE  /\ x % m = x /\ (x - m) % m = x /\ (x + m) % m = x
<1>1. x % m = x
  OBVIOUS
<1>2. (x - m) % m = x
  OBVIOUS
<1>3. (x + m) % m = x
  OBVIOUS
<1> QED
  BY <1>1, <1>2, <1>3

(* The text is one of the inputs, and its size fits.                       *)
LEMMA TextFacts ==
  ASSUME content \in Texts
  PROVE  /\ content \in Seq(0 .. Base - 1) /\ Len(content) \in Nat \ {0}
         /\ SizeMod \in Nat \ {0} /\ Len(content) + 1 < SizeMod
         /\ \A p \in 0 .. Len(content) : p \in Scan!Size /\ p \in Nat
<1>1. content \in Seq(0 .. Base - 1) /\ content # <<>>
  BY IndexBuildAssumption
<1>2. Len(content) \in Nat \ {0}
  BY <1>1
<1>3. SizeMod \in Nat \ {0} /\ Len(content) + 1 < SizeMod
  BY IndexBuildAssumption
<1>4. \A p \in 0 .. Len(content) : p \in Scan!Size /\ p \in Nat
  BY <1>2, <1>3 DEF Scan!Size
<1> QED
  BY <1>1, <1>2, <1>3, <1>4

(* At the start nothing is scanned.                                        *)
LEMMA ScanInvInit == Scan!Init => ScanInv
<1> SUFFICES ASSUME Scan!Init PROVE ScanInv
  OBVIOUS
<1>1. /\ content \in Texts /\ phase = "scan" /\ scan_i = 0 /\ longest_line = 0 /\ offsets = <<>>
      /\ line_boundaries = << Scan!Sub(0, 1) >>
  BY DEF Scan!Init
<1>2. /\ Len(content) \in Nat \ {0} /\ SizeMod \in Nat \ {0} /\ Len(content) + 1 < SizeMod
  BY <1>1, TextFacts
<1>3. Scan!Sub(0, 1) = SizeMod - 1 /\ SizeMod - 1 \in Scan!Size
  <2>1. SizeMod - 1 \in 0 .. SizeMod - 1
    BY <1>2
  <2>2. ((SizeMod - 1) - SizeMod) % SizeMod = SizeMod - 1
    BY <1>2, <2>1, Wraps
  <2>3. (SizeMod - 1) - SizeMod = 0 - 1
    BY <1>2
  <2> QED
    BY <2>1, <2>2, <2>3 DEF Scan!Sub, Scan!Size
<1>4. /\ line_boundaries \in Seq(Scan!Size) /\ Len(line_boundaries) = 1
      /\ line_boundaries[1] = SizeMod - 1
  BY <1>1, <1>3
<1>5. ScanTypes
  BY <1>1, <1>4 DEF ScanTypes
<1>6. Ascends /\ Scanning /\ Scanned /\ Measuring /\ Copying
  BY <1>1, <1>2, <1>4 DEF Ascends, Scanning, Scanned, Measuring, Copying, Lists, Newlines
<1> QED
  BY <1>5, <1>6 DEF ScanInv

(* What the invariant says, in numbers.                                    *)
LEMMA ScanFacts ==
  ASSUME ScanInv
  PROVE  /\ content \in Seq(0 .. Base - 1) /\ Len(content) \in Nat \ {0}
         /\ SizeMod \in Nat \ {0} /\ Len(content) + 1 < SizeMod
         /\ scan_i \in Nat /\ Len(line_boundaries) \in Nat \ {0}
         /\ line_boundaries \in Seq(Scan!Size) /\ offsets \in Seq(Scan!Size)
         /\ \A k \in 1 .. Len(line_boundaries) : line_boundaries[k] \in Nat
         /\ line_boundaries[1] = SizeMod - 1 /\ longest_line \in Nat
         /\ Len(offsets) \in Nat
<1>1. /\ content \in Texts /\ scan_i \in Nat /\ Len(line_boundaries) >= 1
      /\ line_boundaries[1] = SizeMod - 1
      /\ line_boundaries \in Seq(Scan!Size) /\ offsets \in Seq(Scan!Size)
  BY DEF ScanInv, ScanTypes
<1>2. /\ content \in Seq(0 .. Base - 1) /\ Len(content) \in Nat \ {0}
      /\ SizeMod \in Nat \ {0} /\ Len(content) + 1 < SizeMod
  BY <1>1, TextFacts
<1>3. Len(line_boundaries) \in Nat /\ Len(offsets) \in Nat
      /\ \A k \in 1 .. Len(line_boundaries) : line_boundaries[k] \in Scan!Size
  BY <1>1
<1>4. \A x \in Scan!Size : x \in Nat
  BY <1>2 DEF Scan!Size
<1>5. longest_line \in Nat
  BY <1>2 DEF ScanInv, Measuring
<1> QED
  BY <1>1, <1>2, <1>3, <1>4, <1>5

(* A boundary more: the next byte is a newline, or the text ends.          *)
LEMMA BoundaryAdded ==
  ASSUME NEW q \in Seq(Nat), NEW x \in Nat
  PROVE  LET r == Append(q, x)
         IN  /\ r \in Seq(Nat) /\ Len(r) = Len(q) + 1 /\ r[Len(q) + 1] = x
             /\ \A k \in 1 .. Len(q) : r[k] = q[k]
OBVIOUS

(* One more byte: a boundary is added when it is a newline.                *)
LEMMA ByteScanned ==
  ASSUME ScanInv, Scan!ScanByte
  PROVE  ScanInv'
<1> DEFINE lb == line_boundaries
           m == Len(line_boundaries)
           n == Len(content)
           p == scan_i
<1>1. /\ phase = "scan" /\ p < n /\ scan_i' = p + 1 /\ content' = content /\ phase' = phase
      /\ longest_line' = longest_line /\ offsets' = offsets
      /\ lb' = IF content[p + 1] = Newline THEN Append(lb, p) ELSE lb
  BY DEF Scan!ScanByte
<1>2. /\ n \in Nat \ {0} /\ p \in Nat /\ m \in Nat \ {0} /\ lb \in Seq(Scan!Size)
      /\ \A k \in 1 .. m : lb[k] \in Nat
  BY ScanFacts
<1>3. /\ m <= p + 1 /\ ScanTypes /\ Ascends /\ Measuring
      /\ \A k \in 2 .. m : lb[k] \in Newlines(p)
      /\ \A x \in Newlines(p) : \E k \in 2 .. m : lb[k] = x
  BY <1>1 DEF ScanInv, Scanning, Lists
<1>4. p \in Scan!Size
  <2>1. p \in 0 .. n
    BY <1>1, <1>2
  <2> QED
    BY <1>3, <2>1, TextFacts DEF ScanTypes
<1>5. \A x : x \in Newlines(p + 1) <=> x \in Newlines(p) \/ (x = p /\ content[p + 1] = Newline)
  <2>1. \A x : x \in 0 .. (p + 1) - 1 <=> x \in 0 .. p - 1 \/ x = p
    BY <1>2
  <2>2. p \notin 0 .. p - 1
    BY <1>2
  <2> QED
    BY <2>1, <2>2 DEF Newlines
<1>7. \A x \in Newlines(p) : x \in Nat /\ x < p
  BY <1>2 DEF Newlines
<1>8. CASE content[p + 1] = Newline
  <2>1. lb' = Append(lb, p)
    BY <1>1, <1>8
  <2>2. /\ lb' \in Seq(Scan!Size) /\ Len(lb') = m + 1 /\ lb'[m + 1] = p
        /\ \A k \in 1 .. m : lb'[k] = lb[k]
    BY <1>2, <1>4, <2>1
  <2> HIDE DEF lb, m, n, p
  <2>3. ScanTypes'
    <3>1. 1 \in 1 .. m /\ m + 1 >= 1
      BY <1>2
    <3>2. p + 1 \in Nat
      BY <1>2
    <3> QED
      BY <1>1, <1>3, <2>2, <3>1, <3>2 DEF ScanTypes, lb, m, p
  <2>4. Ascends'
    <3> SUFFICES ASSUME NEW j \in 2 .. m + 1, NEW k \in 2 .. m + 1, j < k PROVE lb'[j] < lb'[k]
      BY <2>2 DEF Ascends, lb
    <3>1. j \in 2 .. m /\ j \in 1 .. m
      BY <1>2
    <3>2. CASE k = m + 1
      BY <1>3, <1>7, <2>2, <3>1, <3>2
    <3>3. CASE k # m + 1
      <4>1. k \in 2 .. m /\ k \in 1 .. m
        BY <1>2, <3>3
      <4>2. lb[j] < lb[k]
        BY <1>3, <3>1, <4>1 DEF Ascends, lb, m
      <4> QED
        BY <2>2, <3>1, <4>1, <4>2
    <3> QED
      BY <3>2, <3>3
  <2>5. Lists(scan_i, Len(line_boundaries))'
    <3>1. ASSUME NEW k \in 2 .. m + 1 PROVE lb'[k] \in Newlines(p + 1)
      <4>1. CASE k = m + 1
        BY <1>5, <1>8, <2>2, <4>1
      <4>2. CASE k # m + 1
        <5>1. k \in 2 .. m /\ k \in 1 .. m
          BY <1>2, <4>2
        <5> QED
          BY <1>3, <1>5, <2>2, <5>1
      <4> QED
        BY <4>1, <4>2
    <3>2. ASSUME NEW x \in Newlines(p + 1) PROVE \E k \in 2 .. m + 1 : lb'[k] = x
      <4>1. CASE x = p
        <5>1. m + 1 \in 2 .. m + 1
          BY <1>2
        <5> QED
          BY <2>2, <4>1, <5>1
      <4>2. CASE x # p
        <5>1. PICK k \in 2 .. m : lb[k] = x
          BY <1>3, <1>5, <4>2
        <5>2. k \in 2 .. m + 1 /\ k \in 1 .. m
          BY <1>2
        <5> QED
          BY <2>2, <5>1, <5>2
      <4> QED
        BY <4>1, <4>2
    <3>3. /\ scan_i' = p + 1 /\ Len(line_boundaries') = m + 1 /\ line_boundaries' = lb'
          /\ content' = content
      BY <1>1, <2>2 DEF lb
    <3> HIDE <1>1, <2>2
    <3> QED
      BY <3>1, <3>2, <3>3 DEF Lists, Newlines
  <2>6. Scanning'
    <3>1. p + 1 <= n /\ m + 1 <= (p + 1) + 1
      BY <1>1, <1>2, <1>3
    <3> QED
      BY <1>1, <2>2, <2>5, <3>1 DEF Scanning, lb, n, p
  <2> QED
    BY <1>1, <1>3, <2>3, <2>4, <2>6 DEF ScanInv, Scanned, Measuring, Copying, n
<1>9. CASE content[p + 1] # Newline
  <2>1. lb' = lb
    BY <1>1, <1>9
  <2>2. ScanTypes'
    BY <1>1, <1>2, <1>3, <2>1 DEF ScanTypes
  <2>3. Ascends'
    BY <1>3, <2>1 DEF Ascends
  <2>4. \A x : x \in Newlines(p + 1) <=> x \in Newlines(p)
    BY <1>5, <1>9
  <2>5. Scanning'
    <3>1. p + 1 <= n /\ m <= (p + 1) + 1
      BY <1>1, <1>2, <1>3
    <3>2. Lists(p + 1, m)
      BY <1>3, <2>4 DEF Lists
    <3>3. Lists(scan_i, Len(line_boundaries))'
      BY <1>1, <2>1, <3>2 DEF Lists, Newlines
    <3> QED
      BY <1>1, <2>1, <3>1, <3>3 DEF Scanning
  <2> QED
    BY <1>1, <1>3, <2>2, <2>3, <2>5 DEF ScanInv, Scanned, Measuring, Copying
<1> QED
  BY <1>8, <1>9


(* The text ends: its size is the last boundary.                           *)
LEMMA EndScanned ==
  ASSUME ScanInv, Scan!ScanEnd
  PROVE  ScanInv'
<1> DEFINE lb == line_boundaries
           m == Len(line_boundaries)
           n == Len(content)
<1>1. /\ phase = "scan" /\ scan_i = n /\ scan_i' = 0 /\ content' = content /\ phase' = "longest"
      /\ longest_line' = longest_line /\ offsets' = offsets
      /\ lb' = Append(lb, n)
  BY DEF Scan!ScanEnd
<1>2. /\ n \in Nat \ {0} /\ m \in Nat \ {0} /\ lb \in Seq(Scan!Size)
      /\ \A k \in 1 .. m : lb[k] \in Nat
  BY ScanFacts
<1>3. /\ m <= n + 1 /\ ScanTypes /\ Ascends /\ Measuring /\ Lists(n, m)
  BY <1>1 DEF ScanInv, Scanning
<1>4. n \in Scan!Size
  <2>1. n \in 0 .. n
    BY <1>2
  <2> QED
    BY <1>3, <2>1, TextFacts DEF ScanTypes
<1>5. \A x \in Newlines(n) : x \in Nat /\ x < n
  BY <1>2 DEF Newlines
<1>6. /\ lb' \in Seq(Scan!Size) /\ Len(lb') = m + 1 /\ lb'[m + 1] = n
      /\ \A k \in 1 .. m : lb'[k] = lb[k]
  BY <1>1, <1>2, <1>4
<1>7. \A k \in 2 .. m : lb[k] \in Newlines(n)
  BY <1>3 DEF Lists
<1> HIDE DEF lb, m, n
<1>8. ScanTypes'
  <2>1. 1 \in 1 .. m /\ m + 1 >= 1
    BY <1>2
  <2> QED
    BY <1>1, <1>3, <1>6, <2>1 DEF ScanTypes, lb, m
<1>9. Ascends'
  <2> SUFFICES ASSUME NEW j \in 2 .. m + 1, NEW k \in 2 .. m + 1, j < k PROVE lb'[j] < lb'[k]
    BY <1>6 DEF Ascends, lb
  <2>1. j \in 2 .. m /\ j \in 1 .. m
    BY <1>2
  <2>2. CASE k = m + 1
    BY <1>5, <1>6, <1>7, <2>1, <2>2
  <2>3. CASE k # m + 1
    <3>1. k \in 2 .. m /\ k \in 1 .. m
      BY <1>2, <2>3
    <3>2. lb[j] < lb[k]
      BY <1>3, <2>1, <3>1 DEF Ascends, lb, m
    <3> QED
      BY <1>6, <2>1, <3>1, <3>2
  <2> QED
    BY <2>2, <2>3
<1>10. Scanned'
  <2>1. m + 1 \in 2 .. n + 2 /\ (m + 1) - 1 = m
    BY <1>2, <1>3
  <2>2. \A k \in 2 .. m : k \in 1 .. m
    BY <1>2
  <2>3. line_boundaries' = lb' /\ content' = content /\ Len(lb') = m + 1 /\ lb'[m + 1] = n
        /\ \A k \in 2 .. m : lb'[k] = line_boundaries[k]
    BY <1>1, <1>6, <2>2 DEF lb
  <2>4. Lists(Len(content), Len(line_boundaries) - 1)'
    <3> HIDE <1>1, <1>6
    <3> QED
      BY <1>3, <2>1, <2>3 DEF Lists, Newlines, n
  <2> QED
    BY <2>1, <2>3, <2>4 DEF Scanned, n
<1>11. Scanning' /\ Copying'
  BY <1>1 DEF Scanning, Copying
<1>12. Measuring'
  <2>1. 0 <= (m + 1) - 1 /\ line_boundaries' = lb'
    BY <1>2 DEF lb
  <2> QED
    BY <1>1, <1>3, <1>6, <2>1 DEF Measuring, n
<1> QED
  BY <1>8, <1>9, <1>10, <1>11, <1>12 DEF ScanInv

(* Where the boundaries are, once they are all found.                      *)
LEMMA BoundaryPlaces ==
  ASSUME ScanInv, phase # "scan"
  PROVE  /\ Len(line_boundaries) \in 2 .. Len(content) + 2
         /\ line_boundaries[Len(line_boundaries)] = Len(content)
         /\ \A k \in 2 .. Len(line_boundaries) : line_boundaries[k] \in 0 .. Len(content)
         /\ \A k \in 2 .. Len(line_boundaries) - 1 : line_boundaries[k] \in Newlines(Len(content))
<1>1. /\ Len(line_boundaries) \in 2 .. Len(content) + 2
      /\ line_boundaries[Len(line_boundaries)] = Len(content)
      /\ \A k \in 2 .. Len(line_boundaries) - 1 : line_boundaries[k] \in Newlines(Len(content))
  BY DEF ScanInv, Scanned, Lists
<1>2. Len(content) \in Nat \ {0} /\ Len(line_boundaries) \in Nat
  BY ScanFacts
<1>3. \A x \in Newlines(Len(content)) : x \in 0 .. Len(content)
  BY <1>2 DEF Newlines
<1>4. \A k \in 2 .. Len(line_boundaries) : k = Len(line_boundaries) \/ k \in 2 .. Len(line_boundaries) - 1
  BY <1>2
<1>5. Len(content) \in 0 .. Len(content)
  BY <1>2
<1> QED
  BY <1>1, <1>3, <1>4, <1>5

(* The unsigned length of a line is that of its bytes.                     *)
LEMMA LineMeasured ==
  ASSUME ScanInv, Scan!MeasureLine
  PROVE  ScanInv'
<1> DEFINE lb == line_boundaries
           m == Len(line_boundaries)
           n == Len(content)
           d == Scan!Sub(lb[scan_i + 2], lb[scan_i + 1])
           larger == Scan!Larger(longest_line, d)
<1>1. /\ phase = "longest" /\ scan_i + 1 < m /\ scan_i' = scan_i + 1
      /\ content' = content /\ phase' = phase /\ lb' = lb /\ offsets' = offsets
  BY DEF Scan!MeasureLine, Scan!NumBoundaries
<1>2. longest_line' = Scan!Sub(larger, 1)
  <2>1. (scan_i + 1) + 1 = scan_i + 2
    BY ScanFacts
  <2> QED
    BY <2>1 DEF Scan!MeasureLine, Scan!Boundary
<1>3. /\ n \in Nat \ {0} /\ m \in Nat \ {0} /\ scan_i \in Nat /\ SizeMod \in Nat \ {0}
      /\ n + 1 < SizeMod /\ lb[1] = SizeMod - 1 /\ longest_line \in 0 .. n
  BY ScanFacts DEF ScanInv, Measuring
<1>4. scan_i + 2 \in 2 .. m /\ lb[scan_i + 2] \in 0 .. n
  <2>1. scan_i + 2 \in 2 .. m
    BY <1>1, <1>3
  <2> QED
    BY <1>1, <2>1, BoundaryPlaces
<1>5. d \in 1 .. n + 1
  <2>1. CASE scan_i = 0
    <3>1. lb[scan_i + 1] = SizeMod - 1
      BY <1>3, <2>1
    <3>2. lb[scan_i + 2] + 1 \in 0 .. SizeMod - 1 /\ lb[scan_i + 2] + 1 \in 1 .. n + 1
      BY <1>3, <1>4
    <3>3. lb[scan_i + 2] - (SizeMod - 1) = (lb[scan_i + 2] + 1) - SizeMod
      BY <1>3, <1>4
    <3>4. ((lb[scan_i + 2] + 1) - SizeMod) % SizeMod = lb[scan_i + 2] + 1
      BY <1>3, <3>2, Wraps
    <3> QED
      BY <3>1, <3>2, <3>3, <3>4 DEF Scan!Sub
  <2>2. CASE scan_i # 0
    <3>1. scan_i + 1 \in 2 .. m /\ scan_i + 1 < scan_i + 2
      BY <1>1, <1>3, <2>2
    <3>2. lb[scan_i + 1] \in 0 .. n
      BY <1>1, <3>1, BoundaryPlaces
    <3>3. lb[scan_i + 1] < lb[scan_i + 2]
      BY <1>4, <3>1 DEF ScanInv, Ascends
    <3>4. lb[scan_i + 2] - lb[scan_i + 1] \in 1 .. n + 1
          /\ lb[scan_i + 2] - lb[scan_i + 1] \in 0 .. SizeMod - 1
      BY <1>3, <1>4, <3>2, <3>3
    <3>5. (lb[scan_i + 2] - lb[scan_i + 1]) % SizeMod = lb[scan_i + 2] - lb[scan_i + 1]
      BY <1>3, <3>4, Wraps
    <3> QED
      BY <3>4, <3>5 DEF Scan!Sub
  <2> QED
    BY <2>1, <2>2
<1> HIDE DEF d
<1>6. larger \in 1 .. n + 1
  BY <1>3, <1>5 DEF Scan!Larger
<1> HIDE DEF larger
<1>7. longest_line' \in 0 .. n
  <2>1. larger - 1 \in 0 .. n /\ larger - 1 \in 0 .. SizeMod - 1
    BY <1>3, <1>6
  <2>2. (larger - 1) % SizeMod = larger - 1
    BY <1>3, <2>1, Wraps
  <2> QED
    BY <1>2, <2>1, <2>2 DEF Scan!Sub
<1>8. scan_i + 1 \in Nat /\ scan_i + 1 <= m - 1
  BY <1>1, <1>3
<1> QED
  BY <1>1, <1>7, <1>8
  DEF ScanInv, ScanTypes, Ascends, Scanning, Scanned, Measuring, Copying, Lists, Newlines

(* The file of offsets begins with zeros,                                  *)
LEMMA MeasureEnded ==
  ASSUME ScanInv, Scan!MeasureEnd
  PROVE  ScanInv'
<1>1. /\ phase = "longest" /\ scan_i' = 1 /\ phase' = "offsets" /\ content' = content
      /\ line_boundaries' = line_boundaries /\ longest_line' = longest_line
      /\ offsets' = [k \in 1 .. Len(line_boundaries) |-> 0]
  BY DEF Scan!MeasureEnd, Scan!NumBoundaries
<1>2. Len(line_boundaries) \in Nat \ {0} /\ Len(content) \in Nat \ {0}
  BY ScanFacts
<1>3. 0 \in Scan!Size
  <2>1. 0 \in 0 .. Len(content)
    BY <1>2
  <2> QED
    BY <2>1, TextFacts DEF ScanInv, ScanTypes
<1>4. /\ offsets' \in Seq(Scan!Size) /\ Len(offsets') = Len(line_boundaries)
  BY <1>1, <1>2, <1>3
<1>5. 1 \in 1 .. Len(line_boundaries) /\ \A k \in 2 .. 1 : FALSE
  BY <1>2
<1>6. Copying'
  BY <1>1, <1>4, <1>5 DEF Copying
<1> QED
  BY <1>1, <1>4, <1>6
  DEF ScanInv, ScanTypes, Ascends, Scanning, Scanned, Measuring, Lists, Newlines

(* gets the boundaries one by one,                                         *)
LEMMA OffsetWritten ==
  ASSUME ScanInv, Scan!WriteOffset
  PROVE  ScanInv'
<1> DEFINE m == Len(line_boundaries)
<1>1. /\ phase = "offsets" /\ scan_i < m /\ scan_i' = scan_i + 1 /\ phase' = phase
      /\ content' = content /\ line_boundaries' = line_boundaries /\ longest_line' = longest_line
      /\ offsets' = [offsets EXCEPT ![scan_i + 1] = line_boundaries[scan_i + 1]]
  BY DEF Scan!WriteOffset, Scan!NumBoundaries, Scan!Boundary
<1>2. /\ m \in Nat \ {0} /\ scan_i \in 1 .. m /\ Len(offsets) = m
      /\ \A k \in 2 .. scan_i : offsets[k] = line_boundaries[k]
  BY <1>1, ScanFacts DEF ScanInv, Copying
<1>3. scan_i + 1 \in 1 .. m
  BY <1>1, <1>2
<1>4. line_boundaries \in Seq(Scan!Size) /\ offsets \in Seq(Scan!Size)
  BY ScanFacts
<1>5. line_boundaries[scan_i + 1] \in Scan!Size
  BY <1>3, <1>4
<1>6. DOMAIN offsets = 1 .. m
  BY <1>2, <1>4
<1>7. /\ offsets' \in Seq(Scan!Size) /\ Len(offsets') = m
  BY <1>1, <1>2, <1>3, <1>4, <1>5
<1>8. \A k \in 2 .. scan_i + 1 : offsets'[k] = line_boundaries[k]
  <2> SUFFICES ASSUME NEW k \in 2 .. scan_i + 1 PROVE offsets'[k] = line_boundaries[k]
    OBVIOUS
  <2>1. k \in 1 .. m
    BY <1>2, <1>3
  <2>2. CASE k = scan_i + 1
    BY <1>1, <1>6, <2>1, <2>2
  <2>3. CASE k # scan_i + 1
    <3>1. k \in 2 .. scan_i
      BY <1>2, <2>3
    <3> QED
      BY <1>1, <1>2, <1>6, <2>1, <2>3, <3>1
  <2> QED
    BY <2>2, <2>3
<1>9. Copying'
  BY <1>1, <1>3, <1>7, <1>8 DEF Copying
<1>10. scan_i' \in Nat
  BY <1>1, <1>2
<1> QED
  BY <1>1, <1>7, <1>9, <1>10
  DEF ScanInv, ScanTypes, Ascends, Scanning, Scanned, Measuring, Lists, Newlines

(* and a 0 in place of the first.                                          *)
LEMMA OffsetsEnded ==
  ASSUME ScanInv, Scan!OffsetsEnd
  PROVE  ScanInv'
<1> DEFINE m == Len(line_boundaries)
<1>1. /\ phase = "offsets" /\ scan_i >= m /\ scan_i' = scan_i /\ phase' = "done"
      /\ content' = content /\ line_boundaries' = line_boundaries /\ longest_line' = longest_line
      /\ offsets' = [offsets EXCEPT ![1] = 0]
  BY DEF Scan!OffsetsEnd, Scan!NumBoundaries
<1>2. /\ m \in Nat \ {0} /\ scan_i \in 1 .. m /\ Len(offsets) = m /\ Len(content) \in Nat \ {0}
      /\ \A k \in 2 .. scan_i : offsets[k] = line_boundaries[k]
  BY <1>1, ScanFacts DEF ScanInv, Copying
<1>3. scan_i = m /\ 1 \in 1 .. m
  BY <1>1, <1>2
<1>4. 0 \in Scan!Size
  <2>1. 0 \in 0 .. Len(content)
    BY <1>2
  <2> QED
    BY <2>1, TextFacts DEF ScanInv, ScanTypes
<1>5. offsets \in Seq(Scan!Size)
  BY ScanFacts
<1>6. DOMAIN offsets = 1 .. m
  BY <1>2, <1>5
<1>7. /\ offsets' \in Seq(Scan!Size) /\ Len(offsets') = m
  BY <1>1, <1>2, <1>3, <1>4, <1>5
<1>8. \A k \in 2 .. m : offsets'[k] = line_boundaries[k]
  <2>1. \A k \in 2 .. m : k \in 1 .. m /\ k # 1
    BY <1>2
  <2> QED
    BY <1>1, <1>2, <1>3, <1>6, <2>1
<1>9. offsets'[1] = 0
  BY <1>1, <1>3, <1>6
<1>10. Copying'
  BY <1>1, <1>3, <1>7, <1>8, <1>9 DEF Copying
<1> QED
  BY <1>1, <1>7, <1>10
  DEF ScanInv, ScanTypes, Ascends, Scanning, Scanned, Measuring, Lists, Newlines

(* A step of the scan, and one that leaves its variables alone.            *)
LEMMA ScanInvStep == ScanInv /\ Scan!Next => ScanInv'
BY ByteScanned, EndScanned, LineMeasured, MeasureEnded, OffsetWritten, OffsetsEnded DEF Scan!Next

(* What else happens in a build does not touch the scan.                   *)
LEMMA ScanInvStays == ScanInv /\ UNCHANGED <<scanVars, longest_line>> => ScanInv'
BY DEF ScanInv, ScanTypes, Ascends, Scanning, Scanned, Measuring, Copying, Lists, Newlines, scanVars


(* The types of the scan's variables.                                      *)
LEMMA ScanInvTypes == ScanInv => Scan!TypeOK
<1> SUFFICES ASSUME ScanInv PROVE Scan!TypeOK
  OBVIOUS
<1>1. /\ Len(content) \in Nat \ {0} /\ scan_i \in Nat /\ Len(line_boundaries) \in Nat
  BY ScanFacts
<1>2. ScanTypes /\ Scanning /\ Measuring /\ Copying
  BY DEF ScanInv
<1>3. phase # "scan" => Len(line_boundaries) \in 2 .. Len(content) + 2
  BY DEF ScanInv, Scanned
<1>4. scan_i \in 0 .. Len(content) + 2
  BY <1>1, <1>2, <1>3 DEF ScanTypes, Scanning, Measuring, Copying
<1> QED
  BY <1>2, <1>4 DEF Scan!TypeOK, ScanTypes, Measuring

(* Where line k, from 0, begins.                                           *)
LEMMA LineStart ==
  ASSUME ScanInv, phase # "scan", NEW k \in 0 .. Len(line_boundaries) - 2
  PROVE  (line_boundaries[k + 1] + 1) % SizeMod = IF k = 0 THEN 0 ELSE line_boundaries[k + 1] + 1
<1>1. /\ Len(content) \in Nat \ {0} /\ Len(line_boundaries) \in Nat /\ SizeMod \in Nat \ {0}
      /\ Len(content) + 1 < SizeMod /\ line_boundaries[1] = SizeMod - 1
  BY ScanFacts
<1>2. CASE k = 0
  <2>1. 0 \in 0 .. SizeMod - 1 /\ (0 + SizeMod) % SizeMod = 0
    BY <1>1, Wraps
  <2>2. line_boundaries[k + 1] + 1 = 0 + SizeMod
    BY <1>1, <1>2
  <2> QED
    BY <1>2, <2>1, <2>2
<1>3. CASE k # 0
  <2>1. k + 1 \in 2 .. Len(line_boundaries)
    BY <1>1, <1>3
  <2>2. line_boundaries[k + 1] \in 0 .. Len(content)
    BY <2>1, BoundaryPlaces
  <2>3. line_boundaries[k + 1] + 1 \in 0 .. SizeMod - 1
    BY <1>1, <2>2
  <2> QED
    BY <1>1, <1>3, <2>3, Wraps
<1> QED
  BY <1>2, <1>3

(* The bytes between two boundaries that follow each other are no newlines.*)
LEMMA NoneBetween ==
  ASSUME ScanInv, phase # "scan", NEW k \in 0 .. Len(line_boundaries) - 2,
         NEW p \in 0 .. Len(content) - 1, p < line_boundaries[k + 2],
         k # 0 => line_boundaries[k + 1] < p
  PROVE  content[p + 1] # Newline
<1> DEFINE m == Len(line_boundaries)
<1>1. /\ Len(content) \in Nat \ {0} /\ m \in Nat
  BY ScanFacts
<1>2. \A j \in 2 .. m : line_boundaries[j] \in 0 .. Len(content)
  BY BoundaryPlaces
<1> SUFFICES ASSUME content[p + 1] = Newline PROVE FALSE
  OBVIOUS
<1>3. PICK j \in 2 .. m - 1 : line_boundaries[j] = p
  BY DEF ScanInv, Scanned, Lists, Newlines
<1>4. j \in 2 .. m /\ k + 2 \in 2 .. m
  BY <1>1
<1>5. ~(k + 2 <= j)
  <2>1. CASE k + 2 = j
    BY <1>1, <1>3, <2>1
  <2>2. CASE k + 2 < j
    <3>1. line_boundaries[k + 2] < line_boundaries[j]
      BY <1>4, <2>2 DEF ScanInv, Ascends
    <3>2. line_boundaries[k + 2] \in Nat
      BY <1>1, <1>2, <1>4
    <3> QED
      BY <1>1, <1>3, <3>1, <3>2
  <2> QED
    BY <1>1, <2>1, <2>2
<1>6. k # 0 /\ j <= k + 1 /\ k + 1 \in 2 .. m
  BY <1>1, <1>3, <1>5
<1>7. CASE j = k + 1
  BY <1>3, <1>6, <1>7
<1>8. CASE j < k + 1
  <2>1. line_boundaries[j] < line_boundaries[k + 1]
    BY <1>4, <1>6, <1>8 DEF ScanInv, Ascends
  <2>2. line_boundaries[k + 1] \in Nat /\ line_boundaries[k + 1] < p
    BY <1>1, <1>2, <1>6
  <2> QED
    BY <1>1, <1>3, <2>1, <2>2
<1> QED
  BY <1>1, <1>6, <1>7, <1>8

(* The boundaries are the newlines, in order, and the size.                *)
LEMMA BoundariesAreExact == ScanInv => Scan!BoundariesExact
<1> SUFFICES ASSUME ScanInv, phase # "scan" PROVE Scan!BoundariesExact
  BY DEF Scan!BoundariesExact
<1> DEFINE m == Len(line_boundaries)
<1>1. /\ Len(content) \in Nat \ {0} /\ m \in Nat
  BY ScanFacts
<1>2. m \in 2 .. Len(content) + 2 /\ line_boundaries[m] = Len(content)
  BY BoundaryPlaces
<1>3. (m - 1) + 1 = m
  BY <1>1
<1>4. ASSUME NEW p \in 0 .. Len(content) - 1
      PROVE  content[p + 1] = Newline <=> \E k \in 1 .. (m - 1) - 1 : line_boundaries[k + 1] = p
  <2>1. ASSUME content[p + 1] = Newline PROVE \E k \in 1 .. (m - 1) - 1 : line_boundaries[k + 1] = p
    <3>1. PICK j \in 2 .. m - 1 : line_boundaries[j] = p
      BY <2>1 DEF ScanInv, Scanned, Lists, Newlines
    <3>2. j - 1 \in 1 .. (m - 1) - 1 /\ (j - 1) + 1 = j
      BY <1>1
    <3> QED
      BY <3>1, <3>2
  <2>2. ASSUME NEW k \in 1 .. (m - 1) - 1, line_boundaries[k + 1] = p PROVE content[p + 1] = Newline
    <3>1. k + 1 \in 2 .. m - 1
      BY <1>1
    <3>2. p \in Newlines(Len(content))
      BY <2>2, <3>1, BoundaryPlaces
    <3> QED
      BY <3>2 DEF Newlines
  <2> QED
    BY <2>1, <2>2
<1>5. ASSUME NEW k \in 1 .. (m - 1) - 1 PROVE line_boundaries[k + 1] < line_boundaries[(k + 1) + 1]
  <2>1. k + 1 \in 2 .. m /\ (k + 1) + 1 \in 2 .. m /\ k + 1 < (k + 1) + 1
    BY <1>1
  <2> QED
    BY <2>1 DEF ScanInv, Ascends
<1> QED
  BY <1>2, <1>3, <1>4, <1>5
  DEF Scan!BoundariesExact, Scan!Boundary, Scan!NumLines, Scan!NumBoundaries

(* A range of bytes, one by one.                                           *)
LEMMA ByteRange ==
  ASSUME NEW B, NEW q \in Seq(B), NEW a \in 0 .. Len(q), NEW b \in 0 .. Len(q), a <= b
  PROVE  /\ SubSeq(q, a + 1, b) \in Seq(B) /\ Len(SubSeq(q, a + 1, b)) = b - a
         /\ DOMAIN SubSeq(q, a + 1, b) = 1 .. b - a
         /\ \A n \in 1 .. b - a : SubSeq(q, a + 1, b)[n] = q[a + n]
<1>1. Len(q) \in Nat /\ a \in Nat /\ b \in Nat /\ \A n \in 1 .. Len(q) : q[n] \in B
  OBVIOUS
<1>2. a + 1 \in Int /\ b \in Int /\ \A n \in (a + 1) .. b : n \in 1 .. Len(q)
  BY <1>1
<1>3. /\ SubSeq(q, a + 1, b) \in Seq(B)
      /\ Len(SubSeq(q, a + 1, b)) = IF a + 1 <= b THEN b - (a + 1) + 1 ELSE 0
      /\ \A n \in 1 .. b - (a + 1) + 1 : SubSeq(q, a + 1, b)[n] = q[(a + 1) + n - 1]
  BY <1>1, <1>2, SubSeqProperties
<1>4. /\ (IF a + 1 <= b THEN b - (a + 1) + 1 ELSE 0) = b - a /\ b - (a + 1) + 1 = b - a
      /\ \A n \in 1 .. b - a : (a + 1) + n - 1 = a + n
  BY <1>1
<1> QED
  BY <1>3, <1>4

(* The same for the text.                                                  *)
LEMMA ContentRange ==
  ASSUME ScanInv, NEW a \in 0 .. Len(content), NEW b \in 0 .. Len(content), a <= b
  PROVE  LET u == SubSeq(content, a + 1, b)
         IN  /\ u \in Seq(0 .. Base - 1) /\ Len(u) = b - a /\ DOMAIN u = 1 .. b - a
             /\ \A n \in 1 .. b - a : u[n] = content[a + n]
<1> DEFINE B == 0 .. Base - 1
<1>1. content \in Seq(B)
  BY ScanFacts
<1> HIDE DEF B
<1>2. LET u == SubSeq(content, a + 1, b)
      IN  /\ u \in Seq(B) /\ Len(u) = b - a /\ DOMAIN u = 1 .. b - a
          /\ \A n \in 1 .. b - a : u[n] = content[a + n]
  BY <1>1, ByteRange
<1> QED
  BY <1>2 DEF B

(* An offset is where the verification of a line begins, at the newline    *)
(* before it.                                                              *)
LEMMA RangesAre ==
  ASSUME ScanInv, phase = "done", NEW k \in 0 .. Scan!NumLines - 1
  PROVE  Scan!VerifyRange(k) = IF k = 0 THEN Scan!Line(k) ELSE <<Newline>> \o Scan!Line(k)
<1> DEFINE m == Len(line_boundaries)
           a == line_boundaries[k + 1]
           b == line_boundaries[k + 2]
<1>1. /\ content \in Seq(0 .. Base - 1) /\ Len(content) \in Nat \ {0} /\ m \in Nat
      /\ k \in 0 .. m - 2 /\ k + 2 \in 2 .. m /\ (k + 1) + 1 = k + 2
  BY ScanFacts DEF Scan!NumLines, Scan!NumBoundaries
<1>2. b \in 0 .. Len(content)
  BY <1>1, BoundaryPlaces
<1>3. offsets[1] = 0 /\ offsets[k + 2] = b
  BY <1>1 DEF ScanInv, Copying
<1>4. (a + 1) % SizeMod = IF k = 0 THEN 0 ELSE a + 1
  BY <1>1, LineStart
<1>5. /\ Scan!VerifyRange(k) = SubSeq(content, offsets[k + 1] + 1, b)
      /\ Scan!Line(k) = SubSeq(content, ((a + 1) % SizeMod) + 1, b)
  <2>1. /\ Scan!VerifyRange(k) = SubSeq(content, offsets[k + 1] + 1, offsets[k + 2])
        /\ Scan!Line(k) = SubSeq(content, ((a + 1) % SizeMod) + 1, line_boundaries[(k + 1) + 1])
    BY DEF Scan!VerifyRange, Scan!Line, Scan!Bytes, Scan!Boundary
  <2>2. line_boundaries[(k + 1) + 1] = b
    BY <1>1
  <2> HIDE DEF a, b
  <2> QED
    BY <1>3, <2>1, <2>2
<1>6. CASE k = 0
  <2>1. offsets[k + 1] = 0 /\ (a + 1) % SizeMod = 0
    BY <1>3, <1>4, <1>6
  <2> HIDE DEF a, b
  <2> QED
    BY <1>5, <1>6, <2>1
<1>7. CASE k # 0
  <2>1. k + 1 \in 2 .. m /\ k + 1 \in 2 .. m - 1 /\ k + 1 < k + 2
    BY <1>1, <1>7
  <2>2. offsets[k + 1] = a /\ a \in 0 .. Len(content) /\ a \in Newlines(Len(content)) /\ a < b
    BY <1>1, <2>1, BoundaryPlaces DEF ScanInv, Copying, Ascends
  <2>3. content[a + 1] = Newline /\ Newline \in 0 .. Base - 1
    BY <2>2, IndexBuildAssumption DEF Newlines
  <2>4. a + 1 \in 0 .. Len(content) /\ a + 1 <= b /\ a <= b
    BY <1>1, <1>2, <2>2
  <2> DEFINE u == SubSeq(content, a + 1, b)
             v == SubSeq(content, (a + 1) + 1, b)
             w == <<Newline>> \o v
  <2>5. /\ u \in Seq(0 .. Base - 1) /\ Len(u) = b - a /\ \A n \in 1 .. b - a : u[n] = content[a + n]
    BY <1>2, <2>2, <2>4, ContentRange
  <2>6. /\ v \in Seq(0 .. Base - 1) /\ Len(v) = b - (a + 1)
        /\ \A n \in 1 .. b - (a + 1) : v[n] = content[(a + 1) + n]
    BY <1>2, <2>4, ContentRange
  <2> HIDE DEF u, v, a, b
  <2>7. b - (a + 1) \in Nat /\ b - a = 1 + (b - (a + 1)) /\ a \in Nat
    BY <1>1, <1>2, <2>2, <2>4
  <2>8. /\ w \in Seq(0 .. Base - 1) /\ Len(w) = 1 + (b - (a + 1)) /\ w[1] = Newline
        /\ \A n \in 2 .. b - a : w[n] = v[n - 1]
    BY <2>3, <2>6, <2>7
  <2>9. \A n \in 1 .. b - a : w[n] = u[n]
    <3> SUFFICES ASSUME NEW n \in 1 .. b - a PROVE w[n] = u[n]
      OBVIOUS
    <3>1. CASE n = 1
      BY <2>3, <2>5, <2>8, <3>1
    <3>2. CASE n # 1
      <4>1. n \in 2 .. b - a /\ n - 1 \in 1 .. b - (a + 1) /\ (a + 1) + (n - 1) = a + n
        BY <2>7, <3>2
      <4> QED
        BY <2>5, <2>6, <2>8, <4>1
    <3> QED
      BY <3>1, <3>2
  <2>10. w = u
    <3>1. w \in Seq(0 .. Base - 1) /\ u \in Seq(0 .. Base - 1)
      BY <2>5, <2>8
    <3>2. Len(w) = b - a /\ Len(u) = b - a
      BY <2>5, <2>7, <2>8
    <3> HIDE DEF w
    <3> QED
      BY <2>9, <3>1, <3>2, SeqEqual
  <2> QED
    BY <1>4, <1>5, <1>7, <2>2, <2>10 DEF u, v, a
<1> QED
  BY <1>6, <1>7

(* No newline lies between two boundaries that follow one another.         *)
LEMMA LinesHaveNoNewline ==
  ASSUME ScanInv, phase = "done", NEW k \in 0 .. Scan!NumLines - 1, NEW n \in DOMAIN Scan!Line(k)
  PROVE  Scan!Line(k)[n] # Newline
<1> DEFINE m == Len(line_boundaries)
           a == (line_boundaries[k + 1] + 1) % SizeMod
           b == line_boundaries[k + 2]
<1>1. /\ content \in Seq(0 .. Base - 1) /\ Len(content) \in Nat \ {0} /\ m \in Nat
      /\ k \in 0 .. m - 2 /\ k + 2 \in 2 .. m /\ (k + 1) + 1 = k + 2
  BY ScanFacts DEF Scan!NumLines, Scan!NumBoundaries
<1>2. b \in 0 .. Len(content)
  BY <1>1, BoundaryPlaces
<1>3. a = IF k = 0 THEN 0 ELSE line_boundaries[k + 1] + 1
  BY <1>1, LineStart
<1>4. a \in 0 .. Len(content) /\ a <= b /\ (k # 0 => line_boundaries[k + 1] < a)
  <2>1. CASE k = 0
    BY <1>1, <1>2, <1>3, <2>1
  <2>2. CASE k # 0
    <3>1. k + 1 \in 2 .. m /\ k + 1 < k + 2
      BY <1>1, <2>2
    <3>2. line_boundaries[k + 1] \in 0 .. Len(content) /\ line_boundaries[k + 1] < b
      BY <1>1, <3>1, BoundaryPlaces DEF ScanInv, Ascends
    <3> HIDE DEF a
    <3> QED
      BY <1>1, <1>2, <1>3, <2>2, <3>2
  <2> QED
    BY <2>1, <2>2
<1>5. Scan!Line(k) = SubSeq(content, a + 1, b)
  BY <1>1 DEF Scan!Line, Scan!Bytes, Scan!Boundary
<1> HIDE DEF a
<1>6. n \in 1 .. b - a /\ Scan!Line(k)[n] = content[a + n]
  BY <1>2, <1>4, <1>5, ContentRange
<1> HIDE DEF b
<1>7. a + n - 1 \in 0 .. Len(content) - 1 /\ a + n - 1 < b /\ (a + n - 1) + 1 = a + n
  BY <1>1, <1>2, <1>4, <1>6
<1>8. k # 0 => line_boundaries[k + 1] < a + n - 1
  <2> SUFFICES ASSUME k # 0 PROVE line_boundaries[k + 1] < a + n - 1
    OBVIOUS
  <2>1. k + 1 \in 1 .. m
    BY <1>1
  <2>2. line_boundaries[k + 1] \in Nat
    BY <2>1, ScanFacts
  <2> QED
    BY <1>1, <1>4, <1>6, <2>2
<1> QED
  BY <1>1, <1>6, <1>7, <1>8, NoneBetween DEF b

(* Both parts of LinesFound.                                               *)
LEMMA ScanInvFindsLines == ScanInv => Scan!LinesFound
<1> SUFFICES ASSUME ScanInv PROVE Scan!LinesFound
  OBVIOUS
<1>1. phase = "done" => Len(offsets) = Scan!NumLines + 1
  <2>1. Len(line_boundaries) \in Nat
    BY ScanFacts
  <2> QED
    BY <2>1 DEF ScanInv, Copying, Scan!NumLines, Scan!NumBoundaries
<1> QED
  BY <1>1, BoundariesAreExact, RangesAre, LinesHaveNoNewline
  DEF Scan!LinesFound, Scan!RangesAreLines


-----------------------------------------------------------------------------
(***************************************************************************)
(* The lines of the text, as the scan finds them and as TrigramIndex       *)
(* computes them.                                                          *)
(***************************************************************************)

(* TrigramIndex computes the boundaries that the scan found.               *)
LEMMA SameBoundaries ==
  ASSUME ScanInv, phase # "scan"
  PROVE  LET lb == Index!LineBoundaries(content)
         IN  /\ Len(lb) = Len(line_boundaries) /\ lb[1] = -1 /\ lb \in Seq(Int)
             /\ \A k \in 2 .. Len(line_boundaries) : lb[k] = line_boundaries[k]
<1> DEFINE m == Len(line_boundaries)
           n == Len(content)
           q == [k \in 1 .. m - 2 |-> line_boundaries[k + 1]]
           lb == << -1 >> \o q \o << n >>
<1>1. /\ n \in Nat \ {0} /\ m \in 2 .. n + 2 /\ m - 2 \in Nat /\ m \in Nat
      /\ line_boundaries[m] = n
      /\ \A k \in 2 .. m : line_boundaries[k] \in 0 .. n
  BY ScanFacts, BoundaryPlaces
<1>2. \A k \in 1 .. m - 2 : k + 1 \in 2 .. m - 1 /\ k + 1 \in 2 .. m
  BY <1>1
<1>3. q \in Seq(Nat) /\ Len(q) = m - 2 /\ DOMAIN q = 1 .. m - 2
  <2>1. \A k \in 1 .. m - 2 : line_boundaries[k + 1] \in Nat
    BY <1>1, <1>2
  <2> QED
    BY <1>1, <2>1
<1>4. StrictlyAscending(q)
  <2> SUFFICES ASSUME NEW j \in 1 .. m - 2, NEW k \in 1 .. m - 2, j < k
               PROVE  line_boundaries[j + 1] < line_boundaries[k + 1]
    BY <1>3 DEF StrictlyAscending
  <2>1. j + 1 < k + 1
    BY <1>1
  <2> QED
    BY <1>2, <2>1 DEF ScanInv, Ascends
<1>5. Range(q) = Newlines(n)
  <2>1. \A k \in 1 .. m - 2 : q[k] \in Newlines(n)
    BY <1>2, BoundaryPlaces
  <2>2. ASSUME NEW p \in Newlines(n) PROVE \E k \in 1 .. m - 2 : q[k] = p
    <3>1. PICK k \in 2 .. m - 1 : line_boundaries[k] = p
      BY <2>2 DEF ScanInv, Scanned, Lists
    <3>2. k - 1 \in 1 .. m - 2 /\ (k - 1) + 1 = k
      BY <1>1
    <3> QED
      BY <3>1, <3>2
  <2> HIDE DEF q
  <2> QED
    BY <1>3, <2>1, <2>2 DEF Range
<1>6. Index!Ascending(Newlines(n)) = q
  <2> HIDE DEF q
  <2> QED
    BY <1>3, <1>4, <1>5, AscendingIs
<1>7. Index!LineBoundaries(content) = lb
  <2> HIDE DEF q
  <2> QED
    BY <1>6 DEF Index!LineBoundaries, Newlines
<1>8. lb \in Seq(Int) /\ Len(lb) = m /\ lb[1] = -1 /\ lb[m] = n /\ \A k \in 2 .. m - 1 : lb[k] = q[k - 1]
  <2> HIDE DEF q, m
  <2>1. q \in Seq(Int) /\ Len(q) \in Nat
    BY <1>3
  <2>2. << -1 >> \o q \in Seq(Int) /\ Len(<< -1 >> \o q) = 1 + Len(q)
        /\ (<< -1 >> \o q)[1] = -1 /\ \A k \in 2 .. 1 + Len(q) : (<< -1 >> \o q)[k] = q[k - 1]
    BY <2>1
  <2> DEFINE r == << -1 >> \o q
  <2> HIDE DEF r
  <2>3. r \in Seq(Int) /\ Len(r) = m - 1 /\ r[1] = -1 /\ \A k \in 2 .. m - 1 : r[k] = q[k - 1]
    BY <1>1, <1>3, <2>2 DEF r
  <2>4. LET s == r \o << n >>
        IN  /\ s \in Seq(Int) /\ Len(s) = (m - 1) + 1 /\ s[(m - 1) + 1] = n
            /\ \A k \in 1 .. m - 1 : s[k] = r[k]
    BY <1>1, <2>3
  <2>5. (m - 1) + 1 = m /\ 1 \in 1 .. m - 1 /\ \A k \in 2 .. m - 1 : k \in 1 .. m - 1
    BY <1>1
  <2> QED
    BY <2>3, <2>4, <2>5 DEF r
<1> HIDE DEF lb
<1>9. \A k \in 2 .. m : lb[k] = line_boundaries[k]
  <2> SUFFICES ASSUME NEW k \in 2 .. m PROVE lb[k] = line_boundaries[k]
    OBVIOUS
  <2>1. CASE k = m
    BY <1>1, <1>8, <2>1
  <2>2. CASE k # m
    <3>1. k \in 2 .. m - 1 /\ k - 1 \in 1 .. m - 2 /\ (k - 1) + 1 = k
      BY <1>1, <2>2
    <3> QED
      BY <1>8, <3>1
  <2> QED
    BY <2>1, <2>2
<1> QED
  BY <1>7, <1>8, <1>9

(* The lines are the same, and so are their trigrams.                      *)
LEMMA SameLines ==
  ASSUME ScanInv, phase # "scan"
  PROVE  /\ Index!NumLines(content) = Len(line_boundaries) - 1
         /\ \A k \in 0 .. Len(line_boundaries) - 2 : LineBytes(k) = Index!Line(content, k)
         /\ [k \in 1 .. Len(line_boundaries) - 1 |-> LineGrams(k - 1)] = DocumentOf(content)
<1> DEFINE m == Len(line_boundaries)
           lb == Index!LineBoundaries(content)
<1>1. m \in Nat /\ m >= 2 /\ line_boundaries[1] = SizeMod - 1
      /\ \A k \in 1 .. m : line_boundaries[k] \in Nat
  BY ScanFacts, BoundaryPlaces
<1>2. Len(lb) = m /\ lb[1] = -1 /\ \A k \in 2 .. m : lb[k] = line_boundaries[k]
  BY SameBoundaries
<1>3. Index!NumLines(content) = m - 1
  BY <1>2 DEF Index!NumLines
<1>4. ASSUME NEW k \in 0 .. m - 2 PROVE LineBytes(k) = Index!Line(content, k)
  <2>1. k + 2 \in 2 .. m /\ k + 1 \in 1 .. m
    BY <1>1
  <2>2. lb[k + 2] = line_boundaries[k + 2]
    BY <1>2, <2>1
  <2>3. ((line_boundaries[k + 1] + 1) % SizeMod) + 1 = lb[k + 1] + 2
    <3>1. CASE k = 0
      <4>1. (line_boundaries[k + 1] + 1) % SizeMod = 0
        BY <3>1, LineStart
      <4>2. lb[k + 1] = -1
        BY <1>2, <3>1
      <4> HIDE DEF lb
      <4> QED
        BY <4>1, <4>2
    <3>2. CASE k # 0
      <4>1. k + 1 \in 2 .. m
        BY <1>1, <3>2
      <4>2. lb[k + 1] = line_boundaries[k + 1] /\ line_boundaries[k + 1] \in Nat
        BY <1>1, <1>2, <2>1, <4>1
      <4>3. (line_boundaries[k + 1] + 1) % SizeMod = line_boundaries[k + 1] + 1
        BY <3>2, LineStart
      <4> HIDE DEF lb
      <4> QED
        BY <4>2, <4>3
    <3> QED
      BY <3>1, <3>2
  <2>4. Index!Line(content, k) = SubSeq(content, lb[k + 1] + 2, lb[k + 2])
    BY DEF Index!Line
  <2>5. LineBytes(k) = SubSeq(content, ((line_boundaries[k + 1] + 1) % SizeMod) + 1, line_boundaries[k + 2])
    BY DEF LineBytes
  <2> HIDE DEF lb
  <2> QED
    BY <2>2, <2>3, <2>4, <2>5
<1>5. ASSUME NEW k \in 1 .. m - 1 PROVE LineGrams(k - 1) = Index!LineGrams(content, k - 1)
  <2>1. k - 1 \in 0 .. m - 2
    BY <1>1
  <2> QED
    BY <1>4, <2>1 DEF LineGrams, Index!LineGrams
<1> QED
  BY <1>3, <1>4, <1>5 DEF DocumentOf


-----------------------------------------------------------------------------
(***************************************************************************)
(* The whole build: its parts run one after the other, each from what the  *)
(* one before has left.                                                    *)
(***************************************************************************)

(* What create_shards leaves in the shards, as far as process_shards cares.*)
Fills == { f \in [Shard -> Seq(Pair)] : \A s \in Shard : IsInjective(f[s]) }

(* process_shards with what is proved of it, on the variables of the build.*)
P == INSTANCE ProcessShardsProofs WITH pc <- pool_pc, Fillings <- Fills

BuildInv ==
  /\ ScanInv
  /\ step \in {"scan", "create", "process", "built"}
  /\ step = "scan" => /\ document = <<>> /\ bar = NewBar(0) /\ ids = <<>>
                      /\ NotBegun /\ Process!Idle
  /\ step # "scan" => phase = "done" /\ document = DocumentOf(content) /\ CreateInv
  /\ step = "create" => Process!Idle /\ ids = <<>>
  /\ step = "process" => ids = <<>>
  /\ step \in {"process", "built"} => joined /\ P!LookupInv
  /\ step = "built" => main = "done" /\ ids \in { <<>>, [k \in DOMAIN line_boundaries |-> k - 1] }

(* What ProcessShards assumes of its constants.                            *)
LEMMA FillsFit ==
  /\ NumThreads \in Nat \ {0}
  /\ Fills \subseteq [P!Shard -> Seq(P!Pair)]
  /\ \A f \in Fills, s \in P!Shard : P!IsInjective(f[s])
<1>1. P!Shard = Shard /\ P!Pair = Pair
  BY DEF P!Shard, Shard, P!Pair, Pair, P!Offset, Offset, P!LineId, LineId
<1>2. \A f : P!IsInjective(f) <=> IsInjective(f)
  BY DEF P!IsInjective, IsInjective
<1> QED
  BY <1>1, <1>2, CreateShardsAssumption DEF Fills

(* The invariant of process_shards holds in the build.                     *)
LEMMA PoolBegins == P!Init => P!LookupInv
BY P!LookupInvInit, FillsFit, ShardDataAssumption

(* Every step of process_shards keeps it.                                  *)
LEMMA PoolGoesOn == P!LookupInv /\ [P!Next]_(P!vars) => P!LookupInv'
BY P!LookupInvStep, FillsFit, ShardDataAssumption


(* The values are the same in both instances of ProcessShards.             *)
LEMMA SameValues ==
  /\ Process!Gram = P!Gram /\ Process!Worker = P!Worker /\ Process!Shard = P!Shard
  /\ Process!NoWorker = P!NoWorker /\ Process!NoOffset = P!NoOffset
  /\ \A g : Process!ShardOffset(g) = P!ShardOffset(g) /\ Process!ShardIndex(g) = P!ShardIndex(g)
  /\ \A s, o : Process!GramOf(s, o) = P!GramOf(s, o)
  /\ \A s : Process!Sortings(s) = P!Sortings(s)
<1>1. \A a, b : Process!PairLess(a, b) <=> P!PairLess(a, b)
  BY DEF Process!PairLess, P!PairLess
<1>2. \A s : Process!Sorted(s) <=> P!Sorted(s)
  BY <1>1 DEF Process!Sorted, P!Sorted
<1>3. \A S, T : Process!Bijection(S, T) = P!Bijection(S, T)
  BY DEF Process!Bijection, P!Bijection, Process!Injection, P!Injection,
         Process!Surjection, P!Surjection, Process!IsInjective, P!IsInjective
<1>4. \A s : Process!Sortings(s) = P!Sortings(s)
  BY <1>2, <1>3 DEF Process!Sortings, P!Sortings
<1>5. /\ Process!Gram = P!Gram /\ Process!Worker = P!Worker /\ Process!Shard = P!Shard
      /\ Process!NoWorker = P!NoWorker /\ Process!NoOffset = P!NoOffset
  BY DEF Process!Gram, P!Gram, Process!Worker, P!Worker, Process!Shard, P!Shard,
         Process!NoWorker, P!NoWorker, Process!NoOffset, P!NoOffset
<1>6. /\ \A g : Process!ShardOffset(g) = P!ShardOffset(g) /\ Process!ShardIndex(g) = P!ShardIndex(g)
      /\ \A s, o : Process!GramOf(s, o) = P!GramOf(s, o)
  BY DEF Process!ShardOffset, P!ShardOffset, Process!ShardIndex, P!ShardIndex,
         Process!GramOf, P!GramOf
<1> QED
  BY <1>4, <1>5, <1>6

(* process_shards begins.                                                  *)
LEMMA SameStart == Process!Idle /\ shards \in Fills => P!Init
BY SameValues DEF Process!Idle, P!Idle, P!Init

(* A step of one instance is one of the other.                             *)
LEMMA SameMainStep == Process!MainStep => P!MainStep
<1>1. Process!FindShard => P!FindShard
  BY DEF Process!FindShard, P!FindShard, Process!countVars, P!countVars
<1>2. Process!StartPool => P!StartPool
  BY DEF Process!StartPool, P!StartPool, Process!countVars, P!countVars
<1>3. Process!Join => P!Join
  BY SameValues DEF Process!Join, P!Join, Process!countVars, P!countVars
<1>4. Process!MapGram => P!MapGram
  BY SameValues DEF Process!MapGram, P!MapGram, Process!countVars, P!countVars
<1>5. Process!MapDone => P!MapDone
  BY SameValues DEF Process!MapDone, P!MapDone, Process!countVars, P!countVars
<1> QED
  BY <1>1, <1>2, <1>3, <1>4, <1>5 DEF Process!MainStep, P!MainStep

(* A step of a thread is one of the instance that the proofs are about,    *)
LEMMA SameWorkerStep ==
  ASSUME NEW w
  PROVE  Process!WorkerStep(w) => P!WorkerStep(w)
<1> USE DEF Process!ShardOf, P!ShardOf, Process!NumJobs, P!NumJobs, Process!Pairs, P!Pairs,
            Process!Goto, P!Goto, Process!mainVars, P!mainVars, Process!countVars, P!countVars
<1>1. Process!Consolidate(w) => P!Consolidate(w)
  BY SameValues DEF Process!Consolidate, P!Consolidate
<1>2. Process!StoreCount(w) <=> P!StoreCount(w)
  BY SameValues DEF Process!StoreCount, P!StoreCount
<1>3. Process!CountPair(w) => P!CountPair(w)
  BY <1>2, SameValues DEF Process!CountPair, P!CountPair
<1>4. Process!CountLast(w) => P!CountLast(w)
  BY <1>2 DEF Process!CountLast, P!CountLast
<1>5. Process!Turn(w) => P!Turn(w)
  BY DEF Process!Turn, P!Turn
<1>6. Process!Wait(w) => P!Wait(w)
  BY SameValues DEF Process!Wait, P!Wait
<1>7. Process!Write(w) => P!Write(w)
  BY DEF Process!Write, P!Write, Process!Entry, P!Entry
<1>8. Process!Advance(w) => P!Advance(w)
  BY DEF Process!Advance, P!Advance
<1>9. Process!NotifyAll(w) => P!NotifyAll(w)
  BY SameValues DEF Process!NotifyAll, P!NotifyAll
<1>10. Process!Unlock(w) => P!Unlock(w)
  BY SameValues DEF Process!Unlock, P!Unlock
<1>11. Process!Return(w) => P!Return(w)
  BY DEF Process!Return, P!Return
<1> QED
  BY <1>1, <1>3, <1>4, <1>5, <1>6, <1>7, <1>8, <1>9, <1>10, <1>11
  DEF Process!WorkerStep, P!WorkerStep

(* and so is taking the mutex.                                             *)
LEMMA SameLock ==
  ASSUME NEW w
  PROVE  /\ Process!Lock(w) => P!Lock(w)
         /\ Process!SpuriousWakeup(w) => P!SpuriousWakeup(w)
<1> USE DEF Process!Goto, P!Goto, Process!mainVars, P!mainVars, Process!countVars, P!countVars
<1>1. Process!Lock(w) => P!Lock(w)
  BY SameValues DEF Process!Lock, P!Lock
<1>2. Process!SpuriousWakeup(w) => P!SpuriousWakeup(w)
  BY DEF Process!SpuriousWakeup, P!SpuriousWakeup
<1> QED
  BY <1>1, <1>2


(* process_shards takes the shards as they are.                            *)
LEMMA ShardsKept ==
  /\ P!MainStep => shards' = shards
  /\ \A w : P!WorkerStep(w) \/ P!Lock(w) \/ P!SpuriousWakeup(w) => shards' = shards
<1>1. P!MainStep => shards' = shards
  BY DEF P!MainStep, P!FindShard, P!StartPool, P!Join, P!MapGram, P!MapDone
<1>2. ASSUME NEW w PROVE P!WorkerStep(w) \/ P!Lock(w) \/ P!SpuriousWakeup(w) => shards' = shards
  BY DEF P!WorkerStep, P!Lock, P!SpuriousWakeup, P!Consolidate, P!CountPair, P!CountLast, P!Turn,
         P!Wait, P!Write, P!Advance, P!NotifyAll, P!Unlock, P!Return
<1> QED
  BY <1>1, <1>2

(* Init, one step later.                                                   *)
LEMMA CreationBegins == Init' => CreateInv'
BY CreateInvInit, PTL

(* Init of process_shards, one step later.                                 *)
LEMMA PoolBeginsLater == P!Init' => P!LookupInv'
BY PoolBegins, PTL

(* What a step leaves alone keeps its invariant.                           *)
LEMMA Unchanged ==
  /\ CreateInv /\ UNCHANGED vars => CreateInv'
  /\ P!LookupInv /\ UNCHANGED P!vars => P!LookupInv'
  /\ Process!Idle /\ UNCHANGED processVars => Process!Idle'
<1>1. Process!Idle /\ UNCHANGED processVars => Process!Idle'
  BY DEF Process!Idle, processVars
<1> QED
  BY <1>1, CreateInvStep, PoolGoesOn

(* The build begins with the scan.                                         *)
LEMMA BuildInvInit == BuildInit => BuildInv
BY ScanInvInit DEF BuildInit, BuildInv

(* A step of the scan.                                                     *)
LEMMA BuildScans == BuildInv /\ ScanStep => BuildInv'
<1> SUFFICES ASSUME BuildInv, ScanStep PROVE BuildInv'
  OBVIOUS
<1>1. step = "scan" /\ Scan!Next /\ UNCHANGED <<step, ids, createVars, shards, processVars>>
  BY DEF ScanStep
<1>2. ScanInv'
  BY <1>1, ScanInvStep DEF BuildInv
<1>3. document = <<>> /\ bar = NewBar(0) /\ ids = <<>> /\ NotBegun /\ Process!Idle
  BY <1>1 DEF BuildInv
<1>4. NotBegun'
  BY <1>1, <1>3 DEF NotBegun, createVars, workerVars, mainVars
<1>5. Process!Idle'
  BY <1>1, <1>3, Unchanged
<1> QED
  BY <1>1, <1>2, <1>3, <1>4, <1>5 DEF BuildInv, createVars, mainVars

(* create_shards begins with the trigrams of the lines of the text.        *)
LEMMA BuildStartsCreation == BuildInv /\ StartCreation => BuildInv'
<1> SUFFICES ASSUME BuildInv, StartCreation PROVE BuildInv'
  OBVIOUS
<1>1. /\ step = "scan" /\ phase = "done" /\ step' = "create"
      /\ document' = [k \in 1 .. Len(line_boundaries) - 1 |-> LineGrams(k - 1)]
      /\ bar' = NewBar(Len(line_boundaries))
      /\ UNCHANGED <<ids, scanVars, longest_line, shards, workerVars, joined, terminated, processVars>>
  BY DEF StartCreation
<1>2. ScanInv /\ ScanInv'
  BY <1>1, ScanInvStays DEF BuildInv
<1>3. document' = DocumentOf(content) /\ content' = content /\ phase' = phase
  BY <1>1, <1>2, SameLines DEF scanVars
<1>4. content \in Texts /\ longest_line \in 0 .. Len(content)
  BY <1>2 DEF ScanInv, ScanTypes, Measuring
<1>5. document' \in Documents /\ longest_line' \in LongestLines
  BY <1>1, <1>3, <1>4, IndexBuildAssumption
<1>6. NumLines' + 1 = Len(line_boundaries)
  <2>1. Len(line_boundaries) - 1 \in Nat
    BY <1>2, ScanFacts
  <2> QED
    BY <1>1, <2>1 DEF NumLines
<1>7. NotBegun /\ ids = <<>> /\ Process!Idle
  BY <1>1 DEF BuildInv
<1>8. NotBegun'
  BY <1>1, <1>7 DEF NotBegun, workerVars
<1>9. Init'
  BY <1>1, <1>5, <1>6, <1>8 DEF Init
<1>10. CreateInv'
  BY <1>9, CreationBegins
<1>11. Process!Idle'
  BY <1>1, <1>7, Unchanged
<1>12. DocumentOf(content)' = DocumentOf(content)
  BY <1>3
<1> QED
  BY <1>1, <1>2, <1>3, <1>7, <1>10, <1>11, <1>12 DEF BuildInv

(* A step of create_shards.                                                *)
LEMMA BuildCreates == BuildInv /\ ((\E w \in Worker : CreateThread(w)) \/ FinishCreation) => BuildInv'
<1> SUFFICES ASSUME BuildInv, (\E w \in Worker : CreateThread(w)) \/ FinishCreation PROVE BuildInv'
  OBVIOUS
<1>1. /\ step = "create" /\ Next /\ UNCHANGED <<step, ids, scanVars, processVars>>
      /\ UNCHANGED inputs
  <2>1. CASE FinishCreation
    BY <2>1 DEF FinishCreation, Finish, Next
  <2>2. ASSUME NEW w \in Worker, CreateThread(w)
        PROVE  /\ step = "create" /\ Next /\ UNCHANGED <<step, ids, scanVars, processVars>>
               /\ UNCHANGED inputs
    BY <2>2 DEF CreateThread, Next, WorkerStep, Start, TakeLine, PushGram, NextLine, LinesDone,
                Flush, Return
  <2> QED
    BY <2>1, <2>2
<1>2. /\ ScanInv /\ phase = "done" /\ document = DocumentOf(content) /\ CreateInv
      /\ Process!Idle /\ ids = <<>>
  BY <1>1 DEF BuildInv
<1>3. ScanInv'
  BY <1>1, <1>2, ScanInvStays DEF inputs
<1>4. CreateInv'
  BY <1>1, <1>2, CreateInvStep
<1>5. Process!Idle'
  BY <1>1, <1>2, Unchanged
<1>6. document' = document /\ content' = content /\ phase' = phase
  BY <1>1 DEF inputs, scanVars
<1> QED
  BY <1>1, <1>2, <1>3, <1>4, <1>5, <1>6 DEF BuildInv

(* The pairs of each shard when the workers are done.                      *)
LEMMA CreationFills == CreateInv /\ joined => shards \in Fills
<1> SUFFICES ASSUME CreateInv, joined PROVE shards \in Fills
  OBVIOUS
<1>1. shards \in [Shard -> Seq(Pair)]
  BY DEF CreateInv, TypeOK
<1>2. ASSUME NEW s \in Shard PROVE IsInjective(shards[s])
  BY DEF CreateInv, Distributed, Holds
<1> QED
  BY <1>1, <1>2 DEF Fills

(* process_shards begins with filled shards.                               *)
LEMMA BuildStartsProcessing == BuildInv /\ StartProcessing => BuildInv'
<1> SUFFICES ASSUME BuildInv, StartProcessing PROVE BuildInv'
  OBVIOUS
<1>1. /\ step = "create" /\ joined /\ step' = "process"
      /\ UNCHANGED <<ids, scanVars, createVars, longest_line, shards, processVars>>
  BY DEF StartProcessing
<1>2. /\ ScanInv /\ phase = "done" /\ document = DocumentOf(content) /\ CreateInv
      /\ Process!Idle /\ ids = <<>>
  BY <1>1 DEF BuildInv
<1>3. ScanInv'
  BY <1>1, <1>2, ScanInvStays
<1>4. CreateInv'
  BY <1>1, <1>2, Unchanged DEF vars, inputs, createVars
<1>5. P!LookupInv
  BY <1>1, <1>2, CreationFills, SameStart, PoolBegins
<1>6. P!LookupInv'
  BY <1>1, <1>5, Unchanged DEF P!vars, P!mainVars, P!countVars, processVars
<1>7. document' = document /\ content' = content /\ phase' = phase /\ joined' = joined
  BY <1>1 DEF createVars, scanVars, mainVars
<1> QED
  BY <1>1, <1>2, <1>3, <1>4, <1>6, <1>7 DEF BuildInv

(* A step of process_shards.                                               *)
LEMMA BuildProcesses ==
  ASSUME BuildInv, step = "process", UNCHANGED <<step, ids, scanVars, createVars, longest_line>>,
         P!Next, shards' = shards
  PROVE  BuildInv'
<1>1. /\ ScanInv /\ phase = "done" /\ document = DocumentOf(content) /\ CreateInv
      /\ P!LookupInv /\ ids = <<>> /\ joined
  BY DEF BuildInv
<1>2. ScanInv'
  BY <1>1, ScanInvStays
<1>3. CreateInv'
  BY <1>1, Unchanged DEF vars, inputs, createVars
<1>4. P!LookupInv'
  BY <1>1, PoolGoesOn
<1>5. document' = document /\ content' = content /\ phase' = phase /\ joined' = joined
      /\ ids' = ids /\ step' = step
  BY DEF createVars, scanVars, mainVars
<1> QED
  BY <1>1, <1>2, <1>3, <1>4, <1>5 DEF BuildInv

(* build_ids.                                                              *)
LEMMA BuildWritesIds == BuildInv /\ BuildIds => BuildInv'
<1> SUFFICES ASSUME BuildInv, BuildIds PROVE BuildInv'
  OBVIOUS
<1>1. /\ step = "process" /\ main = "done" /\ step' = "built"
      /\ ids' \in { <<>>, [k \in DOMAIN line_boundaries |-> k - 1] }
      /\ UNCHANGED <<scanVars, createVars, longest_line, shards, processVars>>
  BY DEF BuildIds
<1>2. /\ ScanInv /\ phase = "done" /\ document = DocumentOf(content) /\ CreateInv
      /\ P!LookupInv /\ joined
  BY <1>1 DEF BuildInv
<1>3. ScanInv'
  BY <1>1, <1>2, ScanInvStays
<1>4. CreateInv'
  BY <1>1, <1>2, Unchanged DEF vars, inputs, createVars
<1>5. P!LookupInv'
  BY <1>1, <1>2, Unchanged DEF P!vars, P!mainVars, P!countVars, processVars
<1>6. document' = document /\ content' = content /\ phase' = phase /\ joined' = joined
      /\ main' = main /\ line_boundaries' = line_boundaries
  BY <1>1 DEF createVars, scanVars, mainVars, processVars
<1> QED
  BY <1>1, <1>2, <1>3, <1>4, <1>5, <1>6 DEF BuildInv

(* A step that changes nothing.                                            *)
LEMMA BuildRests == BuildInv /\ UNCHANGED buildVars => BuildInv'
<1> SUFFICES ASSUME BuildInv, UNCHANGED buildVars PROVE BuildInv'
  OBVIOUS
<1>1. UNCHANGED <<step, ids, scanVars, createVars, longest_line, shards, processVars>>
  BY DEF buildVars
<1>2. ScanInv'
  BY <1>1, ScanInvStays DEF BuildInv
<1>3. step # "scan" => CreateInv'
  BY <1>1, Unchanged DEF BuildInv, vars, inputs, createVars
<1>4. step \in {"process", "built"} => P!LookupInv'
  BY <1>1, Unchanged DEF BuildInv, P!vars, P!mainVars, P!countVars, processVars
<1>5. step \in {"scan", "create"} => Process!Idle'
  BY <1>1, Unchanged DEF BuildInv
<1>6. step = "scan" => NotBegun'
  BY <1>1 DEF BuildInv, NotBegun, createVars, workerVars, mainVars
<1>7. document' = document /\ content' = content /\ phase' = phase /\ joined' = joined
      /\ main' = main /\ line_boundaries' = line_boundaries /\ step' = step /\ ids' = ids
      /\ bar' = bar
  BY <1>1 DEF createVars, scanVars, mainVars, processVars
<1> QED
  BY <1>2, <1>3, <1>4, <1>5, <1>6, <1>7 DEF BuildInv

(* Every step of the build keeps its invariant.                            *)
LEMMA BuildInvStep == BuildInv /\ [BuildNext]_buildVars => BuildInv'
<1> SUFFICES ASSUME BuildInv, [BuildNext]_buildVars PROVE BuildInv'
  OBVIOUS
<1>1. CASE InProcess(Process!MainStep)
  BY <1>1, SameMainStep, ShardsKept, BuildProcesses DEF InProcess, P!Next
<1>2. ASSUME NEW w \in Worker,
             ProcessThread(w) \/ ProcessLock(w) \/ InProcess(Process!SpuriousWakeup(w))
      PROVE  BuildInv'
  <2>1. /\ step = "process" /\ UNCHANGED <<step, ids, scanVars, createVars, longest_line>>
        /\ Process!WorkerStep(w) \/ Process!Lock(w) \/ Process!SpuriousWakeup(w)
    BY <1>2 DEF ProcessThread, ProcessLock, InProcess
  <2>2. P!WorkerStep(w) \/ P!Lock(w) \/ P!SpuriousWakeup(w)
    BY <2>1, SameWorkerStep, SameLock
  <2>3. w \in P!Worker
    BY <1>2 DEF P!Worker, Worker
  <2> QED
    BY <2>1, <2>2, <2>3, ShardsKept, BuildProcesses DEF P!Next
<1>3. CASE UNCHANGED buildVars
  BY <1>3, BuildRests
<1> QED
  BY <1>1, <1>2, <1>3, BuildScans, BuildStartsCreation, BuildCreates, BuildStartsProcessing,
     BuildWritesIds
  DEF BuildNext, MainThread, BuildEnded


-----------------------------------------------------------------------------
(***************************************************************************)
(* The finished files and the text.                                        *)
(***************************************************************************)

(* The trigrams of some bytes are numbers that a trigram can be.           *)
LEMMA TrigramsFit ==
  ASSUME NEW bytes \in Seq(0 .. Base - 1)
  PROVE  Index!UniqueTrigrams(bytes) \subseteq Gram
<1> DEFINE B == 0 .. Base - 1
<1>1. Base \in Nat \ {0} /\ NumShards = Base /\ OffsetsPerShard = Base * Base
  BY IndexBuildAssumption, ShardDataAssumption
<1>2. Len(bytes) \in Nat /\ \A n \in 1 .. Len(bytes) : bytes[n] \in B
  BY ElementOfSeq, LenProperties
<1> HIDE DEF B
<1>3. ASSUME NEW i \in 1 .. Len(bytes) - 2
      PROVE  Index!BuildTrigram(SubSeq(bytes, i, i + 2)) \in Gram
  <2> DEFINE b == SubSeq(bytes, i, i + 2)
  <2>1. i \in Int /\ i + 2 \in Int /\ \A n \in i .. i + 2 : n \in 1 .. Len(bytes)
    BY <1>2
  <2>2. \A n \in 1 .. (i + 2) - i + 1 : b[n] = bytes[i + n - 1]
    BY <1>2, <2>1, SubSeqProperties
  <2>3. /\ 1 \in 1 .. (i + 2) - i + 1 /\ 2 \in 1 .. (i + 2) - i + 1 /\ 3 \in 1 .. (i + 2) - i + 1
        /\ i + 1 - 1 \in i .. i + 2 /\ i + 2 - 1 \in i .. i + 2 /\ i + 3 - 1 \in i .. i + 2
    BY <2>1
  <2> HIDE DEF b
  <2>4. b[1] \in B /\ b[2] \in B /\ b[3] \in B
    BY <1>2, <2>1, <2>2, <2>3
  <2>5. b[2] * Base + b[1] \in 0 .. Base * Base - 1
    BY <1>1, <2>4, HighWithLow DEF B
  <2>6. Base * Base \in Nat \ {0}
    BY <1>1
  <2>7. b[3] * (Base * Base) + (b[2] * Base + b[1]) \in 0 .. Base * (Base * Base) - 1
    BY <1>1, <2>4, <2>5, <2>6, HighWithLow DEF B
  <2>8. b[3] * Base * Base + b[2] * Base + b[1] = b[3] * (Base * Base) + (b[2] * Base + b[1])
    <3>1. b[1] \in Int /\ b[2] \in Int /\ b[3] \in Int /\ Base \in Int
      BY <1>1, <2>4 DEF B
    <3> DEFINE x == b[1]
               y == b[2]
               z == b[3]
    <3>2. x \in Int /\ y \in Int /\ z \in Int /\ Base \in Int
      BY <3>1
    <3> HIDE DEF x, y, z
    <3>3. z * Base * Base + y * Base + x = z * (Base * Base) + (y * Base + x)
      BY ONLY <3>2, Grouped
    <3> QED
      BY <3>3 DEF x, y, z
  <2> QED
    BY <1>1, <2>7, <2>8 DEF Index!BuildTrigram, Gram, b
<1> QED
  BY <1>3 DEF Index!UniqueTrigrams

(* The bytes of a line are bytes.                                          *)
LEMMA BytesOfLine ==
  ASSUME ScanInv, phase # "scan", NEW k \in 0 .. Len(line_boundaries) - 2
  PROVE  LineBytes(k) \in Seq(0 .. Base - 1)
<1> DEFINE a == (line_boundaries[k + 1] + 1) % SizeMod
           b == line_boundaries[k + 2]
           B == 0 .. Base - 1
<1>1. /\ content \in Seq(B) /\ Len(content) \in Nat /\ Len(line_boundaries) \in Nat
  BY ScanFacts
<1>2. k + 2 \in 2 .. Len(line_boundaries)
  BY <1>1
<1>3. b \in 0 .. Len(content)
  BY <1>2, BoundaryPlaces
<1>4. a \in Nat
  <2>1. CASE k = 0
    BY <2>1, LineStart
  <2>2. CASE k # 0
    <3>1. k + 1 \in 2 .. Len(line_boundaries)
      BY <1>1, <2>2
    <3>2. line_boundaries[k + 1] \in Nat
      BY <1>1, <3>1, BoundaryPlaces
    <3>3. a = line_boundaries[k + 1] + 1
      BY <2>2, LineStart
    <3> HIDE DEF a
    <3> QED
      BY <3>2, <3>3
  <2> QED
    BY <2>1, <2>2
<1> HIDE DEF a, b, B
<1>5. \A n \in 1 .. Len(content) : content[n] \in B
  BY <1>1, ElementOfSeq
<1>6. a + 1 \in Int /\ b \in Int /\ \A n \in a + 1 .. b : n \in 1 .. Len(content)
  BY <1>1, <1>3, <1>4
<1>7. SubSeq(content, a + 1, b) \in Seq(B)
  BY <1>5, <1>6, SubSeqProperties
<1> QED
  BY <1>7 DEF LineBytes, a, b, B

(* Once the lines are found they are bytes, and the document has the       *)
(* trigrams of each.                                                       *)
LEMMA DocumentGrams ==
  ASSUME BuildInv, step # "scan"
  PROVE  /\ NumLines = Index!NumLines(content) /\ NumLines \in Nat /\ NumLines <= MaxLineId + 1
         /\ MaxLineId \in Nat /\ DOMAIN document = 1 .. NumLines
         /\ \A k \in 0 .. NumLines - 1 :
              /\ Range(document[k + 1]) = Index!UniqueTrigrams(Index!Line(content, k))
              /\ Index!UniqueTrigrams(Index!Line(content, k)) \subseteq Gram
<1> DEFINE L == Index!NumLines(content)
           m == Len(line_boundaries)
<1>1. ScanInv /\ phase = "done" /\ document = DocumentOf(content) /\ document \in Documents
  BY DEF BuildInv, CreateInv, TypeOK
<1>2. /\ NumLines \in Nat /\ NumLines <= MaxLineId + 1 /\ MaxLineId \in Nat
      /\ DOMAIN document = 1 .. NumLines
  BY <1>1, Lines
<1>3. L = m - 1 /\ m \in Nat /\ m >= 2
  BY <1>1, SameLines, BoundaryPlaces, ScanFacts
<1>4. document = [k \in 1 .. L |-> Index!LineGrams(content, k - 1)]
  BY <1>1 DEF DocumentOf
<1>5. L \in Nat
  BY <1>3
<1> HIDE DEF L
<1>6. NumLines = L
  BY <1>4, <1>5 DEF NumLines
<1>7. ASSUME NEW k \in 0 .. L - 1
      PROVE  /\ Range(document[k + 1]) = Index!UniqueTrigrams(Index!Line(content, k))
             /\ Index!UniqueTrigrams(Index!Line(content, k)) \subseteq Gram
  <2>1. k \in 0 .. m - 2 /\ k + 1 \in 1 .. L /\ (k + 1) - 1 = k
    BY <1>3, <1>5
  <2>2. LineBytes(k) = Index!Line(content, k)
    BY <1>1, <2>1, SameLines
  <2>3. LineBytes(k) \in Seq(0 .. Base - 1)
    BY <1>1, <2>1, BytesOfLine
  <2>4. Index!UniqueTrigrams(Index!Line(content, k)) \subseteq Gram
    BY <2>2, <2>3, TrigramsFit
  <2>5. NumShards * OffsetsPerShard \in Nat
    BY ShardDataAssumption
  <2>6. Range(Index!Ascending(Index!UniqueTrigrams(Index!Line(content, k))))
          = Index!UniqueTrigrams(Index!Line(content, k))
    BY <2>4, <2>5, AscendingLists DEF Gram
  <2>7. document[k + 1] = Index!LineGrams(content, k)
    BY <1>4, <2>1
  <2> QED
    BY <2>4, <2>6, <2>7 DEF Index!LineGrams
<1> QED
  BY <1>2, <1>6, <1>7 DEF L


(* The lines of the text that hold a trigram.                              *)
LinesWith(g) ==
  { k \in 0 .. NumLines - 1 : g \in Index!UniqueTrigrams(Index!Line(content, k)) }

(* The shards have the lines of each trigram, once create_shards is done.  *)
LEMMA ShardsHaveLines ==
  ASSUME BuildInv, step # "scan", joined, NEW g \in Gram
  PROVE  P!LinesOf(g) = LinesWith(g)
<1> DEFINE s == ShardIndex(g)
           o == ShardOffset(g)
<1>1. s \in Shard /\ o \in Offset /\ GramOf(s, o) = g
  BY HighAndLow, ShardDataAssumption DEF ShardIndex, ShardOffset, GramOf, Shard, Offset, Gram
<1>2. CreateInv /\ AllDone
  BY DEF BuildInv, CreateInv, BarInStep
<1>3. Range(shards[s]) = { p \in Pair : Belongs(s, p) }
  BY <1>1, <1>2, CreateInvFills DEF Filled
<1>4. P!LinesOf(g) = { shards[s][i].line_id : i \in { n \in DOMAIN shards[s] : shards[s][n].shard_offset = o } }
  BY DEF P!LinesOf, P!ShardIndex, ShardIndex, P!ShardOffset, ShardOffset
<1> HIDE DEF s, o
<1>5. /\ NumLines \in Nat /\ NumLines <= MaxLineId + 1 /\ MaxLineId \in Nat
      /\ DOMAIN document = 1 .. NumLines
      /\ \A k \in 0 .. NumLines - 1 :
           Range(document[k + 1]) = Index!UniqueTrigrams(Index!Line(content, k))
  BY DocumentGrams
<1>6. ASSUME NEW k \in 0 .. NumLines - 1, g \in Index!UniqueTrigrams(Index!Line(content, k))
      PROVE  k \in P!LinesOf(g)
  <2> DEFINE p == [shard_offset |-> o, line_id |-> k]
  <2>1. k \in LineId /\ k + 1 \in 1 .. NumLines
    BY <1>5 DEF LineId
  <2>2. p \in Pair /\ p.shard_offset = o /\ p.line_id = k
    BY <1>1, <2>1 DEF Pair
  <2>3. Belongs(s, p)
    BY <1>1, <1>5, <1>6, <2>1, <2>2 DEF Belongs
  <2>4. p \in Range(shards[s])
    BY <1>3, <2>2, <2>3
  <2>5. PICK i \in DOMAIN shards[s] : shards[s][i] = p
    BY <2>4 DEF Range
  <2> QED
    BY <1>4, <2>2, <2>5
<1>7. ASSUME NEW k \in P!LinesOf(g) PROVE k \in LinesWith(g)
  <2>1. PICK i \in DOMAIN shards[s] : shards[s][i].shard_offset = o /\ k = shards[s][i].line_id
    BY <1>4
  <2>2. shards[s][i] \in Pair /\ Belongs(s, shards[s][i])
    <3>1. shards[s][i] \in Range(shards[s])
      BY DEF Range
    <3> QED
      BY <1>3, <3>1
  <2>3. k \in LineId /\ k + 1 \in 1 .. NumLines /\ g \in Range(document[k + 1])
    BY <1>1, <1>5, <2>1, <2>2 DEF Belongs, Pair
  <2>4. k \in 0 .. NumLines - 1
    BY <1>5, <2>3 DEF LineId
  <2> QED
    BY <1>5, <2>3, <2>4 DEF LinesWith
<1> QED
  BY <1>6, <1>7 DEF LinesWith

(* What the finished files are made of.                                    *)
LEMMA Finished ==
  ASSUME BuildInv, step = "built"
  PROVE  /\ index_file \in Seq(P!Record) /\ mapping \in [Gram -> [offset : Nat, count : Nat]]
         /\ \A n \in DOMAIN index_file : P!FileGram(n) \in Gram
         /\ \A m, n \in DOMAIN index_file : m < n => P!FileGram(m) <= P!FileGram(n)
         /\ \A g \in Gram :
              IF mapping[g].count # 0 THEN P!Stretch(g, mapping[g].offset)
              ELSE mapping[g].offset = 0 /\ \A n \in DOMAIN index_file : P!FileGram(n) # g
         /\ P!LookupExact
<1>1. P!LookupInv /\ main = "done"
  BY DEF BuildInv
<1>2. P!Gram = Gram
  BY DEF P!Gram, Gram
<1>3. P!LookupExact
  BY <1>1, P!LookupFound, FillsFit, ShardDataAssumption
<1>4. /\ index_file \in Seq(P!Record) /\ mapping \in [P!Gram -> [offset : Nat, count : Nat]]
      /\ \A n \in DOMAIN index_file : P!FileGram(n) \in P!Gram
      /\ \A m, n \in DOMAIN index_file : m < n => P!FileGram(m) <= P!FileGram(n)
      /\ \A g \in P!Gram :
           IF mapping[g].count # 0 THEN P!Stretch(g, mapping[g].offset)
           ELSE mapping[g].offset = 0 /\ \A n \in DOMAIN index_file : P!FileGram(n) # g
  BY <1>1, P!FinishedFiles, FillsFit, ShardDataAssumption
<1> QED
  BY <1>2, <1>3, <1>4

(* A lookup is the postings of the trigram in the text.                    *)
LEMMA LookupIsPostings ==
  ASSUME BuildInv, step = "built", NEW g \in Gram
  PROVE  LET p == Index!Postings(content, g)
         IN  /\ p \in Seq(Nat) /\ Len(p) = mapping[g].count
             /\ \A i \in 1 .. Len(p) : /\ mapping[g].offset + i \in 1 .. Len(index_file)
                                       /\ index_file[mapping[g].offset + i].line_id = p[i]
             /\ p = <<>> <=> LinesWith(g) = {}
<1> DEFINE q == P!Lookup(g)
           c == mapping[g].count
           a == mapping[g].offset
           L == Len(index_file)
<1>1. /\ index_file \in Seq(P!Record) /\ mapping[g] \in [offset : Nat, count : Nat]
      /\ g \in P!Gram /\ P!LookupExact /\ main = "done" /\ joined
  BY Finished DEF P!Gram, Gram, BuildInv
<1>2. a \in Nat /\ c \in Nat /\ L \in Nat
  BY <1>1
<1>3. /\ a + c <= L /\ Range(q) = P!LinesOf(g)
      /\ \A i, j \in 1 .. c : i < j => q[i] < q[j]
  <2>1. /\ a + c <= L /\ P!Range(q) = P!LinesOf(g)
        /\ \A i, j \in 1 .. c : i < j => q[i] < q[j]
    BY <1>1 DEF P!LookupExact
  <2>2. P!Range(q) = Range(q)
    BY DEF P!Range, Range
  <2> HIDE DEF q
  <2> QED
    BY <2>1, <2>2
<1>4. q = [k \in 1 .. c |-> index_file[a + k].line_id]
  BY DEF P!Lookup
<1> HIDE DEF q
<1>5. ASSUME NEW k \in 1 .. c PROVE a + k \in 1 .. L /\ index_file[a + k].line_id \in Nat
  <2>1. a + k \in 1 .. L
    BY <1>2, <1>3
  <2>2. index_file[a + k] \in P!Record
    BY <1>1, <2>1
  <2> QED
    BY <2>1, <2>2, ShardDataAssumption DEF P!Record, P!LineId
<1>6. q \in Seq(Nat) /\ Len(q) = c /\ DOMAIN q = 1 .. c
  <2>1. DOMAIN q = 1 .. c /\ \A k \in 1 .. c : q[k] \in Nat
    BY <1>4, <1>5
  <2>2. q = [k \in 1 .. c |-> q[k]]
    BY <1>4
  <2> HIDE DEF c
  <2> QED
    BY <1>2, <2>1, <2>2
<1>7. StrictlyAscending(q)
  BY <1>3, <1>6 DEF StrictlyAscending
<1>8. Range(q) = LinesWith(g)
  BY <1>1, <1>3, ShardsHaveLines
<1>9. Index!Ascending(LinesWith(g)) = q
  BY <1>6, <1>7, <1>8, AscendingIs
<1>10. Index!Postings(content, g) = q
  <2>1. NumLines = Index!NumLines(content)
    BY DocumentGrams
  <2> QED
    BY <1>9, <2>1 DEF Index!Postings, LinesWith
<1>11. q = <<>> <=> LinesWith(g) = {}
  <2>1. q = <<>> => Range(q) = {}
    BY DEF Range
  <2>2. q # <<>> => 1 \in DOMAIN q
    BY <1>6
  <2>3. 1 \in DOMAIN q => q[1] \in Range(q)
    BY DEF Range
  <2> QED
    BY <1>8, <2>1, <2>2, <2>3
<1> HIDE DEF c, a, L
<1>12. \A i \in 1 .. Len(q) : a + i \in 1 .. L /\ index_file[a + i].line_id = q[i]
  BY <1>4, <1>5, <1>6
<1> QED
  BY <1>6, <1>10, <1>11, <1>12 DEF c, a, L


(* The trigrams of the text are those with lines.                          *)
LEMMA GramsWithLines ==
  ASSUME BuildInv, step # "scan"
  PROVE  /\ Index!GramsOf(content) \subseteq Gram
         /\ \A g : g \in Index!GramsOf(content) <=> LinesWith(g) # {}
<1>1. /\ NumLines = Index!NumLines(content)
      /\ \A k \in 0 .. NumLines - 1 : Index!UniqueTrigrams(Index!Line(content, k)) \subseteq Gram
  BY DocumentGrams
<1>2. Index!GramsOf(content) = UNION { Index!UniqueTrigrams(Index!Line(content, k)) : k \in 0 .. NumLines - 1 }
  BY <1>1 DEF Index!GramsOf
<1> QED
  BY <1>1, <1>2 DEF LinesWith

(* TrigramIndex joins sequences as the lemmas do.                          *)
LEMMA SameFlatten == \A s : Index!FlattenSeq(s) = FlattenSeq(s)
BY DEF Index!FlattenSeq, FlattenSeq

(* Some trigrams of the text, in ascending order, and what the files have  *)
(* of each.                                                                *)
LEMMA GramsInFile ==
  ASSUME BuildInv, step = "built", NEW T \in SUBSET Index!GramsOf(content)
  PROVE  LET G == Index!Ascending(T)
         IN  /\ G \in Seq(Nat) /\ StrictlyAscending(G) /\ Range(G) = T /\ Len(G) \in Nat
             /\ DOMAIN G = 1 .. Len(G) /\ Len(G) = Cardinality(T)
             /\ \A j \in 1 .. Len(G) :
                  /\ G[j] \in T /\ G[j] \in Gram /\ G[j] \in Nat
                  /\ mapping[G[j]].offset \in Nat /\ mapping[G[j]].count \in Nat \ {0}
                  /\ P!Stretch(G[j], mapping[G[j]].offset)
                  /\ Index!Postings(content, G[j]) \in Seq(Nat)
                  /\ Len(Index!Postings(content, G[j])) = mapping[G[j]].count
<1> DEFINE G == Index!Ascending(T)
           N == NumShards * OffsetsPerShard
<1>1. N \in Nat
  BY ShardDataAssumption
<1>2. T \in SUBSET (0 .. N - 1)
  BY GramsWithLines DEF Gram
<1> HIDE DEF N
<1>3. /\ G \in Seq(Nat) /\ StrictlyAscending(G) /\ Range(G) = T /\ Len(G) \in Nat
      /\ DOMAIN G = 1 .. Len(G) /\ Len(G) = Cardinality(T) /\ \A j \in 1 .. Len(G) : G[j] \in T
  BY <1>1, <1>2, AscendingLists
<1> HIDE DEF G
<1>4. ASSUME NEW g \in T
      PROVE  /\ g \in Gram /\ g \in Nat /\ mapping[g].offset \in Nat /\ mapping[g].count \in Nat \ {0}
             /\ P!Stretch(g, mapping[g].offset)
             /\ Index!Postings(content, g) \in Seq(Nat)
             /\ Len(Index!Postings(content, g)) = mapping[g].count
  <2> DEFINE p == Index!Postings(content, g)
  <2>1. g \in Gram /\ LinesWith(g) # {} /\ g \in Nat
    BY <1>1, <1>2, GramsWithLines
  <2>2. p \in Seq(Nat) /\ Len(p) = mapping[g].count /\ p # <<>>
    BY <2>1, LookupIsPostings
  <2>3. mapping[g] \in [offset : Nat, count : Nat]
    BY <2>1, Finished
  <2> HIDE DEF p
  <2>4. mapping[g].count # 0
    BY <2>2
  <2>5. P!Stretch(g, mapping[g].offset)
    BY <2>1, <2>4, Finished
  <2> QED
    BY <2>1, <2>2, <2>3, <2>4, <2>5 DEF p
<1> QED
  BY <1>3, <1>4 DEF G

(* The records before the first of trigram h are the postings of the lower *)
(* ones.                                                                   *)
LEMMA PrefixIsPostings ==
  ASSUME BuildInv, step = "built", NEW h \in Nat, NEW L \in 0 .. Len(index_file),
         \A n \in 1 .. Len(index_file) : P!FileGram(n) < h <=> n <= L
  PROVE  Index!PostingsOf(content, { g \in Index!GramsOf(content) : g < h })
           = [n \in 1 .. L |-> index_file[n].line_id]
<1> DEFINE T == { g \in Index!GramsOf(content) : g < h }
           G == Index!Ascending(T)
           K == Len(G)
           q == [n \in 1 .. L |-> index_file[n].line_id]
           kind == [n \in 1 .. L |-> P!FileGram(n)]
           s == [j \in 1 .. K |-> Index!Postings(content, G[j])]
           begin == [j \in 1 .. K |-> mapping[G[j]].offset]
           end == [j \in 1 .. K |-> begin[j] + Len(s[j])]
<1>1. /\ G \in Seq(Nat) /\ StrictlyAscending(G) /\ Range(G) = T /\ K \in Nat
      /\ DOMAIN G = 1 .. K /\ K = Cardinality(T)
      /\ \A j \in 1 .. K :
           /\ G[j] \in T /\ G[j] \in Gram /\ G[j] \in Nat
           /\ mapping[G[j]].offset \in Nat /\ mapping[G[j]].count \in Nat \ {0}
           /\ P!Stretch(G[j], mapping[G[j]].offset)
           /\ Index!Postings(content, G[j]) \in Seq(Nat)
           /\ Len(Index!Postings(content, G[j])) = mapping[G[j]].count
  <2>1. T \in SUBSET Index!GramsOf(content)
    OBVIOUS
  <2> HIDE DEF T
  <2> QED
    BY <2>1, GramsInFile
<1>2. /\ index_file \in Seq(P!Record) /\ Len(index_file) \in Nat
      /\ DOMAIN index_file = 1 .. Len(index_file)
      /\ \A n \in DOMAIN index_file : P!FileGram(n) \in Gram
      /\ \A m, n \in DOMAIN index_file : m < n => P!FileGram(m) <= P!FileGram(n)
  BY Finished
<1>3. \A n \in 1 .. L : n \in 1 .. Len(index_file)
  BY <1>2
<1>4. ASSUME NEW n \in 1 .. L PROVE index_file[n].line_id \in Nat
  <2>1. index_file[n] \in P!Record
    BY <1>2, <1>3, ElementOfSeq
  <2> QED
    BY <2>1, ShardDataAssumption DEF P!Record, P!LineId
<1>5. q \in Seq(Nat) /\ Len(q) = L /\ \A n \in 1 .. L : q[n] = index_file[n].line_id
  <2>1. L \in Nat
    BY <1>2
  <2> QED
    BY <1>4, <2>1
<1>6. ASSUME NEW n \in 1 .. L PROVE P!FileGram(n) \in T /\ P!FileGram(n) \in Nat
  <2> DEFINE g == P!FileGram(n)
  <2>1. g \in Gram /\ g < h /\ n \in DOMAIN index_file
    BY <1>2, <1>3
  <2>2. mapping[g].count # 0
    BY <2>1, Finished
  <2> DEFINE p == Index!Postings(content, g)
  <2>3. Len(p) # 0 /\ p \in Seq(Nat)
    BY <2>1, <2>2, LookupIsPostings
  <2>4. LinesWith(g) # {}
    <3>1. p = <<>> <=> LinesWith(g) = {}
      BY <2>1, LookupIsPostings
    <3> HIDE DEF p
    <3> QED
      BY <2>3, <3>1
  <2>5. g \in Nat
    BY <2>1, ShardDataAssumption DEF Gram
  <2> HIDE DEF g
  <2> QED
    BY <2>1, <2>4, <2>5, GramsWithLines DEF g
<1> HIDE DEF T, G, K, q
<1>7. s \in Seq(Seq(Nat)) /\ Len(s) = K /\ \A j \in 1 .. K : s[j] = Index!Postings(content, G[j])
  BY <1>1
<1>8. begin \in [1 .. K -> Nat] /\ \A j \in 1 .. K : begin[j] = mapping[G[j]].offset
  BY <1>1
<1>9. \A j \in 1 .. K : end[j] = begin[j] + Len(s[j]) /\ end[j] = begin[j] + mapping[G[j]].count
                        /\ begin[j] \in Nat /\ mapping[G[j]].count \in Nat \ {0}
  BY <1>1, <1>7, <1>8
<1>10. ASSUME NEW j \in 1 .. K
       PROVE  /\ end[j] <= Len(index_file)
              /\ \A n \in 1 .. Len(index_file) : P!FileGram(n) = G[j] <=> begin[j] < n /\ n <= end[j]
  BY <1>1, <1>2, <1>8, <1>9 DEF P!Stretch
<1>11. kind \in [1 .. L -> Nat] /\ \A n \in 1 .. L : kind[n] = P!FileGram(n)
  BY <1>6
<1>12. end \in [1 .. K -> Nat]
  <2>1. \A j \in 1 .. K : end[j] \in Nat
    BY <1>9
  <2> QED
    BY <2>1
<1> HIDE DEF s, begin, end, kind
<1>13. ASSUME NEW j \in 1 .. K PROVE begin[j] < end[j] /\ end[j] <= L
  <2>1. begin[j] < end[j] /\ end[j] \in 1 .. Len(index_file) /\ end[j] <= end[j]
    BY <1>2, <1>9, <1>10
  <2>2. P!FileGram(end[j]) = G[j]
    BY <1>10, <2>1
  <2>3. G[j] < h
    BY <1>1 DEF T
  <2> QED
    BY <2>1, <2>2, <2>3
<1>14. Stretches(L, K, kind, G, begin, end)
  <2>1. G \in [1 .. K -> Nat]
    BY <1>1
  <2>2. \A m, n \in 1 .. L : m < n => kind[m] <= kind[n]
    BY <1>2, <1>3, <1>11
  <2>3. \A j, k \in 1 .. K : j < k => G[j] < G[k]
    BY <1>1 DEF StrictlyAscending
  <2>4. \A n \in 1 .. L : \E j \in 1 .. K : kind[n] = G[j]
    <3>1. \A g \in T : \E j \in 1 .. K : g = G[j]
      BY <1>1 DEF Range
    <3> QED
      BY <1>6, <1>11, <3>1
  <2>5. \A j \in 1 .. K : \A n \in 1 .. L : kind[n] = G[j] <=> begin[j] < n /\ n <= end[j]
    BY <1>3, <1>10, <1>11
  <2> QED
    BY <1>8, <1>11, <1>12, <1>13, <2>1, <2>2, <2>3, <2>4, <2>5 DEF Stretches
<1>15. \A j \in 1 .. K : \A i \in 1 .. Len(s[j]) : q[begin[j] + i] = s[j][i]
  <2> SUFFICES ASSUME NEW j \in 1 .. K, NEW i \in 1 .. Len(s[j]) PROVE q[begin[j] + i] = s[j][i]
    OBVIOUS
  <2> DEFINE p == Index!Postings(content, G[j])
  <2>1. s[j] = p /\ begin[j] = mapping[G[j]].offset /\ G[j] \in Gram
    BY <1>1, <1>7, <1>8
  <2>2. i \in 1 .. Len(p)
    BY <2>1
  <2>3. index_file[mapping[G[j]].offset + i].line_id = p[i]
    BY <2>1, <2>2, LookupIsPostings
  <2>4. begin[j] + i \in 1 .. L
    <3>1. end[j] = begin[j] + Len(s[j]) /\ begin[j] \in Nat /\ Len(s[j]) \in Nat /\ end[j] <= L
      BY <1>1, <1>7, <1>9, <1>13, <2>1
    <3> QED
      BY <3>1
  <2> HIDE DEF p
  <2> QED
    BY <1>5, <2>1, <2>3, <2>4
<1>16. MadeOf(q, kind, G, s, begin)
  BY <1>1, <1>5, <1>7, <1>14, <1>15 DEF MadeOf, K, end
<1>17. FlattenSeq(s) = q
  BY <1>5, <1>7, <1>16, StretchesJoined
<1>18. Index!PostingsOf(content, T) = FlattenSeq(s)
  BY <1>1, SameCardinality, SameFlatten DEF Index!PostingsOf, s, G
<1> QED
  BY <1>17, <1>18 DEF T, q


(* index.bin.new is the postings of all trigrams.                          *)
LEMMA IndexFileExact ==
  ASSUME BuildInv, step = "built"
  PROVE  [n \in DOMAIN index_file |-> index_file[n].line_id] = Index!IndexFile(content)
<1> DEFINE N == NumShards * OffsetsPerShard
           L == Len(index_file)
<1>1. N \in Nat
  BY ShardDataAssumption
<1>2. /\ L \in Nat /\ DOMAIN index_file = 1 .. L
      /\ \A n \in 1 .. L : P!FileGram(n) \in Gram
  BY Finished
<1>3. \A g \in Gram : g < N
  BY <1>1 DEF Gram
<1> HIDE DEF N
<1>4. \A n \in 1 .. L : P!FileGram(n) < N <=> n <= L
  BY <1>2, <1>3
<1>5. { g \in Index!GramsOf(content) : g < N } = Index!GramsOf(content)
  BY <1>3, GramsWithLines
<1>6. L \in 0 .. L
  BY <1>2
<1>7. Index!PostingsOf(content, { g \in Index!GramsOf(content) : g < N })
        = [n \in 1 .. L |-> index_file[n].line_id]
  BY <1>1, <1>4, <1>6, PrefixIsPostings
<1> QED
  BY <1>2, <1>5, <1>7 DEF Index!IndexFile

(* The places below a stretch, of a list that does not descend.           *)
LEMMA BelowStretch ==
  ASSUME NEW f \in Nat, NEW g \in Nat, NEW n \in Nat, NEW a \in Nat, NEW c \in Nat \ {0},
         n < a + 1 => f <= g,
         a + 1 < n => g <= f,
         f = g <=> a < n /\ n <= a + c
  PROVE  f < g <=> n <= a
<1>1. CASE n <= a
  BY <1>1
<1>2. CASE n = a + 1
  BY <1>2
<1>3. CASE a + 1 < n
  BY <1>3
<1> QED
  BY <1>1, <1>2, <1>3

(* mapping.bin.new says where they are.                                    *)
LEMMA MappingFileExact ==
  ASSUME BuildInv, step = "built"
  PROVE  mapping = Index!MappingFile(content)
<1> DEFINE L == Len(index_file)
           Place(g) == IF Index!Postings(content, g) = <<>>
                       THEN [offset |-> 0, count |-> 0]
                       ELSE [offset |-> Len(Index!PostingsOf(content, { h \in Index!GramsOf(content) : h < g })),
                             count  |-> Len(Index!Postings(content, g))]
<1>1. /\ L \in Nat /\ DOMAIN index_file = 1 .. L
      /\ mapping \in [Gram -> [offset : Nat, count : Nat]]
      /\ \A n \in 1 .. L : P!FileGram(n) \in Gram
      /\ \A m, n \in 1 .. L : m < n => P!FileGram(m) <= P!FileGram(n)
  BY Finished
<1>2. \A g \in Gram : g \in Nat
  BY ShardDataAssumption DEF Gram
<1>3. ASSUME NEW g \in Gram PROVE mapping[g] = Place(g)
  <2> DEFINE p == Index!Postings(content, g)
             a == mapping[g].offset
             c == mapping[g].count
  <2>1. p \in Seq(Nat) /\ Len(p) = c /\ a \in Nat /\ c \in Nat
        /\ mapping[g] = [offset |-> a, count |-> c]
    BY <1>1, LookupIsPostings
  <2> HIDE DEF p
  <2>2. p = <<>> <=> c = 0
    BY <2>1
  <2>3. CASE c = 0
    <3>1. a = 0
      BY <2>3, Finished
    <3> QED
      BY <2>1, <2>2, <2>3, <3>1 DEF p
  <2>4. CASE c # 0
    <3>1. /\ a + c <= L
          /\ \A n \in 1 .. L : P!FileGram(n) = g <=> a < n /\ n <= a + c
      <4>1. P!Stretch(g, a)
        BY <2>4, Finished
      <4> QED
        BY <1>1, <4>1 DEF P!Stretch
    <3>2. a \in 0 .. L /\ a + 1 \in 1 .. L /\ P!FileGram(a + 1) = g
      <4>1. a \in 0 .. L /\ a + 1 \in 1 .. L /\ a < a + 1 /\ a + 1 <= a + c
        BY <1>1, <2>1, <2>4, <3>1
      <4> QED
        BY <3>1, <4>1
    <3>3. ASSUME NEW n \in 1 .. L PROVE P!FileGram(n) < g <=> n <= a
      <4>1. P!FileGram(n) \in Nat /\ g \in Nat /\ n \in Nat
        BY <1>1, <1>2
      <4>2. n < a + 1 => P!FileGram(n) <= g
        BY <1>1, <3>2
      <4>3. a + 1 < n => g <= P!FileGram(n)
        BY <1>1, <3>2
      <4>4. P!FileGram(n) = g <=> a < n /\ n <= a + c
        BY <3>1
      <4>5. c \in Nat \ {0}
        BY <2>1, <2>4
      <4> HIDE DEF a, c
      <4> QED
        BY <2>1, <4>1, <4>2, <4>3, <4>4, <4>5, BelowStretch
    <3>4. Index!PostingsOf(content, { h \in Index!GramsOf(content) : h < g })
            = [n \in 1 .. a |-> index_file[n].line_id]
      BY <1>2, <3>2, <3>3, PrefixIsPostings
    <3>5. Len([n \in 1 .. a |-> index_file[n].line_id]) = a
      BY <2>1
    <3> QED
      BY <2>1, <2>2, <2>4, <3>4, <3>5 DEF p
  <2> QED
    BY <2>3, <2>4
<1>4. Index!Gram = Gram
  BY DEF Index!Gram, Gram
<1>5. Index!MappingFile(content) = [g \in Gram |-> Place(g)]
  BY <1>4 DEF Index!MappingFile
<1> HIDE DEF Place
<1>6. mapping = [g \in Gram |-> mapping[g]]
  BY <1>1
<1> QED
  BY <1>3, <1>5, <1>6

(* offsets.bin.new has the boundaries, and ids.bin.new an id for each.     *)
LEMMA OffsetsFileExact ==
  ASSUME BuildInv, step = "built"
  PROVE  offsets = Index!OffsetsFile(content) /\ ids \in { <<>>, Index!LinearIds(content) }
<1> DEFINE m == Len(line_boundaries)
           lb == Index!LineBoundaries(content)
<1>1. ScanInv /\ phase = "done" /\ ids \in { <<>>, [k \in DOMAIN line_boundaries |-> k - 1] }
  BY DEF BuildInv
<1>2. /\ m \in Nat /\ m >= 2 /\ DOMAIN line_boundaries = 1 .. m /\ offsets \in Seq(Scan!Size)
  BY <1>1, ScanFacts, BoundaryPlaces
<1>3. Len(offsets) = m /\ offsets[1] = 0 /\ \A k \in 2 .. m : offsets[k] = line_boundaries[k]
  BY <1>1 DEF ScanInv, Copying
<1>4. lb \in Seq(Int) /\ Len(lb) = m /\ \A k \in 2 .. m : lb[k] = line_boundaries[k]
  BY <1>1, SameBoundaries
<1>5. Index!NumLines(content) = m - 1
  BY <1>1, SameLines
<1> HIDE DEF lb, m
<1>6. DOMAIN offsets = 1 .. m /\ DOMAIN lb = 1 .. m /\ offsets = [k \in 1 .. m |-> offsets[k]]
  BY <1>2, <1>3, <1>4
<1>7. [lb EXCEPT ![1] = 0] = [k \in 1 .. m |-> IF k = 1 THEN 0 ELSE lb[k]]
  BY <1>6
<1>8. ASSUME NEW k \in 1 .. m PROVE offsets[k] = IF k = 1 THEN 0 ELSE lb[k]
  <2>1. k = 1 \/ k \in 2 .. m
    BY <1>2
  <2> QED
    BY <1>3, <1>4, <2>1
<1>9. offsets = [lb EXCEPT ![1] = 0]
  BY <1>6, <1>7, <1>8
<1>10. (m - 1) + 1 = m
  BY <1>2
<1> QED
  BY <1>1, <1>2, <1>5, <1>9, <1>10 DEF Index!OffsetsFile, Index!LinearIds, lb

(* Nothing has happened yet: the properties of create_shards hold of the   *)
(* empty shards.                                                           *)
LEMMA NothingYet ==
  ASSUME document = <<>>, bar = NewBar(0), NotBegun
  PROVE  Conserved /\ Filled /\ BarCounts
<1>1. /\ NumThreads \in Nat \ {0} /\ NumLines = 0 /\ Renders \in Nat \ {0}
  BY CreateShardsAssumption, ProgressAssumption DEF NumLines
<1>2. Filled
  <2>1. 0 \in Worker /\ pc = [w \in Worker |-> "start"]
    BY <1>1 DEF NotBegun, Worker
  <2> QED
    BY <2>1 DEF Filled, AllDone
<1>3. BarCounts
  <2>1. 0 \div Renders = 0
    BY <1>1
  <2>2. bar = [total |-> 0, quantum |-> 1, next |-> 0, last |-> 0, done |-> 0, shown |-> 0]
    BY <2>1 DEF NewBar, Larger
  <2>3. { i \in 0 .. NumLines - 1 : i % bar.quantum = 0 /\ Taken(i) } = {}
    BY <1>1
  <2>4. Cardinality({}) = 0
    BY FS_EmptySet
  <2>5. joined = FALSE
    BY DEF NotBegun
  <2>6. 1 * 0 = 0 /\ Smaller(0, 0) = 0
    BY DEF Smaller
  <2>7. bar.quantum = 1 /\ bar.done = 0 /\ bar.last = 0 /\ bar.total = 0 /\ bar.next = 0 /\ bar.shown = 0
    BY <2>2
  <2> DEFINE S == { i \in 0 .. NumLines - 1 : i % bar.quantum = 0 /\ Taken(i) }
  <2>8. Cardinality(S) = 0
    BY <2>3, <2>4
  <2>9. bar.shown <= bar.done /\ bar.done - bar.shown < bar.quantum
    BY <2>7
  <2> HIDE DEF S
  <2>10. bar.done = Smaller(bar.total, bar.quantum * Cardinality(S))
    BY <2>6, <2>7, <2>8
  <2> QED
    BY <2>5, <2>9, <2>10 DEF BarCounts, S
<1>4. Conserved
  <2> SUFFICES ASSUME NEW s \in Shard, NEW p \in Pair
               PROVE  Occurrences(p, shards[s]) + SumFunction([w \in Worker |-> InBuffer(w, s, p)])
                        = Cardinality({ w \in Worker : Handled(w, s, p) })
    BY DEF Conserved
  <2>1. shards[s] = <<>> /\ \A w \in Worker : buffers[w][s] = <<>>
    BY DEF NotBegun
  <2>2. Occurrences(p, <<>>) = 0
    BY FS_EmptySet DEF Occurrences
  <2>3. { w \in Worker : Handled(w, s, p) } = {}
    BY DEF Handled, Belongs
  <2>4. [w \in Worker |-> InBuffer(w, s, p)] \in [Worker -> Nat]
        /\ \A w \in Worker : [v \in Worker |-> InBuffer(v, s, p)][w] = 0
    BY <2>1, <2>2 DEF InBuffer
  <2>5. IsFiniteSet(Worker) /\ 0 \in Worker
    BY <1>1, FS_Interval DEF Worker
  <2> DEFINE in == [w \in Worker |-> InBuffer(w, s, p)]
  <2> HIDE DEF in
  <2>6. SumFunction(in) = 0
    BY <2>4, <2>5, SumOfOne DEF in
  <2>7. SumFunction([w \in Worker |-> InBuffer(w, s, p)]) = 0
    BY <2>6 DEF in
  <2>8. Cardinality({ w \in Worker : Handled(w, s, p) }) = 0
    BY <2>3, FS_EmptySet
  <2>9. Occurrences(p, shards[s]) = 0
    BY <2>1, <2>2
  <2>10. 0 + 0 = 0
    OBVIOUS
  <2> QED
    BY <2>7, <2>8, <2>9, <2>10
<1> QED
  BY <1>2, <1>3, <1>4


(* What a build has left once it is done.                                  *)
LEMMA BuiltExact == BuildInv => IndexExact
<1>1. ASSUME BuildInv, step = "built"
      PROVE  /\ [n \in DOMAIN index_file |-> index_file[n].line_id] = Index!IndexFile(content)
             /\ mapping = Index!MappingFile(content)
             /\ offsets = Index!OffsetsFile(content)
             /\ ids \in { <<>>, Index!LinearIds(content) }
  BY <1>1, IndexFileExact, MappingFileExact, OffsetsFileExact
<1> QED
  BY <1>1 DEF IndexExact

(* ids is empty, or holds a number for each line.                          *)
LEMMA BuildInvTypes == BuildInv => BuildTypeOK
<1> SUFFICES ASSUME BuildInv PROVE BuildTypeOK
  OBVIOUS
<1>1. /\ ScanInv /\ step \in {"scan", "create", "process", "built"}
      /\ step # "scan" => CreateInv
      /\ ids = <<>> \/ (phase = "done" /\ ids = [k \in DOMAIN line_boundaries |-> k - 1])
  BY DEF BuildInv
<1>2. ids \in Seq(Nat)
  <2>1. CASE ids = <<>>
    BY <2>1
  <2>2. CASE phase = "done" /\ ids = [k \in DOMAIN line_boundaries |-> k - 1]
    <3>1. Len(line_boundaries) \in Nat /\ DOMAIN line_boundaries = 1 .. Len(line_boundaries)
      BY <1>1, <2>2, ScanFacts, BoundaryPlaces
    <3>2. \A k \in 1 .. Len(line_boundaries) : k - 1 \in Nat
      OBVIOUS
    <3> QED
      BY <2>2, <3>1, <3>2
  <2> QED
    BY <1>1, <2>1, <2>2
<1>3. step # "scan" => TypeOK
  BY <1>1 DEF CreateInv
<1> QED
  BY <1>1, <1>2, <1>3 DEF BuildTypeOK

(* The properties of create_shards hold before it, in it and after it.     *)
LEMMA BuildInvCreates == BuildInv => Conserved /\ Filled /\ BarCounts
<1>1. ASSUME BuildInv, step = "scan" PROVE Conserved /\ Filled /\ BarCounts
  <2>1. document = <<>> /\ bar = NewBar(0) /\ NotBegun
    BY <1>1 DEF BuildInv
  <2> QED
    BY <2>1, NothingYet
<1>2. ASSUME BuildInv, step # "scan" PROVE Conserved /\ Filled /\ BarCounts
  <2>1. CreateInv
    BY <1>2 DEF BuildInv
  <2> QED
    BY <2>1, CreateInvConserved, CreateInvFills, CreateInvCounts
<1> QED
  BY <1>1, <1>2

-----------------------------------------------------------------------------
(***************************************************************************)
(* LineScan on its own: every variable has its type, and no subtraction of *)
(* get_longest_line wraps, whatever the text.                              *)
(***************************************************************************)
THEOREM ScanTypeOK ==
  Scan!Spec => []Scan!TypeOK
<1>1. ScanInv /\ [Scan!Next]_(Scan!vars) => ScanInv'
  BY ScanInvStep, ScanInvStays DEF Scan!vars, scanVars
<1> QED
  BY <1>1, ScanInvInit, ScanInvTypes, PTL DEF Scan!Spec

(***************************************************************************)
(* The scan finds the lines of every text: the boundaries are the newlines *)
(* and the end, and the range by which a query verifies a line is the line *)
(* that create_shards indexed, with the newline before it.                 *)
(***************************************************************************)
THEOREM ScanFindsLines ==
  Scan!Spec => []Scan!LinesFound
<1>1. ScanInv /\ [Scan!Next]_(Scan!vars) => ScanInv'
  BY ScanInvStep, ScanInvStays DEF Scan!vars, scanVars
<1> QED
  BY <1>1, ScanInvInit, ScanInvFindsLines, PTL DEF Scan!Spec

(***************************************************************************)
(* The inductive invariant of the build holds in every execution, for any  *)
(* text, any number of threads and any size of the buffers.                *)
(***************************************************************************)
THEOREM BuildInvariant ==
  BuildSpec => []BuildInv
BY BuildInvInit, BuildInvStep, PTL DEF BuildSpec

(* Every variable of the build has its type.                               *)
THEOREM BuildTypesOK ==
  BuildSpec => []BuildTypeOK
BY BuildInvariant, BuildInvTypes, PTL

(***************************************************************************)
(* In the build, too, the scan finds the lines, and create_shards neither  *)
(* loses nor doubles a pair of the lines it is given, fills every shard    *)
(* and counts what it did.                                                 *)
(***************************************************************************)
THEOREM BuildKeepsItsParts ==
  BuildSpec => []Scan!LinesFound /\ []Conserved /\ []Filled /\ []BarCounts
<1>1. BuildInv => Scan!LinesFound
  BY ScanInvFindsLines DEF BuildInv
<1> QED
  BY <1>1, BuildInvariant, BuildInvCreates, PTL

(***************************************************************************)
(* Whatever the interleavings in both pools, the files that build() leaves *)
(* are exactly the ones that TrigramIndex computes from the text: each     *)
(* trigram's lines, where they are, the boundaries and the ids.            *)
(***************************************************************************)
THEOREM BuildIndexExact ==
  BuildSpec => []IndexExact
BY BuildInvariant, BuiltExact, PTL
=============================================================================
