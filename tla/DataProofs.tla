----------------------------- MODULE DataProofs -----------------------------
(***************************************************************************)
(* Lemmas about numbers and sequences that the proofs about several        *)
(* components share.  Recursive functions over sequences are reasoned about*)
(* with the least number that would be an exception.                       *)
(***************************************************************************)
EXTENDS Integers, SequencesExt, WellFoundedInduction, TLAPS

(* A set of natural numbers has a least element: the form in which what    *)
(* follows does induction, on the least number that is an exception.       *)
LEMMA Least ==
  ASSUME NEW T \in SUBSET Nat, T # {}
  PROVE  \E x \in T : \A y \in T : x <= y
<1>1. PICK x \in T : \A y \in T : ~ (<<y, x>> \in OpToRel(<, Nat))
  BY NatLessThanWellFounded, WFMin
<1>2. \A y \in T : ~(y < x)
  BY <1>1 DEF OpToRel
<1> QED
  BY <1>2

(* Quotient and remainder are what they are by the sum they add up to.     *)
LEMMA Quotient ==
  ASSUME NEW g \in Nat, NEW c \in Nat \ {0}
  PROVE  /\ g \div c \in Nat /\ g % c \in 0 .. c - 1
         /\ g = (g \div c) * c + (g % c)
OBVIOUS

(* A sum of a multiple and a remainder has them as quotient and remainder. *)
LEMMA QuotientOf ==
  ASSUME NEW s \in Nat, NEW c \in Nat \ {0}, NEW o \in 0 .. c - 1
  PROVE  (s * c + o) \div c = s /\ (s * c + o) % c = o
<1> DEFINE g == s * c + o
           q == g \div c
           r == g % c
<1>1. s * c \in Nat /\ g \in Nat
  OBVIOUS
<1>2. q \in Nat /\ r \in 0 .. c - 1 /\ g = q * c + r
  <2> HIDE DEF g
  <2> QED
    BY <1>1, Quotient
<1>3. q * c + r = s * c + o
  BY <1>2
<1> HIDE DEF q, r, g
<1>4. q * c - s * c = (q - s) * c /\ (q - s) * c \in Int
  BY <1>2
<1>5. (q - s) * c < c /\ -c < (q - s) * c
  BY <1>1, <1>2, <1>3, <1>4
<1>6. q - s < 1
  <2>1. SUFFICES ASSUME q - s >= 1 PROVE FALSE
    BY <1>2
  <2>2. (q - s) * c >= 1 * c
    BY <1>2, <2>1
  <2> QED
    BY <1>4, <1>5, <2>2
<1>7. q - s > -1
  <2>1. SUFFICES ASSUME q - s <= -1 PROVE FALSE
    BY <1>2
  <2>2. (q - s) * c <= (-1) * c
    BY <1>2, <2>1
  <2> QED
    BY <1>4, <1>5, <2>2
<1>8. q = s
  BY <1>2, <1>6, <1>7
<1>9. r = o
  BY <1>2, <1>3, <1>8
<1> QED
  BY <1>8, <1>9 DEF q, r, g

(* A number below n * c has a high part below n and a low part below c,    *)
LEMMA HighAndLow ==
  ASSUME NEW n \in Nat, NEW c \in Nat \ {0}, NEW g \in 0 .. n * c - 1
  PROVE  g \div c \in 0 .. n - 1 /\ g % c \in 0 .. c - 1 /\ (g \div c) * c + (g % c) = g
<1> DEFINE q == g \div c
           r == g % c
<1>0. n * c \in Nat
  OBVIOUS
<1>1. g \in Nat /\ g < n * c
  BY <1>0
<1>2. q \in Nat /\ r \in 0 .. c - 1 /\ g = q * c + r
  BY <1>1, Quotient
<1>3. q < n
  <2> HIDE DEF q, r
  <2>1. SUFFICES ASSUME q >= n PROVE FALSE
    BY <1>2
  <2>2. q * c >= n * c
    BY <1>2, <2>1
  <2>3. q * c \in Nat
    BY <1>2
  <2> QED
    BY <1>0, <1>1, <1>2, <2>2, <2>3
<1> QED
  BY <1>2, <1>3

(* and two such parts make such a number, of which they are the parts.     *)
LEMMA HighWithLow ==
  ASSUME NEW n \in Nat, NEW c \in Nat \ {0}, NEW s \in 0 .. n - 1, NEW o \in 0 .. c - 1
  PROVE  /\ s * c + o \in 0 .. n * c - 1
         /\ (s * c + o) \div c = s /\ (s * c + o) % c = o
<1>1. s \in Nat /\ s + 1 <= n /\ n * c \in Nat /\ s * c \in Nat
  OBVIOUS
<1>2. (s + 1) * c <= n * c
  BY <1>1
<1>3. (s + 1) * c = s * c + c
  BY <1>1
<1>4. s * c + o \in 0 .. n * c - 1
  BY <1>1, <1>2, <1>3
<1> QED
  BY <1>1, <1>4, QuotientOf

(* A number of three digits, by Horner's scheme or with the lowest two     *)
(* first.                                                                  *)
LEMMA Grouped ==
  ASSUME NEW a \in Int, NEW b \in Int, NEW c \in Int, NEW base \in Int
  PROVE  c * base * base + b * base + a = c * (base * base) + (b * base + a)
<1>1. c * base * base = c * (base * base)
  OBVIOUS
<1> DEFINE high == c * (base * base)
           middle == b * base
<1>2. high \in Int /\ middle \in Int
  OBVIOUS
<1> HIDE DEF high, middle
<1>3. high + middle + a = high + (middle + a)
  BY <1>2
<1> QED
  BY <1>1, <1>3 DEF high, middle

(* The elements of two sequences joined.                                   *)
LEMMA Joined ==
  ASSUME NEW S, NEW a \in Seq(S), NEW b \in Seq(S)
  PROVE  /\ a \o b \in Seq(S) /\ Len(a) \in Nat /\ Len(b) \in Nat
         /\ Len(a \o b) = Len(a) + Len(b)
         /\ \A i \in 1 .. Len(a) : (a \o b)[i] = a[i]
         /\ \A i \in 1 .. Len(b) : (a \o b)[Len(a) + i] = b[i]
OBVIOUS

(* FlattenSeq's recursive function exists for every sequence: it joins one *)
(* more sequence at each step.                                             *)
LEMMA FlattenSteps ==
  ASSUME NEW S, NEW s \in Seq(Seq(S)), Len(s) # 0
  PROVE  \E f \in [1 .. Len(s) -> Seq(S)] :
           /\ f[1] = s[1] /\ \A i \in 2 .. Len(s) : f[i] = f[i - 1] \o s[i]
           /\ FlattenSeq(s) = f[Len(s)]
<1> DEFINE Eq(f, m) == f = [i \in 1 .. m |-> IF i = 1 THEN s[i] ELSE f[i-1] \o s[i]]
           Solved(m) == \E f : f \in [1 .. m -> Seq(S)] /\ Eq(f, m)
           Bad == { m \in 0 .. Len(s) : ~Solved(m) }
<1>0. Len(s) \in Nat /\ \A i \in 1 .. Len(s) : s[i] \in Seq(S)
  OBVIOUS
<1>1. Bad = {}
  <2>1. SUFFICES ASSUME Bad # {} PROVE FALSE
    OBVIOUS
  <2>2. PICK m \in Bad : \A k \in Bad : m <= k
    <3> HIDE DEF Solved
    <3>1. Bad \in SUBSET Nat
      BY <1>0
    <3> HIDE DEF Bad
    <3> QED
      BY <2>1, <3>1, Least
  <2>3. m \in 0 .. Len(s) /\ m # 0
    <3>1. [i \in 1 .. 0 |-> s[i]] \in [1 .. 0 -> Seq(S)]
      OBVIOUS
    <3>2. ASSUME m = 0 PROVE Eq([i \in 1 .. 0 |-> s[i]], 0)
      OBVIOUS
    <3> QED
     BY <1>0, <3>1, <3>2
  <2>4. m - 1 \in 0 .. Len(s) /\ m - 1 \notin Bad
    <3>1. m \in Int /\ m - 1 \in 0 .. Len(s) /\ ~(m <= m - 1)
      BY <1>0, <2>3
    <3> HIDE DEF Bad
    <3> QED
      BY <2>2, <3>1
  <2>5. PICK f : f \in [1 .. m - 1 -> Seq(S)] /\ Eq(f, m - 1)
    BY <2>4
  <2> DEFINE g == [i \in 1 .. m |-> IF i = m THEN IF m = 1 THEN s[m] ELSE f[m - 1] \o s[m] ELSE f[i]]
  <2>6. g \in [1 .. m -> Seq(S)]
    <3>1. \A i \in 1 .. m : i # m => i \in 1 .. m - 1
      BY <1>0, <2>3
    <3>2. m # 1 => f[m - 1] \in Seq(S)
      BY <1>0, <2>3, <2>5
    <3>3. s[m] \in Seq(S)
      BY <1>0, <2>3
    <3>4. m # 1 => f[m - 1] \o s[m] \in Seq(S)
      BY <3>2, <3>3
    <3> QED
      BY <2>5, <3>1, <3>3, <3>4
  <2>7. Eq(g, m)
    <3>1. ASSUME NEW i \in 1 .. m
          PROVE  g[i] = IF i = 1 THEN s[i] ELSE g[i - 1] \o s[i]
      <4>1. CASE i = m
        <5>1. m # 1 => m - 1 \in 1 .. m /\ m - 1 # m
          BY <1>0, <2>3
        <5> QED
        BY <4>1, <5>1, <2>3
      <4>2. CASE i # m
        <5>1. i \in 1 .. m - 1 /\ (i # 1 => i - 1 \in 1 .. m - 1 /\ i - 1 # m)
          BY <4>2, <1>0, <2>3
        <5>2. f[i] = IF i = 1 THEN s[i] ELSE f[i - 1] \o s[i]
          BY <2>5, <5>1
        <5> QED
          BY <4>2, <5>1, <5>2
      <4> QED
        BY <4>1, <4>2
    <3>2. g = [i \in 1 .. m |-> g[i]]
      OBVIOUS
    <3> HIDE DEF g
    <3> QED
      BY <3>1, <3>2
  <2> QED
    BY <2>2, <2>6, <2>7
<1> DEFINE flatten == CHOOSE f : Eq(f, Len(s))
<1>2. Eq(flatten, Len(s)) /\ FlattenSeq(s) = flatten[Len(s)]
  <2>1. Solved(Len(s))
    <3> HIDE DEF Solved
    <3> QED
      BY <1>0, <1>1
  <2>2. PICK f : f \in [1 .. Len(s) -> Seq(S)] /\ Eq(f, Len(s))
    BY <2>1
  <2>3. Eq(flatten, Len(s))
    BY <2>2
  <2>4. FlattenSeq(s) = flatten[Len(s)]
    BY DEF FlattenSeq
  <2> QED
    BY <2>3, <2>4
<1> HIDE DEF flatten
<1>3. \A i \in 1 .. Len(s) : flatten[i] \in Seq(S)
  <2> DEFINE Odd == {i \in 1 .. Len(s) : flatten[i] \notin Seq(S)}
  <2>1. SUFFICES ASSUME Odd # {} PROVE FALSE
    OBVIOUS
  <2>2. PICK i \in Odd : \A k \in Odd : i <= k
    <3>1. Odd \in SUBSET Nat
      BY <1>0
    <3> HIDE DEF Odd
    <3> QED
      BY <2>1, <3>1, Least
  <2>3. flatten[i] = IF i = 1 THEN s[i] ELSE flatten[i - 1] \o s[i]
    BY <1>2, <2>2
  <2>4. CASE i = 1
    BY <1>0, <2>2, <2>3, <2>4
  <2>5. CASE i # 1
    <3>1. i - 1 \in 1 .. Len(s) /\ i - 1 \notin Odd
      BY <1>0, <2>2, <2>5
    <3>2. flatten[i - 1] \in Seq(S) /\ s[i] \in Seq(S)
      BY <1>0, <2>2, <3>1
    <3>3. flatten[i - 1] \o s[i] \in Seq(S)
      BY <3>2
    <3> QED
      BY <2>2, <2>3, <2>5, <3>3
  <2> QED
    BY <2>4, <2>5
<1>4. flatten \in [1 .. Len(s) -> Seq(S)]
  BY <1>2, <1>3
<1>5. flatten[1] = s[1]
  BY <1>0, <1>2
<1>6. ASSUME NEW i \in 2 .. Len(s) PROVE flatten[i] = flatten[i - 1] \o s[i]
  <2>1. i \in 1 .. Len(s) /\ i # 1
    BY <1>0
  <2>2. flatten[i] = IF i = 1 THEN s[i] ELSE flatten[i - 1] \o s[i]
    BY <1>2, <2>1
  <2> QED
    BY <2>1, <2>2
<1> QED
  BY <1>2, <1>4, <1>5, <1>6

(* Joining sequences of one type makes a sequence of that type.            *)
LEMMA FlattenType ==
  ASSUME NEW S, NEW s \in Seq(Seq(S))
  PROVE  FlattenSeq(s) \in Seq(S)
<1>1. Len(s) \in Nat
  OBVIOUS
<1>2. CASE Len(s) = 0
  BY <1>2 DEF FlattenSeq
<1>3. CASE Len(s) # 0
  <2>1. PICK f \in [1 .. Len(s) -> Seq(S)] : FlattenSeq(s) = f[Len(s)]
    BY <1>3, FlattenSteps
  <2>2. Len(s) \in 1 .. Len(s)
    BY <1>1, <1>3
  <2>3. f[Len(s)] \in Seq(S)
    BY <2>2
  <2> QED
    BY <2>1, <2>3
<1> QED
  BY <1>2, <1>3

(* Where the joined sequences begin: off[k] elements precede the k-th.     *)
Begins(off, s) ==
  /\ off \in [1 .. Len(s) + 1 -> Nat] /\ off[1] = 0
  /\ \A k \in 1 .. Len(s) : off[k + 1] = off[k] + Len(s[k])
  /\ Len(FlattenSeq(s)) = off[Len(s) + 1]
  /\ \A k \in 1 .. Len(s) : \A i \in 1 .. Len(s[k]) :
       off[k] + i \in 1 .. Len(FlattenSeq(s)) /\ FlattenSeq(s)[off[k] + i] = s[k][i]
  /\ \A p \in 1 .. Len(FlattenSeq(s)) :
       \E k \in 1 .. Len(s) : \E i \in 1 .. Len(s[k]) : p = off[k] + i

(* Every element of the joined sequence is in its place.                   *)
LEMMA FlattenPlaces ==
  ASSUME NEW S, NEW s \in Seq(Seq(S))
  PROVE  \E off : Begins(off, s)
<1>0. Len(s) \in Nat /\ (\A k \in 1 .. Len(s) : s[k] \in Seq(S) /\ Len(s[k]) \in Nat)
  OBVIOUS
<1>1. CASE Len(s) = 0
  <2>1. FlattenSeq(s) = s
    BY <1>1 DEF FlattenSeq
  <2>2. [k \in 1 .. 1 |-> 0] \in [1 .. Len(s) + 1 -> Nat]
    BY <1>1
  <2>3. Begins([k \in 1 .. 1 |-> 0], s)
    BY <1>1, <2>1, <2>2 DEF Begins
  <2> QED
    BY <2>3
<1>2. CASE Len(s) # 0
  <2>1. PICK f \in [1 .. Len(s) -> Seq(S)] :
          /\ f[1] = s[1] /\ \A i \in 2 .. Len(s) : f[i] = f[i - 1] \o s[i]
          /\ FlattenSeq(s) = f[Len(s)]
    BY <1>2, FlattenSteps
  <2> DEFINE off == [k \in 1 .. Len(s) + 1 |-> IF k = 1 THEN 0 ELSE Len(f[k - 1])]
  <2>2. ASSUME NEW k \in 1 .. Len(s) PROVE f[k] \in Seq(S) /\ Len(f[k]) \in Nat
    <3>1. f[k] \in Seq(S)
      OBVIOUS
    <3> HIDE DEF off
    <3> QED
      BY <3>1
  <2>3. off \in [1 .. Len(s) + 1 -> Nat] /\ off[1] = 0
    BY <1>0, <2>2
  <2>4. \A k \in 1 .. Len(s) : off[k + 1] = Len(f[k])
    BY <1>0, <2>2
  <2> HIDE DEF off
  <2>5. ASSUME NEW k \in 1 .. Len(s)
        PROVE  /\ off[k] \in Nat /\ off[k + 1] = off[k] + Len(s[k])
               /\ k # 1 => k - 1 \in 1 .. Len(s) /\ off[k] = Len(f[k - 1])
    <3>1. CASE k = 1
      BY <1>0, <2>1, <2>3, <2>4, <3>1
    <3>2. CASE k # 1
      <4>1. k - 1 \in 1 .. Len(s) /\ k \in 2 .. Len(s) /\ (k - 1) + 1 = k
        BY <1>0, <3>2
      <4>2. off[k] = Len(f[k - 1]) /\ f[k] = f[k - 1] \o s[k]
        BY <2>1, <2>4, <4>1
      <4>3. Len(f[k - 1] \o s[k]) = Len(f[k - 1]) + Len(s[k])
        BY <1>0, <2>2, <4>1
      <4> QED
        BY <2>2, <2>4, <4>1, <4>2, <4>3
    <3> QED
      BY <3>1, <3>2
  <2> DEFINE Placed(m) ==
        /\ \A k \in 1 .. m : \A i \in 1 .. Len(s[k]) :
             off[k] + i \in 1 .. Len(f[m]) /\ f[m][off[k] + i] = s[k][i]
        /\ \A p \in 1 .. Len(f[m]) : \E k \in 1 .. m : \E i \in 1 .. Len(s[k]) : p = off[k] + i
  <2> DEFINE Bad == { m \in 1 .. Len(s) : ~Placed(m) }
  <2>6. Bad = {}
    <3>1. SUFFICES ASSUME Bad # {} PROVE FALSE
      OBVIOUS
    <3>2. PICK m \in Bad : \A j \in Bad : m <= j
      <4> HIDE DEF Placed
      <4>1. Bad \in SUBSET Nat
        BY <1>0
      <4> HIDE DEF Bad
      <4> QED
        BY <3>1, <4>1, Least
    <3>3. m \in 1 .. Len(s) /\ m \in Nat
      <4> HIDE DEF Placed
      <4> QED
        BY <1>0
    <3>4. CASE m = 1
      <4>1. f[1] = s[1] /\ off[1] = 0 /\ Len(s[1]) \in Nat /\ s[1] \in Seq(S)
        BY <1>0, <2>1, <2>3, <3>3, <3>4
      <4>2. \A k \in 1 .. 1 : k = 1
        OBVIOUS
      <4>3. Placed(1)
        BY <4>1, <4>2
      <4> QED
        BY <3>4, <4>3
    <3>5. CASE m # 1
      <4>1. m - 1 \in 1 .. Len(s) /\ m \in 2 .. Len(s) /\ m - 1 \notin Bad
        <5>1. m - 1 \in 1 .. Len(s) /\ m \in 2 .. Len(s) /\ ~(m <= m - 1)
          BY <1>0, <3>3, <3>5
        <5> HIDE DEF Bad
        <5> QED
          BY <3>2, <5>1
      <4>2. Placed(m - 1)
        <5> HIDE DEF Placed
        <5> QED
          BY <4>1
      <4> DEFINE a == f[m - 1]
                 b == s[m]
      <4>3. /\ a \in Seq(S) /\ b \in Seq(S) /\ Len(a) \in Nat /\ Len(b) \in Nat
            /\ f[m] = a \o b /\ off[m] = Len(a)
        BY <1>0, <2>1, <2>2, <2>5, <3>3, <3>5, <4>1
      <4>4. /\ Len(a \o b) = Len(a) + Len(b)
            /\ \A i \in 1 .. Len(a) : (a \o b)[i] = a[i]
            /\ \A i \in 1 .. Len(b) : (a \o b)[Len(a) + i] = b[i]
        <5> HIDE DEF a, b
        <5> QED
          BY <4>3
      <4>5. ASSUME NEW k \in 1 .. m, NEW i \in 1 .. Len(s[k])
            PROVE  off[k] + i \in 1 .. Len(f[m]) /\ f[m][off[k] + i] = s[k][i]
        <5>1. CASE k = m
          <6>1. i \in 1 .. Len(b) /\ s[k] = b /\ f[m] = a \o b /\ off[k] = Len(a)
            BY <4>3, <5>1
          <6> HIDE DEF a, b
          <6>2. Len(a) + i \in 1 .. Len(a \o b)
            <7> DEFINE la == Len(a)
                       lb == Len(b)
            <7>1. la \in Nat /\ lb \in Nat
              BY <4>3
            <7>2. i \in 1 .. lb
              BY <6>1
            <7>3. Len(a \o b) = la + lb
              BY <4>4
            <7>4. Len(a) = la
              OBVIOUS
            <7> HIDE DEF la, lb
            <7>5. la + i \in 1 .. la + lb
              BY <7>1, <7>2
            <7> QED
              BY <7>3, <7>4, <7>5
          <6> QED
            BY <4>4, <6>1, <6>2
        <5>2. CASE k # m
          <6>1. k \in 1 .. m - 1
            BY <3>3, <5>2
          <6>2. off[k] + i \in 1 .. Len(a) /\ a[off[k] + i] = s[k][i]
            BY <4>2, <6>1
          <6> HIDE DEF a, b
          <6>3. off[k] + i \in 1 .. Len(a \o b)
            BY <4>3, <4>4, <6>2
          <6>4. (a \o b)[off[k] + i] = s[k][i]
            BY <4>4, <6>2
          <6> QED
            BY <4>3, <6>3, <6>4
        <5> QED
          BY <5>1, <5>2
      <4>6. ASSUME NEW p \in 1 .. Len(f[m])
            PROVE  \E k \in 1 .. m : \E i \in 1 .. Len(s[k]) : p = off[k] + i
        <5>1. CASE p <= Len(a)
          <6>1. p \in 1 .. Len(a)
            BY <4>3, <5>1
          <6>2. PICK k \in 1 .. m - 1 : \E i \in 1 .. Len(s[k]) : p = off[k] + i
            BY <4>2, <6>1
          <6>3. k \in 1 .. m
            BY <3>3
          <6> QED
            BY <6>2, <6>3
        <5>2. CASE ~(p <= Len(a))
          <6>1. p - Len(a) \in 1 .. Len(b) /\ p = off[m] + (p - Len(a))
            <7> HIDE DEF a, b
            <7> QED
              BY <4>3, <4>4, <5>2
          <6>2. m \in 1 .. m
            BY <3>3
          <6> QED
            BY <6>1, <6>2
        <5> QED
          BY <5>1, <5>2
      <4>7. Placed(m)
        BY <4>5, <4>6
      <4> QED
        BY <4>7
    <3> QED
      BY <3>4, <3>5
  <2>7. Placed(Len(s))
    <3>1. Len(s) \in 1 .. Len(s)
      BY <1>0, <1>2
    <3> HIDE DEF Placed
    <3> QED
      BY <2>6, <3>1
  <2>8. Len(FlattenSeq(s)) = off[Len(s) + 1]
    BY <1>0, <1>2, <2>1, <2>4
  <2>9. Begins(off, s)
    BY <2>1, <2>3, <2>5, <2>7, <2>8 DEF Begins
  <2> QED
    BY <2>9
<1> QED
  BY <1>1, <1>2

(* They begin one after the other.                                         *)
LEMMA BeginsInOrder ==
  ASSUME NEW S, NEW s \in Seq(Seq(S)), NEW off, Begins(off, s),
         NEW k \in 1 .. Len(s) + 1, NEW l \in 1 .. Len(s) + 1, k <= l
  PROVE  off[k] <= off[l]
<1>0. /\ Len(s) \in Nat /\ off \in [1 .. Len(s) + 1 -> Nat]
      /\ \A j \in 1 .. Len(s) : off[j + 1] = off[j] + Len(s[j]) /\ Len(s[j]) \in Nat
  BY DEF Begins
<1> DEFINE Bad == { j \in 1 .. Len(s) + 1 : k <= j /\ off[j] < off[k] }
<1>1. off[k] \in Nat /\ off[l] \in Nat
  BY <1>0
<1>2. SUFFICES ASSUME Bad # {} PROVE FALSE
  BY <1>1
<1>3. PICK j \in Bad : \A i \in Bad : j <= i
  <2>1. Bad \in SUBSET Nat
    BY <1>0
  <2> HIDE DEF Bad
  <2> QED
    BY <1>2, <2>1, Least
<1>4. j \in 1 .. Len(s) + 1 /\ k <= j /\ off[j] < off[k]
  BY <1>3
<1>5. j # k /\ j - 1 \in 1 .. Len(s) /\ k <= j - 1 /\ j - 1 \in 1 .. Len(s) + 1 /\ (j - 1) + 1 = j
  BY <1>0, <1>1, <1>4
<1>6. off[j] = off[j - 1] + Len(s[j - 1]) /\ Len(s[j - 1]) \in Nat /\ off[j - 1] \in Nat
  BY <1>0, <1>5
<1>7. off[j - 1] < off[k]
  BY <1>1, <1>4, <1>6
<1>8. j - 1 \in Bad /\ ~(j <= j - 1)
  BY <1>0, <1>4, <1>5, <1>7
<1> HIDE DEF Bad
<1> QED
  BY <1>3, <1>8
=============================================================================
