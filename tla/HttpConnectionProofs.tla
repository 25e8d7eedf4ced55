------------------------ MODULE HttpConnectionProofs ------------------------
(***************************************************************************)
(* Proofs about HttpConnection: where the parser stands in the stream, and *)
(* with it that requests are read from where they begin, that answers come *)
(* in the order of the requests, that a close is announced, and that a     *)
(* handler's result is withheld for its ranges only when it should be.     *)
(***************************************************************************)
EXTENDS HttpConnection, DataProofs, FiniteSetTheorems

Kind == {"line", "field", "end", "data", "last"}

Unit == [of : Nat, kind : Kind]

(* The units of each message of a script; StreamOf joins them.             *)
UnitsOf(s) ==
  [k \in DOMAIN s |-> [i \in DOMAIN Units(s[k]) |-> [of |-> k, kind |-> Units(s[k])[i]]]]

(* The units before message k of a script.                                 *)
Start(s, k) == (CHOOSE off : Begins(off, UnitsOf(s)))[k]

(* A chunked message ends with a last chunk.                                   *)
LastUnits(m) == IF m.frame \in {"chunked", "both"} THEN 1 ELSE 0

From(k) == Start(script, k)

Answer == [to : 0 .. Len(script), status : {200, 400, 404, 413, 414, 415, 416, 500},
           len : Lengths \cup {0}, close : BOOLEAN]

Reads == {"headers", "body", "content", "handler"}

(* Requests remain as long as the connection is open; between requests,    *)
(* nothing is buffered and nothing is known of a message.                  *)
Open ==
  /\ answers \in Seq(Answer)
  /\ stage # "closed" => count >= 1
  /\ stage \in {"waiting", "line"} => got = 0
  /\ stage = "waiting" => used = taken /\ ~spoiled

(* Where the parser stands in the message it reads.                        *)
Position ==
  /\ stage \in Reads => req # 0
  /\ stage = "headers" => used \in {From(req) + 1, From(req) + 2} /\ got = 0
  /\ stage = "body" =>
       /\ Framed(script[req])
       /\ used = From(req) + 3 + got /\ got <= script[req].body
       /\ ~Chunked(script[req]) => got < script[req].body
  /\ stage \in {"content", "handler"} => used = From(req + 1)

(* Every message that has an answer was begun before.                      *)
Passed ==
  \A i \in DOMAIN answers : answers[i].to # 0 =>
    /\ From(answers[i].to) < used
    /\ stage \in Reads => answers[i].to < req

(* As long as no answer has announced the end and the client has not been  *)
(* early, the server reads the first message that has no answer, and no    *)
(* unit of a later one has been sent.                                      *)
InStep ==
  ~Closing /\ ~early =>
    /\ \A p \in 1 .. sent : stream[p].of <= Len(answers) + 1
    /\ stage \in {"waiting", "line"} =>
         /\ Len(answers) <= Len(script) /\ used = From(Len(answers) + 1)
         /\ ~spoiled
    /\ stage \in Reads => req = Len(answers) + 1

ConnectionInv ==
  /\ TypeOK /\ Open /\ Position /\ Passed /\ InStep
  /\ AnswersInOrder /\ CloseAnnounced /\ RangesSatisfied

-----------------------------------------------------------------------------
(* The units of one message, by their places.                              *)
LEMMA UnitsPlaces ==
  ASSUME NEW m \in Message
  PROVE  /\ Units(m) \in Seq(Kind)
         /\ Len(Units(m)) = 3 + m.body + LastUnits(m)
         /\ Units(m)[1] = "line" /\ Units(m)[2] = "field" /\ Units(m)[3] = "end"
         /\ \A j \in 1 .. m.body : Units(m)[3 + j] = "data"
         /\ LastUnits(m) = 1 => Units(m)[4 + m.body] = "last"
<1> DEFINE head == <<"line", "field", "end">>
           data == [i \in 1 .. m.body |-> "data"]
           last == IF m.frame \in {"chunked", "both"} THEN <<"last">> ELSE <<>>
<1>1. m.body \in Nat
  BY DEF Message
<1>2. head \in Seq(Kind) /\ Len(head) = 3 /\ head[1] = "line" /\ head[2] = "field" /\ head[3] = "end"
  BY DEF Kind
<1>3. data \in Seq(Kind) /\ Len(data) = m.body /\ \A j \in 1 .. m.body : data[j] = "data"
  BY <1>1 DEF Kind
<1>4. /\ last \in Seq(Kind) /\ Len(last) = LastUnits(m)
      /\ LastUnits(m) = 1 => last[1] = "last"
  <2>1. CASE m.frame \in {"chunked", "both"}
    <3>1. last = <<"last">> /\ LastUnits(m) = 1
      BY <2>1 DEF LastUnits
    <3> HIDE DEF last
    <3> QED
      BY <3>1 DEF Kind
  <2>2. CASE m.frame \notin {"chunked", "both"}
    <3>1. last = <<>> /\ LastUnits(m) = 0
      BY <2>2 DEF LastUnits
    <3> HIDE DEF last
    <3> QED
      BY <3>1
  <2> QED
    BY <2>1, <2>2
<1>5. Units(m) = (head \o data) \o last
  BY DEF Units
<1>6. LastUnits(m) \in {0, 1}
  BY DEF LastUnits
<1> HIDE DEF head, data, last
<1>7. /\ head \o data \in Seq(Kind) /\ Len(head \o data) = 3 + m.body
      /\ \A j \in 1 .. 3 : (head \o data)[j] = head[j]
      /\ \A j \in 1 .. m.body : (head \o data)[3 + j] = data[j]
  <2>1. /\ head \o data \in Seq(Kind) /\ Len(head \o data) = Len(head) + Len(data)
        /\ \A j \in 1 .. Len(head) : (head \o data)[j] = head[j]
        /\ \A j \in 1 .. Len(data) : (head \o data)[Len(head) + j] = data[j]
    <3>1. head \in Seq(Kind) /\ data \in Seq(Kind)
      BY <1>2, <1>3
    <3> QED
      BY <3>1, Joined
  <2>2. Len(head) = 3 /\ Len(data) = m.body
    BY <1>2, <1>3
  <2> QED
    BY <2>1, <2>2
<1>8. /\ Units(m) \in Seq(Kind) /\ Len(Units(m)) = 3 + m.body + LastUnits(m)
      /\ \A j \in 1 .. 3 + m.body : Units(m)[j] = (head \o data)[j]
      /\ \A j \in 1 .. LastUnits(m) : Units(m)[3 + m.body + j] = last[j]
  <2> DEFINE front == head \o data
  <2>1. front \in Seq(Kind) /\ Len(front) = 3 + m.body
    BY <1>7
  <2>2. Units(m) = front \o last
    BY <1>5
  <2> HIDE DEF front
  <2>3. /\ front \o last \in Seq(Kind) /\ Len(front \o last) = Len(front) + Len(last)
        /\ \A j \in 1 .. Len(front) : (front \o last)[j] = front[j]
        /\ \A j \in 1 .. Len(last) : (front \o last)[Len(front) + j] = last[j]
    <3>1. front \in Seq(Kind) /\ last \in Seq(Kind)
      BY <1>4, <2>1
    <3> QED
      BY <3>1, Joined
  <2>4. Len(last) = LastUnits(m)
    BY <1>4
  <2>5. /\ Units(m) \in Seq(Kind) /\ Len(Units(m)) = 3 + m.body + LastUnits(m)
        /\ \A j \in 1 .. 3 + m.body : Units(m)[j] = front[j]
        /\ \A j \in 1 .. LastUnits(m) : Units(m)[3 + m.body + j] = last[j]
    BY <2>1, <2>2, <2>3, <2>4
  <2> QED
    BY <2>5 DEF front
<1>9. ASSUME NEW j \in 1 .. m.body PROVE Units(m)[3 + j] = "data"
  <2>1. 3 + j \in 1 .. 3 + m.body
    BY <1>1
  <2> QED
    BY <1>3, <1>7, <1>8, <2>1
<1>10. ASSUME LastUnits(m) = 1 PROVE Units(m)[4 + m.body] = "last"
  <2>1. 1 \in 1 .. LastUnits(m) /\ 3 + m.body + 1 = 4 + m.body
    BY <1>1, <1>10
  <2> QED
    BY <1>4, <1>8, <1>10, <2>1
<1>11. Units(m)[1] = "line" /\ Units(m)[2] = "field" /\ Units(m)[3] = "end"
  <2>1. 1 \in 1 .. 3 + m.body /\ 2 \in 1 .. 3 + m.body /\ 3 \in 1 .. 3 + m.body
    BY <1>1
  <2> QED
    BY <1>2, <1>7, <1>8, <2>1
<1> QED
  BY <1>8, <1>9, <1>10, <1>11

(* Where the messages begin in the stream.                                 *)
LEMMA Starts ==
  ASSUME NEW s \in Scripts
  PROVE  /\ Len(s) \in Nat /\ \A k \in 1 .. Len(s) : s[k] \in Message
         /\ \A k \in 1 .. Len(s) + 1 : Start(s, k) \in Nat
         /\ Start(s, 1) = 0
         /\ \A k \in 1 .. Len(s) : Start(s, k + 1) = Start(s, k) + 3 + s[k].body + LastUnits(s[k])
         /\ StreamOf(s) \in Seq(Unit) /\ Len(StreamOf(s)) = Start(s, Len(s) + 1)
         /\ \A k \in 1 .. Len(s) : \A i \in 1 .. 3 + s[k].body + LastUnits(s[k]) :
              /\ Start(s, k) + i \in 1 .. Len(StreamOf(s))
              /\ StreamOf(s)[Start(s, k) + i] = [of |-> k, kind |-> Units(s[k])[i]]
         /\ \A p \in 1 .. Len(StreamOf(s)) : \E k \in 1 .. Len(s) :
              \E i \in 1 .. 3 + s[k].body + LastUnits(s[k]) : p = Start(s, k) + i
         /\ \A k, l \in 1 .. Len(s) + 1 : k <= l => Start(s, k) <= Start(s, l)
<1>1. s \in Seq(Message)
  BY ConnectionAssumption
<1>2. Len(s) \in Nat /\ DOMAIN s = 1 .. Len(s) /\ \A k \in 1 .. Len(s) : s[k] \in Message
  BY <1>1
<1> DEFINE us == UnitsOf(s)
<1>3. ASSUME NEW k \in 1 .. Len(s)
      PROVE  /\ us[k] \in Seq(Unit) /\ Len(us[k]) = 3 + s[k].body + LastUnits(s[k])
             /\ \A i \in 1 .. Len(us[k]) : us[k][i] = [of |-> k, kind |-> Units(s[k])[i]]
  <2>1. us[k] = [i \in DOMAIN Units(s[k]) |-> [of |-> k, kind |-> Units(s[k])[i]]]
    BY <1>2 DEF UnitsOf
  <2>2. Units(s[k]) \in Seq(Kind) /\ Len(Units(s[k])) = 3 + s[k].body + LastUnits(s[k])
    BY <1>2, UnitsPlaces
  <2>3. /\ Len(Units(s[k])) \in Nat /\ DOMAIN Units(s[k]) = 1 .. Len(Units(s[k]))
        /\ \A i \in 1 .. Len(Units(s[k])) : Units(s[k])[i] \in Kind
    BY <2>2
  <2>4. \A i \in 1 .. Len(Units(s[k])) : [of |-> k, kind |-> Units(s[k])[i]] \in Unit
    BY <1>2, <2>3 DEF Unit
  <2>5. us[k] \in Seq(Unit) /\ Len(us[k]) = Len(Units(s[k]))
    BY <2>1, <2>3, <2>4
  <2> QED
    BY <2>1, <2>2, <2>3, <2>5
<1>4. us \in Seq(Seq(Unit)) /\ Len(us) = Len(s)
  <2>1. us = [k \in 1 .. Len(s) |-> us[k]]
    BY <1>2 DEF UnitsOf
  <2> HIDE DEF us
  <2> QED
    BY <1>2, <1>3, <2>1
<1>5. StreamOf(s) = FlattenSeq(us)
  BY DEF StreamOf, UnitsOf
<1> DEFINE off == CHOOSE off : Begins(off, us)
<1>6. Begins(off, us)
  <2>1. \E o : Begins(o, us)
    <3> HIDE DEF us
    <3> QED
      BY <1>4, FlattenPlaces
  <2> QED
    BY <2>1
<1>7. \A k : Start(s, k) = off[k]
  BY DEF Start
<1> HIDE DEF off, us
<1>8. StreamOf(s) \in Seq(Unit)
  BY <1>4, <1>5, FlattenType
<1>9. \A k, l \in 1 .. Len(s) + 1 : k <= l => off[k] <= off[l]
  BY <1>4, <1>6, BeginsInOrder
<1>10. /\ off \in [1 .. Len(s) + 1 -> Nat] /\ off[1] = 0
       /\ Len(StreamOf(s)) = off[Len(s) + 1]
  BY <1>4, <1>5, <1>6 DEF Begins
<1>11. ASSUME NEW k \in 1 .. Len(s)
       PROVE  off[k + 1] = off[k] + 3 + s[k].body + LastUnits(s[k])
  <2>1. off[k + 1] = off[k] + Len(us[k])
    BY <1>4, <1>6 DEF Begins
  <2>2. off[k] \in Nat /\ s[k].body \in Nat /\ LastUnits(s[k]) \in Nat
    BY <1>2, <1>10 DEF Message, LastUnits
  <2>3. Len(us[k]) = 3 + s[k].body + LastUnits(s[k])
    BY <1>3
  <2>4. off[k + 1] = off[k] + (3 + s[k].body + LastUnits(s[k]))
    BY <2>1, <2>3
  <2> QED
    BY <2>2, <2>4
<1>12. ASSUME NEW k \in 1 .. Len(s), NEW i \in 1 .. 3 + s[k].body + LastUnits(s[k])
       PROVE  /\ off[k] + i \in 1 .. Len(StreamOf(s))
              /\ StreamOf(s)[off[k] + i] = [of |-> k, kind |-> Units(s[k])[i]]
  <2>1. i \in 1 .. Len(us[k])
    BY <1>3
  <2>2. off[k] + i \in 1 .. Len(StreamOf(s)) /\ StreamOf(s)[off[k] + i] = us[k][i]
    BY <1>4, <1>5, <1>6, <2>1 DEF Begins
  <2> QED
    BY <1>3, <2>1, <2>2
<1>13. ASSUME NEW p \in 1 .. Len(StreamOf(s))
       PROVE  \E k \in 1 .. Len(s) : \E i \in 1 .. 3 + s[k].body + LastUnits(s[k]) : p = off[k] + i
  <2>1. \A q \in 1 .. Len(FlattenSeq(us)) :
          \E k \in 1 .. Len(us) : \E i \in 1 .. Len(us[k]) : q = off[k] + i
    BY <1>6 DEF Begins
  <2>2. PICK k \in 1 .. Len(s) : \E i \in 1 .. Len(us[k]) : p = off[k] + i
    BY <1>4, <1>5, <2>1
  <2>3. Len(us[k]) = 3 + s[k].body + LastUnits(s[k])
    BY <1>3
  <2> QED
    BY <2>2, <2>3
<1>14. Start(s, 1) = 0 /\ \A k \in 1 .. Len(s) + 1 : Start(s, k) \in Nat
  BY <1>2, <1>7, <1>10
<1>15. Len(StreamOf(s)) = Start(s, Len(s) + 1)
  BY <1>7, <1>10
<1>16. \A k \in 1 .. Len(s) : Start(s, k + 1) = Start(s, k) + 3 + s[k].body + LastUnits(s[k])
  BY <1>7, <1>11
<1>17. \A k \in 1 .. Len(s) : \A i \in 1 .. 3 + s[k].body + LastUnits(s[k]) :
         /\ Start(s, k) + i \in 1 .. Len(StreamOf(s))
         /\ StreamOf(s)[Start(s, k) + i] = [of |-> k, kind |-> Units(s[k])[i]]
  BY <1>7, <1>12
<1>18. \A p \in 1 .. Len(StreamOf(s)) : \E k \in 1 .. Len(s) :
         \E i \in 1 .. 3 + s[k].body + LastUnits(s[k]) : p = Start(s, k) + i
  BY <1>7, <1>13
<1>19. \A k, l \in 1 .. Len(s) + 1 : k <= l => Start(s, k) <= Start(s, l)
  BY <1>7, <1>9
<1> QED
  BY <1>2, <1>8, <1>14, <1>15, <1>16, <1>17, <1>18, <1>19

(* Later messages begin later.                                             *)
LEMMA LaterStart ==
  ASSUME NEW s \in Scripts, NEW k \in 1 .. Len(s), NEW l \in 1 .. Len(s) + 1, k < l
  PROVE  /\ Start(s, k) \in Nat /\ Start(s, k + 1) \in Nat /\ Start(s, l) \in Nat
         /\ Start(s, k) + 3 <= Start(s, k + 1) /\ Start(s, k + 1) <= Start(s, l)
<1>1. Len(s) \in Nat /\ s[k] \in Message
  BY Starts
<1>2. k \in 1 .. Len(s) + 1 /\ k + 1 \in 1 .. Len(s) + 1 /\ k + 1 <= l
  BY <1>1
<1>3. Start(s, k) \in Nat /\ Start(s, k + 1) \in Nat /\ Start(s, l) \in Nat
  BY <1>2, Starts
<1>4. Start(s, k + 1) <= Start(s, l)
  BY <1>2, Starts
<1>5. Start(s, k + 1) = Start(s, k) + 3 + s[k].body + LastUnits(s[k])
  BY Starts
<1>6. s[k].body \in Nat /\ LastUnits(s[k]) \in Nat
  BY <1>1 DEF Message, LastUnits
<1> QED
  BY <1>3, <1>4, <1>5, <1>6

(* The unit at a place is one of a message, and its kind says which.       *)
Tells(s, p, u, b) ==
  /\ u.of \in 1 .. Len(s) /\ u.kind \in Kind /\ b \in Nat
  /\ b < p /\ p <= Start(s, u.of + 1)
  /\ u.kind = "line" <=> p = b + 1
  /\ u.kind = "field" <=> p = b + 2
  /\ u.kind = "end" <=> p = b + 3
  /\ u.kind = "data" <=> p \in b + 4 .. b + 3 + s[u.of].body
  /\ u.kind = "last" <=> p = b + 4 + s[u.of].body

(* What a unit says of its place.                                          *)
LEMMA UnitAt ==
  ASSUME NEW s \in Scripts, NEW p \in 1 .. Len(StreamOf(s))
  PROVE  Tells(s, p, StreamOf(s)[p], Start(s, StreamOf(s)[p].of))
<1> DEFINE u == StreamOf(s)[p]
           b == Start(s, u.of)
<1> HIDE DEF u, b
<1>0. u = StreamOf(s)[p] /\ b = Start(s, u.of)
  BY DEF u, b
<1>1. PICK k \in 1 .. Len(s) : \E i \in 1 .. 3 + s[k].body + LastUnits(s[k]) : p = Start(s, k) + i
  BY Starts
<1>2. PICK i \in 1 .. 3 + s[k].body + LastUnits(s[k]) : p = Start(s, k) + i
  BY <1>1
<1>3. u = [of |-> k, kind |-> Units(s[k])[i]]
  BY <1>0, <1>1, <1>2, Starts
<1>4. u.of = k /\ u.kind = Units(s[k])[i] /\ b = Start(s, k)
  BY <1>0, <1>3
<1>5. s[k] \in Message /\ Len(s) \in Nat /\ k \in 1 .. Len(s) + 1
  BY <1>1, Starts
<1>6. b \in Nat /\ Start(s, k + 1) = b + 3 + s[k].body + LastUnits(s[k])
  BY <1>4, <1>5, Starts
<1>7. s[k].body \in Nat /\ LastUnits(s[k]) \in {0, 1}
  BY <1>5 DEF Message, LastUnits
<1>8. /\ Units(s[k])[1] = "line" /\ Units(s[k])[2] = "field" /\ Units(s[k])[3] = "end"
      /\ \A j \in 1 .. s[k].body : Units(s[k])[3 + j] = "data"
      /\ LastUnits(s[k]) = 1 => Units(s[k])[4 + s[k].body] = "last"
  BY <1>5, UnitsPlaces
<1>9. p = b + i /\ i \in Nat /\ i >= 1 /\ i <= 3 + s[k].body + LastUnits(s[k])
  BY <1>2, <1>4, <1>7
<1>10. b < p /\ p <= Start(s, u.of + 1)
  <2>1. Start(s, u.of + 1) = b + 3 + s[k].body + LastUnits(s[k])
    BY <1>4, <1>6
  <2>2. b < p /\ p <= b + 3 + s[k].body + LastUnits(s[k])
    BY <1>6, <1>7, <1>9
  <2> QED
    BY <2>1, <2>2
<1>11. \/ i = 1 /\ u.kind = "line"
       \/ i = 2 /\ u.kind = "field"
       \/ i = 3 /\ u.kind = "end"
       \/ i \in 4 .. 3 + s[k].body /\ u.kind = "data"
       \/ i = 4 + s[k].body /\ u.kind = "last"
  <2>1. CASE i \in {1, 2, 3}
    <3>1. CASE i = 1
      <4>1. Units(s[k])[1] = "line"
        BY <1>8
      <4>2. u.kind = "line"
        BY <1>4, <3>1, <4>1
      <4> QED
        BY <3>1, <4>2
    <3>2. CASE i = 2
      <4>1. Units(s[k])[2] = "field"
        BY <1>8
      <4>2. u.kind = "field"
        BY <1>4, <3>2, <4>1
      <4> QED
        BY <3>2, <4>2
    <3>3. CASE i = 3
      <4>1. Units(s[k])[3] = "end"
        BY <1>8
      <4>2. u.kind = "end"
        BY <1>4, <3>3, <4>1
      <4> QED
        BY <3>3, <4>2
    <3> QED
      BY <2>1, <3>1, <3>2, <3>3
  <2>2. CASE i \in 4 .. 3 + s[k].body
    <3>1. i - 3 \in 1 .. s[k].body /\ 3 + (i - 3) = i
      BY <1>7, <1>9, <2>2
    <3>2. u.kind = "data"
      BY <1>4, <1>8, <3>1
    <3> QED
      BY <2>2, <3>2
  <2>3. CASE i \notin {1, 2, 3} /\ i \notin 4 .. 3 + s[k].body
    <3>1. i = 4 + s[k].body /\ LastUnits(s[k]) = 1
      BY <1>7, <1>9, <2>3
    <3> QED
      BY <1>4, <1>8, <3>1
  <2> QED
    BY <2>1, <2>2, <2>3
<1>12. u.kind \in Kind
  BY <1>11 DEF Kind
<1>13. /\ u.kind = "line" <=> i = 1
       /\ u.kind = "field" <=> i = 2
       /\ u.kind = "end" <=> i = 3
       /\ u.kind = "data" <=> i \in 4 .. 3 + s[k].body
       /\ u.kind = "last" <=> i = 4 + s[k].body
  <2> DEFINE body == s[k].body
             kind == u.kind
  <2>1. body \in Nat /\ i \in Nat
    BY <1>7, <1>9
  <2>2. \/ i = 1 /\ kind = "line"
        \/ i = 2 /\ kind = "field"
        \/ i = 3 /\ kind = "end"
        \/ i \in 4 .. 3 + body /\ kind = "data"
        \/ i = 4 + body /\ kind = "last"
    BY <1>11
  <2> HIDE DEF body, kind
  <2>3. /\ kind = "line" <=> i = 1
        /\ kind = "field" <=> i = 2
        /\ kind = "end" <=> i = 3
        /\ kind = "data" <=> i \in 4 .. 3 + body
        /\ kind = "last" <=> i = 4 + body
    BY <2>1, <2>2
  <2> QED
    BY <2>3 DEF body, kind
<1>14. /\ p = b + 1 <=> i = 1
       /\ p = b + 2 <=> i = 2
       /\ p = b + 3 <=> i = 3
       /\ p \in b + 4 .. b + 3 + s[k].body <=> i \in 4 .. 3 + s[k].body
       /\ p = b + 4 + s[k].body <=> i = 4 + s[k].body
  <2> DEFINE body == s[k].body
  <2>1. body \in Nat
    BY <1>7
  <2>2. b \in Nat /\ i \in Nat /\ p = b + i
    BY <1>6, <1>9
  <2> HIDE DEF body
  <2>3. (p = b + 1 <=> i = 1) /\ (p = b + 2 <=> i = 2) /\ (p = b + 3 <=> i = 3)
    BY <2>2
  <2>4. p \in b + 4 .. b + 3 + body <=> i \in 4 .. 3 + body
    BY <2>1, <2>2
  <2>5. b + 4 + body = b + (4 + body) /\ 4 + body \in Nat
    BY <2>1, <2>2
  <2>6. p = b + 4 + body <=> i = 4 + body
    BY <2>2, <2>5
  <2> QED
    BY <2>3, <2>4, <2>6 DEF body
<1>15. Tells(s, p, u, b)
  BY <1>1, <1>4, <1>6, <1>10, <1>12, <1>13, <1>14 DEF Tells
<1> QED
  BY <1>0, <1>15

(* To which message the unit at a place belongs.                           *)
LEMMA UnitOf ==
  ASSUME NEW s \in Scripts, NEW k \in 1 .. Len(s), NEW p \in Nat,
         Start(s, k) < p, p <= Start(s, k + 1)
  PROVE  p \in 1 .. Len(StreamOf(s)) /\ StreamOf(s)[p].of = k
<1>1. Len(s) \in Nat /\ s[k] \in Message /\ k \in 1 .. Len(s) + 1
  BY Starts
<1>2. Start(s, k) \in Nat /\ Start(s, k + 1) = Start(s, k) + 3 + s[k].body + LastUnits(s[k])
  BY <1>1, Starts
<1>3. s[k].body \in Nat /\ LastUnits(s[k]) \in Nat
  BY <1>1 DEF Message, LastUnits
<1> DEFINE first == Start(s, k)
           next == Start(s, k + 1)
           size == 3 + s[k].body + LastUnits(s[k])
<1>a. first \in Nat /\ size \in Nat /\ next = first + size /\ first < p /\ p <= next
  <2> DEFINE body == s[k].body
             last == LastUnits(s[k])
  <2>1. next = first + 3 + body + last
    BY <1>2
  <2>2. body \in Nat /\ last \in Nat /\ first \in Nat
    BY <1>2, <1>3
  <2>3. size = 3 + body + last /\ first < p /\ p <= next
    OBVIOUS
  <2> HIDE DEF body, last, first, next, size
  <2> QED
    BY <2>1, <2>2, <2>3
<1> HIDE DEF first, next, size
<1>b. p - first \in 1 .. size /\ p = first + (p - first)
  BY <1>a
<1>4. p - Start(s, k) \in 1 .. 3 + s[k].body + LastUnits(s[k]) /\ p = Start(s, k) + (p - Start(s, k))
  BY <1>b DEF first, size
<1>5. p \in 1 .. Len(StreamOf(s)) /\ StreamOf(s)[p] = [of |-> k, kind |-> Units(s[k])[p - Start(s, k)]]
  BY <1>4, Starts
<1> QED
  BY <1>5

-----------------------------------------------------------------------------

(* What the steps that end a request have in common: a response to the     *)
(* message that was read, or none and the end of the connection.           *)
Written(k, status, len) ==
  /\ answers' = Append(answers, [to |-> k, status |-> status, len |-> len,
                                 close |-> AnnouncesClose(k, status)])
  /\ stage' \in {"waiting", "closed"} /\ (count = 1 => stage' = "closed")
  /\ stage' = "closed" => AnnouncesClose(k, status) \/ (k # 0 /\ ~Persistent(script[k]))
  /\ count' = count - 1

Reply(k, status, len) ==
  /\ stage \in Reads \cup {"line"}
  /\ k = IF stage = "line" THEN 0 ELSE req
  /\ status \in {200, 400, 404, 413, 414, 415, 416, 500} /\ len \in Lengths \cup {0}
  /\ status = 200 => stage = "handler" /\ ~RangeError(script[k].ranges, len)
  /\ k # 0 /\ status = 416 /\ script[k].refuse = 0 => RangeError(script[k].ranges, len)
  /\ Written(k, status, len)

Quits ==
  /\ stage' = "closed" /\ UNCHANGED <<answers, count>>
  /\ hungup \/ late'

Ending ==
  /\ Discard /\ UNCHANGED clientVars
  /\ late' \in BOOLEAN /\ (late => late')
  /\ continued' \in {continued, req}
  /\ Quits \/ \E k, status, len : Reply(k, status, len)

(* The steps that end a request end it in that way.                        *)
LEMMA EndingSteps ==
  ASSUME TypeOK, Open, Position,
         \/ ReadNoLine \/ ReadNoField \/ Refuse \/ NoRoute \/ RefuseBody
         \/ ReadTooMuch \/ ReadBroken
         \/ Content /\ script[req].form \in {"broken", "long"}
         \/ Handle \/ ReadFails
  PROVE  Ending
<1>2. hungup \in BOOLEAN /\ late \in BOOLEAN
  BY DEF TypeOK
<1>3. ASSUME stage \in Reads
      PROVE  req # 0 /\ req \in 1 .. Len(script) /\ script[req] \in Message
  <2>1. script \in Scripts /\ req \in 0 .. Len(script) /\ req # 0
    BY <1>3 DEF TypeOK, Position
  <2>2. Len(script) \in Nat /\ \A k \in 1 .. Len(script) : script[k] \in Message
    BY <2>1, Starts
  <2> QED
    BY <2>1, <2>2
(* The end of a request by an error, or without a response.                *)
<1> DEFINE Errors == {400, 404, 413, 414, 415, 416, 500}
           Kept == /\ UNCHANGED clientVars /\ Discard /\ late' \in BOOLEAN /\ (late => late')
                   /\ continued' \in {continued, req}
<1>4. ASSUME NEW k, NEW status \in Errors, k = IF stage = "line" THEN 0 ELSE req,
             stage \in Reads \cup {"line"},
             Written(k, status, 0) \/ RespondFails,
             k # 0 /\ status = 416 => script[k].refuse # 0,
             Kept
      PROVE  Ending
  <2>1. CASE Written(k, status, 0)
    <3>1. status # 200 /\ status \in {200, 400, 404, 413, 414, 415, 416, 500}
      OBVIOUS
    <3>2. Reply(k, status, 0)
      BY <1>4, <2>1, <3>1 DEF Reply
    <3> QED
      BY <1>4, <3>2 DEF Ending
  <2>2. CASE RespondFails
    BY <1>4, <2>2 DEF Ending, Quits, RespondFails
  <2> QED
    BY <1>4, <2>1, <2>2
<1>6. CASE ReadNoLine
  <2>1. stage = "line" /\ End(0, 400, 0, FALSE)
    BY <1>6 DEF ReadNoLine
  <2>2. Kept
    BY <1>2, <2>1 DEF End
  <2>3. Written(0, 400, 0) \/ RespondFails
    BY <2>1 DEF End, Written, Respond, AnnouncesClose
  <2> HIDE DEF Kept
  <2> QED
    BY <1>4, <2>1, <2>2, <2>3
<1>7. CASE ReadNoField
  <2>1. stage = "headers" /\ End(req, 400, 0, FALSE)
    BY <1>7 DEF ReadNoField
  <2>2. Kept
    BY <1>2, <2>1 DEF End
  <2>3. Written(req, 400, 0) \/ RespondFails
    BY <2>1 DEF End, Written, Respond, Closes, AnnouncesClose
  <2> HIDE DEF Kept
  <2> QED
    BY <1>4, <2>1, <2>2, <2>3 DEF Reads
<1>8. CASE Refuse
  <2>1. stage = "headers"
    BY <1>8 DEF Refuse, Ends
  <2>2. script[req] \in Message
    BY <1>3, <2>1 DEF Reads
  <2>3. CASE End(req, 400, 0, TRUE)
    <3>2. Kept
      BY <1>2, <2>3 DEF End
    <3>3. Written(req, 400, 0) \/ RespondFails
      BY <2>3 DEF End, Written, Respond, AnnouncesClose
    <3> HIDE DEF Kept
    <3> QED
      BY <1>4, <2>1, <3>2, <3>3 DEF Reads
  <2>4. CASE Refused(script[req]) /\ End(req, script[req].refuse, 0, TRUE)
    <3> DEFINE status == script[req].refuse
    <3>1. status \in {400, 414, 416} /\ status # 0
      BY <2>2, <2>4 DEF Refused, Message
    <3>2. Kept
      BY <1>2, <2>4 DEF End
    <3>3. status \in Errors /\ status >= 400
      BY <3>1
    <3>4. Written(req, status, 0) \/ RespondFails
      BY <2>4, <3>3 DEF End, Written, Respond, AnnouncesClose
    <3>5. status = 416 => script[req].refuse # 0
      BY <3>1
    <3> HIDE DEF Kept, Errors, status
    <3> QED
      BY <1>4, <2>1, <3>2, <3>3, <3>4, <3>5 DEF Reads
  <2> QED
    BY <1>8, <2>3, <2>4 DEF Refuse
<1>9. ASSUME NEW status \in {400, 404, 415}, stage = "headers", Continue, Discard,
             Respond(req, status, 0, Closes(req, status, FALSE)) \/ RespondFails,
             UNCHANGED <<clientVars, late>>
      PROVE  Ending
  <2>1. status \in Errors /\ status # 416 /\ status >= 400
    OBVIOUS
  <2>2. Kept
    BY <1>2, <1>9 DEF Continue
  <2>3. Written(req, status, 0) \/ RespondFails
    BY <1>9, <2>1 DEF Written, Respond, Closes, AnnouncesClose
  <2> HIDE DEF Kept, Errors
  <2> QED
    BY <1>4, <1>9, <2>1, <2>2, <2>3 DEF Reads
<1>10. CASE NoRoute
  <2>1. /\ stage = "headers" /\ Continue /\ Discard /\ UNCHANGED <<clientVars, late>>
        /\ \E status \in {400, 404} :
             Respond(req, status, 0, Closes(req, status, FALSE)) \/ RespondFails
    BY <1>10 DEF NoRoute, Accepted, Ends
  <2>2. PICK status \in {400, 404} :
          Respond(req, status, 0, Closes(req, status, FALSE)) \/ RespondFails
    BY <2>1
  <2>3. status \in {400, 404, 415}
    OBVIOUS
  <2> QED
    BY <1>9, <2>1, <2>2, <2>3, Zenon
<1>11. CASE RefuseBody
  <2>1. /\ stage = "headers" /\ Continue /\ Discard /\ UNCHANGED <<clientVars, late>>
        /\ \E status \in {400, 415} :
             Respond(req, status, 0, Closes(req, status, FALSE)) \/ RespondFails
    BY <1>11 DEF RefuseBody, Accepted, Ends
  <2>2. PICK status \in {400, 415} :
          Respond(req, status, 0, Closes(req, status, FALSE)) \/ RespondFails
    BY <2>1
  <2>3. status \in {400, 404, 415}
    OBVIOUS
  <2> QED
    BY <1>9, <2>1, <2>2, <2>3, Zenon
<1>12. CASE ReadTooMuch
  <2>1. stage = "body" /\ End(req, 413, 0, Closes(req, 413, FALSE))
    BY <1>12 DEF ReadTooMuch
  <2>2. Kept
    BY <1>2, <2>1 DEF End
  <2>3. Written(req, 413, 0) \/ RespondFails
    BY <2>1 DEF End, Written, Respond, Closes, AnnouncesClose
  <2> HIDE DEF Kept
  <2> QED
    BY <1>4, <2>1, <2>2, <2>3 DEF Reads
<1>13. CASE ReadBroken
  <2>1. stage = "body" /\ End(req, 400, 0, Closes(req, 400, FALSE))
    BY <1>13 DEF ReadBroken
  <2>2. Kept
    BY <1>2, <2>1 DEF End
  <2>3. Written(req, 400, 0) \/ RespondFails
    BY <2>1 DEF End, Written, Respond, Closes, AnnouncesClose
  <2> HIDE DEF Kept
  <2> QED
    BY <1>4, <2>1, <2>2, <2>3 DEF Reads
<1>14. CASE Content /\ script[req].form \in {"broken", "long"}
  <2>1. stage = "content"
    BY <1>14 DEF Content
  <2>2. CASE End(req, 400, 0, Closes(req, 400, TRUE))
    <3>1. Kept
      BY <1>2, <2>2 DEF End
    <3>2. Written(req, 400, 0) \/ RespondFails
      BY <2>2 DEF End, Written, Respond, Closes, AnnouncesClose
    <3> HIDE DEF Kept
    <3> QED
      BY <1>4, <2>1, <3>1, <3>2 DEF Reads
  <2>3. CASE End(req, 413, 0, Closes(req, 413, TRUE))
    <3>1. Kept
      BY <1>2, <2>3 DEF End
    <3>2. Written(req, 413, 0) \/ RespondFails
      BY <2>3 DEF End, Written, Respond, Closes, AnnouncesClose
    <3> HIDE DEF Kept
    <3> QED
      BY <1>4, <2>1, <3>1, <3>2 DEF Reads
  <2> QED
    BY <1>14, <2>2, <2>3 DEF Content
<1>15. CASE Handle
  <2>1. stage = "handler" /\ req # 0
    BY <1>3, <1>15 DEF Handle, Reads
  <2>2. ASSUME NEW status \in {400, 500}, End(req, status, 0, Closes(req, status, TRUE))
        PROVE  Ending
    <3>1. status \in Errors /\ status # 416 /\ status >= 400
      OBVIOUS
    <3>2. Kept
      BY <1>2, <2>2 DEF End
    <3>3. Written(req, status, 0) \/ RespondFails
      BY <2>2, <3>1 DEF End, Written, Respond, Closes, AnnouncesClose
    <3> HIDE DEF Kept, Errors
    <3> QED
      BY <1>4, <2>1, <3>1, <3>2, <3>3 DEF Reads
  <2>3. ASSUME NEW len \in Lengths, NEW status,
               status = IF RangeError(script[req].ranges, len) THEN 416 ELSE 200,
               End(req, status, len, Closes(req, status, TRUE))
        PROVE  Ending
    <3>1. status \in {200, 416}
      BY <2>3
    <3>2. status = 200 => ~RangeError(script[req].ranges, len)
      BY <2>3
    <3>3. status = 416 => RangeError(script[req].ranges, len)
      BY <2>3
    <3>4. Kept
      BY <1>2, <2>3 DEF End
    <3>5. CASE Respond(req, status, len, Closes(req, status, TRUE))
      <4>1. Written(req, status, len)
        BY <2>1, <3>5 DEF Written, Respond, Closes, AnnouncesClose
      <4>2. Reply(req, status, len)
        BY <2>1, <2>3, <3>1, <3>2, <3>3, <4>1 DEF Reply, Reads
      <4> QED
        BY <3>4, <4>2 DEF Ending
    <3>6. CASE RespondFails
      BY <3>4, <3>6 DEF Ending, Quits, RespondFails
    <3> QED
      BY <2>3, <3>5, <3>6 DEF End
  <2>4. CASE \E status \in {400, 500} : End(req, status, 0, Closes(req, status, TRUE))
    BY <2>2, <2>4
  <2>5. CASE \E len \in Lengths :
               LET status == IF RangeError(script[req].ranges, len) THEN 416 ELSE 200
               IN End(req, status, len, Closes(req, status, TRUE))
    BY <2>3, <2>5, Zenon
  <2> QED
    BY <1>15, <2>4, <2>5, Zenon DEF Handle
<1>16. CASE ReadFails
  <2>1. /\ late' = (late \/ ~hungup) /\ UNCHANGED clientVars /\ continued' = continued
        /\ late' \in BOOLEAN /\ (late => late') /\ (hungup \/ late')
    BY <1>2, <1>16 DEF ReadFails
  <2>2. Kept
    BY <1>16, <2>1 DEF ReadFails
  <2>3. CASE stage = "line" /\ stage' = "closed" /\ UNCHANGED <<answers, count>>
    BY <2>1, <2>2, <2>3 DEF Ending, Quits
  <2>4. CASE stage = "line" /\ (Respond(0, 400, 0, FALSE) \/ RespondFails)
    <3>1. Written(0, 400, 0) \/ RespondFails
      BY <2>4 DEF Written, Respond, Closes, AnnouncesClose
    <3> HIDE DEF Kept
    <3> QED
      BY <1>4, <2>2, <2>4, <3>1
  <2>5. CASE stage = "headers" /\ (Respond(req, 400, 0, FALSE) \/ RespondFails)
    <3>1. Written(req, 400, 0) \/ RespondFails
      BY <2>5 DEF Written, Respond, Closes, AnnouncesClose
    <3> HIDE DEF Kept
    <3> QED
      BY <1>4, <2>2, <2>5, <3>1 DEF Reads
  <2>6. CASE stage = "body" /\ (Respond(req, 400, 0, Closes(req, 400, FALSE)) \/ RespondFails)
    <3>1. Written(req, 400, 0) \/ RespondFails
      BY <2>6 DEF Written, Respond, Closes, AnnouncesClose
    <3> HIDE DEF Kept
    <3> QED
      BY <1>4, <2>2, <2>6, <3>1 DEF Reads
  <2> QED
    BY <1>16, <2>3, <2>4, <2>5, <2>6 DEF ReadFails
<1> QED
  BY <1>6, <1>7, <1>8, <1>10, <1>11, <1>12, <1>13, <1>14, <1>15, <1>16

(* The steps there are: those that end a request, and each of the others.  *)
LEMMA Cases ==
  ASSUME TypeOK, Open, Position, [Next]_vars
  PROVE  \/ Ending
         \/ Send \/ HangUp \/ Receive \/ Begin \/ GiveUp \/ ReadLine \/ SpoilLine
         \/ ReadField \/ Route \/ ReadBody \/ ReadLastChunk
         \/ /\ stage = "content" /\ stage' = "handler"
            /\ UNCHANGED <<clientVars, taken, used, parser, count, continued, answers, late>>
         \/ UNCHANGED vars
<1>1. CASE \/ ReadNoLine \/ ReadNoField \/ Refuse \/ NoRoute \/ RefuseBody
           \/ ReadTooMuch \/ ReadBroken
           \/ Content /\ script[req].form \in {"broken", "long"}
           \/ Handle \/ ReadFails
  BY <1>1, EndingSteps
<1>2. CASE Content /\ script[req].form \notin {"broken", "long"}
  BY <1>2 DEF Content
<1>3. CASE Idle
  BY <1>3 DEF Idle
<1>4. CASE Content
  BY <1>1, <1>2, <1>4
<1> QED
  BY <1>1, <1>3, <1>4 DEF Next, Server

(* A message being read is one of the script's.                            *)
LEMMA MessageRead ==
  ASSUME TypeOK, Position
  PROVE  /\ script \in Scripts /\ stream = StreamOf(script) /\ Len(script) \in Nat
         /\ stage \in Reads => req # 0 /\ req \in 1 .. Len(script) /\ script[req] \in Message
<1>1. script \in Scripts /\ stream = StreamOf(script) /\ req \in 0 .. Len(script)
  BY DEF TypeOK
<1>2. Len(script) \in Nat /\ \A k \in 1 .. Len(script) : script[k] \in Message
  BY <1>1, Starts
<1>3. stage \in Reads => req # 0
  BY DEF Position
<1> QED
  BY <1>1, <1>2, <1>3

(* What a response adds to the answers.                                    *)
LEMMA ReplyAdds ==
  ASSUME TypeOK, Open, Position, NEW k, NEW status, NEW len, Reply(k, status, len),
         UNCHANGED clientVars
  PROVE  /\ k \in 0 .. Len(script)
         /\ answers' \in Seq(Answer) /\ Len(answers) \in Nat
         /\ DOMAIN answers = 1 .. Len(answers) /\ DOMAIN answers' = 1 .. Len(answers) + 1
         /\ Len(answers') = Len(answers) + 1
         /\ \A i \in 1 .. Len(answers) : answers'[i] = answers[i]
         /\ answers'[Len(answers) + 1] = [to |-> k, status |-> status, len |-> len,
                                          close |-> AnnouncesClose(k, status)]
<1> DEFINE a == [to |-> k, status |-> status, len |-> len, close |-> AnnouncesClose(k, status)]
<1>1. k \in 0 .. Len(script)
  BY MessageRead DEF Reply, TypeOK
<1>2. AnnouncesClose(k, status) \in BOOLEAN
  BY DEF AnnouncesClose
<1>3. a \in Answer
  BY <1>1, <1>2 DEF Reply, Answer
<1>4. answers' = Append(answers, a) /\ answers \in Seq(Answer)
  BY DEF Reply, Written, Open
<1> HIDE DEF a
<1>5. /\ answers' \in Seq(Answer) /\ Len(answers) \in Nat
      /\ DOMAIN answers = 1 .. Len(answers) /\ DOMAIN answers' = 1 .. Len(answers) + 1
      /\ Len(answers') = Len(answers) + 1
      /\ \A i \in 1 .. Len(answers) : answers'[i] = answers[i]
      /\ answers'[Len(answers) + 1] = a
  BY <1>3, <1>4
<1> QED
  BY <1>1, <1>5 DEF a

-----------------------------------------------------------------------------
(* Every step keeps the types, and the loop's count.                       *)
LEMMA TypesStep ==
  ASSUME TypeOK, Open, Position, [Next]_vars
  PROVE  TypeOK' /\ Open'
<1>1. /\ script \in Scripts /\ stream = StreamOf(script) /\ Len(script) \in Nat
      /\ KeepAliveMax \in Nat \ {0} /\ MaxPayload \in Nat /\ Lengths \subseteq Nat
  BY MessageRead, ConnectionAssumption
<1>2. stream \in Seq(Unit) /\ Len(stream) \in Nat
  <2>1. stream \in Seq(Unit)
    BY <1>1, Starts
  <2> QED
    BY <2>1
<1>3. /\ sent \in Nat /\ taken \in Nat /\ used \in Nat /\ got \in Nat /\ count \in Nat
      /\ used <= taken /\ taken <= sent /\ sent <= Len(stream) /\ got <= MaxPayload
      /\ count <= KeepAliveMax
  BY <1>1, <1>2 DEF TypeOK
<1>4. CASE Ending
  <2>1. /\ UNCHANGED clientVars /\ taken' = taken /\ used' = taken /\ spoiled' = FALSE
        /\ req' = 0 /\ got' = 0 /\ late' \in BOOLEAN
        /\ continued' \in {continued, req}
    BY <1>4 DEF Ending, Discard
  <2>2. script' = script /\ req \in 0 .. Len(script) /\ continued \in 0 .. Len(script)
    BY <2>1 DEF TypeOK, clientVars
  <2>3. continued' \in 0 .. Len(script')
    BY <2>1, <2>2
  <2>4. req' \in 0 .. Len(script') /\ got' \in 0 .. MaxPayload
    BY <1>1, <2>1, <2>2
  <2>5. /\ script' \in Scripts /\ stream' = StreamOf(script')
        /\ sent' \in 0 .. Len(stream') /\ taken' \in 0 .. sent' /\ used' \in 0 .. taken'
        /\ hungup' \in BOOLEAN /\ early' \in BOOLEAN /\ spoiled' \in BOOLEAN /\ late' \in BOOLEAN
    <3>1. /\ script' = script /\ stream' = stream /\ sent' = sent
          /\ hungup' = hungup /\ early' = early
      BY <2>1 DEF clientVars
    <3>2. hungup \in BOOLEAN /\ early \in BOOLEAN
      BY DEF TypeOK
    <3>3. taken \in 0 .. sent /\ taken \in 0 .. taken /\ sent \in 0 .. Len(stream)
      BY <1>2, <1>3
    <3>4. taken' \in 0 .. sent' /\ used' \in 0 .. taken'
      BY <2>1, <3>1, <3>3
    <3> QED
      BY <1>1, <2>1, <3>1, <3>2, <3>3, <3>4
  <2>6. CASE Quits
    <3>1. stage' = "closed" /\ answers' = answers /\ count' = count
      BY <2>6 DEF Quits
    <3>2. TypeOK'
      BY <2>1, <2>3, <2>4, <2>5, <3>1 DEF TypeOK, clientVars
    <3>3. Open'
      BY <2>1, <3>1 DEF Open, Answer, clientVars
    <3> QED
      BY <3>2, <3>3
  <2>7. ASSUME NEW k, NEW status, NEW len, Reply(k, status, len)
        PROVE  TypeOK' /\ Open'
    <3>1. /\ stage' \in {"waiting", "closed"} /\ (count = 1 => stage' = "closed")
          /\ count' = count - 1 /\ stage # "closed"
      BY <2>7 DEF Reply, Written, Reads
    <3>2. count >= 1
      BY <3>1 DEF Open
    <3>3. answers' \in Seq(Answer)
      BY <2>1, <2>7, ReplyAdds
    <3>4. count' \in 0 .. KeepAliveMax /\ (stage' # "closed" => count' >= 1)
      BY <1>1, <1>3, <3>1, <3>2
    <3>5. Open'
      BY <2>1, <3>1, <3>3, <3>4 DEF Open, Answer, clientVars
    <3>6. \A i \in DOMAIN answers' : answers'[i] \in Answer
      BY <3>3
    <3>7. (\A i \in DOMAIN answers :
             /\ answers[i].to \in 0 .. Len(script)
             /\ answers[i].status \in {200, 400, 404, 413, 414, 415, 416, 500}
             /\ answers[i].len \in Lengths \cup {0}
             /\ answers[i].close \in BOOLEAN)'
      BY <2>1, <3>6 DEF Answer, clientVars
    <3> QED
      BY <2>3, <2>4, <2>5, <3>1, <3>4, <3>5, <3>7 DEF TypeOK
  <2> QED
    BY <1>4, <2>6, <2>7 DEF Ending
(* The unit a step reads is one of the script's.                           *)
<1>5. ASSUME Buffered
      PROVE  /\ NextUnit.of \in 1 .. Len(script) /\ used + 1 \in 1 .. Len(stream)
             /\ used + 1 \in 0 .. taken
  <2>1. used + 1 \in 1 .. Len(stream) /\ used + 1 \in 0 .. taken
    BY <1>2, <1>3, <1>5 DEF Buffered
  <2> QED
    BY <1>1, <2>1, UnitAt DEF NextUnit, Tells
<1>6. CASE Send
  BY <1>1, <1>2, <1>3, <1>6 DEF Send, TypeOK, Open, Answer, parser
<1>7. CASE HangUp
  BY <1>7 DEF HangUp, TypeOK, Open, Answer, parser
<1>8. CASE Receive
  <2>1. taken' \in taken + 1 .. sent
    BY <1>8 DEF Receive
  <2>2. taken' \in 0 .. sent /\ used \in 0 .. taken'
    BY <1>3, <2>1
  <2> QED
    BY <1>8, <2>2 DEF Receive, Reading, TypeOK, Open, Answer, parser, clientVars
<1>9. CASE Begin
  BY <1>9 DEF Begin, TypeOK, Open, Answer, parser, clientVars
<1>10. CASE GiveUp
  BY <1>10 DEF GiveUp, TypeOK, Open, Answer, parser, clientVars
<1>11. CASE ReadLine
  BY <1>5, <1>11 DEF ReadLine, Use, TypeOK, Open, Answer, clientVars
<1>12. CASE SpoilLine
  BY <1>5, <1>12 DEF SpoilLine, Use, TypeOK, Open, Answer, clientVars
<1>13. CASE ReadField
  BY <1>5, <1>13 DEF ReadField, Use, TypeOK, Open, Answer, parser, clientVars
<1>14. CASE Route
  <2>1. /\ stage = "headers" /\ Buffered /\ used' = used + 1 /\ stage' \in {"body", "handler"}
        /\ continued' \in {continued, req}
        /\ UNCHANGED <<clientVars, taken, parser, count, answers, late>>
    BY <1>14 DEF Route, Accepted, Ends, Use, Continue
  <2> QED
    BY <1>5, <2>1 DEF TypeOK, Open, Answer, parser, clientVars
<1>15. CASE ReadBody
  <2>1. /\ stage = "body" /\ Buffered /\ used' = used + 1 /\ stage' \in {"body", "content"}
        /\ got' = got + 1 /\ got < MaxPayload
        /\ UNCHANGED <<clientVars, taken, spoiled, req, count, continued, answers, late>>
    BY <1>15 DEF ReadBody, Use
  <2>2. got' \in 0 .. MaxPayload
    BY <1>1, <1>3, <2>1
  <2> QED
    BY <1>5, <2>1, <2>2 DEF TypeOK, Open, Answer, clientVars
<1>16. CASE ReadLastChunk
  BY <1>5, <1>16 DEF ReadLastChunk, Use, TypeOK, Open, Answer, parser, clientVars
<1>17. CASE /\ stage = "content" /\ stage' = "handler"
            /\ UNCHANGED <<clientVars, taken, used, parser, count, continued, answers, late>>
  BY <1>17 DEF TypeOK, Open, Answer, parser, clientVars
<1>18. CASE UNCHANGED vars
  BY <1>18 DEF vars, TypeOK, Open, Answer, parser, clientVars
<1> QED
  BY <1>4, <1>6, <1>7, <1>8, <1>9, <1>10, <1>11, <1>12, <1>13, <1>14, <1>15, <1>16, <1>17,
     <1>18, Cases

-----------------------------------------------------------------------------
(* What the next unit says of where the parser stands.                     *)
LEMMA NextAt ==
  ASSUME TypeOK, Buffered
  PROVE  /\ used \in Nat /\ used + 1 \in 1 .. Len(stream) /\ used + 1 <= sent
         /\ NextUnit.of \in 1 .. Len(script) /\ NextUnit.kind \in Kind
         /\ From(NextUnit.of) \in Nat
         /\ From(NextUnit.of) <= used /\ used + 1 <= From(NextUnit.of + 1)
         /\ NextUnit.kind = "line" <=> used = From(NextUnit.of)
         /\ NextUnit.kind = "field" <=> used = From(NextUnit.of) + 1
         /\ NextUnit.kind = "end" <=> used = From(NextUnit.of) + 2
         /\ NextUnit.kind = "data" <=>
              used \in From(NextUnit.of) + 3 .. From(NextUnit.of) + 2 + script[NextUnit.of].body
         /\ NextUnit.kind = "last" <=>
              used = From(NextUnit.of) + 3 + script[NextUnit.of].body
<1>1. script \in Scripts /\ stream = StreamOf(script)
  BY DEF TypeOK
<1>2. stream \in Seq(Unit) /\ Len(stream) \in Nat
  <2>1. stream \in Seq(Unit)
    BY <1>1, Starts
  <2> QED
    BY <2>1
<1>3. used \in Nat /\ used + 1 \in 1 .. Len(stream) /\ used + 1 <= sent
  BY <1>2 DEF TypeOK, Buffered
<1> DEFINE u == NextUnit
           b == From(u.of)
           body == script[u.of].body
<1>4. u = StreamOf(script)[used + 1] /\ b = Start(script, u.of)
  BY <1>1 DEF NextUnit, From
<1> DEFINE p == used + 1
<1>5. p \in 1 .. Len(StreamOf(script)) /\ u = StreamOf(script)[p]
  BY <1>1, <1>3, <1>4
<1> HIDE DEF u, b, p
<1>15. Tells(script, p, u, b)
  BY <1>1, <1>4, <1>5, UnitAt
<1>6. /\ u.of \in 1 .. Len(script) /\ u.kind \in Kind /\ b \in Nat
      /\ b < used + 1 /\ used + 1 <= Start(script, u.of + 1)
      /\ u.kind = "line" <=> used + 1 = b + 1
      /\ u.kind = "field" <=> used + 1 = b + 2
      /\ u.kind = "end" <=> used + 1 = b + 3
      /\ u.kind = "data" <=> used + 1 \in b + 4 .. b + 3 + script[u.of].body
      /\ u.kind = "last" <=> used + 1 = b + 4 + script[u.of].body
  BY <1>15 DEF p, Tells
<1>7. script[u.of] \in Message
  BY <1>1, <1>6, Starts
<1>8. body \in Nat
  BY <1>7 DEF Message
<1>9. /\ u.kind = "data" <=> used + 1 \in b + 4 .. b + 3 + body
      /\ u.kind = "last" <=> used + 1 = b + 4 + body
  BY <1>6
<1> HIDE DEF body
<1>0. used \in Nat /\ b \in Nat /\ b < used + 1
  BY <1>3, <1>6
<1>10. b <= used
  BY <1>0
<1>11. (used + 1 = b + 1 <=> used = b) /\ (used + 1 = b + 2 <=> used = b + 1) /\ (used + 1 = b + 3 <=> used = b + 2)
  BY <1>0
<1>12. used + 1 \in b + 4 .. b + 3 + body <=> used \in b + 3 .. b + 2 + body
  BY <1>0, <1>8
<1>13. used + 1 = b + 4 + body <=> used = b + 3 + body
  BY <1>0, <1>8
<1>14. /\ u.kind = "line" <=> used = b
       /\ u.kind = "field" <=> used = b + 1
       /\ u.kind = "end" <=> used = b + 2
       /\ u.kind = "data" <=> used \in b + 3 .. b + 2 + body
       /\ u.kind = "last" <=> used = b + 3 + body
  BY <1>6, <1>9, <1>11, <1>12, <1>13
<1> QED
  BY <1>3, <1>6, <1>10, <1>14 DEF u, b, body, From

(* In the middle of a message, the next unit is one of it.                 *)
LEMMA InMessage ==
  ASSUME TypeOK, Position, stage \in {"headers", "body"}
  PROVE  /\ From(req) \in Nat /\ script[req].body \in Nat
         /\ From(req + 1) = From(req) + 3 + script[req].body + LastUnits(script[req])
         /\ Buffered => NextUnit.of = req
<1>1. /\ script \in Scripts /\ stream = StreamOf(script)
      /\ req \in 1 .. Len(script) /\ script[req] \in Message /\ Len(script) \in Nat
  BY MessageRead DEF Reads
<1> DEFINE b == From(req)
           body == script[req].body
           last == LastUnits(script[req])
<1>2. b \in Nat /\ From(req + 1) = b + 3 + body + last
  BY <1>1, Starts DEF From
<1>3. body \in Nat /\ last \in {0, 1}
  BY <1>1 DEF Message, LastUnits
<1>4. ASSUME Buffered
      PROVE  NextUnit.of = req
  <2>1. used \in Nat /\ got \in Nat
    BY <1>4, NextAt, ConnectionAssumption DEF TypeOK
  <2>2. CASE stage = "headers"
    <3>1. used \in {b + 1, b + 2}
      BY <2>2 DEF Position
    <3> HIDE DEF b, body, last
    <3>2. used + 1 \in Nat /\ b < used + 1 /\ used + 1 <= b + 3 + body + last
      BY <1>2, <1>3, <2>1, <3>1
    <3>3. Start(script, req) < used + 1 /\ used + 1 <= Start(script, req + 1)
      BY <1>2, <3>2 DEF b, From
    <3> QED
      BY <1>1, <3>2, <3>3, UnitOf DEF NextUnit
  <2>3. CASE stage = "body"
    <3>1. /\ used = b + 3 + got /\ got <= body /\ Framed(script[req])
          /\ ~Chunked(script[req]) => got < body
      BY <2>3 DEF Position
    <3>2. Chunked(script[req]) => last = 1
      BY DEF Chunked, LastUnits
    <3> HIDE DEF b, body, last
    <3>3. used + 1 \in Nat /\ b < used + 1 /\ used + 1 <= b + 3 + body + last
      BY <1>2, <1>3, <2>1, <3>1, <3>2
    <3>4. Start(script, req) < used + 1 /\ used + 1 <= Start(script, req + 1)
      BY <1>2, <3>3 DEF b, From
    <3> QED
      BY <1>1, <3>3, <3>4, UnitOf DEF NextUnit
  <2> QED
    BY <2>2, <2>3
<1> QED
  BY <1>2, <1>3, <1>4

(* Every step leaves the parser where its stage says.                      *)
LEMMA PositionStep ==
  ASSUME TypeOK, Open, Position, [Next]_vars
  PROVE  Position'
<1>1. /\ script \in Scripts /\ stream = StreamOf(script) /\ Len(script) \in Nat
      /\ got \in Nat /\ used \in Nat
  BY MessageRead, ConnectionAssumption DEF TypeOK
<1>2. CASE Ending
  <2>1. stage' \in {"waiting", "closed"}
    <3>1. CASE Quits
      BY <3>1 DEF Quits
    <3>2. ASSUME NEW k, NEW status, NEW len, Reply(k, status, len)
          PROVE  stage' \in {"waiting", "closed"}
      BY <3>2 DEF Reply, Written
    <3> QED
      BY <1>2, <3>1, <3>2 DEF Ending
  <2> QED
    BY <2>1 DEF Position, Reads
<1>3. CASE \/ UNCHANGED <<script, used, stage, req, got>>
           \/ stage' \in {"waiting", "line", "closed"}
  BY <1>3 DEF Position, Reads, From
<1>4. CASE ReadLine
  <2>1. /\ stage' = "headers" /\ req' = NextUnit.of /\ used' = used + 1 /\ got' = got
        /\ script' = script /\ Buffered /\ NextUnit.kind = "line" /\ stage = "line"
    BY <1>4 DEF ReadLine, Use, clientVars
  <2>2. used = From(req') /\ req' \in 1 .. Len(script) /\ got = 0
    BY <2>1, NextAt DEF Open
  <2>3. req' # 0 /\ used' = Start(script', req') + 1
    BY <1>1, <2>1, <2>2 DEF From
  <2> QED
    BY <2>1, <2>2, <2>3 DEF Position, Reads, From
<1>5. CASE ReadField
  <2>1. /\ stage = "headers" /\ stage' = stage /\ req' = req /\ used' = used + 1 /\ got' = got
        /\ script' = script /\ Buffered /\ NextUnit.kind = "field"
    BY <1>5 DEF ReadField, Use, clientVars, parser
  <2>2. used = From(req) + 1 /\ From(req) \in Nat
    BY <2>1, NextAt, InMessage
  <2>3. used' = From(req) + 2
    BY <2>1, <2>2
  <2> QED
    BY <2>1, <2>3 DEF Position, Reads, From
<1>6. CASE Route
  <2>1. /\ stage = "headers" /\ req' = req /\ used' = used + 1 /\ got' = got
        /\ script' = script /\ Buffered /\ NextUnit.kind = "end"
        /\ stage' = IF Framed(script[req]) THEN "body" ELSE "handler"
        /\ ~Ambiguous(script[req])
    BY <1>6 DEF Route, Accepted, Ends, Use, clientVars, parser
  <2>2. /\ used = From(req) + 2 /\ From(req) \in Nat /\ script[req].body \in Nat
        /\ From(req + 1) = From(req) + 3 + script[req].body + LastUnits(script[req])
    BY <2>1, NextAt, InMessage
  <2>3. used' = From(req) + 3
    BY <2>1, <2>2
  <2>4. got = 0 /\ req # 0
    BY <2>1 DEF Position, Reads
  <2>5. CASE Framed(script[req])
    <3>1. ~Chunked(script[req]) => 0 < script[req].body
      BY <2>2, <2>5 DEF Framed
    <3>2. used' = From(req) + 3 + 0 /\ 0 <= script[req].body
      BY <2>2, <2>3
    <3> QED
      BY <2>1, <2>4, <2>5, <3>1, <3>2 DEF Position, From, Reads
  <2>6. CASE ~Framed(script[req])
    <3>1. script[req].frame \in {"none", "length", "chunked", "both", "other"}
      BY <2>1, MessageRead DEF Message, Reads
    <3>2. script[req].frame = "none" \/ (script[req].frame = "length" /\ ~(script[req].body > 0))
      BY <2>1, <2>6, <3>1 DEF Framed, Chunked, Ambiguous
    <3>3. req \in DOMAIN script
      <4>1. script \in Seq(Message) /\ req \in 1 .. Len(script)
        BY <1>1, <2>1, MessageRead, ConnectionAssumption DEF Reads
      <4> QED
        BY <4>1
    <3>4. script[req].body = 0 /\ LastUnits(script[req]) = 0
      BY <1>1, <2>2, <3>2, <3>3, ConnectionAssumption DEF LastUnits
    <3>5. used' = From(req + 1)
      BY <2>2, <2>3, <3>4
    <3> QED
      BY <2>1, <2>4, <2>6, <3>5 DEF Position, From, Reads
  <2> QED
    BY <2>5, <2>6
<1>7. CASE ReadBody
  <2>1. /\ stage = "body" /\ req' = req /\ used' = used + 1 /\ got' = got + 1
        /\ script' = script /\ Buffered /\ NextUnit.kind = "data"
        /\ stage' = IF ~Chunked(script[req]) /\ got' = script[req].body THEN "content" ELSE "body"
    BY <1>7 DEF ReadBody, Use, clientVars
  <2> DEFINE b == From(req)
             body == script[req].body
  <2>2. /\ used \in b + 3 .. b + 2 + body /\ b \in Nat /\ body \in Nat
        /\ From(req + 1) = b + 3 + body + LastUnits(script[req])
    BY <2>1, NextAt, InMessage
  <2>3. /\ used = b + 3 + got /\ Framed(script[req]) /\ req # 0
        /\ ~Chunked(script[req]) => got < body
    BY <2>1 DEF Position, Reads
  <2>4. ~Chunked(script[req]) => LastUnits(script[req]) = 0
    BY <2>3 DEF Framed, Chunked, LastUnits
  <2> HIDE DEF b, body
  <2>5. got' <= body /\ used' = b + 3 + got' /\ got' \in Nat
    BY <1>1, <2>1, <2>2, <2>3
  <2>6. CASE stage' = "content"
    <3>1. got' = body /\ ~Chunked(script[req])
      BY <2>1, <2>6 DEF body
    <3>2. used' = From(req + 1)
      BY <2>2, <2>4, <2>5, <3>1
    <3> QED
      BY <2>1, <2>3, <2>6, <3>2 DEF Position, From, Reads
  <2>7. CASE stage' # "content"
    <3>1. stage' = "body" /\ (~Chunked(script[req]) => got' # body)
      BY <2>1, <2>7 DEF body
    <3>2. ~Chunked(script[req]) => got' < body
      BY <2>2, <2>5, <3>1
    <3> QED
      BY <2>1, <2>3, <2>5, <3>1, <3>2 DEF Position, From, Reads, b, body
  <2> QED
    BY <2>6, <2>7
<1>8. CASE ReadLastChunk
  <2>1. /\ stage = "body" /\ req' = req /\ used' = used + 1 /\ stage' = "content"
        /\ script' = script /\ Buffered /\ NextUnit.kind = "last"
    BY <1>8 DEF ReadLastChunk, Use, clientVars, parser
  <2> DEFINE b == From(req)
             body == script[req].body
  <2>2. /\ used = b + 3 + body /\ b \in Nat /\ body \in Nat
        /\ From(req + 1) = b + 3 + body + LastUnits(script[req])
        /\ used + 1 <= From(req + 1)
    BY <2>1, NextAt, InMessage
  <2>3. LastUnits(script[req]) \in {0, 1} /\ req # 0
    BY <2>1 DEF LastUnits, Position, Reads
  <2> HIDE DEF b, body
  <2>4. used' = From(req + 1)
    BY <2>1, <2>2, <2>3
  <2> QED
    BY <2>1, <2>3, <2>4 DEF Position, From, Reads
<1>9. CASE /\ stage = "content" /\ stage' = "handler"
           /\ UNCHANGED <<clientVars, taken, used, parser, count, continued, answers, late>>
  BY <1>9 DEF Position, From, Reads, clientVars, parser
<1>10. CASE Send \/ HangUp \/ Receive \/ Begin \/ GiveUp \/ SpoilLine \/ UNCHANGED vars
  <2>1. \/ UNCHANGED <<script, used, stage, req, got>>
        \/ stage' \in {"waiting", "line", "closed"}
    BY <1>10 DEF Send, HangUp, Receive, Begin, GiveUp, SpoilLine, vars, clientVars, parser
  <2> QED
    BY <1>3, <2>1
<1> QED
  BY <1>2, <1>4, <1>5, <1>6, <1>7, <1>8, <1>9, <1>10, Cases

-----------------------------------------------------------------------------
(* The message being read begins before what was read of it.               *)
LEMMA Begun ==
  ASSUME TypeOK, Position, stage \in Reads
  PROVE  From(req) < used
<1>1. req \in 1 .. Len(script) /\ script \in Scripts /\ Len(script) \in Nat
  BY MessageRead
<1>2. got \in Nat /\ used \in Int
  BY ConnectionAssumption DEF TypeOK
<1>3. From(req) \in Nat /\ From(req) + 3 <= From(req + 1) /\ From(req + 1) \in Nat
  <2>1. req + 1 \in 1 .. Len(script) + 1 /\ req < req + 1
    BY <1>1
  <2> QED
    BY <1>1, <2>1, LaterStart DEF From
<1> QED
  BY <1>2, <1>3 DEF Position, Reads

(* Every step passes the messages it answers.                              *)
LEMMA PassedStep ==
  ASSUME TypeOK, Open, Position, Passed, [Next]_vars
  PROVE  Passed'
<1>1. /\ script \in Scripts /\ stream = StreamOf(script) /\ Len(script) \in Nat
      /\ used \in Nat /\ taken \in Nat /\ used <= taken
  <2>1. Len(stream) \in Nat
    BY MessageRead, Starts DEF TypeOK
  <2> QED
    BY <2>1, MessageRead DEF TypeOK
<1>2. \A i \in DOMAIN answers : answers[i].to # 0 =>
        /\ From(answers[i].to) < used /\ From(answers[i].to) \in Nat
        /\ answers[i].to \in 1 .. Len(script)
  <2>1. ASSUME NEW i \in DOMAIN answers, answers[i].to # 0
        PROVE  answers[i].to \in 1 .. Len(script) /\ From(answers[i].to) \in Nat
    <3>1. answers[i].to \in 0 .. Len(script)
      BY DEF TypeOK
    <3>2. answers[i].to \in 1 .. Len(script)
      BY <1>1, <2>1, <3>1
    <3>3. answers[i].to \in 1 .. Len(script) + 1
      BY <1>1, <3>2
    <3> QED
      BY <1>1, <3>2, <3>3, Starts DEF From
  <2> QED
    BY <2>1 DEF Passed
<1>3. CASE Ending
  <2>1. script' = script /\ used' = taken
    BY <1>3 DEF Ending, Discard, clientVars
  <2>2. CASE Quits
    <3>1. stage' = "closed" /\ answers' = answers
      BY <2>2 DEF Quits
    <3>2. \A i \in DOMAIN answers : answers[i].to # 0 => From(answers[i].to) < taken
      BY <1>1, <1>2
    <3> QED
      BY <2>1, <3>1, <3>2 DEF Passed, From, Reads
  <2>3. ASSUME NEW k, NEW status, NEW len, Reply(k, status, len)
        PROVE  Passed'
    <3>1. stage' \in {"waiting", "closed"}
      BY <2>3 DEF Reply, Written
    <3>2. UNCHANGED clientVars
      BY <1>3 DEF Ending
    <3>3. /\ DOMAIN answers' = 1 .. Len(answers) + 1 /\ DOMAIN answers = 1 .. Len(answers)
          /\ Len(answers) \in Nat
          /\ \A i \in 1 .. Len(answers) : answers'[i] = answers[i]
          /\ answers'[Len(answers) + 1].to = k
      <4>1. /\ DOMAIN answers' = 1 .. Len(answers) + 1 /\ DOMAIN answers = 1 .. Len(answers)
            /\ Len(answers) \in Nat
            /\ \A i \in 1 .. Len(answers) : answers'[i] = answers[i]
            /\ answers'[Len(answers) + 1] = [to |-> k, status |-> status, len |-> len,
                                             close |-> AnnouncesClose(k, status)]
        BY <2>3, <3>2, ReplyAdds
      <4> QED
        BY <4>1
    <3>4. k # 0 => k = req /\ stage \in Reads
      BY <2>3 DEF Reply
    <3>5. k # 0 => From(k) < taken
      <4>1. k # 0 => From(k) < used /\ From(k) \in Int
        <5>1. k # 0 => k \in 1 .. Len(script) + 1
          BY <1>1, <3>4, MessageRead
        <5>2. k # 0 => From(k) \in Nat
          BY <1>1, <5>1, Starts DEF From
        <5> QED
          BY <3>4, <5>2, Begun
      <4> QED
        BY <1>1, <4>1
    <3>6. ASSUME NEW i \in 1 .. Len(answers) + 1, answers'[i].to # 0
          PROVE  From(answers'[i].to) < taken
      <4>1. CASE i = Len(answers) + 1
        BY <3>3, <3>5, <3>6, <4>1
      <4>2. CASE i # Len(answers) + 1
        <5>1. i \in 1 .. Len(answers)
          BY <3>3, <4>2
        <5>2. From(answers[i].to) < used /\ From(answers[i].to) \in Nat /\ answers'[i] = answers[i]
          BY <1>2, <3>3, <3>6, <5>1
        <5> QED
          BY <1>1, <5>2
      <4> QED
        BY <4>1, <4>2
    <3> QED
      BY <2>1, <3>1, <3>3, <3>6 DEF Passed, From, Reads
  <2> QED
    BY <1>3, <2>2, <2>3 DEF Ending
<1>4. CASE ReadLine
  <2>1. /\ stage' = "headers" /\ req' = NextUnit.of /\ used' = used + 1 /\ answers' = answers
        /\ script' = script /\ Buffered /\ NextUnit.kind = "line"
    BY <1>4 DEF ReadLine, Use, clientVars
  <2>2. used = From(req') /\ req' \in 1 .. Len(script)
    BY <2>1, NextAt
  <2>3. ASSUME NEW i \in DOMAIN answers, answers[i].to # 0
        PROVE  From(answers[i].to) < used + 1 /\ answers[i].to < req'
    <3>1. From(answers[i].to) < used /\ From(answers[i].to) \in Nat /\ answers[i].to \in 1 .. Len(script)
      BY <1>2, <2>3
    <3>2. answers[i].to \in 1 .. Len(script) + 1 /\ req' \in 1 .. Len(script) + 1
      BY <1>1, <2>2, <3>1
    <3>3. ~(req' <= answers[i].to)
      <4>1. req' <= answers[i].to => Start(script, req') <= Start(script, answers[i].to)
        BY <1>1, <3>2, Starts
      <4> QED
        BY <1>1, <2>2, <3>1, <4>1 DEF From
    <3> QED
      BY <1>1, <3>1, <3>2, <3>3
  <2> QED
    BY <2>1, <2>3 DEF Passed, From
<1>5. CASE /\ script' = script /\ answers' = answers /\ req' = req
           /\ used' \in {used, used + 1} /\ (stage' \in Reads => stage \in Reads)
  <2>1. \A i \in DOMAIN answers : answers[i].to # 0 => From(answers[i].to) < used'
    BY <1>1, <1>2, <1>5
  <2> QED
    BY <1>5, <2>1 DEF Passed, From
<1>6. CASE \/ Send \/ HangUp \/ Receive \/ Begin \/ GiveUp \/ SpoilLine
           \/ ReadField \/ Route \/ ReadBody \/ ReadLastChunk
           \/ /\ stage = "content" /\ stage' = "handler"
              /\ UNCHANGED <<clientVars, taken, used, parser, count, continued, answers, late>>
           \/ UNCHANGED vars
  BY <1>5, <1>6 DEF Send, HangUp, Receive, Begin, GiveUp, SpoilLine, ReadField, Route, ReadBody,
       ReadLastChunk, Accepted, Ends, Use, vars, clientVars, parser, Reads
<1> QED
  BY <1>3, <1>4, <1>6, Cases

(* A message is known by where it begins.                                  *)
LEMMA SameStart ==
  ASSUME NEW s \in Scripts, NEW k \in 1 .. Len(s), NEW l \in 1 .. Len(s) + 1, NEW p \in Nat,
         Start(s, k) <= p, p + 1 <= Start(s, k + 1), p = Start(s, l)
  PROVE  k = l /\ p = Start(s, k)
<1>1. Len(s) \in Nat /\ k \in 1 .. Len(s) + 1 /\ k + 1 \in 1 .. Len(s) + 1
  BY Starts
<1>2. Start(s, k) \in Nat /\ Start(s, l) \in Nat /\ Start(s, k + 1) \in Nat
  BY <1>1, Starts
<1>3. CASE k < l
  <2>1. k + 1 <= l
    BY <1>1, <1>3
  <2>2. Start(s, k + 1) <= Start(s, l)
    BY <1>1, <2>1, Starts
  <2> QED
    BY <1>2, <2>2
<1>4. CASE l < k
  <2>1. l \in 1 .. Len(s)
    BY <1>1, <1>4
  <2>2. Start(s, l) + 3 <= Start(s, l + 1) /\ Start(s, l + 1) <= Start(s, k) /\ Start(s, l + 1) \in Nat
    BY <1>1, <1>4, <2>1, LaterStart
  <2> QED
    BY <1>2, <2>2
<1>5. CASE k = l
  BY <1>5
<1> QED
  BY <1>1, <1>3, <1>4, <1>5

(* Every step keeps the server in step with the client.                    *)
LEMMA InStepStep ==
  ASSUME TypeOK, Open, Position, InStep, [Next]_vars
  PROVE  InStep'
<1> DEFINE n == Len(answers)
<1>1. /\ script \in Scripts /\ stream = StreamOf(script) /\ Len(script) \in Nat
      /\ used \in Nat /\ taken \in Nat /\ sent \in Nat /\ used <= taken /\ taken <= sent
      /\ sent <= Len(stream) /\ Len(stream) \in Nat
      /\ stream \in Seq(Unit) /\ n \in Nat /\ DOMAIN answers = 1 .. n
  <2>1. stream \in Seq(Unit)
    BY MessageRead, Starts
  <2>2. Len(stream) \in Nat
    BY <2>1
  <2>3. n \in Nat /\ DOMAIN answers = 1 .. n
    BY DEF Open
  <2> QED
    BY <2>1, <2>2, <2>3, MessageRead DEF TypeOK
<1> SUFFICES ASSUME ~Closing', ~early'
             PROVE  /\ \A p \in 1 .. sent' : stream'[p].of <= Len(answers') + 1
                    /\ stage' \in {"waiting", "line"} =>
                         /\ Len(answers') <= Len(script')
                         /\ used' = Start(script', Len(answers') + 1)
                         /\ ~spoiled'
                    /\ stage' \in Reads => req' = Len(answers') + 1
  BY DEF InStep, From
<1>2. CASE Ending
  <2>1. /\ script' = script /\ stream' = stream /\ sent' = sent /\ early' = early
        /\ used' = taken /\ spoiled' = FALSE
    BY <1>2 DEF Ending, Discard, clientVars
  <2>2. CASE Quits
    <3>1. stage' = "closed" /\ answers' = answers
      BY <2>2 DEF Quits
    <3>2. ~Closing /\ ~early
      BY <2>1, <3>1 DEF Closing
    <3> QED
      BY <2>1, <3>1, <3>2 DEF InStep, Reads
  <2>3. ASSUME NEW k, NEW status, NEW len, Reply(k, status, len)
        PROVE  /\ \A p \in 1 .. sent' : stream'[p].of <= Len(answers') + 1
               /\ stage' \in {"waiting", "line"} =>
                    /\ Len(answers') <= Len(script')
                    /\ used' = Start(script', Len(answers') + 1)
                    /\ ~spoiled'
               /\ stage' \in Reads => req' = Len(answers') + 1
    <3>1. UNCHANGED clientVars
      BY <1>2 DEF Ending
    <3>2. /\ DOMAIN answers' = 1 .. n + 1 /\ Len(answers') = n + 1
          /\ \A i \in 1 .. n : answers'[i] = answers[i]
          /\ answers'[n + 1] = [to |-> k, status |-> status, len |-> len,
                                close |-> AnnouncesClose(k, status)]
      BY <2>3, <3>1, ReplyAdds
    <3>3. answers'[n + 1].close = AnnouncesClose(k, status)
      BY <3>2
    <3>4. ~AnnouncesClose(k, status)
      <4>1. n + 1 \in DOMAIN answers'
        BY <1>1, <3>2
      <4> QED
        BY <3>3, <4>1 DEF Closing
    <3>5. ~Closing /\ ~early
      <4>1. \A i \in 1 .. n : i \in DOMAIN answers'
        BY <1>1, <3>2
      <4> QED
        BY <1>1, <2>1, <3>2, <4>1 DEF Closing
    <3>6. stage = "handler" /\ k = req
      <4>1. status = 200
        <5>1. status \in {200, 400, 404, 413, 414, 415, 416, 500} /\ ~(status >= 400)
          BY <2>3, <3>4 DEF Reply, AnnouncesClose
        <5> QED
          BY <5>1
      <4> QED
        BY <2>3, <4>1 DEF Reply
    <3>7. req = n + 1 /\ used = From(req + 1) /\ req \in 1 .. Len(script)
      BY <3>5, <3>6, MessageRead DEF InStep, Position, Reads
    <3>8. \A p \in 1 .. sent : stream[p].of \in Nat /\ stream[p].of <= n + 1
      <4>1. \A p \in 1 .. sent : p \in 1 .. Len(stream)
        BY <1>1
      <4>2. \A p \in 1 .. Len(stream) : stream[p].of \in Nat
        <5>1. \A p \in 1 .. Len(stream) : stream[p] \in Unit
          BY <1>1
        <5> QED
          BY <5>1 DEF Unit
      <4> QED
        BY <3>5, <4>1, <4>2 DEF InStep
    <3>9. taken <= From(req + 1)
      <4>1. CASE sent = 0
        <5>1. taken = 0 /\ used = 0
          BY <1>1, <4>1
        <5> QED
          BY <3>7, <5>1
      <4>2. CASE sent # 0
        <5> DEFINE of == stream[sent].of
        <5>1. sent \in 1 .. sent /\ sent \in 1 .. Len(stream)
          BY <1>1, <4>2
        <5>2. Tells(script, sent, stream[sent], Start(script, of))
          BY <1>1, <5>1, UnitAt
        <5>3. of \in 1 .. Len(script) /\ sent <= Start(script, of + 1)
          BY <5>2 DEF Tells
        <5>4. of <= n + 1
          BY <3>8, <5>1
        <5> HIDE DEF of
        <5>5. of + 1 <= req + 1 /\ of + 1 \in 1 .. Len(script) + 1 /\ req + 1 \in 1 .. Len(script) + 1
          BY <1>1, <3>7, <5>3, <5>4
        <5>6. /\ Start(script, of + 1) <= Start(script, req + 1)
              /\ Start(script, of + 1) \in Nat /\ Start(script, req + 1) \in Nat
          BY <1>1, <5>5, Starts
        <5> QED
          BY <1>1, <5>3, <5>6 DEF From
      <4> QED
        BY <4>1, <4>2
    <3>10. taken = From(n + 2)
      <4>1. From(req + 1) \in Nat /\ req + 1 = n + 2
        <5>1. req + 1 \in 1 .. Len(script) + 1 /\ req + 1 = n + 2
          BY <1>1, <3>7
        <5> QED
          BY <1>1, <5>1, Starts DEF From
      <4> QED
        BY <1>1, <3>7, <3>9, <4>1
    <3>11. used' = Start(script', Len(answers') + 1) /\ Len(answers') <= Len(script')
      BY <1>1, <2>1, <3>2, <3>7, <3>10 DEF From
    <3>12. \A p \in 1 .. sent' : stream'[p].of <= Len(answers') + 1
      BY <1>1, <2>1, <3>2, <3>8
    <3>13. stage' \notin Reads
      BY <2>3 DEF Reply, Written, Reads
    <3> QED
      BY <2>1, <3>11, <3>12, <3>13
  <2> QED
    BY <1>2, <2>2, <2>3 DEF Ending
<1>3. CASE Send
  <2> DEFINE u == stream[sent + 1]
  <2>1. /\ sent' = sent + 1 /\ sent < Len(stream) /\ early' = (early \/ (u.kind = "line" /\ n < u.of - 1))
        /\ UNCHANGED <<script, stream, used, stage, spoiled, req, answers>>
    BY <1>3 DEF Send, parser
  <2>2. ~Closing /\ ~early /\ ~(u.kind = "line" /\ n < u.of - 1)
    BY <2>1 DEF Closing
  <2>3. sent + 1 \in 1 .. Len(stream)
    BY <1>1, <2>1
  <2> DEFINE b == Start(script, u.of)
  <2>4. Tells(script, sent + 1, u, b)
    BY <1>1, <2>3, UnitAt
  <2> HIDE DEF u, b
  <2>5. /\ u.of \in 1 .. Len(script) /\ b \in Nat
        /\ b < sent + 1 /\ sent + 1 <= Start(script, u.of + 1)
        /\ u.kind = "line" <=> sent + 1 = b + 1
    BY <2>4 DEF Tells
  <2>6. u.of <= n + 1
    <3>1. CASE u.kind = "line"
      BY <1>1, <2>2, <2>5, <3>1
    <3>2. CASE u.kind # "line"
      <4>1. b < sent /\ Start(script, u.of + 1) \in Nat
        <5>1. u.of + 1 \in 1 .. Len(script) + 1
          BY <1>1, <2>5
        <5>2. Start(script, u.of + 1) \in Nat
          BY <1>1, <5>1, Starts
        <5>3. sent # b
          BY <1>1, <2>5, <3>2
        <5> QED
          BY <1>1, <2>5, <5>2, <5>3
      <4>2. sent <= Start(script, u.of + 1) /\ sent \in 1 .. sent
        BY <1>1, <2>5, <4>1
      <4>3. Start(script, u.of) < sent
        BY <4>1 DEF b
      <4>4. stream[sent].of = u.of
        BY <1>1, <2>5, <4>2, <4>3, UnitOf
      <4> QED
        BY <2>2, <4>2, <4>4 DEF InStep
    <3> QED
      BY <3>1, <3>2
  <2>7. ASSUME NEW p \in 1 .. sent + 1 PROVE stream[p].of <= n + 1
    <3>1. CASE p = sent + 1
      BY <2>6, <3>1 DEF u
    <3>2. CASE p # sent + 1
      <4>1. p \in 1 .. sent
        BY <1>1, <3>2
      <4> QED
        BY <2>2, <4>1 DEF InStep
    <3> QED
      BY <3>1, <3>2
  <2> QED
    BY <2>1, <2>2, <2>7 DEF InStep, From
<1>4. CASE ReadLine
  <2>1. /\ stage = "line" /\ stage' = "headers" /\ req' = NextUnit.of /\ answers' = answers
        /\ UNCHANGED clientVars /\ Buffered
    BY <1>4 DEF ReadLine, Use
  <2>2. ~Closing /\ ~early
    BY <2>1 DEF Closing, clientVars
  <2>3. n <= Len(script) /\ used = From(n + 1)
    BY <2>1, <2>2 DEF InStep
  <2>4. NextUnit.of \in 1 .. Len(script) /\ From(NextUnit.of) <= used /\ used + 1 <= From(NextUnit.of + 1)
    BY <2>1, NextAt
  <2>5. n + 1 \in 1 .. Len(script) + 1
    BY <1>1, <2>3
  <2>6. NextUnit.of = n + 1
    BY <1>1, <2>3, <2>4, <2>5, SameStart DEF From
  <2> QED
    BY <2>1, <2>2, <2>6 DEF InStep, clientVars
<1>5. CASE SpoilLine
  <2>1. /\ stage = "line" /\ answers' = answers
        /\ UNCHANGED clientVars /\ Buffered /\ NextUnit.kind = "data"
    BY <1>5 DEF SpoilLine, Use
  <2>2. ~Closing /\ ~early
    BY <2>1 DEF Closing, clientVars
  <2>3. n <= Len(script) /\ used = From(n + 1)
    BY <2>1, <2>2 DEF InStep
  <2>4. /\ NextUnit.of \in 1 .. Len(script) /\ From(NextUnit.of) <= used /\ used + 1 <= From(NextUnit.of + 1)
        /\ NextUnit.kind = "line" <=> used = From(NextUnit.of)
    BY <2>1, NextAt
  <2>5. n + 1 \in 1 .. Len(script) + 1
    BY <1>1, <2>3
  <2>6. used = From(NextUnit.of)
    BY <1>1, <2>3, <2>4, <2>5, SameStart DEF From
  <2> QED
    BY <2>1, <2>4, <2>6
<1>6. CASE /\ UNCHANGED <<clientVars, answers, req>>
           /\ \/ stage' = "line" /\ stage = "waiting" /\ UNCHANGED <<used, spoiled>>
              \/ stage' \in Reads /\ stage \in Reads
              \/ stage' = "closed"
              \/ UNCHANGED <<stage, used, spoiled>>
  <2>1. ~Closing /\ ~early
    BY <1>6 DEF Closing, clientVars
  <2>2. stage' \in {"waiting", "line"} =>
          stage \in {"waiting", "line"} /\ used' = used /\ spoiled' = spoiled
    BY <1>6 DEF Reads
  <2>3. stage' \in Reads => stage \in Reads
    BY <1>6 DEF Reads
  <2> QED
    BY <1>6, <2>1, <2>2, <2>3 DEF InStep, From, clientVars
<1>7. CASE HangUp
  BY <1>7 DEF HangUp, InStep, From, Closing, parser
<1>8. CASE \/ Receive \/ Begin \/ GiveUp \/ ReadField \/ Route \/ ReadBody \/ ReadLastChunk
           \/ /\ stage = "content" /\ stage' = "handler"
              /\ UNCHANGED <<clientVars, taken, used, parser, count, continued, answers, late>>
           \/ UNCHANGED vars
  BY <1>6, <1>8 DEF Receive, Begin, GiveUp, ReadField, Route, ReadBody,
       ReadLastChunk, Accepted, Ends, Use, vars, clientVars, parser, Reads
<1> QED
  BY <1>2, <1>3, <1>4, <1>5, <1>7, <1>8, Cases

(* Every step keeps the answers in the order of the messages.              *)
LEMMA OrderStep ==
  ASSUME TypeOK, Open, Position, Passed, InStep, AnswersInOrder, [Next]_vars
  PROVE  AnswersInOrder'
<1> DEFINE n == Len(answers)
<1>1. n \in Nat /\ DOMAIN answers = 1 .. n
  BY DEF Open
<1>2. CASE answers' = answers /\ (early => early')
  BY <1>2 DEF AnswersInOrder
<1>3. CASE Ending
  <2>1. UNCHANGED clientVars /\ early' = early
    BY <1>3 DEF Ending, clientVars
  <2>2. CASE Quits
    BY <1>2, <2>1, <2>2 DEF Quits
  <2>3. ASSUME NEW k, NEW status, NEW len, Reply(k, status, len)
        PROVE  AnswersInOrder'
    <3>1. /\ k \in 0 .. Len(script)
          /\ DOMAIN answers' = 1 .. n + 1
          /\ \A i \in 1 .. n : answers'[i] = answers[i]
          /\ answers'[n + 1] = [to |-> k, status |-> status, len |-> len,
                                close |-> AnnouncesClose(k, status)]
      BY <2>1, <2>3, ReplyAdds
    <3>2. answers'[n + 1].to = k
      BY <3>1
    <3>3. k # 0 => k = req /\ stage \in Reads
      BY <2>3 DEF Reply
    <3>4. ASSUME NEW i \in 1 .. n + 1, NEW j \in 1 .. n + 1,
                 i < j, answers'[i].to # 0, answers'[j].to # 0
          PROVE  answers'[i].to < answers'[j].to
      <4>1. i \in 1 .. n
        BY <1>1, <3>4
      <4>2. CASE j = n + 1
        BY <1>1, <3>1, <3>2, <3>3, <3>4, <4>1, <4>2 DEF Passed
      <4>3. CASE j # n + 1
        <5>1. j \in 1 .. n
          BY <1>1, <4>3
        <5> QED
          BY <1>1, <3>1, <3>4, <4>1, <5>1 DEF AnswersInOrder
      <4> QED
        BY <4>2, <4>3
    <3>5. ASSUME ~early', NEW i \in 1 .. n + 1,
                 \A j \in 1 .. i - 1 : ~answers'[j].close, answers'[i].to # 0
          PROVE  answers'[i].to = i
      <4>1. CASE i = n + 1
        <5>1. \A j \in 1 .. n : ~answers[j].close
          BY <1>1, <3>1, <3>5, <4>1
        <5>2. ~Closing /\ ~early
          BY <1>1, <2>1, <3>5, <5>1 DEF Closing
        <5>3. k # 0
          BY <3>2, <3>5, <4>1
        <5>4. req = n + 1
          BY <3>3, <5>2, <5>3 DEF InStep
        <5> QED
          BY <3>2, <3>3, <4>1, <5>3, <5>4
      <4>2. CASE i # n + 1
        <5>1. i \in 1 .. n /\ \A j \in 1 .. i - 1 : j \in 1 .. n
          BY <1>1, <4>2
        <5>2. \A j \in 1 .. i - 1 : ~answers[j].close
          BY <3>1, <3>5, <5>1
        <5> QED
          BY <1>1, <2>1, <3>1, <3>5, <5>1, <5>2 DEF AnswersInOrder
      <4> QED
        BY <4>1, <4>2
    <3> QED
      BY <3>1, <3>4, <3>5 DEF AnswersInOrder
  <2> QED
    BY <1>3, <2>2, <2>3 DEF Ending
<1>4. CASE Send
  BY <1>2, <1>4 DEF Send
<1>5. CASE \/ HangUp \/ Receive \/ Begin \/ GiveUp \/ ReadLine \/ SpoilLine
           \/ ReadField \/ Route \/ ReadBody \/ ReadLastChunk
           \/ /\ stage = "content" /\ stage' = "handler"
              /\ UNCHANGED <<clientVars, taken, used, parser, count, continued, answers, late>>
           \/ UNCHANGED vars
  BY <1>2, <1>5 DEF HangUp, Receive, Begin, GiveUp, ReadLine, SpoilLine, ReadField, Route,
       ReadBody, ReadLastChunk, vars, clientVars
<1> QED
  BY <1>3, <1>4, <1>5, Cases

(* Every step that closes the connection has told the client, or has been  *)
(* left by it.                                                             *)
LEMMA CloseStep ==
  ASSUME TypeOK, Open, Position, CloseAnnounced, [Next]_vars
  PROVE  CloseAnnounced'
<1> DEFINE n == Len(answers)
<1>1. n \in Nat /\ DOMAIN answers = 1 .. n
  BY DEF Open
<1>2. CASE Ending
  <2>1. UNCHANGED clientVars /\ script' = script /\ hungup' = hungup
    BY <1>2 DEF Ending, clientVars
  <2>2. CASE Quits
    BY <2>1, <2>2 DEF Quits, CloseAnnounced
  <2>3. ASSUME NEW k, NEW status, NEW len, Reply(k, status, len)
        PROVE  CloseAnnounced'
    <3> DEFINE a == [to |-> k, status |-> status, len |-> len,
                     close |-> AnnouncesClose(k, status)]
    <3>1. answers' \in Seq(Answer) /\ Len(answers') = n + 1 /\ answers'[n + 1] = a
      BY <2>1, <2>3, ReplyAdds
    <3>2. a.to = k /\ a.close = AnnouncesClose(k, status)
      OBVIOUS
    <3> HIDE DEF a
    <3>3. answers' # <<>> /\ Last(answers') = a
      BY <1>1, <3>1 DEF Last
    <3>4. stage' = "closed" => AnnouncesClose(k, status) \/ (k # 0 /\ ~Persistent(script[k]))
      BY <2>3 DEF Reply, Written
    <3>5. stage' = "closed" => Last(answers').close
            \/ (Last(answers').to # 0 /\ ~Persistent(script'[Last(answers').to]))
      BY <2>1, <3>2, <3>3, <3>4
    <3> QED
      BY <3>3, <3>5 DEF CloseAnnounced
  <2> QED
    BY <1>2, <2>2, <2>3 DEF Ending
<1>3. CASE /\ stage' # "closed"
  BY <1>3 DEF CloseAnnounced
<1>4. CASE UNCHANGED <<stage, script, answers, hungup, late>>
  BY <1>4 DEF CloseAnnounced
<1>5. CASE GiveUp
  BY <1>5 DEF GiveUp, CloseAnnounced
<1>6. CASE \/ Send \/ HangUp \/ Receive \/ Begin \/ ReadLine \/ SpoilLine
           \/ ReadField \/ Route \/ ReadBody \/ ReadLastChunk
           \/ /\ stage = "content" /\ stage' = "handler"
              /\ UNCHANGED <<clientVars, taken, used, parser, count, continued, answers, late>>
           \/ UNCHANGED vars
  <2>1. CASE UNCHANGED vars
    BY <1>4, <2>1 DEF vars, clientVars
  <2>2. CASE ~UNCHANGED vars
    <3>1. stage' # "closed"
      BY <1>6, <2>2 DEF Send, HangUp, Receive, Begin, ReadLine, SpoilLine, ReadField, Route,
         ReadBody, ReadLastChunk, Accepted, Ends, Reading
    <3> QED
      BY <1>3, <3>1
  <2> QED
    BY <2>1, <2>2
<1> QED
  BY <1>2, <1>5, <1>6, Cases

-----------------------------------------------------------------------------
(* What a range comes to when it is cut at the end of the body: what it    *)
(* asks for, unless it asks for nothing or for a suffix that is too long.  *)
LEMMA ClampedSelects ==
  ASSUME NEW r \in ({-1} \cup Nat) \X ({-1} \cup Nat), NEW len \in Nat
  PROVE  /\ Clamped(r, len)[1] \in Int /\ Clamped(r, len)[2] \in Int
         /\ 0 <= Clamped(r, len)[1] /\ Clamped(r, len)[1] <= Clamped(r, len)[2]
              => /\ Selected(r, len) = Clamped(r, len)[1] .. Clamped(r, len)[2]
                 /\ Selected(r, len) # {}
         /\ ~(0 <= Clamped(r, len)[1] /\ Clamped(r, len)[1] <= Clamped(r, len)[2])
              => Selected(r, len) = {} \/ (r[1] = -1 /\ r[2] > len)
<1> DEFINE a == r[1]
           b == r[2]
           first == IF a = -1 THEN len - b ELSE a
           last == IF a = -1 \/ b = -1 \/ b >= len THEN len - 1 ELSE b
<1>1. a \in {-1} \cup Nat /\ b \in {-1} \cup Nat
  OBVIOUS
<1>2. Clamped(r, len)[1] = first /\ Clamped(r, len)[2] = last
  BY DEF Clamped
<1>3. Selected(r, len) = { p \in 0 .. len - 1 : IF a = -1 THEN p >= len - b
                                               ELSE p >= a /\ (b = -1 \/ p <= b) }
  BY DEF Selected
<1> HIDE DEF a, b
<1>4. first \in Int /\ last \in Int
  BY <1>1
<1>5. ASSUME 0 <= first, first <= last
      PROVE  \A p : p \in Selected(r, len) <=> p \in first .. last
  <2>1. CASE a = -1
    <3>1. first = len - b /\ last = len - 1
      BY <2>1
    <3>2. \A p : p \in Selected(r, len) <=> p \in 0 .. len - 1 /\ p >= len - b
      BY <1>3, <2>1
    <3>3. \A p : p \in Selected(r, len) <=> p \in 0 .. len - 1 /\ p >= first
      BY <3>1, <3>2
    <3>4. first \in Int /\ last = len - 1 /\ 0 <= first
      BY <1>4, <1>5, <3>1
    <3> HIDE DEF first, last
    <3>5. \A p : p \in 0 .. len - 1 /\ p >= first <=> p \in first .. len - 1
      BY <3>4
    <3> QED
      BY <3>3, <3>4, <3>5
  <2>2. CASE a # -1 /\ (b = -1 \/ b >= len)
    <3>1. first = a /\ last = len - 1
      BY <2>2
    <3>2. \A p : p \in Selected(r, len) <=> p \in 0 .. len - 1 /\ p >= a
      <4>1. \A p \in 0 .. len - 1 : b # -1 => p <= b
        BY <1>1, <2>2
      <4> QED
        BY <1>3, <2>2, <4>1
    <3>3. a \in Nat
      BY <1>1, <2>2
    <3>4. \A p : p \in 0 .. len - 1 /\ p >= a <=> p \in a .. len - 1
      BY <3>3
    <3> QED
      BY <3>1, <3>2, <3>4
  <2>3. CASE a # -1 /\ ~(b = -1 \/ b >= len)
    <3>1. first = a /\ last = b
      BY <2>3
    <3>2. \A p : p \in Selected(r, len) <=> p \in 0 .. len - 1 /\ p >= a /\ p <= b
      BY <1>3, <2>3
    <3> QED
      BY <1>1, <1>4, <1>5, <2>3, <3>1, <3>2
  <2> QED
    BY <2>1, <2>2, <2>3
<1>6. ASSUME ~(0 <= first /\ first <= last), ~(a = -1 /\ b > len), NEW p \in Selected(r, len)
      PROVE  FALSE
  <2>1. p \in 0 .. len - 1 /\ p \in Int /\ 0 <= p /\ p <= len - 1
    BY <1>3
  <2>2. CASE a = -1
    <3>1. first = len - b /\ last = len - 1 /\ p >= len - b
      BY <1>3, <2>2
    <3> QED
      BY <1>1, <1>6, <2>1, <2>2, <3>1
  <2>3. CASE a # -1 /\ (b = -1 \/ b >= len)
    <3>1. first = a /\ last = len - 1 /\ p >= a
      BY <1>3, <2>3
    <3> QED
      BY <1>1, <1>6, <2>1, <2>3, <3>1
  <2>4. CASE a # -1 /\ ~(b = -1 \/ b >= len)
    <3>1. first = a /\ last = b /\ p >= a /\ p <= b
      BY <1>3, <2>4
    <3> QED
      BY <1>1, <1>6, <2>1, <2>4, <3>1
  <2> QED
    BY <2>2, <2>3, <2>4
<1> HIDE DEF first, last
<1>7. 0 <= first /\ first <= last => Selected(r, len) = first .. last /\ Selected(r, len) # {}
  <2>1. SUFFICES ASSUME 0 <= first, first <= last
                 PROVE  Selected(r, len) = first .. last /\ Selected(r, len) # {}
    OBVIOUS
  <2>2. Selected(r, len) = first .. last
    BY <1>5, <2>1
  <2>3. first \in first .. last
    BY <1>4, <2>1
  <2> QED
    BY <2>2, <2>3
<1>8. ~(0 <= first /\ first <= last) => Selected(r, len) = {} \/ (a = -1 /\ b > len)
  BY <1>6
<1> QED
  BY <1>2, <1>4, <1>7, <1>8 DEF a, b

(* The check of the ranges finds what a reader of them would.              *)
LEMMA RangesChecked ==
  ASSUME NEW rs \in Seq(({-1} \cup Nat) \X ({-1} \cup Nat)), NEW len \in Nat
  PROVE  /\ ~RangeError(rs, len) =>
              Len(rs) <= RangeMaxCount /\ \A k \in DOMAIN rs : Selected(rs[k], len) # {}
         /\ RangeError(rs, len) =>
              \/ Len(rs) > RangeMaxCount
              \/ \E k \in DOMAIN rs : \/ Selected(rs[k], len) = {}
                                      \/ rs[k][1] = -1 /\ rs[k][2] > len
              \/ Cardinality({ k \in DOMAIN rs :
                   \E j \in DOMAIN rs \ {k} :
                     Selected(rs[j], len) \cap Selected(rs[k], len) # {} }) > 2
<1> DEFINE first(i) == Clamped(rs[i], len)[1]
           last(i) == Clamped(rs[i], len)[2]
           Valid(i) == 0 <= first(i) /\ first(i) <= last(i)
           Overlapping == { i \in DOMAIN rs :
             \E j \in 1 .. i - 1 : first(j) <= last(i) /\ first(i) <= last(j) }
           Meeting == { k \in DOMAIN rs :
             \E j \in DOMAIN rs \ {k} : Selected(rs[j], len) \cap Selected(rs[k], len) # {} }
<1>1. DOMAIN rs = 1 .. Len(rs) /\ Len(rs) \in Nat
      /\ \A i \in DOMAIN rs : rs[i] \in ({-1} \cup Nat) \X ({-1} \cup Nat)
  OBVIOUS
<1>2. \A i \in DOMAIN rs :
        /\ first(i) \in Int /\ last(i) \in Int
        /\ Valid(i) => Selected(rs[i], len) = first(i) .. last(i) /\ Selected(rs[i], len) # {}
        /\ ~Valid(i) => Selected(rs[i], len) = {} \/ (rs[i][1] = -1 /\ rs[i][2] > len)
  BY <1>1, ClampedSelects
<1> DEFINE cs == [i \in DOMAIN rs |-> Clamped(rs[i], len)]
<1>3. RangeError(rs, len) <=>
        \/ Len(rs) > RangeMaxCount
        \/ \E i \in DOMAIN cs : ~(0 <= cs[i][1] /\ cs[i][1] <= cs[i][2])
        \/ Cardinality({ i \in DOMAIN cs :
             \E j \in 1 .. i - 1 : cs[j][1] <= cs[i][2] /\ cs[i][1] <= cs[j][2] }) > 2
  BY DEF RangeError
<1>4. { i \in DOMAIN cs :
          \E j \in 1 .. i - 1 : cs[j][1] <= cs[i][2] /\ cs[i][1] <= cs[j][2] } = Overlapping
  <2>1. \A i \in DOMAIN rs : \A j \in 1 .. i - 1 : j \in DOMAIN rs
    BY <1>1
  <2>2. DOMAIN cs = DOMAIN rs
    OBVIOUS
  <2>3. \A i \in DOMAIN rs : cs[i][1] = first(i) /\ cs[i][2] = last(i)
    OBVIOUS
  <2> HIDE DEF cs, first, last
  <2> QED
    BY <2>1, <2>2, <2>3
<1>5. (\E i \in DOMAIN cs : ~(0 <= cs[i][1] /\ cs[i][1] <= cs[i][2])) <=> \E i \in DOMAIN rs : ~Valid(i)
  OBVIOUS
<1> HIDE DEF first, last, cs
<1>6. RangeError(rs, len) <=>
        \/ Len(rs) > RangeMaxCount
        \/ \E i \in DOMAIN rs : ~Valid(i)
        \/ Cardinality(Overlapping) > 2
  BY <1>3, <1>4, <1>5
<1>7. ASSUME \A i \in DOMAIN rs : Valid(i), Cardinality(Overlapping) > 2
      PROVE  Cardinality(Meeting) > 2
  <2>1. IsFiniteSet(DOMAIN rs)
    BY <1>1, FS_Interval
  <2>2. Meeting \subseteq DOMAIN rs
    OBVIOUS
  <2>3. IsFiniteSet(Meeting)
    BY <2>1, <2>2, FS_Subset
  <2>4. ASSUME NEW i \in DOMAIN rs, NEW j \in 1 .. i - 1,
               first(j) <= last(i), first(i) <= last(j)
        PROVE  j \in DOMAIN rs \ {i} /\ Selected(rs[j], len) \cap Selected(rs[i], len) # {}
    <3>1. j \in DOMAIN rs /\ j # i
      BY <1>1
    <3>2. /\ Selected(rs[i], len) = first(i) .. last(i) /\ Selected(rs[j], len) = first(j) .. last(j)
          /\ first(i) \in Int /\ last(i) \in Int /\ first(j) \in Int /\ last(j) \in Int
          /\ first(i) <= last(i) /\ first(j) <= last(j)
      BY <1>2, <1>7, <3>1
    <3> DEFINE p == IF first(i) <= first(j) THEN first(j) ELSE first(i)
    <3>3. p \in first(i) .. last(i) /\ p \in first(j) .. last(j)
      BY <2>4, <3>2
    <3> QED
      BY <3>1, <3>2, <3>3
  <2>5. Overlapping \subseteq Meeting
    BY <2>4
  <2> HIDE DEF Overlapping, Meeting
  <2>6. Cardinality(Overlapping) <= Cardinality(Meeting)
    BY <2>3, <2>5, FS_Subset
  <2>7. Cardinality(Meeting) \in Nat /\ Cardinality(Overlapping) \in Nat
    BY <2>3, <2>5, FS_Subset, FS_CardinalityType
  <2> QED
    BY <1>7, <2>6, <2>7
<1>8. ASSUME NEW i \in DOMAIN rs, ~Valid(i)
      PROVE  Selected(rs[i], len) = {} \/ (rs[i][1] = -1 /\ rs[i][2] > len)
  BY <1>2, <1>8
<1>9. ~RangeError(rs, len) =>
        Len(rs) <= RangeMaxCount /\ \A k \in DOMAIN rs : Selected(rs[k], len) # {}
  BY <1>1, <1>2, <1>6, ConnectionAssumption
<1>10. RangeError(rs, len) =>
         \/ Len(rs) > RangeMaxCount
         \/ \E k \in DOMAIN rs : Selected(rs[k], len) = {} \/ (rs[k][1] = -1 /\ rs[k][2] > len)
         \/ Cardinality(Meeting) > 2
  <2> HIDE DEF Valid, Overlapping, Meeting
  <2> QED
    BY <1>6, <1>7, <1>8
<1> QED
  BY <1>9, <1>10

(* Every step that withholds or sends a handler's result goes by that.     *)
LEMMA RangesStep ==
  ASSUME TypeOK, Open, Position, RangesSatisfied, [Next]_vars
  PROVE  RangesSatisfied'
<1> DEFINE n == Len(answers)
           Fits(a, rs, refuse) ==
             /\ a.status = 200 =>
                  Len(rs) <= RangeMaxCount /\ \A k \in DOMAIN rs : Selected(rs[k], a.len) # {}
             /\ a.status = 416 /\ refuse = 0 =>
                  \/ Len(rs) > RangeMaxCount
                  \/ \E k \in DOMAIN rs : \/ Selected(rs[k], a.len) = {}
                                          \/ rs[k][1] = -1 /\ rs[k][2] > a.len
                  \/ Cardinality({ k \in DOMAIN rs :
                       \E j \in DOMAIN rs \ {k} :
                         Selected(rs[j], a.len) \cap Selected(rs[k], a.len) # {} }) > 2
<1>1. n \in Nat /\ DOMAIN answers = 1 .. n
  BY DEF Open
<1>2. RangesSatisfied <=>
        \A i \in DOMAIN answers : answers[i].to # 0 =>
          Fits(answers[i], script[answers[i].to].ranges, script[answers[i].to].refuse)
  BY DEF RangesSatisfied
<1>3. RangesSatisfied' <=>
        \A i \in DOMAIN answers' : answers'[i].to # 0 =>
          Fits(answers'[i], script'[answers'[i].to].ranges, script'[answers'[i].to].refuse)
  BY DEF RangesSatisfied
<1>4. CASE UNCHANGED <<answers, script>>
  <2>1. answers' = answers /\ script' = script
    BY <1>4
  <2> HIDE DEF Fits
  <2> QED
    BY <1>2, <1>3, <2>1
<1>5. CASE Ending
  <2>1. UNCHANGED clientVars /\ script' = script
    BY <1>5 DEF Ending, clientVars
  <2>2. CASE Quits
    BY <1>4, <2>1, <2>2 DEF Quits
  <2>3. ASSUME NEW k, NEW status, NEW len, Reply(k, status, len)
        PROVE  RangesSatisfied'
    <3> DEFINE a == [to |-> k, status |-> status, len |-> len,
                     close |-> AnnouncesClose(k, status)]
    <3>1. /\ DOMAIN answers' = 1 .. n + 1
          /\ \A i \in 1 .. n : answers'[i] = answers[i]
          /\ answers'[n + 1] = a
      BY <2>1, <2>3, ReplyAdds
    <3>2. a.to = k /\ a.status = status /\ a.len = len
      OBVIOUS
    <3> HIDE DEF a
    <3>3. ASSUME k # 0 PROVE Fits(a, script[k].ranges, script[k].refuse)
      <4>1. k = req /\ stage \in Reads
        BY <2>3, <3>3 DEF Reply
      <4>2. script[k].ranges \in Seq(({-1} \cup Nat) \X ({-1} \cup Nat))
        <5>1. script[k].ranges \in Seq(RangeSpec)
          BY <4>1, MessageRead DEF Message
        <5>2. RangeSpec \subseteq ({-1} \cup Nat) \X ({-1} \cup Nat)
          BY DEF RangeSpec
        <5> HIDE DEF RangeSpec
        <5> QED
          BY <5>1, <5>2
      <4>3. len \in Nat
        BY <2>3, ConnectionAssumption DEF Reply
      <4>4. /\ status = 200 => ~RangeError(script[k].ranges, len)
            /\ status = 416 /\ script[k].refuse = 0 => RangeError(script[k].ranges, len)
        BY <2>3, <3>3 DEF Reply
      <4> DEFINE rs == script[k].ranges
      <4>5. /\ ~RangeError(rs, len) =>
                 Len(rs) <= RangeMaxCount /\ \A i \in DOMAIN rs : Selected(rs[i], len) # {}
            /\ RangeError(rs, len) =>
                 \/ Len(rs) > RangeMaxCount
                 \/ \E i \in DOMAIN rs : \/ Selected(rs[i], len) = {}
                                         \/ rs[i][1] = -1 /\ rs[i][2] > len
                 \/ Cardinality({ i \in DOMAIN rs :
                      \E j \in DOMAIN rs \ {i} :
                        Selected(rs[j], len) \cap Selected(rs[i], len) # {} }) > 2
        BY <4>2, <4>3, RangesChecked
      <4> QED
        BY <3>2, <4>4, <4>5
    <3> HIDE DEF Fits
    <3>4. ASSUME NEW i \in 1 .. n + 1, answers'[i].to # 0
          PROVE  Fits(answers'[i], script'[answers'[i].to].ranges, script'[answers'[i].to].refuse)
      <4>1. CASE i = n + 1
        BY <2>1, <3>1, <3>2, <3>3, <3>4, <4>1
      <4>2. CASE i # n + 1
        <5>1. i \in 1 .. n
          BY <1>1, <4>2
        <5> QED
          BY <1>1, <1>2, <2>1, <3>1, <3>4, <5>1
      <4> QED
        BY <4>1, <4>2
    <3> QED
      BY <1>3, <3>1, <3>4
  <2> QED
    BY <1>5, <2>2, <2>3 DEF Ending
<1>6. CASE \/ Send \/ HangUp \/ Receive \/ Begin \/ GiveUp \/ ReadLine \/ SpoilLine
           \/ ReadField \/ Route \/ ReadBody \/ ReadLastChunk
           \/ /\ stage = "content" /\ stage' = "handler"
              /\ UNCHANGED <<clientVars, taken, used, parser, count, continued, answers, late>>
           \/ UNCHANGED vars
  <2>1. UNCHANGED <<answers, script>>
    BY <1>6 DEF Send, HangUp, Receive, Begin, GiveUp, ReadLine, SpoilLine, ReadField, Route,
       ReadBody, ReadLastChunk, vars, clientVars
  <2> QED
    BY <1>4, <2>1
<1> QED
  BY <1>5, <1>6, Cases

-----------------------------------------------------------------------------
(* At first nothing is sent, read or answered.                             *)
LEMMA ConnectionInvInit ==
  ASSUME Init
  PROVE  ConnectionInv
<1>1. /\ script \in Scripts /\ stream = StreamOf(script) /\ Len(script) \in Nat
      /\ KeepAliveMax \in Nat \ {0} /\ MaxPayload \in Nat
  BY Starts, ConnectionAssumption DEF Init
<1>2. Len(stream) \in Nat
  <2>1. StreamOf(script) \in Seq(Unit)
    BY <1>1, Starts
  <2> QED
    BY <1>1, <2>1
<1>3. answers = <<>> /\ DOMAIN answers = {} /\ Len(answers) = 0 /\ answers \in Seq(Answer)
  BY DEF Init
<1>4. TypeOK
  <2>1. sent = 0 /\ taken = 0 /\ used = 0 /\ req = 0 /\ continued = 0 /\ got = 0
        /\ count = KeepAliveMax
    BY DEF Init
  <2>2. sent \in 0 .. Len(stream) /\ taken \in 0 .. sent /\ used \in 0 .. taken
    BY <1>2, <2>1
  <2>3. /\ req \in 0 .. Len(script) /\ continued \in 0 .. Len(script)
        /\ got \in 0 .. MaxPayload /\ count \in 0 .. KeepAliveMax
    BY <1>1, <2>1
  <2>4. /\ hungup \in BOOLEAN /\ early \in BOOLEAN /\ spoiled \in BOOLEAN /\ late \in BOOLEAN
        /\ stage \in {"waiting", "line", "headers", "body", "content", "handler", "closed"}
    BY DEF Init
  <2> QED
    BY <1>1, <1>3, <2>2, <2>3, <2>4 DEF TypeOK
<1>5. Open
  BY <1>1, <1>3 DEF Init, Open
<1>6. Position
  BY DEF Init, Position, Reads
<1>7. Passed
  BY <1>3 DEF Passed
<1>8. InStep
  <2>1. From(1) = 0
    BY <1>1, Starts DEF From
  <2> QED
    BY <1>1, <1>3, <2>1 DEF Init, InStep, Reads
<1>9. AnswersInOrder /\ RangesSatisfied
  BY <1>3 DEF AnswersInOrder, RangesSatisfied
<1>10. CloseAnnounced
  BY DEF Init, CloseAnnounced
<1> QED
  BY <1>4, <1>5, <1>6, <1>7, <1>8, <1>9, <1>10 DEF ConnectionInv

(***************************************************************************)
(* The connection's invariant: where the parser stands in each stage, what *)
(* it has passed, and that it keeps in step with a client that does not    *)
(* pipeline, hold for every script, limit and body length.                 *)
(***************************************************************************)
THEOREM ConnectionInvariant == Spec => []ConnectionInv
<1>1. Init => ConnectionInv
  BY ConnectionInvInit
<1>2. ConnectionInv /\ [Next]_vars => ConnectionInv'
  BY TypesStep, PositionStep, PassedStep, InStepStep, OrderStep, CloseStep, RangesStep
     DEF ConnectionInv
<1> QED
  BY <1>1, <1>2, PTL DEF Spec

(* Every variable of the connection has its type at all times.             *)
THEOREM ConnectionTypeOK == Spec => []TypeOK
<1>1. ConnectionInv => TypeOK
  BY DEF ConnectionInv
<1> QED
  BY <1>1, ConnectionInvariant, PTL

(***************************************************************************)
(* Between requests, for a client that does not pipeline and was told of   *)
(* no end, the parser stands where a message begins: process_request has   *)
(* left nothing of a body behind and used nothing of the next message.     *)
(***************************************************************************)
THEOREM RequestsStayFramed == Spec => []FramingKept
<1>1. ASSUME ConnectionInv, stage = "waiting", ~Closing, ~early
      PROVE  Whole(used) /\ (used < Len(stream) => stream[used + 1].of = Len(answers) + 1)
  <2> DEFINE k == Len(answers) + 1
  <2>1. /\ script \in Scripts /\ stream = StreamOf(script) /\ Len(script) \in Nat
        /\ used \in Int /\ Len(answers) \in Nat
    BY <1>1, MessageRead DEF ConnectionInv, TypeOK, Open
  <2>2. Len(answers) <= Len(script) /\ used = Start(script, k)
    BY <1>1 DEF ConnectionInv, InStep, From
  <2>3. k \in 1 .. Len(script) + 1
    BY <2>1, <2>2
  <2>4. Len(stream) = Start(script, Len(script) + 1)
    BY <2>1, Starts
  <2>5. CASE k = Len(script) + 1
    <3>1. used = Len(stream) /\ ~(used < Len(stream))
      BY <2>1, <2>2, <2>4, <2>5
    <3> QED
      BY <3>1 DEF Whole
  <2>6. CASE k # Len(script) + 1
    <3>1. k \in 1 .. Len(script)
      BY <2>1, <2>3, <2>6
    <3>2. script[k] \in Message
      BY <2>1, <3>1, Starts
    <3>3. 1 \in 1 .. 3 + script[k].body + LastUnits(script[k])
      <4>1. script[k].body \in Nat /\ LastUnits(script[k]) \in Nat
        BY <3>2 DEF Message, LastUnits
      <4> QED
        BY <4>1
    <3> HIDE DEF k
    <3>4. stream[used + 1] = [of |-> k, kind |-> Units(script[k])[1]]
      BY <2>1, <2>2, <3>1, <3>3, Starts
    <3>5. Units(script[k])[1] = "line"
      BY <3>2, UnitsPlaces
    <3>6. stream[used + 1].of = k /\ stream[used + 1].kind = "line"
      BY <3>4, <3>5
    <3> QED
      BY <3>6 DEF Whole, k
  <2> QED
    BY <2>5, <2>6
<1>2. ConnectionInv => FramingKept
  BY <1>1 DEF FramingKept
<1> QED
  BY <1>2, ConnectionInvariant, PTL

(***************************************************************************)
(* Answers come in the order of the requests, none twice, and to a client  *)
(* that does not pipeline the i-th answer is to the i-th request until one *)
(* announces the end: no handler's answer moves to another message.        *)
(***************************************************************************)
THEOREM ConnectionAnswersInOrder == Spec => []AnswersInOrder
<1>1. ConnectionInv => AnswersInOrder
  BY DEF ConnectionInv
<1> QED
  BY <1>1, ConnectionInvariant, PTL

(***************************************************************************)
(* A connection that the server closes was announced to end by its last    *)
(* response, or its request was not persistent, unless the client left or  *)
(* was too slow.                                                           *)
(***************************************************************************)
THEOREM ConnectionCloseAnnounced == Spec => []CloseAnnounced
<1>1. ConnectionInv => CloseAnnounced
  BY DEF ConnectionInv
<1> QED
  BY <1>1, ConnectionInvariant, PTL

(***************************************************************************)
(* The ranges of a request are judged as what they select of the body: a   *)
(* result is sent only if each selects something, and withheld only if one *)
(* selects nothing or too long a suffix, if three of them meet others, or  *)
(* if there are more than RangeMaxCount.                                   *)
(***************************************************************************)
THEOREM ConnectionRangesSatisfied == Spec => []RangesSatisfied
<1>1. ConnectionInv => RangesSatisfied
  BY DEF ConnectionInv
<1> QED
  BY <1>1, ConnectionInvariant, PTL
=============================================================================
