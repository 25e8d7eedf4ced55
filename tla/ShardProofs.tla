----------------------------- MODULE ShardProofs -----------------------------
(***************************************************************************)
(* What TLAPS proves of Shard, for any number of threads, any lengths of   *)
(* vectors, any size of chunks and any page size: it implements ShardLog.  *)
(***************************************************************************)
EXTENDS Shard, TLAPS

(***************************************************************************)
(* Lemmas about the arithmetic of places and pages.                        *)
(***************************************************************************)

(* An index is a chunk and a cell, ...                                     *)
LEMMA Division ==
  ASSUME NEW i \in Nat, NEW c \in Nat \ {0}
  PROVE  i \div c \in Nat /\ i % c \in 0 .. c - 1 /\ i = c * (i \div c) + (i % c)
OBVIOUS

(* ... whose chunk is one of the first n just if the index is below n      *)
(* chunks' capacity.                                                       *)
LEMMA DivisionBound ==
  ASSUME NEW i \in Nat, NEW c \in Nat \ {0}, NEW n \in Nat
  PROVE  i < n * c <=> i \div c < n
<1> DEFINE q == i \div c
           r == i % c
<1>1. q \in Nat /\ r \in 0 .. c - 1 /\ i = c * q + r
  BY Division
<1> HIDE DEF q, r
<1>2. ASSUME q < n PROVE i < n * c
  <2>1. q + 1 <= n
    BY <1>1, <1>2
  <2>2. (q + 1) * c <= n * c
    BY <1>1, <2>1
  <2>3. (q + 1) * c = c * q + c
    BY <1>1
  <2> QED
    BY <1>1, <2>2, <2>3
<1>3. ASSUME q >= n PROVE i >= n * c
  <2>1. q * c >= n * c
    BY <1>1, <1>3
  <2> QED
    BY <1>1, <2>1
<1>4. n * c \in Nat
  OBVIOUS
<1> QED
  BY <1>1, <1>2, <1>3, <1>4 DEF q

(* Rounding up to pages does not exceed a whole number of pages, and       *)
(* leaves it alone.                                                        *)
LEMMA RoundUpBound ==
  ASSUME NEW v \in Nat, NEW m \in Nat \ {0}, NEW n \in Nat, v <= n * m
  PROVE  RoundUp(v, m) \in Nat /\ RoundUp(v, m) <= n * m /\ (v = n * m => RoundUp(v, m) = n * m)
<1> DEFINE w == v + m - 1
           q == w \div m
<1>0. n * m \in Nat /\ (n + 1) * m = n * m + m
  OBVIOUS
<1>1. w \in Nat /\ w < (n + 1) * m
  BY <1>0
<1>2. v = n * m => ~(w < n * m)
  BY <1>0
<1>3. w \in Nat /\ n + 1 \in Nat
  BY <1>1
<1> HIDE DEF w
<1>4. q \in Nat
  BY <1>3, Division
<1>5. q < n + 1
  BY <1>1, <1>3, DivisionBound
<1>6. v = n * m => ~(q < n)
  BY <1>2, <1>3, DivisionBound
<1>7. RoundUp(v, m) = q * m
  BY DEF RoundUp, w
<1> HIDE DEF q
<1>8. q <= n /\ (v = n * m => q = n)
  BY <1>4, <1>5, <1>6
<1>9. q * m <= n * m /\ q * m \in Nat
  BY <1>4, <1>8
<1> QED
  BY <1>7, <1>8, <1>9

(* The constants.  Chunks are whole pages, and hold less elements than     *)
(* bytes.                                                                  *)
LEMMA Sizes ==
  /\ ChunkCapacity \in Nat \ {0} /\ ElementSize \in Nat \ {0} /\ PageSize \in Nat \ {0}
  /\ ChunkBytes \in Nat \ {0}
  /\ \A n \in Nat : n * ChunkCapacity \in Nat /\ n * ChunkBytes \in Nat
                    /\ n * ChunkCapacity <= n * ChunkBytes
  /\ \A n \in Nat : \E pages \in Nat : n * ChunkBytes = pages * PageSize
<1>1. ChunkCapacity \in Nat \ {0} /\ ElementSize \in Nat \ {0} /\ PageSize \in Nat \ {0}
  BY ShardAssumption
<1>2. ChunkBytes \in Nat \ {0} /\ ChunkCapacity <= ChunkBytes
  BY <1>1 DEF ChunkBytes
<1>3. \A n \in Nat : n * ChunkCapacity \in Nat /\ n * ChunkBytes \in Nat
                     /\ n * ChunkCapacity <= n * ChunkBytes
  BY <1>1, <1>2
<1>4. ASSUME NEW n \in Nat PROVE \E pages \in Nat : n * ChunkBytes = pages * PageSize
  <2> DEFINE q == ChunkBytes \div PageSize
  <2>1. ChunkBytes % PageSize = 0
    BY ShardAssumption DEF ChunkBytes
  <2>2. q \in Nat /\ ChunkBytes = PageSize * q
    BY <1>1, <1>2, <2>1, Division
  <2> HIDE DEF q
  <2>3. n * ChunkBytes = (n * q) * PageSize /\ n * q \in Nat
    BY <1>1, <2>2
  <2> QED
    BY <2>3
<1> QED
  BY <1>1, <1>2, <1>3, <1>4

(* Room for n chunks is room for n + 1 less one.                           *)
LEMMA OneMore ==
  ASSUME NEW n \in Nat
  PROVE  /\ (n + 1) * ChunkCapacity = n * ChunkCapacity + ChunkCapacity
         /\ (n + 1) * ChunkBytes = n * ChunkBytes + ChunkBytes
BY Sizes

-----------------------------------------------------------------------------
(***************************************************************************)
(* The inductive invariant, in its parts.                                  *)
(***************************************************************************)

(* The element with index i, counted from 0, in the chunks.                *)
Slot(i) == chunks[(i \div ChunkCapacity) + 1][(i % ChunkCapacity) + 1]

(* grow_mutex belongs to the thread that grows or copies.                  *)
Alone == \A p \in Pusher : holder = p <=> pc[p] \in {"grow", "copy"}

(* A thread pushes the next of its elements; they go to the end of the     *)
(* shard, where there is room for them when it copies, and those it has    *)
(* copied are in their places.                                             *)
Pushing ==
  \A p \in Pusher :
    /\ pc[p] # "idle" =>
         \E n \in BatchLengths : obj[p] = [k \in 1 .. n |-> [by |-> p, nth |-> pushed[p] + k]]
    /\ pc[p] \in {"grow", "copy"} => start[p] = size
    /\ pc[p] = "grow" => copied[p] = 0
    /\ pc[p] = "copy" =>
         /\ Fits(p) /\ copied[p] <= Len(obj[p])
         /\ \A k \in 1 .. copied[p] : Slot(size + k - 1) = obj[p][k]

(* The chunks, and then the mapping, have room for the elements.           *)
Room ==
  /\ phase \in {"pushing", "relocate"} => size <= Len(chunks) * ChunkCapacity
  /\ phase = "relocate" => Len(mapping) = Len(chunks) * ChunkCapacity
  /\ phase \in {"read", "dropped"} =>
       /\ size <= relocated * ChunkCapacity /\ Len(mapping) = relocated * ChunkCapacity
       /\ mapping_size = size

(* consolidate follows the last push; it maps as much as it moves.         *)
Consolidating ==
  /\ phase = "pushing" => relocated = 0
  /\ phase # "pushing" => \A p \in Pusher : pc[p] = "idle" /\ pushes[p] = 0
  /\ phase = "relocate" => relocated <= Len(chunks)

(* What is mapped: the chunks, the mapping, or at first both.              *)
Memory ==
  /\ phase = "pushing" => mapped = Len(chunks) * ChunkBytes
  /\ phase = "relocate" =>
       mapped = Len(chunks) * ChunkBytes + Len(chunks) * ChunkBytes - relocated * ChunkBytes
  /\ phase = "read" => mapped = relocated * ChunkBytes

ShardInv == TypeOK /\ Alone /\ Pushing /\ Room /\ Consolidating /\ Memory


(* A step is one of a pusher, of the reader, or none.                      *)
Step ==
  \/ \E p \in Pusher : PushStep(p) \/ Lock(p) \/ GrowFails(p)
  \/ ReadStep \/ RelocateFails

(* A step is one of those above or changes nothing.                        *)
LEMMA Steps == [Next]_vars => Step \/ UNCHANGED vars
BY DEF Next, Step, Stopped

(* What was returned lies within its mapping, and so does what is unmapped *)
(* for it.                                                                 *)
LEMMA WithinBound ==
  ASSUME ShardInv, phase = "read"
  PROVE  mapping_size <= Len(mapping) /\ Unmapped \in Nat /\ Unmapped <= mapped
<1>1. /\ size \in Nat /\ relocated \in Nat /\ mapping_size = size
      /\ size <= relocated * ChunkCapacity /\ Len(mapping) = relocated * ChunkCapacity
      /\ mapped = relocated * ChunkBytes
  BY DEF ShardInv, TypeOK, Room, Memory
<1>2. relocated * ChunkCapacity <= relocated * ChunkBytes /\ relocated * ChunkCapacity \in Nat
      /\ relocated * ChunkBytes \in Nat
  BY <1>1, Sizes
<1>3. PICK pages \in Nat : relocated * ChunkBytes = pages * PageSize
  BY <1>1, Sizes
<1>4. size <= pages * PageSize
  BY <1>1, <1>2, <1>3
<1>5. RoundUp(size, PageSize) \in Nat /\ RoundUp(size, PageSize) <= pages * PageSize
  BY <1>1, <1>4, Sizes, RoundUpBound
<1> QED
  BY <1>1, <1>3, <1>5 DEF Unmapped

(* The reservation is as large as the chunks.                              *)
LEMMA Reservation ==
  ASSUME NEW n \in Nat
  PROVE  RoundUp(n * ChunkBytes, PageSize) = n * ChunkBytes
<1>1. PICK pages \in Nat : n * ChunkBytes = pages * PageSize
  BY Sizes
<1>2. n * ChunkBytes \in Nat /\ PageSize \in Nat \ {0} /\ n * ChunkBytes <= pages * PageSize
  BY <1>1, Sizes
<1> QED
  BY <1>1, <1>2, RoundUpBound

(* A shard begins empty.                                                   *)
LEMMA ShardInvInit == Init => ShardInv
<1> SUFFICES ASSUME Init PROVE ShardInv
  OBVIOUS
<1> USE DEF Init
<1>1. <<>> \in Seq([Cell -> Element \cup {Zero}]) /\ <<>> \in Seq(Element)
      /\ <<>> \in Seq(Element \cup {Zero, NoAccess}) /\ Len(<<>>) = 0
  OBVIOUS
<1>2. MaxPushes \in Nat /\ Nobody \notin Pusher
  BY ShardAssumption
<1>3. TypeOK
  <2>1. chunks \in Seq([Cell -> Element \cup {Zero}]) /\ mapping \in Seq(Element \cup {Zero, NoAccess})
    BY <1>1
  <2>2. obj \in [Pusher -> Seq(Element)]
    BY <1>1
  <2>3. pushes \in [Pusher -> 0 .. MaxPushes]
    BY <1>2
  <2> QED
    BY <2>1, <2>2, <2>3 DEF TypeOK
<1>4. 0 * ChunkCapacity = 0 /\ 0 * ChunkBytes = 0
  BY Sizes
<1>5. Alone /\ Pushing /\ Consolidating
  BY <1>2 DEF Alone, Pushing, Consolidating
<1>6. Room /\ Memory
  BY <1>1, <1>4 DEF Room, Memory
<1> QED
  BY <1>3, <1>5, <1>6 DEF ShardInv

(* Only the thread that holds grow_mutex grows the shard or copies into it.*)
LEMMA AloneStep == ShardInv /\ [Next]_vars => Alone'
<1> SUFFICES ASSUME ShardInv, [Next]_vars PROVE Alone'
  OBVIOUS
<1>0. Alone /\ pc \in [Pusher -> {"idle", "lock", "grow", "copy"}] /\ Nobody \notin Pusher
  BY ShardAssumption DEF ShardInv, TypeOK
<1>1. CASE UNCHANGED vars
  BY <1>0, <1>1 DEF Alone, vars, pushVars
<1>2. ASSUME NEW p \in Pusher, PushStep(p) \/ Lock(p) \/ GrowFails(p) PROVE Alone'
  <2>1. ASSUME NEW n \in BatchLengths, Call(p, n) PROVE Alone'
    BY <1>0, <2>1 DEF Alone, Call, Goto
  <2>2. CASE Lock(p)
    BY <1>0, <2>2 DEF Alone, Lock, Goto
  <2>3. CASE Grow(p) \/ GrowFails(p)
    BY <1>0, <2>3 DEF Alone, Grow, GrowFails, pushVars
  <2>4. CASE Grown(p)
    BY <1>0, <2>4 DEF Alone, Grown, Goto
  <2>5. CASE Copy(p)
    BY <1>0, <2>5 DEF Alone, Copy
  <2>6. CASE Publish(p)
    BY <1>0, <2>6 DEF Alone, Publish, Goto
  <2> QED
    BY <1>2, <2>1, <2>2, <2>3, <2>4, <2>5, <2>6 DEF PushStep
<1>3. CASE ReadStep \/ RelocateFails
  BY <1>0, <1>3 DEF Alone, ReadStep, Consolidate, Relocate, SetSize, Drop, RelocateFails, pushVars
<1> QED
  BY <1>1, <1>2, <1>3, Steps DEF Step

(* No push begins once consolidate() has.                                  *)
LEMMA ConsolidatingStep == ShardInv /\ [Next]_vars => Consolidating'
<1> SUFFICES ASSUME ShardInv, [Next]_vars PROVE Consolidating'
  OBVIOUS
<1>0. Consolidating /\ phase \in {"pushing", "relocate", "read", "dropped"} /\ relocated \in Nat /\ Len(chunks) \in Nat
  BY DEF ShardInv, TypeOK
<1>1. CASE UNCHANGED vars
  BY <1>0, <1>1 DEF Consolidating, vars, pushVars, readVars
<1>2. ASSUME NEW p \in Pusher, PushStep(p) \/ Lock(p) \/ GrowFails(p) PROVE Consolidating'
  <2>1. phase = "pushing"
    <3>1. pc[p] # "idle" \/ pushes[p] # 0
      <4>1. pushes[p] \in Nat
        BY DEF ShardInv, TypeOK
      <4> QED
        BY <1>2, <4>1 DEF PushStep, Call, Lock, Grow, GrowFails, Grown, Copy, Publish
    <3> QED
      BY <1>0, <3>1 DEF Consolidating
  <2>2. phase' = phase /\ relocated' = relocated
    BY <1>2 DEF PushStep, Call, Lock, Grow, GrowFails, Grown, Copy, Publish, readVars
  <2> QED
    BY <1>0, <2>1, <2>2 DEF Consolidating
<1>3. CASE Consolidate
  BY <1>0, <1>3 DEF Consolidate, Consolidating, pushVars
<1>4. CASE Relocate
  BY <1>0, <1>4 DEF Relocate, Consolidating, pushVars
<1>5. CASE SetSize \/ Drop \/ RelocateFails
  BY <1>0, <1>5 DEF SetSize, Drop, RelocateFails, Consolidating, pushVars, readVars
<1> QED
  BY <1>1, <1>2, <1>3, <1>4, <1>5, Steps DEF Step, ReadStep


(* Vectors are pushed before the shard is consolidated, into chunks that   *)
(* stay where they are.                                                    *)
LEMMA PushPhase ==
  ASSUME ShardInv, NEW p \in Pusher, PushStep(p) \/ Lock(p) \/ GrowFails(p)
  PROVE  phase = "pushing" /\ relocated = 0 /\ UNCHANGED readVars
<1>1. pc[p] # "idle" \/ pushes[p] # 0
  <2>1. pushes[p] \in Nat
    BY DEF ShardInv, TypeOK
  <2> QED
    BY <2>1 DEF PushStep, Call, Lock, Grow, GrowFails, Grown, Copy, Publish
<1>2. phase = "pushing" /\ relocated = 0
  BY <1>1 DEF ShardInv, Consolidating
<1>3. UNCHANGED readVars
  BY DEF PushStep, Call, Lock, Grow, GrowFails, Grown, Copy, Publish
<1> QED
  BY <1>2, <1>3

(* The thread that copies has room for its vector: where its next element  *)
(* goes is in a chunk there is.                                            *)
LEMMA CopyPlace ==
  ASSUME ShardInv, NEW p \in Pusher, Copy(p)
  PROVE  LET index == start[p] + copied[p]
         IN  /\ index = size + copied[p] /\ index \in Nat
             /\ (index \div ChunkCapacity) + 1 \in DOMAIN chunks
             /\ (index % ChunkCapacity) + 1 \in Cell
             /\ copied[p] + 1 \in DOMAIN obj[p] /\ obj[p][copied[p] + 1] \in Element
<1> DEFINE index == start[p] + copied[p]
<1>1. /\ start[p] = size /\ size \in Nat /\ copied[p] \in Nat /\ copied[p] < Len(obj[p])
      /\ obj[p] \in Seq(Element) /\ size + Len(obj[p]) <= Len(chunks) * ChunkCapacity
      /\ Len(chunks) \in Nat
  BY DEF Copy, ShardInv, TypeOK, Pushing, Fits
<1>2. Len(obj[p]) \in Nat /\ Len(chunks) * ChunkCapacity \in Nat
  BY <1>1, Sizes
<1>3. index \in Nat /\ index < Len(chunks) * ChunkCapacity
  BY <1>1, <1>2
<1> HIDE DEF index
<1>4. /\ index \div ChunkCapacity \in Nat /\ index \div ChunkCapacity < Len(chunks)
      /\ index % ChunkCapacity \in 0 .. ChunkCapacity - 1
  BY <1>1, <1>3, Sizes, Division, DivisionBound
<1>5. (index \div ChunkCapacity) + 1 \in DOMAIN chunks
  <2>1. DOMAIN chunks = 1 .. Len(chunks)
    BY DEF ShardInv, TypeOK
  <2> QED
    BY <1>1, <1>4, <2>1
<1>6. (index % ChunkCapacity) + 1 \in Cell
  BY <1>4, Sizes DEF Cell
<1>7. copied[p] + 1 \in DOMAIN obj[p] /\ obj[p][copied[p] + 1] \in Element
  BY <1>1, <1>2
<1> QED
  BY <1>1, <1>3, <1>5, <1>6, <1>7 DEF index

(* What is mapped is what the chunks take, and while they are moved what   *)
(* the mapping has taken over.                                             *)
LEMMA MemoryStep == ShardInv /\ [Next]_vars => Memory'
<1> SUFFICES ASSUME ShardInv, [Next]_vars PROVE Memory'
  OBVIOUS
<1>0. /\ Memory /\ Consolidating /\ relocated \in Nat /\ Len(chunks) \in Nat
      /\ chunks \in Seq([Cell -> Element \cup {Zero}])
      /\ phase \in {"pushing", "relocate", "read", "dropped"}
  BY DEF ShardInv, TypeOK
<1>a. ChunkBytes \in Nat /\ Len(chunks) * ChunkBytes \in Nat /\ relocated * ChunkBytes \in Nat
      /\ 0 * ChunkBytes = 0
  BY <1>0, Sizes
<1>b. /\ (relocated + 1) * ChunkBytes = relocated * ChunkBytes + ChunkBytes
      /\ (Len(chunks) + 1) * ChunkBytes = Len(chunks) * ChunkBytes + ChunkBytes
  BY <1>0, OneMore
<1>1. CASE UNCHANGED vars
  BY <1>0, <1>1 DEF Memory, vars, readVars
<1>2. ASSUME NEW p \in Pusher, PushStep(p) \/ Lock(p) \/ GrowFails(p) PROVE Memory'
  <2>1. phase = "pushing" /\ UNCHANGED readVars
    BY <1>2, PushPhase
  <2>2. CASE Grow(p)
    <3>1. mapped' = mapped + ChunkBytes /\ Len(chunks') = Len(chunks) + 1
      BY <1>0, <2>2 DEF Grow
    <3>2. mapped' = Len(chunks') * ChunkBytes
      BY <1>0, <1>a, <1>b, <2>1, <3>1 DEF Memory
    <3> QED
      BY <2>1, <3>2 DEF Memory, readVars
  <2>3. CASE ~Grow(p)
    <3>1. mapped' = mapped
      BY <1>2, <2>3 DEF PushStep, Call, Lock, GrowFails, Grown, Copy, Publish
    <3>2. Len(chunks') = Len(chunks)
      BY <1>0, <1>2, <2>3 DEF PushStep, Call, Lock, GrowFails, Grown, Copy, Publish
    <3>3. phase' = phase
      BY <2>1 DEF readVars
    <3> HIDE DEF ChunkBytes
    <3> QED
      BY <1>0, <2>1, <3>1, <3>2, <3>3 DEF Memory
  <2> QED
    BY <2>2, <2>3
<1>3. CASE Consolidate
  <2>1. /\ phase = "pushing" /\ phase' = "relocate" /\ relocated' = 0 /\ chunks' = chunks
        /\ mapped' = mapped + Len(chunks) * ChunkBytes
    BY <1>0, <1>3, Reservation DEF Consolidate
  <2> QED
    BY <1>0, <1>a, <2>1 DEF Memory
<1>4. CASE Relocate
  <2>1. /\ phase = "relocate" /\ phase' = "relocate" /\ relocated' = relocated + 1 /\ chunks' = chunks
        /\ mapped' = mapped - ChunkBytes
    BY <1>4 DEF Relocate
  <2> QED
    BY <1>0, <1>a, <1>b, <2>1 DEF Memory
<1>5. CASE SetSize
  <2>1. /\ phase = "relocate" /\ phase' = "read" /\ relocated' = relocated /\ relocated = Len(chunks)
        /\ mapped' = mapped
    BY <1>5 DEF SetSize
  <2> QED
    BY <1>0, <1>a, <2>1 DEF Memory
<1>6. CASE Drop
  BY <1>6 DEF Drop, Memory
<1>7. CASE RelocateFails
  BY <1>0, <1>7 DEF RelocateFails, Memory, readVars
<1> QED
  BY <1>1, <1>2, <1>3, <1>4, <1>5, <1>6, <1>7, Steps DEF Step, ReadStep

(* The chunks have room for the elements before they are copied, and the   *)
(* mapping before it is read.                                              *)
LEMMA RoomStep == ShardInv /\ [Next]_vars => Room'
<1> SUFFICES ASSUME ShardInv, [Next]_vars PROVE Room'
  OBVIOUS
<1>0. /\ Room /\ Consolidating /\ relocated \in Nat /\ Len(chunks) \in Nat /\ size \in Nat
      /\ chunks \in Seq([Cell -> Element \cup {Zero}])
      /\ phase \in {"pushing", "relocate", "read", "dropped"}
      /\ mapping \in Seq(Element \cup {Zero, NoAccess})
  BY DEF ShardInv, TypeOK
<1>a. ChunkCapacity \in Nat /\ Len(chunks) * ChunkCapacity \in Nat
      /\ (Len(chunks) + 1) * ChunkCapacity = Len(chunks) * ChunkCapacity + ChunkCapacity
  BY <1>0, Sizes, OneMore
<1>1. CASE UNCHANGED vars
  BY <1>0, <1>1 DEF Room, vars, readVars
<1>2. ASSUME NEW p \in Pusher, PushStep(p) \/ Lock(p) \/ GrowFails(p) PROVE Room'
  <2>1. phase = "pushing" /\ phase' = "pushing"
    BY <1>2, PushPhase DEF readVars
  <2> SUFFICES size' <= Len(chunks') * ChunkCapacity
    BY <2>1 DEF Room
  <2>2. CASE Grow(p)
    <3>1. size' = size /\ Len(chunks') = Len(chunks) + 1
      BY <1>0, <2>2 DEF Grow
    <3> QED
      BY <1>0, <1>a, <2>1, <3>1 DEF Room
  <2>3. CASE Publish(p)
    BY <2>3 DEF Publish, ShardInv, Pushing, Fits
  <2>4. CASE ~Grow(p) /\ ~Publish(p)
    <3>1. size' = size /\ Len(chunks') = Len(chunks)
      BY <1>0, <1>2, <2>4 DEF PushStep, Call, Lock, GrowFails, Grown, Copy
    <3> QED
      BY <1>0, <2>1, <3>1 DEF Room
  <2> QED
    BY <2>2, <2>3, <2>4
<1>3. CASE Consolidate
  <2>1. /\ phase = "pushing" /\ phase' = "relocate" /\ chunks' = chunks /\ size' = size
        /\ mapping' = [c \in 1 .. Len(chunks) * ChunkCapacity |-> NoAccess]
    BY <1>3 DEF Consolidate
  <2>2. Len(mapping') = Len(chunks) * ChunkCapacity
    BY <1>a, <2>1
  <2> QED
    BY <1>0, <2>1, <2>2 DEF Room
<1>4. CASE Relocate
  <2>1. /\ phase = "relocate" /\ phase' = "relocate" /\ chunks' = chunks /\ size' = size
        /\ DOMAIN mapping' = DOMAIN mapping
        /\ mapping' = [c \in DOMAIN mapping |-> mapping'[c]]
    BY <1>4 DEF Relocate
  <2>2. Len(mapping') = Len(mapping)
    <3>1. DOMAIN mapping = 1 .. Len(mapping) /\ Len(mapping) \in Nat
      BY <1>0
    <3> QED
      BY <2>1, <3>1
  <2> QED
    BY <1>0, <2>1, <2>2 DEF Room
<1>5. CASE SetSize
  BY <1>0, <1>5 DEF SetSize, Room
<1>6. CASE Drop
  BY <1>0, <1>6 DEF Drop, Room
<1>7. CASE RelocateFails
  BY <1>0, <1>7 DEF RelocateFails, Room, readVars
<1> QED
  BY <1>1, <1>2, <1>3, <1>4, <1>5, <1>6, <1>7, Steps DEF Step, ReadStep


(* Copying an element changes its own place and no other.                  *)
LEMMA CopyEffect ==
  ASSUME ShardInv, NEW p \in Pusher, Copy(p), NEW i \in Nat, i < Len(chunks) * ChunkCapacity
  PROVE  chunks'[(i \div ChunkCapacity) + 1][(i % ChunkCapacity) + 1]
           = IF i = size + copied[p] THEN obj[p][copied[p] + 1] ELSE Slot(i)
<1> DEFINE index == start[p] + copied[p]
           ch(n) == (n \div ChunkCapacity) + 1
           ce(n) == (n % ChunkCapacity) + 1
<1>1. /\ index = size + copied[p] /\ index \in Nat /\ ch(index) \in DOMAIN chunks /\ ce(index) \in Cell
  BY CopyPlace
<1>2. chunks' = [chunks EXCEPT ![ch(index)] = [@ EXCEPT ![ce(index)] = obj[p][copied[p] + 1]]]
  BY DEF Copy
<1>3. chunks \in Seq([Cell -> Element \cup {Zero}]) /\ Len(chunks) \in Nat
  BY DEF ShardInv, TypeOK
<1>4. ch(i) \in DOMAIN chunks /\ ce(i) \in Cell
  <2>1. i \div ChunkCapacity \in Nat /\ i \div ChunkCapacity < Len(chunks)
        /\ i % ChunkCapacity \in 0 .. ChunkCapacity - 1
    BY <1>3, Sizes, Division, DivisionBound
  <2>2. DOMAIN chunks = 1 .. Len(chunks)
    BY <1>3
  <2> QED
    BY <1>3, <2>1, <2>2, Sizes DEF Cell
<1>5. ch(i) = ch(index) /\ ce(i) = ce(index) => i = index
  <2> SUFFICES ASSUME ch(i) = ch(index), ce(i) = ce(index) PROVE i = index
    OBVIOUS
  <2>0. ASSUME NEW n \in Nat
        PROVE  /\ n = ChunkCapacity * (n \div ChunkCapacity) + (n % ChunkCapacity)
               /\ n \div ChunkCapacity \in Nat /\ n % ChunkCapacity \in Nat
    <3>1. /\ n \div ChunkCapacity \in Nat /\ n % ChunkCapacity \in 0 .. ChunkCapacity - 1
          /\ n = ChunkCapacity * (n \div ChunkCapacity) + (n % ChunkCapacity)
      BY Sizes, Division
    <3>2. n % ChunkCapacity \in Nat
      <4>1. ChunkCapacity \in Nat
        BY Sizes
      <4>2. \A m \in 0 .. ChunkCapacity - 1 : m \in Nat
        BY <4>1
      <4> QED
        BY <3>1, <4>2
    <3> QED
      BY <3>1, <3>2
  <2> HIDE DEF index
  <2>1. i = ChunkCapacity * (i \div ChunkCapacity) + (i % ChunkCapacity)
        /\ i \div ChunkCapacity \in Nat /\ i % ChunkCapacity \in Nat
    BY <2>0
  <2>2. index = ChunkCapacity * (index \div ChunkCapacity) + (index % ChunkCapacity)
        /\ index \div ChunkCapacity \in Nat /\ index % ChunkCapacity \in Nat
    BY <1>1, <2>0
  <2>3. i \div ChunkCapacity = index \div ChunkCapacity /\ i % ChunkCapacity = index % ChunkCapacity
    BY <2>1, <2>2
  <2> QED
    BY <2>1, <2>2, <2>3
<1>6. /\ chunks[ch(i)] \in [Cell -> Element \cup {Zero}] /\ chunks[ch(index)] \in [Cell -> Element \cup {Zero}]
  BY <1>1, <1>3, <1>4
<1> HIDE DEF index, ch, ce
<1>7. chunks'[ch(i)][ce(i)] = IF i = index THEN obj[p][copied[p] + 1] ELSE chunks[ch(i)][ce(i)]
  <2>1. CASE ch(i) # ch(index)
    BY <1>1, <1>2, <1>4, <2>1
  <2>2. CASE ch(i) = ch(index)
    <3>1. chunks'[ch(i)] = [chunks[ch(index)] EXCEPT ![ce(index)] = obj[p][copied[p] + 1]]
      BY <1>1, <1>2, <2>2
    <3>2. i = index => ce(i) = ce(index)
      OBVIOUS
    <3> QED
      BY <1>1, <1>4, <1>5, <1>6, <2>2, <3>1, <3>2
  <2> QED
    BY <2>1, <2>2
<1> QED
  BY <1>1, <1>7 DEF ch, ce, Slot

(* A thread's elements go to the places it has found, and stay there.      *)
LEMMA PushingStep == ShardInv /\ [Next]_vars => Pushing'
<1> SUFFICES ASSUME ShardInv, [Next]_vars PROVE Pushing'
  OBVIOUS
<1> DEFINE Its(q) ==
      /\ pc[q] # "idle" =>
           \E n \in BatchLengths : obj[q] = [k \in 1 .. n |-> [by |-> q, nth |-> pushed[q] + k]]
      /\ pc[q] \in {"grow", "copy"} => start[q] = size
      /\ pc[q] = "grow" => copied[q] = 0
      /\ pc[q] = "copy" =>
           /\ Fits(q) /\ copied[q] <= Len(obj[q])
           /\ \A k \in 1 .. copied[q] : Slot(size + k - 1) = obj[q][k]
<1>0. /\ Pushing /\ Alone /\ Consolidating /\ Room /\ Nobody \notin Pusher
      /\ pc \in [Pusher -> {"idle", "lock", "grow", "copy"}]
      /\ obj \in [Pusher -> Seq(Element)] /\ start \in [Pusher -> Nat] /\ copied \in [Pusher -> Nat]
      /\ pushed \in [Pusher -> Nat] /\ size \in Nat
      /\ chunks \in Seq([Cell -> Element \cup {Zero}]) /\ Len(chunks) \in Nat
  BY ShardAssumption DEF ShardInv, TypeOK
<1>a. \A q \in Pusher : Its(q)
  BY <1>0 DEF Pushing
<1>1. CASE UNCHANGED vars
  <2>1. /\ pc' = pc /\ obj' = obj /\ start' = start /\ copied' = copied /\ pushed' = pushed
        /\ size' = size /\ chunks' = chunks
    BY <1>1 DEF vars, pushVars
  <2>2. ASSUME NEW q \in Pusher PROVE Its(q)'
    <3>1. Fits(q)' <=> Fits(q)
      BY <2>1 DEF Fits
    <3>2. \A i : Slot(i)' = Slot(i)
      BY <2>1 DEF Slot
    <3>3. pc'[q] # "idle" =>
            \E n \in BatchLengths : obj'[q] = [k \in 1 .. n |-> [by |-> q, nth |-> pushed'[q] + k]]
      <4>1. pc[q] # "idle" =>
              \E n \in BatchLengths : obj[q] = [k \in 1 .. n |-> [by |-> q, nth |-> pushed[q] + k]]
        BY <1>a
      <4> QED
        BY <2>1, <4>1
    <3>4. pc'[q] = "copy" => \A k \in 1 .. copied'[q] : Slot(size + k - 1)' = obj'[q][k]
      BY <1>a, <2>1, <3>2
    <3> QED
      BY <1>a, <2>1, <3>1, <3>3, <3>4
  <2> QED
    BY <2>2 DEF Pushing
<1>2. ASSUME NEW p \in Pusher, PushStep(p) \/ Lock(p) \/ GrowFails(p), NEW q \in Pusher PROVE Its(q)'
  <2>1. CASE q # p
    <3>1. /\ pc'[q] = pc[q] /\ obj'[q] = obj[q] /\ start'[q] = start[q] /\ copied'[q] = copied[q]
          /\ pushed'[q] = pushed[q]
      BY <1>0, <1>2, <2>1
         DEF PushStep, Call, Lock, Grow, GrowFails, Grown, Copy, Publish, pushVars, Goto
    <3>2. CASE pc[q] \in {"grow", "copy"}
      <4>1. holder = q /\ pc[p] \notin {"grow", "copy"}
        BY <1>0, <2>1, <3>2 DEF Alone
      <4>2. PICK n \in BatchLengths : Call(p, n)
        BY <1>0, <1>2, <4>1 DEF PushStep, Lock, Grow, GrowFails, Grown, Copy, Publish
      <4>3. UNCHANGED <<chunks, size>>
        BY <4>2 DEF Call
      <4> QED
        BY <1>a, <3>1, <4>3 DEF Fits, Slot
    <3>3. CASE pc[q] \notin {"grow", "copy"}
      BY <1>a, <3>1, <3>3
    <3> QED
      BY <3>2, <3>3
  <2>2. Its(p)'
    <3>1. ASSUME NEW n \in BatchLengths, Call(p, n) PROVE Its(p)'
      <4>1. /\ pc'[p] = "lock" /\ obj'[p] = [k \in 1 .. n |-> [by |-> p, nth |-> pushed[p] + k]]
            /\ pushed' = pushed
        BY <1>0, <3>1 DEF Call, Goto
      <4> QED
        BY <4>1
    <3>2. CASE Lock(p)
      <4>1. UNCHANGED <<obj, pushed, size>> /\ pc[p] = "lock"
        BY <3>2 DEF Lock
      <4>2. pc'[p] = "idle" \/ (pc'[p] = "grow" /\ start'[p] = size /\ copied'[p] = 0)
        BY <1>0, <3>2 DEF Lock, Goto
      <4> QED
        BY <1>a, <4>1, <4>2
    <3>3. CASE Grow(p) \/ GrowFails(p)
      <4>1. UNCHANGED <<pushVars, size>> /\ pc[p] = "grow"
        BY <3>3 DEF Grow, GrowFails
      <4> QED
        BY <1>a, <4>1 DEF pushVars
    <3>4. CASE Grown(p)
      <4>1. UNCHANGED <<chunks, size, obj, start, copied, pushed>> /\ pc[p] = "grow" /\ pc'[p] = "copy" /\ Fits(p)
        BY <1>0, <3>4 DEF Grown, Goto
      <4>2. copied[p] = 0 /\ Len(obj[p]) \in Nat
        BY <1>0, <1>a, <4>1
      <4> QED
        BY <1>a, <4>1, <4>2 DEF Fits
    <3>5. CASE Copy(p)
      <4>1. /\ UNCHANGED <<size, obj, start, pushed, pc>> /\ pc[p] = "copy"
            /\ copied'[p] = copied[p] + 1 /\ copied[p] < Len(obj[p])
        BY <1>0, <3>5 DEF Copy
      <4>2. start[p] = size /\ Fits(p) /\ Len(obj[p]) \in Nat
        BY <1>0, <1>a, <4>1
      <4>3. Len(chunks') = Len(chunks)
        BY <1>0, <3>5 DEF Copy
      <4>4. Fits(p)' /\ copied'[p] <= Len(obj'[p])
        BY <1>0, <4>1, <4>2, <4>3 DEF Fits
      <4>5. ASSUME NEW k \in 1 .. copied'[p] PROVE Slot(size + k - 1)' = obj[p][k]
        <5> DEFINE i == size + k - 1
        <5>0. k \in 1 .. copied[p] + 1 /\ copied[p] \in Nat /\ size \in Nat
          BY <1>0, <4>1
        <5>1. i \in Nat /\ i < size + Len(obj[p]) /\ (i = size + copied[p] <=> k = copied[p] + 1)
          BY <5>0, <4>1, <4>2
        <5>2. i < Len(chunks) * ChunkCapacity
          <6>1. size + Len(obj[p]) <= Len(chunks) * ChunkCapacity /\ Len(chunks) * ChunkCapacity \in Nat
            BY <1>0, <4>2, Sizes DEF Fits
          <6> QED
            BY <5>1, <6>1, <1>0, <4>2
        <5> HIDE DEF i
        <5>3. chunks'[(i \div ChunkCapacity) + 1][(i % ChunkCapacity) + 1]
                = IF i = size + copied[p] THEN obj[p][copied[p] + 1] ELSE Slot(i)
          BY <3>5, <5>1, <5>2, CopyEffect
        <5>4. k # copied[p] + 1 => Slot(i) = obj[p][k]
          <6>1. k # copied[p] + 1 => k \in 1 .. copied[p]
            BY <1>0, <4>1
          <6> QED
            BY <1>a, <4>1, <6>1 DEF i
        <5>5. Slot(i)' = obj[p][k]
          BY <4>1, <5>1, <5>3, <5>4 DEF Slot, i
        <5> QED
          BY <5>5, <4>1 DEF i
      <4>6. \E n \in BatchLengths : obj'[p] = [k \in 1 .. n |-> [by |-> p, nth |-> pushed'[p] + k]]
        BY <1>a, <4>1
      <4>7. start'[p] = size' /\ pc'[p] = "copy"
        BY <4>1, <4>2
      <4>8. \A k \in 1 .. copied'[p] : Slot(size + k - 1)' = obj'[p][k]
        BY <4>1, <4>5
      <4> QED
        BY <4>4, <4>6, <4>7, <4>8
    <3>6. CASE Publish(p)
      <4>1. pc'[p] = "idle"
        BY <1>0, <3>6 DEF Publish, Goto
      <4> QED
        BY <4>1
    <3> QED
      BY <1>2, <3>1, <3>2, <3>3, <3>4, <3>5, <3>6 DEF PushStep
  <2> QED
    BY <2>1, <2>2
<1>3. CASE ReadStep \/ RelocateFails
  <2>1. phase' # "pushing" /\ UNCHANGED pushVars
    BY <1>3 DEF ReadStep, Consolidate, Relocate, SetSize, Drop, RelocateFails, readVars
  <2>2. Consolidating'
    BY ConsolidatingStep
  <2>3. \A q \in Pusher : pc'[q] = "idle"
    BY <2>1, <2>2 DEF Consolidating
  <2> QED
    BY <2>3 DEF Pushing
<1>4. ASSUME NEW p \in Pusher, PushStep(p) \/ Lock(p) \/ GrowFails(p) PROVE Pushing'
  BY <1>2, <1>4 DEF Pushing
<1> QED
  BY <1>1, <1>3, <1>4, Steps DEF Step


(* An element of a sequence can be replaced by another of its type.        *)
LEMMA Replaced ==
  ASSUME NEW S, NEW q \in Seq(S), NEW i \in DOMAIN q, NEW v \in S
  PROVE  [q EXCEPT ![i] = v] \in Seq(S)
OBVIOUS

(* The types of all variables.                                             *)
LEMMA TypesStep == ShardInv /\ [Next]_vars => TypeOK'
<1> SUFFICES ASSUME ShardInv, [Next]_vars PROVE TypeOK'
  OBVIOUS
<1>0. TypeOK
  BY DEF ShardInv
<1>a. MaxPushes \in Nat /\ BatchLengths \subseteq Nat
  BY ShardAssumption
<1>1. CASE UNCHANGED vars
  BY <1>0, <1>1 DEF TypeOK, vars, pushVars, readVars
<1>2. ASSUME NEW p \in Pusher, PushStep(p) \/ Lock(p) \/ GrowFails(p) PROVE TypeOK'
  <2>0. /\ phase' \in {"pushing", "relocate", "read", "dropped"} /\ relocated' \in Nat
        /\ mapping' \in Seq(Element \cup {Zero, NoAccess}) /\ mapping_size' \in Nat
    BY <1>0, <1>2, PushPhase DEF TypeOK, readVars
  <2>1. ASSUME NEW n \in BatchLengths, Call(p, n) PROVE TypeOK'
    <3>1. [k \in 1 .. n |-> [by |-> p, nth |-> pushed[p] + k]] \in Seq(Element)
      <4>1. pushed[p] \in Nat /\ n \in Nat
        BY <1>0, <1>a DEF TypeOK
      <4>2. \A k \in 1 .. n : [by |-> p, nth |-> pushed[p] + k] \in Element
        BY <4>1 DEF Element
      <4> QED
        BY <4>1, <4>2
    <3>2. obj' \in [Pusher -> Seq(Element)]
      BY <1>0, <2>1, <3>1 DEF TypeOK, Call
    <3>3. pushes' \in [Pusher -> 0 .. MaxPushes]
      <4>1. pushes \in [Pusher -> 0 .. MaxPushes] /\ pushes[p] > 0 /\ pushes' = [pushes EXCEPT ![p] = @ - 1]
        BY <1>0, <2>1 DEF TypeOK, Call
      <4>2. pushes[p] - 1 \in 0 .. MaxPushes
        BY <1>a, <4>1
      <4> QED
        BY <4>1, <4>2
    <3>4. pc' \in [Pusher -> {"idle", "lock", "grow", "copy"}]
      BY <1>0, <2>1 DEF TypeOK, Call, Goto
    <3>5. UNCHANGED <<chunks, size, holder, start, copied, pushed, mapped, terminated>>
      BY <2>1 DEF Call
    <3> QED
      BY <1>0, <2>0, <3>2, <3>3, <3>4, <3>5 DEF TypeOK
  <2>2. CASE Lock(p)
    <3>1. /\ holder' \in Pusher \cup {Nobody} /\ pc' \in [Pusher -> {"idle", "lock", "grow", "copy"}]
          /\ start' \in [Pusher -> Nat] /\ copied' \in [Pusher -> Nat]
      <4>0. /\ holder \in Pusher \cup {Nobody} /\ pc \in [Pusher -> {"idle", "lock", "grow", "copy"}]
            /\ start \in [Pusher -> Nat] /\ copied \in [Pusher -> Nat] /\ size \in Nat
        BY <1>0 DEF TypeOK
      <4>1. CASE obj[p] = <<>>
        BY <2>2, <4>0, <4>1 DEF Lock, Goto
      <4>2. CASE obj[p] # <<>>
        BY <2>2, <4>0, <4>2 DEF Lock, Goto
      <4> QED
        BY <4>1, <4>2
    <3>2. UNCHANGED <<chunks, size, obj, pushed, pushes, mapped, terminated>>
      BY <2>2 DEF Lock
    <3> QED
      BY <1>0, <2>0, <3>1, <3>2 DEF TypeOK
  <2>3. CASE Grow(p)
    <3>1. [c \in Cell |-> Zero] \in [Cell -> Element \cup {Zero}]
      OBVIOUS
    <3>2. chunks' \in Seq([Cell -> Element \cup {Zero}])
      BY <1>0, <2>3, <3>1 DEF TypeOK, Grow
    <3>3. mapped' \in Nat
      BY <1>0, <2>3, Sizes DEF TypeOK, Grow
    <3> QED
      BY <1>0, <2>0, <2>3, <3>2, <3>3 DEF TypeOK, Grow, pushVars
  <2>4. CASE GrowFails(p)
    BY <1>0, <2>0, <2>4 DEF TypeOK, GrowFails, pushVars
  <2>5. CASE Grown(p)
    BY <1>0, <2>0, <2>5 DEF TypeOK, Grown, Goto
  <2>6. CASE Copy(p)
    <3> DEFINE index == start[p] + copied[p]
               chunk == (index \div ChunkCapacity) + 1
               cell == (index % ChunkCapacity) + 1
    <3>1. chunk \in DOMAIN chunks /\ obj[p][copied[p] + 1] \in Element
      BY <2>6, CopyPlace
    <3>2. chunks' = [chunks EXCEPT ![chunk] = [@ EXCEPT ![cell] = obj[p][copied[p] + 1]]]
      BY <2>6 DEF Copy
    <3> HIDE DEF index, chunk, cell
    <3>3. chunks[chunk] \in [Cell -> Element \cup {Zero}]
      BY <1>0, <3>1 DEF TypeOK
    <3>4. [chunks[chunk] EXCEPT ![cell] = obj[p][copied[p] + 1]] \in [Cell -> Element \cup {Zero}]
      BY <3>1, <3>3
    <3>5. chunks' \in Seq([Cell -> Element \cup {Zero}])
      <4>1. chunks \in Seq([Cell -> Element \cup {Zero}])
        BY <1>0 DEF TypeOK
      <4> QED
        BY <3>1, <3>2, <3>4, <4>1, Replaced
    <3>6. copied' \in [Pusher -> Nat]
      <4>1. copied' = [copied EXCEPT ![p] = @ + 1]
        BY <2>6 DEF Copy
      <4>2. copied \in [Pusher -> Nat]
        BY <1>0 DEF TypeOK
      <4> QED
        BY <4>1, <4>2
    <3>7. UNCHANGED <<size, holder, pc, obj, start, pushed, pushes, mapped, terminated>>
      BY <2>6 DEF Copy
    <3> QED
      BY <1>0, <2>0, <3>5, <3>6, <3>7 DEF TypeOK
  <2>7. CASE Publish(p)
    <3>1. Len(obj[p]) \in Nat /\ start[p] \in Nat /\ pushed[p] \in Nat
      BY <1>0 DEF TypeOK
    <3>2. size' \in Nat /\ pushed' \in [Pusher -> Nat]
      BY <1>0, <2>7, <3>1 DEF TypeOK, Publish
    <3> QED
      BY <1>0, <2>0, <2>7, <3>2 DEF TypeOK, Publish, Goto
  <2> QED
    BY <1>2, <2>1, <2>2, <2>3, <2>4, <2>5, <2>6, <2>7 DEF PushStep
<1>3. CASE Consolidate
  <2>1. Len(chunks) \in Nat
    BY <1>0 DEF TypeOK
  <2>2. Len(chunks) * ChunkCapacity \in Nat /\ Len(chunks) * ChunkBytes \in Nat
    BY <2>1, Sizes
  <2>3. mapping' \in Seq(Element \cup {Zero, NoAccess})
    BY <1>3, <2>2 DEF Consolidate
  <2>4. mapping_size' \in Nat /\ mapped' \in Nat
    BY <1>0, <1>3, <2>1, <2>2, Reservation DEF Consolidate, TypeOK
  <2> QED
    BY <1>0, <1>3, <2>3, <2>4 DEF TypeOK, Consolidate, pushVars
<1>4. CASE Relocate
  <2>0. /\ Len(chunks) \in Nat /\ relocated \in Nat /\ relocated < Len(chunks) /\ Len(mapping) = Len(chunks) * ChunkCapacity
        /\ mapping \in Seq(Element \cup {Zero, NoAccess}) /\ chunks \in Seq([Cell -> Element \cup {Zero}])
    BY <1>0, <1>4 DEF TypeOK, Relocate, ShardInv, Room
  <2>1. DOMAIN mapping = 1 .. Len(mapping) /\ Len(mapping) \in Nat
    BY <2>0
  <2>2. ASSUME NEW c \in DOMAIN mapping, (c - 1) \div ChunkCapacity = relocated
        PROVE  chunks[relocated + 1][((c - 1) % ChunkCapacity) + 1] \in Element \cup {Zero, NoAccess}
    <3>1. chunks[relocated + 1] \in [Cell -> Element \cup {Zero}]
      BY <2>0
    <3>2. c - 1 \in Nat
      BY <2>1
    <3>3. (c - 1) % ChunkCapacity \in 0 .. ChunkCapacity - 1
      BY <3>2, Sizes, Division
    <3>4. ((c - 1) % ChunkCapacity) + 1 \in Cell
      BY <3>3, Sizes DEF Cell
    <3> QED
      BY <3>1, <3>4
  <2>3. \A c \in DOMAIN mapping : mapping[c] \in Element \cup {Zero, NoAccess}
    BY <2>0
  <2>4. mapping' \in Seq(Element \cup {Zero, NoAccess})
    <3>1. mapping' \in [1 .. Len(mapping) -> Element \cup {Zero, NoAccess}]
      BY <1>4, <2>1, <2>2, <2>3 DEF Relocate
    <3> QED
      BY <2>1, <3>1
  <2>5. mapped' \in Nat
    <3>1. /\ mapped = Len(chunks) * ChunkBytes + Len(chunks) * ChunkBytes - relocated * ChunkBytes
          /\ mapped' = mapped - ChunkBytes /\ mapped \in Nat
      BY <1>0, <1>4 DEF Relocate, ShardInv, Memory, TypeOK
    <3>2. (relocated + 1) * ChunkBytes = relocated * ChunkBytes + ChunkBytes
      BY <2>0, OneMore
    <3>3. (relocated + 1) * ChunkBytes <= Len(chunks) * ChunkBytes /\ ChunkBytes \in Nat
      <4>1. relocated + 1 \in Nat /\ Len(chunks) \in Nat /\ relocated + 1 <= Len(chunks) /\ ChunkBytes \in Nat
        BY <2>0, Sizes
      <4> HIDE DEF ChunkBytes
      <4> QED
        BY <4>1
    <3>4. Len(chunks) * ChunkBytes \in Nat /\ relocated * ChunkBytes \in Nat
      BY <2>0, Sizes
    <3> HIDE DEF ChunkBytes
    <3> QED
      BY <3>1, <3>2, <3>3, <3>4
  <2> QED
    BY <1>0, <1>4, <2>4, <2>5 DEF TypeOK, Relocate, pushVars
<1>5. CASE SetSize
  <2>1. <<>> \in Seq([Cell -> Element \cup {Zero}])
    OBVIOUS
  <2> QED
    BY <1>0, <1>5, <2>1 DEF TypeOK, SetSize, pushVars
<1>6. CASE Drop
  <2>1. mapped' \in Nat
    BY <1>0, <1>6, WithinBound DEF Drop, TypeOK
  <2> QED
    BY <1>0, <1>6, <2>1 DEF TypeOK, Drop, pushVars
<1>7. CASE RelocateFails
  BY <1>0, <1>7 DEF TypeOK, RelocateFails, pushVars, readVars
<1> QED
  BY <1>1, <1>2, <1>3, <1>4, <1>5, <1>6, <1>7, Steps DEF Step, ReadStep

(* The parts together: the invariant is inductive.                         *)
LEMMA ShardInvStep == ShardInv /\ [Next]_vars => ShardInv'
BY TypesStep, AloneStep, PushingStep, RoomStep, ConsolidatingStep, MemoryStep DEF ShardInv


-----------------------------------------------------------------------------
(***************************************************************************)
(* The refinement of ShardLog.                                             *)
(***************************************************************************)

(* The element in place k of the log, counted from 1.                      *)
At(k) == IF (k - 1) \div ChunkCapacity < relocated THEN mapping[k] ELSE Slot(k - 1)

(* The contents are the elements at their places.                          *)
LEMMA ContentsAt == Contents = [k \in 1 .. size |-> At(k)]
BY DEF Contents, At, Slot

(* The contents stay when the size and the elements at all places do.      *)
LEMMA ContentsSame ==
  ASSUME size' = size, \A k \in 1 .. size : At(k)' = At(k)
  PROVE  Contents' = Contents
<1>1. Contents = [k \in 1 .. size |-> At(k)]
  BY ContentsAt
<1>2. Contents' = [k \in 1 .. size' |-> At(k)']
  BY DEF Contents, At, Slot
<1> QED
  BY <1>1, <1>2

(* Before the chunks are cleared each element of the log is in one of them,*)
(* or in the mapping.                                                      *)
LEMMA Place ==
  ASSUME ShardInv, NEW k \in 1 .. size
  PROVE  /\ k - 1 \in Nat /\ (k - 1) \div ChunkCapacity \in Nat
         /\ phase \in {"pushing", "relocate"} =>
              k - 1 < Len(chunks) * ChunkCapacity /\ (k - 1) \div ChunkCapacity < Len(chunks)
         /\ phase \in {"read", "dropped"} => (k - 1) \div ChunkCapacity < relocated
         /\ phase # "pushing" => k \in DOMAIN mapping
<1>1. /\ size \in Nat /\ Len(chunks) \in Nat /\ relocated \in Nat /\ Room /\ relocated \in Nat
      /\ phase \in {"pushing", "relocate", "read", "dropped"}
      /\ mapping \in Seq(Element \cup {Zero, NoAccess})
  BY DEF ShardInv, TypeOK
<1>2. k - 1 \in Nat /\ k - 1 < size
  BY <1>1
<1>3. Len(chunks) * ChunkCapacity \in Nat /\ relocated * ChunkCapacity \in Nat
  BY <1>1, Sizes
<1>4. (k - 1) \div ChunkCapacity \in Nat
  BY <1>2, Sizes, Division
<1> DEFINE i == k - 1
<1>5. ASSUME phase \in {"pushing", "relocate"} PROVE i < Len(chunks) * ChunkCapacity
  BY <1>1, <1>2, <1>3, <1>5 DEF Room
<1>6. ASSUME phase \in {"read", "dropped"} PROVE i < relocated * ChunkCapacity
  BY <1>1, <1>2, <1>3, <1>6 DEF Room
<1>7. \A n \in Nat : i < n * ChunkCapacity <=> i \div ChunkCapacity < n
  <2>1. i \in Nat /\ ChunkCapacity \in Nat \ {0}
    BY <1>2, Sizes
  <2> HIDE DEF i
  <2> QED
    BY <2>1, DivisionBound
<1>8. ASSUME phase # "pushing" PROVE k \in DOMAIN mapping
  <2>1. DOMAIN mapping = 1 .. Len(mapping) /\ Len(mapping) \in Nat
    BY <1>1
  <2>2. k \in Nat /\ 1 <= k /\ k <= size
    BY <1>1
  <2>3. size <= Len(mapping)
    BY <1>1, <1>8 DEF Room
  <2> QED
    BY <1>1, <2>1, <2>2, <2>3
<1> QED
  BY <1>1, <1>2, <1>4, <1>5, <1>6, <1>7, <1>8

(* A further chunk does not change the contents.                           *)
LEMMA GrowSame ==
  ASSUME ShardInv, NEW p \in Pusher, Grow(p)
  PROVE  Contents' = Contents
<1>1. /\ phase = "pushing" /\ UNCHANGED readVars /\ size' = size /\ relocated = 0
      /\ chunks' = Append(chunks, [c \in Cell |-> Zero]) /\ chunks \in Seq([Cell -> Element \cup {Zero}])
  BY PushPhase DEF PushStep, Grow, ShardInv, TypeOK
<1>2. ASSUME NEW k \in 1 .. size PROVE At(k)' = At(k)
  <2> DEFINE n == (k - 1) \div ChunkCapacity
  <2>1. n \in Nat /\ n < Len(chunks)
    BY <1>1, Place
  <2> HIDE DEF n
  <2>2. chunks'[n + 1] = chunks[n + 1]
    BY <1>1, <2>1
  <2> QED
    BY <1>1, <2>2 DEF At, Slot, n, readVars
<1> QED
  BY <1>1, <1>2, ContentsSame

(* Copying goes beyond the size, where the contents end.                   *)
LEMMA CopySame ==
  ASSUME ShardInv, NEW p \in Pusher, Copy(p)
  PROVE  Contents' = Contents
<1>1. /\ phase = "pushing" /\ UNCHANGED readVars /\ size' = size /\ relocated = 0
      /\ size \in Nat /\ copied[p] \in Nat
  BY PushPhase DEF PushStep, Copy, ShardInv, TypeOK
<1>2. ASSUME NEW k \in 1 .. size PROVE At(k)' = At(k)
  <2> DEFINE i == k - 1
  <2>1. i \in Nat /\ i < Len(chunks) * ChunkCapacity /\ i # size + copied[p] /\ ~(i \div ChunkCapacity < relocated)
    BY <1>1, Place
  <2>2. At(k) = Slot(i) /\ At(k)' = chunks'[(i \div ChunkCapacity) + 1][(i % ChunkCapacity) + 1]
    BY <1>1, <2>1 DEF At, Slot, readVars
  <2> HIDE DEF i
  <2> QED
    BY <2>1, <2>2, CopyEffect
<1> QED
  BY <1>1, <1>2, ContentsSame

(* Publishing makes the whole vector part of the log at once.              *)
LEMMA PublishPushes ==
  ASSUME ShardInv, NEW p \in Pusher, Publish(p)
  PROVE  Contents' = Contents \o obj[p]
<1>1. /\ phase = "pushing" /\ UNCHANGED readVars /\ relocated = 0
      /\ size \in Nat /\ obj[p] \in Seq(Element) /\ Len(obj[p]) \in Nat
      /\ chunks' = chunks /\ pc[p] = "copy" /\ copied[p] = Len(obj[p])
  BY PushPhase DEF PushStep, Publish, ShardInv, TypeOK
<1>2. start[p] = size /\ size' = size + Len(obj[p]) /\ \A k \in 1 .. Len(obj[p]) : Slot(size + k - 1) = obj[p][k]
  BY <1>1 DEF ShardInv, Pushing, Publish
<1>3. Contents = [k \in 1 .. size |-> At(k)]
  BY ContentsAt
<1>4. Contents' = [k \in 1 .. size + Len(obj[p]) |-> At(k)]
  BY <1>1, <1>2 DEF Contents, At, Slot, readVars
<1>5. ASSUME NEW j \in 1 .. Len(obj[p]) PROVE At(size + j) = obj[p][j]
  <2> DEFINE i == size + j - 1
  <2>1. i \in Nat
    BY <1>1
  <2>2. ~(i \div ChunkCapacity < 0)
    <3> HIDE DEF i
    <3>1. i \div ChunkCapacity \in Nat
      BY <2>1, Sizes, Division
    <3> QED
      BY <3>1
  <2>3. (size + j) - 1 = i
    BY <1>1
  <2> HIDE DEF i
  <2>4. At(size + j) = Slot(i)
    BY <1>1, <2>2, <2>3 DEF At
  <2> QED
    BY <1>2, <2>4 DEF i
<1>6. Len(Contents) = size
  BY <1>1, <1>3
<1> DEFINE s == Contents
           o == obj[p]
<1>7. s \o o = [k \in 1 .. Len(s) + Len(o) |-> IF k <= Len(s) THEN s[k] ELSE o[k - Len(s)]]
  <2>1. s = [k \in 1 .. size |-> s[k]]
    BY <1>3
  <2> HIDE DEF s, o
  <2> QED
    BY DEF s, o
<1>8. ASSUME NEW k \in 1 .. size + Len(o) PROVE At(k) = IF k <= size THEN s[k] ELSE o[k - size]
  <2>1. CASE k <= size
    <3>1. k \in 1 .. size
      BY <1>1, <2>1
    <3> QED
      BY <1>3, <2>1, <3>1
  <2>2. CASE ~(k <= size)
    <3>1. k - size \in 1 .. Len(o) /\ size + (k - size) = k
      BY <1>1, <2>2
    <3> QED
      BY <1>5, <2>2, <3>1
  <2> QED
    BY <2>1, <2>2
<1> QED
  BY <1>4, <1>6, <1>7, <1>8


(* Moving a chunk moves its elements to their places in the mapping.       *)
LEMMA RelocateSame ==
  ASSUME ShardInv, Relocate
  PROVE  Contents' = Contents
<1>1. /\ phase = "relocate" /\ chunks' = chunks /\ size' = size /\ relocated' = relocated + 1
      /\ relocated \in Nat
      /\ mapping' = [c \in DOMAIN mapping |->
                       IF (c - 1) \div ChunkCapacity = relocated
                       THEN chunks[relocated + 1][((c - 1) % ChunkCapacity) + 1]
                       ELSE mapping[c]]
  BY DEF Relocate, ShardInv, TypeOK
<1>2. ASSUME NEW k \in 1 .. size PROVE At(k)' = At(k)
  <2> DEFINE n == (k - 1) \div ChunkCapacity
  <2>1. n \in Nat /\ k \in DOMAIN mapping
    BY <1>1, Place
  <2>2. mapping'[k] = IF n = relocated THEN chunks[relocated + 1][((k - 1) % ChunkCapacity) + 1] ELSE mapping[k]
    BY <1>1, <2>1
  <2>3. At(k)' = IF n < relocated + 1 THEN mapping'[k] ELSE chunks[n + 1][((k - 1) % ChunkCapacity) + 1]
    BY <1>1 DEF At, Slot
  <2>4. At(k) = IF n < relocated THEN mapping[k] ELSE chunks[n + 1][((k - 1) % ChunkCapacity) + 1]
    BY DEF At, Slot
  <2> HIDE DEF n
  <2> QED
    BY <1>1, <2>1, <2>2, <2>3, <2>4
<1> QED
  BY <1>1, <1>2, ContentsSame

(* Reserving the mapping moves nothing; once the chunks are cleared all    *)
(* elements are in it.                                                     *)
LEMMA ConsolidateSame ==
  ASSUME ShardInv, Consolidate
  PROVE  Contents' = Contents
<1>1. chunks' = chunks /\ size' = size /\ relocated' = 0 /\ relocated = 0 /\ phase = "pushing"
  BY DEF Consolidate, ShardInv, Consolidating
<1>2. ASSUME NEW k \in 1 .. size PROVE At(k)' = At(k)
  <2>1. ~((k - 1) \div ChunkCapacity < 0)
    BY Place
  <2> QED
    BY <1>1, <2>1 DEF At, Slot
<1> QED
  BY <1>1, <1>2, ContentsSame

(* When all chunks are moved the mapping shows the contents.               *)
LEMMA SetSizeShows ==
  ASSUME ShardInv, SetSize
  PROVE  Contents' = Contents /\ View' = Contents
<1>1. /\ phase = "relocate" /\ relocated = Len(chunks) /\ phase' = "read" /\ mapping_size' = size
      /\ UNCHANGED <<size, relocated, mapping>>
  BY DEF SetSize
<1>2. ASSUME NEW k \in 1 .. size PROVE At(k) = mapping[k] /\ At(k)' = mapping[k]
  <2>1. (k - 1) \div ChunkCapacity < relocated
    BY <1>1, Place
  <2> QED
    BY <1>1, <2>1 DEF At
<1>3. Contents' = Contents
  BY <1>1, <1>2, ContentsSame
<1>4. View' = [k \in 1 .. size |-> mapping[k]]
  BY <1>1 DEF View
<1>5. Contents = [k \in 1 .. size |-> mapping[k]]
  BY <1>2, ContentsAt
<1> QED
  BY <1>3, <1>4, <1>5

(* An empty shard is an empty log.                                         *)
LEMMA InitRefines == Init => Log!Init
<1> SUFFICES ASSUME Init PROVE Log!Init
  OBVIOUS
<1>1. size = 0 /\ phase = "pushing" /\ pushed = [p \in Pusher |-> 0]
  BY DEF Init
<1>2. Contents = <<>>
  BY <1>1, ContentsAt
<1>3. View = <<>>
  BY <1>1 DEF View
<1> QED
  BY <1>1, <1>2, <1>3 DEF Log!Init

(* Every step is a Push, the Consolidate or a stutter of the log.          *)
LEMMA StepRefines == ShardInv /\ [Next]_vars => [Log!Next]_(Log!vars)
<1> SUFFICES ASSUME ShardInv, [Next]_vars PROVE [Log!Next]_(Log!vars)
  OBVIOUS
<1>a. ASSUME Contents' = Contents, View' = View, pushed' = pushed PROVE [Log!Next]_(Log!vars)
  BY <1>a DEF Log!vars
<1>b. ASSUME UNCHANGED <<chunks, size, mapping, relocated>> PROVE Contents' = Contents
  BY <1>b DEF Contents
<1>c. ASSUME UNCHANGED readVars PROVE View' = View
  BY <1>c DEF View, readVars
<1>1. CASE UNCHANGED vars
  BY <1>1, <1>a, <1>b, <1>c DEF vars, readVars, pushVars
<1>2. ASSUME NEW p \in Pusher, PushStep(p) \/ Lock(p) \/ GrowFails(p) PROVE [Log!Next]_(Log!vars)
  <2>1. UNCHANGED readVars /\ phase = "pushing" /\ View' = View /\ View = <<>>
    BY <1>2, <1>c, PushPhase DEF View
  <2>2. CASE Grow(p)
    BY <2>1, <2>2, <1>a, GrowSame DEF Grow, pushVars
  <2>3. CASE Copy(p)
    BY <2>1, <2>3, <1>a, CopySame DEF Copy
  <2>4. CASE Publish(p)
    <3>1. PICK n \in BatchLengths : obj[p] = [k \in 1 .. n |-> [by |-> p, nth |-> pushed[p] + k]]
      BY <2>4 DEF ShardInv, Pushing, Publish
    <3>2. Len(obj[p]) = n
      BY <3>1, ShardAssumption
    <3>3. Contents' = Contents \o obj[p] /\ pushed' = [pushed EXCEPT ![p] = @ + n]
      BY <2>4, <3>2, PublishPushes DEF Publish
    <3>4. Log!Push(p, n)
      BY <2>1, <3>1, <3>3 DEF Log!Push, Log!Batch
    <3> QED
      BY <3>4 DEF Log!Next
  <2>5. CASE ~Grow(p) /\ ~Copy(p) /\ ~Publish(p)
    <3>1. UNCHANGED <<chunks, size, pushed>>
      BY <1>2, <2>5 DEF PushStep, Call, Lock, GrowFails, Grown, pushVars
    <3> QED
      BY <1>a, <1>b, <2>1, <3>1 DEF readVars
  <2> QED
    BY <2>2, <2>3, <2>4, <2>5
<1>3. CASE Consolidate
  BY <1>3, <1>a, ConsolidateSame DEF Consolidate, View, pushVars
<1>4. CASE Relocate
  BY <1>4, <1>a, RelocateSame DEF Relocate, View, pushVars
<1>5. CASE SetSize
  <2>1. Log!Consolidate
    BY <1>5, SetSizeShows DEF Log!Consolidate, SetSize, pushVars
  <2> QED
    BY <2>1 DEF Log!Next
<1>6. CASE Drop
  BY <1>6, <1>a, <1>b DEF Drop, View, pushVars
<1>7. CASE RelocateFails
  BY <1>7, <1>a, <1>b, <1>c DEF RelocateFails, readVars, pushVars
<1> QED
  BY <1>1, <1>2, <1>3, <1>4, <1>5, <1>6, <1>7, Steps DEF Step, ReadStep

-----------------------------------------------------------------------------
(***************************************************************************)
(* Theorems.                                                               *)
(***************************************************************************)

(* The inductive invariant holds throughout.                               *)
THEOREM ShardInvariant == Spec => []ShardInv
<1>1. Init => ShardInv
  BY ShardInvInit
<1>2. ShardInv /\ [Next]_vars => ShardInv'
  BY ShardInvStep
<1> QED
  BY <1>1, <1>2, PTL DEF Spec

(* Every variable keeps its type; in particular the bytes a shard has      *)
(* mapped never fall below zero.                                           *)
THEOREM ShardTypeOK == Spec => []TypeOK
<1>1. ShardInv => TypeOK
  BY DEF ShardInv
<1> QED
  BY <1>1, ShardInvariant, PTL

(* Whatever the sizes of elements, chunks and pages, what consolidate      *)
(* returns lies within its mapping, and dropping it unmaps only that.      *)
THEOREM ReturnedWithinMapping == Spec => []WithinMapping
<1>1. ShardInv => WithinMapping
  BY WithinBound DEF WithinMapping
<1> QED
  BY <1>1, ShardInvariant, PTL

(* A Shard is a log: pushes of any number of threads take effect one after *)
(* the other, each at once, and consolidate hands out all of them in order.*)
THEOREM ShardImplementsLog == Spec => ImplementsLog
<1>1. Init => Log!Init
  BY InitRefines
<1>2. ShardInv /\ [Next]_vars => [Log!Next]_(Log!vars)
  BY StepRefines
<1> QED
  BY <1>1, <1>2, ShardInvariant, PTL DEF Spec, ImplementsLog, Log!Spec
=============================================================================
