-------------------------------- MODULE Shard --------------------------------
(***************************************************************************)
(* Shard and the Mapping it is made of: an append-only array in chunks of  *)
(* anonymous memory.  The threads of create_shards push vectors into it,   *)
(* one at a time under grow_mutex; once they have all been joined, one     *)
(* thread of process_shards consolidates the chunks into one contiguous    *)
(* mapping with mremap, reads it and drops it.                             *)
(*                                                                         *)
(* Memory is counted in bytes, the contents in elements.  A Mapping is     *)
(* created with its size in bytes; set_size replaces that by the number of *)
(* elements, which begin() .. end() needs and which ~Mapping hands to      *)
(* munmap as if it were bytes.                                             *)
(***************************************************************************)
EXTENDS Integers, Sequences, SequencesExt

CONSTANTS
  Pusher,         \* the threads of create_shards
  BatchLengths,   \* the lengths of the vectors they push
  MaxPushes,      \* pushes of each thread (bound of the instance)
  ChunkCapacity,  \* CHUNK_CAPACITY: 2^21 elements
  ElementSize,    \* sizeof(ShardIndexPair): 8 bytes
  PageSize,       \* what munmap rounds to: 0x1000 bytes
  Nobody,         \* no thread
  Zero,           \* a cell of fresh anonymous memory
  NoAccess        \* a cell of the PROT_NONE mapping

ASSUME ShardAssumption ==
  /\ BatchLengths \subseteq Nat
  /\ MaxPushes \in Nat
  /\ Nobody \notin Pusher
  /\ {ChunkCapacity, ElementSize, PageSize} \subseteq Nat \ {0}
  /\ (ChunkCapacity * ElementSize) % PageSize = 0   \* 16 MiB is whole pages

VARIABLES
  chunks,       \* the chunks: each a function from 1 .. ChunkCapacity
  size,         \* _size
  holder,       \* the thread inside grow_mutex, or Nobody
  pc,           \* program counter of each pusher
  obj,          \* the vector it pushes
  start,        \* its start
  copied,       \* its i: how many elements it has copied
  pushed,       \* how many elements it has pushed
  pushes,       \* how many pushes it has left
  phase,        \* where consolidate() and the use of its result have got to
  relocated,    \* how many chunks consolidate has moved
  mapping,      \* the cells of the consolidated mapping
  mapping_size, \* its _size
  mapped,       \* the bytes this shard has mapped
  terminated    \* an exception left a thread: std::terminate

pushVars == <<holder, pc, obj, start, copied, pushed, pushes>>
readVars == <<phase, relocated, mapping, mapping_size>>
vars == <<chunks, size, pushVars, readVars, mapped, terminated>>

ChunkBytes == ChunkCapacity * ElementSize
Cell       == 1 .. ChunkCapacity

RoundUp(value, multiple) == ((value + multiple - 1) \div multiple) * multiple

Goto(p, label) == pc' = [pc EXCEPT ![p] = label]

Init ==
  /\ chunks = <<>> /\ size = 0 /\ holder = Nobody
  /\ pc = [p \in Pusher |-> "idle"]
  /\ obj = [p \in Pusher |-> <<>>]
  /\ start = [p \in Pusher |-> 0]
  /\ copied = [p \in Pusher |-> 0]
  /\ pushed = [p \in Pusher |-> 0]
  /\ pushes = [p \in Pusher |-> MaxPushes]
  /\ phase = "pushing" /\ relocated = 0
  /\ mapping = <<>> /\ mapping_size = 0
  /\ mapped = 0
  /\ terminated = FALSE

-----------------------------------------------------------------------------
(* Faulty variants of steps below, to show that the properties can fail.   *)
(* They are no part of Next.                                               *)

(* push() without its lock_guard.                                          *)
LockNothing(p) ==
  /\ pc[p] = "lock"
  /\ IF obj[p] = <<>>
     THEN Goto(p, "idle") /\ UNCHANGED <<holder, start, copied>>
     ELSE /\ holder' = p
          /\ start' = [start EXCEPT ![p] = size]
          /\ copied' = [copied EXCEPT ![p] = 0]
          /\ Goto(p, "grow")
  /\ UNCHANGED <<chunks, size, obj, pushed, pushes, readVars, mapped, terminated>>

(* The chunks that are cleared unmap what mremap has moved away.           *)
SetSizeUnmapping ==
  /\ phase = "relocate" /\ relocated = Len(chunks)
  /\ chunks' = <<>>
  /\ mapping_size' = size
  /\ mapped' = mapped - Len(chunks) * ChunkBytes
  /\ phase' = "read"
  /\ UNCHANGED <<size, pushVars, relocated, mapping, terminated>>

(* The mapping is returned with its size in bytes.                         *)
SetSizeForgotten ==
  /\ phase = "relocate" /\ relocated = Len(chunks)
  /\ chunks' = <<>>
  /\ phase' = "read"
  /\ UNCHANGED <<size, pushVars, relocated, mapping, mapping_size, mapped, terminated>>

-----------------------------------------------------------------------------
(* push().                                                                 *)

Call(p, n) ==
  /\ pc[p] = "idle" /\ pushes[p] > 0
  /\ obj' = [obj EXCEPT ![p] = [k \in 1 .. n |-> [by |-> p, nth |-> pushed[p] + k]]]
  /\ pushes' = [pushes EXCEPT ![p] = @ - 1]
  /\ Goto(p, "lock")
  /\ UNCHANGED <<chunks, size, holder, start, copied, pushed, readVars, mapped, terminated>>

(* Takes grow_mutex; an empty vector returns at once, which releases it.   *)
Lock(p) ==
  /\ pc[p] = "lock" /\ holder = Nobody
  /\ IF obj[p] = <<>>
     THEN Goto(p, "idle") /\ UNCHANGED <<holder, start, copied>>
     ELSE /\ holder' = p
          /\ start' = [start EXCEPT ![p] = size]
          /\ copied' = [copied EXCEPT ![p] = 0]
          /\ Goto(p, "grow")
  /\ UNCHANGED <<chunks, size, obj, pushed, pushes, readVars, mapped, terminated>>

Fits(p) == start[p] + Len(obj[p]) <= Len(chunks) * ChunkCapacity

Grow(p) ==
  /\ pc[p] = "grow" /\ ~Fits(p)
  /\ chunks' = Append(chunks, [c \in Cell |-> Zero])
  /\ mapped' = mapped + ChunkBytes
  /\ UNCHANGED <<size, pushVars, readVars, terminated>>

(* mmap or madvise fails: the exception leaves the thread.                 *)
GrowFails(p) ==
  /\ pc[p] = "grow" /\ ~Fits(p)
  /\ terminated' = TRUE
  /\ UNCHANGED <<chunks, size, pushVars, readVars, mapped>>

Grown(p) ==
  /\ pc[p] = "grow" /\ Fits(p)
  /\ Goto(p, "copy")
  /\ UNCHANGED <<chunks, size, holder, obj, start, copied, pushed, pushes, readVars,
                 mapped, terminated>>

Copy(p) ==
  /\ pc[p] = "copy" /\ copied[p] < Len(obj[p])
  /\ LET index == start[p] + copied[p]
         chunk == (index \div ChunkCapacity) + 1
         cell  == (index % ChunkCapacity) + 1
     IN  chunks' = [chunks EXCEPT ![chunk] = [@ EXCEPT ![cell] = obj[p][copied[p] + 1]]]
  /\ copied' = [copied EXCEPT ![p] = @ + 1]
  /\ UNCHANGED <<size, holder, pc, obj, start, pushed, pushes, readVars, mapped, terminated>>

(* _size = required_size, and the lock goes out of scope.                  *)
Publish(p) ==
  /\ pc[p] = "copy" /\ copied[p] = Len(obj[p])
  /\ size' = start[p] + Len(obj[p])
  /\ pushed' = [pushed EXCEPT ![p] = @ + Len(obj[p])]
  /\ holder' = Nobody
  /\ Goto(p, "idle")
  /\ UNCHANGED <<chunks, obj, start, copied, pushes, readVars, mapped, terminated>>

-----------------------------------------------------------------------------
(* consolidate(), called when create_shards has joined its threads, for a  *)
(* shard that is not empty; and the end of the Mapping it returns.         *)

Consolidate ==
  /\ phase = "pushing" /\ size # 0
  /\ \A p \in Pusher : pc[p] = "idle" /\ pushes[p] = 0
  /\ phase' = "relocate" /\ relocated' = 0
  /\ mapping' = [c \in 1 .. Len(chunks) * ChunkCapacity |-> NoAccess]
  /\ mapping_size' = RoundUp(Len(chunks) * ChunkBytes, PageSize)
  /\ mapped' = mapped + RoundUp(Len(chunks) * ChunkBytes, PageSize)
  /\ UNCHANGED <<chunks, size, pushVars, terminated>>

(* mremap moves a chunk over its place in the mapping.                     *)
Relocate ==
  /\ phase = "relocate" /\ relocated < Len(chunks)
  /\ mapping' = [c \in DOMAIN mapping |->
                   IF (c - 1) \div ChunkCapacity = relocated
                   THEN chunks[relocated + 1][((c - 1) % ChunkCapacity) + 1]
                   ELSE mapping[c]]
  /\ relocated' = relocated + 1
  /\ mapped' = mapped - ChunkBytes
  /\ UNCHANGED <<chunks, size, pushVars, phase, mapping_size, terminated>>

RelocateFails ==
  /\ phase = "relocate" /\ relocated < Len(chunks)
  /\ terminated' = TRUE
  /\ UNCHANGED <<chunks, size, pushVars, readVars, mapped>>

(* chunks.clear() and set_size(this->size()).                              *)
SetSize ==
  /\ phase = "relocate" /\ relocated = Len(chunks)
  /\ chunks' = <<>>
  /\ mapping_size' = size
  /\ phase' = "read"
  /\ UNCHANGED <<size, pushVars, relocated, mapping, mapped, terminated>>

(* ~Mapping: munmap(ptr, _size), which the kernel rounds up to pages.      *)
Unmapped == RoundUp(mapping_size, PageSize)

Drop ==
  /\ phase = "read"
  /\ mapped' = mapped - Unmapped
  /\ phase' = "dropped"
  /\ UNCHANGED <<chunks, size, pushVars, relocated, mapping, mapping_size, terminated>>

PushStep(p) == (\E n \in BatchLengths : Call(p, n))
               \/ Grow(p) \/ Grown(p) \/ Copy(p) \/ Publish(p)
ReadStep == Consolidate \/ Relocate \/ SetSize \/ Drop

Stopped ==
  /\ \/ terminated
     \/ phase = "dropped"
     \/ phase = "pushing" /\ size = 0 /\ \A p \in Pusher : pc[p] = "idle" /\ pushes[p] = 0
  /\ UNCHANGED vars

Next ==
  \/ /\ ~terminated
     /\ \/ \E p \in Pusher : PushStep(p) \/ Lock(p) \/ GrowFails(p)
        \/ ReadStep \/ RelocateFails
  \/ Stopped

Spec == Init /\ [][Next]_vars

-----------------------------------------------------------------------------
(***************************************************************************)
(* Properties.                                                             *)
(***************************************************************************)

Element == [by : Pusher, nth : Nat \ {0}]

(* The type of every variable.                                             *)
TypeOK ==
  /\ chunks \in Seq([Cell -> Element \cup {Zero}])
  /\ size \in Nat
  /\ holder \in Pusher \cup {Nobody}
  /\ pc \in [Pusher -> {"idle", "lock", "grow", "copy"}]
  /\ obj \in [Pusher -> Seq(Element)]
  /\ start \in [Pusher -> Nat]
  /\ copied \in [Pusher -> Nat]
  /\ pushed \in [Pusher -> Nat]
  /\ pushes \in [Pusher -> 0 .. MaxPushes]
  /\ phase \in {"pushing", "relocate", "read", "dropped"}
  /\ relocated \in Nat
  /\ mapping \in Seq(Element \cup {Zero, NoAccess})
  /\ mapping_size \in Nat
  /\ mapped \in Nat
  /\ terminated \in BOOLEAN

(* The first _size elements, wherever their chunks are.                    *)
Contents ==
  [k \in 1 .. size |->
     LET c == (k - 1) \div ChunkCapacity
     IN  IF c < relocated THEN mapping[k]
         ELSE chunks[c + 1][((k - 1) % ChunkCapacity) + 1]]

(* What process_shards iterates over: begin() .. end().                    *)
View ==
  IF phase \in {"read", "dropped"} THEN [k \in 1 .. mapping_size |-> mapping[k]] ELSE <<>>

(***************************************************************************)
(* The shard is the log of ShardLog: pushes of any number of threads take  *)
(* effect one after the other, none overwrites another's elements or shows *)
(* half done, whatever the vectors' lengths are to the chunks', and        *)
(* consolidate hands out all of them in order.                             *)
(***************************************************************************)
Log == INSTANCE ShardLog WITH log <- Contents, view <- View
ImplementsLog == Log!Spec

(***************************************************************************)
(* No element of the returned mapping lies beyond the memory behind it,    *)
(* and dropping it unmaps nothing but its own pages: the number of elements*)
(* that set_size leaves in _size is never more than the bytes mapped.      *)
(***************************************************************************)
WithinMapping ==
  phase = "read" => mapping_size <= Len(mapping) /\ Unmapped <= mapped
=============================================================================
