------------------------------ MODULE LineScan ------------------------------
(***************************************************************************)
(* The first steps of TrigramBuilder::build: compute_line_boundaries,      *)
(* get_longest_line and create_offsets_file.  They find the lines of       *)
(* content.bin.new, how long the longest one is, and write offsets.bin.new,*)
(* from which a query takes the bytes of a line to verify it.              *)
(*                                                                         *)
(* The code counts bytes, boundaries and lines from 0; a sequence here has *)
(* the element with index i of the code at i + 1.  Sizes are unsigned      *)
(* numbers below SizeMod, so that -1 is the largest of them.               *)
(***************************************************************************)
EXTENDS Integers, Sequences

CONSTANTS
  Byte,       \* the bytes of a text
  Newline,    \* '\n'
  Contents,   \* the texts
  SizeMod     \* 2^64: the range of uint64_t and size_t

ASSUME LineScanAssumption ==
  /\ Newline \in Byte
  /\ SizeMod \in Nat \ {0}
  /\ Contents \subseteq Seq(Byte) \ {<<>>}  \* an empty file cannot be mapped
  /\ \A c \in Contents : Len(c) + 1 < SizeMod

VARIABLES
  content,          \* content.bin.new
  phase,            \* the function that runs
  i,                \* its loop variable
  line_boundaries,  \* -1, the positions of the newlines, the size
  longest_line,     \* get_longest_line's result
  offsets           \* offsets.bin.new

vars == <<content, phase, i, line_boundaries, longest_line, offsets>>

Size == 0 .. SizeMod - 1

Sub(a, b)  == (a - b) % SizeMod
Larger(a, b) == IF a >= b THEN a ELSE b

NumBoundaries == Len(line_boundaries)
Boundary(k)   == line_boundaries[k + 1]

Init ==
  /\ content \in Contents
  /\ phase = "scan" /\ i = 0
  /\ line_boundaries = << Sub(0, 1) >>
  /\ longest_line = 0
  /\ offsets = <<>>

-----------------------------------------------------------------------------
(* Faulty variants of steps below, to show that the properties can fail.   *)
(* They are no part of Next.                                               *)

(* The differences are signed.                                             *)
MeasureSigned ==
  /\ phase = "longest" /\ i + 1 < NumBoundaries
  /\ longest_line' = Larger(longest_line, Boundary(i + 1) - Boundary(i)) - 1
  /\ i' = i + 1
  /\ UNCHANGED <<content, phase, line_boundaries, offsets>>

(* The loop of create_offsets_file leaves out one boundary too many.       *)
MeasureEndSkipping ==
  /\ phase = "longest" /\ i + 1 >= NumBoundaries
  /\ offsets' = [k \in 1 .. NumBoundaries |-> 0]
  /\ phase' = "offsets" /\ i' = 2
  /\ UNCHANGED <<content, line_boundaries, longest_line>>

-----------------------------------------------------------------------------
(* compute_line_boundaries.                                                *)

ScanByte ==
  /\ phase = "scan" /\ i < Len(content)
  /\ line_boundaries' = IF content[i + 1] = Newline THEN Append(line_boundaries, i)
                                                    ELSE line_boundaries
  /\ i' = i + 1
  /\ UNCHANGED <<content, phase, longest_line, offsets>>

ScanEnd ==
  /\ phase = "scan" /\ i = Len(content)
  /\ line_boundaries' = Append(line_boundaries, Len(content))
  /\ phase' = "longest" /\ i' = 0
  /\ UNCHANGED <<content, longest_line, offsets>>

(* get_longest_line: the 1 is taken off the maximum, in every round.       *)
MeasureLine ==
  /\ phase = "longest" /\ i + 1 < NumBoundaries
  /\ longest_line' = Sub(Larger(longest_line, Sub(Boundary(i + 1), Boundary(i))), 1)
  /\ i' = i + 1
  /\ UNCHANGED <<content, phase, line_boundaries, offsets>>

(* create_offsets_file begins with a file of zeros.                        *)
MeasureEnd ==
  /\ phase = "longest" /\ i + 1 >= NumBoundaries
  /\ offsets' = [k \in 1 .. NumBoundaries |-> 0]
  /\ phase' = "offsets" /\ i' = 1
  /\ UNCHANGED <<content, line_boundaries, longest_line>>

WriteOffset ==
  /\ phase = "offsets" /\ i < NumBoundaries
  /\ offsets' = [offsets EXCEPT ![i + 1] = Boundary(i)]
  /\ i' = i + 1
  /\ UNCHANGED <<content, phase, line_boundaries, longest_line>>

OffsetsEnd ==
  /\ phase = "offsets" /\ i >= NumBoundaries
  /\ offsets' = [offsets EXCEPT ![1] = 0]
  /\ phase' = "done"
  /\ UNCHANGED <<content, i, line_boundaries, longest_line>>

Next == ScanByte \/ ScanEnd \/ MeasureLine \/ MeasureEnd \/ WriteOffset \/ OffsetsEnd

Spec == Init /\ [][Next]_vars

-----------------------------------------------------------------------------
(***************************************************************************)
(* Properties.                                                             *)
(***************************************************************************)

(* The type of every variable.  The unsigned subtractions of               *)
(* get_longest_line, the first of which has -1 on its right, do not wrap.  *)
TypeOK ==
  /\ content \in Contents
  /\ phase \in {"scan", "longest", "offsets", "done"}
  /\ i \in 0 .. Len(content) + 2
  /\ line_boundaries \in Seq(Size)
  /\ longest_line \in 0 .. Len(content)
  /\ offsets \in Seq(Size)

NumLines == NumBoundaries - 1

(* The bytes from position a up to, not including, position b.             *)
Bytes(a, b) == SubSeq(content, a + 1, b)

(* Line k as create_shards takes it, and as query() reads it.              *)
Line(k)       == Bytes((Boundary(k) + 1) % SizeMod, Boundary(k + 1))
VerifyRange(k) == Bytes(offsets[k + 1], offsets[k + 2])

(***************************************************************************)
(* The scan finds the newlines: past it, the boundaries after the first,   *)
(* up to the last, are their positions in ascending order, and the last is *)
(* the size.                                                               *)
(***************************************************************************)
BoundariesExact ==
  phase # "scan" =>
    /\ Boundary(NumLines) = Len(content)
    /\ \A p \in 0 .. Len(content) - 1 :
         content[p + 1] = Newline <=> \E k \in 1 .. NumLines - 1 : Boundary(k) = p
    /\ \A k \in 1 .. NumLines - 1 : Boundary(k) < Boundary(k + 1)

(***************************************************************************)
(* The boundaries that create_shards indexes the lines by and the offsets  *)
(* that a query verifies them by agree: the range of line k is the line,   *)
(* with the newline before it, which no query can match across.  So what   *)
(* is found in the range is found in the line, and the other way round.    *)
(***************************************************************************)
RangesAreLines ==
  phase = "done" =>
    /\ Len(offsets) = NumLines + 1
    /\ \A k \in 0 .. NumLines - 1 :
         /\ VerifyRange(k) = IF k = 0 THEN Line(k) ELSE <<Newline>> \o Line(k)
         /\ \A n \in DOMAIN Line(k) : Line(k)[n] # Newline

(***************************************************************************)
(* The lines of a text, for the builder and for a query.                   *)
(***************************************************************************)
LinesFound == BoundariesExact /\ RangesAreLines
=============================================================================
