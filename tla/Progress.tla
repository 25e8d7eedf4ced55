------------------------------ MODULE Progress ------------------------------
(***************************************************************************)
(* The progress bars of the builder, as a record: every method holds the   *)
(* bar's mutex from its first line to its last, so that a call is a        *)
(* function from bar to bar.  What render() draws is the number it is      *)
(* given.                                                                  *)
(***************************************************************************)
EXTENDS Naturals

CONSTANT Renders   \* how often a bar is drawn at most, more or less: 1000

ASSUME ProgressAssumption == Renders \in Nat \ {0}

Smaller(m, n) == IF m <= n THEN m ELSE n
Larger(m, n)  == IF m <= n THEN n ELSE m

NewBar(total) ==
  [total |-> total, quantum |-> Larger(total \div Renders, 1),
   next |-> 0, last |-> 0, done |-> 0, shown |-> 0]

(* add(offset), which draws the bar only if it has grown by a quantum or   *)
(* has come to its end.                                                    *)
Add(bar, offset) ==
  LET done == Smaller(bar.done + offset, bar.total)
  IN IF done <= bar.last \/ (done < bar.next /\ done < bar.total)
     THEN [bar EXCEPT !.done = done]
     ELSE [bar EXCEPT !.done = done, !.last = done, !.shown = done,
                      !.next = Smaller(bar.total, done + bar.quantum)]

(* finish() draws the bar full unless the last drawing has done so.        *)
FinishBar(bar) == [bar EXCEPT !.shown = IF bar.last # bar.total THEN bar.total ELSE @]
=============================================================================
