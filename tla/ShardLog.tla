------------------------------ MODULE ShardLog ------------------------------
(***************************************************************************)
(* What a Shard promises: a log.  push appends all of its elements at once *)
(* at the end; consolidate, when the pushing is over, hands out the whole  *)
(* log.  Chunks, locks and mappings do not show.  An element is known by   *)
(* the thread that pushed it and its number among that thread's.           *)
(***************************************************************************)
EXTENDS Integers, Sequences

CONSTANTS
  Pusher,        \* the threads that push
  BatchLengths   \* the lengths of the vectors they push

VARIABLES
  log,       \* the elements in the shard
  pushed,    \* how many elements each thread has pushed
  view       \* what consolidate returned, <<>> before

vars == <<log, pushed, view>>

Batch(p, n) == [k \in 1 .. n |-> [by |-> p, nth |-> pushed[p] + k]]

Init ==
  /\ log = <<>>
  /\ pushed = [p \in Pusher |-> 0]
  /\ view = <<>>

Push(p, n) ==
  /\ view = <<>>
  /\ log' = log \o Batch(p, n)
  /\ pushed' = [pushed EXCEPT ![p] = @ + n]
  /\ UNCHANGED view

Consolidate ==
  /\ view' = log
  /\ UNCHANGED <<log, pushed>>

Next == Consolidate \/ \E p \in Pusher, n \in BatchLengths : Push(p, n)

Spec == Init /\ [][Next]_vars
=============================================================================
