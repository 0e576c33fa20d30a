------------------------------ MODULE FifoQueue ------------------------------
(***************************************************************************)
(* What a queue between two threads promises: the consumer gets the        *)
(* elements once each and in the order in which they were put.  Elements   *)
(* are numbered in that order.                                             *)
(***************************************************************************)
EXTENDS Naturals, Sequences

VARIABLES
  queue,   \* the elements put and not taken yet
  taken    \* the elements taken, in the order they were

vars == <<queue, taken>>

Init == queue = << >> /\ taken = << >>

Put ==
  /\ queue' = Append(queue, Len(taken) + Len(queue) + 1)
  /\ taken' = taken

Take ==
  /\ queue # << >>
  /\ taken' = Append(taken, Head(queue))
  /\ queue' = Tail(queue)

Next == Put \/ Take

Spec == Init /\ [][Next]_vars
==============================================================================
