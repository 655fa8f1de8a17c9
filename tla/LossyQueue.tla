----------------------------- MODULE LossyQueue -----------------------------
(***************************************************************************)
(* What the sample buffers of the drivers promise: a FIFO queue of bounded *)
(* capacity whose writer never waits.  When the queue is full a new value  *)
(* displaces the oldest one, and the displaced values are counted.         *)
(***************************************************************************)
EXTENDS Naturals, Sequences

CONSTANTS Capacity, Values

VARIABLES
  q,        \* the queued values, oldest first
  dropped   \* values displaced since the last reset

vars == <<q, dropped>>

Init == q = <<>> /\ dropped = 0

Push(v) ==
  \/ /\ Len(q) < Capacity
     /\ q' = Append(q, v)
     /\ UNCHANGED dropped
  \/ /\ Len(q) = Capacity
     /\ q' = Append(Tail(q), v)
     /\ dropped' = dropped + 1

Pop ==
  /\ q # <<>>
  /\ q' = Tail(q)
  /\ UNCHANGED dropped

ResetLost == dropped' = 0 /\ UNCHANGED q

Reset == q' = <<>> /\ dropped' = 0

Next == (\E v \in Values : Push(v)) \/ Pop \/ ResetLost \/ Reset

Spec == Init /\ [][Next]_vars

=============================================================================
