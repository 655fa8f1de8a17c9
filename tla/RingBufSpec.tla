---------------------------- MODULE RingBufSpec ----------------------------
(***************************************************************************)
(* The ring of ringbuf.h under any sequence of its calls, each of them one *)
(* critical section of the ring's lock.  The writer pushes the samples     *)
(* 1, 2, 3, ... so that a sample tells when it was taken.                  *)
(***************************************************************************)
EXTENDS RingBuf

CONSTANT MaxPush   \* bound on the samples taken

ASSUME MaxPushAssumption == MaxPush \in Nat

VARIABLES
  rb,       \* struct ringbuf
  pushed,   \* samples pushed so far
  taken     \* history: samples that left the ring other than by a counted drop

vars == <<rb, pushed, taken>>

Init == rb = ringbuf_init /\ pushed = 0 /\ taken = 0

Push ==
  /\ pushed < MaxPush
  /\ rb' = ringbuf_push(rb, pushed + 1)
  /\ pushed' = pushed + 1
  /\ UNCHANGED taken

Pop ==
  /\ rb.size # 0
  /\ rb' = ringbuf_pop(rb)
  /\ taken' = taken + 1
  /\ UNCHANGED pushed

ResetLost ==
  /\ rb' = ringbuf_resetlost(rb)
  /\ taken' = taken + rb.dropcount
  /\ UNCHANGED pushed

Reset ==
  /\ rb' = ringbuf_init
  /\ taken' = pushed
  /\ UNCHANGED pushed

Next == Push \/ Pop \/ ResetLost \/ Reset

Spec == Init /\ [][Next]_vars

-----------------------------------------------------------------------------

(* Every variable has its type: in particular no call drives head, tail or *)
(* size out of range.                                                      *)
TypeOK == rb \in Rings /\ pushed \in 0 .. MaxPush /\ taken \in 0 .. MaxPush

(* The ring holds the newest samples, as many as size says, in the order   *)
(* they were taken: ringbuf_push overwrites the oldest slot and no other,  *)
(* and ringbuf_pop returns what is left in order, across every wrap.       *)
NewestInOrder ==
  /\ Consistent(rb)
  /\ Contents(rb) = [i \in 1 .. rb.size |-> pushed - rb.size + i]

(* dropcount is exact: since the last reset, every sample that was taken   *)
(* was popped, is still in the ring, or is counted as dropped.             *)
DropsCounted == taken + rb.dropcount + rb.size = pushed

(* The ring implements the lossy queue. *)
Queue == INSTANCE LossyQueue WITH
           Capacity <- RINGBUF_SIZE, Values <- 1 .. MaxPush,
           q <- Contents(rb), dropped <- rb.dropcount

IsLossyQueue == Queue!Spec

=============================================================================
