--------------------------- MODULE RingBufProofs ---------------------------
(***************************************************************************)
(* Proofs about the ring of ringbuf.h for every RINGBUF_SIZE.              *)
(*                                                                         *)
(* The invariant is NewestInOrder, written slot by slot (SlotsInv): the    *)
(* i-th oldest sample sits in the i-th slot from tail and is determined by *)
(* the number of samples pushed.  Each call moves that window; the proofs  *)
(* reduce (x + i) % RINGBUF_SIZE to a case distinction (Wrap) first.       *)
(***************************************************************************)
EXTENDS RingBufSpec, Integers, TLAPS

USE RingbufSizeAssumption, MaxPushAssumption

Slot(t, i) == IF t + i < RINGBUF_SIZE THEN t + i ELSE t + i - RINGBUF_SIZE

Window(p, s) == [i \in 1 .. s |-> p - s + i]

SlotsInv ==
  /\ rb.head = Slot(rb.tail, rb.size)
  /\ \A i \in 1 .. rb.size : rb.data[Slot(rb.tail, i - 1)] = pushed - rb.size + i

IInv == TypeOK /\ DropsCounted /\ SlotsInv

(* Indices of a ring wrap at most once. *)
LEMMA Wrap ==
  ASSUME NEW t \in Slots, NEW i \in 0 .. RINGBUF_SIZE
  PROVE  (t + i) % RINGBUF_SIZE = Slot(t, i) /\ Slot(t, i) \in Slots
  BY DEF Slots, Slot

(* The successor of an index is an index. *)
LEMMA AfterSlot ==
  ASSUME NEW t \in Slots PROVE After(t) = Slot(t, 1) /\ After(t) \in Slots
  BY Wrap DEF After

(* The slots of a window are different. *)
LEMMA SlotInjective ==
  ASSUME NEW t \in Slots, NEW i \in 0 .. RINGBUF_SIZE - 1,
         NEW j \in 0 .. RINGBUF_SIZE - 1, i # j
  PROVE  Slot(t, i) # Slot(t, j)
  BY DEF Slots, Slot

(* One slot further along, from either end. *)
LEMMA SlotStep ==
  ASSUME NEW t \in Slots, NEW i \in 0 .. RINGBUF_SIZE - 1
  PROVE  Slot(Slot(t, i), 1) = Slot(t, i + 1) /\ Slot(Slot(t, 1), i) = Slot(t, i + 1)
  BY DEF Slots, Slot

(* An initialised ring satisfies the inductive invariant. *)
LEMMA InitInv == Init => IInv
  BY DEF Init, IInv, TypeOK, DropsCounted, SlotsInv, ringbuf_init, Rings, Slots, Slot

(* A push into a ring that is not full appends the sample. *)
LEMMA PushFree ==
  ASSUME IInv, Push, rb.size # RINGBUF_SIZE
  PROVE  IInv' /\ rb'.size = rb.size + 1 /\ rb'.dropcount = rb.dropcount
<1> USE DEF IInv, TypeOK, Rings, Push
<1>1. /\ rb' = [data |-> [rb.data EXCEPT ![rb.head] = pushed + 1],
                head |-> After(rb.head), tail |-> rb.tail,
                size |-> rb.size + 1, dropcount |-> rb.dropcount]
      /\ pushed' = pushed + 1 /\ taken' = taken
  BY DEF ringbuf_push, push_reserve, push_store
<1>2. rb' \in Rings
  BY <1>1, AfterSlot
<1>3. rb'.head = Slot(rb.tail, rb.size + 1)
  <2>1. rb'.head = Slot(Slot(rb.tail, rb.size), 1)
    BY <1>1, AfterSlot DEF SlotsInv
  <2> QED BY <2>1, SlotStep
<1>4. ASSUME NEW i \in 1 .. rb.size + 1
      PROVE  rb'.data[Slot(rb.tail, i - 1)] = pushed' - rb'.size + i
  <2>1. CASE i = rb.size + 1
    BY <1>1, <2>1, Wrap DEF SlotsInv
  <2>2. CASE i # rb.size + 1
    <3>1. i \in 1 .. rb.size /\ Slot(rb.tail, i - 1) # rb.head
      BY <2>2, SlotInjective DEF SlotsInv
    <3>2. rb'.data[Slot(rb.tail, i - 1)] = rb.data[Slot(rb.tail, i - 1)]
      BY <1>1, <3>1, Wrap
    <3> QED BY <1>1, <3>1, <3>2 DEF SlotsInv
  <2> QED BY <2>1, <2>2
<1> QED
  BY <1>1, <1>2, <1>3, <1>4 DEF SlotsInv, DropsCounted

(* A push into a full ring overwrites the oldest sample and counts it. *)
LEMMA PushFull ==
  ASSUME IInv, Push, rb.size = RINGBUF_SIZE
  PROVE  IInv' /\ rb'.size = rb.size /\ rb'.dropcount = rb.dropcount + 1
<1> USE DEF IInv, TypeOK, Rings, Push
<1>1. /\ rb' = [data |-> [rb.data EXCEPT ![rb.head] = pushed + 1],
                head |-> After(rb.head), tail |-> After(rb.tail),
                size |-> rb.size, dropcount |-> rb.dropcount + 1]
      /\ pushed' = pushed + 1 /\ taken' = taken
  BY DEF ringbuf_push, push_reserve, push_store
<1>2. rb' \in Rings
  BY <1>1, AfterSlot
<1>3. rb.head = rb.tail
  BY DEF SlotsInv, Slot, Slots
<1>4. rb'.head = Slot(rb'.tail, rb'.size)
  BY <1>1, <1>3, AfterSlot DEF Slot, Slots
<1>5. ASSUME NEW i \in 1 .. RINGBUF_SIZE
      PROVE  rb'.data[Slot(rb'.tail, i - 1)] = pushed' - rb'.size + i
  <2>1. Slot(rb'.tail, i - 1) = Slot(rb.tail, i)
    <3>1. rb'.tail = Slot(rb.tail, 1) /\ i - 1 \in 0 .. RINGBUF_SIZE - 1
      BY <1>1, AfterSlot
    <3> QED BY <3>1, SlotStep
  <2>2. CASE i = RINGBUF_SIZE
    <3>1. Slot(rb.tail, i) = rb.head
      BY <1>3, <2>2 DEF Slot, Slots
    <3> QED BY <1>1, <2>1, <2>2, <3>1
  <2>3. CASE i # RINGBUF_SIZE
    <3>1. Slot(rb.tail, i) # Slot(rb.tail, 0) /\ Slot(rb.tail, 0) = rb.head
      BY <1>3, <2>3, SlotInjective DEF Slot, Slots
    <3>2. rb'.data[Slot(rb.tail, i)] = rb.data[Slot(rb.tail, i)]
      BY <1>1, <3>1, Wrap
    <3>3. rb.data[Slot(rb.tail, (i + 1) - 1)] = pushed - rb.size + (i + 1)
      BY <2>3 DEF SlotsInv
    <3> QED BY <1>1, <2>1, <3>2, <3>3
  <2> QED BY <2>2, <2>3
<1> QED
  BY <1>1, <1>2, <1>4, <1>5 DEF SlotsInv, DropsCounted

(* A pop removes the oldest sample. *)
LEMMA PopStep ==
  ASSUME IInv, Pop
  PROVE  /\ IInv' /\ rb'.size = rb.size - 1 /\ rb'.dropcount = rb.dropcount
<1> USE DEF IInv, TypeOK, Rings, Pop
<1>1. /\ rb' = [rb EXCEPT !.tail = After(rb.tail), !.size = rb.size - 1]
      /\ pushed' = pushed /\ taken' = taken + 1
  BY DEF ringbuf_pop
<1>2. /\ rb'.tail = Slot(rb.tail, 1) /\ rb'.size = rb.size - 1
      /\ rb'.head = rb.head /\ rb'.data = rb.data /\ rb.size - 1 \in 0 .. RINGBUF_SIZE - 1
  BY <1>1, AfterSlot
<1>3. rb' \in Rings
  <2>1. After(rb.tail) \in Slots /\ rb.size - 1 \in 0 .. RINGBUF_SIZE
    BY <1>2, AfterSlot
  <2> QED BY <1>1, <2>1
<1>4. rb'.head = Slot(rb'.tail, rb'.size)
  <2>1. Slot(Slot(rb.tail, 1), rb.size - 1) = Slot(rb.tail, (rb.size - 1) + 1)
    BY <1>2, SlotStep
  <2> QED BY <1>2, <2>1 DEF SlotsInv
<1>5. ASSUME NEW i \in 1 .. rb'.size
      PROVE  rb'.data[Slot(rb'.tail, i - 1)] = pushed' - rb'.size + i
  <2>1. Slot(rb'.tail, i - 1) = Slot(rb.tail, (i + 1) - 1)
    <3>1. i - 1 \in 0 .. RINGBUF_SIZE - 1
      BY <1>2
    <3>2. Slot(Slot(rb.tail, 1), i - 1) = Slot(rb.tail, (i - 1) + 1)
      BY <3>1, SlotStep
    <3> QED BY <1>2, <3>2
  <2>2. rb.data[Slot(rb.tail, (i + 1) - 1)] = pushed - rb.size + (i + 1)
    BY <1>1 DEF SlotsInv
  <2> QED BY <1>1, <2>1, <2>2
<1> QED
  BY <1>1, <1>2, <1>3, <1>4, <1>5 DEF SlotsInv, DropsCounted

(* ringbuf_resetlost forgets the drops and touches nothing else. *)
LEMMA ResetLostStep ==
  ASSUME IInv, ResetLost
  PROVE  IInv' /\ rb'.size = rb.size /\ rb'.dropcount = 0 /\ pushed' = pushed
  BY DEF IInv, TypeOK, Rings, ResetLost, ringbuf_resetlost, SlotsInv, DropsCounted

(* ringbuf_init empties the ring. *)
LEMMA ResetStep ==
  ASSUME IInv, Reset
  PROVE  IInv' /\ rb'.size = 0 /\ rb'.dropcount = 0
  BY DEF IInv, TypeOK, Rings, Reset, ringbuf_init, SlotsInv, DropsCounted, Slot, Slots

(* The inductive invariant holds in every reachable state. *)
LEMMA Invariant == Spec => []IInv
<1>1. IInv /\ [Next]_vars => IInv'
  <2> SUFFICES ASSUME IInv, [Next]_vars PROVE IInv'
    OBVIOUS
  <2>1. CASE UNCHANGED vars
    BY <2>1 DEF vars, IInv, TypeOK, SlotsInv, DropsCounted
  <2> QED
    BY <2>1, PushFree, PushFull, PopStep, ResetLostStep, ResetStep DEF Next
<1> QED
  BY <1>1, InitInv, PTL DEF Spec


(* Slot by slot is the same as NewestInOrder, so the contents of the ring  *)
(* are a window of the samples pushed.                                     *)
LEMMA ContentsWindow ==
  ASSUME IInv
  PROVE  Consistent(rb) /\ Contents(rb) = Window(pushed, rb.size)
<1> USE DEF IInv, TypeOK, Rings
<1>1. Consistent(rb)
  BY Wrap DEF Consistent, SlotsInv
<1>2. ASSUME NEW i \in 1 .. rb.size
      PROVE  rb.data[(rb.tail + i - 1) % RINGBUF_SIZE] = pushed - rb.size + i
  <2>1. (rb.tail + (i - 1)) % RINGBUF_SIZE = Slot(rb.tail, i - 1)
    <3>1. i - 1 \in 0 .. RINGBUF_SIZE
      OBVIOUS
    <3> QED BY <3>1, Wrap
  <2>2. rb.tail + (i - 1) = rb.tail + i - 1
    BY DEF Slots
  <2> QED BY <2>1, <2>2 DEF SlotsInv
<1> QED
  BY <1>1, <1>2 DEF Contents, Window

(* Windows as queues: how they grow, shift and shrink. *)
LEMMA WindowSeq ==
  ASSUME NEW p \in Nat, NEW s \in Nat
  PROVE  Window(p, s) \in Seq(Int) /\ Len(Window(p, s)) = s
  BY DEF Window

(* The next sample appended to a window makes it one longer. *)
LEMMA WindowAppend ==
  ASSUME NEW p \in Nat, NEW s \in Nat
  PROVE  Append(Window(p, s), p + 1) = Window(p + 1, s + 1)
<1>1. Window(p + 1, s + 1) \in Seq(Int) /\ Len(Window(p + 1, s + 1)) = s + 1
  BY WindowSeq
<1>2. /\ Append(Window(p, s), p + 1) \in Seq(Int)
      /\ Len(Append(Window(p, s), p + 1)) = s + 1
  BY WindowSeq
<1>3. ASSUME NEW i \in 1 .. s + 1
      PROVE  Append(Window(p, s), p + 1)[i] = Window(p + 1, s + 1)[i]
  <2>1. CASE i = s + 1
    BY <2>1, WindowSeq DEF Window
  <2>2. CASE i # s + 1
    BY <2>2, WindowSeq DEF Window
  <2> QED BY <2>1, <2>2
<1> QED
  BY <1>1, <1>2, <1>3

(* Without its oldest sample a window is one shorter. *)
LEMMA WindowTail ==
  ASSUME NEW p \in Nat, NEW s \in Nat \ {0}
  PROVE  Tail(Window(p, s)) = Window(p, s - 1)
<1>1. Window(p, s - 1) \in Seq(Int) /\ Len(Window(p, s - 1)) = s - 1
  BY WindowSeq
<1>2. Tail(Window(p, s)) \in Seq(Int) /\ Len(Tail(Window(p, s))) = s - 1
  BY WindowSeq
<1>3. ASSUME NEW i \in 1 .. s - 1
      PROVE  Tail(Window(p, s))[i] = Window(p, s - 1)[i]
  <2>1. Tail(Window(p, s))[i] = Window(p, s)[i + 1]
    BY WindowSeq
  <2> QED BY <2>1 DEF Window
<1> QED
  BY <1>1, <1>2, <1>3

(* The fields of the ring keep their types and ranges (ringbuf.h l.14-21). *)
THEOREM TypeCorrect == Spec => []TypeOK
  BY Invariant, PTL DEF IInv

(* ringbuf_push and ringbuf_pop (ringbuf.h l.28-62) keep the newest        *)
(* samples in order, for every RINGBUF_SIZE.                               *)
THEOREM KeepsNewestInOrder == Spec => []NewestInOrder
<1>1. IInv => NewestInOrder
  BY ContentsWindow DEF NewestInOrder, Window
<1> QED BY <1>1, Invariant, PTL

(* dropcount (ringbuf.h l.40) counts exactly the overwritten samples. *)
THEOREM CountsDrops == Spec => []DropsCounted
  BY Invariant, PTL DEF IInv

(* The ring of ringbuf.h implements the bounded queue that drops its       *)
(* oldest value, for every RINGBUF_SIZE.                                   *)
THEOREM ImplementsLossyQueue == Spec => IsLossyQueue
<1>1. Init => Queue!Init
  <2> SUFFICES ASSUME Init PROVE Queue!Init
    OBVIOUS
  <2>1. Contents(rb) = <<>>
    BY DEF Init, ringbuf_init, Contents
  <2> QED BY <2>1 DEF Queue!Init, Init, ringbuf_init
<1>2. IInv /\ IInv' /\ [Next]_vars => [Queue!Next]_(Queue!vars)
  <2> SUFFICES ASSUME IInv, IInv', [Next]_vars PROVE [Queue!Next]_(Queue!vars)
    OBVIOUS
  <2>0. /\ Contents(rb) = Window(pushed, rb.size)
        /\ pushed \in Nat /\ rb.size \in Nat /\ rb.size <= RINGBUF_SIZE
    BY ContentsWindow DEF IInv, TypeOK, Rings
  <2>1. Contents(rb)' = Window(pushed', rb'.size)
    <3>1. (Contents(rb) = Window(pushed, rb.size))'
      BY ContentsWindow, PTL
    <3> QED BY <3>1 DEF Window
  <2>2. CASE Push
    <3>1. pushed' = pushed + 1 /\ pushed + 1 \in 1 .. MaxPush
      BY <2>0, <2>2 DEF Push
    <3>2. CASE rb.size # RINGBUF_SIZE
      <4>1. rb'.size = rb.size + 1 /\ rb'.dropcount = rb.dropcount
        BY <2>2, <3>2, PushFree
      <4>2. Contents(rb)' = Append(Contents(rb), pushed + 1)
        <5>1. Append(Window(pushed, rb.size), pushed + 1) = Window(pushed + 1, rb.size + 1)
          BY <2>0, WindowAppend
        <5> QED BY <2>0, <2>1, <3>1, <4>1, <5>1
      <4>3. Len(Contents(rb)) < RINGBUF_SIZE
        <5>1. Len(Window(pushed, rb.size)) = rb.size
          BY <2>0, WindowSeq
        <5>2. rb.size < RINGBUF_SIZE
          BY <2>0, <3>2
        <5> QED BY <2>0, <5>1, <5>2
      <4> QED BY <3>1, <4>1, <4>2, <4>3 DEF Queue!Next, Queue!Push
    <3>3. CASE rb.size = RINGBUF_SIZE
      <4>1. rb'.size = rb.size /\ rb'.dropcount = rb.dropcount + 1
        BY <2>2, <3>3, PushFull
      <4>2. Tail(Contents(rb)) = Window(pushed, rb.size - 1)
        BY <2>0, <3>3, WindowTail
      <4>3. rb.size - 1 \in Nat /\ (rb.size - 1) + 1 = rb.size
        BY <2>0, <3>3
      <4>4. Append(Window(pushed, rb.size - 1), pushed + 1) = Window(pushed + 1, rb.size)
        BY <2>0, <4>3, WindowAppend
      <4>5. Contents(rb)' = Append(Tail(Contents(rb)), pushed + 1)
        BY <2>1, <3>1, <4>1, <4>2, <4>4
      <4>6. Len(Contents(rb)) = RINGBUF_SIZE
        BY <2>0, <3>3, WindowSeq
      <4> QED BY <3>1, <4>1, <4>5, <4>6 DEF Queue!Next, Queue!Push
    <3> QED BY <3>2, <3>3
  <2>3. CASE Pop
    <3>1. rb'.size = rb.size - 1 /\ rb'.dropcount = rb.dropcount /\ pushed' = pushed
      BY <2>3, PopStep DEF Pop
    <3>2. rb.size \in Nat \ {0}
      BY <2>0, <2>3 DEF Pop
    <3>3. Contents(rb)' = Tail(Contents(rb))
      BY <2>0, <2>1, <3>1, <3>2, WindowTail
    <3>4. Contents(rb) # <<>>
      BY <2>0, <3>2, WindowSeq
    <3> QED BY <3>1, <3>3, <3>4 DEF Queue!Next, Queue!Pop
  <2>4. CASE ResetLost
    <3>1. Contents(rb)' = Contents(rb) /\ rb'.dropcount = 0
      BY <2>0, <2>1, <2>4, ResetLostStep
    <3> QED BY <3>1 DEF Queue!Next, Queue!ResetLost
  <2>5. CASE Reset
    <3>1. rb'.size = 0 /\ rb'.dropcount = 0
      BY <2>5, ResetStep
    <3>2. Contents(rb)' = <<>>
      BY <2>1, <3>1 DEF Window
    <3> QED BY <3>1, <3>2 DEF Queue!Next, Queue!Reset
  <2>6. CASE UNCHANGED vars
    BY <2>6 DEF vars, Queue!vars, Contents
  <2> QED
    BY <2>2, <2>3, <2>4, <2>5, <2>6 DEF Next
<1> QED
  BY <1>1, <1>2, Invariant, PTL DEF Spec, IsLossyQueue, Queue!Spec

=============================================================================
