-------------------------- MODULE MyFakeBellProofs --------------------------
(***************************************************************************)
(* Proofs about myfakebell.c for every size of the ring, any number of     *)
(* processes, events and calls.                                            *)
(*                                                                         *)
(* TypeInv holds whatever a reset overlaps.  The other parts say what the  *)
(* ring's lock is good for as long as no reset has overlapped one of its   *)
(* sections.                                                               *)
(***************************************************************************)
EXTENDS MyFakeBell, FiniteSetTheorems, SequenceTheorems, TLAPS

USE MaxU32Assumption, RingbufSizeAssumption, FakeBellReaders

(* Rings whose size may have been spoilt by a reset. *)
AnyRing == [data : [Slots -> Nat], head : Slots, tail : Slots, size : Int, dropcount : Nat]

TypeInv ==
  /\ bell \in FakeBellState /\ desc \in IrqDesc
  /\ bpc \in {"idle", "push", "store", "wake", "done"}
  /\ v \in [item : U32, head : Slots]
  /\ rb \in AnyRing /\ rb.size <= RINGBUF_SIZE
  /\ lk \in Readers \union {Bottom, Nobody}
  /\ asleep \subseteq Readers
  /\ pc \in [Readers -> {"idle", "wait", "recheck", "sleep", "len", "pop", "pop2",
                         "copy", "poll", "look", "pollsleep", "ready", "stats"}]
  /\ rd \in [Readers -> Locals]
  /\ \A p \in Readers : rd[p].size <= RINGBUF_SIZE
  /\ resetting \in BOOLEAN /\ raced \in BOOLEAN
  /\ delivered \in [Readers -> Seq(Nat)]
  /\ interfered \in [Readers -> BOOLEAN]
  /\ pushed \in Nat

(* One stage of the handler at a time, the line masked meanwhile, the      *)
(* event pending until the thread acknowledges it; the thread has pushed   *)
(* the samples of all earlier events.                                      *)
IrqInv ==
  /\ bell.irq_enable /\ (bell.line <=> bell.irq_status)
  /\ desc.requested /\ desc.oneshot
  /\ desc.hard \/ desc.woken \/ bpc # "idle" => desc.masked
  /\ desc.hard \/ desc.woken => bell.irq_status /\ bpc = "idle"
  /\ ~(desc.hard /\ desc.woken)
  /\ bell.event_count = pushed + (IF bell.irq_status THEN 1 ELSE 0)
                               + (IF bpc \in {"push", "store"} THEN 1 ELSE 0)
  /\ bpc \in {"push", "store"} => v.item = pushed + 1

(* Who holds the lock finds the ring as he left it. *)
LockInv ==
  ~raced =>
    /\ bpc = "store" <=> lk = Bottom
    /\ bpc = "store" => v.head = rb.head /\ rb.size > 0
    /\ \A p \in Readers : pc[p] = "pop2" <=> lk = p
    /\ \A p \in Readers : pc[p] = "pop2" =>
         /\ rd[p].tail = rb.tail /\ rd[p].size = rb.size /\ rb.size > 0
         /\ rd[p].item = ringbuf_front(rb)
    /\ resetting => lk = Nobody /\ rb.head = 0
    /\ rb.size >= 0

(* A push that has reserved its slot and not yet stored into it. *)
Storing == IF bpc = "store" THEN 1 ELSE 0

(* The i-th slot from t on. *)
Slot(t, i) == IF t + i < RINGBUF_SIZE THEN t + i ELSE t + i - RINGBUF_SIZE

(* The samples that have left the ring are the first ones. *)
Low == IF resetting THEN pushed ELSE pushed + Storing - rb.size

(* The ring holds the newest samples. *)
RingInv ==
  ~raced /\ ~resetting =>
    /\ rb.head = Slot(rb.tail, rb.size - Storing)
    /\ \A i \in 0 .. rb.size - Storing - 1 : rb.data[Slot(rb.tail, i)] = Low + 1 + i

(* Locals between calls. *)
HomeInv ==
  \A p \in Readers :
    /\ pc[p] \notin {"pop", "pop2", "copy"} => rd[p].got = <<>>
    /\ pc[p] # "idle" => rd[p].ret = "none"

(* The samples process p has still to pop. *)
Left(p) == rd[p].len - Len(rd[p].got) - (IF pc[p] = "copy" THEN 1 ELSE 0)

(* What a process relies on is there unless a rival interfered. *)
RivalOK(p) ==
  /\ pc[p] \in {"ready", "len"} /\ ~interfered[p] => rb.size > 0
  /\ pc[p] \in {"pop", "pop2", "copy"} /\ ~interfered[p] =>
       rb.size >= Left(p) /\ (rd[p].want > 0 => rd[p].len > 0)
  /\ pc[p] \in {"wait", "recheck", "sleep"} /\ rd[p].polled => interfered[p]
  /\ rd[p].ret \in {"empty", "zero"} => interfered[p]

RivalInv == ~raced => \A p \in Readers : RivalOK(p)

(* Sizes and drop counts, read one after the other. *)
StatsOK(p) ==
  /\ pc[p] = "stats" => rd[p].bufcnt + rb.dropcount <= pushed + Storing
  /\ pc[p] = "idle" => rd[p].bufcnt + rd[p].dropcnt <= pushed + Storing

StatsInv ==
  ~raced => /\ rb.size + rb.dropcount <= pushed + Storing
            /\ \A p \in Readers : StatsOK(p)

(* A rising sequence, and one below a bound. *)
Rising(s) == \A i, j \in 1 .. Len(s) : i < j => s[i] < s[j]

Below(s, m) == \A i \in 1 .. Len(s) : s[i] <= m

(* What process p has got is rising and has left the ring. *)
Got(p) == delivered[p] \o rd[p].got

OrderOK(p) ==
  /\ Rising(Got(p)) /\ Below(Got(p), Low)
  /\ pc[p] = "copy" => rd[p].item <= Low /\ Below(Got(p), rd[p].item - 1)

OrderInv == ~raced => \A p \in Readers : OrderOK(p)

(* What process p has of the samples, and what all processes have. *)
Held(p) == InFlight(p) \union Range(delivered[p])

Taken == UNION {Held(p) : p \in Readers}

(* Every sample that has left the ring is in one place. *)
AccountInv ==
  ~raced =>
    /\ dropped \union cleared \union lost \union Taken = 1 .. Low
    /\ dropped \intersect cleared = {} /\ dropped \intersect lost = {} /\ cleared \intersect lost = {}
    /\ \A p \in Readers : Held(p) \intersect (dropped \union cleared \union lost) = {}
    /\ \A p, q \in Readers : p # q => Held(p) \intersect Held(q) = {}
    /\ IsFiniteSet(dropped)
    /\ IF resetting THEN dropped = {} ELSE Cardinality(dropped) = rb.dropcount

IInv ==
  /\ TypeInv /\ IrqInv /\ LockInv /\ RingInv /\ HomeInv /\ RivalInv /\ StatsInv
  /\ OrderInv /\ AccountInv

-----------------------------------------------------------------------------
(* The operators of the device, the interrupt flow and the ring. *)

(* The line is computed from the registers. *)
LEMMA UpdateType ==
  ASSUME NEW s \in FakeBellState PROVE fakebell_update_irq(s) \in FakeBellState
  BY Zenon DEF FakeBellState, fakebell_update_irq

(* The callbacks of the device map device states to device states. *)
LEMMA BellTypes ==
  ASSUME NEW s \in FakeBellState
  PROVE  /\ fakebell_write_enable(s, TRUE) \in FakeBellState
         /\ fakebell_write_ack(s) \in FakeBellState
         /\ fakebell_timer_cb(s) \in FakeBellState
<1>1. fakebell_write_enable(s, TRUE) \in FakeBellState
  <2>1. [s EXCEPT !.irq_enable = TRUE] \in FakeBellState
    BY DEF FakeBellState
  <2> QED BY <2>1, UpdateType DEF fakebell_write_enable
<1>2. fakebell_write_ack(s) \in FakeBellState
  <2>1. [s EXCEPT !.status = FALSE, !.irq_status = FALSE] \in FakeBellState
    BY DEF FakeBellState
  <2> QED BY <2>1, UpdateType DEF fakebell_write_ack
<1>3. fakebell_timer_cb(s) \in FakeBellState
  <2>1. [s EXCEPT !.event_count = Inc32(@), !.status = TRUE, !.irq_status = TRUE]
          \in FakeBellState
    <3>1. Inc32(s.event_count) \in U32
      BY DEF FakeBellState, Inc32, U32
    <3> QED BY <3>1, Zenon DEF FakeBellState
  <2> QED BY <2>1, UpdateType DEF fakebell_timer_cb
<1> QED BY <1>1, <1>2, <1>3

(* The kernel's interrupt flow maps descriptors to descriptors. *)
LEMMA DescTypes ==
  ASSUME NEW d \in IrqDesc
  PROVE  /\ irq_enter(d) \in IrqDesc
         /\ irq_return_none(d) \in IrqDesc
         /\ irq_return_wake_thread(d) \in IrqDesc
         /\ irq_thread_start(d) \in IrqDesc
         /\ irq_thread_done(d) \in IrqDesc
  BY DEF IrqDesc, irq_enter, irq_return_none, irq_return_wake_thread, irq_thread_start,
         irq_thread_done

(* Indices of a ring wrap at most once. *)
LEMMA Wrap ==
  ASSUME NEW t \in Slots, NEW i \in 0 .. RINGBUF_SIZE
  PROVE  (t + i) % RINGBUF_SIZE = Slot(t, i) /\ Slot(t, i) \in Slots
  BY DEF Slots, Slot

(* The successor of an index is an index. *)
LEMMA AfterSlot ==
  ASSUME NEW t \in Slots PROVE After(t) = Slot(t, 1) /\ After(t) \in Slots
  BY Wrap DEF After

(* The calls on the ring, field by field: the first part of a push, *)
LEMMA ReserveFields ==
  ASSUME NEW r \in AnyRing
  PROVE  LET n == push_reserve(r)
         IN  /\ n \in AnyRing /\ n.data = r.data /\ n.head = r.head
             /\ n.tail = IF r.size = RINGBUF_SIZE THEN After(r.tail) ELSE r.tail
             /\ n.size = IF r.size = RINGBUF_SIZE THEN r.size ELSE r.size + 1
             /\ n.dropcount = IF r.size = RINGBUF_SIZE THEN r.dropcount + 1 ELSE r.dropcount
<1>1. /\ After(r.tail) \in Slots /\ r.size + 1 \in Int /\ r.dropcount + 1 \in Nat
      /\ r.tail \in Slots /\ r.size \in Int /\ r.dropcount \in Nat
  BY AfterSlot DEF AnyRing
<1>2. CASE r.size = RINGBUF_SIZE
  <2>1. push_reserve(r) = [r EXCEPT !.tail = After(r.tail), !.dropcount = r.dropcount + 1]
    BY <1>2 DEF push_reserve
  <2> QED BY <1>1, <1>2, <2>1 DEF AnyRing
<1>3. CASE r.size # RINGBUF_SIZE
  <2>1. push_reserve(r) = [r EXCEPT !.size = r.size + 1]
    BY <1>3 DEF push_reserve
  <2> QED BY <1>1, <1>3, <2>1 DEF AnyRing
<1> QED BY <1>2, <1>3

(* its second part, *)
LEMMA StoreFields ==
  ASSUME NEW r \in AnyRing, NEW h \in Slots, NEW x \in Nat
  PROVE  LET n == push_store(r, h, x)
         IN  /\ n \in AnyRing /\ n.data = [r.data EXCEPT ![h] = x] /\ n.head = After(h)
             /\ n.tail = r.tail /\ n.size = r.size /\ n.dropcount = r.dropcount
  BY AfterSlot DEF AnyRing, push_store

(* a pop that found the tail t and the size m, *)
LEMMA PopFields ==
  ASSUME NEW r \in AnyRing, NEW t \in Slots, NEW m \in Int
  PROVE  LET n == ringbuf_pop([r EXCEPT !.tail = t, !.size = m])
         IN  /\ n \in AnyRing /\ n.data = r.data /\ n.head = r.head
             /\ n.tail = After(t) /\ n.size = m - 1 /\ n.dropcount = r.dropcount
<1> DEFINE q == [r EXCEPT !.tail = t, !.size = m]
<1>1. /\ q \in AnyRing /\ q.data = r.data /\ q.head = r.head /\ q.tail = t /\ q.size = m
      /\ q.dropcount = r.dropcount
  BY DEF AnyRing
<1> HIDE DEF q
<1>2. LET n == ringbuf_pop(q)
      IN  /\ n \in AnyRing /\ n.data = q.data /\ n.head = q.head
          /\ n.tail = After(q.tail) /\ n.size = q.size - 1 /\ n.dropcount = q.dropcount
  <2>1. After(q.tail) \in Slots /\ q.size - 1 \in Int
    BY <1>1, AfterSlot
  <2>2. ringbuf_pop(q) = [q EXCEPT !.tail = After(q.tail), !.size = q.size - 1]
    BY DEF ringbuf_pop
  <2> QED BY <1>1, <2>1, <2>2 DEF AnyRing
<1> QED BY <1>1, <1>2 DEF q

(* and the two halves of a reset. *)
LEMMA ResetFields ==
  ASSUME NEW r \in AnyRing
  PROVE  /\ LET n == [r EXCEPT !.data = ringbuf_init.data, !.head = ringbuf_init.head]
            IN  /\ n \in AnyRing /\ n.tail = r.tail /\ n.size = r.size
                /\ n.head = 0 /\ n.dropcount = r.dropcount
         /\ LET n == [r EXCEPT !.tail = ringbuf_init.tail, !.size = ringbuf_init.size,
                               !.dropcount = ringbuf_init.dropcount]
            IN  /\ n \in AnyRing /\ n.data = r.data /\ n.head = r.head
                /\ n.tail = 0 /\ n.size = 0 /\ n.dropcount = 0
<1> DEFINE zeros == ringbuf_init.data
<1>1. /\ zeros \in [Slots -> Nat] /\ ringbuf_init.head = 0 /\ ringbuf_init.tail = 0
      /\ ringbuf_init.size = 0 /\ ringbuf_init.dropcount = 0 /\ 0 \in Slots
  BY DEF ringbuf_init, Slots
<1> HIDE DEF zeros
<1>2. LET n == [r EXCEPT !.data = zeros, !.head = 0]
      IN  /\ n \in AnyRing /\ n.tail = r.tail /\ n.size = r.size
          /\ n.head = 0 /\ n.dropcount = r.dropcount
  BY <1>1 DEF AnyRing
<1>3. LET n == [r EXCEPT !.tail = 0, !.size = 0, !.dropcount = 0]
      IN  /\ n \in AnyRing /\ n.data = r.data /\ n.head = r.head
          /\ n.tail = 0 /\ n.size = 0 /\ n.dropcount = 0
  <2> DEFINE n == [r EXCEPT !.tail = 0, !.size = 0, !.dropcount = 0]
  <2>1. /\ n.data = r.data /\ n.head = r.head /\ n.tail = 0 /\ n.size = 0 /\ n.dropcount = 0
    BY DEF AnyRing
  <2>2. n \in AnyRing
    <3>1. 0 \in Slots /\ 0 \in Int /\ 0 \in Nat
      BY <1>1
    <3> QED BY <3>1 DEF AnyRing
  <2> QED BY <2>1, <2>2
<1> QED BY <1>1, <1>2, <1>3 DEF zeros

(* The locals a call begins with. *)
LEMMA NoLocalsType == NoLocals \in Locals
<1>1. 0 \in 0 .. MaxCount /\ 0 \in Slots /\ <<>> \in Seq(Nat)
  BY DEF Slots
<1> QED BY <1>1 DEF NoLocals, Locals, Results

(* What the calls store, field by field. *)
LEMMA LocalsFields ==
  /\ NoLocals.got = <<>> /\ NoLocals.ret = "none" /\ NoLocals.bufcnt = 0 /\ NoLocals.dropcnt = 0
  /\ NoLocals.size = 0 /\ NoLocals.polled = FALSE /\ NoLocals.len = 0 /\ NoLocals.want = 0
  /\ \A want, len :
       LET r == [NoLocals EXCEPT !.want = want, !.len = len]
       IN  /\ r.got = <<>> /\ r.ret = "none" /\ r.bufcnt = 0 /\ r.dropcnt = 0 /\ r.size = 0
           /\ r.want = want /\ r.len = len
  /\ \A want, b :
       LET r == [NoLocals EXCEPT !.want = want, !.polled = b]
       IN  /\ r.got = <<>> /\ r.ret = "none" /\ r.bufcnt = 0 /\ r.dropcnt = 0 /\ r.size = 0
           /\ r.want = want /\ r.polled = b
  /\ \A x :
       LET r == [NoLocals EXCEPT !.ret = x]
       IN  /\ r.got = <<>> /\ r.ret = x /\ r.bufcnt = 0 /\ r.dropcnt = 0 /\ r.size = 0
  /\ \A x :
       LET r == [NoLocals EXCEPT !.bufcnt = x]
       IN  /\ r.got = <<>> /\ r.ret = "none" /\ r.bufcnt = x /\ r.dropcnt = 0 /\ r.size = 0
BY DEF NoLocals

(* Locals whose size was read from a ring. *)
RingLocals == {r \in Locals : r.size <= RINGBUF_SIZE}

(* The locals that the calls begin with keep their types. *)
LEMMA LocalsTypes ==
  /\ NoLocals \in RingLocals
  /\ \A want \in 0 .. MaxCount, len \in Int :
       [NoLocals EXCEPT !.want = want, !.len = len] \in RingLocals
  /\ \A want \in 0 .. MaxCount, b \in BOOLEAN :
       [NoLocals EXCEPT !.want = want, !.polled = b] \in RingLocals
  /\ \A r \in Results : [NoLocals EXCEPT !.ret = r] \in RingLocals
  /\ \A n \in Int : [NoLocals EXCEPT !.bufcnt = n] \in RingLocals
<1>0. 0 <= RINGBUF_SIZE
  OBVIOUS
<1>1. ASSUME NEW want \in 0 .. MaxCount, NEW len \in Int
      PROVE  [NoLocals EXCEPT !.want = want, !.len = len] \in RingLocals
  <2>1. [NoLocals EXCEPT !.want = want, !.len = len] \in Locals
    BY NoLocalsType DEF Locals
  <2>2. [NoLocals EXCEPT !.want = want, !.len = len].size = 0
    BY DEF NoLocals
  <2> QED BY <1>0, <2>1, <2>2 DEF RingLocals
<1>2. ASSUME NEW want \in 0 .. MaxCount, NEW b \in BOOLEAN
      PROVE  [NoLocals EXCEPT !.want = want, !.polled = b] \in RingLocals
  <2>1. [NoLocals EXCEPT !.want = want, !.polled = b] \in Locals
    BY NoLocalsType DEF Locals
  <2>2. [NoLocals EXCEPT !.want = want, !.polled = b].size = 0
    BY DEF NoLocals
  <2> QED BY <1>0, <2>1, <2>2 DEF RingLocals
<1>3. ASSUME NEW r \in Results PROVE [NoLocals EXCEPT !.ret = r] \in RingLocals
  <2>1. [NoLocals EXCEPT !.ret = r] \in Locals
    BY NoLocalsType DEF Locals
  <2> QED BY <1>0, <2>1, LocalsFields DEF RingLocals
<1>4. ASSUME NEW n \in Int PROVE [NoLocals EXCEPT !.bufcnt = n] \in RingLocals
  <2>1. [NoLocals EXCEPT !.bufcnt = n] \in Locals
    BY NoLocalsType DEF Locals
  <2> QED BY <1>0, <2>1, LocalsFields DEF RingLocals
<1>5. NoLocals \in RingLocals
  BY <1>0, NoLocalsType, LocalsFields DEF RingLocals
<1> QED BY <1>1, <1>2, <1>3, <1>4, <1>5

(* The bound device satisfies the types. *)
LEMMA TypeInit == ASSUME Init PROVE TypeInv
<1>1. bell \in FakeBellState
  <2>1. fakebell_realize \in FakeBellState
    BY DEF FakeBellState, fakebell_realize, U32
  <2> QED BY <2>1, BellTypes DEF Init
<1>2. desc \in IrqDesc
  <2>1. irq_unused \in IrqDesc
    BY DEF IrqDesc, irq_unused
  <2> QED BY <2>1 DEF Init, IrqDesc, request_threaded_irq
<1>3. rb \in AnyRing /\ rb.size <= RINGBUF_SIZE
  BY DEF Init, AnyRing, ringbuf_init, Slots
<1>4. rd \in [Readers -> Locals] /\ \A p \in Readers : rd[p].size <= RINGBUF_SIZE
  BY NoLocalsType, LocalsFields DEF Init
<1>5. resetting \in BOOLEAN /\ raced \in BOOLEAN
  BY Zenon DEF Init
<1>6. delivered \in [Readers -> Seq(Nat)] /\ interfered \in [Readers -> BOOLEAN]
  BY DEF Init
<1>7. v \in [item : U32, head : Slots]
  BY DEF Init, U32, Slots
<1> QED BY <1>1, <1>2, <1>3, <1>4, <1>5, <1>6, <1>7 DEF Init, TypeInv

-----------------------------------------------------------------------------
(* Types.  A call of process p changes only p's locals, and not the ring   *)
(* but in the two halves of its pop.                                       *)

PcSet == {"idle", "wait", "recheck", "sleep", "len", "pop", "pop2", "copy", "poll", "look",
          "pollsleep", "ready", "stats"}

Call(p) ==
  \/ \E want \in 0 .. MaxCount, nonblock \in BOOLEAN : ReadStart(p, want, nonblock)
  \/ WaitPrepare(p) \/ WaitCheck(p) \/ WaitWoken(p) \/ WaitSignal(p) \/ ReadLen(p)
  \/ ReadEmpty(p) \/ ReadCopy(p) \/ ReadReturn(p)
  \/ PollStart(p) \/ PollWait(p) \/ myfbpoll(p) \/ PollWoken(p)
  \/ StatsSize(p) \/ StatsLost(p)

(* The shared state and the locals of the others. *)
CallFrame(p) ==
  /\ UNCHANGED <<irqVars, ringVars, resetting, pushed, dropped, cleared, raced>>
  /\ \A q \in Readers \ {p} :
       /\ pc'[q] = pc[q] /\ rd'[q] = rd[q]
       /\ delivered'[q] = delivered[q] /\ (interfered'[q] <=> interfered[q])
  /\ pc[p] # "pop2" /\ pc'[p] # "pop2"

(* A call leaves the rest alone. *)
LEMMA CallFrames == ASSUME TypeInv, NEW p \in Readers, Call(p) PROVE CallFrame(p)
<1> USE DEF TypeInv, CallFrame
<1>1. ASSUME NEW want \in 0 .. MaxCount, NEW nonblock \in BOOLEAN, ReadStart(p, want, nonblock)
      PROVE  CallFrame(p)
  BY <1>1 DEF ReadStart, Return
<1>2. CASE WaitPrepare(p) \/ WaitWoken(p) \/ PollWait(p) \/ PollWoken(p)
  BY <1>2 DEF WaitPrepare, WaitWoken, PollWait, PollWoken, history
<1>3. CASE WaitCheck(p)
  BY <1>3 DEF WaitCheck
<1>4. CASE WaitSignal(p)
  BY <1>4 DEF WaitSignal, Return, history
<1>5. CASE ReadLen(p)
  BY <1>5 DEF ReadLen
<1>6. CASE ReadEmpty(p)
  BY <1>6 DEF ReadEmpty, Return
<1>7. CASE ReadCopy(p)
  BY <1>7 DEF ReadCopy, Return
<1>8. CASE ReadReturn(p)
  BY <1>8 DEF ReadReturn, Return
<1>9. CASE PollStart(p)
  BY <1>9 DEF PollStart, history
<1>10. CASE myfbpoll(p)
  BY <1>10 DEF myfbpoll, Return
<1>11. CASE StatsSize(p) \/ StatsLost(p)
  BY <1>11 DEF StatsSize, StatsLost, history
<1> QED BY <1>1, <1>2, <1>3, <1>4, <1>5, <1>6, <1>7, <1>8, <1>9, <1>10, <1>11 DEF Call

(* What a process has of its own. *)
ProcType ==
  /\ asleep \subseteq Readers
  /\ pc \in [Readers -> PcSet]
  /\ rd \in [Readers -> Locals]
  /\ \A p \in Readers : rd[p].size <= RINGBUF_SIZE
  /\ delivered \in [Readers -> Seq(Nat)]
  /\ interfered \in [Readers -> BOOLEAN]

(* The loop bound of a read is an integer. *)
LEMMA ClampType == ASSUME NEW n \in Int, NEW w \in 0 .. MaxCount PROVE Clamp(n, w) \in Int
BY DEF Clamp

(* An update of one process's locals keeps the types. *)
LEMMA LocalStep ==
  ASSUME ProcType, NEW p \in Readers, NEW r \in RingLocals, rd' = [rd EXCEPT ![p] = r]
  PROVE  rd' \in [Readers -> Locals] /\ \A q \in Readers : rd'[q].size <= RINGBUF_SIZE
BY DEF ProcType, RingLocals

(* Every call keeps the types of what its process has of its own. *)
LEMMA CallTypes == ASSUME TypeInv, NEW p \in Readers, Call(p) PROVE ProcType'
<1>0. ProcType
  BY DEF ProcType, TypeInv, PcSet
<1>1. rb.size \in Int /\ rb.dropcount \in Nat /\ rd[p] \in Locals /\ rd[p].size <= RINGBUF_SIZE
  BY DEF TypeInv, AnyRing
<1>2. ASSUME NEW want \in 0 .. MaxCount, NEW nonblock \in BOOLEAN, ReadStart(p, want, nonblock)
      PROVE  ProcType'
  <2>1. \E r \in RingLocals : rd' = [rd EXCEPT ![p] = r]
    <3>1. CASE rd' = [rd EXCEPT ![p] = [NoLocals EXCEPT !.want = want, !.len = Clamp(rb.size, want)]]
      BY <1>1, <3>1, ClampType, LocalsTypes
    <3>2. CASE rd' = [rd EXCEPT ![p] = [NoLocals EXCEPT !.want = want, !.polled = (pc[p] = "ready")]]
      BY <3>2, LocalsTypes
    <3>3. CASE rd' = [rd EXCEPT ![p] = [NoLocals EXCEPT !.ret = "eagain"]]
      <4>1. "eagain" \in Results
        BY DEF Results
      <4> QED BY <3>3, <4>1, LocalsTypes
    <3> QED BY <1>2, <3>1, <3>2, <3>3 DEF ReadStart, Return
  <2>2. pc' \in [Readers -> PcSet] /\ UNCHANGED <<asleep, delivered>>
    BY <1>0, <1>2 DEF ReadStart, Return, ProcType, PcSet
  <2>3. interfered' \in [Readers -> BOOLEAN]
    BY <1>0, <1>2 DEF ReadStart, ProcType
  <2> QED BY <1>0, <2>1, <2>2, <2>3, LocalStep DEF ProcType
<1>3. CASE WaitPrepare(p) \/ WaitWoken(p) \/ PollWait(p) \/ PollWoken(p)
  BY <1>0, <1>3 DEF WaitPrepare, WaitWoken, PollWait, PollWoken, history, ProcType, PcSet
<1>4. CASE WaitCheck(p)
  BY <1>0, <1>4 DEF WaitCheck, ProcType, PcSet
<1>5. ASSUME NEW x \in Results, Return(p, x), asleep' \subseteq Readers,
             delivered' \in [Readers -> Seq(Nat)], UNCHANGED interfered
      PROVE  ProcType'
  <2>1. [NoLocals EXCEPT !.ret = x] \in RingLocals
    BY LocalsTypes
  <2>2. rd' \in [Readers -> Locals] /\ \A q \in Readers : rd'[q].size <= RINGBUF_SIZE
    BY <1>0, <1>5, <2>1, LocalStep DEF Return
  <2>3. pc' \in [Readers -> PcSet]
    BY <1>0, <1>5 DEF Return, ProcType, PcSet
  <2> QED BY <1>0, <1>5, <2>2, <2>3 DEF ProcType
<1>6. CASE WaitSignal(p)
  <2>1. Return(p, "restart") /\ asleep' \subseteq Readers /\ UNCHANGED <<delivered, interfered>>
    BY <1>0, <1>6 DEF WaitSignal, ProcType, history
  <2> QED BY <1>0, <1>5, <2>1 DEF Results, ProcType
<1>7. CASE ReadLen(p)
  <2> DEFINE r == [rd[p] EXCEPT !.len = Clamp(rb.size, rd[p].want)]
  <2>1. r \in RingLocals
    <3>1. Clamp(rb.size, rd[p].want) \in Int
      BY <1>1, ClampType DEF Locals
    <3> QED BY <1>1, <3>1 DEF Locals, RingLocals
  <2>2. rd' = [rd EXCEPT ![p] = r]
    BY <1>7 DEF ReadLen
  <2> HIDE DEF r
  <2>3. pc' \in [Readers -> PcSet] /\ UNCHANGED <<asleep, delivered>>
    BY <1>0, <1>7 DEF ReadLen, ProcType, PcSet
  <2>4. interfered' \in [Readers -> BOOLEAN]
    BY <1>0, <1>7 DEF ReadLen, ProcType
  <2> QED BY <1>0, <2>1, <2>2, <2>3, <2>4, LocalStep DEF ProcType
<1>8. CASE ReadEmpty(p)
  BY <1>0, <1>5, <1>8 DEF ReadEmpty, Results, ProcType
<1>9. CASE ReadCopy(p)
  <2>1. CASE pc' = [pc EXCEPT ![p] = "pop"] /\ rd' = [rd EXCEPT ![p].got = Append(@, rd[p].item)]
    <3> DEFINE r == [rd[p] EXCEPT !.got = Append(@, rd[p].item)]
    <3>1. r \in RingLocals
      <4>1. Append(rd[p].got, rd[p].item) \in Seq(Nat)
        BY <1>1 DEF Locals
      <4> QED BY <1>1, <4>1 DEF Locals, RingLocals
    <3>2. rd' = [rd EXCEPT ![p] = r]
      BY <2>1
    <3> HIDE DEF r
    <3>3. pc' \in [Readers -> PcSet] /\ UNCHANGED <<asleep, delivered, interfered>>
      BY <1>0, <1>9, <2>1 DEF ReadCopy, ProcType, PcSet
    <3> QED BY <1>0, <3>1, <3>2, <3>3, LocalStep DEF ProcType
  <2>2. CASE Return(p, "fault")
    BY <1>0, <1>5, <1>9, <2>2 DEF ReadCopy, Results, ProcType
  <2> QED BY <1>9, <2>1, <2>2 DEF ReadCopy
<1>10. CASE ReadReturn(p)
  <2>1. delivered' \in [Readers -> Seq(Nat)]
    <3>1. delivered[p] \o rd[p].got \in Seq(Nat)
      BY <1>0, <1>1 DEF ProcType, Locals
    <3> QED BY <1>0, <1>10, <3>1 DEF ReadReturn, ProcType
  <2>2. \E x \in Results : Return(p, x)
    BY <1>10 DEF ReadReturn, Results
  <2>3. UNCHANGED <<asleep, interfered>>
    BY <1>10 DEF ReadReturn
  <2> QED BY <1>0, <1>5, <2>1, <2>2, <2>3 DEF ProcType
<1>11. CASE PollStart(p)
  <2>1. rd' = [rd EXCEPT ![p] = NoLocals] /\ UNCHANGED <<asleep, delivered, interfered>>
    BY <1>11 DEF PollStart, history
  <2>2. pc' \in [Readers -> PcSet]
    BY <1>0, <1>11 DEF PollStart, ProcType, PcSet
  <2> QED BY <1>0, <2>1, <2>2, LocalsTypes, LocalStep DEF ProcType
<1>12. CASE myfbpoll(p)
  <2>1. CASE Return(p, "ok") /\ asleep' = asleep \ {p} /\ UNCHANGED interfered
    BY <1>0, <1>5, <1>12, <2>1 DEF myfbpoll, Results, ProcType
  <2>2. CASE UNCHANGED rd
    <3>1. asleep' \subseteq Readers /\ pc' \in [Readers -> PcSet] /\ UNCHANGED delivered
      BY <1>0, <1>12, <2>2 DEF myfbpoll, ProcType, PcSet, Return
    <3>2. interfered' \in [Readers -> BOOLEAN]
      BY <1>0, <1>12 DEF myfbpoll, ProcType
    <3> QED BY <1>0, <2>2, <3>1, <3>2 DEF ProcType
  <2> QED BY <1>12, <2>1, <2>2 DEF myfbpoll
<1>13. CASE StatsSize(p)
  <2> DEFINE r == [NoLocals EXCEPT !.bufcnt = rb.size]
  <2>1. rd' = [rd EXCEPT ![p] = r] /\ UNCHANGED <<asleep, delivered, interfered>>
    BY <1>13 DEF StatsSize, history
  <2>2. r \in RingLocals
    BY <1>1, LocalsTypes
  <2>3. pc' \in [Readers -> PcSet]
    BY <1>0, <1>13 DEF StatsSize, ProcType, PcSet
  <2> HIDE DEF r
  <2> QED BY <1>0, <2>1, <2>2, <2>3, LocalStep DEF ProcType
<1>14. CASE StatsLost(p)
  <2> DEFINE r == [rd[p] EXCEPT !.dropcnt = rb.dropcount]
  <2>1. rd' = [rd EXCEPT ![p] = r] /\ UNCHANGED <<asleep, delivered, interfered>>
    BY <1>14 DEF StatsLost, history
  <2>2. r \in RingLocals
    BY <1>1 DEF Locals, RingLocals
  <2>3. pc' \in [Readers -> PcSet]
    BY <1>0, <1>14 DEF StatsLost, ProcType, PcSet
  <2> HIDE DEF r
  <2> QED BY <1>0, <2>1, <2>2, <2>3, LocalStep DEF ProcType
<1> QED BY <1>2, <1>3, <1>4, <1>6, <1>7, <1>8, <1>9, <1>10, <1>11, <1>12, <1>13, <1>14 DEF Call

(* The steps, grouped by what they change. *)
LEMMA NextCases ==
  ASSUME [Next]_vars
  PROVE  \/ Timer \/ IrqEnter \/ myirq_top
         \/ BottomSample \/ BottomReserve \/ BottomStore \/ BottomWake \/ BottomDone
         \/ \E p \in Readers : Call(p) \/ ReadPop(p) \/ ReadPopped(p)
         \/ ResetFirst \/ ResetSecond \/ UNCHANGED vars
<1>1. ASSUME NEW p \in Readers, ReadStep(p) PROVE Call(p) \/ ReadPop(p) \/ ReadPopped(p)
  BY <1>1 DEF ReadStep, Call
<1>2. ASSUME NEW p \in Readers,
             \/ \E want \in 0 .. MaxCount, nonblock \in BOOLEAN : ReadStart(p, want, nonblock)
             \/ PollStart(p) \/ WaitSignal(p) \/ StatsSize(p) \/ StatsLost(p)
      PROVE  Call(p)
  BY <1>2 DEF Call
<1> QED BY <1>1, <1>2 DEF Next, myirq_bottom

(* The first half of a pop: what the process reads from the ring. *)
LEMMA PopLocals ==
  ASSUME TypeInv, NEW p \in Readers, ReadPop(p)
  PROVE  /\ rd'[p] \in RingLocals
         /\ rd'[p].item = ringbuf_front(rb) /\ rd'[p].tail = rb.tail /\ rd'[p].size = rb.size
         /\ rd'[p].got = rd[p].got /\ rd'[p].len = rd[p].len /\ rd'[p].want = rd[p].want
         /\ rd'[p].ret = rd[p].ret /\ rd'[p].polled = rd[p].polled
         /\ rd'[p].bufcnt = rd[p].bufcnt /\ rd'[p].dropcnt = rd[p].dropcnt
         /\ rd' \in [Readers -> Locals]
         /\ \A q \in Readers \ {p} : rd'[q] = rd[q]
<1>1. rd[p] \in Locals /\ rb.tail \in Slots /\ rb.size \in Int /\ rb.size <= RINGBUF_SIZE
      /\ ringbuf_front(rb) \in Nat
  BY DEF TypeInv, AnyRing, ringbuf_front
<1> DEFINE x == ringbuf_front(rb)
           r == [rd[p] EXCEPT !.item = x, !.tail = rb.tail, !.size = rb.size]
<1>2. rd' = [rd EXCEPT ![p] = r]
  BY DEF ReadPop
<1> HIDE DEF x
<1>3. /\ r.item = x /\ r.tail = rb.tail /\ r.size = rb.size
      /\ r.got = rd[p].got /\ r.len = rd[p].len /\ r.want = rd[p].want
      /\ r.ret = rd[p].ret /\ r.polled = rd[p].polled
      /\ r.bufcnt = rd[p].bufcnt /\ r.dropcnt = rd[p].dropcnt
  BY <1>1 DEF Locals
<1>4. r \in Locals
  <2>1. x \in Nat
    BY <1>1 DEF x
  <2> QED BY <1>1, <2>1 DEF Locals
<1> HIDE DEF r
<1>5. rd'[p] = r /\ rd' \in [Readers -> Locals] /\ \A q \in Readers \ {p} : rd'[q] = rd[q]
  BY <1>2, <1>4 DEF TypeInv
<1> QED BY <1>1, <1>3, <1>4, <1>5 DEF RingLocals, x

(* A size that a push or a pop computes fits the ring, even in a race. *)
LEMMA TypeStep == ASSUME TypeInv, [Next]_vars PROVE TypeInv'
<1>0. rb \in AnyRing /\ rb.size \in Int /\ rb.size <= RINGBUF_SIZE /\ rb.head \in Slots
      /\ rb.tail \in Slots /\ v.item \in Nat /\ v.item \in U32 /\ v.head \in Slots
  BY DEF TypeInv, AnyRing, U32
<1>1. CASE Timer
  BY <1>1, BellTypes DEF Timer, TypeInv, ringVars, procVars, history
<1>2. CASE IrqEnter
  BY <1>2, DescTypes DEF IrqEnter, TypeInv, ringVars, procVars, history
<1>3. CASE myirq_top
  BY <1>3, DescTypes DEF myirq_top, TypeInv, ringVars, procVars, history
<1>4. CASE BottomSample
  <2>1. bell' \in FakeBellState /\ desc' \in IrqDesc
    BY <1>4, BellTypes, DescTypes DEF BottomSample, TypeInv
  <2>2. v' \in [item : U32, head : Slots]
    BY <1>4 DEF BottomSample, TypeInv, FakeBellState, Slots
  <2> QED BY <1>4, <2>1, <2>2 DEF BottomSample, TypeInv, ringVars, procVars, history
<1>5. CASE BottomReserve
  <2>1. rb' = push_reserve(rb) /\ v' = [v EXCEPT !.head = rb.head] /\ bpc' = "store"
        /\ lk' = Bottom /\ raced' = (raced \/ resetting)
        /\ UNCHANGED <<bell, desc, procVars, resetting, pushed, delivered, interfered>>
    BY <1>5 DEF BottomReserve, Lock
  <2>2. rb' \in AnyRing /\ rb'.size <= RINGBUF_SIZE
    BY <1>0, <2>1, ReserveFields
  <2>3. v' \in [item : U32, head : Slots]
    BY <1>0, <2>1 DEF TypeInv
  <2>4. raced' \in BOOLEAN
    BY <2>1, Zenon DEF TypeInv
  <2> QED BY <2>1, <2>2, <2>3, <2>4 DEF TypeInv, procVars
<1>6. CASE BottomStore
  <2>1. PICK h \in {v.head, rb.head} : rb' = push_store(rb, h, v.item)
    BY <1>6 DEF BottomStore
  <2>2. rb' \in AnyRing /\ rb'.size <= RINGBUF_SIZE
    <3>1. h \in Slots
      BY <1>0
    <3>2. rb \in AnyRing /\ v.item \in Nat
      BY <1>0 DEF U32
    <3>3. push_store(rb, h, v.item) \in AnyRing /\ push_store(rb, h, v.item).size = rb.size
      BY <3>1, <3>2, StoreFields
    <3> QED BY <1>0, <2>1, <3>3
  <2>3. bpc' = "wake" /\ lk' = Nobody /\ pushed' = pushed + 1
        /\ UNCHANGED <<bell, desc, v, procVars, resetting, delivered, interfered, raced>>
    BY <1>6 DEF BottomStore, Unlock, history
  <2> QED BY <2>2, <2>3 DEF TypeInv, procVars
<1>7. CASE BottomWake
  BY <1>7 DEF BottomWake, TypeInv, ringVars, history
<1>8. CASE BottomDone
  BY <1>8, DescTypes DEF BottomDone, TypeInv, ringVars, procVars, history
<1>9. ASSUME NEW p \in Readers, Call(p) PROVE TypeInv'
  <2>1. CallFrame(p) /\ ProcType'
    BY <1>9, CallFrames, CallTypes
  <2> QED BY <2>1 DEF CallFrame, ProcType, PcSet, TypeInv, irqVars, ringVars
<1>10. ASSUME NEW p \in Readers, ReadPop(p) PROVE TypeInv'
  <2>1. rd' \in [Readers -> Locals] /\ \A q \in Readers : rd'[q].size <= RINGBUF_SIZE
    BY <1>10, PopLocals DEF TypeInv, RingLocals
  <2>2. pc' = [pc EXCEPT ![p] = "pop2"] /\ lk' = p /\ raced' = (raced \/ resetting)
        /\ UNCHANGED <<irqVars, rb, asleep, resetting, pushed, delivered, interfered>>
    BY <1>10 DEF ReadPop, Lock, history
  <2>3. raced' \in BOOLEAN
    BY <2>2, Zenon DEF TypeInv
  <2> QED BY <2>1, <2>2, <2>3 DEF TypeInv, irqVars
<1>11. ASSUME NEW p \in Readers, ReadPopped(p) PROVE TypeInv'
  <2>1. PICK t \in {rd[p].tail, rb.tail}, n \in {rd[p].size, rb.size} :
          rb' = ringbuf_pop([rb EXCEPT !.tail = t, !.size = n])
    BY <1>11 DEF ReadPopped
  <2>2. t \in Slots /\ n \in Int /\ n <= RINGBUF_SIZE
    <3>1. rd[p] \in Locals /\ rd[p].size <= RINGBUF_SIZE
      BY DEF TypeInv
    <3>2. rd[p].tail \in Slots /\ rd[p].size \in Int
      BY <3>1 DEF Locals
    <3> QED BY <1>0, <3>1, <3>2
  <2>3. rb' \in AnyRing /\ rb'.size <= RINGBUF_SIZE
    <3>1. rb' \in AnyRing /\ rb'.size = n - 1
      BY <1>0, <2>1, <2>2, PopFields
    <3> QED BY <2>2, <3>1
  <2>4. interfered' \in [Readers -> BOOLEAN]
    BY <1>11 DEF ReadPopped, Interfere, TypeInv
  <2>5. pc' = [pc EXCEPT ![p] = "copy"] /\ lk' = Nobody
        /\ UNCHANGED <<irqVars, asleep, rd, resetting, pushed, delivered, raced>>
    BY <1>11 DEF ReadPopped, Unlock
  <2> QED BY <2>3, <2>4, <2>5 DEF TypeInv, irqVars
<1>12. CASE ResetFirst
  <2>1. rb' = [rb EXCEPT !.data = ringbuf_init.data, !.head = ringbuf_init.head]
        /\ lk' = Nobody /\ resetting' = TRUE /\ raced' = (raced \/ InSection)
        /\ UNCHANGED <<irqVars, procVars, pushed, delivered>>
    BY <1>12 DEF ResetFirst
  <2>2. rb' \in AnyRing /\ rb'.size <= RINGBUF_SIZE
    BY <1>0, <2>1, ResetFields
  <2>3. interfered' \in [Readers -> BOOLEAN]
    BY <1>12 DEF ResetFirst, Interfere, TypeInv
  <2>4. raced' \in BOOLEAN /\ resetting' \in BOOLEAN
    BY <2>1, Zenon DEF TypeInv, InSection
  <2> QED BY <2>1, <2>2, <2>3, <2>4 DEF TypeInv, irqVars, procVars
<1>13. CASE ResetSecond
  <2>1. rb' = [rb EXCEPT !.tail = ringbuf_init.tail, !.size = ringbuf_init.size,
                         !.dropcount = ringbuf_init.dropcount]
        /\ lk' = Nobody /\ resetting' = FALSE /\ raced' = (raced \/ InSection)
        /\ UNCHANGED <<irqVars, procVars, pushed, delivered>>
    BY <1>13 DEF ResetSecond
  <2>2. rb' \in AnyRing /\ rb'.size <= RINGBUF_SIZE
    <3>1. rb' \in AnyRing /\ rb'.size = 0
      BY <1>0, <2>1, ResetFields
    <3> QED BY <3>1
  <2>3. interfered' \in [Readers -> BOOLEAN]
    BY <1>13 DEF ResetSecond, Interfere, TypeInv
  <2>4. raced' \in BOOLEAN /\ resetting' \in BOOLEAN
    BY <2>1, Zenon DEF TypeInv, InSection
  <2> QED BY <2>1, <2>2, <2>3, <2>4 DEF TypeInv, irqVars, procVars
<1>14. CASE UNCHANGED vars
  BY <1>14 DEF vars, irqVars, ringVars, procVars, history, TypeInv
<1> QED BY <1>1, <1>2, <1>3, <1>4, <1>5, <1>6, <1>7, <1>8, <1>9, <1>10, <1>11, <1>12, <1>13,
           <1>14, NextCases

-----------------------------------------------------------------------------
(* The interrupt. *)

(* What the callbacks do to the registers that matter. *)
LEMMA BellFields ==
  ASSUME NEW b \in FakeBellState, b.irq_enable, b.line <=> b.irq_status
  PROVE  /\ b.event_count < MaxU32 =>
              LET c == fakebell_timer_cb(b)
              IN  /\ c.irq_enable /\ (c.line <=> c.irq_status) /\ c.irq_status
                  /\ c.event_count = IF b.irq_status THEN b.event_count ELSE b.event_count + 1
         /\ LET c == fakebell_write_ack(b)
            IN  c.irq_enable /\ ~c.line /\ ~c.irq_status /\ c.event_count = b.event_count
<1>1. LET c == fakebell_write_ack(b)
      IN  c.irq_enable /\ ~c.line /\ ~c.irq_status /\ c.event_count = b.event_count
  BY DEF FakeBellState, fakebell_write_ack, fakebell_update_irq
<1>2. ASSUME b.event_count < MaxU32
      PROVE  LET c == fakebell_timer_cb(b)
             IN  /\ c.irq_enable /\ (c.line <=> c.irq_status) /\ c.irq_status
                 /\ c.event_count = IF b.irq_status THEN b.event_count ELSE b.event_count + 1
  <2>1. CASE b.irq_status
    BY <2>1 DEF fakebell_timer_cb
  <2>2. CASE ~b.irq_status
    <3>1. Inc32(b.event_count) = b.event_count + 1
      BY <1>2 DEF Inc32, FakeBellState, U32
    <3> QED BY <2>2, <3>1 DEF FakeBellState, fakebell_timer_cb, fakebell_update_irq
  <2> QED BY <2>1, <2>2
<1> QED BY <1>1, <1>2

(* What the kernel's flow does to a one-shot line. *)
LEMMA DescFields ==
  ASSUME NEW d \in IrqDesc, d.requested, d.oneshot
  PROVE  /\ LET e == irq_enter(d)
            IN  e.requested /\ e.oneshot /\ e.masked /\ e.hard /\ (e.woken <=> d.woken)
         /\ LET e == irq_return_wake_thread(d)
            IN  e.requested /\ e.oneshot /\ e.masked /\ ~e.hard /\ e.woken
         /\ LET e == irq_thread_start(d)
            IN  e.requested /\ e.oneshot /\ ~e.woken /\ (e.masked <=> d.masked)
                /\ (e.hard <=> d.hard)
         /\ LET e == irq_thread_done(d)
            IN  e.requested /\ e.oneshot /\ (e.masked <=> d.woken \/ d.hard)
                /\ (e.woken <=> d.woken) /\ (e.hard <=> d.hard)
BY DEF IrqDesc, irq_enter, irq_return_wake_thread, irq_thread_start, irq_thread_done

(* The interrupt has just been requested and enabled. *)
LEMMA IrqInit == ASSUME Init PROVE IrqInv
<1>1. fakebell_realize \in FakeBellState /\ ~fakebell_realize.irq_status
      /\ fakebell_realize.event_count = 0
  BY DEF FakeBellState, fakebell_realize, U32
<1>2. bell.irq_enable /\ ~bell.line /\ ~bell.irq_status /\ bell.event_count = 0
  BY <1>1 DEF Init, FakeBellState, fakebell_write_enable, fakebell_update_irq
<1>3. irq_unused \in IrqDesc /\ ~irq_unused.hard /\ ~irq_unused.woken
  BY DEF IrqDesc, irq_unused
<1>4. desc.requested /\ desc.oneshot /\ ~desc.hard /\ ~desc.woken
  BY <1>3 DEF Init, IrqDesc, request_threaded_irq
<1>5. pushed = 0 /\ bpc = "idle"
  BY DEF Init
<1> QED BY <1>2, <1>4, <1>5 DEF IrqInv

(* Every step keeps the protocol of the interrupt. *)
LEMMA IrqStep == ASSUME TypeInv, IrqInv, [Next]_vars PROVE IrqInv'
<1>0. bell \in FakeBellState /\ desc \in IrqDesc /\ pushed \in Nat /\ bell.event_count \in Nat
      /\ v \in [item : U32, head : Slots]
  BY DEF TypeInv, FakeBellState, U32
<1>1. CASE Timer
  BY <1>0, <1>1, BellFields DEF Timer, IrqInv
<1>2. CASE IrqEnter
  BY <1>0, <1>2, DescFields DEF IrqEnter, IrqInv, irq_deliverable
<1>3. CASE myirq_top
  BY <1>0, <1>3, DescFields DEF myirq_top, IrqInv
<1>4. CASE BottomSample
  <2>1. /\ bell'.irq_enable /\ ~bell'.line /\ ~bell'.irq_status
        /\ bell'.event_count = bell.event_count
        /\ desc'.requested /\ desc'.oneshot /\ ~desc'.woken
        /\ (desc'.masked <=> desc.masked) /\ (desc'.hard <=> desc.hard)
    BY <1>0, <1>4, BellFields, DescFields DEF BottomSample, IrqInv
  <2>2. bpc = "idle" /\ desc.woken /\ bpc' = "push" /\ v'.item = bell.event_count /\ pushed' = pushed
    BY <1>4 DEF BottomSample
  <2> QED BY <1>0, <2>1, <2>2 DEF IrqInv
<1>5. CASE BottomReserve
  <2>1. bpc = "push" /\ bpc' = "store" /\ v'.item = v.item /\ UNCHANGED <<bell, desc, pushed>>
    BY <1>0, <1>5 DEF BottomReserve
  <2> QED BY <1>0, <2>1 DEF IrqInv
<1>6. CASE BottomStore
  <2>1. bpc = "store" /\ bpc' = "wake" /\ pushed' = pushed + 1 /\ UNCHANGED <<bell, desc>>
    BY <1>6 DEF BottomStore
  <2> QED BY <1>0, <2>1 DEF IrqInv
<1>7. CASE BottomWake
  BY <1>0, <1>7 DEF BottomWake, IrqInv
<1>8. CASE BottomDone
  <2>1. bpc = "done" /\ bpc' = "idle" /\ desc' = irq_thread_done(desc) /\ UNCHANGED <<bell, pushed, v>>
    BY <1>8 DEF BottomDone
  <2>2. /\ desc'.requested /\ desc'.oneshot /\ (desc'.masked <=> desc.woken \/ desc.hard)
        /\ (desc'.woken <=> desc.woken) /\ (desc'.hard <=> desc.hard)
    BY <1>0, <2>1, DescFields DEF IrqInv
  <2> QED BY <1>0, <2>1, <2>2 DEF IrqInv
<1>9. ASSUME UNCHANGED <<irqVars, pushed>> PROVE IrqInv'
  BY <1>9 DEF irqVars, IrqInv
<1>10. ASSUME NEW p \in Readers, Call(p) PROVE UNCHANGED <<irqVars, pushed>>
  BY <1>10, CallFrames DEF CallFrame
<1>11. ASSUME NEW p \in Readers, ReadPop(p) \/ ReadPopped(p) PROVE UNCHANGED <<irqVars, pushed>>
  BY <1>11 DEF ReadPop, ReadPopped
<1>12. CASE ResetFirst \/ ResetSecond \/ UNCHANGED vars
  BY <1>9, <1>12 DEF ResetFirst, ResetSecond, vars
<1> QED BY <1>1, <1>2, <1>3, <1>4, <1>5, <1>6, <1>7, <1>8, <1>9, <1>10, <1>11, <1>12, NextCases

-----------------------------------------------------------------------------
(* The lock. *)

(* The ring is empty and free. *)
LEMMA LockInit == ASSUME Init PROVE LockInv
<1>1. rb.size = 0
  BY DEF Init, ringbuf_init
<1> QED BY <1>1 DEF Init, LockInv, Bottom

(* The steps that leave ring, lock and pushes alone. *)
Aside ==
  /\ UNCHANGED <<ringVars, resetting, pushed, raced>>
  /\ bpc' = "store" <=> bpc = "store"
  /\ bpc = "store" => UNCHANGED v
  /\ \A p \in Readers : (pc'[p] = "pop2" <=> pc[p] = "pop2") /\ (pc[p] = "pop2" => rd'[p] = rd[p])

(* The steps that touch neither the ring nor a sample in hand. *)
LEMMA AsideSteps ==
  ASSUME TypeInv,
         \/ Timer \/ IrqEnter \/ myirq_top \/ BottomSample \/ BottomWake \/ BottomDone
         \/ \E p \in Readers : Call(p)
         \/ UNCHANGED vars
  PROVE  Aside
<1>1. CASE Timer \/ IrqEnter \/ myirq_top
  BY <1>1 DEF Timer, IrqEnter, myirq_top, procVars, Aside
<1>2. CASE BottomSample \/ BottomDone
  BY <1>2 DEF BottomSample, BottomDone, procVars, Aside
<1>3. CASE BottomWake
  BY <1>3 DEF BottomWake, Aside
<1>4. ASSUME NEW p \in Readers, Call(p) PROVE Aside
  <2>1. CallFrame(p)
    BY <1>4, CallFrames
  <2> QED BY <2>1 DEF CallFrame, Aside, irqVars
<1>5. CASE UNCHANGED vars
  BY <1>5 DEF vars, irqVars, procVars, Aside
<1> QED BY <1>1, <1>2, <1>3, <1>4, <1>5

(* They keep what the lock protects. *)
LEMMA AsideKeeps == ASSUME LockInv, RingInv, Aside PROVE LockInv' /\ RingInv' /\ Low' = Low
<1>1. Low' = Low /\ Storing' = Storing
  BY DEF Aside, Low, Storing, ringVars
<1>2. LockInv'
  BY DEF Aside, LockInv, ringVars, ringbuf_front
<1>3. RingInv'
  BY <1>1 DEF Aside, RingInv, ringVars
<1> QED BY <1>1, <1>2, <1>3

(* The steps that change the ring or its lock, while no reset has raced.   *)
(* BottomReserve makes room for one sample.                                *)
LEMMA ReserveEffect ==
  ASSUME TypeInv, LockInv, BottomReserve, ~raced'
  PROVE  /\ ~raced /\ ~resetting /\ lk = Nobody /\ bpc # "store" /\ \A p \in Readers : pc[p] # "pop2"
         /\ rb' \in AnyRing /\ rb'.data = rb.data /\ rb'.head = rb.head /\ rb.size >= 0
         /\ rb'.tail = (IF rb.size = RINGBUF_SIZE THEN After(rb.tail) ELSE rb.tail)
         /\ rb'.size = (IF rb.size = RINGBUF_SIZE THEN rb.size ELSE rb.size + 1)
         /\ rb'.dropcount = (IF rb.size = RINGBUF_SIZE THEN rb.dropcount + 1 ELSE rb.dropcount)
         /\ bpc' = "store" /\ lk' = Bottom /\ v'.head = rb.head /\ v'.item = v.item
         /\ dropped' = (IF rb.size = RINGBUF_SIZE THEN dropped \union {ringbuf_front(rb)} ELSE dropped)
         /\ UNCHANGED <<pc, rd, resetting, pushed, cleared, lost, delivered, interfered>>
<1>1. /\ bpc = "push" /\ lk = Nobody /\ lk' = Bottom /\ raced' = (raced \/ resetting)
      /\ rb' = push_reserve(rb) /\ v' = [v EXCEPT !.head = rb.head] /\ bpc' = "store"
      /\ dropped' = (IF rb.size = RINGBUF_SIZE THEN dropped \union {ringbuf_front(rb)} ELSE dropped)
      /\ UNCHANGED <<pc, rd, resetting, pushed, cleared, lost, delivered, interfered>>
  BY DEF BottomReserve, Lock, procVars
<1>2. ~raced /\ ~resetting
  BY <1>1
<1>3. rb.size >= 0 /\ \A p \in Readers : pc[p] # "pop2"
  BY <1>1, <1>2 DEF LockInv
<1>4. rb \in AnyRing /\ v'.head = rb.head /\ v'.item = v.item
  BY <1>1 DEF TypeInv
<1>5. /\ rb' \in AnyRing /\ rb'.data = rb.data /\ rb'.head = rb.head
      /\ rb'.tail = (IF rb.size = RINGBUF_SIZE THEN After(rb.tail) ELSE rb.tail)
      /\ rb'.size = (IF rb.size = RINGBUF_SIZE THEN rb.size ELSE rb.size + 1)
      /\ rb'.dropcount = (IF rb.size = RINGBUF_SIZE THEN rb.dropcount + 1 ELSE rb.dropcount)
  BY <1>1, <1>4, ReserveFields
<1> QED BY <1>1, <1>2, <1>3, <1>4, <1>5

(* BottomStore puts the next sample into it. *)
LEMMA StoreEffect ==
  ASSUME TypeInv, IrqInv, LockInv, BottomStore, ~raced'
  PROVE  /\ ~raced /\ ~resetting /\ lk = Bottom /\ bpc = "store" /\ rb.size > 0
         /\ \A p \in Readers : pc[p] # "pop2"
         /\ rb' \in AnyRing /\ rb'.data = [rb.data EXCEPT ![rb.head] = pushed + 1]
         /\ rb'.head = After(rb.head) /\ rb'.tail = rb.tail /\ rb'.size = rb.size
         /\ rb'.dropcount = rb.dropcount
         /\ bpc' = "wake" /\ lk' = Nobody /\ pushed' = pushed + 1
         /\ UNCHANGED <<v, pc, rd, resetting, history>>
<1>1. PICK h \in {v.head, rb.head} : rb' = push_store(rb, h, v.item)
  BY DEF BottomStore
<1>2. /\ bpc = "store" /\ bpc' = "wake" /\ lk' = Nobody /\ pushed' = pushed + 1
      /\ UNCHANGED <<v, pc, rd, resetting, history, raced>>
  BY DEF BottomStore, Unlock, procVars
<1>3. ~raced
  BY <1>2
<1>4. lk = Bottom /\ v.head = rb.head /\ rb.size > 0 /\ ~resetting
  BY <1>2, <1>3 DEF LockInv
<1>5. \A p \in Readers : pc[p] # "pop2"
  BY <1>3, <1>4 DEF LockInv
<1>6. rb \in AnyRing /\ rb.head \in Slots /\ v.item = pushed + 1 /\ v.item \in Nat
  BY <1>2 DEF TypeInv, AnyRing, IrqInv
<1>7. rb' = push_store(rb, rb.head, pushed + 1)
  BY <1>1, <1>4, <1>6
<1>8. /\ rb' \in AnyRing /\ rb'.data = [rb.data EXCEPT ![rb.head] = pushed + 1]
      /\ rb'.head = After(rb.head) /\ rb'.tail = rb.tail /\ rb'.size = rb.size
      /\ rb'.dropcount = rb.dropcount
  BY <1>6, <1>7, StoreFields
<1> QED BY <1>2, <1>3, <1>4, <1>5, <1>8

(* ReadPop takes the lock and reads. *)
LEMMA PopEffect ==
  ASSUME TypeInv, LockInv, NEW p \in Readers, ReadPop(p), ~raced'
  PROVE  /\ ~raced /\ ~resetting /\ lk = Nobody /\ rb.size > 0 /\ pc[p] = "pop"
         /\ Len(rd[p].got) < rd[p].len
         /\ bpc # "store" /\ (\A q \in Readers : pc[q] # "pop2")
         /\ lk' = p /\ pc'[p] = "pop2" /\ (\A q \in Readers \ {p} : pc'[q] = pc[q])
         /\ UNCHANGED <<rb, bpc, v, resetting, pushed, history>>
<1>1. /\ pc[p] = "pop" /\ Len(rd[p].got) < rd[p].len /\ rb.size # 0 /\ lk = Nobody /\ lk' = p
      /\ raced' = (raced \/ resetting) /\ pc' = [pc EXCEPT ![p] = "pop2"]
      /\ UNCHANGED <<rb, bpc, v, resetting, pushed, history>>
  BY DEF ReadPop, Lock, irqVars
<1>2. ~raced /\ ~resetting
  BY <1>1
<1>3. rb.size \in Int /\ rb.size >= 0 /\ bpc # "store" /\ \A q \in Readers : pc[q] # "pop2"
  BY <1>1, <1>2 DEF LockInv, TypeInv, AnyRing, Bottom
<1>4. pc'[p] = "pop2" /\ \A q \in Readers \ {p} : pc'[q] = pc[q]
  BY <1>1 DEF TypeInv
<1> QED BY <1>1, <1>2, <1>3, <1>4

(* ReadPopped removes what was read. *)
LEMMA PoppedEffect ==
  ASSUME TypeInv, LockInv, NEW p \in Readers, ReadPopped(p), ~raced'
  PROVE  /\ ~raced /\ ~resetting /\ lk = p /\ rb.size > 0 /\ pc[p] = "pop2" /\ bpc # "store"
         /\ rd[p].item = ringbuf_front(rb) /\ \A q \in Readers \ {p} : pc[q] # "pop2"
         /\ rb' \in AnyRing /\ rb'.data = rb.data /\ rb'.head = rb.head
         /\ rb'.tail = After(rb.tail) /\ rb'.size = rb.size - 1 /\ rb'.dropcount = rb.dropcount
         /\ lk' = Nobody /\ pc'[p] = "copy" /\ (\A q \in Readers \ {p} : pc'[q] = pc[q])
         /\ UNCHANGED <<bpc, v, rd, resetting, pushed, dropped, cleared, lost, delivered>>
         /\ \A q \in Readers :
              interfered'[q] <=> interfered[q]
                \/ (q # p /\ pc[q] \in {"ready", "len", "pop", "pop2", "copy"})
<1>1. PICK t \in {rd[p].tail, rb.tail}, n \in {rd[p].size, rb.size} :
        rb' = ringbuf_pop([rb EXCEPT !.tail = t, !.size = n])
  BY DEF ReadPopped
<1>2. /\ pc[p] = "pop2" /\ lk' = Nobody /\ pc' = [pc EXCEPT ![p] = "copy"]
      /\ UNCHANGED <<bpc, v, rd, resetting, pushed, dropped, cleared, lost, delivered, raced>>
  BY DEF ReadPopped, Unlock, irqVars
<1>3. ~raced
  BY <1>2
<1>4. lk = p /\ rd[p].tail = rb.tail /\ rd[p].size = rb.size /\ rb.size > 0
      /\ rd[p].item = ringbuf_front(rb) /\ ~resetting /\ bpc # "store"
      /\ \A q \in Readers \ {p} : pc[q] # "pop2"
  BY <1>2, <1>3 DEF LockInv, Bottom
<1>5. rb \in AnyRing /\ rb.tail \in Slots /\ rb.size \in Int
  BY DEF TypeInv, AnyRing
<1>6. rb' = ringbuf_pop([rb EXCEPT !.tail = rb.tail, !.size = rb.size])
  BY <1>1, <1>4
<1>7. /\ rb' \in AnyRing /\ rb'.data = rb.data /\ rb'.head = rb.head
      /\ rb'.tail = After(rb.tail) /\ rb'.size = rb.size - 1 /\ rb'.dropcount = rb.dropcount
  BY <1>5, <1>6, PopFields
<1>8. pc'[p] = "copy" /\ \A q \in Readers \ {p} : pc'[q] = pc[q]
  BY <1>2 DEF TypeInv
<1>9. \A q \in Readers :
        interfered'[q] <=> interfered[q]
          \/ (q # p /\ pc[q] \in {"ready", "len", "pop", "pop2", "copy"})
  BY DEF ReadPopped, Interfere
<1> QED BY <1>2, <1>3, <1>4, <1>7, <1>8, <1>9

(* The two halves of a reset that overlaps no section. *)
LEMMA ResetEffect ==
  ASSUME TypeInv, LockInv, ResetFirst \/ ResetSecond, ~raced'
  PROVE  /\ ~raced /\ bpc # "store" /\ (\A p \in Readers : pc[p] # "pop2")
         /\ lk # Bottom /\ (\A p \in Readers : lk # p) /\ lk' = Nobody
         /\ rb' \in AnyRing
         /\ ResetFirst => /\ ~resetting /\ resetting' = TRUE
                          /\ rb'.head = 0 /\ rb'.size = rb.size /\ rb'.dropcount = rb.dropcount
                          /\ cleared' = cleared \union dropped \union Range(Contents(rb))
                          /\ dropped' = {}
         /\ ResetSecond => /\ resetting /\ resetting' = FALSE
                           /\ rb'.tail = 0 /\ rb'.size = 0 /\ rb'.dropcount = 0
                           /\ rb'.head = rb.head
                           /\ UNCHANGED <<cleared, dropped>>
         /\ UNCHANGED <<bpc, v, pc, rd, pushed, lost, delivered>>
         /\ \A q \in Readers :
              interfered'[q] <=> interfered[q] \/ pc[q] \in {"ready", "len", "pop", "pop2", "copy"}
<1>1. /\ raced' = (raced \/ InSection) /\ lk' = Nobody
      /\ UNCHANGED <<bpc, v, pc, rd, pushed, lost, delivered>>
  BY DEF ResetFirst, ResetSecond, irqVars, procVars
<1>2. ~raced /\ bpc # "store" /\ \A p \in Readers : pc[p] # "pop2"
  BY <1>1 DEF InSection
<1>3. Interfere(Nobody)
  BY DEF ResetFirst, ResetSecond
<1>4. \A q \in Readers :
        interfered'[q] <=> interfered[q] \/ pc[q] \in {"ready", "len", "pop", "pop2", "copy"}
  BY <1>3 DEF Interfere
<1>5. rb \in AnyRing
  BY DEF TypeInv
<1>6. ASSUME ResetFirst
      PROVE  /\ ~resetting /\ resetting' = TRUE
             /\ rb' \in AnyRing /\ rb'.head = 0
             /\ rb'.size = rb.size /\ rb'.dropcount = rb.dropcount
             /\ cleared' = cleared \union dropped \union Range(Contents(rb))
             /\ dropped' = {}
  BY <1>5, <1>6, ResetFields DEF ResetFirst
<1>7. ASSUME ResetSecond
      PROVE  /\ resetting /\ resetting' = FALSE
             /\ rb' \in AnyRing /\ rb'.tail = 0 /\ rb'.size = 0 /\ rb'.dropcount = 0
             /\ rb'.head = rb.head
             /\ UNCHANGED <<cleared, dropped>>
  BY <1>5, <1>7, ResetFields DEF ResetSecond
<1>8. lk # Bottom /\ \A p \in Readers : lk # p
  BY <1>2 DEF LockInv
<1> QED BY <1>1, <1>2, <1>4, <1>6, <1>7, <1>8

(* Sections of the lock exclude each other. *)
LEMMA LockStep == ASSUME TypeInv, IrqInv, LockInv, RingInv, [Next]_vars PROVE LockInv'
<1> SUFFICES ASSUME ~raced' PROVE LockInv'
  BY DEF LockInv
<1>0. rb.size \in Int
  BY DEF TypeInv, AnyRing
<1>1. CASE BottomReserve
  <2>1. /\ bpc' = "store" /\ lk' = Bottom /\ v'.head = rb'.head /\ ~resetting'
        /\ rb'.size > 0 /\ rb'.size >= 0
        /\ \A p \in Readers : pc'[p] # "pop2"
    BY <1>0, <1>1, ReserveEffect
  <2> QED BY <2>1 DEF LockInv, Bottom
<1>2. CASE BottomStore
  <2>1. /\ bpc' = "wake" /\ lk' = Nobody /\ ~resetting' /\ rb'.size >= 0
        /\ \A p \in Readers : pc'[p] # "pop2"
    BY <1>0, <1>2, StoreEffect
  <2> QED BY <2>1 DEF LockInv, Bottom
<1>3. ASSUME NEW p \in Readers, ReadPop(p) PROVE LockInv'
  <2>1. /\ lk' = p /\ pc'[p] = "pop2" /\ bpc' # "store" /\ ~resetting' /\ rb' = rb /\ rb.size > 0
        /\ \A q \in Readers \ {p} : pc'[q] # "pop2"
    BY <1>3, PopEffect
  <2>2. rd'[p].item = ringbuf_front(rb) /\ rd'[p].tail = rb.tail /\ rd'[p].size = rb.size
    BY <1>3, PopLocals
  <2>3. ringbuf_front(rb)' = ringbuf_front(rb)
    BY <2>1 DEF ringbuf_front
  <2> QED BY <1>0, <2>1, <2>2, <2>3 DEF LockInv, Bottom
<1>4. ASSUME NEW p \in Readers, ReadPopped(p) PROVE LockInv'
  <2>1. /\ lk' = Nobody /\ bpc' # "store" /\ ~resetting' /\ rb'.size >= 0
        /\ \A q \in Readers : pc'[q] # "pop2"
    BY <1>0, <1>4, PoppedEffect
  <2> QED BY <2>1 DEF LockInv, Bottom
<1>5. CASE ResetFirst \/ ResetSecond
  <2>1. /\ ~raced /\ lk' = Nobody /\ bpc' # "store" /\ \A q \in Readers : pc'[q] # "pop2"
    BY <1>5, ResetEffect
  <2>2. rb'.size >= 0 /\ (resetting' => rb'.head = 0)
    <3>1. rb.size >= 0
      BY <2>1 DEF LockInv
    <3>2. CASE ResetFirst
      BY <3>1, <3>2, ResetEffect
    <3>3. CASE ResetSecond
      BY <3>3, ResetEffect
    <3> QED BY <1>5, <3>2, <3>3
  <2> QED BY <2>1, <2>2 DEF LockInv, Bottom
<1> QED BY <1>1, <1>2, <1>3, <1>4, <1>5, NextCases, AsideSteps, AsideKeeps

-----------------------------------------------------------------------------
(* The ring. *)

(* The slots of a window are different. *)
LEMMA SlotInjective ==
  ASSUME NEW t \in Slots, NEW i \in 0 .. RINGBUF_SIZE - 1,
         NEW j \in 0 .. RINGBUF_SIZE - 1, i # j
  PROVE  Slot(t, i) # Slot(t, j)
  BY DEF Slots, Slot

(* One slot further along, from either end. *)
LEMMA SlotStep ==
  ASSUME NEW t \in Slots, NEW i \in 0 .. RINGBUF_SIZE - 1
  PROVE  Slot(Slot(t, i), 1) = Slot(t, i + 1) /\ Slot(Slot(t, 1), i) = Slot(t, i + 1)
  BY DEF Slots, Slot

(* The ends of a window. *)
LEMMA SlotEnds ==
  ASSUME NEW t \in Slots PROVE Slot(t, 0) = t /\ Slot(t, RINGBUF_SIZE) = t
  BY DEF Slots, Slot

(* An empty ring. *)
LEMMA RingInit == ASSUME Init PROVE RingInv /\ Low = 0
<1>1. rb.head = 0 /\ rb.tail = 0 /\ rb.size = 0 /\ bpc = "idle" /\ ~resetting /\ pushed = 0
  BY DEF Init, ringbuf_init
<1> QED BY <1>1 DEF RingInv, Low, Storing, Slot

(* The facts of a state from which the ring's lemmas are proved. *)
LEMMA RingFacts ==
  ASSUME TypeInv, LockInv, RingInv, ~raced, ~resetting
  PROVE  /\ rb.tail \in Slots /\ rb.head \in Slots /\ rb.size \in 0 .. RINGBUF_SIZE /\ pushed \in Nat
         /\ rb.data \in [Slots -> Nat] /\ Low = pushed + Storing - rb.size /\ Low \in Int
         /\ Storing \in {0, 1} /\ (bpc = "store" <=> Storing = 1) /\ rb.size >= Storing
         /\ rb.head = Slot(rb.tail, rb.size - Storing)
         /\ \A i \in 0 .. rb.size - Storing - 1 : rb.data[Slot(rb.tail, i)] = Low + 1 + i
<1>1. rb.tail \in Slots /\ rb.head \in Slots /\ rb.size \in Int /\ rb.size <= RINGBUF_SIZE
      /\ pushed \in Nat /\ rb.data \in [Slots -> Nat]
  BY DEF TypeInv, AnyRing
<1>2. rb.size >= 0 /\ (bpc = "store" => rb.size > 0)
  BY DEF LockInv
<1>3. Storing \in {0, 1} /\ (bpc = "store" <=> Storing = 1)
  BY DEF Storing
<1>4. Low = pushed + Storing - rb.size
  BY DEF Low
<1>5. /\ rb.head = Slot(rb.tail, rb.size - Storing)
      /\ \A i \in 0 .. rb.size - Storing - 1 : rb.data[Slot(rb.tail, i)] = Low + 1 + i
  BY DEF RingInv
<1> QED BY <1>1, <1>2, <1>3, <1>4, <1>5

(* A reservation in a full ring gives up the oldest sample. *)
LEMMA ReserveRing ==
  ASSUME TypeInv, LockInv, RingInv, BottomReserve, ~raced'
  PROVE  /\ RingInv' /\ Low' = (IF rb.size = RINGBUF_SIZE THEN Low + 1 ELSE Low)
         /\ rb.size = RINGBUF_SIZE => ringbuf_front(rb) = Low + 1
<1>1. /\ ~raced /\ ~resetting /\ bpc # "store"
      /\ rb'.data = rb.data /\ rb'.head = rb.head
      /\ rb'.tail = (IF rb.size = RINGBUF_SIZE THEN After(rb.tail) ELSE rb.tail)
      /\ rb'.size = (IF rb.size = RINGBUF_SIZE THEN rb.size ELSE rb.size + 1)
      /\ bpc' = "store" /\ ~resetting' /\ pushed' = pushed
  BY ReserveEffect
<1>2. /\ rb.tail \in Slots /\ rb.size \in 0 .. RINGBUF_SIZE /\ pushed \in Nat
      /\ Low = pushed - rb.size /\ Low \in Int
      /\ rb.head = Slot(rb.tail, rb.size)
      /\ \A i \in 0 .. rb.size - 1 : rb.data[Slot(rb.tail, i)] = Low + 1 + i
  BY <1>1, RingFacts
<1>3. Storing' = 1 /\ Low' = pushed + 1 - rb'.size
  BY <1>1 DEF Storing, Low
<1>4. CASE rb.size # RINGBUF_SIZE
  <2>1. /\ Low' = Low /\ rb'.tail = rb.tail /\ rb'.size - Storing' = rb.size
    BY <1>1, <1>2, <1>3, <1>4
  <2> HIDE DEF Low, Storing
  <2>2. RingInv'
    BY <1>1, <1>2, <2>1 DEF RingInv
  <2> QED BY <1>4, <2>1, <2>2
<1>5. CASE rb.size = RINGBUF_SIZE
  <2>1. /\ Low' = Low + 1 /\ rb'.tail = Slot(rb.tail, 1) /\ rb'.size - Storing' = RINGBUF_SIZE - 1
    BY <1>1, <1>2, <1>3, <1>5, AfterSlot
  <2>2. Slot(rb'.tail, RINGBUF_SIZE - 1) = Slot(rb.tail, RINGBUF_SIZE)
    <3>1. Slot(Slot(rb.tail, 1), RINGBUF_SIZE - 1) = Slot(rb.tail, RINGBUF_SIZE - 1 + 1)
      BY <1>2, SlotStep
    <3> QED BY <2>1, <3>1
  <2>3. ASSUME NEW i \in 0 .. RINGBUF_SIZE - 1 - 1
        PROVE  rb'.data[Slot(rb'.tail, i)] = Low' + 1 + i
    <3>1. Slot(rb'.tail, i) = Slot(rb.tail, i + 1)
      BY <1>2, <2>1, SlotStep
    <3>2. rb.data[Slot(rb.tail, i + 1)] = Low + 1 + (i + 1)
      BY <1>2, <1>5
    <3> QED BY <1>1, <1>2, <2>1, <3>1, <3>2
  <2>4. RingInv'
    BY <1>1, <1>2, <1>5, <2>1, <2>2, <2>3 DEF RingInv
  <2>5. ringbuf_front(rb) = Low + 1
    <3>1. rb.data[Slot(rb.tail, 0)] = Low + 1 + 0
      BY <1>2, <1>5
    <3> QED BY <1>2, <3>1, SlotEnds DEF ringbuf_front
  <2> QED BY <1>5, <2>1, <2>4, <2>5
<1> QED BY <1>4, <1>5

(* The store appends the newest sample. *)
LEMMA StoreRing ==
  ASSUME TypeInv, IrqInv, LockInv, RingInv, BottomStore, ~raced'
  PROVE  RingInv' /\ Low' = Low
<1>1. /\ ~raced /\ ~resetting /\ bpc = "store" /\ rb.size > 0
      /\ rb'.data = [rb.data EXCEPT ![rb.head] = pushed + 1]
      /\ rb'.head = After(rb.head) /\ rb'.tail = rb.tail /\ rb'.size = rb.size
      /\ bpc' = "wake" /\ pushed' = pushed + 1 /\ ~resetting'
  BY StoreEffect
<1>2. /\ rb.tail \in Slots /\ rb.head \in Slots /\ rb.size \in 0 .. RINGBUF_SIZE /\ pushed \in Nat
      /\ rb.data \in [Slots -> Nat]
      /\ Low = pushed + 1 - rb.size /\ Low \in Int
      /\ rb.head = Slot(rb.tail, rb.size - 1)
      /\ \A i \in 0 .. rb.size - 1 - 1 : rb.data[Slot(rb.tail, i)] = Low + 1 + i
  BY <1>1, RingFacts
<1>3. Storing' = 0 /\ Low' = pushed + 1 - rb.size
  BY <1>1, <1>2 DEF Storing, Low
<1>4. rb'.head = Slot(rb.tail, rb.size)
  <2>1. Slot(Slot(rb.tail, rb.size - 1), 1) = Slot(rb.tail, rb.size - 1 + 1)
    BY <1>1, <1>2, SlotStep
  <2> QED BY <1>1, <1>2, <2>1, AfterSlot
<1>5. ASSUME NEW i \in 0 .. rb.size - 1 PROVE rb'.data[Slot(rb.tail, i)] = Low + 1 + i
  <2>0. Slot(rb.tail, i) \in Slots
    BY <1>2, Wrap
  <2>1. CASE i = rb.size - 1
    BY <1>1, <1>2, <2>0, <2>1
  <2>2. CASE i # rb.size - 1
    <3>1. Slot(rb.tail, i) # rb.head
      BY <1>1, <1>2, <2>2, SlotInjective
    <3>2. rb.data[Slot(rb.tail, i)] = Low + 1 + i
      BY <1>2, <2>2
    <3> QED BY <1>1, <1>2, <2>0, <3>1, <3>2
  <2> QED BY <2>1, <2>2
<1> QED BY <1>1, <1>2, <1>3, <1>4, <1>5 DEF RingInv

(* A pop takes the oldest sample. *)
LEMMA PoppedRing ==
  ASSUME TypeInv, LockInv, RingInv, NEW p \in Readers, ReadPopped(p), ~raced'
  PROVE  RingInv' /\ Low' = Low + 1 /\ rd[p].item = Low + 1
<1>1. /\ ~raced /\ ~resetting /\ rb.size > 0 /\ bpc # "store" /\ rd[p].item = ringbuf_front(rb)
      /\ rb'.data = rb.data /\ rb'.head = rb.head
      /\ rb'.tail = After(rb.tail) /\ rb'.size = rb.size - 1
      /\ bpc' = bpc /\ pushed' = pushed /\ ~resetting'
  BY PoppedEffect
<1>2. /\ rb.tail \in Slots /\ rb.size \in 0 .. RINGBUF_SIZE /\ pushed \in Nat
      /\ Low = pushed - rb.size /\ Low \in Int
      /\ rb.head = Slot(rb.tail, rb.size)
      /\ \A i \in 0 .. rb.size - 1 : rb.data[Slot(rb.tail, i)] = Low + 1 + i
  BY <1>1, RingFacts
<1>3. Storing' = 0 /\ Low' = Low + 1 /\ rb'.tail = Slot(rb.tail, 1)
  BY <1>1, <1>2, AfterSlot DEF Storing, Low
<1>4. rb'.head = Slot(rb'.tail, rb.size - 1)
  <2>1. Slot(Slot(rb.tail, 1), rb.size - 1) = Slot(rb.tail, rb.size - 1 + 1)
    BY <1>1, <1>2, SlotStep
  <2> QED BY <1>1, <1>2, <1>3, <2>1
<1>5. ASSUME NEW i \in 0 .. rb.size - 1 - 1
      PROVE  rb'.data[Slot(rb'.tail, i)] = Low' + 1 + i
  <2>1. Slot(rb'.tail, i) = Slot(rb.tail, i + 1)
    BY <1>2, <1>3, SlotStep
  <2>2. rb.data[Slot(rb.tail, i + 1)] = Low + 1 + (i + 1)
    BY <1>2
  <2> QED BY <1>1, <1>2, <1>3, <2>1, <2>2
<1>6. RingInv'
  BY <1>1, <1>2, <1>3, <1>4, <1>5 DEF RingInv
<1>7. rd[p].item = Low + 1
  <2>1. rb.data[Slot(rb.tail, 0)] = Low + 1 + 0
    BY <1>1, <1>2
  <2> QED BY <1>1, <1>2, <2>1, SlotEnds DEF ringbuf_front
<1> QED BY <1>3, <1>6, <1>7

(* A ring that no section is inside of holds the samples above Low. *)
LEMMA RingContents ==
  ASSUME TypeInv, LockInv, RingInv, ~raced, ~resetting, bpc # "store"
  PROVE  Range(Contents(rb)) = Low + 1 .. pushed
<1>1. /\ rb.tail \in Slots /\ rb.size \in 0 .. RINGBUF_SIZE /\ pushed \in Nat
      /\ Low = pushed - rb.size /\ Low \in Int
      /\ \A i \in 0 .. rb.size - 1 : rb.data[Slot(rb.tail, i)] = Low + 1 + i
  BY RingFacts
<1>2. ASSUME NEW i \in 1 .. rb.size PROVE Contents(rb)[i] = Low + i
  <2>1. i - 1 \in 0 .. RINGBUF_SIZE /\ i - 1 \in 0 .. rb.size - 1
    BY <1>1
  <2>2. (rb.tail + (i - 1)) % RINGBUF_SIZE = Slot(rb.tail, i - 1)
    BY <1>1, <2>1, Wrap
  <2>3. rb.tail + (i - 1) = rb.tail + i - 1
    BY <1>1 DEF Slots
  <2>4. rb.data[Slot(rb.tail, i - 1)] = Low + 1 + (i - 1)
    BY <1>1, <2>1
  <2> QED BY <1>1, <2>2, <2>3, <2>4 DEF Contents
<1>3. DOMAIN Contents(rb) = 1 .. rb.size
  BY DEF Contents
<1>4. ASSUME NEW n \in Low + 1 .. pushed PROVE n \in Range(Contents(rb))
  <2>1. n - Low \in 1 .. rb.size /\ Contents(rb)[n - Low] = n
    BY <1>1, <1>2
  <2> QED BY <1>3, <2>1 DEF Range
<1>5. ASSUME NEW n \in Range(Contents(rb)) PROVE n \in Low + 1 .. pushed
  <2>1. PICK i \in 1 .. rb.size : n = Contents(rb)[i]
    BY <1>3 DEF Range
  <2> QED BY <1>1, <1>2, <2>1
<1> QED BY <1>4, <1>5

(* A reset removes all samples, in its first half. *)
LEMMA ResetRing ==
  ASSUME TypeInv, LockInv, RingInv, ResetFirst \/ ResetSecond, ~raced'
  PROVE  /\ RingInv' /\ Low' = pushed
         /\ ResetFirst => Range(Contents(rb)) = Low + 1 .. pushed
         /\ ResetSecond => Low = pushed
<1>0. ~raced /\ bpc # "store" /\ bpc' = bpc /\ pushed' = pushed /\ pushed \in Nat
  BY ResetEffect DEF TypeInv
<1>1. CASE ResetFirst
  <2>1. ~resetting /\ resetting'
    BY <1>1, ResetEffect
  <2>2. RingInv' /\ Low' = pushed
    BY <1>0, <2>1 DEF RingInv, Low
  <2>3. ~ResetSecond
    BY <2>1 DEF ResetSecond
  <2> QED BY <1>0, <2>1, <2>2, <2>3, RingContents
<1>2. CASE ResetSecond
  <2>1. resetting /\ ~resetting' /\ rb'.tail = 0 /\ rb'.size = 0 /\ rb'.head = rb.head
    BY <1>2, ResetEffect
  <2>2. rb.head = 0
    BY <1>0, <2>1 DEF LockInv
  <2>3. Storing' = 0 /\ Low' = pushed /\ Low = pushed
    BY <1>0, <2>1 DEF Storing, Low
  <2>4. RingInv'
    BY <2>1, <2>2, <2>3 DEF RingInv, Slot
  <2>5. ~ResetFirst
    BY <2>1 DEF ResetFirst
  <2> QED BY <2>3, <2>4, <2>5
<1> QED BY <1>1, <1>2

(* The first half of a pop leaves the ring as it is. *)
LEMMA PopRing ==
  ASSUME TypeInv, LockInv, RingInv, NEW p \in Readers, ReadPop(p), ~raced'
  PROVE  RingInv' /\ Low' = Low
<1>1. ~raced /\ UNCHANGED <<rb, bpc, resetting, pushed>>
  BY PopEffect
<1>2. Low' = Low /\ Storing' = Storing
  BY <1>1 DEF Low, Storing
<1> QED BY <1>1, <1>2 DEF RingInv

(* Every step keeps the ring. *)
LEMMA RingStep == ASSUME TypeInv, IrqInv, LockInv, RingInv, [Next]_vars PROVE RingInv'
<1> SUFFICES ASSUME ~raced' PROVE RingInv'
  BY DEF RingInv
<1> QED BY NextCases, AsideSteps, AsideKeeps, ReserveRing, StoreRing, PopRing, PoppedRing, ResetRing

-----------------------------------------------------------------------------
(* What the calls do to their own process, field by field. *)

(* Nothing is copied to the user and nothing is lost. *)
Keeps(p) == delivered'[p] = delivered[p] /\ lost' = lost

(* A read that finds samples, *)
Begins(p) ==
  /\ pc[p] \in {"idle", "ready"} /\ pc'[p] = "pop" /\ rb.size # 0
  /\ rd'[p].want \in 0 .. MaxCount /\ rd'[p].len = Clamp(rb.size, rd'[p].want)
  /\ rd'[p].got = <<>> /\ rd'[p].ret = "none" /\ ~interfered'[p] /\ Keeps(p)

(* one that does not, *)
Waits(p) ==
  /\ pc[p] \in {"idle", "ready"} /\ pc'[p] = "wait" /\ rb.size = 0
  /\ rd'[p].got = <<>> /\ rd'[p].ret = "none" /\ Keeps(p)
  /\ rd'[p].polled <=> pc[p] = "ready"
  /\ interfered'[p] <=> interfered[p] /\ pc[p] = "ready"

(* the steps of a wait, *)
Moves(p) ==
  /\ \/ pc[p] \in {"wait", "recheck", "sleep"} /\ pc'[p] \in {"wait", "recheck", "sleep"}
     \/ pc[p] \in {"poll", "look", "pollsleep"} /\ pc'[p] \in {"poll", "look", "pollsleep"}
  /\ rd'[p] = rd[p] /\ (interfered'[p] <=> interfered[p]) /\ Keeps(p)

(* its end, by samples *)
Sees(p) ==
  /\ pc[p] \in {"recheck", "look"} /\ pc'[p] \in {"len", "ready"} /\ rb.size # 0
  /\ rd'[p] = rd[p] /\ ~interfered'[p] /\ Keeps(p)

(* or without any, *)
Leaves(p) ==
  /\ pc[p] \notin {"pop", "pop2", "copy"} /\ pc'[p] = "idle"
  /\ rd'[p].got = <<>> /\ rd'[p].ret \in {"eagain", "restart", "ok"}
  /\ rd'[p].bufcnt = 0 /\ rd'[p].dropcnt = 0 /\ Keeps(p)

(* the rest of a read, *)
Measures(p) ==
  /\ pc[p] = "len" /\ pc'[p] = "pop"
  /\ rd'[p].want = rd[p].want /\ rd'[p].len = Clamp(rb.size, rd[p].want)
  /\ rd'[p].got = rd[p].got /\ rd'[p].ret = rd[p].ret
  /\ (interfered'[p] <=> interfered[p] /\ rb.size = 0) /\ Keeps(p)

Copies(p) ==
  /\ pc[p] = "copy" /\ pc'[p] = "pop"
  /\ rd'[p].want = rd[p].want /\ rd'[p].len = rd[p].len /\ rd'[p].ret = rd[p].ret
  /\ rd'[p].got = Append(rd[p].got, rd[p].item)
  /\ (interfered'[p] <=> interfered[p]) /\ Keeps(p)

Ends(p) ==
  /\ pc'[p] = "idle" /\ rd'[p].got = <<>> /\ rd'[p].bufcnt = 0 /\ rd'[p].dropcnt = 0
  /\ interfered'[p] <=> interfered[p]

Empties(p) ==
  /\ pc[p] = "pop" /\ rb.size = 0 /\ Len(rd[p].got) < rd[p].len /\ Ends(p)
  /\ rd'[p].ret = "empty" /\ delivered'[p] = delivered[p] /\ lost' = lost \union Range(rd[p].got)

Faults(p) ==
  /\ pc[p] = "copy" /\ Ends(p) /\ rd'[p].ret = "fault"
  /\ delivered'[p] = delivered[p] /\ lost' = lost \union Range(rd[p].got) \union {rd[p].item}

Returns(p) ==
  /\ pc[p] = "pop" /\ Len(rd[p].got) >= rd[p].len /\ Ends(p)
  /\ rd'[p].ret = (IF rd[p].got = <<>> /\ rd[p].want > 0 THEN "zero" ELSE "ok")
  /\ delivered'[p] = delivered[p] \o rd[p].got /\ lost' = lost

(* and a poll or a request for statistics. *)
Polls(p) ==
  /\ pc[p] = "idle" /\ pc'[p] = "poll" /\ rd'[p].got = <<>> /\ rd'[p].ret = "none"
  /\ (interfered'[p] <=> interfered[p]) /\ Keeps(p)

Counts(p) ==
  /\ pc[p] = "idle" /\ pc'[p] = "stats" /\ rd'[p].got = <<>> /\ rd'[p].ret = "none"
  /\ rd'[p].bufcnt = rb.size
  /\ (interfered'[p] <=> interfered[p]) /\ Keeps(p)

Reports(p) ==
  /\ pc[p] = "stats" /\ pc'[p] = "idle" /\ rd'[p].got = rd[p].got /\ rd'[p].ret = rd[p].ret
  /\ rd'[p].bufcnt = rd[p].bufcnt /\ rd'[p].dropcnt = rb.dropcount
  /\ (interfered'[p] <=> interfered[p]) /\ Keeps(p)

(* These are all. *)
LEMMA CallEffects ==
  ASSUME TypeInv, NEW p \in Readers, Call(p)
  PROVE  \/ Begins(p) \/ Waits(p) \/ Moves(p) \/ Sees(p) \/ Leaves(p) \/ Measures(p) \/ Copies(p)
         \/ Empties(p) \/ Faults(p) \/ Returns(p) \/ Polls(p) \/ Counts(p) \/ Reports(p)
<1>0. /\ DOMAIN pc = Readers /\ DOMAIN rd = Readers /\ DOMAIN interfered = Readers
      /\ DOMAIN delivered = Readers /\ rd[p] \in Locals
  BY DEF TypeInv
<1>1. ASSUME NEW want \in 0 .. MaxCount, NEW nonblock \in BOOLEAN, ReadStart(p, want, nonblock)
      PROVE  Begins(p) \/ Waits(p) \/ Leaves(p)
  <2>1. /\ pc[p] \in {"idle", "ready"} /\ Keeps(p)
        /\ interfered'[p] <=> interfered[p] /\ pc[p] = "ready" /\ rb.size = 0
    BY <1>0, <1>1 DEF ReadStart, Keeps
  <2>2. CASE /\ rb.size # 0
             /\ pc' = [pc EXCEPT ![p] = "pop"]
             /\ rd' = [rd EXCEPT ![p] = [NoLocals EXCEPT !.want = want, !.len = Clamp(rb.size, want)]]
    <3>1. pc'[p] = "pop" /\ rd'[p] = [NoLocals EXCEPT !.want = want, !.len = Clamp(rb.size, want)]
      BY <1>0, <2>2
    <3>2. /\ rd'[p].want = want /\ rd'[p].len = Clamp(rb.size, want)
          /\ rd'[p].got = <<>> /\ rd'[p].ret = "none"
      BY <3>1 DEF NoLocals
    <3> QED BY <2>1, <2>2, <3>1, <3>2 DEF Begins
  <2>3. CASE /\ rb.size = 0
             /\ pc' = [pc EXCEPT ![p] = "wait"]
             /\ rd' = [rd EXCEPT ![p] = [NoLocals EXCEPT !.want = want, !.polled = (pc[p] = "ready")]]
    <3>1. pc'[p] = "wait" /\ rd'[p] = [NoLocals EXCEPT !.want = want, !.polled = (pc[p] = "ready")]
      BY <1>0, <2>3
    <3>2. /\ rd'[p].got = <<>> /\ rd'[p].ret = "none"
          /\ rd'[p].polled <=> pc[p] = "ready"
      BY <3>1 DEF NoLocals
    <3> QED BY <2>1, <2>3, <3>1, <3>2 DEF Waits
  <2>4. CASE Return(p, "eagain")
    <3>1. pc'[p] = "idle" /\ rd'[p] = [NoLocals EXCEPT !.ret = "eagain"]
      BY <1>0, <2>4 DEF Return
    <3> QED BY <2>1, <3>1, LocalsFields DEF Leaves
  <2> QED BY <1>1, <2>2, <2>3, <2>4 DEF ReadStart
<1>2. CASE WaitPrepare(p) \/ WaitWoken(p) \/ PollWait(p) \/ PollWoken(p)
  BY <1>0, <1>2 DEF WaitPrepare, WaitWoken, PollWait, PollWoken, history, Moves, Keeps
<1>3. CASE WaitCheck(p)
  BY <1>0, <1>3 DEF WaitCheck, Moves, Sees, Keeps
<1>4. ASSUME NEW x, Return(p, x), UNCHANGED interfered PROVE Ends(p) /\ rd'[p].ret = x
  <2>1. pc'[p] = "idle" /\ rd'[p] = [NoLocals EXCEPT !.ret = x]
    BY <1>0, <1>4 DEF Return
  <2> QED BY <1>4, <2>1, LocalsFields DEF Ends
<1>5. CASE WaitSignal(p)
  <2>1. Return(p, "restart") /\ pc[p] \in {"sleep", "pollsleep"} /\ Keeps(p) /\ UNCHANGED interfered
    BY <1>5 DEF WaitSignal, Keeps, history
  <2> QED BY <1>4, <2>1 DEF Leaves, Ends
<1>6. CASE ReadLen(p)
  <2>1. /\ pc[p] = "len" /\ pc'[p] = "pop" /\ Keeps(p)
        /\ (interfered'[p] <=> interfered[p] /\ rb.size = 0)
        /\ rd'[p] = [rd[p] EXCEPT !.len = Clamp(rb.size, rd[p].want)]
    BY <1>0, <1>6 DEF ReadLen, Keeps
  <2> QED BY <1>0, <2>1 DEF Measures, Locals
<1>7. CASE ReadEmpty(p)
  <2>1. /\ pc[p] = "pop" /\ rb.size = 0 /\ Len(rd[p].got) < rd[p].len /\ Return(p, "empty")
        /\ delivered' = delivered /\ lost' = lost \union Range(rd[p].got) /\ UNCHANGED interfered
    BY <1>7 DEF ReadEmpty
  <2> QED BY <1>4, <2>1 DEF Empties
<1>8. CASE ReadCopy(p)
  <2>1. pc[p] = "copy" /\ UNCHANGED <<interfered, delivered>>
    BY <1>8 DEF ReadCopy
  <2>2. CASE /\ pc' = [pc EXCEPT ![p] = "pop"] /\ UNCHANGED lost
             /\ rd' = [rd EXCEPT ![p].got = Append(@, rd[p].item)]
    <3>1. pc'[p] = "pop" /\ rd'[p] = [rd[p] EXCEPT !.got = Append(rd[p].got, rd[p].item)]
      BY <1>0, <2>2
    <3> QED BY <1>0, <2>1, <2>2, <3>1 DEF Copies, Keeps, Locals
  <2>3. CASE Return(p, "fault") /\ lost' = lost \union Range(rd[p].got) \union {rd[p].item}
    BY <1>4, <2>1, <2>3 DEF Faults
  <2> QED BY <1>8, <2>2, <2>3 DEF ReadCopy
<1>9. CASE ReadReturn(p)
  <2>1. /\ pc[p] = "pop" /\ Len(rd[p].got) >= rd[p].len
        /\ Return(p, IF rd[p].got = <<>> /\ rd[p].want > 0 THEN "zero" ELSE "ok")
        /\ delivered'[p] = delivered[p] \o rd[p].got /\ lost' = lost /\ UNCHANGED interfered
    BY <1>0, <1>9 DEF ReadReturn
  <2> QED BY <1>4, <2>1 DEF Returns
<1>10. CASE PollStart(p)
  <2>1. pc[p] = "idle" /\ pc'[p] = "poll" /\ rd'[p] = NoLocals /\ UNCHANGED interfered /\ Keeps(p)
    BY <1>0, <1>10 DEF PollStart, Keeps, history
  <2> QED BY <2>1, LocalsFields DEF Polls
<1>11. CASE myfbpoll(p)
  <2>1. pc[p] = "look" /\ Keeps(p)
    BY <1>11 DEF myfbpoll, Keeps
  <2>2. CASE Return(p, "ok") /\ UNCHANGED interfered
    BY <1>4, <2>1, <2>2 DEF Leaves, Ends
  <2>3. CASE UNCHANGED rd
    BY <1>0, <1>11, <2>1, <2>2, <2>3 DEF myfbpoll, Moves, Sees
  <2> QED BY <1>11, <2>2, <2>3 DEF myfbpoll
<1>12. CASE StatsSize(p)
  <2>1. /\ pc[p] = "idle" /\ pc'[p] = "stats" /\ rd'[p] = [NoLocals EXCEPT !.bufcnt = rb.size]
        /\ UNCHANGED interfered /\ Keeps(p)
    BY <1>0, <1>12 DEF StatsSize, Keeps, history
  <2> QED BY <2>1, LocalsFields DEF Counts
<1>13. CASE StatsLost(p)
  <2>1. /\ pc[p] = "stats" /\ pc'[p] = "idle" /\ rd'[p] = [rd[p] EXCEPT !.dropcnt = rb.dropcount]
        /\ UNCHANGED interfered /\ Keeps(p)
    BY <1>0, <1>13 DEF StatsLost, Keeps, history
  <2> QED BY <1>0, <2>1 DEF Reports, Locals
<1> QED BY <1>1, <1>2, <1>3, <1>5, <1>6, <1>7, <1>8, <1>9, <1>10, <1>11, <1>12, <1>13 DEF Call

(* The steps that neither a process nor the ring takes part in. *)
Still == UNCHANGED <<pc, rd, rb, resetting, pushed, history, raced>> /\ Storing' = Storing

(* They are those of the interrupt outside its push. *)
LEMMA StillSteps ==
  ASSUME Timer \/ IrqEnter \/ myirq_top \/ BottomSample \/ BottomWake \/ BottomDone \/ UNCHANGED vars
  PROVE  Still
BY DEF Timer, IrqEnter, myirq_top, BottomSample, BottomWake, BottomDone, vars, irqVars, ringVars,
       procVars, Still, Storing

-----------------------------------------------------------------------------
(* Between calls. *)

(* No process is in a call. *)
LEMMA HomeInit == ASSUME Init PROVE HomeInv
BY LocalsFields DEF Init, HomeInv

(* Every step keeps the locals in order. *)
LEMMA HomeStep == ASSUME TypeInv, HomeInv, [Next]_vars PROVE HomeInv'
<1>1. ASSUME UNCHANGED <<pc, rd>> PROVE HomeInv'
  BY <1>1 DEF HomeInv
<1>2. CASE BottomReserve \/ BottomStore \/ ResetFirst \/ ResetSecond
  BY <1>1, <1>2 DEF BottomReserve, BottomStore, ResetFirst, ResetSecond, procVars
<1>3. ASSUME NEW p \in Readers, ReadPop(p) PROVE HomeInv'
  <2>1. pc[p] = "pop" /\ pc'[p] = "pop2" /\ \A q \in Readers \ {p} : pc'[q] = pc[q]
    BY <1>3 DEF ReadPop, TypeInv
  <2> QED BY <1>3, <2>1, PopLocals DEF HomeInv
<1>4. ASSUME NEW p \in Readers, ReadPopped(p) PROVE HomeInv'
  <2>1. pc[p] = "pop2" /\ pc'[p] = "copy" /\ (\A q \in Readers \ {p} : pc'[q] = pc[q]) /\ rd' = rd
    BY <1>4 DEF ReadPopped, TypeInv
  <2> QED BY <2>1 DEF HomeInv
<1>5. ASSUME NEW p \in Readers, Call(p) PROVE HomeInv'
  <2>1. \A q \in Readers \ {p} : pc'[q] = pc[q] /\ rd'[q] = rd[q]
    BY <1>5, CallFrames DEF CallFrame
  <2>2. /\ pc'[p] \notin {"pop", "pop2", "copy"} => rd'[p].got = <<>>
        /\ pc'[p] # "idle" => rd'[p].ret = "none"
    <3>1. CASE Begins(p) \/ Waits(p) \/ Polls(p) \/ Counts(p)
      BY <3>1 DEF Begins, Waits, Polls, Counts
    <3>2. CASE Leaves(p) \/ Empties(p) \/ Faults(p) \/ Returns(p)
      BY <3>2 DEF Leaves, Empties, Faults, Returns, Ends
    <3>3. CASE Moves(p) \/ Sees(p) \/ Measures(p) \/ Copies(p) \/ Reports(p)
      BY <3>3 DEF Moves, Sees, Measures, Copies, Reports, HomeInv
    <3> QED BY <1>5, <3>1, <3>2, <3>3, CallEffects
  <2> QED BY <2>1, <2>2 DEF HomeInv
<1> QED BY <1>1, <1>2, <1>3, <1>4, <1>5, NextCases, StillSteps DEF Still

-----------------------------------------------------------------------------
(* Rivals. *)

(* Nobody has read anything. *)
LEMMA RivalInit == ASSUME Init PROVE RivalInv
<1>1. ASSUME NEW p \in Readers PROVE pc[p] = "idle" /\ rd[p].ret = "none"
  BY LocalsFields DEF Init
<1> QED BY <1>1 DEF RivalInv, RivalOK

(* A loop bound taken from a ring that is not empty. *)
LEMMA ClampFits ==
  ASSUME NEW n \in Nat, n > 0, NEW w \in 0 .. MaxCount
  PROVE  Clamp(n, w) \in Int /\ n >= Clamp(n, w) /\ (w > 0 => Clamp(n, w) > 0)
BY DEF Clamp

(* A call keeps its own process right. *)
LEMMA RivalCall ==
  ASSUME TypeInv, LockInv, HomeInv, NEW p \in Readers, RivalOK(p), Call(p), ~raced, rb' = rb
  PROVE  RivalOK(p)'
<1>0. /\ rb.size \in Nat /\ rd[p] \in Locals /\ rd[p].want \in 0 .. MaxCount /\ rd[p].got \in Seq(Nat)
      /\ rd[p].len \in Int /\ Len(rd[p].got) \in Nat
  <2>1. rd[p] \in Locals /\ rb.size \in Int /\ rb.size >= 0
    BY DEF TypeInv, AnyRing, LockInv
  <2>2. rd[p].want \in 0 .. MaxCount /\ rd[p].got \in Seq(Nat) /\ rd[p].len \in Int
    BY <2>1 DEF Locals
  <2> QED BY <2>1, <2>2
<1>1. ASSUME Begins(p) PROVE RivalOK(p)'
  <2>1. rd'[p].got = <<>> /\ Len(<<>>) = 0 /\ pc'[p] = "pop" /\ rd'[p].ret = "none"
        /\ rd'[p].want \in 0 .. MaxCount /\ rd'[p].len = Clamp(rb.size, rd'[p].want) /\ rb.size > 0
    BY <1>0, <1>1 DEF Begins
  <2>2. rd'[p].len \in Int /\ rb.size >= rd'[p].len /\ (rd'[p].want > 0 => rd'[p].len > 0)
    BY <1>0, <2>1, ClampFits
  <2>3. Left(p)' = rd'[p].len
    BY <2>1, <2>2 DEF Left
  <2> QED BY <2>1, <2>2, <2>3 DEF RivalOK
<1>2. ASSUME Waits(p) PROVE RivalOK(p)'
  <2>1. rb.size = 0 /\ ~(rb.size > 0)
    BY <1>0, <1>2 DEF Waits
  <2> QED BY <1>2, <2>1 DEF RivalOK, Waits
<1>3. ASSUME Moves(p) PROVE RivalOK(p)'
  BY <1>3 DEF RivalOK, Moves, HomeInv
<1>4. ASSUME Sees(p) PROVE RivalOK(p)'
  <2>1. rb.size > 0 /\ rd'[p] = rd[p] /\ rd[p].ret = "none" /\ pc'[p] \in {"len", "ready"}
    BY <1>0, <1>4 DEF Sees, HomeInv
  <2> QED BY <2>1 DEF RivalOK
<1>5. ASSUME Leaves(p) PROVE RivalOK(p)'
  BY <1>5 DEF RivalOK, Leaves
<1>6. ASSUME Measures(p) PROVE RivalOK(p)'
  <2>1. /\ pc[p] = "len" /\ pc'[p] = "pop" /\ rd'[p].want = rd[p].want /\ rd[p].got = <<>>
        /\ rd'[p].len = Clamp(rb.size, rd[p].want) /\ rd'[p].got = rd[p].got /\ rd'[p].ret = "none"
        /\ (interfered'[p] <=> interfered[p] /\ rb.size = 0)
    BY <1>6 DEF Measures, HomeInv
  <2>2. ASSUME ~interfered'[p] PROVE rb.size > 0
    BY <1>0, <2>1, <2>2 DEF RivalOK
  <2>3. ASSUME rb.size > 0 PROVE rb.size >= Left(p)' /\ (rd'[p].want > 0 => rd'[p].len > 0)
    <3>1. Clamp(rb.size, rd[p].want) \in Int /\ rb.size >= Clamp(rb.size, rd[p].want)
          /\ (rd[p].want > 0 => Clamp(rb.size, rd[p].want) > 0)
      BY <1>0, <2>3, ClampFits
    <3> HIDE DEF Clamp
    <3>2. Len(rd'[p].got) = 0 /\ Left(p)' = rd'[p].len
      BY <2>1, <3>1 DEF Left
    <3> QED BY <2>1, <3>1, <3>2
  <2> QED BY <2>1, <2>2, <2>3 DEF RivalOK
<1>7. ASSUME Copies(p) PROVE RivalOK(p)'
  <2>1. /\ pc[p] = "copy" /\ pc'[p] = "pop" /\ rd'[p].want = rd[p].want /\ rd'[p].len = rd[p].len
        /\ rd'[p].ret = "none" /\ (interfered'[p] <=> interfered[p])
        /\ rd'[p].got = Append(rd[p].got, rd[p].item) /\ rd[p].item \in Nat
    BY <1>0, <1>7 DEF Copies, HomeInv, Locals
  <2>2. Len(rd'[p].got) = Len(rd[p].got) + 1
    BY <1>0, <2>1
  <2>3. Left(p)' = Left(p)
    <3>1. Left(p)' = rd[p].len - (Len(rd[p].got) + 1) - 0
      BY <2>1, <2>2 DEF Left
    <3>2. Left(p) = rd[p].len - Len(rd[p].got) - 1
      BY <2>1 DEF Left
    <3> QED BY <1>0, <3>1, <3>2
  <2> HIDE DEF Left
  <2> QED BY <2>1, <2>3 DEF RivalOK
<1>8. ASSUME Empties(p) PROVE RivalOK(p)'
  <2>1. pc[p] = "pop" /\ rb.size = 0 /\ Len(rd[p].got) < rd[p].len /\ pc'[p] = "idle"
        /\ (interfered'[p] <=> interfered[p])
    BY <1>8 DEF Empties, Ends
  <2>2. ~(rb.size >= Left(p))
    BY <1>0, <2>1 DEF Left
  <2> QED BY <2>1, <2>2 DEF RivalOK
<1>9. ASSUME Faults(p) PROVE RivalOK(p)'
  BY <1>9 DEF RivalOK, Faults, Ends
<1>10. ASSUME Returns(p) PROVE RivalOK(p)'
  <2>1. pc[p] = "pop" /\ Len(rd[p].got) >= rd[p].len /\ pc'[p] = "idle"
        /\ rd'[p].ret = (IF rd[p].got = <<>> /\ rd[p].want > 0 THEN "zero" ELSE "ok")
        /\ (interfered'[p] <=> interfered[p])
    BY <1>10 DEF Returns, Ends
  <2>2. CASE rd[p].got = <<>> /\ rd[p].want > 0
    <3>1. ~(rd[p].len > 0)
      BY <1>0, <2>1, <2>2
    <3> QED BY <2>1, <2>2, <3>1 DEF RivalOK
  <2>3. CASE ~(rd[p].got = <<>> /\ rd[p].want > 0)
    BY <2>1, <2>3 DEF RivalOK
  <2> QED BY <2>2, <2>3
<1>11. ASSUME Polls(p) PROVE RivalOK(p)'
  BY <1>11 DEF RivalOK, Polls
<1>12. ASSUME Counts(p) \/ Reports(p) PROVE RivalOK(p)'
  BY <1>12 DEF RivalOK, Counts, Reports, HomeInv
<1> QED BY <1>1, <1>2, <1>3, <1>4, <1>5, <1>6, <1>7, <1>8, <1>9, <1>10, <1>11, <1>12, CallEffects

(* What a process may rely on is there, or a rival has interfered. *)
LEMMA RivalStep ==
  ASSUME TypeInv, IrqInv, LockInv, HomeInv, RivalInv, [Next]_vars
  PROVE  RivalInv'
<1> SUFFICES ASSUME ~raced', NEW q \in Readers PROVE RivalOK(q)'
  BY DEF RivalInv
<1>0. rb.size \in Int /\ rd[q].len \in Int /\ Len(rd[q].got) \in Nat
  <2>1. rd[q] \in Locals /\ rb.size \in Int
    BY DEF TypeInv, AnyRing
  <2>2. rd[q].got \in Seq(Nat) /\ rd[q].len \in Int
    BY <2>1 DEF Locals
  <2> QED BY <2>1, <2>2
<1>0a. Left(q) \in Int
  BY <1>0 DEF Left
<1>1. ASSUME ~raced, pc'[q] = pc[q], rd'[q] = rd[q], interfered[q] <=> interfered'[q],
             rb'.size \in Int, rb'.size >= rb.size
      PROVE  RivalOK(q)'
  <2>1. RivalOK(q)
    BY <1>1 DEF RivalInv
  <2>2. Left(q)' = Left(q)
    BY <1>1 DEF Left
  <2> QED BY <1>0, <1>0a, <1>1, <2>1, <2>2 DEF RivalOK
<1>2. ASSUME Still PROVE RivalOK(q)'
  BY <1>0, <1>1, <1>2 DEF Still, history
<1>3. CASE BottomReserve
  BY <1>0, <1>1, <1>3, ReserveEffect
<1>4. CASE BottomStore
  BY <1>0, <1>1, <1>4, StoreEffect DEF history
<1>5. ASSUME NEW p \in Readers, ReadPop(p) PROVE RivalOK(q)'
  <2>1. /\ ~raced /\ pc[p] = "pop" /\ pc'[p] = "pop2" /\ rb' = rb /\ interfered' = interfered
        /\ \A r \in Readers \ {p} : pc'[r] = pc[r]
    BY <1>5, PopEffect DEF history
  <2>2. CASE q = p
    <3>1. /\ rd'[p].got = rd[p].got /\ rd'[p].len = rd[p].len /\ rd'[p].want = rd[p].want
          /\ rd'[p].ret = rd[p].ret
      BY <1>5, PopLocals
    <3>2. Left(p)' = Left(p)
      BY <2>1, <3>1 DEF Left
    <3>3. RivalOK(p)
      BY <2>1 DEF RivalInv
    <3> QED BY <2>1, <2>2, <3>1, <3>2, <3>3 DEF RivalOK
  <2>3. CASE q # p
    BY <1>0, <1>1, <1>5, <2>1, <2>3, PopLocals
  <2> QED BY <2>2, <2>3
<1>6. ASSUME NEW p \in Readers, ReadPopped(p) PROVE RivalOK(q)'
  <2>1. /\ ~raced /\ pc[p] = "pop2" /\ pc'[p] = "copy" /\ rd' = rd /\ rb'.size = rb.size - 1
        /\ (\A r \in Readers \ {p} : pc'[r] = pc[r])
        /\ interfered'[q] <=> interfered[q]
             \/ (q # p /\ pc[q] \in {"ready", "len", "pop", "pop2", "copy"})
    BY <1>6, PoppedEffect
  <2>2. RivalOK(q)
    BY <2>1 DEF RivalInv
  <2>3. CASE q = p
    <3>1. Left(p)' = Left(p) - 1
      BY <1>0, <2>1, <2>3 DEF Left
    <3> QED BY <1>0, <1>0a, <2>1, <2>2, <2>3, <3>1 DEF RivalOK
  <2>4. CASE q # p
    BY <2>1, <2>2, <2>4 DEF RivalOK
  <2> QED BY <2>3, <2>4
<1>7. CASE ResetFirst \/ ResetSecond
  <2>1. /\ ~raced /\ UNCHANGED <<pc, rd>>
        /\ interfered'[q] <=> interfered[q] \/ pc[q] \in {"ready", "len", "pop", "pop2", "copy"}
    BY <1>7, ResetEffect
  <2>2. RivalOK(q)
    BY <2>1 DEF RivalInv
  <2> QED BY <2>1, <2>2 DEF RivalOK
<1>8. ASSUME NEW p \in Readers, Call(p) PROVE RivalOK(q)'
  <2>1. CallFrame(p) /\ ~raced /\ rb' = rb
    BY <1>8, CallFrames DEF CallFrame, ringVars
  <2>2. CASE q = p
    BY <1>8, <2>1, <2>2, RivalCall DEF RivalInv
  <2>3. CASE q # p
    BY <1>0, <1>1, <2>1, <2>3 DEF CallFrame
  <2> QED BY <2>2, <2>3
<1> QED BY <1>2, <1>3, <1>4, <1>5, <1>6, <1>7, <1>8, NextCases, StillSteps

-----------------------------------------------------------------------------
(* Statistics. *)

(* Nothing has been counted. *)
LEMMA StatsInit == ASSUME Init PROVE StatsInv
<1>1. rb.size = 0 /\ rb.dropcount = 0 /\ pushed = 0 /\ Storing = 0
  BY DEF Init, ringbuf_init, Storing
<1>2. ASSUME NEW p \in Readers PROVE pc[p] = "idle" /\ rd[p].bufcnt = 0 /\ rd[p].dropcnt = 0
  BY LocalsFields DEF Init
<1> QED BY <1>1, <1>2 DEF StatsInv, StatsOK

(* No sample is counted twice by a size and a later drop count. *)
LEMMA StatsStep ==
  ASSUME TypeInv, IrqInv, LockInv, HomeInv, StatsInv, [Next]_vars
  PROVE  StatsInv'
<1> SUFFICES ASSUME ~raced'
             PROVE  /\ rb'.size + rb'.dropcount <= pushed' + Storing'
                    /\ \A q \in Readers : StatsOK(q)'
  BY DEF StatsInv
<1>0. rb.size \in Int /\ rb.dropcount \in Nat /\ pushed \in Nat /\ Storing \in {0, 1}
  BY DEF TypeInv, AnyRing, Storing
<1>1. ASSUME NEW q \in Readers PROVE rd[q].bufcnt \in Int /\ rd[q].dropcnt \in Nat
  <2>1. rd[q] \in Locals
    BY DEF TypeInv
  <2> QED BY <2>1 DEF Locals
<1>2. ASSUME ~raced, rb'.size \in Int, rb'.dropcount \in Nat, pushed' + Storing' \in Int,
             rb'.size + rb'.dropcount - (rb.size + rb.dropcount)
               <= (pushed' + Storing') - (pushed + Storing),
             rb'.dropcount - rb.dropcount <= (pushed' + Storing') - (pushed + Storing),
             pushed' + Storing' >= pushed + Storing,
             \A q \in Readers :
               /\ pc[q] \in {"idle", "stats"} \/ pc'[q] \in {"idle", "stats"} => pc'[q] = pc[q]
               /\ rd'[q].bufcnt = rd[q].bufcnt /\ rd'[q].dropcnt = rd[q].dropcnt
      PROVE  /\ rb'.size + rb'.dropcount <= pushed' + Storing'
             /\ \A q \in Readers : StatsOK(q)'
  <2>1. rb.size + rb.dropcount <= pushed + Storing /\ \A q \in Readers : StatsOK(q)
    BY <1>2 DEF StatsInv
  <2>2. rb'.size + rb'.dropcount <= pushed' + Storing'
    BY <1>0, <1>2, <2>1
  <2>3. ASSUME NEW q \in Readers PROVE StatsOK(q)'
    <3>1. ASSUME pc'[q] = "stats" PROVE rd'[q].bufcnt + rb'.dropcount <= pushed' + Storing'
      <4>1. rd[q].bufcnt + rb.dropcount <= pushed + Storing
        BY <1>2, <2>1, <3>1 DEF StatsOK
      <4> QED BY <1>0, <1>1, <1>2, <4>1
    <3>2. ASSUME pc'[q] = "idle" PROVE rd'[q].bufcnt + rd'[q].dropcnt <= pushed' + Storing'
      <4>1. rd[q].bufcnt + rd[q].dropcnt <= pushed + Storing
        BY <1>2, <2>1, <3>2 DEF StatsOK
      <4> QED BY <1>0, <1>1, <1>2, <4>1
    <3> QED BY <3>1, <3>2 DEF StatsOK
  <2> QED BY <2>2, <2>3
<1>3. CASE Still
  BY <1>0, <1>2, <1>3 DEF Still
<1>4. CASE BottomReserve
  <2>1. ~raced /\ bpc # "store" /\ bpc' = "store" /\ UNCHANGED <<pc, rd, pushed>>
    BY <1>4, ReserveEffect
  <2>2. Storing = 0 /\ Storing' = 1
    BY <2>1 DEF Storing
  <2>3. CASE rb.size = RINGBUF_SIZE
    <3>1. rb'.size = rb.size /\ rb'.dropcount = rb.dropcount + 1
      BY <1>4, <2>3, ReserveEffect
    <3> QED BY <1>0, <1>2, <2>1, <2>2, <3>1
  <2>4. CASE rb.size # RINGBUF_SIZE
    <3>1. rb'.size = rb.size + 1 /\ rb'.dropcount = rb.dropcount
      BY <1>4, <2>4, ReserveEffect
    <3> QED BY <1>0, <1>2, <2>1, <2>2, <3>1
  <2> QED BY <2>3, <2>4
<1>5. CASE BottomStore
  <2>1. /\ ~raced /\ bpc = "store" /\ bpc' = "wake" /\ pushed' = pushed + 1 /\ UNCHANGED <<pc, rd>>
        /\ rb'.size = rb.size /\ rb'.dropcount = rb.dropcount
    BY <1>5, StoreEffect
  <2>2. Storing = 1 /\ Storing' = 0
    BY <2>1 DEF Storing
  <2> QED BY <1>0, <1>2, <2>1, <2>2
<1>6. ASSUME NEW p \in Readers, ReadPop(p)
      PROVE  /\ rb'.size + rb'.dropcount <= pushed' + Storing'
             /\ \A q \in Readers : StatsOK(q)'
  <2>1. /\ ~raced /\ pc[p] = "pop" /\ pc'[p] = "pop2" /\ UNCHANGED <<rb, bpc, pushed>>
        /\ \A r \in Readers \ {p} : pc'[r] = pc[r]
    BY <1>6, PopEffect
  <2>2. Storing' = Storing
    BY <2>1 DEF Storing
  <2>3. \A q \in Readers : rd'[q].bufcnt = rd[q].bufcnt /\ rd'[q].dropcnt = rd[q].dropcnt
    BY <1>6, PopLocals
  <2> QED BY <1>0, <1>2, <2>1, <2>2, <2>3
<1>7. ASSUME NEW p \in Readers, ReadPopped(p)
      PROVE  /\ rb'.size + rb'.dropcount <= pushed' + Storing'
             /\ \A q \in Readers : StatsOK(q)'
  <2>1. /\ ~raced /\ pc[p] = "pop2" /\ pc'[p] = "copy" /\ UNCHANGED <<rd, bpc, pushed>>
        /\ rb'.size = rb.size - 1 /\ rb'.dropcount = rb.dropcount
        /\ \A r \in Readers \ {p} : pc'[r] = pc[r]
    BY <1>7, PoppedEffect
  <2>2. Storing' = Storing
    BY <2>1 DEF Storing
  <2> QED BY <1>0, <1>2, <2>1, <2>2
<1>8. CASE ResetFirst \/ ResetSecond
  <2>1. ~raced /\ UNCHANGED <<bpc, pc, rd, pushed>>
    BY <1>8, ResetEffect
  <2>2. Storing' = Storing /\ rb.size >= 0
    BY <2>1 DEF Storing, LockInv
  <2>3. CASE ResetFirst
    <3>1. rb'.size = rb.size /\ rb'.dropcount = rb.dropcount
      BY <2>3, ResetEffect
    <3> QED BY <1>0, <1>2, <2>1, <2>2, <3>1
  <2>4. CASE ResetSecond
    <3>1. rb'.size = 0 /\ rb'.dropcount = 0
      BY <2>4, ResetEffect
    <3> QED BY <1>0, <1>2, <2>1, <2>2, <3>1
  <2> QED BY <1>8, <2>3, <2>4
<1>9. ASSUME NEW p \in Readers, Call(p)
      PROVE  /\ rb'.size + rb'.dropcount <= pushed' + Storing'
             /\ \A q \in Readers : StatsOK(q)'
  <2>1. /\ ~raced /\ UNCHANGED <<rb, bpc, pushed>>
        /\ \A q \in Readers \ {p} : pc'[q] = pc[q] /\ rd'[q] = rd[q]
    BY <1>9, CallFrames DEF CallFrame, ringVars, irqVars
  <2>2. Storing' = Storing
    BY <2>1 DEF Storing
  <2>3. rb.size + rb.dropcount <= pushed + Storing /\ \A q \in Readers : StatsOK(q)
    BY <2>1 DEF StatsInv
  <2>4. ASSUME NEW q \in Readers \ {p} PROVE StatsOK(q)'
    BY <2>1, <2>2, <2>3 DEF StatsOK
  <2>5. StatsOK(p)'
    <3>1. CASE Begins(p) \/ Waits(p) \/ Moves(p) \/ Sees(p) \/ Measures(p) \/ Copies(p) \/ Polls(p)
      BY <3>1 DEF Begins, Waits, Moves, Sees, Measures, Copies, Polls, StatsOK
    <3>2. CASE Leaves(p) \/ Empties(p) \/ Faults(p) \/ Returns(p)
      <4>1. pc'[p] = "idle" /\ rd'[p].bufcnt = 0 /\ rd'[p].dropcnt = 0
        BY <3>2 DEF Leaves, Empties, Faults, Returns, Ends
      <4> QED BY <1>0, <2>1, <2>2, <4>1 DEF StatsOK
    <3>3. CASE Counts(p)
      BY <2>1, <2>2, <2>3, <3>3 DEF Counts, StatsOK
    <3>4. CASE Reports(p)
      BY <2>1, <2>2, <2>3, <3>4 DEF Reports, StatsOK
    <3> QED BY <1>9, <3>1, <3>2, <3>3, <3>4, CallEffects
  <2> QED BY <2>1, <2>2, <2>3, <2>4, <2>5
<1> QED BY <1>3, <1>4, <1>5, <1>6, <1>7, <1>8, <1>9, NextCases, StillSteps

-----------------------------------------------------------------------------
(* Order. *)

(* The empty sequence rises, *)
LEMMA RisingEmpty == ASSUME NEW m PROVE Rising(<<>>) /\ Below(<<>>, m)
BY DEF Rising, Below

(* and so does a prefix of a sequence that does, *)
LEMMA RisingPrefix ==
  ASSUME NEW d \in Seq(Nat), NEW g \in Seq(Nat), NEW m, Rising(d \o g), Below(d \o g, m)
  PROVE  Rising(d) /\ Below(d, m)
<1>1. Len(d \o g) = Len(d) + Len(g) /\ Len(d) \in Nat /\ Len(g) \in Nat
      /\ \A i \in 1 .. Len(d) : (d \o g)[i] = d[i]
  BY ConcatProperties
<1>2. 1 .. Len(d) \subseteq 1 .. Len(d \o g)
  BY <1>1
<1> QED BY <1>1, <1>2 DEF Rising, Below

(* and one with a larger sample appended. *)
LEMMA RisingAppend ==
  ASSUME NEW s \in Seq(Nat), NEW x \in Nat, NEW m \in Int, Rising(s), Below(s, x - 1), x <= m
  PROVE  Rising(Append(s, x)) /\ Below(Append(s, x), m)
<1> DEFINE t == Append(s, x)
<1>1. /\ Len(s) \in Nat /\ Len(t) = Len(s) + 1 /\ t[Len(s) + 1] = x
      /\ \A i \in 1 .. Len(s) : t[i] = s[i] /\ s[i] \in Nat
  OBVIOUS
<1> HIDE DEF t
<1>2. ASSUME NEW i \in 1 .. Len(t), NEW j \in 1 .. Len(t), i < j PROVE t[i] < t[j]
  <2>1. i \in 1 .. Len(s)
    BY <1>1, <1>2
  <2>2. CASE j \in 1 .. Len(s)
    BY <1>1, <1>2, <2>1, <2>2 DEF Rising
  <2>3. CASE j = Len(s) + 1
    <3>1. s[i] <= x - 1
      BY <2>1 DEF Below
    <3> QED BY <1>1, <2>1, <2>3, <3>1
  <2>4. j \in 1 .. Len(s) \/ j = Len(s) + 1
    BY <1>1
  <2> QED BY <2>2, <2>3, <2>4
<1>3. ASSUME NEW i \in 1 .. Len(t) PROVE t[i] <= m
  <2>1. CASE i \in 1 .. Len(s)
    <3>1. s[i] <= x - 1
      BY <2>1 DEF Below
    <3> QED BY <1>1, <2>1, <3>1
  <2>2. CASE i = Len(s) + 1
    BY <1>1, <2>2
  <2> QED BY <1>1, <2>1, <2>2
<1> QED BY <1>2, <1>3 DEF Rising, Below, t

(* A larger bound. *)
LEMMA BelowMore ==
  ASSUME NEW s \in Seq(Nat), NEW m \in Int, NEW n \in Int, m <= n, Below(s, m) PROVE Below(s, n)
<1>1. \A i \in 1 .. Len(s) : s[i] \in Nat
  OBVIOUS
<1> QED BY <1>1 DEF Below

(* Joining with nothing, *)
LEMMA JoinEmpty == ASSUME NEW d \in Seq(Nat) PROVE d \o <<>> = d
BY ConcatEmptySeq

(* and appending to joined sequences. *)
LEMMA JoinAppend ==
  ASSUME NEW d \in Seq(Nat), NEW g \in Seq(Nat), NEW x \in Nat
  PROVE  d \o g \in Seq(Nat) /\ d \o Append(g, x) = Append(d \o g, x)
<1>1. d \o g \in Seq(Nat) /\ Append(g, x) \in Seq(Nat) /\ Append(d \o g, x) \in Seq(Nat)
  OBVIOUS
<1>2. d \o Append(g, x) \in Seq(Nat)
  BY <1>1
<1>3. /\ Len(d) \in Nat /\ Len(g) \in Nat
      /\ Len(d \o Append(g, x)) = Len(d) + Len(g) + 1
      /\ Len(Append(d \o g, x)) = Len(d) + Len(g) + 1
  BY <1>1
<1>4. ASSUME NEW i \in 1 .. Len(d) + Len(g) + 1
      PROVE  (d \o Append(g, x))[i] = Append(d \o g, x)[i]
  <2>1. CASE i <= Len(d)
    BY <1>1, <1>3, <2>1
  <2>2. CASE i > Len(d) /\ i <= Len(d) + Len(g)
    BY <1>1, <1>3, <2>2
  <2>3. CASE i = Len(d) + Len(g) + 1
    BY <1>1, <1>3, <2>3
  <2> QED BY <1>3, <2>1, <2>2, <2>3
<1> QED BY <1>1, <1>2, <1>3, <1>4, SeqEqual

(* Nobody has got anything. *)
LEMMA OrderInit == ASSUME Init PROVE OrderInv
<1>1. ASSUME NEW p \in Readers PROVE Got(p) = <<>> /\ pc[p] = "idle"
  BY LocalsFields DEF Init, Got
<1> QED BY <1>1, RisingEmpty DEF OrderInv, OrderOK

(* A call keeps what its process has got in order. *)
LEMMA OrderCall ==
  ASSUME TypeInv, HomeInv, NEW p \in Readers, OrderOK(p), Call(p), Low' = Low, Low \in Int
  PROVE  OrderOK(p)'
<1> DEFINE d == delivered[p]
           g == rd[p].got
           x == rd[p].item
<1>0. d \in Seq(Nat) /\ g \in Seq(Nat) /\ x \in Nat
  <2>1. rd[p] \in Locals /\ d \in Seq(Nat)
    BY DEF TypeInv
  <2> QED BY <2>1 DEF Locals
<1>1. Rising(d \o g) /\ Below(d \o g, Low)
      /\ (pc[p] = "copy" => x <= Low /\ Below(d \o g, x - 1))
  BY DEF OrderOK, Got
<1> HIDE DEF d, g, x
<1>2. CASE Got(p)' = d \o g /\ pc'[p] # "copy"
  BY <1>1, <1>2 DEF OrderOK
<1>3. CASE Got(p)' = d /\ pc'[p] # "copy"
  BY <1>0, <1>1, <1>3, RisingPrefix DEF OrderOK
<1>4. CASE Got(p)' = Append(d \o g, x) /\ pc'[p] # "copy" /\ pc[p] = "copy"
  <2>1. d \o g \in Seq(Nat)
    BY <1>0
  <2>2. Rising(Append(d \o g, x)) /\ Below(Append(d \o g, x), Low)
    BY <1>0, <1>1, <1>4, <2>1, RisingAppend
  <2> QED BY <1>4, <2>2 DEF OrderOK
<1>5. d \o <<>> = d /\ (d \o g) \o <<>> = d \o g /\ d \o Append(g, x) = Append(d \o g, x)
  <2>1. d \o g \in Seq(Nat) /\ d \o Append(g, x) = Append(d \o g, x)
    BY <1>0, JoinAppend
  <2> QED BY <1>0, <2>1, JoinEmpty
<1>6. CASE Begins(p) \/ Waits(p) \/ Leaves(p) \/ Polls(p) \/ Counts(p) \/ Empties(p) \/ Faults(p)
  <2>1. rd'[p].got = <<>> /\ delivered'[p] = d /\ pc'[p] # "copy"
    BY <1>6 DEF Begins, Waits, Leaves, Polls, Counts, Empties, Faults, Ends, Keeps, d
  <2> QED BY <1>3, <1>5, <2>1 DEF Got
<1>7. CASE Moves(p) \/ Sees(p) \/ Measures(p) \/ Reports(p)
  <2>1. rd'[p].got = g /\ delivered'[p] = d /\ pc'[p] # "copy"
    BY <1>7 DEF Moves, Sees, Measures, Reports, Keeps, d, g
  <2> QED BY <1>2, <2>1 DEF Got
<1>8. CASE Copies(p)
  <2>1. rd'[p].got = Append(g, x) /\ delivered'[p] = d /\ pc'[p] # "copy" /\ pc[p] = "copy"
    BY <1>8 DEF Copies, Keeps, d, g, x
  <2> QED BY <1>4, <1>5, <2>1 DEF Got
<1>9. CASE Returns(p)
  <2>1. rd'[p].got = <<>> /\ delivered'[p] = d \o g /\ pc'[p] # "copy"
    BY <1>9 DEF Returns, Ends, d, g
  <2> QED BY <1>2, <1>5, <2>1 DEF Got
<1> QED BY <1>6, <1>7, <1>8, <1>9, CallEffects

(* Low is an integer that does not fall. *)
LEMMA LowType == ASSUME TypeInv PROVE Low \in Int
BY DEF TypeInv, AnyRing, Low, Storing

(* What a process has got is from below the ring, which only rises. *)
LEMMA OrderStep ==
  ASSUME TypeInv, IrqInv, LockInv, RingInv, HomeInv, OrderInv, [Next]_vars
  PROVE  OrderInv'
<1> SUFFICES ASSUME ~raced', NEW q \in Readers PROVE OrderOK(q)'
  BY DEF OrderInv
<1>0. Low \in Int /\ pushed \in Nat /\ delivered[q] \in Seq(Nat) /\ rd[q] \in Locals
  BY LowType DEF TypeInv
<1>0a. rd[q].got \in Seq(Nat) /\ rd[q].item \in Nat
  BY <1>0 DEF Locals
<1>0b. Got(q) \in Seq(Nat)
  BY <1>0, <1>0a DEF Got
<1>1. ASSUME ~raced, Low' \in Int, Low <= Low', pc'[q] = pc[q], rd'[q] = rd[q],
             delivered'[q] = delivered[q]
      PROVE  OrderOK(q)'
  <2>1. Got(q)' = Got(q) /\ OrderOK(q)
    BY <1>1 DEF Got, OrderInv
  <2>2. Below(Got(q), Low')
    BY <1>0, <1>0b, <1>1, <2>1, BelowMore DEF OrderOK
  <2>3. pc[q] = "copy" => rd[q].item <= Low'
    BY <1>0, <1>0a, <1>1, <2>1 DEF OrderOK
  <2> QED BY <1>1, <2>1, <2>2, <2>3 DEF OrderOK
<1>2. CASE Still
  <2>1. Low' = Low
    BY <1>2 DEF Still, Low
  <2> QED BY <1>0, <1>1, <1>2, <2>1 DEF Still, history
<1>3. CASE BottomReserve
  <2>1. Low' \in Int /\ Low <= Low'
    BY <1>0, <1>3, ReserveRing
  <2> QED BY <1>1, <1>3, <2>1, ReserveEffect
<1>4. CASE BottomStore
  BY <1>0, <1>1, <1>4, StoreEffect, StoreRing DEF history
<1>5. ASSUME NEW p \in Readers, ReadPop(p) PROVE OrderOK(q)'
  <2>1. /\ ~raced /\ pc'[p] # "copy" /\ delivered' = delivered /\ Low' = Low
        /\ \A r \in Readers \ {p} : pc'[r] = pc[r]
    BY <1>5, PopEffect, PopRing DEF history
  <2>2. CASE q = p
    <3>1. Got(p)' = Got(p) /\ OrderOK(p)
      BY <1>5, <2>1, PopLocals DEF Got, OrderInv
    <3> QED BY <2>1, <2>2, <3>1 DEF OrderOK
  <2>3. CASE q # p
    BY <1>0, <1>1, <1>5, <2>1, <2>3, PopLocals
  <2> QED BY <2>2, <2>3
<1>6. ASSUME NEW p \in Readers, ReadPopped(p) PROVE OrderOK(q)'
  <2>1. /\ ~raced /\ pc'[p] = "copy" /\ delivered' = delivered /\ rd' = rd
        /\ (\A r \in Readers \ {p} : pc'[r] = pc[r])
        /\ Low' = Low + 1 /\ rd[p].item = Low + 1
    BY <1>6, PoppedEffect, PoppedRing
  <2>2. CASE q = p
    <3>1. Got(p)' = Got(p) /\ Rising(Got(p)) /\ Below(Got(p), Low)
      BY <2>1 DEF Got, OrderInv, OrderOK
    <3>2. Below(Got(p), Low') /\ rd[p].item - 1 = Low /\ rd[p].item <= Low'
      BY <1>0, <1>0b, <2>1, <2>2, <3>1, BelowMore
    <3> QED BY <2>1, <2>2, <3>1, <3>2 DEF OrderOK
  <2>3. CASE q # p
    BY <1>0, <1>1, <2>1, <2>3
  <2> QED BY <2>2, <2>3
<1>7. CASE ResetFirst \/ ResetSecond
  <2>1. ~raced /\ UNCHANGED <<pc, rd, delivered>> /\ bpc # "store"
    BY <1>7, ResetEffect
  <2>2. Low' = pushed /\ Low <= pushed
    <3>1. Storing = 0 /\ rb.size \in Int /\ rb.size >= 0
      BY <2>1 DEF Storing, LockInv, TypeInv, AnyRing
    <3>2. Low <= pushed
      BY <1>0, <3>1 DEF Low
    <3> QED BY <1>7, <3>2, ResetRing
  <2> QED BY <1>0, <1>1, <2>1, <2>2
<1>8. ASSUME NEW p \in Readers, Call(p) PROVE OrderOK(q)'
  <2>1. CallFrame(p) /\ Low' = Low /\ ~raced
    <3>1. CallFrame(p) /\ Aside
      BY <1>8, CallFrames, AsideSteps
    <3> QED BY <3>1, AsideKeeps DEF CallFrame
  <2>2. CASE q = p
    BY <1>0, <1>8, <2>1, <2>2, OrderCall DEF OrderInv
  <2>3. CASE q # p
    BY <1>0, <1>1, <2>1, <2>3 DEF CallFrame
  <2> QED BY <2>2, <2>3
<1> QED BY <1>2, <1>3, <1>4, <1>5, <1>6, <1>7, <1>8, NextCases, StillSteps

-----------------------------------------------------------------------------
(* The samples that have left the ring. *)

(* The samples of an extended sequence, *)
LEMMA RangeAppend ==
  ASSUME NEW s \in Seq(Nat), NEW x \in Nat PROVE Range(Append(s, x)) = Range(s) \union {x}
<1> DEFINE t == Append(s, x)
<1>1. /\ Len(s) \in Nat /\ DOMAIN s = 1 .. Len(s) /\ DOMAIN t = 1 .. Len(s) + 1
      /\ t[Len(s) + 1] = x /\ \A i \in 1 .. Len(s) : t[i] = s[i]
  OBVIOUS
<1> HIDE DEF t
<1>2. ASSUME NEW i \in 1 .. Len(s) + 1 PROVE t[i] \in Range(s) \union {x}
  BY <1>1, <1>2 DEF Range
<1>3. ASSUME NEW i \in 1 .. Len(s) PROVE s[i] \in Range(t)
  BY <1>1, <1>3 DEF Range
<1>4. x \in Range(t)
  BY <1>1 DEF Range
<1>5. Range(t) \subseteq Range(s) \union {x}
  BY <1>1, <1>2 DEF Range
<1>6. Range(s) \subseteq Range(t)
  BY <1>1, <1>3 DEF Range
<1> QED BY <1>4, <1>5, <1>6 DEF t

(* and of two joined ones, *)
LEMMA RangeJoin ==
  ASSUME NEW d \in Seq(Nat), NEW g \in Seq(Nat) PROVE Range(d \o g) = Range(d) \union Range(g)
<1> DEFINE t == d \o g
<1>1. /\ Len(d) \in Nat /\ Len(g) \in Nat /\ DOMAIN d = 1 .. Len(d) /\ DOMAIN g = 1 .. Len(g)
      /\ DOMAIN t = 1 .. Len(d) + Len(g)
      /\ \A i \in 1 .. Len(d) + Len(g) : t[i] = IF i <= Len(d) THEN d[i] ELSE g[i - Len(d)]
  BY ConcatProperties
<1> HIDE DEF t
<1>2. ASSUME NEW i \in 1 .. Len(d) PROVE d[i] \in Range(t)
  <2>1. i \in DOMAIN t /\ t[i] = d[i]
    BY <1>1
  <2> QED BY <2>1 DEF Range
<1>3. ASSUME NEW i \in 1 .. Len(g) PROVE g[i] \in Range(t)
  <2>1. i + Len(d) \in DOMAIN t /\ ~(i + Len(d) <= Len(d)) /\ (i + Len(d)) - Len(d) = i
    BY <1>1
  <2>2. t[i + Len(d)] = g[(i + Len(d)) - Len(d)]
    BY <1>1, <2>1
  <2> QED BY <2>1, <2>2 DEF Range
<1>4. ASSUME NEW i \in DOMAIN t PROVE t[i] \in Range(d) \union Range(g)
  <2>1. CASE i <= Len(d)
    BY <1>1, <2>1 DEF Range
  <2>2. CASE ~(i <= Len(d))
    <3>1. i - Len(d) \in DOMAIN g /\ t[i] = g[i - Len(d)]
      BY <1>1, <2>2
    <3> QED BY <3>1 DEF Range
  <2> QED BY <2>1, <2>2
<1>5. Range(t) \subseteq Range(d) \union Range(g)
  BY <1>4 DEF Range
<1>6. Range(d) \subseteq Range(t) /\ Range(g) \subseteq Range(t)
  BY <1>1, <1>2, <1>3 DEF Range
<1> QED BY <1>5, <1>6 DEF t

(* which are different when the whole rises. *)
LEMMA RangeApart ==
  ASSUME NEW d \in Seq(Nat), NEW g \in Seq(Nat), Rising(d \o g)
  PROVE  Range(d) \intersect Range(g) = {}
<1> DEFINE t == d \o g
<1>1. /\ Len(d) \in Nat /\ Len(g) \in Nat /\ DOMAIN d = 1 .. Len(d) /\ DOMAIN g = 1 .. Len(g)
      /\ Len(t) = Len(d) + Len(g)
      /\ \A i \in 1 .. Len(d) + Len(g) : t[i] = IF i <= Len(d) THEN d[i] ELSE g[i - Len(d)]
      /\ (\A i \in 1 .. Len(d) : d[i] \in Nat) /\ (\A i \in 1 .. Len(g) : g[i] \in Nat)
  BY ConcatProperties
<1> HIDE DEF t
<1>2. ASSUME NEW i \in 1 .. Len(d), NEW j \in 1 .. Len(g) PROVE d[i] # g[j]
  <2>1. i \in 1 .. Len(t) /\ j + Len(d) \in 1 .. Len(t) /\ i < j + Len(d)
        /\ ~(j + Len(d) <= Len(d)) /\ (j + Len(d)) - Len(d) = j
    BY <1>1
  <2>2. t[i] = d[i] /\ d[i] \in Nat /\ g[j] \in Nat
    BY <1>1
  <2>3. t[j + Len(d)] = g[(j + Len(d)) - Len(d)]
    BY <1>1, <2>1
  <2>4. t[i] < t[j + Len(d)]
    BY <2>1 DEF Rising, t
  <2>5. d[i] < g[j]
    BY <2>1, <2>2, <2>3, <2>4
  <2> QED BY <2>2, <2>5
<1> QED BY <1>1, <1>2 DEF Range

(* The samples of a sequence with a bound. *)
LEMMA RangeBelow ==
  ASSUME NEW s \in Seq(Nat), NEW m \in Int, Below(s, m)
  PROVE  \A n \in Range(s) : n \in Nat /\ n <= m
BY DEF Range, Below

(* Nothing has left the ring. *)
LEMMA AccountInit == ASSUME Init PROVE AccountInv
<1>1. ASSUME NEW p \in Readers PROVE Held(p) = {}
  BY LocalsFields DEF Init, Held, InFlight, Range
<1>2. Low = 0 /\ rb.dropcount = 0 /\ dropped = {} /\ cleared = {} /\ lost = {} /\ ~resetting
  BY RingInit DEF Init, ringbuf_init
<1>3. Cardinality({}) = 0 /\ IsFiniteSet({})
  BY FS_EmptySet
<1>4. Taken = {} /\ 1 .. Low = {}
  BY <1>1, <1>2 DEF Taken
<1> QED BY <1>1, <1>2, <1>3, <1>4 DEF AccountInv

(* A call takes samples from its process only by losing them. *)
LEMMA HeldCall ==
  ASSUME TypeInv, HomeInv, NEW p \in Readers, OrderOK(p), Call(p), Held(p) \intersect lost = {}
  PROVE  /\ lost \subseteq lost' /\ lost' \subseteq lost \union Held(p)
         /\ Held(p)' = Held(p) \ (lost' \ lost)
<1> DEFINE d == delivered[p]
           g == rd[p].got
           x == rd[p].item
<1>0. d \in Seq(Nat) /\ g \in Seq(Nat) /\ x \in Nat
  <2>1. rd[p] \in Locals /\ d \in Seq(Nat)
    BY DEF TypeInv
  <2> QED BY <2>1 DEF Locals
<1>1. Rising(d \o g) /\ (pc[p] = "copy" => Below(d \o g, x - 1))
  BY DEF OrderOK, Got
<1>2. Held(p) = Range(d) \union Range(g) \union (IF pc[p] = "copy" THEN {x} ELSE {})
  BY DEF Held, InFlight
<1>3. Held(p)' = Range(delivered'[p]) \union Range(rd'[p].got)
                   \union (IF pc'[p] = "copy" THEN {rd'[p].item} ELSE {})
  BY DEF Held, InFlight
<1> HIDE DEF d, g, x
<1>4. /\ Range(d) \intersect Range(g) = {} /\ Range(<<>>) = {}
      /\ Range(d \o g) = Range(d) \union Range(g) /\ Range(Append(g, x)) = Range(g) \union {x}
  <2>1. Range(<<>>) = {}
    BY DEF Range
  <2>2. Range(d) \intersect Range(g) = {}
    BY <1>0, <1>1, RangeApart
  <2>3. Range(d \o g) = Range(d) \union Range(g)
    BY <1>0, RangeJoin
  <2>4. Range(Append(g, x)) = Range(g) \union {x}
    BY <1>0, RangeAppend
  <2> QED BY <2>1, <2>2, <2>3, <2>4
<1>5. ASSUME pc[p] = "copy" PROVE x \notin Range(d)
  <2>1. d \o g \in Seq(Nat) /\ x - 1 \in Int /\ Below(d \o g, x - 1)
    BY <1>0, <1>1, <1>5
  <2>2. \A n \in Range(d \o g) : n \in Nat /\ n <= x - 1
    BY <2>1, RangeBelow
  <2> QED BY <1>0, <1>4, <2>2
<1>6. CASE Begins(p) \/ Waits(p) \/ Leaves(p) \/ Polls(p) \/ Counts(p)
  <2>1. rd'[p].got = <<>> /\ delivered'[p] = d /\ pc'[p] # "copy" /\ pc[p] # "copy" /\ g = <<>>
        /\ lost' = lost
    BY <1>6 DEF Begins, Waits, Leaves, Polls, Counts, Keeps, HomeInv, d, g
  <2> QED BY <1>2, <1>3, <1>4, <2>1
<1>7. CASE Moves(p) \/ Sees(p) \/ Measures(p) \/ Reports(p)
  <2>1. rd'[p].got = g /\ delivered'[p] = d /\ pc'[p] # "copy" /\ pc[p] # "copy" /\ lost' = lost
    BY <1>7 DEF Moves, Sees, Measures, Reports, Keeps, d, g
  <2> QED BY <1>2, <1>3, <2>1
<1>8. CASE Copies(p)
  <2>1. rd'[p].got = Append(g, x) /\ delivered'[p] = d /\ pc'[p] # "copy" /\ pc[p] = "copy"
        /\ lost' = lost
    BY <1>8 DEF Copies, Keeps, d, g, x
  <2> QED BY <1>2, <1>3, <1>4, <2>1
<1>9. CASE Returns(p)
  <2>1. rd'[p].got = <<>> /\ delivered'[p] = d \o g /\ pc'[p] # "copy" /\ pc[p] # "copy"
        /\ lost' = lost
    BY <1>9 DEF Returns, Ends, d, g
  <2> QED BY <1>2, <1>3, <1>4, <2>1
<1>10. CASE Empties(p)
  <2>1. rd'[p].got = <<>> /\ delivered'[p] = d /\ pc'[p] # "copy" /\ pc[p] # "copy"
        /\ lost' = lost \union Range(g)
    BY <1>10 DEF Empties, Ends, d, g
  <2> QED BY <1>2, <1>3, <1>4, <2>1
<1>11. CASE Faults(p)
  <2>1. rd'[p].got = <<>> /\ delivered'[p] = d /\ pc'[p] # "copy" /\ pc[p] = "copy"
        /\ lost' = lost \union Range(g) \union {x}
    BY <1>11 DEF Faults, Ends, d, g, x
  <2> QED BY <1>2, <1>3, <1>4, <1>5, <2>1
<1> QED BY <1>6, <1>7, <1>8, <1>9, <1>10, <1>11, CallEffects

(* The samples that have left the ring are counted from 1. *)
LEMMA LowNat == ASSUME TypeInv, StatsInv, ~raced PROVE Low \in Nat
<1>1. rb.size \in Int /\ rb.dropcount \in Nat /\ pushed \in Nat /\ Storing \in {0, 1}
      /\ rb.size + rb.dropcount <= pushed + Storing
  BY DEF TypeInv, AnyRing, Storing, StatsInv
<1>2. pushed + Storing - rb.size \in Nat
  BY <1>1
<1> QED BY <1>1, <1>2 DEF Low

(* A call keeps the account. *)
LEMMA AccountCall ==
  ASSUME TypeInv, HomeInv, OrderInv, AccountInv, NEW p \in Readers, Call(p), Low' = Low, ~raced
  PROVE  AccountInv'
<1> DEFINE more == lost' \ lost
<1>1. /\ UNCHANGED <<rb, resetting, dropped, cleared>>
      /\ \A q \in Readers \ {p} : pc'[q] = pc[q] /\ rd'[q] = rd[q] /\ delivered'[q] = delivered[q]
  BY CallFrames DEF CallFrame, ringVars
<1>2. \A q \in Readers \ {p} : Held(q)' = Held(q)
  BY <1>1 DEF Held, InFlight
<1>3. /\ dropped \union cleared \union lost \union Taken = 1 .. Low
      /\ dropped \intersect cleared = {} /\ dropped \intersect lost = {} /\ cleared \intersect lost = {}
      /\ \A q \in Readers : Held(q) \intersect (dropped \union cleared \union lost) = {}
      /\ \A q, r \in Readers : q # r => Held(q) \intersect Held(r) = {}
      /\ IsFiniteSet(dropped)
      /\ IF resetting THEN dropped = {} ELSE Cardinality(dropped) = rb.dropcount
  BY DEF AccountInv
<1>4. lost' = lost \union more /\ more \subseteq Held(p) /\ Held(p)' = Held(p) \ more
  <2>1. Held(p) \intersect lost = {} /\ OrderOK(p)
    BY <1>3 DEF OrderInv
  <2> QED BY <2>1, HeldCall
<1> HIDE DEF more
<1>5. Taken = more \union Taken'
  <2>1. \A q \in Readers : Held(q) \subseteq more \union Held(q)'
    BY <1>2, <1>4
  <2>2. \A q \in Readers : Held(q)' \subseteq Held(q)
    BY <1>2, <1>4
  <2>3. Taken \subseteq more \union Taken'
    BY <2>1 DEF Taken
  <2>4. Taken' \subseteq Taken
    BY <2>2 DEF Taken
  <2>5. more \subseteq Taken
    BY <1>4 DEF Taken
  <2> QED BY <2>3, <2>4, <2>5
<1>6. (dropped \union cleared \union lost \union Taken)' = 1 .. Low'
  BY <1>1, <1>3, <1>4, <1>5
<1>7. /\ dropped' \intersect cleared' = {} /\ dropped' \intersect lost' = {}
      /\ cleared' \intersect lost' = {}
  BY <1>1, <1>3, <1>4
<1>8. ASSUME NEW q \in Readers PROVE Held(q)' \intersect (dropped \union cleared \union lost)' = {}
  <2>1. CASE q = p
    BY <1>1, <1>3, <1>4, <2>1
  <2>2. CASE q # p
    BY <1>1, <1>2, <1>3, <1>4, <2>2
  <2> QED BY <2>1, <2>2
<1>9. ASSUME NEW q \in Readers, NEW r \in Readers, q # r PROVE Held(q)' \intersect Held(r)' = {}
  <2>1. Held(q)' \subseteq Held(q) /\ Held(r)' \subseteq Held(r)
    BY <1>2, <1>4
  <2> QED BY <1>3, <1>9, <2>1
<1> QED BY <1>1, <1>3, <1>6, <1>7, <1>8, <1>9 DEF AccountInv

(* A pop gives the next sample to its process. *)
LEMMA AccountPopped ==
  ASSUME TypeInv, LockInv, RingInv, StatsInv, AccountInv, NEW p \in Readers, ReadPopped(p), ~raced'
  PROVE  AccountInv'
<1>1. /\ ~raced /\ pc[p] = "pop2" /\ pc'[p] = "copy" /\ rb'.dropcount = rb.dropcount
      /\ (\A q \in Readers \ {p} : pc'[q] = pc[q])
      /\ UNCHANGED <<rd, resetting, dropped, cleared, lost, delivered>>
  BY PoppedEffect
<1>2. Low' = Low + 1 /\ rd[p].item = Low + 1 /\ Low \in Nat
  BY <1>1, PoppedRing, LowNat
<1>3. /\ dropped \union cleared \union lost \union Taken = 1 .. Low
      /\ dropped \intersect cleared = {} /\ dropped \intersect lost = {} /\ cleared \intersect lost = {}
      /\ \A q \in Readers : Held(q) \intersect (dropped \union cleared \union lost) = {}
      /\ \A q, r \in Readers : q # r => Held(q) \intersect Held(r) = {}
      /\ IsFiniteSet(dropped)
      /\ IF resetting THEN dropped = {} ELSE Cardinality(dropped) = rb.dropcount
  BY <1>1 DEF AccountInv
<1>4. Held(p)' = Held(p) \union {Low + 1} /\ \A q \in Readers \ {p} : Held(q)' = Held(q)
  BY <1>1, <1>2 DEF Held, InFlight
<1>5. /\ Low + 1 \notin dropped \union cleared \union lost
      /\ \A q \in Readers : Low + 1 \notin Held(q)
  <2>1. Low + 1 \notin 1 .. Low
    BY <1>2
  <2> QED BY <1>3, <2>1 DEF Taken
<1>6. Taken' = Taken \union {Low + 1}
  <2>1. Taken' \subseteq Taken \union {Low + 1}
    BY <1>4 DEF Taken
  <2>2. \A q \in Readers : Held(q) \subseteq Held(q)'
    BY <1>4
  <2>3. Taken \subseteq Taken'
    BY <2>2 DEF Taken
  <2>4. Low + 1 \in Taken'
    BY <1>4 DEF Taken
  <2> QED BY <2>1, <2>3, <2>4
<1>7. 1 .. Low' = 1 .. Low \union {Low + 1}
  BY <1>2
<1> HIDE DEF Low
<1>8. (dropped \union cleared \union lost \union Taken)' = 1 .. Low'
  BY <1>1, <1>3, <1>6, <1>7
<1>9. ASSUME NEW q \in Readers PROVE Held(q)' \intersect (dropped \union cleared \union lost)' = {}
  BY <1>1, <1>3, <1>4, <1>5
<1>10. ASSUME NEW q \in Readers, NEW r \in Readers, q # r PROVE Held(q)' \intersect Held(r)' = {}
  BY <1>3, <1>4, <1>5, <1>10
<1> QED BY <1>1, <1>3, <1>8, <1>9, <1>10 DEF AccountInv

(* A reservation in a full ring drops the next sample and counts it. *)
LEMMA AccountReserve ==
  ASSUME TypeInv, LockInv, RingInv, StatsInv, AccountInv, BottomReserve, ~raced'
  PROVE  AccountInv'
<1>1. /\ ~raced /\ ~resetting /\ UNCHANGED <<pc, rd, resetting, cleared, lost, delivered>>
      /\ rb'.dropcount = (IF rb.size = RINGBUF_SIZE THEN rb.dropcount + 1 ELSE rb.dropcount)
      /\ dropped' = (IF rb.size = RINGBUF_SIZE THEN dropped \union {ringbuf_front(rb)} ELSE dropped)
  BY ReserveEffect
<1>2. Low' = (IF rb.size = RINGBUF_SIZE THEN Low + 1 ELSE Low)
      /\ (rb.size = RINGBUF_SIZE => ringbuf_front(rb) = Low + 1)
      /\ Low \in Nat
  BY <1>1, ReserveRing, LowNat
<1>3. /\ dropped \union cleared \union lost \union Taken = 1 .. Low
      /\ dropped \intersect cleared = {} /\ dropped \intersect lost = {} /\ cleared \intersect lost = {}
      /\ \A q \in Readers : Held(q) \intersect (dropped \union cleared \union lost) = {}
      /\ \A q, r \in Readers : q # r => Held(q) \intersect Held(r) = {}
      /\ IsFiniteSet(dropped) /\ Cardinality(dropped) = rb.dropcount
  BY <1>1 DEF AccountInv
<1>4. (\A q \in Readers : Held(q)' = Held(q)) /\ Taken' = Taken
  BY <1>1 DEF Held, InFlight, Taken
<1>5. CASE rb.size # RINGBUF_SIZE
  BY <1>1, <1>2, <1>3, <1>4, <1>5 DEF AccountInv
<1>6. CASE rb.size = RINGBUF_SIZE
  <2>1. dropped' = dropped \union {Low + 1} /\ Low' = Low + 1 /\ rb'.dropcount = rb.dropcount + 1
    BY <1>1, <1>2, <1>6
  <2>2. /\ Low + 1 \notin dropped \union cleared \union lost
        /\ \A q \in Readers : Low + 1 \notin Held(q)
    <3>1. Low + 1 \notin 1 .. Low
      BY <1>2
    <3> QED BY <1>3, <3>1 DEF Taken
  <2>3. IsFiniteSet(dropped') /\ Cardinality(dropped') = Cardinality(dropped) + 1
    BY <1>3, <2>1, <2>2, FS_AddElement
  <2>4. 1 .. Low' = 1 .. Low \union {Low + 1}
    BY <1>2, <2>1
  <2> HIDE DEF Low
  <2>5. (dropped \union cleared \union lost \union Taken)' = 1 .. Low'
    BY <1>1, <1>3, <1>4, <2>1, <2>4
  <2>6. dropped' \intersect cleared' = {} /\ dropped' \intersect lost' = {}
        /\ cleared' \intersect lost' = {}
    BY <1>1, <1>3, <2>1, <2>2
  <2>7. \A q \in Readers : Held(q)' \intersect (dropped \union cleared \union lost)' = {}
    BY <1>1, <1>3, <1>4, <2>1, <2>2
  <2> QED BY <1>1, <1>3, <1>4, <2>1, <2>3, <2>5, <2>6, <2>7 DEF AccountInv
<1> QED BY <1>5, <1>6

(* A reset clears the ring and what had been dropped before. *)
LEMMA AccountReset ==
  ASSUME TypeInv, LockInv, RingInv, StatsInv, AccountInv, ResetFirst \/ ResetSecond, ~raced'
  PROVE  AccountInv'
<1>1. ~raced /\ UNCHANGED <<pc, rd, lost, delivered>> /\ pushed \in Nat /\ bpc # "store"
  BY ResetEffect DEF TypeInv
<1>2. /\ dropped \union cleared \union lost \union Taken = 1 .. Low
      /\ dropped \intersect cleared = {} /\ dropped \intersect lost = {} /\ cleared \intersect lost = {}
      /\ \A q \in Readers : Held(q) \intersect (dropped \union cleared \union lost) = {}
      /\ \A q, r \in Readers : q # r => Held(q) \intersect Held(r) = {}
      /\ IsFiniteSet(dropped)
      /\ IF resetting THEN dropped = {} ELSE Cardinality(dropped) = rb.dropcount
  BY <1>1 DEF AccountInv
<1>3. (\A q \in Readers : Held(q)' = Held(q)) /\ Taken' = Taken
  BY <1>1 DEF Held, InFlight, Taken
<1>4. IsFiniteSet({}) /\ Cardinality({}) = 0
  BY FS_EmptySet
<1>5. Low \in Nat /\ Low' = pushed
  BY <1>1, LowNat, ResetRing
<1>6. CASE ResetFirst
  <2> DEFINE ring == Low + 1 .. pushed
  <2>1. resetting' /\ dropped' = {} /\ cleared' = cleared \union dropped \union ring /\ ~resetting
    BY <1>6, ResetEffect, ResetRing
  <2>2. Low <= pushed
    <3>1. Storing = 0 /\ rb.size \in Int /\ rb.size >= 0
      BY <1>1 DEF Storing, LockInv, TypeInv, AnyRing
    <3> QED BY <1>1, <2>1, <3>1 DEF Low
  <2>3. 1 .. pushed = 1 .. Low \union ring /\ 1 .. Low \intersect ring = {}
    BY <1>1, <1>5, <2>2
  <2> HIDE DEF ring, Low
  <2>4. (dropped \union cleared \union lost \union Taken)' = 1 .. Low'
    BY <1>1, <1>2, <1>3, <1>5, <2>1, <2>3
  <2>5. \A q \in Readers : Held(q) \intersect ring = {}
    BY <1>2, <2>3 DEF Taken
  <2>6. cleared' \intersect lost' = {}
    BY <1>1, <1>2, <2>1, <2>3
  <2>7. \A q \in Readers : Held(q)' \intersect (dropped \union cleared \union lost)' = {}
    BY <1>1, <1>2, <1>3, <2>1, <2>5
  <2> QED BY <1>2, <1>3, <1>4, <2>1, <2>4, <2>6, <2>7 DEF AccountInv
<1>7. CASE ResetSecond
  <2>1. resetting /\ ~resetting' /\ rb'.dropcount = 0 /\ UNCHANGED <<cleared, dropped>> /\ Low = pushed
    BY <1>7, ResetEffect, ResetRing
  <2> HIDE DEF Low
  <2> QED BY <1>1, <1>2, <1>3, <1>4, <1>5, <2>1 DEF AccountInv
<1> QED BY <1>6, <1>7

(* No step loses a sample or hands it out twice. *)
LEMMA AccountStep ==
  ASSUME TypeInv, IrqInv, LockInv, RingInv, HomeInv, StatsInv, OrderInv, AccountInv, [Next]_vars
  PROVE  AccountInv'
<1> SUFFICES ASSUME ~raced' PROVE AccountInv'
  BY DEF AccountInv
<1>1. ASSUME ~raced, Low' = Low, rb'.dropcount = rb.dropcount,
             UNCHANGED <<dropped, cleared, lost, resetting>>,
             \A q \in Readers : Held(q)' = Held(q)
      PROVE  AccountInv'
  <2>1. Taken' = Taken
    BY <1>1 DEF Taken
  <2> QED BY <1>1, <2>1 DEF AccountInv
<1>2. CASE Still
  <2>1. Low' = Low /\ ~raced /\ rb' = rb /\ UNCHANGED <<dropped, cleared, lost, resetting>>
    BY <1>2 DEF Still, Low, history
  <2>2. \A q \in Readers : Held(q)' = Held(q)
    BY <1>2 DEF Still, history, Held, InFlight
  <2> QED BY <1>1, <2>1, <2>2
<1>3. CASE BottomStore
  <2>1. /\ Low' = Low /\ ~raced /\ rb'.dropcount = rb.dropcount
        /\ UNCHANGED <<dropped, cleared, lost, resetting, pc, rd, delivered>>
    BY <1>3, StoreEffect, StoreRing DEF history
  <2>2. \A q \in Readers : Held(q)' = Held(q)
    BY <2>1 DEF Held, InFlight
  <2> QED BY <1>1, <2>1, <2>2
<1>4. ASSUME NEW p \in Readers, ReadPop(p) PROVE AccountInv'
  <2>1. /\ Low' = Low /\ ~raced /\ rb' = rb
        /\ UNCHANGED <<dropped, cleared, lost, resetting, delivered>>
        /\ pc[p] # "copy" /\ pc'[p] # "copy" /\ \A q \in Readers \ {p} : pc'[q] = pc[q]
    BY <1>4, PopEffect, PopRing DEF history
  <2>2. rd'[p].got = rd[p].got /\ \A q \in Readers \ {p} : rd'[q] = rd[q]
    BY <1>4, PopLocals
  <2>3. \A q \in Readers : Held(q)' = Held(q)
    BY <2>1, <2>2 DEF Held, InFlight
  <2> QED BY <1>1, <2>1, <2>3
<1>5. ASSUME NEW p \in Readers, Call(p) PROVE AccountInv'
  <2>1. CallFrame(p) /\ Aside
    BY <1>5, CallFrames, AsideSteps
  <2>2. Low' = Low /\ ~raced
    BY <2>1, AsideKeeps DEF CallFrame
  <2> QED BY <1>5, <2>2, AccountCall
<1> QED BY <1>2, <1>3, <1>4, <1>5, NextCases, StillSteps, AccountReserve, AccountPopped, AccountReset

-----------------------------------------------------------------------------
(* The theorems. *)

(* Every part of the invariant holds initially and is kept by every step. *)
LEMMA Invariant == Spec => []IInv
<1>1. Init => IInv
  BY TypeInit, IrqInit, LockInit, RingInit, HomeInit, RivalInit, StatsInit, OrderInit, AccountInit
     DEF IInv
<1>2. IInv /\ [Next]_vars => IInv'
  BY TypeStep, IrqStep, LockStep, RingStep, HomeStep, RivalStep, StatsStep, OrderStep, AccountStep
     DEF IInv
<1> QED BY <1>1, <1>2, PTL DEF Spec

(* Whatever a reset overlaps, the indices of the ring stay inside data[]   *)
(* and its size below the limit, and all other variables keep their types. *)
THEOREM TypeCorrect == Spec => []TypeOK
<1>1. IInv => TypeOK
  BY DEF IInv, TypeInv, TypeOK, AnyRing
<1> QED BY <1>1, Invariant, PTL

(* A read ends empty-handed, or a poll's promise is broken, only when      *)
(* another reader or a reset took the samples (myfbread's clamped loop).   *)
THEOREM ShortReadByRival == Spec => []ShortReadNeedsRival
<1>1. IInv => ShortReadNeedsRival
  BY DEF IInv, RivalInv, RivalOK, ShortReadNeedsRival
<1> QED BY <1>1, Invariant, PTL

(* The two values of FB_GET_STATS, read in two sections, never add up to   *)
(* more samples than were pushed.                                          *)
THEOREM StatsArePlausible == Spec => []StatsPlausible
<1>1. IInv => StatsPlausible
  BY DEF IInv, StatsInv, StatsOK, Storing, StatsPlausible
<1> QED BY <1>1, Invariant, PTL

(* A process is handed the samples in the order they were taken. *)
THEOREM OrderIsKept == Spec => []DeliveredInOrder
<1>1. ASSUME IInv, ~raced, NEW p \in Readers
      PROVE  LET s == delivered[p] \o rd[p].got
             IN  \A i, j \in DOMAIN s : i < j => s[i] < s[j]
  <2>1. delivered[p] \in Seq(Nat) /\ rd[p].got \in Seq(Nat)
    <3>1. delivered[p] \in Seq(Nat) /\ rd[p] \in Locals
      BY <1>1 DEF IInv, TypeInv
    <3> QED BY <3>1 DEF Locals
  <2>2. Got(p) \in Seq(Nat)
    BY <2>1 DEF Got
  <2>3. DOMAIN Got(p) = 1 .. Len(Got(p))
    BY <2>2
  <2>4. Rising(Got(p))
    BY <1>1 DEF IInv, OrderInv, OrderOK
  <2> QED BY <2>3, <2>4 DEF Rising, Got
<1>2. IInv => DeliveredInOrder
  BY <1>1 DEF DeliveredInOrder
<1> QED BY <1>2, Invariant, PTL

(* Between sections every sample is in one place: in the ring, dropped and *)
(* counted, cleared by a reset, lost by a failed read, or with one process.*)
THEOREM AccountIsExact == Spec => []SamplesAccounted
<1> DEFINE flight == UNION {InFlight(p) : p \in Readers}
           given == UNION {Range(delivered[p]) : p \in Readers}
           ring == Range(Contents(rb))
<1>1. ASSUME IInv, Quiet PROVE
        /\ UNION {Places[i] : i \in DOMAIN Places} = 1 .. pushed
        /\ \A i, j \in DOMAIN Places : i # j => Places[i] \intersect Places[j] = {}
        /\ \A p, r \in Readers : p # r =>
             (InFlight(p) \union Range(delivered[p])) \intersect
             (InFlight(r) \union Range(delivered[r])) = {}
        /\ Cardinality(dropped) = rb.dropcount
  <2>0. ~raced /\ ~resetting /\ bpc # "store" /\ TypeInv /\ LockInv /\ RingInv /\ StatsInv
    BY <1>1 DEF Quiet, InSection, IInv
  <2>1. /\ dropped \union cleared \union lost \union Taken = 1 .. Low
        /\ dropped \intersect cleared = {} /\ dropped \intersect lost = {}
        /\ cleared \intersect lost = {}
        /\ \A q \in Readers : Held(q) \intersect (dropped \union cleared \union lost) = {}
        /\ \A q, r \in Readers : q # r => Held(q) \intersect Held(r) = {}
        /\ Cardinality(dropped) = rb.dropcount
    BY <1>1, <2>0 DEF IInv, AccountInv
  <2>2. ring = Low + 1 .. pushed /\ Low \in Nat /\ pushed \in Nat /\ Low <= pushed
    <3>1. ring = Low + 1 .. pushed
      BY <2>0, RingContents
    <3>2. Low \in Nat
      BY <2>0, LowNat
    <3>3. pushed \in Nat /\ rb.size \in 0 .. RINGBUF_SIZE /\ Low = pushed + Storing - rb.size
          /\ Storing = 0
      BY <2>0, RingFacts DEF Storing
    <3> QED BY <3>1, <3>2, <3>3
  <2>3. ring \union 1 .. Low = 1 .. pushed /\ ring \intersect 1 .. Low = {}
    BY <2>2
  <2> HIDE DEF ring, flight, given
  <2>4. ASSUME NEW p \in Readers PROVE InFlight(p) \intersect Range(delivered[p]) = {}
    <3> DEFINE d == delivered[p]
               g == rd[p].got
               x == rd[p].item
    <3>1. d \in Seq(Nat) /\ g \in Seq(Nat) /\ x \in Nat
      <4>1. d \in Seq(Nat) /\ rd[p] \in Locals
        BY <2>0 DEF TypeInv
      <4> QED BY <4>1 DEF Locals
    <3>2. OrderOK(p)
      BY <1>1, <2>0 DEF IInv, OrderInv
    <3>3. Rising(d \o g) /\ (pc[p] = "copy" => Below(d \o g, x - 1))
      BY <3>2 DEF OrderOK, Got
    <3> HIDE DEF d, g, x
    <3>4. Range(d) \intersect Range(g) = {}
      BY <3>1, <3>3, RangeApart
    <3>5. ASSUME pc[p] = "copy" PROVE x \notin Range(d)
      <4>1. d \o g \in Seq(Nat) /\ x - 1 \in Int
        BY <3>1
      <4>2. \A n \in Range(d \o g) : n \in Nat /\ n <= x - 1
        BY <3>3, <3>5, <4>1, RangeBelow
      <4>3. Range(d \o g) = Range(d) \union Range(g)
        BY <3>1, RangeJoin
      <4> QED BY <3>1, <4>2, <4>3
    <3> QED BY <3>4, <3>5 DEF InFlight, d, g, x
  <2>5. flight \intersect given = {}
    <3>1. ASSUME NEW p \in Readers, NEW q \in Readers
          PROVE  InFlight(p) \intersect Range(delivered[q]) = {}
      BY <2>1, <2>4 DEF Held
    <3> QED BY <3>1 DEF flight, given
  <2>6. Taken = flight \union given
    BY DEF Taken, flight, given, Held
  <2>7. Taken \intersect (dropped \union cleared \union lost) = {}
    BY <2>1 DEF Taken
  <2>8. Places = <<ring, dropped, cleared, lost, flight, given>>
    BY DEF Places, ring, flight, given
  <2>9. DOMAIN Places = 1 .. 6 /\ Places[1] = ring /\ Places[2] = dropped /\ Places[3] = cleared
        /\ Places[4] = lost /\ Places[5] = flight /\ Places[6] = given
    BY <2>8
  <2> HIDE DEF Places, Low
  <2>10. UNION {Places[i] : i \in DOMAIN Places}
           = ring \union dropped \union cleared \union lost \union flight \union given
    BY <2>9
  <2>11. UNION {Places[i] : i \in DOMAIN Places} = 1 .. pushed
    BY <2>1, <2>3, <2>6, <2>10
  <2>12. ASSUME NEW i \in DOMAIN Places, NEW j \in DOMAIN Places, i # j
         PROVE  Places[i] \intersect Places[j] = {}
    <3>1. /\ ring \intersect (dropped \union cleared \union lost \union Taken) = {}
          /\ dropped \intersect cleared = {} /\ dropped \intersect lost = {}
          /\ cleared \intersect lost = {}
          /\ (flight \union given) \intersect (dropped \union cleared \union lost) = {}
          /\ flight \intersect given = {}
      BY <2>1, <2>3, <2>5, <2>6, <2>7
    <3>2. i \in {1, 2, 3, 4, 5, 6} /\ j \in {1, 2, 3, 4, 5, 6}
      BY <2>9
    <3> QED BY <2>6, <2>9, <2>12, <3>1, <3>2
  <2>13. \A p, r \in Readers : p # r =>
           (InFlight(p) \union Range(delivered[p])) \intersect
           (InFlight(r) \union Range(delivered[r])) = {}
    BY <2>1 DEF Held
  <2> QED BY <2>1, <2>11, <2>12, <2>13
<1>2. IInv => SamplesAccounted
  BY <1>1 DEF SamplesAccounted
<1> QED BY <1>2, Invariant, PTL

-----------------------------------------------------------------------------
(* What SleeperRuns rests on besides fairness, which stays with TLC. *)

(* A process that sleeps in a read or a poll while the ring holds samples  *)
(* has been woken, or the interrupt thread is on its way to the wake_up.   *)
NoSleeperStranded ==
  ~raced => \A p \in Readers :
    Sleeping(p) /\ rb.size > 0 => p \notin asleep \/ bpc \in {"store", "wake"}

(* An interrupt line that nobody is serving is unmasked. *)
MaskInv == ~desc.hard /\ ~desc.woken /\ bpc = "idle" => ~desc.masked

(* A pending event is about to be delivered or has a handler that is ready *)
(* to go on, and the only thing it may find in its way, the ring's lock,   *)
(* is held by a thread inside its section, where it waits for nothing.     *)
NoSampleStranded ==
  /\ bell.irq_status => \/ irq_deliverable(desc) /\ bell.line
                        \/ desc.hard \/ (desc.woken /\ bpc = "idle") \/ bpc # "idle"
  /\ ~raced /\ lk # Nobody => IF lk = Bottom THEN bpc = "store"
                                             ELSE lk \in Readers /\ pc[lk] = "pop2"

(* A call puts only its own process to sleep, and only after it has found  *)
(* the ring empty.                                                         *)
LEMMA CallSleeps ==
  ASSUME TypeInv, NEW p \in Readers, Call(p)
  PROVE  /\ \A q \in Readers \ {p} : q \in asleep' => q \in asleep
         /\ Sleeping(p)' => rb.size = 0
<1> USE DEF TypeInv, Sleeping
<1>1. ASSUME NEW want \in 0 .. MaxCount, NEW nonblock \in BOOLEAN, ReadStart(p, want, nonblock)
      PROVE  asleep' = asleep /\ ~Sleeping(p)'
  BY <1>1 DEF ReadStart, Return
<1>2. ASSUME WaitPrepare(p) \/ WaitWoken(p) \/ PollWait(p) \/ PollWoken(p)
      PROVE  (\A q \in Readers \ {p} : q \in asleep' => q \in asleep) /\ ~Sleeping(p)'
  BY <1>2 DEF WaitPrepare, WaitWoken, PollWait, PollWoken
<1>3. ASSUME WaitCheck(p) \/ myfbpoll(p)
      PROVE  /\ \A q \in Readers \ {p} : q \in asleep' => q \in asleep
             /\ Sleeping(p)' => rb.size = 0
  BY <1>3 DEF WaitCheck, myfbpoll, Return
<1>4. ASSUME WaitSignal(p) \/ ReadEmpty(p) \/ ReadReturn(p)
      PROVE  (\A q \in Readers \ {p} : q \in asleep' => q \in asleep) /\ ~Sleeping(p)'
  BY <1>4 DEF WaitSignal, ReadEmpty, ReadReturn, Return
<1>5. ASSUME ReadLen(p) \/ ReadCopy(p) PROVE asleep' = asleep /\ ~Sleeping(p)'
  BY <1>5 DEF ReadLen, ReadCopy, Return
<1>6. ASSUME PollStart(p) \/ StatsSize(p) \/ StatsLost(p) PROVE asleep' = asleep /\ ~Sleeping(p)'
  BY <1>6 DEF PollStart, StatsSize, StatsLost
<1> QED BY <1>1, <1>2, <1>3, <1>4, <1>5, <1>6 DEF Call

(* No step leaves a sleeper behind with samples in the ring. *)
LEMMA WakeStep ==
  ASSUME TypeInv, LockInv, NoSleeperStranded, [Next]_vars PROVE NoSleeperStranded'
<1> SUFFICES ASSUME ~raced', NEW p \in Readers, Sleeping(p)', rb'.size > 0, p \in asleep',
                    bpc' \notin {"store", "wake"}
             PROVE  FALSE
  BY DEF NoSleeperStranded
<1>0. rb.size \in Int
  BY DEF TypeInv, AnyRing
<1>1. ASSUME ~raced, Sleeping(p), rb.size > 0, p \in asleep PROVE bpc \in {"store", "wake"}
  BY <1>1 DEF NoSleeperStranded
<1>2. CASE Timer \/ IrqEnter \/ myirq_top
  BY <1>1, <1>2 DEF Timer, IrqEnter, myirq_top, ringVars, procVars, Sleeping
<1>3. CASE BottomSample \/ BottomDone
  BY <1>1, <1>3 DEF BottomSample, BottomDone, ringVars, procVars, Sleeping
<1>4. CASE BottomReserve \/ BottomStore
  BY <1>4 DEF BottomReserve, BottomStore
<1>5. CASE BottomWake
  BY <1>5 DEF BottomWake
<1>6. ASSUME NEW q \in Readers, Call(q) PROVE FALSE
  <2>1. CallFrame(q)
    BY <1>6, CallFrames
  <2>2. ~raced /\ rb' = rb /\ bpc' = bpc
    BY <2>1 DEF CallFrame, irqVars, ringVars
  <2>3. CASE q = p
    BY <1>0, <1>6, <2>2, <2>3, CallSleeps
  <2>4. CASE q # p
    <3>1. pc'[p] = pc[p] /\ p \in asleep
      BY <1>6, <2>1, <2>4, CallSleeps DEF CallFrame
    <3> QED BY <1>1, <2>2, <3>1 DEF Sleeping
  <2> QED BY <2>3, <2>4
<1>7. ASSUME NEW q \in Readers, ReadPop(q) PROVE FALSE
  <2>1. /\ ~raced /\ UNCHANGED <<rb, bpc, asleep>> /\ pc' = [pc EXCEPT ![q] = "pop2"]
    BY <1>7 DEF ReadPop, Lock, irqVars
  <2> QED BY <1>1, <2>1 DEF TypeInv, Sleeping
<1>8. ASSUME NEW q \in Readers, ReadPopped(q) PROVE FALSE
  <2>1. ~raced /\ rb.size > 0 /\ bpc' = bpc /\ pc'[q] = "copy" /\ \A r \in Readers \ {q} : pc'[r] = pc[r]
    BY <1>8, PoppedEffect
  <2>2. asleep' = asleep
    BY <1>8 DEF ReadPopped
  <2> QED BY <1>1, <2>1, <2>2 DEF Sleeping
<1>9. CASE ResetFirst \/ ResetSecond
  <2>1. /\ ~raced /\ UNCHANGED <<bpc, pc>>
        /\ ResetFirst => rb'.size = rb.size
        /\ ResetSecond => rb'.size = 0
    BY <1>9, ResetEffect
  <2>2. asleep' = asleep
    BY <1>9 DEF ResetFirst, ResetSecond, procVars
  <2> QED BY <1>1, <1>9, <2>1, <2>2 DEF Sleeping
<1>10. CASE UNCHANGED vars
  BY <1>1, <1>10 DEF vars, irqVars, ringVars, procVars, Sleeping
<1> QED BY <1>2, <1>3, <1>4, <1>5, <1>6, <1>7, <1>8, <1>9, <1>10, NextCases

(* No wake-up of myirq_bottom is lost, for any number of readers and       *)
(* pollers: wait_event and poll queue the process before they look at the  *)
(* size, and the thread wakes the queue after its push.  A reset inside a  *)
(* section is excepted: the overlapped pop may bring the size back.        *)
THEOREM NoLostWakeUp == Spec => []NoSleeperStranded
<1>1. Init => NoSleeperStranded
  BY DEF Init, NoSleeperStranded
<1>2. IInv /\ NoSleeperStranded /\ [Next]_vars => NoSleeperStranded'
  BY WakeStep DEF IInv
<1> QED BY <1>1, <1>2, Invariant, PTL DEF Spec

(* The thread's last step unmasks the line the hard interrupt has masked. *)
LEMMA MaskStep == ASSUME TypeInv, IrqInv, MaskInv, [Next]_vars PROVE MaskInv'
<1>0. desc \in IrqDesc
  BY DEF TypeInv
<1>1. CASE UNCHANGED <<desc, bpc>>
  BY <1>1 DEF MaskInv
<1>2. CASE IrqEnter
  BY <1>0, <1>2, DescFields DEF IrqEnter, IrqInv, MaskInv
<1>3. CASE myirq_top
  BY <1>0, <1>3, DescFields DEF myirq_top, IrqInv, MaskInv
<1>4. CASE BottomSample \/ BottomReserve \/ BottomStore \/ BottomWake
  BY <1>4 DEF BottomSample, BottomReserve, BottomStore, BottomWake, MaskInv
<1>5. CASE BottomDone
  BY <1>0, <1>5, DescFields DEF BottomDone, IrqInv, MaskInv
<1>6. ASSUME NEW p \in Readers, Call(p) \/ ReadPop(p) \/ ReadPopped(p)
      PROVE  UNCHANGED <<desc, bpc>>
  BY <1>6, CallFrames DEF CallFrame, ReadPop, ReadPopped, irqVars
<1>7. Timer \/ ResetFirst \/ ResetSecond \/ UNCHANGED vars => UNCHANGED <<desc, bpc>>
  BY DEF Timer, ResetFirst, ResetSecond, vars, irqVars
<1> QED BY <1>1, <1>2, <1>3, <1>4, <1>5, <1>6, <1>7, NextCases

(* No event is stranded between the device and the ring: the interrupt is  *)
(* deliverable or a stage of the handler is ready, and the ring's lock is  *)
(* never held by a thread that is not about to give it back.               *)
THEOREM NoStrandedSample == Spec => []NoSampleStranded
<1>1. Init => MaskInv
  BY DEF Init, MaskInv, request_threaded_irq, irq_unused
<1>2. IInv /\ MaskInv /\ [Next]_vars => MaskInv'
  BY MaskStep DEF IInv
<1>3. Spec => []MaskInv
  BY <1>1, <1>2, Invariant, PTL DEF Spec
<1>4. ASSUME IInv, MaskInv PROVE NoSampleStranded
  <2>1. bell.irq_status => \/ irq_deliverable(desc) /\ bell.line
                           \/ desc.hard \/ (desc.woken /\ bpc = "idle") \/ bpc # "idle"
    BY <1>4 DEF IInv, IrqInv, MaskInv, irq_deliverable
  <2>2. ~raced /\ lk # Nobody => IF lk = Bottom THEN bpc = "store"
                                               ELSE lk \in Readers /\ pc[lk] = "pop2"
    BY <1>4 DEF IInv, LockInv, TypeInv
  <2> QED BY <2>1, <2>2 DEF NoSampleStranded
<1> QED BY <1>3, <1>4, Invariant, PTL

=============================================================================
