----------------------------- MODULE MyFakeBell -----------------------------
(***************************************************************************)
(* practice/myfakebell/myfakebell.c while the driver is bound: the         *)
(* interrupt thread pushes one sample per event into the ring, processes   *)
(* poll and read it, ask for statistics and reset it.                      *)
(*                                                                         *)
(* A critical section of the ring's lock is split where a reset can fall:  *)
(* FB_RESET_BUFFER calls ringbuf_init without taking the lock, so it may   *)
(* overlap a push or a pop.  What the overlapped call then stores depends  *)
(* on the values the compiler kept in registers: it is a choice between    *)
(* the values read before and the values found after the reset.  The       *)
(* history variable raced tells whether such an overlap has happened.      *)
(*                                                                         *)
(* A sample is the number of the event it was taken for.                   *)
(***************************************************************************)
EXTENDS FakeBell, GenericIrq, RingBuf, Integers, FiniteSets, FiniteSetsExt, Functions

CONSTANTS
  Readers,    \* processes with the device open
  MaxCount,   \* bound on the samples one read asks for
  MaxReads,   \* bound on the reads
  MaxPolls,   \* bound on the polls
  MaxStats,   \* bound on the FB_GET_STATS calls
  MaxResets,  \* bound on the FB_RESET_BUFFER calls
  Nobody      \* no holder of the lock

Bottom == "bottom"

ASSUME FakeBellReaders ==
  /\ Bottom \notin Readers /\ Nobody \notin Readers /\ Nobody # Bottom
  /\ {MaxCount, MaxReads, MaxPolls, MaxStats, MaxResets} \subseteq Nat

VARIABLES
  bell, desc,  \* the device and its interrupt line
  bpc, v,      \* myirq_bottom: next step, its sample and the write index it read
  rb, lk,      \* struct ringbuf and the holder of its lock
  asleep,      \* tasks queued on mydev->wq that have not been woken
  pc, rd,      \* the system call of each process and its locals
  calls,       \* reads, polls, statistics and resets begun so far
  resetting,   \* an FB_RESET_BUFFER is between the two halves of its memset
  pushed, dropped, cleared, lost, delivered, interfered, raced   \* history

irqVars == <<bell, desc, bpc, v>>
ringVars == <<rb, lk>>
procVars == <<asleep, pc, rd>>
history == <<dropped, cleared, lost, delivered, interfered>>
vars == <<irqVars, ringVars, procVars, calls, resetting, pushed, history, raced>>

(* Locals of a system call: whether a poll announced samples to it, the    *)
(* samples asked for, the loop bound, the samples copied out, the sample   *)
(* popped and the indices read for it, and the result.                     *)
Results == {"none", "ok", "zero", "eagain", "restart", "empty", "fault"}

Locals == [polled : BOOLEAN, want : 0 .. MaxCount, len : Int, got : Seq(Nat), item : Nat,
           tail : Slots, size : Int, bufcnt : Int, dropcnt : Nat, ret : Results]

NoLocals == [polled |-> FALSE, want |-> 0, len |-> 0, got |-> <<>>, item |-> 0, tail |-> 0,
             size |-> 0, bufcnt |-> 0, dropcnt |-> 0, ret |-> "none"]

Init ==
  /\ bell = fakebell_write_enable(fakebell_realize, TRUE)
  /\ desc = request_threaded_irq(TRUE)
  /\ bpc = "idle" /\ v = [item |-> 0, head |-> 0]
  /\ rb = ringbuf_init /\ lk = Nobody
  /\ asleep = {}
  /\ pc = [p \in Readers |-> "idle"] /\ rd = [p \in Readers |-> NoLocals]
  /\ calls = [reads |-> 0, polls |-> 0, stats |-> 0, resets |-> 0]
  /\ resetting = FALSE
  /\ pushed = 0 /\ dropped = {} /\ cleared = {} /\ lost = {}
  /\ delivered = [p \in Readers |-> <<>>]
  /\ interfered = [p \in Readers |-> FALSE]
  /\ raced = FALSE

-----------------------------------------------------------------------------
(* The ring's spinlock.  A section that begins while a reset is half done  *)
(* races with it.                                                          *)

Lock(a) == lk = Nobody /\ lk' = a /\ raced' = (raced \/ resetting)

Unlock == lk' = Nobody

(* Samples leave the ring while other readers rely on the size they read. *)
Interfere(a) ==
  interfered' = [p \in Readers |->
                   interfered[p] \/ (p # a /\ pc[p] \in {"ready", "len", "pop", "pop2", "copy"})]

-----------------------------------------------------------------------------
(* The device and myirq_top, myirq_bottom. *)

Timer ==
  /\ bell.event_count < MaxU32
  /\ bell' = fakebell_timer_cb(bell)
  /\ UNCHANGED <<desc, bpc, v, ringVars, procVars, calls, resetting, pushed, history, raced>>

IrqEnter ==
  /\ irq_deliverable(desc) /\ bell.line
  /\ desc' = irq_enter(desc)
  /\ UNCHANGED <<bell, bpc, v, ringVars, procVars, calls, resetting, pushed, history, raced>>

myirq_top ==
  /\ desc.hard
  /\ desc' = IF bell.irq_status THEN irq_return_wake_thread(desc)
                                ELSE irq_return_none(desc)
  /\ UNCHANGED <<bell, bpc, v, ringVars, procVars, calls, resetting, pushed, history, raced>>

(* Sample and acknowledge, under mybelllock. *)
BottomSample ==
  /\ bpc = "idle" /\ desc.woken
  /\ desc' = irq_thread_start(desc)
  /\ v' = [item |-> bell.event_count, head |-> 0]
  /\ bell' = fakebell_write_ack(bell)
  /\ bpc' = "push"
  /\ UNCHANGED <<ringVars, procVars, calls, resetting, pushed, history, raced>>

(* The two halves of ringbuf_push. *)
BottomReserve ==
  /\ bpc = "push" /\ Lock(Bottom)
  /\ rb' = push_reserve(rb)
  /\ dropped' = IF rb.size = RINGBUF_SIZE THEN dropped \union {ringbuf_front(rb)} ELSE dropped
  /\ v' = [v EXCEPT !.head = rb.head]
  /\ bpc' = "store"
  /\ UNCHANGED <<bell, desc, procVars, calls, resetting, pushed, cleared, lost,
                 delivered, interfered>>

BottomStore ==
  /\ bpc = "store"
  /\ \E h \in {v.head, rb.head} : rb' = push_store(rb, h, v.item)
  /\ Unlock
  /\ pushed' = pushed + 1
  /\ bpc' = "wake"
  /\ UNCHANGED <<bell, desc, v, procVars, calls, resetting, history, raced>>

(* Mutant: nobody is woken. *)
BottomWake_None ==
  /\ bpc = "wake"
  /\ bpc' = "done"
  /\ UNCHANGED <<bell, desc, v, ringVars, procVars, calls, resetting, pushed, history, raced>>

(* wake_up_interruptible wakes every task on the queue. *)
BottomWake ==
  /\ bpc = "wake"
  /\ asleep' = {}
  /\ bpc' = "done"
  /\ UNCHANGED <<bell, desc, v, ringVars, pc, rd, calls, resetting, pushed, history, raced>>

BottomDone ==
  /\ bpc = "done"
  /\ desc' = irq_thread_done(desc)
  /\ bpc' = "idle"
  /\ UNCHANGED <<bell, v, ringVars, procVars, calls, resetting, pushed, history, raced>>

myirq_bottom == BottomSample \/ BottomReserve \/ BottomStore \/ BottomWake \/ BottomDone

-----------------------------------------------------------------------------
(* myfbread. *)

(* Mutant: the loop is bounded by the user's count alone. *)
Clamp_ToWant(len, want) == want

(* l.123: len is an int, count / sizeof an unsigned long; a negative len   *)
(* compares as a huge one.                                                 *)
Clamp(len, want) == IF len < 0 \/ len > want THEN want ELSE len

Return(p, ret) ==
  /\ pc' = [pc EXCEPT ![p] = "idle"]
  /\ rd' = [rd EXCEPT ![p] = [NoLocals EXCEPT !.ret = ret]]

ReadStart(p, want, nonblock) ==
  /\ pc[p] \in {"idle", "ready"} /\ calls.reads < MaxReads /\ lk = Nobody
  /\ calls' = [calls EXCEPT !.reads = @ + 1]
  /\ \/ /\ rb.size # 0
        /\ pc' = [pc EXCEPT ![p] = "pop"]
        /\ rd' = [rd EXCEPT ![p] = [NoLocals EXCEPT !.want = want,
                                                    !.len = Clamp(rb.size, want)]]
     \/ /\ rb.size = 0 /\ ~nonblock
        /\ pc' = [pc EXCEPT ![p] = "wait"]
        /\ rd' = [rd EXCEPT ![p] = [NoLocals EXCEPT !.want = want,
                                                    !.polled = (pc[p] = "ready")]]
     \/ /\ rb.size = 0 /\ nonblock
        /\ Return(p, "eagain")
  /\ interfered' = [interfered EXCEPT ![p] = @ /\ pc[p] = "ready" /\ rb.size = 0]
  /\ UNCHANGED <<irqVars, ringVars, asleep, resetting, pushed, dropped, cleared, lost,
                 delivered, raced>>

(* wait_event_interruptible: queue first, then look at the size, then      *)
(* sleep until woken or interrupted.                                       *)
WaitPrepare(p) ==
  /\ pc[p] = "wait"
  /\ asleep' = asleep \union {p}
  /\ pc' = [pc EXCEPT ![p] = "recheck"]
  /\ UNCHANGED <<irqVars, ringVars, rd, calls, resetting, pushed, history, raced>>

WaitCheck(p) ==
  /\ pc[p] = "recheck" /\ lk = Nobody
  /\ \/ /\ rb.size # 0
        /\ asleep' = asleep \ {p}
        /\ pc' = [pc EXCEPT ![p] = "len"]
        /\ interfered' = [interfered EXCEPT ![p] = FALSE]
     \/ /\ rb.size = 0
        /\ pc' = [pc EXCEPT ![p] = "sleep"]
        /\ UNCHANGED <<asleep, interfered>>
  /\ UNCHANGED <<irqVars, ringVars, rd, calls, resetting, pushed, dropped, cleared, lost,
                 delivered, raced>>

WaitWoken(p) ==
  /\ pc[p] = "sleep" /\ p \notin asleep
  /\ pc' = [pc EXCEPT ![p] = "wait"]
  /\ UNCHANGED <<irqVars, ringVars, asleep, rd, calls, resetting, pushed, history, raced>>

WaitSignal(p) ==
  /\ pc[p] \in {"sleep", "pollsleep"}
  /\ asleep' = asleep \ {p}
  /\ Return(p, "restart")
  /\ UNCHANGED <<irqVars, ringVars, calls, resetting, pushed, history, raced>>

ReadLen(p) ==
  /\ pc[p] = "len" /\ lk = Nobody
  /\ pc' = [pc EXCEPT ![p] = "pop"]
  /\ rd' = [rd EXCEPT ![p].len = Clamp(rb.size, rd[p].want)]
  /\ interfered' = [interfered EXCEPT ![p] = @ /\ rb.size = 0]
  /\ UNCHANGED <<irqVars, ringVars, asleep, calls, resetting, pushed, dropped, cleared, lost,
                 delivered, raced>>

(* One ringbuf_pop, in two halves. *)
ReadPop(p) ==
  /\ pc[p] = "pop" /\ Len(rd[p].got) < rd[p].len
  /\ rb.size # 0 /\ Lock(p)
  /\ pc' = [pc EXCEPT ![p] = "pop2"]
  /\ rd' = [rd EXCEPT ![p].item = ringbuf_front(rb), ![p].tail = rb.tail, ![p].size = rb.size]
  /\ UNCHANGED <<irqVars, rb, asleep, calls, resetting, pushed, history>>

ReadPopped(p) ==
  /\ pc[p] = "pop2"
  /\ \E t \in {rd[p].tail, rb.tail}, n \in {rd[p].size, rb.size} :
       rb' = ringbuf_pop([rb EXCEPT !.tail = t, !.size = n])
  /\ Unlock
  /\ Interfere(p)
  /\ pc' = [pc EXCEPT ![p] = "copy"]
  /\ UNCHANGED <<irqVars, asleep, rd, calls, resetting, pushed, dropped, cleared, lost,
                 delivered, raced>>

(* A pop that finds the ring empty ends the read with its -1; the samples  *)
(* of the earlier rounds are gone.                                         *)
ReadEmpty(p) ==
  /\ pc[p] = "pop" /\ Len(rd[p].got) < rd[p].len
  /\ rb.size = 0 /\ lk = Nobody
  /\ lost' = lost \union Range(rd[p].got)
  /\ Return(p, "empty")
  /\ UNCHANGED <<irqVars, ringVars, asleep, calls, resetting, pushed, dropped, cleared,
                 delivered, interfered, raced>>

ReadCopy(p) ==
  /\ pc[p] = "copy"
  /\ \/ /\ pc' = [pc EXCEPT ![p] = "pop"]
        /\ rd' = [rd EXCEPT ![p].got = Append(@, rd[p].item)]
        /\ UNCHANGED lost
     \/ /\ lost' = lost \union Range(rd[p].got) \union {rd[p].item}
        /\ Return(p, "fault")
  /\ UNCHANGED <<irqVars, ringVars, asleep, calls, resetting, pushed, dropped, cleared,
                 delivered, interfered, raced>>

ReadReturn(p) ==
  /\ pc[p] = "pop" /\ Len(rd[p].got) >= rd[p].len
  /\ delivered' = [delivered EXCEPT ![p] = @ \o rd[p].got]
  /\ Return(p, IF rd[p].got = <<>> /\ rd[p].want > 0 THEN "zero" ELSE "ok")
  /\ UNCHANGED <<irqVars, ringVars, asleep, calls, resetting, pushed, dropped, cleared, lost,
                 interfered, raced>>

-----------------------------------------------------------------------------
(* A poll with no timeout, as the application does before it reads: the    *)
(* file is queued, myfbpoll looks, and the process sleeps until somebody   *)
(* wakes the queue.  The device's own over-threshold status, which ends a  *)
(* poll as well, may have either value at any time.                        *)

PollStart(p) ==
  /\ pc[p] = "idle" /\ calls.polls < MaxPolls
  /\ calls' = [calls EXCEPT !.polls = @ + 1]
  /\ pc' = [pc EXCEPT ![p] = "poll"]
  /\ rd' = [rd EXCEPT ![p] = NoLocals]
  /\ UNCHANGED <<irqVars, ringVars, asleep, resetting, pushed, history, raced>>

PollWait(p) ==
  /\ pc[p] = "poll"
  /\ asleep' = asleep \union {p}
  /\ pc' = [pc EXCEPT ![p] = "look"]
  /\ UNCHANGED <<irqVars, ringVars, rd, calls, resetting, pushed, history, raced>>

(* Mutant: announces samples without looking at the ring. *)
myfbpoll_Always(p) ==
  /\ pc[p] = "look"
  /\ asleep' = asleep \ {p}
  /\ pc' = [pc EXCEPT ![p] = "ready"]
  /\ interfered' = [interfered EXCEPT ![p] = FALSE]
  /\ UNCHANGED <<irqVars, ringVars, rd, calls, resetting, pushed, dropped, cleared, lost,
                 delivered, raced>>

myfbpoll(p) ==
  /\ pc[p] = "look" /\ lk = Nobody
  /\ \/ /\ rb.size # 0
        /\ asleep' = asleep \ {p}
        /\ pc' = [pc EXCEPT ![p] = "ready"]
        /\ interfered' = [interfered EXCEPT ![p] = FALSE]
        /\ UNCHANGED rd
     \/ /\ rb.size = 0                                    \* POLLPRI alone
        /\ asleep' = asleep \ {p}
        /\ Return(p, "ok")
        /\ UNCHANGED interfered
     \/ /\ rb.size = 0
        /\ pc' = [pc EXCEPT ![p] = "pollsleep"]
        /\ UNCHANGED <<asleep, rd, interfered>>
  /\ UNCHANGED <<irqVars, ringVars, calls, resetting, pushed, dropped, cleared, lost,
                 delivered, raced>>

PollWoken(p) ==
  /\ pc[p] = "pollsleep" /\ p \notin asleep
  /\ pc' = [pc EXCEPT ![p] = "poll"]
  /\ UNCHANGED <<irqVars, ringVars, asleep, rd, calls, resetting, pushed, history, raced>>

-----------------------------------------------------------------------------

ReadStep(p) ==
  \/ WaitPrepare(p) \/ WaitCheck(p) \/ WaitWoken(p) \/ ReadLen(p) \/ ReadPop(p)
  \/ ReadPopped(p) \/ ReadEmpty(p) \/ ReadCopy(p) \/ ReadReturn(p)
  \/ PollWait(p) \/ myfbpoll(p) \/ PollWoken(p)

-----------------------------------------------------------------------------
(* myfbioctl: FB_GET_STATS takes the lock once for each of its two values; *)
(* FB_RESET_BUFFER is the memset and spin_lock_init of ringbuf_init, which *)
(* takes no lock at all.                                                   *)

StatsSize(p) ==
  /\ pc[p] = "idle" /\ calls.stats < MaxStats /\ lk = Nobody
  /\ calls' = [calls EXCEPT !.stats = @ + 1]
  /\ pc' = [pc EXCEPT ![p] = "stats"]
  /\ rd' = [rd EXCEPT ![p] = [NoLocals EXCEPT !.bufcnt = rb.size]]
  /\ UNCHANGED <<irqVars, ringVars, asleep, resetting, pushed, history, raced>>

StatsLost(p) ==
  /\ pc[p] = "stats" /\ lk = Nobody
  /\ pc' = [pc EXCEPT ![p] = "idle"]
  /\ rd' = [rd EXCEPT ![p].dropcnt = rb.dropcount]
  /\ UNCHANGED <<irqVars, ringVars, asleep, calls, resetting, pushed, history, raced>>

InSection == bpc = "store" \/ \E p \in Readers : pc[p] = "pop2"

ResetFirst ==
  /\ ~resetting /\ calls.resets < MaxResets
  /\ calls' = [calls EXCEPT !.resets = @ + 1]
  /\ rb' = [rb EXCEPT !.data = ringbuf_init.data, !.head = ringbuf_init.head]
  /\ lk' = Nobody
  /\ resetting' = TRUE
  /\ raced' = (raced \/ InSection)
  /\ cleared' = cleared \union dropped \union Range(Contents(rb))
  /\ dropped' = {}
  /\ Interfere(Nobody)
  /\ UNCHANGED <<irqVars, procVars, pushed, lost, delivered>>

ResetSecond ==
  /\ resetting
  /\ rb' = [rb EXCEPT !.tail = ringbuf_init.tail, !.size = ringbuf_init.size,
                      !.dropcount = ringbuf_init.dropcount]
  /\ lk' = Nobody
  /\ resetting' = FALSE
  /\ raced' = (raced \/ InSection)
  /\ Interfere(Nobody)
  /\ UNCHANGED <<irqVars, procVars, calls, pushed, dropped, cleared, lost, delivered>>

-----------------------------------------------------------------------------

Next ==
  \/ Timer \/ IrqEnter \/ myirq_top \/ myirq_bottom
  \/ \E p \in Readers :
       \/ \E want \in 0 .. MaxCount, nonblock \in BOOLEAN : ReadStart(p, want, nonblock)
       \/ PollStart(p)
       \/ ReadStep(p)
       \/ WaitSignal(p)
       \/ StatsSize(p) \/ StatsLost(p)
  \/ ResetFirst \/ ResetSecond

Spec == Init /\ [][Next]_vars

(* The handlers run, and a system call once begun goes on.  No process has *)
(* to begin a call, and no signal has to come.                             *)
Fairness ==
  /\ WF_vars(Timer) /\ WF_vars(IrqEnter) /\ WF_vars(myirq_top) /\ WF_vars(myirq_bottom)
  /\ \A p \in Readers : WF_vars(ReadStep(p)) /\ WF_vars(StatsLost(p))
  /\ WF_vars(ResetSecond)

FairSpec == Spec /\ Fairness

-----------------------------------------------------------------------------
(* Properties. *)

(* Every variable has its type.  This includes the memory safety of the    *)
(* ring: head and tail stay inside data[], whatever a reset overlaps, and  *)
(* size never exceeds RINGBUF_SIZE.                                        *)
TypeOK ==
  /\ bell \in FakeBellState /\ desc \in IrqDesc
  /\ bpc \in {"idle", "push", "store", "wake", "done"}
  /\ v \in [item : U32, head : Slots]
  /\ rb.data \in [Slots -> Nat] /\ rb.head \in Slots /\ rb.tail \in Slots
  /\ rb.size \in Int /\ rb.size <= RINGBUF_SIZE /\ rb.dropcount \in Nat
  /\ lk \in Readers \union {Bottom, Nobody}
  /\ asleep \subseteq Readers
  /\ pc \in [Readers -> {"idle", "wait", "recheck", "sleep", "len", "pop", "pop2",
                         "copy", "poll", "look", "pollsleep", "ready", "stats"}]
  /\ rd \in [Readers -> Locals]
  /\ resetting \in BOOLEAN /\ raced \in BOOLEAN

(* No call is inside the ring's lock, and no reset has ever overlapped one. *)
Quiet == ~raced /\ ~InSection /\ ~resetting

InFlight(p) == Range(rd[p].got) \union (IF pc[p] = "copy" THEN {rd[p].item} ELSE {})

(* Where a sample can be, as a sequence of disjoint sets. *)
Places ==
  <<Range(Contents(rb)), dropped, cleared, lost,
    UNION {InFlight(p) : p \in Readers}, UNION {Range(delivered[p]) : p \in Readers}>>

(* Every event's sample is in exactly one place: in the ring, with one     *)
(* reader (in flight or delivered), overwritten and counted in dropcount,  *)
(* removed by a reset, or popped by a read that ended in an error.         *)
SamplesAccounted ==
  Quiet =>
    /\ UNION {Places[i] : i \in DOMAIN Places} = 1 .. pushed
    /\ \A i, j \in DOMAIN Places : i # j => Places[i] \intersect Places[j] = {}
    /\ \A p, r \in Readers : p # r =>
         (InFlight(p) \union Range(delivered[p])) \intersect
         (InFlight(r) \union Range(delivered[r])) = {}
    /\ Cardinality(dropped) = rb.dropcount

(* A process sees samples in the order they were taken, across reads and   *)
(* whatever the other readers, the interrupt thread and resets do.         *)
DeliveredInOrder ==
  ~raced => \A p \in Readers :
    LET s == delivered[p] \o rd[p].got
    IN  \A i, j \in DOMAIN s : i < j => s[i] < s[j]

(* A read that ends in the -1 of a failed pop, or a blocking read that     *)
(* returns 0 (the application takes that for the end of file), can only    *)
(* happen when another reader or a reset took samples after this read had  *)
(* seen them; pushes that overwrite samples never cause it.  The same for  *)
(* a read that has to wait although the poll before it announced samples.  *)
ShortReadNeedsRival ==
  ~raced => \A p \in Readers :
    \/ rd[p].ret \in {"empty", "zero"}
    \/ pc[p] = "wait" /\ rd[p].polled
    => interfered[p]

(* FB_GET_STATS reads its two values in two critical sections, yet together *)
(* they never claim more samples than the interrupt thread has pushed.     *)
StatsPlausible ==
  ~raced => \A p \in Readers :
    pc[p] = "idle" => rd[p].bufcnt + rd[p].dropcnt <= pushed + (IF bpc = "store" THEN 1 ELSE 0)

Sleeping(p) == pc[p] \in {"sleep", "pollsleep"}

(* A process asleep in a read or a poll of a ring with samples gets to run, *)
(* also when the sample came between its look at the size and its sleep.   *)
SleeperRuns ==
  \A p \in Readers :
    (Sleeping(p) /\ rb.size > 0) ~> ~Sleeping(p)

=============================================================================
