------------------------------ MODULE MySensor ------------------------------
(***************************************************************************)
(* practice/mysensor/mysensor.c while the driver is bound, with the        *)
(* processes of its test program app/main.c: the interrupt thread pushes   *)
(* one value per event into a ring, readers take them with blocking and    *)
(* non-blocking reads and with poll.  The ring's functions hold its mutex  *)
(* from end to end and are one step each; a blocking read tests the ring   *)
(* in one section and takes the value in another.                          *)
(***************************************************************************)
EXTENDS FakeBell, GenericIrq, Integers, Sequences

CONSTANTS
  RB_SIZE,    \* entries of the ring, 100 in the code
  VALUES,     \* the values run from 0 to VALUES - 1, 100 in the code
  Readers,    \* processes that use the device
  MaxReads    \* bound on the reads and polls

VARIABLES
  bell, desc,  \* the device and its interrupt line
  tpc, data,   \* mysensor_irq_thread: its next step and its static counter
  rb,          \* struct ringbuffer
  asleep,      \* tasks queued on dev->wq that have not been woken
  pc, mode,    \* the system call of each process and how it waits
  result,      \* what the last call of each process returned
  reads,       \* reads and polls so far
  dropped,     \* history: values overwritten
  rival        \* history: a value was taken between a reader's test and its pop

irqVars == <<bell, desc, tpc>>
procVars == <<asleep, pc, mode, result>>
vars == <<irqVars, data, rb, procVars, reads, dropped, rival>>

Slots == 0 .. RB_SIZE - 1

Calls == {"idle", "first", "queue", "check", "sleep", "pop", "copy"}

Results == {"none", "value", "eagain", "restart", "empty", "fault", "timeout", "ready"}

rb_init == [buffer |-> [i \in Slots |-> 0], head |-> 0, tail |-> 0, size |-> 0]

(* devm_request_threaded_irq with IRQF_ONESHOT, then mb_enable_irq. *)
Bound(oneshot) ==
  /\ bell = fakebell_write_enable(fakebell_realize, TRUE)
  /\ desc = request_threaded_irq(oneshot)
  /\ tpc = "idle" /\ data = 0 /\ rb = rb_init
  /\ asleep = {}
  /\ pc = [p \in Readers |-> "idle"] /\ mode = [p \in Readers |-> "block"]
  /\ result = [p \in Readers |-> "none"]
  /\ reads = 0 /\ dropped = 0
  /\ rival = [p \in Readers |-> FALSE]

(* Mutant: the line is unmasked while its thread runs. *)
Init_NoOneshot == Bound(FALSE)

Init == Bound(TRUE)

-----------------------------------------------------------------------------
(* The ring. *)

(* Mutant: a full ring keeps its oldest value at the tail. *)
rb_push_KeepTail(r, v) ==
  [r EXCEPT !.buffer[r.head] = v,
            !.head = (r.head + 1) % RB_SIZE,
            !.size = IF r.size < RB_SIZE THEN @ + 1 ELSE @]

rb_push(r, v) ==
  [r EXCEPT !.buffer[r.head] = v,
            !.head = (r.head + 1) % RB_SIZE,
            !.size = IF r.size < RB_SIZE THEN @ + 1 ELSE @,
            !.tail = IF r.size < RB_SIZE THEN @ ELSE (@ + 1) % RB_SIZE]

rb_pop(r) == [r EXCEPT !.tail = (@ + 1) % RB_SIZE, !.size = @ - 1]

rb_isempty(r) == r.size = 0

Contents == [i \in 1 .. rb.size |-> rb.buffer[(rb.tail + i - 1) % RB_SIZE]]

-----------------------------------------------------------------------------
(* The device, mysensor_irq_handler and mysensor_irq_thread. *)

Timer ==
  /\ bell.event_count < MaxU32
  /\ bell' = fakebell_timer_cb(bell)
  /\ UNCHANGED <<desc, tpc, data, rb, procVars, reads, dropped, rival>>

IrqEnter ==
  /\ irq_deliverable(desc) /\ bell.line
  /\ desc' = irq_enter(desc)
  /\ UNCHANGED <<bell, tpc, data, rb, procVars, reads, dropped, rival>>

mysensor_irq_handler ==
  /\ desc.hard
  /\ desc' = IF bell.irq_status THEN irq_return_wake_thread(desc) ELSE irq_return_none(desc)
  /\ UNCHANGED <<bell, tpc, data, rb, procVars, reads, dropped, rival>>

ThreadPush ==
  /\ tpc = "idle" /\ desc.woken
  /\ desc' = irq_thread_start(desc)
  /\ rb' = rb_push(rb, data % VALUES)
  /\ data' = data + 1
  /\ dropped' = IF rb.size = RB_SIZE THEN dropped + 1 ELSE dropped
  /\ tpc' = "ack"
  /\ UNCHANGED <<bell, procVars, reads, rival>>

ThreadAck ==
  /\ tpc = "ack"
  /\ bell' = fakebell_write_ack(bell)
  /\ tpc' = "wake"
  /\ UNCHANGED <<desc, data, rb, procVars, reads, dropped, rival>>

ThreadWake ==
  /\ tpc = "wake"
  /\ asleep' = {}
  /\ desc' = irq_thread_done(desc)
  /\ tpc' = "idle"
  /\ UNCHANGED <<bell, data, rb, pc, mode, result, reads, dropped, rival>>

mysensor_irq_thread == ThreadPush \/ ThreadAck \/ ThreadWake

-----------------------------------------------------------------------------
(* mysensor_read and mysensor_poll. *)

Goto(p, l) == pc' = [pc EXCEPT ![p] = l] /\ UNCHANGED result

Return(p, r) == pc' = [pc EXCEPT ![p] = "idle"] /\ result' = [result EXCEPT ![p] = r]

(* Takes the oldest value, under the eyes of readers that have seen it. *)
Take(p) ==
  /\ ~rb_isempty(rb)
  /\ rb' = rb_pop(rb)
  /\ rival' = [q \in Readers |-> rival[q] \/ (q # p /\ pc[q] = "pop")]
  /\ pc' = [pc EXCEPT ![p] = "copy"]
  /\ result' = [result EXCEPT ![p] = "none"]

ReadNonblock(p) ==
  /\ pc[p] = "idle" /\ reads < MaxReads
  /\ reads' = reads + 1
  /\ \/ Take(p)
     \/ rb_isempty(rb) /\ Return(p, "eagain") /\ UNCHANGED <<rb, rival>>
  /\ UNCHANGED <<irqVars, data, asleep, mode, dropped>>

(* A blocking read tests the ring before it queues, a poll queues at once. *)
Begin(p, m, l) ==
  /\ pc[p] = "idle" /\ reads < MaxReads
  /\ reads' = reads + 1
  /\ mode' = [mode EXCEPT ![p] = m]
  /\ pc' = [pc EXCEPT ![p] = l]
  /\ result' = [result EXCEPT ![p] = "none"]
  /\ UNCHANGED <<irqVars, data, rb, asleep, dropped, rival>>

ReadBlock(p) == Begin(p, "block", "first")

mysensor_poll(p) == Begin(p, "poll", "queue")

(* The condition holds: the read goes on to its pop, the poll reports data. *)
Proceed(p) ==
  /\ ~rb_isempty(rb)
  /\ asleep' = asleep \ {p}
  /\ IF mode[p] = "poll"
       THEN Return(p, "ready") /\ UNCHANGED rival
       ELSE Goto(p, "pop") /\ rival' = [rival EXCEPT ![p] = FALSE]

WaitFirst(p) ==
  /\ pc[p] = "first"
  /\ Proceed(p) \/ (rb_isempty(rb) /\ Goto(p, "queue") /\ UNCHANGED <<asleep, rival>>)
  /\ UNCHANGED <<irqVars, data, rb, mode, reads, dropped>>

(* Mutant: sleeps on the test it made before it was queued. *)
WaitQueue_NoRecheck(p) ==
  /\ pc[p] = "queue"
  /\ asleep' = asleep \cup {p}
  /\ Goto(p, "sleep")
  /\ UNCHANGED <<irqVars, data, rb, mode, reads, dropped, rival>>

WaitQueue(p) ==
  /\ pc[p] = "queue"
  /\ asleep' = asleep \cup {p}
  /\ Goto(p, "check")
  /\ UNCHANGED <<irqVars, data, rb, mode, reads, dropped, rival>>

WaitCheck(p) ==
  /\ pc[p] = "check"
  /\ Proceed(p) \/ (rb_isempty(rb) /\ Goto(p, "sleep") /\ UNCHANGED <<asleep, rival>>)
  /\ UNCHANGED <<irqVars, data, rb, mode, reads, dropped>>

(* Mutant: takes the wake-up itself for the condition. *)
WaitWoken_NoRetest(p) ==
  /\ pc[p] = "sleep" /\ p \notin asleep
  /\ Goto(p, "pop")
  /\ UNCHANGED <<irqVars, data, rb, asleep, mode, reads, dropped, rival>>

WaitWoken(p) ==
  /\ pc[p] = "sleep" /\ p \notin asleep
  /\ Goto(p, "queue")
  /\ UNCHANGED <<irqVars, data, rb, asleep, mode, reads, dropped, rival>>

(* A signal ends the wait; a poll also ends after its 5000 ms. *)
WaitEnds(p) ==
  /\ pc[p] = "sleep"
  /\ asleep' = asleep \ {p}
  /\ \/ Return(p, "restart")
     \/ mode[p] = "poll" /\ Return(p, "timeout")
  /\ UNCHANGED <<irqVars, data, rb, mode, reads, dropped, rival>>

(* l.121: takes a value, or fails when somebody else was faster. *)
ReadPop(p) ==
  /\ pc[p] = "pop"
  /\ \/ Take(p)
     \/ rb_isempty(rb) /\ Return(p, "empty") /\ UNCHANGED <<rb, rival>>
  /\ UNCHANGED <<irqVars, data, asleep, mode, reads, dropped>>

ReadCopy(p) ==
  /\ pc[p] = "copy"
  /\ Return(p, "value") \/ Return(p, "fault")
  /\ UNCHANGED <<irqVars, data, rb, asleep, mode, reads, dropped, rival>>

-----------------------------------------------------------------------------

Next ==
  \/ Timer \/ IrqEnter \/ mysensor_irq_handler \/ mysensor_irq_thread
  \/ \E p \in Readers :
       \/ ReadNonblock(p) \/ ReadBlock(p) \/ mysensor_poll(p)
       \/ WaitFirst(p) \/ WaitQueue(p) \/ WaitCheck(p) \/ WaitWoken(p) \/ WaitEnds(p)
       \/ ReadPop(p) \/ ReadCopy(p)

Spec == Init /\ [][Next]_vars

-----------------------------------------------------------------------------
(* Properties. *)

(* One value is pushed for each event the device counts, none twice and    *)
(* none skipped: the push precedes the acknowledge that lets the device    *)
(* raise the next event, and the line stays masked until the thread ends.  *)
OnePerEvent ==
  data + (IF bell.irq_status /\ tpc # "ack" THEN 1 ELSE 0) = bell.event_count

(* The -EFAULT of l.123, from a ring that was seen with data, needs another *)
(* reader that took the value in between; overwriting never causes it.     *)
FailedReadNeedsRival == \A p \in Readers : result[p] = "empty" => rival[p]

(* A task asleep while the ring holds data is about to be woken. *)
NoLostWakeup ==
  \A p \in Readers :
    pc[p] = "sleep" /\ p \in asleep /\ ~rb_isempty(rb) => tpc \in {"ack", "wake"}

=============================================================================
