------------------------------ MODULE MyAlarm -------------------------------
(***************************************************************************)
(* practice/myalarm/myalarm.c while the driver is bound, with processes    *)
(* that run its application userapp/main.c: poll until the alarm is on,    *)
(* read it, write 0 to clear it, again.  The driver keeps one bit, so the  *)
(* events that come while it is set collapse.  The history variables       *)
(* follow each event by its number: it is pending while the bit stands for *)
(* it, reported when a process has read the bit, missed when the bit is    *)
(* cleared before that.                                                    *)
(***************************************************************************)
EXTENDS FakeBell, GenericIrq

CONSTANTS Apps   \* processes that run the application

VARIABLES
  bell, desc,   \* the device and its interrupt line
  tpc, alarm,   \* alarm_irq_thread's next step; mydev->alarm
  asleep,       \* tasks queued on mydev->wq that have not been woken
  pc,           \* the next step of each process
  pending, reported, missed,   \* history: see above
  overlap       \* history: events raised while a process was about to clear

history == <<pending, reported, missed, overlap>>
vars == <<bell, desc, tpc, alarm, asleep, pc, history>>

Init ==
  /\ bell = fakebell_write_enable(fakebell_realize, TRUE)
  /\ desc = request_threaded_irq(TRUE)
  /\ tpc = "idle" /\ alarm = 0
  /\ asleep = {} /\ pc = [p \in Apps |-> "poll"]
  /\ pending = {} /\ reported = {} /\ missed = {} /\ overlap = {}

-----------------------------------------------------------------------------
(* The device, alarm_irq_handler and alarm_irq_thread. *)

Timer ==
  /\ bell.event_count < MaxU32
  /\ bell' = fakebell_timer_cb(bell)
  /\ UNCHANGED <<desc, tpc, alarm, asleep, pc, history>>

IrqEnter ==
  /\ irq_deliverable(desc) /\ bell.line
  /\ desc' = irq_enter(desc)
  /\ UNCHANGED <<bell, tpc, alarm, asleep, pc, history>>

alarm_irq_handler ==
  /\ desc.hard
  /\ desc' = IF bell.irq_status THEN irq_return_wake_thread(desc) ELSE irq_return_none(desc)
  /\ UNCHANGED <<bell, tpc, alarm, asleep, pc, history>>

ThreadAck ==
  /\ tpc = "idle" /\ desc.woken
  /\ desc' = irq_thread_start(desc)
  /\ bell' = fakebell_write_ack(bell)
  /\ tpc' = "set"
  /\ UNCHANGED <<alarm, asleep, pc, history>>

(* The events counted so far that are neither pending, reported nor missed *)
(* and no longer shown by the device: the one this run of the thread is    *)
(* for.                                                                    *)
Fresh ==
  (1 .. bell.event_count - (IF bell.irq_status THEN 1 ELSE 0))
    \ (pending \cup reported \cup missed)

ThreadSet ==
  /\ tpc = "set"
  /\ alarm' = 1
  /\ pending' = pending \cup Fresh
  /\ overlap' = IF \E p \in Apps : pc[p] = "write" THEN overlap \cup Fresh ELSE overlap
  /\ tpc' = "wake"
  /\ UNCHANGED <<bell, desc, asleep, pc, reported, missed>>

(* Mutant: nobody is woken. *)
ThreadWake_None ==
  /\ tpc = "wake"
  /\ desc' = irq_thread_done(desc)
  /\ tpc' = "idle"
  /\ UNCHANGED <<bell, alarm, asleep, pc, history>>

ThreadWake ==
  /\ tpc = "wake"
  /\ asleep' = {}
  /\ desc' = irq_thread_done(desc)
  /\ tpc' = "idle"
  /\ UNCHANGED <<bell, alarm, pc, history>>

alarm_irq_thread == ThreadAck \/ ThreadSet \/ ThreadWake

-----------------------------------------------------------------------------
(* The application's loop over malm_poll, malm_read and malm_write. *)

Goto(p, l) == pc' = [pc EXCEPT ![p] = l]

PollWait(p) ==
  /\ pc[p] = "poll"
  /\ asleep' = asleep \cup {p}
  /\ Goto(p, "test")
  /\ UNCHANGED <<bell, desc, tpc, alarm, history>>

malm_poll(p) ==
  /\ pc[p] = "test"
  /\ \/ alarm # 0 /\ asleep' = asleep \ {p} /\ Goto(p, "read")
     \/ alarm = 0 /\ Goto(p, "sleep") /\ UNCHANGED asleep
  /\ UNCHANGED <<bell, desc, tpc, alarm, history>>

PollWoken(p) ==
  /\ pc[p] = "sleep" /\ p \notin asleep
  /\ Goto(p, "poll")
  /\ UNCHANGED <<bell, desc, tpc, alarm, asleep, history>>

(* A signal makes poll fail, and the program ends. *)
PollSignal(p) ==
  /\ pc[p] = "sleep"
  /\ asleep' = asleep \ {p}
  /\ Goto(p, "quit")
  /\ UNCHANGED <<bell, desc, tpc, alarm, history>>

(* The text says 0 when another process has cleared the alarm meanwhile;   *)
(* the program does not look and goes on to its write.                     *)
malm_read(p) ==
  /\ pc[p] = "read"
  /\ \/ /\ reported' = IF alarm = 1 THEN reported \cup pending ELSE reported
        /\ Goto(p, "write")
     \/ Goto(p, "quit") /\ UNCHANGED reported     \* the copy failed
  /\ UNCHANGED <<bell, desc, tpc, alarm, asleep, pending, missed, overlap>>

(* Clears the alarm; v is the number written. *)
Clear(v) ==
  IF v = 0 /\ alarm = 1
    THEN /\ alarm' = 0
         /\ missed' = missed \cup (pending \ reported)
         /\ pending' = {}
    ELSE UNCHANGED <<alarm, missed, pending>>

(* Mutant: a write of any number clears the alarm. *)
malm_write_AnyValue(v) == Clear(0)

malm_write(v) == Clear(v)

AppWrite(p) ==
  /\ pc[p] = "write"
  /\ malm_write(0)
  /\ Goto(p, "poll")
  /\ UNCHANGED <<bell, desc, tpc, asleep, reported, overlap>>

(* Anybody may write another number to the node. *)
OtherWrite ==
  /\ malm_write(1)
  /\ UNCHANGED <<bell, desc, tpc, asleep, pc, reported, overlap>>

AppStep(p) == PollWait(p) \/ malm_poll(p) \/ PollWoken(p) \/ malm_read(p) \/ AppWrite(p)

Handlers == IrqEnter \/ alarm_irq_handler \/ alarm_irq_thread

Next ==
  \/ Timer \/ Handlers \/ OtherWrite
  \/ \E p \in Apps : AppStep(p) \/ PollSignal(p)

Spec == Init /\ [][Next]_vars

-----------------------------------------------------------------------------
(* Properties. *)

(* The bit is on exactly for pending events, each event is in one place,   *)
(* and an event is cleared unread only if it was raised while a process    *)
(* stood between its read and its clearing write.                          *)
MissedOnlyInWindow ==
  /\ (alarm = 1) = (pending # {})
  /\ missed \subseteq overlap \ reported
  /\ pending \cap missed = {}

(* While a process still runs, an alarm is cleared again: it is neither    *)
(* left standing nor slept through.                                        *)
AlarmCleared == alarm = 1 ~> (alarm = 0 \/ \A p \in Apps : pc[p] = "quit")

=============================================================================
