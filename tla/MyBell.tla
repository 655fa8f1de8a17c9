------------------------------- MODULE MyBell -------------------------------
(***************************************************************************)
(* myirq/mybell.c: the driver that counts the events of the fakebell       *)
(* device.  Its hard handler looks at the pending bit, its handler thread  *)
(* reads the device, counts the event and acknowledges it.                 *)
(*                                                                         *)
(* The device timer, the hard handler, the handler thread and the bus core *)
(* (probe and remove) interleave; a step ends at each register access that *)
(* another actor could observe or overtake.                                *)
(***************************************************************************)
EXTENDS FakeBell, GenericIrq

VARIABLES
  bell,       \* the device
  desc,       \* the kernel's view of its interrupt line
  drv,        \* where probe and remove are
  irq_count,  \* mydev->irq_count
  pc,         \* next step of mb_irq_thread
  seen,       \* locals of mb_irq_thread: status, event_count, irq_status_before
  base,       \* history: event_count when probe acknowledged stale events
  fired       \* history: hard interrupts since the last acknowledge

vars == <<bell, desc, drv, irq_count, pc, seen, base, fired>>

(* unbound -> acked -> requested -> bound -> disabled -> freeing -> unbound *)
Phases == {"unbound", "acked", "requested", "bound", "disabled", "freeing"}

Locals == [status : BOOLEAN, event_count : U32, irq_status : BOOLEAN]

NoLocals == [status |-> FALSE, event_count |-> 0, irq_status |-> FALSE]

Init ==
  /\ bell = fakebell_realize
  /\ desc = irq_unused
  /\ drv = "unbound"
  /\ irq_count = 0
  /\ pc = "read"
  /\ seen = NoLocals
  /\ base = 0
  /\ fired = 0

-----------------------------------------------------------------------------
(* The device. *)

Timer ==
  /\ bell' = fakebell_timer_cb(bell)
  /\ UNCHANGED <<desc, drv, irq_count, pc, seen, base, fired>>

-----------------------------------------------------------------------------
(* mybell_probe.  The resource lookups that fail before the acknowledge    *)
(* return with nothing changed.                                            *)

(* Mutant: a stale event stays pending. *)
ProbeAck_NoAck ==
  /\ drv = "unbound"
  /\ drv' = "acked"
  /\ irq_count' = 0
  /\ base' = bell.event_count
  /\ fired' = 0
  /\ UNCHANGED <<bell, desc, pc, seen>>

ProbeAck ==
  /\ drv = "unbound"
  /\ drv' = "acked"
  /\ irq_count' = 0
  /\ bell' = fakebell_write_ack(bell)
  /\ base' = bell.event_count
  /\ fired' = 0
  /\ UNCHANGED <<desc, pc, seen>>

ProbeRequestFails ==
  /\ drv = "acked"
  /\ drv' = "unbound"
  /\ UNCHANGED <<bell, desc, irq_count, pc, seen, base, fired>>

(* Mutant: without IRQF_ONESHOT. *)
ProbeRequest_NoOneshot ==
  /\ drv = "acked"
  /\ drv' = "requested"
  /\ desc' = request_threaded_irq(FALSE)
  /\ UNCHANGED <<bell, irq_count, pc, seen, base, fired>>

ProbeRequest ==
  /\ drv = "acked"
  /\ drv' = "requested"
  /\ desc' = request_threaded_irq(TRUE)
  /\ UNCHANGED <<bell, irq_count, pc, seen, base, fired>>

ProbeEnable ==
  /\ drv = "requested"
  /\ drv' = "bound"
  /\ bell' = fakebell_write_enable(bell, TRUE)
  /\ UNCHANGED <<desc, irq_count, pc, seen, base, fired>>

-----------------------------------------------------------------------------
(* The interrupt. *)

IrqEnter ==
  /\ irq_deliverable(desc) /\ bell.line
  /\ desc' = irq_enter(desc)
  /\ fired' = IF fired < 2 THEN fired + 1 ELSE fired
  /\ UNCHANGED <<bell, drv, irq_count, pc, seen, base>>

mb_irq_handler ==
  /\ desc.hard
  /\ desc' = IF bell.irq_status THEN irq_return_wake_thread(desc)
                                ELSE irq_return_none(desc)
  /\ UNCHANGED <<bell, drv, irq_count, pc, seen, base, fired>>

ThreadRead ==
  /\ desc.woken /\ ~desc.thread
  /\ desc' = irq_thread_start(desc)
  /\ seen' = [status |-> bell.status, event_count |-> bell.event_count,
              irq_status |-> bell.irq_status]
  /\ pc' = "count"
  /\ UNCHANGED <<bell, drv, irq_count, base, fired>>

(* Mutant: acknowledges before it has logged and counted. *)
ThreadCount_AckFirst ==
  /\ pc = "count"
  /\ irq_count' = Inc32(irq_count)
  /\ bell' = fakebell_write_ack(bell)
  /\ pc' = "ack"
  /\ UNCHANGED <<desc, drv, seen, base, fired>>

ThreadCount ==
  /\ pc = "count"
  /\ irq_count' = Inc32(irq_count)
  /\ pc' = "ack"
  /\ UNCHANGED <<bell, desc, drv, seen, base, fired>>

(* Mutant: no acknowledge. *)
ThreadAck_Skipped ==
  /\ pc = "ack"
  /\ pc' = "done"
  /\ UNCHANGED <<bell, desc, drv, irq_count, seen, base, fired>>

ThreadAck ==
  /\ pc = "ack"
  /\ bell' = fakebell_write_ack(bell)
  /\ fired' = 0
  /\ pc' = "done"
  /\ UNCHANGED <<desc, drv, irq_count, seen, base>>

(* Mutant: handles further events before it returns. *)
ThreadDone_Drain ==
  /\ pc = "done"
  /\ IF bell.irq_status
       THEN /\ seen' = [status |-> bell.status, event_count |-> bell.event_count,
                        irq_status |-> bell.irq_status]
            /\ pc' = "count"
            /\ UNCHANGED desc
       ELSE /\ desc' = irq_thread_done(desc)
            /\ pc' = "read"
            /\ UNCHANGED seen
  /\ UNCHANGED <<bell, drv, irq_count, base, fired>>

ThreadDone ==
  /\ pc = "done"
  /\ desc' = irq_thread_done(desc)
  /\ pc' = "read"
  /\ UNCHANGED <<bell, drv, irq_count, seen, base, fired>>

mb_irq_thread == ThreadRead \/ ThreadCount \/ ThreadAck \/ ThreadDone

-----------------------------------------------------------------------------
(* mybell_remove, then the release of the devm resources in reverse order: *)
(* the interrupt first, mydev last.                                        *)

RemoveDisable ==
  /\ drv = "bound"
  /\ drv' = "disabled"
  /\ bell' = fakebell_write_enable(bell, FALSE)
  /\ UNCHANGED <<desc, irq_count, pc, seen, base, fired>>

FreeIrq ==
  /\ drv = "disabled"
  /\ drv' = "freeing"
  /\ desc' = irq_shutdown(desc)
  /\ UNCHANGED <<bell, irq_count, pc, seen, base, fired>>

(* Mutant: mydev goes while a handler may run. *)
FreeDev_NoWait ==
  /\ drv = "freeing"
  /\ drv' = "unbound"
  /\ UNCHANGED <<bell, desc, irq_count, pc, seen, base, fired>>

FreeDev ==
  /\ drv = "freeing" /\ irq_quiescent(desc)
  /\ drv' = "unbound"
  /\ desc' = irq_unused
  /\ UNCHANGED <<bell, irq_count, pc, seen, base, fired>>

mybell_probe == ProbeAck \/ ProbeRequestFails \/ ProbeRequest \/ ProbeEnable

mybell_remove == RemoveDisable \/ FreeIrq \/ FreeDev

-----------------------------------------------------------------------------

Next ==
  \/ Timer
  \/ mybell_probe
  \/ IrqEnter
  \/ mb_irq_handler
  \/ mb_irq_thread
  \/ mybell_remove

Spec == Init /\ [][Next]_vars

(* The timer re-arms itself, an unmasked high line interrupts a CPU, a     *)
(* woken kernel thread is scheduled, and a probe or remove once begun runs *)
(* on.  Whether anybody ever binds or unbinds the driver is left open.     *)
Fairness ==
  /\ WF_vars(Timer)
  /\ WF_vars(IrqEnter)
  /\ WF_vars(mb_irq_handler)
  /\ WF_vars(mb_irq_thread)
  /\ WF_vars(ProbeEnable)
  /\ WF_vars(FreeIrq)
  /\ WF_vars(FreeDev)

FairSpec == Spec /\ Fairness

-----------------------------------------------------------------------------
(* Properties. *)

(* Every variable has its type. *)
TypeOK ==
  /\ bell \in FakeBellState
  /\ desc \in IrqDesc
  /\ drv \in Phases
  /\ irq_count \in U32
  /\ pc \in {"read", "count", "ack", "done"}
  /\ seen \in Locals
  /\ base \in U32
  /\ fired \in 0 .. 2

(* Number of events raised since probe that irq_count does not include: the *)
(* pending one, until the thread has counted it.                            *)
Uncounted == IF bell.irq_status /\ pc # "ack" THEN 1 ELSE 0

(* irq_count is exact: while the driver is bound, the device's event_count *)
(* is the count at probe plus irq_count plus the event still to be counted *)
(* (modulo the counters' wrap-around), so mb_irq_thread (l.32) counts every *)
(* event once, whatever the timer, the probe and the thread interleave to. *)
EventsCounted ==
  drv # "unbound" =>
    bell.event_count = Add32(base, Add32(irq_count, Uncounted))

(* IRQF_ONESHOT (l.92) prevents the storm: a level interrupt reaches the   *)
(* hard handler at most once before the thread acknowledges the device,    *)
(* and the event is still pending when the handler looks, so that it never *)
(* returns IRQ_NONE (l.15).                                                *)
NoStorm == fired <= 1 /\ (desc.hard => bell.irq_status)

(* What mb_irq_thread logs at l.33-37 is about the event it acknowledges:  *)
(* from its reads (l.28-30) to its acknowledge (l.40) nothing changes the  *)
(* registers it has read, and the event is active and pending.             *)
ThreadSeesItsEvent ==
  pc \in {"count", "ack"} =>
    /\ seen = [status |-> bell.status, event_count |-> bell.event_count,
               irq_status |-> bell.irq_status]
    /\ seen.status /\ seen.irq_status

(* No handler runs on a mydev that is not there: not before probe has      *)
(* requested the interrupt, not after the devm release freed mydev.        *)
HandlersHaveDev == ~irq_quiescent(desc) => drv \in {"bound", "disabled", "freeing"}

(* A pending event of a bound driver is acknowledged (or the driver goes). *)
EventHandled == (drv = "bound" /\ bell.irq_status) ~> (~bell.irq_status \/ drv # "bound")

(* A driver that is being removed gets unbound: free_irq waits for the     *)
(* handlers, and they cannot keep it waiting for ever.                     *)
RemoveFinishes == drv = "disabled" ~> drv = "unbound"

=============================================================================
