----------------------------- MODULE GenericIrq -----------------------------
(***************************************************************************)
(* The kernel's threaded interrupt flow, as the drivers use it through     *)
(* devm_request_threaded_irq, IRQ_NONE, IRQ_WAKE_THREAD and IRQ_HANDLED.   *)
(* It is not part of the repository; this is the contract of the kernel    *)
(* the drivers rely on.  One record holds the state of one interrupt line: *)
(*                                                                         *)
(*   requested  a driver has installed its handlers on the line            *)
(*   oneshot    it did so with IRQF_ONESHOT                                *)
(*   masked     the line is masked at the interrupt controller             *)
(*   hard       the hard handler is running                                *)
(*   woken      the handler thread has been told to run                    *)
(*   thread     the handler thread is running                              *)
(***************************************************************************)

IrqDesc == [requested : BOOLEAN, oneshot : BOOLEAN, masked : BOOLEAN,
            hard : BOOLEAN, woken : BOOLEAN, thread : BOOLEAN]

irq_unused == [requested |-> FALSE, oneshot |-> FALSE, masked |-> TRUE,
               hard |-> FALSE, woken |-> FALSE, thread |-> FALSE]

request_threaded_irq(oneshot) ==
  [irq_unused EXCEPT !.requested = TRUE, !.oneshot = oneshot, !.masked = FALSE]

(* The line is delivered to a CPU only while it is not masked, and it is   *)
(* masked from there on.                                                   *)
irq_deliverable(d) == d.requested /\ ~d.masked /\ ~d.hard

irq_enter(d) == [d EXCEPT !.hard = TRUE, !.masked = TRUE]

irq_return_none(d) == [d EXCEPT !.hard = FALSE, !.masked = d.woken \/ d.thread]

(* A one-shot line stays masked until its thread has finished. *)
irq_return_wake_thread(d) ==
  [d EXCEPT !.hard = FALSE, !.woken = TRUE, !.masked = d.oneshot]

irq_thread_start(d) == [d EXCEPT !.woken = FALSE, !.thread = TRUE]

irq_thread_done(d) ==
  [d EXCEPT !.thread = FALSE,
            !.masked = IF d.oneshot THEN d.woken \/ d.hard \/ ~d.requested ELSE @]

(* free_irq: shuts the line down, then waits until neither handler runs. *)
irq_shutdown(d) == [d EXCEPT !.requested = FALSE, !.masked = TRUE]

irq_quiescent(d) == ~d.hard /\ ~d.woken /\ ~d.thread

=============================================================================
