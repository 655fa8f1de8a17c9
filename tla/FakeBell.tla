------------------------------ MODULE FakeBell ------------------------------
(***************************************************************************)
(* The emulated "zxy,fakebell" device that the interrupt drivers run on.   *)
(* Its source is the hw/misc/fakebell.c listing of myirq/README.           *)
(*                                                                         *)
(* A device is a record of its one-bit registers (as BOOLEANs), the u32    *)
(* event counter and the level of its interrupt line.  Each operator below *)
(* maps a device to the device after one callback of the emulation.        *)
(***************************************************************************)
EXTENDS Naturals

CONSTANT MaxU32   \* largest value of a 32 bit counter, 2^32 - 1 in the code

ASSUME MaxU32Assumption == MaxU32 \in Nat \ {0}

U32 == 0 .. MaxU32

(* n + 1 and a + b on unsigned 32 bit counters, which wrap around. *)
Inc32(n) == IF n = MaxU32 THEN 0 ELSE n + 1

Add32(a, b) == IF a + b > MaxU32 THEN a + b - (MaxU32 + 1) ELSE a + b

FakeBellState == [status : BOOLEAN, irq_enable : BOOLEAN,
                  irq_status : BOOLEAN, event_count : U32, line : BOOLEAN]

fakebell_realize == [status |-> FALSE, irq_enable |-> FALSE,
                     irq_status |-> FALSE, event_count |-> 0, line |-> FALSE]

(* The line is level triggered: high while enabled and pending. *)
fakebell_update_irq(s) == [s EXCEPT !.line = s.irq_enable /\ s.irq_status]

(* fakebell_write to FB_REG_IRQ_ENABLE *)
fakebell_write_enable(s, v) == fakebell_update_irq([s EXCEPT !.irq_enable = v])

(* fakebell_write of 1 to FB_REG_IRQ_ACK *)
fakebell_write_ack(s) ==
  fakebell_update_irq([s EXCEPT !.status = FALSE, !.irq_status = FALSE])

(* Every period the timer raises a new event, unless one is still pending. *)
fakebell_timer_cb(s) ==
  IF s.irq_status
    THEN s
    ELSE fakebell_update_irq([s EXCEPT !.event_count = Inc32(@),
                                       !.status = TRUE, !.irq_status = TRUE])

=============================================================================
