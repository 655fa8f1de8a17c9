---------------------------- MODULE MyBellProofs ----------------------------
(***************************************************************************)
(* Proofs about MyBell for every width of the counters.                    *)
(*                                                                         *)
(* EventsCounted is not inductive: that the thread counts an event once    *)
(* depends on how the pending bit, the mask of the line and the three      *)
(* stages of the handler hang together.  IrqInv states that; IInv adds it. *)
(***************************************************************************)
EXTENDS MyBell, TLAPS

(* An event has been taken by the hard handler and not yet acknowledged. *)
InService == desc.hard \/ desc.woken \/ pc \in {"count", "ack"}

(* The line follows the registers, and they follow probe and remove. *)
LineInv ==
  /\ (bell.line <=> bell.irq_enable /\ bell.irq_status)
  /\ (bell.irq_enable <=> drv = "bound")
  /\ (bell.status <=> bell.irq_status)
  /\ (desc.requested <=> drv \in {"requested", "bound", "disabled"})
  /\ drv \notin {"unbound", "acked"} => desc.oneshot

(* At most one stage of the handler is active, the line is masked then, it *)
(* is active only between ProbeEnable and FreeDev, and the event in        *)
(* service stays pending and was delivered once.                           *)
StageInv ==
  /\ (desc.thread <=> pc # "read")
  /\ ~(desc.hard /\ desc.woken) /\ ~(desc.hard /\ desc.thread) /\ ~(desc.woken /\ desc.thread)
  /\ ~irq_quiescent(desc) => desc.masked /\ drv \in {"bound", "disabled", "freeing"}
  /\ InService => bell.irq_status
  /\ fired = IF InService THEN 1 ELSE 0

IrqInv == LineInv /\ StageInv

IInv == TypeOK /\ IrqInv /\ ThreadSeesItsEvent /\ EventsCounted

USE MaxU32Assumption DEF U32

(* The operators of the device and of the interrupt flow keep their types. *)
LEMMA UpdateType ==
  ASSUME NEW s \in FakeBellState PROVE fakebell_update_irq(s) \in FakeBellState
  BY Zenon DEF FakeBellState, fakebell_update_irq

(* The callbacks of the device map device states to device states. *)
LEMMA DeviceTypes ==
  ASSUME NEW s \in FakeBellState, NEW v \in BOOLEAN
  PROVE  /\ fakebell_write_enable(s, v) \in FakeBellState
         /\ fakebell_write_ack(s) \in FakeBellState
         /\ fakebell_timer_cb(s) \in FakeBellState
<1>1. fakebell_write_enable(s, v) \in FakeBellState
  <2>1. [s EXCEPT !.irq_enable = v] \in FakeBellState
    BY DEF FakeBellState
  <2> QED BY <2>1, UpdateType DEF fakebell_write_enable
<1>2. fakebell_write_ack(s) \in FakeBellState
  <2>1. [s EXCEPT !.status = FALSE, !.irq_status = FALSE] \in FakeBellState
    BY DEF FakeBellState
  <2> QED BY <2>1, UpdateType DEF fakebell_write_ack
<1>3. fakebell_timer_cb(s) \in FakeBellState
  <2>1. [s EXCEPT !.event_count = Inc32(@), !.status = TRUE, !.irq_status = TRUE]
          \in FakeBellState
    <3>1. Inc32(s.event_count) \in U32
      BY DEF FakeBellState, Inc32
    <3> QED BY <3>1, Zenon DEF FakeBellState
  <2> QED BY <2>1, UpdateType DEF fakebell_timer_cb
<1> QED BY <1>1, <1>2, <1>3

(* The kernel's interrupt flow maps descriptors to descriptors. *)
LEMMA IrqTypes ==
  ASSUME NEW d \in IrqDesc
  PROVE  /\ irq_unused \in IrqDesc
         /\ request_threaded_irq(TRUE) \in IrqDesc
         /\ irq_enter(d) \in IrqDesc
         /\ irq_return_none(d) \in IrqDesc
         /\ irq_return_wake_thread(d) \in IrqDesc
         /\ irq_thread_start(d) \in IrqDesc
         /\ irq_thread_done(d) \in IrqDesc
         /\ irq_shutdown(d) \in IrqDesc
  BY DEF IrqDesc, irq_unused, request_threaded_irq, irq_enter, irq_return_none,
         irq_return_wake_thread, irq_thread_start, irq_thread_done, irq_shutdown

(* The inductive invariant holds when the module is loaded. *)
LEMMA InitInv == Init => IInv
<1> SUFFICES ASSUME Init PROVE IInv
  OBVIOUS
<1> USE DEF Init
<1>1. TypeOK
  <2>1. bell \in FakeBellState
    BY DEF FakeBellState, fakebell_realize
  <2>2. desc \in IrqDesc
    BY DEF IrqDesc, irq_unused
  <2>3. seen \in Locals
    BY DEF Locals, NoLocals
  <2> QED BY <2>1, <2>2, <2>3 DEF TypeOK, Phases
<1>2. LineInv
  BY DEF LineInv, fakebell_realize, irq_unused
<1>3. StageInv
  BY DEF StageInv, InService, irq_quiescent, irq_unused
<1>4. ThreadSeesItsEvent /\ EventsCounted
  BY DEF ThreadSeesItsEvent, EventsCounted
<1> QED BY <1>1, <1>2, <1>3, <1>4 DEF IInv, IrqInv

(* Every step keeps the types. *)
LEMMA TypeStep == TypeOK /\ [Next]_vars => TypeOK'
<1> SUFFICES ASSUME TypeOK, [Next]_vars PROVE TypeOK'
  OBVIOUS
<1> USE DEF TypeOK
<1>1. CASE Timer
  BY <1>1, DeviceTypes DEF Timer
<1>2. CASE ProbeAck
  BY <1>2, DeviceTypes DEF ProbeAck, Phases, FakeBellState
<1>3. CASE ProbeRequestFails
  BY <1>3 DEF ProbeRequestFails, Phases
<1>4. CASE ProbeRequest
  BY <1>4, IrqTypes DEF ProbeRequest, Phases
<1>5. CASE ProbeEnable
  BY <1>5, DeviceTypes DEF ProbeEnable, Phases
<1>6. CASE IrqEnter
  <2>1. desc' \in IrqDesc
    BY <1>6, IrqTypes DEF IrqEnter
  <2>2. fired' \in 0 .. 2
    BY <1>6 DEF IrqEnter
  <2> QED BY <1>6, <2>1, <2>2 DEF IrqEnter
<1>7. CASE mb_irq_handler
  BY <1>7, IrqTypes DEF mb_irq_handler
<1>8. CASE ThreadRead
  BY <1>8, IrqTypes DEF ThreadRead, Locals, FakeBellState
<1>9. CASE ThreadCount
  BY <1>9 DEF ThreadCount, Inc32
<1>10. CASE ThreadAck
  <2>1. bell' \in FakeBellState
    BY <1>10, DeviceTypes DEF ThreadAck
  <2>2. fired' \in 0 .. 2
    BY <1>10 DEF ThreadAck
  <2> QED BY <1>10, <2>1, <2>2 DEF ThreadAck
<1>11. CASE ThreadDone
  BY <1>11, IrqTypes DEF ThreadDone
<1>12. CASE RemoveDisable
  BY <1>12, DeviceTypes DEF RemoveDisable, Phases
<1>13. CASE FreeIrq
  BY <1>13, IrqTypes DEF FreeIrq, Phases
<1>14. CASE FreeDev
  BY <1>14, IrqTypes DEF FreeDev, Phases
<1>15. CASE UNCHANGED vars
  BY <1>15 DEF vars
<1> QED
  BY <1>1, <1>2, <1>3, <1>4, <1>5, <1>6, <1>7, <1>8, <1>9, <1>10, <1>11, <1>12,
     <1>13, <1>14, <1>15 DEF Next, mybell_probe, mb_irq_thread, mybell_remove

(* Every step keeps the protocol between line, mask and handler stages. *)
LEMMA LineStep == IInv /\ [Next]_vars => LineInv'
<1> SUFFICES ASSUME IInv, [Next]_vars PROVE LineInv'
  OBVIOUS
<1> USE DEF IInv, IrqInv, LineInv, TypeOK, FakeBellState, IrqDesc
<1>1. CASE Timer
  BY <1>1 DEF Timer, fakebell_timer_cb, fakebell_update_irq
<1>2. CASE ProbeAck
  BY <1>2 DEF ProbeAck, fakebell_write_ack, fakebell_update_irq
<1>3. CASE ProbeRequestFails
  BY <1>3 DEF ProbeRequestFails
<1>4. CASE ProbeRequest
  BY <1>4 DEF ProbeRequest, request_threaded_irq, irq_unused
<1>5. CASE ProbeEnable
  BY <1>5 DEF ProbeEnable, fakebell_write_enable, fakebell_update_irq
<1>6. CASE IrqEnter
  BY <1>6 DEF IrqEnter, irq_enter
<1>7. CASE mb_irq_handler
  BY <1>7 DEF mb_irq_handler, irq_return_wake_thread, irq_return_none
<1>8. CASE ThreadRead
  BY <1>8 DEF ThreadRead, irq_thread_start
<1>9. CASE ThreadCount
  BY <1>9 DEF ThreadCount
<1>10. CASE ThreadAck
  BY <1>10 DEF ThreadAck, fakebell_write_ack, fakebell_update_irq
<1>11. CASE ThreadDone
  BY <1>11 DEF ThreadDone, irq_thread_done
<1>12. CASE RemoveDisable
  BY <1>12 DEF RemoveDisable, fakebell_write_enable, fakebell_update_irq
<1>13. CASE FreeIrq
  BY <1>13 DEF FreeIrq, irq_shutdown
<1>14. CASE FreeDev
  BY <1>14 DEF FreeDev, irq_unused
<1>15. CASE UNCHANGED vars
  BY <1>15 DEF vars
<1> QED
  BY <1>1, <1>2, <1>3, <1>4, <1>5, <1>6, <1>7, <1>8, <1>9, <1>10, <1>11, <1>12,
     <1>13, <1>14, <1>15 DEF Next, mybell_probe, mb_irq_thread, mybell_remove

(* Every step keeps the stages of driver, descriptor and thread in agreement. *)
LEMMA StageStep == IInv /\ [Next]_vars => StageInv'
<1> SUFFICES ASSUME IInv, [Next]_vars PROVE StageInv'
  OBVIOUS
<1> USE DEF IInv, IrqInv, LineInv, StageInv, TypeOK, FakeBellState, IrqDesc, InService,
            irq_quiescent
<1>1. CASE Timer
  BY <1>1 DEF Timer, fakebell_timer_cb, fakebell_update_irq
<1>2. CASE ProbeAck
  BY <1>2 DEF ProbeAck, fakebell_write_ack, fakebell_update_irq
<1>3. CASE ProbeRequestFails
  BY <1>3 DEF ProbeRequestFails
<1>4. CASE ProbeRequest
  BY <1>4 DEF ProbeRequest, request_threaded_irq, irq_unused
<1>5. CASE ProbeEnable
  BY <1>5 DEF ProbeEnable, fakebell_write_enable, fakebell_update_irq
<1>6. CASE IrqEnter
  BY <1>6 DEF IrqEnter, irq_enter, irq_deliverable
<1>7. CASE mb_irq_handler
  BY <1>7 DEF mb_irq_handler, irq_return_wake_thread
<1>8. CASE ThreadRead
  BY <1>8 DEF ThreadRead, irq_thread_start
<1>9. CASE ThreadCount
  BY <1>9 DEF ThreadCount
<1>10. CASE ThreadAck
  BY <1>10 DEF ThreadAck, fakebell_write_ack, fakebell_update_irq
<1>11. CASE ThreadDone
  BY <1>11 DEF ThreadDone, irq_thread_done
<1>12. CASE RemoveDisable
  BY <1>12 DEF RemoveDisable, fakebell_write_enable, fakebell_update_irq
<1>13. CASE FreeIrq
  BY <1>13 DEF FreeIrq, irq_shutdown
<1>14. CASE FreeDev
  BY <1>14 DEF FreeDev, irq_unused
<1>15. CASE UNCHANGED vars
  BY <1>15 DEF vars
<1> QED
  BY <1>1, <1>2, <1>3, <1>4, <1>5, <1>6, <1>7, <1>8, <1>9, <1>10, <1>11, <1>12,
     <1>13, <1>14, <1>15 DEF Next, mybell_probe, mb_irq_thread, mybell_remove

(* Nothing the thread has read changes before its acknowledge. *)
LEMMA SeenStep == IInv /\ [Next]_vars => ThreadSeesItsEvent'
<1> SUFFICES ASSUME IInv, [Next]_vars PROVE ThreadSeesItsEvent'
  OBVIOUS
<1> USE DEF IInv, IrqInv, LineInv, StageInv, TypeOK, FakeBellState, IrqDesc, InService,
            ThreadSeesItsEvent
<1>1. CASE Timer
  BY <1>1 DEF Timer, fakebell_timer_cb
<1>2. CASE ProbeAck
  BY <1>2 DEF ProbeAck, irq_quiescent
<1>3. CASE ThreadRead
  BY <1>3 DEF ThreadRead
<1>4. CASE ThreadCount
  BY <1>4 DEF ThreadCount
<1>5. CASE ThreadAck \/ ThreadDone
  BY <1>5 DEF ThreadAck, ThreadDone
<1>6. CASE ProbeEnable \/ RemoveDisable
  BY <1>6 DEF ProbeEnable, RemoveDisable, fakebell_write_enable, fakebell_update_irq
<1>7. CASE UNCHANGED <<bell, pc, seen>>
  BY <1>7
<1> QED
  BY <1>1, <1>2, <1>3, <1>4, <1>5, <1>6, <1>7
     DEF Next, mybell_probe, mb_irq_thread, mybell_remove, vars, ProbeRequestFails,
         ProbeRequest, IrqEnter, mb_irq_handler, FreeIrq, FreeDev

(* Every step keeps the account of the events. *)
LEMMA CountStep == IInv /\ [Next]_vars => EventsCounted'
<1> SUFFICES ASSUME IInv, [Next]_vars PROVE EventsCounted'
  OBVIOUS
<1> USE DEF IInv, IrqInv, LineInv, StageInv, TypeOK, FakeBellState, IrqDesc, InService,
            EventsCounted, Uncounted, Add32
<1>1. CASE Timer
  <2>1. CASE bell.irq_status
    BY <1>1, <2>1 DEF Timer, fakebell_timer_cb
  <2>2. CASE ~bell.irq_status
    <3>1. /\ bell'.event_count = Inc32(bell.event_count)
          /\ bell'.irq_status /\ pc # "ack"
          /\ UNCHANGED <<drv, base, irq_count, pc>>
      BY <1>1, <2>2 DEF Timer, fakebell_timer_cb, fakebell_update_irq
    <3> QED BY <2>2, <3>1 DEF Inc32
  <2> QED BY <2>1, <2>2
<1>2. CASE ProbeAck
  BY <1>2 DEF ProbeAck, fakebell_write_ack, fakebell_update_irq
<1>3. CASE ThreadCount
  <2>1. bell.irq_status /\ pc' = "ack" /\ irq_count' = Inc32(irq_count)
        /\ UNCHANGED <<bell, base, drv>>
    BY <1>3 DEF ThreadCount
  <2> QED BY <1>3, <2>1 DEF Inc32, ThreadCount
<1>4. CASE ThreadAck
  BY <1>4 DEF ThreadAck, fakebell_write_ack, fakebell_update_irq
<1>5. CASE ProbeEnable \/ RemoveDisable
  BY <1>5 DEF ProbeEnable, RemoveDisable, fakebell_write_enable, fakebell_update_irq
<1>6. CASE ThreadRead \/ ThreadDone
  BY <1>6 DEF ThreadRead, ThreadDone
<1>7. CASE ProbeRequest \/ IrqEnter \/ mb_irq_handler \/ FreeIrq
  BY <1>7 DEF ProbeRequest, IrqEnter, mb_irq_handler, FreeIrq
<1>8. CASE ProbeRequestFails \/ FreeDev
  BY <1>8 DEF ProbeRequestFails, FreeDev
<1>9. CASE UNCHANGED vars
  BY <1>9 DEF vars
<1> QED
  BY <1>1, <1>2, <1>3, <1>4, <1>5, <1>6, <1>7, <1>8, <1>9
     DEF Next, mybell_probe, mb_irq_thread, mybell_remove

(* IInv holds in every reachable state. *)
LEMMA Invariant == Spec => []IInv
<1>1. IInv /\ [Next]_vars => IInv'
  BY TypeStep, LineStep, StageStep, SeenStep, CountStep DEF IInv, IrqInv
<1> QED
  BY InitInv, <1>1, PTL DEF Spec

(* The variables of the driver model keep their types (mybell.c, mybell.h). *)
THEOREM TypeCorrect == Spec => []TypeOK
  BY Invariant, PTL DEF IInv

(* mb_irq_thread (mybell.c l.32) counts every event raised since probe     *)
(* exactly once, for every width of the counters.                          *)
THEOREM CountIsExact == Spec => []EventsCounted
  BY Invariant, PTL DEF IInv

(* The registers mb_irq_thread logs (l.28-37) are those of the event it    *)
(* acknowledges at l.40.                                                   *)
THEOREM LogIsOfItsEvent == Spec => []ThreadSeesItsEvent
  BY Invariant, PTL DEF IInv

(* With IRQF_ONESHOT (l.92) the hard handler runs at most once per event   *)
(* and never finds the device idle.                                        *)
THEOREM StormFree == Spec => []NoStorm
<1>1. IInv => NoStorm
  BY DEF IInv, IrqInv, StageInv, InService, NoStorm
<1> QED BY <1>1, Invariant, PTL

(* The release order of the devm resources (mybell.c l.65, l.90, l.108)    *)
(* never leaves a handler without mydev.                                   *)
THEOREM NoHandlerWithoutDev == Spec => []HandlersHaveDev
<1>1. IInv => HandlersHaveDev
  BY DEF IInv, IrqInv, StageInv, HandlersHaveDev
<1> QED BY <1>1, Invariant, PTL

-----------------------------------------------------------------------------
(* What liveness rests on.  EventHandled and RemoveFinishes need fairness  *)
(* and stay with TLC; that the step fairness is asked of is always there,  *)
(* and that it leads forward, is proved for every width of the counters.   *)

(* The next step of the handlers is ready: the guards of mb_irq_handler    *)
(* and mb_irq_thread.                                                      *)
HandlerReady == desc.hard \/ (desc.woken /\ ~desc.thread) \/ pc # "read"

(* A line nobody is serving is unmasked. *)
MaskInv == desc.requested /\ irq_quiescent(desc) => ~desc.masked

(* A pending event of a bound driver is never stranded: the interrupt can  *)
(* be delivered, or a handler that will acknowledge it is ready to go on.  *)
NoEventStranded ==
  drv = "bound" /\ bell.irq_status => (irq_deliverable(desc) /\ bell.line) \/ HandlerReady

(* Steps of the handlers still to come before free_irq stops waiting. *)
StepsLeft ==
  IF desc.hard THEN 5
  ELSE IF desc.woken THEN 4
  ELSE IF pc = "count" THEN 3
  ELSE IF pc = "ack" THEN 2
  ELSE IF pc = "done" THEN 1
  ELSE 0

(* free_irq waits for a handler that is ready to go on, and for no step    *)
(* more: no new interrupt comes, each step of a handler brings the end of  *)
(* the wait nearer and no step of another actor puts it off.               *)
FreeWaitsDown ==
  drv = "freeing" =>
    /\ irq_quiescent(desc) \/ HandlerReady
    /\ drv' = "freeing" => StepsLeft' <= StepsLeft
    /\ mb_irq_handler \/ mb_irq_thread => StepsLeft' < StepsLeft

(* Every step leaves a line nobody serves unmasked: the thread's last step *)
(* unmasks what the hard interrupt masked.                                 *)
LEMMA MaskStep == IInv /\ MaskInv /\ [Next]_vars => MaskInv'
<1> SUFFICES ASSUME IInv, MaskInv, [Next]_vars PROVE MaskInv'
  OBVIOUS
<1> USE DEF IInv, IrqInv, LineInv, StageInv, TypeOK, IrqDesc, InService, MaskInv, irq_quiescent
<1>1. CASE ProbeRequest
  BY <1>1 DEF ProbeRequest, request_threaded_irq, irq_unused
<1>2. CASE IrqEnter
  BY <1>2 DEF IrqEnter, irq_enter
<1>3. CASE mb_irq_handler
  BY <1>3 DEF mb_irq_handler, irq_return_wake_thread
<1>4. CASE ThreadRead
  BY <1>4 DEF ThreadRead, irq_thread_start
<1>5. CASE ThreadDone
  BY <1>5 DEF ThreadDone, irq_thread_done
<1>6. CASE FreeIrq
  BY <1>6 DEF FreeIrq, irq_shutdown
<1>7. CASE FreeDev
  BY <1>7 DEF FreeDev, irq_unused
<1>8. CASE UNCHANGED desc
  BY <1>8
<1> QED
  BY <1>1, <1>2, <1>3, <1>4, <1>5, <1>6, <1>7, <1>8
     DEF Next, mybell_probe, mb_irq_thread, mybell_remove, vars, Timer, ProbeAck,
         ProbeRequestFails, ProbeEnable, ThreadCount, ThreadAck, RemoveDisable

(* A pending event of a bound mybell is always about to be delivered or in *)
(* the hands of a handler that is ready to run: oneshot masking (l.92),    *)
(* the acknowledge of the probe (l.89) and the enable after the request    *)
(* (l.98) leave no gap in which an event could get stuck.                  *)
THEOREM NoStrandedEvent == Spec => []NoEventStranded
<1>1. Init => MaskInv
  BY DEF Init, MaskInv, irq_unused
<1>2. Spec => []MaskInv
  BY <1>1, MaskStep, Invariant, PTL DEF Spec
<1>3. IInv /\ MaskInv => NoEventStranded
  BY DEF IInv, IrqInv, LineInv, StageInv, MaskInv, NoEventStranded, HandlerReady,
         irq_deliverable, irq_quiescent, TypeOK, IrqDesc, FakeBellState
<1> QED BY <1>2, <1>3, Invariant, PTL

(* The free_irq of mybell's release waits for at most five handler steps,  *)
(* each of them ready when it is waited for.                               *)
THEOREM RemoveWaitsDown == Spec => [][FreeWaitsDown]_vars
<1>1. IInv /\ [Next]_vars => [FreeWaitsDown]_vars
  <2> SUFFICES ASSUME IInv, Next, drv = "freeing"
               PROVE  /\ irq_quiescent(desc) \/ HandlerReady
                      /\ drv' = "freeing" => StepsLeft' <= StepsLeft
                      /\ mb_irq_handler \/ mb_irq_thread => StepsLeft' < StepsLeft
    BY DEF FreeWaitsDown
  <2> USE DEF IInv, IrqInv, LineInv, StageInv, TypeOK, IrqDesc, InService, StepsLeft
  <2>1. irq_quiescent(desc) \/ HandlerReady
    BY DEF irq_quiescent, HandlerReady
  <2>2. mb_irq_handler => StepsLeft' < StepsLeft
    BY DEF mb_irq_handler, irq_return_wake_thread
  <2>3. ThreadRead => StepsLeft' < StepsLeft
    BY DEF ThreadRead, irq_thread_start
  <2>4. ThreadCount \/ ThreadAck => StepsLeft' < StepsLeft
    BY DEF ThreadCount, ThreadAck
  <2>5. ThreadDone => StepsLeft' < StepsLeft
    BY DEF ThreadDone, irq_thread_done
  <2>6. mb_irq_handler \/ mb_irq_thread => StepsLeft' < StepsLeft
    BY <2>2, <2>3, <2>4, <2>5 DEF mb_irq_thread
  <2>7. ~(mb_irq_handler \/ mb_irq_thread) /\ drv' = "freeing" => UNCHANGED <<desc, pc>>
    BY DEF Next, mybell_probe, mybell_remove, Timer, ProbeAck, ProbeRequestFails, ProbeRequest,
           ProbeEnable, IrqEnter, irq_deliverable, RemoveDisable, FreeIrq, FreeDev
  <2>8. StepsLeft \in 0 .. 5
    BY DEF StepsLeft
  <2>9. UNCHANGED <<desc, pc>> => StepsLeft' = StepsLeft
    BY DEF StepsLeft
  <2> HIDE DEF StepsLeft
  <2>10. StepsLeft' \in 0 .. 5
    BY DEF StepsLeft
  <2> QED BY <2>1, <2>6, <2>7, <2>8, <2>9, <2>10
<1> QED BY <1>1, Invariant, PTL DEF Spec

=============================================================================
