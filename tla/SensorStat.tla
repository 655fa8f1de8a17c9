----------------------------- MODULE SensorStat -----------------------------
(***************************************************************************)
(* One device of myproject: struct mysensor_status of fakesensor.c, the    *)
(* setting and control commands of device_unlocked_ioctl, device_poll, and *)
(* app/sensor_tool.c as the processes that issue them.  Nothing is locked: *)
(* set_temp stores, compares and raises the alarm in separate steps, and   *)
(* the wake-up follows after another look at the alarm.  The query         *)
(* commands change nothing and are left out.                               *)
(***************************************************************************)
EXTENDS Integers

CONSTANTS
  Tools,      \* runs of sensor_tool
  Args,       \* numbers given on the command line
  MaxU32,     \* largest __u32, 2^32 - 1 in the code
  MaxCalls    \* bound on the commands

VARIABLES
  stat,       \* struct mysensor_status without its humidity
  pc,         \* the next step of each run
  asleep,     \* runs queued on mysensor->wq that have not been woken
  calls,      \* commands so far
  excused     \* history: cleared, or a new threshold, since the last comparison

vars == <<stat, pc, asleep, calls, excused>>

init_tempstat == [temp |-> 2, threshold |-> 100, alarm |-> 0]

Init ==
  /\ stat = init_tempstat
  /\ pc = [t \in Tools |-> "idle"] /\ asleep = {}
  /\ calls = 0 /\ excused = FALSE

(* An int stored in a __u32 field. *)
ToU32(n) == IF n < 0 THEN n + MaxU32 + 1 ELSE n

(* atoi of the argument; a cpy2kernel that fails leaves 0, and the command *)
(* goes on.                                                                *)
New == Args \cup {0}

Goto(t, l) == pc' = [pc EXCEPT ![t] = l]

Begin(t, l) == pc[t] = "idle" /\ calls < MaxCalls /\ calls' = calls + 1 /\ Goto(t, l)

-----------------------------------------------------------------------------

set_temp(t, new) ==
  /\ Begin(t, "compare")
  /\ stat' = [stat EXCEPT !.temp = ToU32(new)]
  /\ UNCHANGED <<asleep, excused>>

(* Mutant: compares the wrong way round. *)
Compare_Below(t) ==
  /\ pc[t] = "compare"
  /\ stat' = IF stat.temp < stat.threshold THEN [stat EXCEPT !.alarm = 1] ELSE stat
  /\ excused' = FALSE
  /\ Goto(t, "look")
  /\ UNCHANGED <<asleep, calls>>

Compare(t) ==
  /\ pc[t] = "compare"
  /\ stat' = IF stat.temp > stat.threshold THEN [stat EXCEPT !.alarm = 1] ELSE stat
  /\ excused' = FALSE
  /\ Goto(t, "look")
  /\ UNCHANGED <<asleep, calls>>

(* MYSENSOR_IOC_SET_THRESHOLD does not compare. *)
set_lim(t, new) ==
  /\ Begin(t, "look")
  /\ stat' = [stat EXCEPT !.threshold = ToU32(new)]
  /\ excused' = TRUE
  /\ UNCHANGED asleep

(* l.217 and l.229: wake up if the alarm is on. *)
Look(t) ==
  /\ pc[t] = "look"
  /\ Goto(t, IF stat.alarm # 0 THEN "wake" ELSE "idle")
  /\ UNCHANGED <<stat, asleep, calls, excused>>

Wake(t) ==
  /\ pc[t] = "wake"
  /\ asleep' = {}
  /\ Goto(t, "idle")
  /\ UNCHANGED <<stat, calls, excused>>

ClearAlarm(t) ==
  /\ Begin(t, "idle")
  /\ stat' = [stat EXCEPT !.alarm = 0]
  /\ excused' = TRUE
  /\ UNCHANGED asleep

(* Mutant: the triggered alarm wakes nobody. *)
TriggerAlarm_Silent(t) ==
  /\ Begin(t, "idle")
  /\ stat' = [stat EXCEPT !.alarm = 1]
  /\ UNCHANGED <<asleep, excused>>

TriggerAlarm(t) ==
  /\ Begin(t, "wake")
  /\ stat' = [stat EXCEPT !.alarm = 1]
  /\ UNCHANGED <<asleep, excused>>

-----------------------------------------------------------------------------
(* do_wait_alarm: poll with or without a timeout. *)

WaitAlarm(t) ==
  /\ Begin(t, "poll")
  /\ asleep' = asleep \cup {t}
  /\ UNCHANGED <<stat, excused>>

device_poll(t) ==
  /\ pc[t] = "poll"
  /\ \/ stat.alarm # 0 /\ Goto(t, "idle") /\ asleep' = asleep \ {t}
     \/ stat.alarm = 0 /\ Goto(t, "sleep") /\ UNCHANGED asleep
  /\ UNCHANGED <<stat, calls, excused>>

PollWoken(t) ==
  /\ pc[t] = "sleep" /\ t \notin asleep
  /\ asleep' = asleep \cup {t}
  /\ Goto(t, "poll")
  /\ UNCHANGED <<stat, calls, excused>>

(* A timeout or a signal. *)
PollEnds(t) ==
  /\ pc[t] = "sleep"
  /\ asleep' = asleep \ {t}
  /\ Goto(t, "idle")
  /\ UNCHANGED <<stat, calls, excused>>

Next ==
  \E t \in Tools :
    \/ \E new \in New : set_temp(t, new) \/ set_lim(t, new)
    \/ Compare(t) \/ Look(t) \/ Wake(t) \/ ClearAlarm(t) \/ TriggerAlarm(t)
    \/ WaitAlarm(t) \/ device_poll(t) \/ PollWoken(t) \/ PollEnds(t)

Spec == Init /\ [][Next]_vars

-----------------------------------------------------------------------------
(* Properties. *)

(* A run asleep while the alarm is on is about to be woken: by the command *)
(* that raised the alarm, which has yet to look or to wake.                *)
NoLostWakeup ==
  \A t \in Tools : pc[t] = "sleep" /\ t \in asleep /\ stat.alarm # 0 =>
    \E u \in Tools : pc[u] \in {"look", "wake"}

(* A temperature above the threshold without an alarm means that the alarm *)
(* was cleared, or the threshold set (which compares nothing), since the   *)
(* last comparison, or that a comparison is still to come.                 *)
HotMeansAlarm ==
  stat.temp > stat.threshold /\ stat.alarm = 0 =>
    excused \/ \E t \in Tools : pc[t] = "compare"

=============================================================================
