------------------------------ MODULE BellLock ------------------------------
(***************************************************************************)
(* mybelllock of practice/myfakebell/myfakebell.c, CPU by CPU.  The lock   *)
(* is taken with plain spin_lock by tasks (myfbpoll, myfbioctl and         *)
(* myirq_bottom) and by the hard handler myirq_top, which interrupts       *)
(* whatever runs on its CPU.  A task holds the CPU while it holds the lock *)
(* or spins for it, a handler until it returns.                            *)
(***************************************************************************)

CONSTANTS CPUs

VARIABLES
  task,      \* what the task of each CPU does: idle, spin or inside
  top,       \* the handler of each CPU: none, spin or inside
  holder     \* who holds the lock: <<CPU, "task">>, <<CPU, "top">> or Free

vars == <<task, top, holder>>

Free == <<"nobody", "none">>

Init ==
  /\ task = [c \in CPUs |-> "idle"] /\ top = [c \in CPUs |-> "none"]
  /\ holder = Free

(* spin_lock at l.54, l.72, l.148 and l.187. *)
TaskWants(c) ==
  /\ top[c] = "none" /\ task[c] = "idle"
  /\ task' = [task EXCEPT ![c] = "spin"]
  /\ UNCHANGED <<top, holder>>

TaskLocks(c) ==
  /\ top[c] = "none" /\ task[c] = "spin" /\ holder = Free
  /\ task' = [task EXCEPT ![c] = "inside"]
  /\ holder' = <<c, "task">>
  /\ UNCHANGED top

TaskUnlocks(c) ==
  /\ top[c] = "none" /\ task[c] = "inside"
  /\ task' = [task EXCEPT ![c] = "idle"]
  /\ holder' = Free
  /\ UNCHANGED top

(* The line is delivered to one CPU at a time, whatever its task does. *)
TopEnters(c) ==
  /\ \A d \in CPUs : top[d] = "none"
  /\ top' = [top EXCEPT ![c] = "spin"]
  /\ UNCHANGED <<task, holder>>

TopLocks(c) ==
  /\ top[c] = "spin" /\ holder = Free
  /\ top' = [top EXCEPT ![c] = "inside"]
  /\ holder' = <<c, "top">>
  /\ UNCHANGED task

(* Mutant: the early return forgets the lock. *)
TopReturns_NoUnlock(c) ==
  /\ top[c] = "inside"
  /\ top' = [top EXCEPT ![c] = "none"]
  /\ holder' \in {Free, holder}
  /\ UNCHANGED task

(* Both returns of myirq_top unlock first. *)
TopReturns(c) ==
  /\ top[c] = "inside"
  /\ top' = [top EXCEPT ![c] = "none"]
  /\ holder' = Free
  /\ UNCHANGED task

Run(c) == TaskLocks(c) \/ TaskUnlocks(c) \/ TopLocks(c) \/ TopReturns(c)

Next == \E c \in CPUs : TaskWants(c) \/ TopEnters(c) \/ Run(c)

Spec == Init /\ [][Next]_vars

-----------------------------------------------------------------------------
(* Properties. *)

(* The handler has interrupted the task that holds the lock it waits for.  *)
Stuck(c) == top[c] = "spin" /\ holder = <<c, "task">>

(* A handler that waits for the lock gets it, except in the one case that  *)
(* the missing _irqsave of the tasks allows: it waits for the task it has  *)
(* interrupted.                                                            *)
SpinEnds == \A c \in CPUs : top[c] = "spin" ~> (top[c] # "spin" \/ Stuck(c))

=============================================================================
