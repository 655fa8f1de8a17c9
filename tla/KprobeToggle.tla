---------------------------- MODULE KprobeToggle ----------------------------
(***************************************************************************)
(* mykprobe/kprobe_toggle.c.  The parameter file probe_enabled exists      *)
(* before the init function runs (the kernel creates it when the module is *)
(* loaded), so processes write it while kprobe_toggle_init, which takes no *)
(* lock, is under way.  probe is the kernel's own state of the probe;      *)
(* external: register_kprobe arms it, enable_kprobe and disable_kprobe     *)
(* change it or fail, and their results are not looked at.                 *)
(***************************************************************************)

CONSTANTS Writers   \* processes that write the parameter

VARIABLES
  ipc,            \* kprobe_toggle_init: next step
  probe_enabled, kp_registered,   \* as in the code
  probe,          \* "none", "armed" or "disarmed"
  lock, spc,      \* who holds kp_lock, and its next step
  new_val,        \* the value it writes
  doubt           \* history: a call failed, or init disabled the probe late

vars == <<ipc, probe_enabled, kp_registered, probe, lock, spc, new_val, doubt>>

NoWriter == "nobody"

Init ==
  /\ ipc = "register"
  /\ probe_enabled = TRUE /\ kp_registered = FALSE /\ probe = "none"
  /\ lock = NoWriter /\ spc = "idle" /\ new_val = TRUE /\ doubt = FALSE

(* A call that is to bring the probe to s, or fails. *)
Bring(s) ==
  \/ probe' = s /\ UNCHANGED doubt
  \/ doubt' = TRUE /\ UNCHANGED probe

-----------------------------------------------------------------------------
(* kprobe_toggle_init *)

Register ==
  /\ ipc = "register"
  /\ \/ probe' = "armed" /\ ipc' = "registered"
     \/ ipc' = "failed" /\ UNCHANGED probe
  /\ UNCHANGED <<probe_enabled, kp_registered, lock, spc, new_val, doubt>>

Registered ==
  /\ ipc = "registered"
  /\ kp_registered' = TRUE
  /\ ipc' = "test"
  /\ UNCHANGED <<probe_enabled, probe, lock, spc, new_val, doubt>>

TestEnabled ==
  /\ ipc = "test"
  /\ ipc' = IF probe_enabled THEN "live" ELSE "disable"
  /\ UNCHANGED <<probe_enabled, kp_registered, probe, lock, spc, new_val, doubt>>

(* l.88, on the strength of l.87: late if the parameter has changed since, *)
(* or is about to.                                                         *)
InitDisable ==
  /\ ipc = "disable"
  /\ \/ probe' = "disarmed" /\ doubt' = (doubt \/ probe_enabled \/ lock # NoWriter)
     \/ doubt' = TRUE /\ UNCHANGED probe
  /\ ipc' = "live"
  /\ UNCHANGED <<probe_enabled, kp_registered, lock, spc, new_val>>

-----------------------------------------------------------------------------
(* set_probe_enabled: other numbers and other text are refused. *)

SetLock(w, v) ==
  /\ ipc \notin {"failed", "gone"}
  /\ lock = NoWriter
  /\ \/ kp_registered /\ new_val' = v /\ lock' = w /\ spc' = "probe"
     \/ ~kp_registered /\ UNCHANGED <<new_val, lock, spc>>        \* -EINVAL
  /\ UNCHANGED <<ipc, probe_enabled, kp_registered, probe, doubt>>

SetProbe(w) ==
  /\ lock = w /\ spc = "probe"
  /\ IF new_val = probe_enabled
       THEN UNCHANGED <<probe, doubt>>
       ELSE Bring(IF new_val THEN "armed" ELSE "disarmed")
  /\ spc' = "flag"
  /\ UNCHANGED <<ipc, probe_enabled, kp_registered, lock, new_val>>

(* Mutant: the flag is not stored. *)
SetFlag_Forgotten(w) ==
  /\ lock = w /\ spc = "flag"
  /\ lock' = NoWriter /\ spc' = "idle"
  /\ UNCHANGED <<ipc, probe_enabled, kp_registered, probe, new_val, doubt>>

SetFlag(w) ==
  /\ lock = w /\ spc = "flag"
  /\ probe_enabled' = new_val
  /\ lock' = NoWriter /\ spc' = "idle"
  /\ UNCHANGED <<ipc, kp_registered, probe, new_val, doubt>>

-----------------------------------------------------------------------------
(* kprobe_toggle_exit *)

Unregister ==
  /\ ipc = "live" /\ lock = NoWriter
  /\ probe' = "none" /\ kp_registered' = FALSE
  /\ ipc' = "gone"
  /\ UNCHANGED <<probe_enabled, lock, spc, new_val, doubt>>

Next ==
  \/ Register \/ Registered \/ TestEnabled \/ InitDisable \/ Unregister
  \/ \E w \in Writers : SetProbe(w) \/ SetFlag(w) \/ \E v \in BOOLEAN : SetLock(w, v)

Spec == Init /\ [][Next]_vars

-----------------------------------------------------------------------------
(* Properties. *)

(* probe_enabled is to "Enable/disable the registered kprobe": once init   *)
(* is over and nobody is in set_probe_enabled, the parameter is the state  *)
(* of the probe.  It is off for good only after a call whose failure was   *)
(* ignored, or when a write of 1 fell between init's test of the flag and  *)
(* its disable_kprobe.                                                     *)
FlagMatchesProbe ==
  ipc = "live" /\ lock = NoWriter => doubt \/ (probe = "armed") = probe_enabled

=============================================================================
