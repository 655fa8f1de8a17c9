---------------------------- MODULE SensorMinors ----------------------------
(***************************************************************************)
(* The minor numbers of myproject/driver/src/mysensordrv.c.  Devices are   *)
(* bound and unbound through sysfs by several processes at once, so        *)
(* myssdrv_probe and myssdrv_remove of two devices overlap, and get_minor  *)
(* and return_minor take no lock.  The driver core serialises the calls    *)
(* for one device.                                                         *)
(***************************************************************************)
EXTENDS Integers, FiniteSets

CONSTANTS
  Sensors,     \* platform devices
  DEVCOUNT,    \* minors, 4 in the code
  MaxProbes    \* bound on the probes

VARIABLES
  avaliable_minor, devcount,   \* as in the code
  cdevs, nodes,   \* external: registered character devices and class devices
  pc, minor, local,   \* each device's call: next step, its minor, the slot tested
  back,           \* where its return_minor returns to
  probes,         \* probes so far
  raced           \* history: two calls were inside get_minor or return_minor

vars == <<avaliable_minor, devcount, cdevs, nodes, pc, minor, local, back, probes, raced>>

Minors == 0 .. DEVCOUNT - 1

Books == {"scan", "claim", "free"}

Init ==
  /\ avaliable_minor = [i \in Minors |-> 0] /\ devcount = 0
  /\ cdevs = {} /\ nodes = {}
  /\ pc = [s \in Sensors |-> "unbound"]
  /\ minor = [s \in Sensors |-> 0] /\ local = [s \in Sensors |-> 0]
  /\ back = [s \in Sensors |-> "unbound"]
  /\ probes = 0 /\ raced = FALSE

Goto(s, l) ==
  /\ pc' = [pc EXCEPT ![s] = l]
  /\ raced' = (raced \/ (l \in Books /\ \E t \in Sensors \ {s} : pc[t] \in Books))

-----------------------------------------------------------------------------
(* get_minor.  local is the slot tested.                     *)

Probe(s) ==
  /\ pc[s] = "unbound" /\ probes < MaxProbes
  /\ probes' = probes + 1
  /\ local' = [local EXCEPT ![s] = 0]
  /\ back' = [back EXCEPT ![s] = "unbound"]
  /\ Goto(s, "scan")
  /\ UNCHANGED <<avaliable_minor, devcount, cdevs, nodes, minor>>

Scan(s) ==
  /\ pc[s] = "scan"
  /\ \/ /\ local[s] \in Minors /\ avaliable_minor[local[s]] = 0
        /\ minor' = [minor EXCEPT ![s] = local[s]]
        /\ Goto(s, "claim") /\ UNCHANGED local
     \/ /\ local[s] \in Minors /\ avaliable_minor[local[s]] # 0
        /\ local' = [local EXCEPT ![s] = @ + 1]
        /\ UNCHANGED <<pc, minor, raced>>
     \/ /\ local[s] = DEVCOUNT      \* -1, and the probe fails
        /\ Goto(s, "unbound") /\ UNCHANGED <<minor, local>>
  /\ UNCHANGED <<avaliable_minor, devcount, cdevs, nodes, back, probes>>

(* devcount, which nobody reads while the driver is loaded, is counted in  *)
(* the same step.                                                          *)
Claim(s) ==
  /\ pc[s] = "claim"
  /\ avaliable_minor' = [avaliable_minor EXCEPT ![minor[s]] = 1]
  /\ devcount' = devcount + 1
  /\ Goto(s, "cdev")
  /\ UNCHANGED <<cdevs, nodes, minor, local, back, probes>>

-----------------------------------------------------------------------------
(* The rest of myssdrv_probe: kzalloc and cdev_add may fail, device_create *)
(* also does so when the name exists.                                      *)

ProbeCdev(s) ==
  /\ pc[s] = "cdev"
  /\ \/ cdevs' = cdevs \cup {s} /\ Goto(s, "create")
     \/ Goto(s, "free") /\ UNCHANGED cdevs
  /\ UNCHANGED <<avaliable_minor, devcount, nodes, minor, local, back, probes>>

(* Mutant: the result of device_create is not looked at. *)
ProbeCreate_Unchecked(s) ==
  /\ pc[s] = "create"
  /\ nodes' = nodes \cup {minor[s]}
  /\ Goto(s, "bound")
  /\ UNCHANGED <<avaliable_minor, devcount, cdevs, minor, local, back, probes>>

(* Mutant: the error path keeps the minor. *)
ProbeCreate_KeepMinor(s) ==
  /\ pc[s] = "create"
  /\ \/ /\ minor[s] \notin nodes
        /\ nodes' = nodes \cup {minor[s]} /\ Goto(s, "bound") /\ UNCHANGED cdevs
     \/ /\ cdevs' = cdevs \ {s}
        /\ Goto(s, "unbound") /\ UNCHANGED nodes
  /\ UNCHANGED <<avaliable_minor, devcount, minor, local, back, probes>>

ProbeCreate(s) ==
  /\ pc[s] = "create"
  /\ \/ minor[s] \notin nodes /\ nodes' = nodes \cup {minor[s]} /\ Goto(s, "bound") /\ UNCHANGED cdevs
     \/ cdevs' = cdevs \ {s} /\ Goto(s, "free") /\ UNCHANGED nodes
  /\ UNCHANGED <<avaliable_minor, devcount, minor, local, back, probes>>

-----------------------------------------------------------------------------
(* return_minor, on the error paths of probe and in remove. *)

Free(s) ==
  /\ pc[s] = "free"
  /\ avaliable_minor' = [avaliable_minor EXCEPT ![minor[s]] = 0]
  /\ devcount' = devcount - 1
  /\ Goto(s, back[s])
  /\ UNCHANGED <<cdevs, nodes, minor, local, back, probes>>

(* myssdrv_remove: cdev_del, return_minor, device_destroy, kfree. *)
RemoveCdev(s) ==
  /\ pc[s] = "bound"
  /\ cdevs' = cdevs \ {s}
  /\ back' = [back EXCEPT ![s] = "destroy"]
  /\ Goto(s, "free")
  /\ UNCHANGED <<avaliable_minor, devcount, nodes, minor, local, probes>>

RemoveDestroy(s) ==
  /\ pc[s] = "destroy"
  /\ nodes' = nodes \ {minor[s]}
  /\ Goto(s, "unbound")
  /\ UNCHANGED <<avaliable_minor, devcount, cdevs, minor, local, back, probes>>

Next ==
  \E s \in Sensors :
    \/ Probe(s) \/ Scan(s) \/ Claim(s) \/ ProbeCdev(s) \/ ProbeCreate(s)
    \/ Free(s) \/ RemoveCdev(s) \/ RemoveDestroy(s)

Spec == Init /\ [][Next]_vars

-----------------------------------------------------------------------------
(* Properties. *)

Holders(i) == {s \in Sensors : pc[s] \in {"cdev", "create", "bound"} /\ minor[s] = i}

(* Two bound devices never share a minor, whatever overlaps: even when     *)
(* get_minor hands one out twice, device_create refuses the second.        *)
MinorsDistinct ==
  \A s, t \in Sensors : pc[s] = "bound" /\ pc[t] = "bound" /\ minor[s] = minor[t] => s = t

(* Unless calls of get_minor or return_minor have overlapped, a minor is   *)
(* taken exactly while one device has it, devcount counts them, and a      *)
(* device_create meets an existing name only while the remove that has     *)
(* returned the minor has yet to destroy the node (l.100 before l.101).    *)
MinorsAccounted ==
  ~raced =>
    /\ (\A s \in Sensors : pc[s] \notin Books) =>
         /\ \A i \in Minors : Cardinality(Holders(i)) = avaliable_minor[i]
         /\ devcount = Cardinality({i \in Minors : avaliable_minor[i] = 1})
    /\ \A s \in Sensors :
         pc[s] = "create" /\ minor[s] \in nodes =>
           \E t \in Sensors : pc[t] = "destroy" /\ minor[t] = minor[s]

=============================================================================
