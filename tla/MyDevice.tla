------------------------------ MODULE MyDevice ------------------------------
(***************************************************************************)
(* practice/mydevice: a character device that any number of files may      *)
(* read and one may configure.  mydev->reference counts the open files,    *)
(* mydev->config_opened marks the configuring one, and mydevremove waits   *)
(* for the count to reach 0.                                               *)
(*                                                                         *)
(* The steps end where other threads can tell the difference: at the       *)
(* locks, between reading and writing a field under a lock, and around     *)
(* the wait of mydevremove.  mydevprobe makes the device visible before    *)
(* mydevice_init initialises its mutexes and its wait queue.  A mutex of   *)
(* zeroes works while nobody contends for it; initialising it while it is  *)
(* held frees it, waiting on it or waking the queue of zeroes crashes the  *)
(* caller.  The history variable torn remembers that one of these happened.*)
(***************************************************************************)
EXTENDS Naturals, FiniteSets

CONSTANTS
  Files,     \* processes, each with at most one open file
  Configs,   \* values of mydev->config a write may parse, besides 0
  NoFile,    \* nobody holds the mutex
  MaxOpens   \* bound on the calls of open

ASSUME MyDeviceAssumption ==
  /\ IsFiniteSet(Files) /\ NoFile \notin Files
  /\ MaxOpens \in Nat

VARIABLES
  dev,            \* life of the device, see Lives
  inited,         \* mydevice_init has run
  reference, config_opened, config,   \* struct mydevice
  reflock, configlock,                \* holder of the mutex, or NoFile
  waiting,        \* mydevremove is queued on mydev->wq, not woken
  wait,           \* next step of wait_event_interruptible in mydevremove
  pc,             \* f's place in mydevopen and mydevrelease
  writer,         \* f was opened with FMODE_WRITE
  is_config,      \* f's myctx->is_config
  off,            \* f's file position is not 0
  local,          \* what f read under the lock it holds
  opens,          \* calls of open so far
  forced,         \* history: a signal ended the wait of mydevremove
  torn,           \* history: see above
  late            \* history: files whose addref came after the wait had ended

devVars == <<dev, inited>>
ctlVars == <<wait, forced>>
histVars == <<torn, late>>
vars == <<devVars, reference, config_opened, config, reflock, configlock, waiting,
          ctlVars, pc, writer, is_config, off, local, opens, histVars>>

Lives == {"none", "created", "ready", "draining", "drained", "destroyed", "deleted", "freed"}

Opening == {"lookup", "config", "addref", "addrefSet"}
Counted == {"opened", "relConfig", "relref", "relrefSet"}
Leaving == {"wake", "dead"}

Init ==
  /\ dev = "none" /\ inited = FALSE
  /\ reference = 0 /\ config_opened = FALSE /\ config = 0
  /\ reflock = NoFile /\ configlock = NoFile
  /\ waiting = FALSE /\ wait = "none"
  /\ pc = [f \in Files |-> "closed"]
  /\ writer = [f \in Files |-> FALSE] /\ is_config = [f \in Files |-> FALSE]
  /\ off = [f \in Files |-> FALSE] /\ local = [f \in Files |-> 0]
  /\ opens = 0
  /\ forced = FALSE /\ torn = FALSE /\ late = {}

(* Once the memory of the device is freed, what a file does is undefined. *)
Alive == dev # "freed"

Goto(f, l) == pc' = [pc EXCEPT ![f] = l]

-----------------------------------------------------------------------------
(* mydevprobe: device_create makes the node visible, mydevice_init follows. *)

ProbeCreate ==
  /\ dev = "none"
  /\ dev' = "created"
  /\ UNCHANGED <<inited, reference, config_opened, config, reflock, configlock, waiting,
                 ctlVars, pc, writer, is_config, off, local, opens, histVars>>

mydevice_init ==
  /\ dev = "created"
  /\ dev' = "ready" /\ inited' = TRUE
  /\ reflock' = NoFile /\ configlock' = NoFile
  /\ torn' = (torn \/ reflock # NoFile \/ configlock # NoFile)
  /\ UNCHANGED <<reference, config_opened, config, waiting, ctlVars, pc, writer,
                 is_config, off, local, opens, late>>

-----------------------------------------------------------------------------
(* mydevopen.  chrdev_open has found the cdev before the driver is called. *)

OpenStart(f, w) ==
  /\ dev \in {"created", "ready", "draining", "drained", "destroyed"}
  /\ pc[f] = "closed" /\ opens < MaxOpens
  /\ opens' = opens + 1
  /\ \/ /\ writer' = [writer EXCEPT ![f] = w]
        /\ off' = [off EXCEPT ![f] = FALSE]
        /\ Goto(f, "lookup")
        /\ late' = IF dev \in {"drained", "destroyed"} THEN late \cup {f} ELSE late \ {f}
     \/ UNCHANGED <<writer, off, pc, late>>     \* no memory for the context
  /\ UNCHANGED <<devVars, reference, config_opened, config, reflock, configlock, waiting,
                 ctlVars, is_config, local, torn>>

(* A thread that meets a held mutex sleeps, or crashes if it is not initialised. *)
Contend(f) ==
  /\ Alive /\ ~inited
  /\ \/ pc[f] \in {"addref", "relref"} /\ reflock # NoFile
     \/ (pc[f] = "relConfig" \/ (pc[f] = "lookup" /\ writer[f])) /\ configlock # NoFile
  /\ Goto(f, "dead") /\ torn' = TRUE
  /\ UNCHANGED <<devVars, reference, config_opened, config, reflock, configlock, waiting,
                 ctlVars, writer, is_config, off, local, opens, late>>

OpenRead(f) ==
  /\ Alive /\ pc[f] = "lookup" /\ ~writer[f]
  /\ Goto(f, "addref")
  /\ UNCHANGED <<devVars, reference, config_opened, config, reflock, configlock, waiting,
                 ctlVars, writer, is_config, off, local, opens, histVars>>

(* Mutant: tests config_opened without the lock. *)
OpenTestConfig_NoLock(f) ==
  /\ Alive /\ pc[f] = "lookup" /\ writer[f]
  /\ local' = [local EXCEPT ![f] = IF config_opened THEN 1 ELSE 0]
  /\ Goto(f, "config")
  /\ UNCHANGED <<devVars, reference, config_opened, config, reflock, configlock, waiting,
                 ctlVars, writer, is_config, off, opens, histVars>>

OpenTestConfig(f) ==
  /\ Alive /\ pc[f] = "lookup" /\ writer[f] /\ configlock = NoFile
  /\ configlock' = f
  /\ local' = [local EXCEPT ![f] = IF config_opened THEN 1 ELSE 0]
  /\ Goto(f, "config")
  /\ UNCHANGED <<devVars, reference, config_opened, config, reflock, waiting,
                 ctlVars, writer, is_config, off, opens, histVars>>

(* config_opened was set: unlock, free the context, -EBUSY. *)
OpenBusy(f) ==
  /\ Alive /\ pc[f] = "config" /\ local[f] = 1
  /\ configlock' = NoFile
  /\ local' = [local EXCEPT ![f] = 0]
  /\ Goto(f, "closed")
  /\ UNCHANGED <<devVars, reference, config_opened, config, reflock, waiting,
                 ctlVars, writer, is_config, off, opens, histVars>>

OpenTakeConfig(f) ==
  /\ Alive /\ pc[f] = "config" /\ local[f] = 0
  /\ config_opened' = TRUE
  /\ is_config' = [is_config EXCEPT ![f] = TRUE]
  /\ configlock' = NoFile
  /\ Goto(f, "addref")
  /\ UNCHANGED <<devVars, reference, config, reflock, waiting,
                 ctlVars, writer, off, local, opens, histVars>>

-----------------------------------------------------------------------------
(* addref and relref: each reads, then writes mydev->reference. *)

(* Mutant: counts without the lock. *)
RefLock_NoLock(f) ==
  /\ Alive /\ pc[f] \in {"addref", "relref"}
  /\ local' = [local EXCEPT ![f] = reference]
  /\ Goto(f, IF pc[f] = "addref" THEN "addrefSet" ELSE "relrefSet")
  /\ UNCHANGED <<devVars, reference, config_opened, config, reflock, configlock, waiting,
                 ctlVars, writer, is_config, off, opens, histVars>>

RefLock(f) ==
  /\ Alive /\ pc[f] \in {"addref", "relref"} /\ reflock = NoFile
  /\ reflock' = f
  /\ local' = [local EXCEPT ![f] = reference]
  /\ Goto(f, IF pc[f] = "addref" THEN "addrefSet" ELSE "relrefSet")
  /\ UNCHANGED <<devVars, reference, config_opened, config, configlock, waiting,
                 ctlVars, writer, is_config, off, opens, histVars>>

addref(f) ==
  /\ Alive /\ pc[f] = "addrefSet"
  /\ reference' = local[f] + 1
  /\ reflock' = NoFile
  /\ local' = [local EXCEPT ![f] = 0]
  /\ Goto(f, "opened")
  /\ UNCHANGED <<devVars, config_opened, config, configlock, waiting,
                 ctlVars, writer, is_config, off, opens, histVars>>

(* Mutant: wakes when the count was 0 before. *)
relref_WrongWake(f) ==
  /\ Alive /\ pc[f] = "relrefSet"
  /\ reference' = IF local[f] = 0 THEN 0 ELSE local[f] - 1
  /\ reflock' = NoFile
  /\ local' = [local EXCEPT ![f] = 0]
  /\ Goto(f, IF local[f] = 0 THEN "wake" ELSE "closed")
  /\ UNCHANGED <<devVars, config_opened, config, configlock, waiting,
                 ctlVars, writer, is_config, off, opens, histVars>>

(* It returns 0 also when the count was 0 already. *)
relref(f) ==
  /\ Alive /\ pc[f] = "relrefSet"
  /\ reference' = IF local[f] = 0 THEN 0 ELSE local[f] - 1
  /\ reflock' = NoFile
  /\ local' = [local EXCEPT ![f] = 0]
  /\ Goto(f, IF reference' = 0 THEN "wake" ELSE "closed")
  /\ UNCHANGED <<devVars, config_opened, config, configlock, waiting,
                 ctlVars, writer, is_config, off, opens, histVars>>

-----------------------------------------------------------------------------
(* mydevread, mydevwrite and mydevrelease on an open file. *)

mydevread(f) ==
  /\ Alive /\ pc[f] = "opened" /\ ~off[f] /\ configlock = NoFile
  /\ off' = [off EXCEPT ![f] = TRUE]
  /\ UNCHANGED <<devVars, reference, config_opened, config, reflock, configlock, waiting,
                 ctlVars, pc, writer, is_config, local, opens, histVars>>

(* sscanf found a number, perhaps cut short by a failed copy_from_user. *)
mydevwrite(f, v) ==
  /\ Alive /\ pc[f] = "opened" /\ ~off[f] /\ is_config[f] /\ configlock = NoFile
  /\ config' = v
  /\ off' = [off EXCEPT ![f] = TRUE]
  /\ UNCHANGED <<devVars, reference, config_opened, reflock, configlock, waiting,
                 ctlVars, pc, writer, is_config, local, opens, histVars>>

ReleaseStart(f) ==
  /\ Alive /\ pc[f] = "opened"
  /\ Goto(f, IF is_config[f] THEN "relConfig" ELSE "relref")
  /\ UNCHANGED <<devVars, reference, config_opened, config, reflock, configlock, waiting,
                 ctlVars, writer, is_config, off, local, opens, histVars>>

ReleaseConfig(f) ==
  /\ Alive /\ pc[f] = "relConfig" /\ configlock = NoFile
  /\ config_opened' = FALSE
  /\ is_config' = [is_config EXCEPT ![f] = FALSE]
  /\ Goto(f, "relref")
  /\ UNCHANGED <<devVars, reference, config, reflock, configlock, waiting,
                 ctlVars, writer, off, local, opens, histVars>>

ReleaseWake(f) ==
  /\ Alive /\ pc[f] = "wake"
  /\ waiting' = FALSE
  /\ Goto(f, IF inited THEN "closed" ELSE "dead")
  /\ torn' = (torn \/ ~inited)
  /\ UNCHANGED <<devVars, reference, config_opened, config, reflock, configlock,
                 ctlVars, writer, is_config, off, local, opens, late>>

-----------------------------------------------------------------------------
(* mydevremove: wait_event_interruptible tests, queues itself, tests again *)
(* and sleeps; a signal ends it and its result is ignored.                 *)

EndWait(signalled) ==
  /\ dev' = "drained" /\ wait' = "none" /\ waiting' = FALSE
  /\ forced' = signalled
  /\ late' = {f \in Files : pc[f] \in Opening}

RemoveStart ==
  /\ dev = "ready"
  /\ dev' = "draining" /\ wait' = "first"
  /\ UNCHANGED <<inited, reference, config_opened, config, reflock, configlock, waiting,
                 forced, pc, writer, is_config, off, local, opens, histVars>>

(* getref takes and drops reflock in one step. *)
RemoveTest ==
  /\ wait \in {"first", "test"} /\ reflock = NoFile
  /\ \/ reference = 0 /\ EndWait(FALSE)
     \/ /\ reference # 0
        /\ wait' = IF wait = "first" THEN "queue" ELSE "asleep"
        /\ UNCHANGED <<dev, waiting, forced, late>>
  /\ UNCHANGED <<inited, reference, config_opened, config, reflock, configlock, pc, writer,
                 is_config, off, local, opens, torn>>

RemoveQueue ==
  /\ wait = "queue"
  /\ waiting' = TRUE /\ wait' = "test"
  /\ UNCHANGED <<devVars, reference, config_opened, config, reflock, configlock,
                 forced, pc, writer, is_config, off, local, opens, histVars>>

(* Mutant: takes the wake-up itself for the condition. *)
RemoveWoken_NoRetest ==
  /\ wait = "asleep" /\ ~waiting
  /\ EndWait(FALSE)
  /\ UNCHANGED <<inited, reference, config_opened, config, reflock, configlock, pc, writer,
                 is_config, off, local, opens, torn>>

RemoveWoken ==
  /\ wait = "asleep" /\ ~waiting
  /\ wait' = "queue"
  /\ UNCHANGED <<devVars, reference, config_opened, config, reflock, configlock, waiting,
                 forced, pc, writer, is_config, off, local, opens, histVars>>

RemoveSignal ==
  /\ wait = "asleep"
  /\ EndWait(TRUE)
  /\ UNCHANGED <<inited, reference, config_opened, config, reflock, configlock, pc, writer,
                 is_config, off, local, opens, torn>>

(* device_destroy, cdev_del, and the free of the device after the return. *)
RemoveTeardown ==
  /\ \/ dev = "drained" /\ dev' = "destroyed"
     \/ dev = "destroyed" /\ dev' = "deleted"
     \/ dev = "deleted" /\ dev' = "freed"
  /\ UNCHANGED <<inited, reference, config_opened, config, reflock, configlock, waiting,
                 ctlVars, pc, writer, is_config, off, local, opens, histVars>>

-----------------------------------------------------------------------------

FileStep(f) ==
  \/ OpenRead(f) \/ OpenTestConfig(f) \/ OpenBusy(f) \/ OpenTakeConfig(f)
  \/ RefLock(f) \/ addref(f) \/ relref(f)
  \/ ReleaseStart(f) \/ ReleaseConfig(f) \/ ReleaseWake(f)

Remove == RemoveTest \/ RemoveQueue \/ RemoveWoken \/ RemoveTeardown

Next ==
  \/ ProbeCreate \/ mydevice_init \/ RemoveStart \/ RemoveSignal \/ Remove
  \/ \E f \in Files : \/ \E w \in BOOLEAN : OpenStart(f, w)
                      \/ Contend(f) \/ FileStep(f)
                      \/ mydevread(f) \/ \E v \in Configs : mydevwrite(f, v)

Spec == Init /\ [][Next]_vars

(* The scheduler runs every thread, and every process closes its file. *)
Fairness ==
  /\ WF_vars(Remove)
  /\ \A f \in Files : WF_vars(FileStep(f))

FairSpec == Spec /\ Fairness

-----------------------------------------------------------------------------
(* Properties. *)

(* At most one file configures the device (mydevopen l.82-97), and         *)
(* config_opened is set exactly while it exists: a failed open or a        *)
(* release neither loses nor keeps the right to configure.  Only an        *)
(* initialisation of the mutexes in mid-use breaks it.                     *)
ConfigExclusive ==
  ~torn => /\ \A f, g \in Files : is_config[f] /\ is_config[g] => f = g
           /\ config_opened = (\E f \in Files : is_config[f])

(* mydev->reference is the number of files between addref and relref: the  *)
(* count mydevremove waits for neither leaks nor goes short.               *)
ReferenceCounts ==
  ~torn => reference = Cardinality({f \in Files : pc[f] \in Counted})

(* The device outlives the files it waited for.  When the memory is freed, *)
(* the only files not closed are those whose open was not counted when the *)
(* wait ended and those in the tail of mydevrelease, after relref: these   *)
(* two windows (l.73-99 and l.113-115) the count does not cover.  A signal *)
(* to the waiting remove, whose result l.237 ignores, opens a third.       *)
DevOutlivesFiles ==
  dev = "freed" /\ ~forced /\ ~torn =>
    \A f \in Files : pc[f] = "closed" \/ pc[f] \in Leaving \/ f \in late

(* A device whose files are all closed sooner or later can be removed.     *)
RemoveFinishes == dev = "draining" /\ ~torn ~> dev = "freed"

=============================================================================
