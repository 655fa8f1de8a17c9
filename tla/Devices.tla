------------------------------ MODULE Devices -------------------------------
(***************************************************************************)
(* The smaller devices side by side.  They do not interact: a behaviour    *)
(* picks one of them and runs it.  Variables of the same name belong to    *)
(* the device that was picked; the others keep the value 0.                *)
(***************************************************************************)
EXTENDS Integers

CONSTANTS
  MaxEvents,                                 \* MySensor and MyAlarm
  RB_SIZE, VALUES, Readers, MaxReads,        \* MySensor
  Apps,                                      \* MyAlarm
  Sensors, DEVCOUNT, MaxProbes,              \* SensorMinors
  Tools, Args, MaxU32,                       \* SensorStat
  MaxCalls,                                  \* SensorStat and ProcBuffer
  Files,                                     \* SensorText and UsbPanicb
  MaxText, MaxTextReads, Offsets, NUL,       \* SensorText
  Bytes, NoByte, MaxReports, MaxOpens,       \* UsbPanicb
  NUM_MBUFS, RX_RING_SIZE, TX_RING_SIZE, BURST_SIZE, MaxPorts,   \* DpdkForward
  CPUs,                                      \* BellLock
  Users, PROCFS_MAX_SIZE,                    \* ProcBuffer
  Writers                                    \* KprobeToggle

(* The ring and the range of its values are not empty. *)
ASSUME SensorAssumption ==
  MaxEvents \in Nat \ {0} /\ RB_SIZE \in Nat \ {0} /\ VALUES \in Nat \ {0} /\ MaxReads \in Nat

ASSUME MinorsAssumption == DEVCOUNT \in Nat /\ MaxProbes \in Nat

ASSUME StatAssumption == Args \subseteq Int /\ MaxU32 \in Nat \ {0} /\ MaxCalls \in Nat

(* NUL is no device and no unknown byte. *)
ASSUME TextAssumption ==
  /\ MaxText \in Nat \ {0} /\ MaxTextReads \in Nat /\ Offsets \subseteq Nat
  /\ NUL \notin Files \cup {"unknown"}

ASSUME DpdkAssumption ==
  /\ NUM_MBUFS \in Nat /\ RX_RING_SIZE \in Nat /\ TX_RING_SIZE \in Nat
  /\ BURST_SIZE \in Nat /\ MaxPorts \in Nat

ASSUME ProcAssumption == PROCFS_MAX_SIZE \in Nat

(* The process that holds the lock is somebody. *)
ASSUME KprobeAssumption == "nobody" \notin Writers

VARIABLES
  which, pc,
  bell, desc, tpc, asleep, result, reads, calls, off,           \* shared by name
  data, rb, mode, dropped, rival,                               \* MySensor
  alarm, pending, reported, missed, overlap,                    \* MyAlarm
  avaliable_minor, devcount, cdevs, nodes, minor, local, back, probes, raced,
  stat, excused,                                                \* SensorStat
  message, pread, outside, at, left, len, seen, overlapped,     \* SensorText
  disc, urb, status, report, reject, button, intfdata, reports, opens, last, stopped,
  nb_ports, portid, pool, hand, txq, rx, starved,               \* DpdkForward
  task, top, holder,                                            \* BellLock
  procfs_buffer_size, asked, copied, crossed,                   \* ProcBuffer
  ipc, probe_enabled, kp_registered, probe, lock, spc, new_val, doubt   \* KprobeToggle

irqOwn == <<bell, desc, tpc>>
sensorOwn == <<data, rb, mode, dropped, rival>>
alarmOwn == <<alarm, pending, reported, missed, overlap>>
minorsOwn == <<avaliable_minor, devcount, cdevs, nodes, minor, local, back, probes, raced>>
statOwn == <<stat, excused>>
textOwn == <<message, pread, outside, at, left, len, seen, overlapped>>
usbOwn == <<disc, urb, status, report, reject, button, intfdata, reports, opens, last, stopped>>
dpdkOwn == <<nb_ports, portid, pool, hand, txq, rx, starved>>
lockOwn == <<task, top, holder>>
procOwn == <<procfs_buffer_size, asked, copied, crossed>>
probeOwn == <<ipc, probe_enabled, kp_registered, probe, lock, spc, new_val, doubt>>

vars == <<which, pc, irqOwn, asleep, result, reads, calls, off, sensorOwn, alarmOwn, minorsOwn,
          statOwn, textOwn, usbOwn, dpdkOwn, lockOwn, procOwn, probeOwn>>

Sensor == INSTANCE MySensor WITH MaxU32 <- MaxEvents

Alarm == INSTANCE MyAlarm WITH MaxU32 <- MaxEvents

Minors == INSTANCE SensorMinors

Stat == INSTANCE SensorStat

Text == INSTANCE SensorText WITH MaxReads <- MaxTextReads

Usb == INSTANCE UsbPanicb

Dpdk == INSTANCE DpdkForward

Lock == INSTANCE BellLock

Proc == INSTANCE ProcBuffer

Kprobe == INSTANCE KprobeToggle

-----------------------------------------------------------------------------

IrqOff == bell = 0 /\ desc = 0 /\ tpc = 0
SensorOff == data = 0 /\ rb = 0 /\ mode = 0 /\ dropped = 0 /\ rival = 0
AlarmOff == alarm = 0 /\ pending = 0 /\ reported = 0 /\ missed = 0 /\ overlap = 0
MinorsOff ==
  /\ avaliable_minor = 0 /\ devcount = 0 /\ cdevs = 0 /\ nodes = 0 /\ minor = 0
  /\ local = 0 /\ back = 0 /\ probes = 0 /\ raced = 0
StatOff == stat = 0 /\ excused = 0
TextOff ==
  /\ message = 0 /\ pread = 0 /\ outside = 0 /\ at = 0 /\ left = 0 /\ len = 0 /\ seen = 0
  /\ overlapped = 0
UsbOff ==
  /\ disc = 0 /\ urb = 0 /\ status = 0 /\ report = 0 /\ reject = 0 /\ button = 0
  /\ intfdata = 0 /\ reports = 0 /\ opens = 0 /\ last = 0 /\ stopped = 0
DpdkOff ==
  /\ nb_ports = 0 /\ portid = 0 /\ pool = 0 /\ hand = 0 /\ txq = 0 /\ rx = 0 /\ starved = 0

LockOff == task = 0 /\ top = 0 /\ holder = 0
ProcOff == procfs_buffer_size = 0 /\ asked = 0 /\ copied = 0 /\ crossed = 0
ProbeOff ==
  /\ ipc = 0 /\ probe_enabled = 0 /\ kp_registered = 0 /\ probe = 0 /\ lock = 0
  /\ spc = 0 /\ new_val = 0 /\ doubt = 0

Init ==
  \/ /\ which = "sensor" /\ Sensor!Init
     /\ AlarmOff /\ MinorsOff /\ StatOff /\ TextOff /\ UsbOff /\ DpdkOff /\ LockOff
     /\ ProcOff /\ ProbeOff /\ calls = 0 /\ off = 0
  \/ /\ which = "alarm" /\ Alarm!Init
     /\ SensorOff /\ MinorsOff /\ StatOff /\ TextOff /\ UsbOff /\ DpdkOff /\ LockOff
     /\ ProcOff /\ ProbeOff /\ result = 0 /\ reads = 0 /\ calls = 0 /\ off = 0
  \/ /\ which = "minors" /\ Minors!Init
     /\ IrqOff /\ SensorOff /\ AlarmOff /\ StatOff /\ TextOff /\ UsbOff /\ DpdkOff
     /\ LockOff /\ ProcOff /\ ProbeOff /\ asleep = 0 /\ result = 0 /\ reads = 0 /\ calls = 0 /\ off = 0
  \/ /\ which = "stat" /\ Stat!Init
     /\ IrqOff /\ SensorOff /\ AlarmOff /\ MinorsOff /\ TextOff /\ UsbOff /\ DpdkOff
     /\ LockOff /\ ProcOff /\ ProbeOff /\ result = 0 /\ reads = 0 /\ off = 0
  \/ /\ which = "text" /\ Text!Init
     /\ IrqOff /\ SensorOff /\ AlarmOff /\ MinorsOff /\ StatOff /\ UsbOff /\ DpdkOff
     /\ LockOff /\ ProcOff /\ ProbeOff /\ asleep = 0 /\ result = 0 /\ calls = 0
  \/ /\ which = "usb" /\ Usb!Init
     /\ IrqOff /\ SensorOff /\ AlarmOff /\ MinorsOff /\ StatOff /\ TextOff /\ DpdkOff
     /\ LockOff /\ ProcOff /\ ProbeOff /\ asleep = 0 /\ reads = 0 /\ calls = 0 /\ off = 0
  \/ /\ which = "dpdk" /\ Dpdk!Init
     /\ IrqOff /\ SensorOff /\ AlarmOff /\ MinorsOff /\ StatOff /\ TextOff /\ UsbOff
     /\ LockOff /\ ProcOff /\ ProbeOff /\ asleep = 0 /\ result = 0 /\ reads = 0 /\ calls = 0 /\ off = 0
  \/ /\ which = "lock" /\ Lock!Init
     /\ IrqOff /\ SensorOff /\ AlarmOff /\ MinorsOff /\ StatOff /\ TextOff /\ UsbOff
     /\ DpdkOff /\ ProcOff /\ ProbeOff /\ asleep = 0 /\ result = 0 /\ reads = 0 /\ calls = 0 /\ off = 0
     /\ pc = 0
  \/ /\ which = "proc" /\ Proc!Init
     /\ IrqOff /\ SensorOff /\ AlarmOff /\ MinorsOff /\ StatOff /\ TextOff /\ UsbOff
     /\ DpdkOff /\ LockOff /\ ProbeOff /\ asleep = 0 /\ reads = 0
  \/ /\ which = "kprobe" /\ Kprobe!Init
     /\ IrqOff /\ SensorOff /\ AlarmOff /\ MinorsOff /\ StatOff /\ TextOff /\ UsbOff
     /\ DpdkOff /\ LockOff /\ ProcOff /\ asleep = 0 /\ result = 0 /\ reads = 0 /\ calls = 0
     /\ off = 0 /\ pc = 0

SensorRest ==
  UNCHANGED <<which, calls, off, alarmOwn, minorsOwn, statOwn, textOwn, usbOwn, dpdkOwn,
               lockOwn, procOwn, probeOwn>>

SensorNext == which = "sensor" /\ Sensor!Next /\ SensorRest

AlarmRest ==
  UNCHANGED <<which, result, reads, calls, off, sensorOwn, minorsOwn, statOwn, textOwn,
               usbOwn, dpdkOwn, lockOwn, procOwn, probeOwn>>

AlarmNext == which = "alarm" /\ Alarm!Next /\ AlarmRest

MinorsRest ==
  UNCHANGED <<which, irqOwn, asleep, result, reads, calls, off, sensorOwn, alarmOwn,
               statOwn, textOwn, usbOwn, dpdkOwn, lockOwn, procOwn, probeOwn>>

MinorsNext == which = "minors" /\ Minors!Next /\ MinorsRest

StatRest ==
  UNCHANGED <<which, irqOwn, result, reads, off, sensorOwn, alarmOwn, minorsOwn,
               textOwn, usbOwn, dpdkOwn, lockOwn, procOwn, probeOwn>>

StatNext == which = "stat" /\ Stat!Next /\ StatRest

TextRest ==
  UNCHANGED <<which, irqOwn, asleep, result, calls, sensorOwn, alarmOwn, minorsOwn,
               statOwn, usbOwn, dpdkOwn, lockOwn, procOwn, probeOwn>>

TextNext == which = "text" /\ Text!Next /\ TextRest

UsbRest ==
  UNCHANGED <<which, irqOwn, asleep, reads, calls, off, sensorOwn, alarmOwn, minorsOwn,
               statOwn, textOwn, dpdkOwn, lockOwn, procOwn, probeOwn>>

UsbNext == which = "usb" /\ Usb!Next /\ UsbRest

DpdkRest ==
  UNCHANGED <<which, irqOwn, asleep, result, reads, calls, off, sensorOwn, alarmOwn,
               minorsOwn, statOwn, textOwn, usbOwn, lockOwn, procOwn, probeOwn>>

DpdkNext == which = "dpdk" /\ Dpdk!Next /\ DpdkRest

LockRest ==
  UNCHANGED <<which, pc, irqOwn, asleep, result, reads, calls, off, sensorOwn, alarmOwn,
               minorsOwn, statOwn, textOwn, usbOwn, dpdkOwn, procOwn, probeOwn>>

LockNext == which = "lock" /\ Lock!Next /\ LockRest

ProcRest ==
  UNCHANGED <<which, irqOwn, asleep, reads, sensorOwn, alarmOwn, minorsOwn,
               statOwn, textOwn, usbOwn, dpdkOwn, lockOwn, probeOwn>>

ProcNext == which = "proc" /\ Proc!Next /\ ProcRest

KprobeRest ==
  UNCHANGED <<which, pc, irqOwn, asleep, result, reads, calls, off, sensorOwn, alarmOwn,
               minorsOwn, statOwn, textOwn, usbOwn, dpdkOwn, lockOwn, procOwn>>

KprobeNext == which = "kprobe" /\ Kprobe!Next /\ KprobeRest

Next ==
  \/ SensorNext \/ AlarmNext \/ MinorsNext \/ StatNext \/ TextNext \/ UsbNext \/ DpdkNext
  \/ LockNext \/ ProcNext \/ KprobeNext

(* The alarm's handlers run, a process goes on with its loop unless it is  *)
(* asleep, and a CPU goes on with what it runs; a spinning CPU that meets  *)
(* the lock free again and again takes it once.  No event has to come.     *)
Fairness ==
  /\ WF_vars(which = "alarm" /\ Alarm!Handlers /\ AlarmRest)
  /\ \A p \in Apps : WF_vars(which = "alarm" /\ Alarm!AppStep(p) /\ AlarmRest)
  /\ \A c \in CPUs :
       /\ WF_vars(which = "lock" /\ Lock!Run(c) /\ LockRest)
       /\ SF_vars(which = "lock" /\ Lock!TopLocks(c) /\ LockRest)

Spec == Init /\ [][Next]_vars /\ Fairness

-----------------------------------------------------------------------------

SensorQueue == INSTANCE LossyQueue
  WITH Capacity <- RB_SIZE, Values <- 0 .. VALUES - 1,
       q <- IF which = "sensor" THEN Sensor!Contents ELSE <<>>

(* mysensor's ring is a bounded FIFO queue that loses its oldest value,    *)
(* also after head and tail have wrapped around and with readers between.  *)
SensorIsLossyQueue == SensorQueue!Spec

(* No event of the device is dropped on the way: mysensor pushes one value *)
(* per event, and myalarm clears an event unread only if it was raised     *)
(* while a process stood between its read and its clearing write.          *)
EventsKept ==
  /\ which = "sensor" => Sensor!OnePerEvent
  /\ which = "alarm" => Alarm!MissedOnlyInWindow

(* mysensor_read fails on a ring it saw with data only because of a rival. *)
FailedReadNeedsRival == which = "sensor" => Sensor!FailedReadNeedsRival

(* In mysensor and in the sensor project, whoever sleeps although what he  *)
(* waits for has happened is about to be woken.                            *)
SleepersWoken ==
  /\ which = "sensor" => Sensor!NoLostWakeup
  /\ which = "stat" => Stat!NoLostWakeup

(* An alarm of myalarm is cleared again while a process still runs, and    *)
(* myfakebell's handler gets its spinlock unless it has interrupted the    *)
(* task that holds it.                                                     *)
WaitsEnd ==
  /\ Alarm!AlarmCleared
  /\ \A c \in CPUs :
       (which = "lock" /\ top[c] = "spin")
          ~> (which = "lock" /\ (top[c] # "spin" \/ Lock!Stuck(c)))

(* Bound devices of mysensordrv have different minors, and the books are   *)
(* right unless the unlocked functions overlapped.                         *)
MinorsKept ==
  which = "minors" => Minors!MinorsDistinct /\ Minors!MinorsAccounted

(* State that no lock, or not always a lock, guards.  Heat without alarm   *)
(* has an explanation in the sensor project; a read of it stays with its   *)
(* own device unless calls overlap, and inside the shared text buffer      *)
(* unless its caller's offset is outside; a call of the proc file stays    *)
(* inside its caller's memory, unless calls overlap; the kprobe is what    *)
(* its parameter says, unless a failure was ignored or init was late.      *)
UnlockedStateSound ==
  /\ which = "stat" => Stat!HotMeansAlarm
  /\ which = "text" => Text!TextStaysOwn
  /\ which = "proc" => Proc!CopyFits
  /\ which = "kprobe" => Kprobe!FlagMatchesProbe

(* The panic button is polled until the disconnect and not after it.       *)
ButtonWatched == which = "usb" => Usb!ButtonWatched

(* The forwarder never has a packet buffer in two places or in none. *)
BuffersAddUp == which = "dpdk" => Dpdk!BuffersAddUp

(* The forwarder's pool does not run dry. *)
NeverStarves == which = "dpdk" => Dpdk!NeverStarves

=============================================================================
