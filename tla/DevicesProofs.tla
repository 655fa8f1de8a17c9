--------------------------- MODULE DevicesProofs ----------------------------
(***************************************************************************)
(* The devices of module Devices, proved for every value of its constants. *)
(* Each section takes one device: an inductive invariant, that the         *)
(* device's Init establishes it and that its steps keep it.  A step of     *)
(* Devices is a step of the device that was picked, so the invariant of    *)
(* each device holds while it is the one that runs.                        *)
(***************************************************************************)
EXTENDS Devices, FiniteSetTheorems, SequenceTheorems, TLAPS

-----------------------------------------------------------------------------
(* DpdkForward: the buffers add up, at every step of the program. *)

DpdkType ==
  /\ pc \in {"setup", "exit", "send", "build", "transmit", "receive", "free"}
  /\ nb_ports \in Nat /\ portid \in Nat /\ portid <= nb_ports
  /\ pool \in Nat /\ hand \in Nat /\ txq \in Nat /\ rx \in Nat

(* What n ports have posted to their receive queues. *)
Posted(n) == n * RX_RING_SIZE

(* Every buffer is in one place: in the pool, in the program's hands, in   *)
(* the transmit queue or posted by a port that has been set up.            *)
MbufsAddUp == pool + hand + txq + Posted(portid) = NUM_MBUFS

DpdkInv ==
  /\ DpdkType /\ MbufsAddUp
  /\ txq <= TX_RING_SIZE
  /\ pc \in {"build", "transmit"} => hand = 1
  /\ pc = "free" => hand > 0
  /\ pc \in {"setup", "exit", "send", "receive"} => hand = 0
  /\ Dpdk!NeverStarves

(* The arithmetic of the receive queues. *)
LEMMA PostedGrows ==
  ASSUME NEW n \in Nat
  PROVE  Posted(n) \in Nat /\ Posted(n + 1) = Posted(n) + RX_RING_SIZE
BY DpdkAssumption DEF Posted

(* More ports post at least as many receive buffers. *)
LEMMA PostedMonotone ==
  ASSUME NEW n \in Nat, NEW m \in Nat, n <= m PROVE Posted(n) <= Posted(m)
<1> DEFINE k == m - n
<1>1. k \in Nat /\ m = n + k
  OBVIOUS
<1>2. k * RX_RING_SIZE \in Nat
  BY <1>1, DpdkAssumption
<1>3. Posted(m) = Posted(n) + k * RX_RING_SIZE
  BY <1>1, DpdkAssumption DEF Posted
<1> QED BY <1>2, <1>3, PostedGrows

(* rte_pktmbuf_pool_create: every buffer is in the pool. *)
LEMMA DpdkInit == ASSUME Dpdk!Init PROVE DpdkInv
<1>1. Posted(0) = 0
  BY DpdkAssumption DEF Posted
<1>2. Dpdk!NeverStarves
  BY DEF Dpdk!Init, Dpdk!NeverStarves
<1>3. DpdkType
  BY DpdkAssumption DEF Dpdk!Init, DpdkType
<1>4. MbufsAddUp
  BY <1>1, DpdkAssumption DEF Dpdk!Init, MbufsAddUp
<1> QED
  BY <1>2, <1>3, <1>4, DpdkAssumption DEF Dpdk!Init, DpdkInv

(* Each send, receive and error path moves a buffer and loses none. *)
LEMMA DpdkStep == ASSUME DpdkInv, Dpdk!Next PROVE DpdkInv'
<1>0. Posted(portid) \in Nat /\ Posted(portid) <= Posted(nb_ports)
      /\ Posted(nb_ports) \in Nat /\ Posted(portid + 1) = Posted(portid) + RX_RING_SIZE
  BY PostedGrows, PostedMonotone DEF DpdkInv, DpdkType
<1>00. Dpdk!NeverStarves <=> (NUM_MBUFS > Posted(nb_ports) + TX_RING_SIZE => ~starved)
  BY DEF Dpdk!NeverStarves, Posted
<1>000. UNCHANGED nb_ports =>
           (Dpdk!NeverStarves' <=> (NUM_MBUFS > Posted(nb_ports) + TX_RING_SIZE => ~starved'))
  BY DEF Dpdk!NeverStarves, Posted
<1> USE DpdkAssumption, <1>0, <1>00, <1>000 DEF DpdkInv, DpdkType, MbufsAddUp, Dpdk!nic
<1>1. CASE Dpdk!TooFewPorts BY <1>1 DEF Dpdk!TooFewPorts
<1>2. CASE Dpdk!SetupPort BY <1>2 DEF Dpdk!SetupPort
<1>3. CASE Dpdk!SetupDone BY <1>3 DEF Dpdk!SetupDone
<1>4. CASE Dpdk!SendAlloc
  <2>1. pool = 0 => NUM_MBUFS <= Posted(nb_ports) + TX_RING_SIZE
    BY <1>4 DEF Dpdk!SendAlloc
  <2> QED BY <1>4, <2>1 DEF Dpdk!SendAlloc
<1>5. CASE Dpdk!SendBuild BY <1>5 DEF Dpdk!SendBuild
<1>6. CASE Dpdk!SendTransmit BY <1>6 DEF Dpdk!SendTransmit
<1>7. ASSUME NEW n \in 0 .. BURST_SIZE, Dpdk!ReceiveBurst(n) PROVE DpdkInv'
  BY <1>7 DEF Dpdk!ReceiveBurst
<1>8. CASE Dpdk!ReceiveFree BY <1>8 DEF Dpdk!ReceiveFree
<1>9. CASE Dpdk!Sent BY <1>9 DEF Dpdk!Sent
<1>10. CASE Dpdk!Arrive BY <1>10 DEF Dpdk!Arrive
<1> HIDE DEF DpdkInv
<1> QED
  BY <1>1, <1>2, <1>3, <1>4, <1>5, <1>6, <1>7, <1>8, <1>9, <1>10 DEF Dpdk!Next

-----------------------------------------------------------------------------
(* UsbPanicb: usb_kill_urb leaves no handler behind. *)

(* While a report is in its handler the driver is about to store it; the   *)
(* rejection lasts as long as usb_kill_urb does.                           *)
UsbInv ==
  /\ urb = "handler" =>
       last = IF status = "ok" /\ report # NoByte THEN report ELSE button
  /\ disc = "killing" => reject
  /\ disc \in {"bound", "cleared", "deregistered", "killing", "killed", "freed"}
  /\ Usb!ButtonWatched

(* After probe's first usb_submit_urb the urb is with the controller. *)
LEMMA UsbInit == ASSUME Usb!Init PROVE UsbInv
BY DEF Usb!Init, UsbInv, Usb!ButtonWatched

(* Completion, resubmission and disconnect keep UsbInv. *)
LEMMA UsbStep == ASSUME UsbInv, Usb!Next PROVE UsbInv'
<1> USE DEF UsbInv, Usb!ButtonWatched, Usb!urbVars
<1>1. ASSUME NEW s, NEW r, Usb!Complete(s, r) PROVE UsbInv'
  BY <1>1 DEF Usb!Complete
<1>2. CASE Usb!CallbackStore BY <1>2 DEF Usb!CallbackStore
<1>3. CASE Usb!CallbackSubmit BY <1>3 DEF Usb!CallbackSubmit
<1>4. ASSUME NEW f \in Files, Usb!panicb_open(f) \/ Usb!panicb_ioctl(f) \/ Usb!panicb_release(f)
      PROVE  UsbInv'
  BY <1>4 DEF Usb!panicb_open, Usb!panicb_ioctl, Usb!panicb_release
<1>5. CASE Usb!DisconnectClear \/ Usb!DisconnectDeregister \/ Usb!DisconnectFree
  BY <1>5 DEF Usb!DisconnectClear, Usb!DisconnectDeregister, Usb!DisconnectFree
<1>6. CASE Usb!KillStart BY <1>6 DEF Usb!KillStart
<1>7. CASE Usb!KillUnlink BY <1>7 DEF Usb!KillUnlink
<1>8. CASE Usb!KillDone BY <1>8 DEF Usb!KillDone
<1> HIDE DEF UsbInv
<1> QED BY <1>1, <1>2, <1>3, <1>4, <1>5, <1>6, <1>7, <1>8 DEF Usb!Next

-----------------------------------------------------------------------------
(* KprobeToggle: the holder of kp_lock is the only one between the probe   *)
(* and its flag.                                                           *)

KprobeInv ==
  /\ (lock = "nobody") <=> (spc = "idle")
  /\ spc \in {"idle", "probe", "flag"}
  /\ probe_enabled \in BOOLEAN /\ new_val \in BOOLEAN
  /\ ipc \in {"register", "registered", "test", "disable", "live", "failed", "gone"}
  /\ kp_registered => ipc \in {"test", "disable", "live"}
  /\ ipc \in {"register", "registered", "failed", "gone"} => lock = "nobody"
  /\ ipc \in {"register", "registered"} => probe_enabled
  /\ ipc = "registered" => probe = "armed"
  /\ ipc \in {"test", "disable", "live"} /\ ~doubt =>
       (probe = "armed" <=> IF spc = "flag" THEN new_val ELSE probe_enabled)

(* Before init nothing is registered. *)
LEMMA KprobeInit == ASSUME Kprobe!Init PROVE KprobeInv
BY DEF Kprobe!Init, Kprobe!NoWriter, KprobeInv

(* The phase invariant gives the agreement of parameter and probe. *)
LEMMA KprobeSound == ASSUME KprobeInv PROVE Kprobe!FlagMatchesProbe
BY DEF KprobeInv, Kprobe!FlagMatchesProbe, Kprobe!NoWriter

(* init, the parameter's setter and exit keep KprobeInv. *)
LEMMA KprobeStep == ASSUME KprobeInv, Kprobe!Next PROVE KprobeInv'
<1> USE KprobeAssumption DEF KprobeInv, Kprobe!NoWriter
<1>1. CASE Kprobe!Register BY <1>1 DEF Kprobe!Register
<1>2. CASE Kprobe!Registered BY <1>2 DEF Kprobe!Registered
<1>3. CASE Kprobe!TestEnabled BY <1>3 DEF Kprobe!TestEnabled
<1>4. CASE Kprobe!InitDisable BY <1>4 DEF Kprobe!InitDisable
<1>5. CASE Kprobe!Unregister BY <1>5 DEF Kprobe!Unregister
<1>6. ASSUME NEW w \in Writers, Kprobe!SetProbe(w) PROVE KprobeInv'
  BY <1>6 DEF Kprobe!SetProbe, Kprobe!Bring
<1>7. ASSUME NEW w \in Writers, Kprobe!SetFlag(w) PROVE KprobeInv'
  BY <1>7 DEF Kprobe!SetFlag
<1>8. ASSUME NEW w \in Writers, NEW v \in BOOLEAN, Kprobe!SetLock(w, v) PROVE KprobeInv'
  BY <1>8 DEF Kprobe!SetLock
<1> HIDE DEF KprobeInv
<1> QED BY <1>1, <1>2, <1>3, <1>4, <1>5, <1>6, <1>7, <1>8 DEF Kprobe!Next

-----------------------------------------------------------------------------
(* ProcBuffer: the size a call stored is still there when it copies. *)

ProcInv ==
  /\ procfs_buffer_size \in 0 .. PROCFS_MAX_SIZE
  /\ pc \in [Users -> {"idle", "copy", "return"}]
  /\ asked \in [Users -> Nat] /\ copied \in [Users -> Nat] /\ result \in [Users -> Nat]
  /\ crossed \in [Users -> BOOLEAN]
  /\ \A p \in Users :
       \/ crossed[p]
       \/ /\ pc[p] # "idle" => procfs_buffer_size <= asked[p] /\ result[p] = 0
          /\ pc[p] = "return" => copied[p] = procfs_buffer_size
          /\ copied[p] <= asked[p] /\ result[p] \in {0, copied[p]}

(* No call of procfs is in progress. *)
LEMMA ProcInit == ASSUME Proc!Init PROVE ProcInv
BY ProcAssumption DEF Proc!Init, ProcInv

(* Each load and store of procfile_read and procfile_write keeps ProcInv. *)
LEMMA ProcStep == ASSUME ProcInv, Proc!Next PROVE ProcInv'
<1> USE ProcAssumption DEF ProcInv
<1>1. ASSUME NEW p \in Users, Proc!ReadEnd(p) PROVE ProcInv'
  BY <1>1 DEF Proc!ReadEnd, Proc!Begin
<1>2. ASSUME NEW p \in Users, NEW n \in Nat, NEW size \in 0 .. PROCFS_MAX_SIZE, size <= n,
             Proc!Begin(p, n), Proc!Resize(p, size)
      PROVE  ProcInv'
  <2>1. \A u \in Users : crossed'[u] <=> u # p /\ (crossed[u] \/ pc[u] # "idle")
    BY <1>2 DEF Proc!Resize
  <2>2. crossed' \in [Users -> BOOLEAN]
    BY <1>2 DEF Proc!Resize
  <2>3. /\ asked' = [asked EXCEPT ![p] = n] /\ copied' = [copied EXCEPT ![p] = 0]
        /\ result' = [result EXCEPT ![p] = 0] /\ pc' = [pc EXCEPT ![p] = "copy"]
        /\ procfs_buffer_size' = size
    BY <1>2 DEF Proc!Begin, Proc!Resize
  <2> QED BY <1>2, <2>1, <2>2, <2>3
<1>3. ASSUME NEW p \in Users, NEW n \in 0 .. PROCFS_MAX_SIZE + 1,
             Proc!ReadSize(p, n) \/ Proc!WriteSize(p, n)
      PROVE  ProcInv'
  BY <1>2, <1>3 DEF Proc!ReadSize, Proc!WriteSize, Proc!Lesser
<1>4. ASSUME NEW p \in Users, Proc!Copy(p) PROVE ProcInv'
  BY <1>4 DEF Proc!Copy
<1>5. ASSUME NEW p \in Users, Proc!Return(p) PROVE ProcInv'
  BY <1>5 DEF Proc!Return
<1> HIDE DEF ProcInv
<1> QED BY <1>1, <1>3, <1>4, <1>5 DEF Proc!Next

-----------------------------------------------------------------------------
(* SensorStat: both properties are inductive once pc has its type. *)

StatInv ==
  /\ pc \in [Tools -> {"idle", "compare", "look", "wake", "poll", "sleep"}]
  /\ stat \in [temp : Int, threshold : Int, alarm : {0, 1}]
  /\ Stat!NoLostWakeup
  /\ Stat!HotMeansAlarm

(* init_tempstat: nobody sleeps, and it is not too hot. *)
LEMMA StatInit == ASSUME Stat!Init PROVE StatInv
BY DEF Stat!Init, Stat!init_tempstat, StatInv, Stat!NoLostWakeup, Stat!HotMeansAlarm

(* The u32 a number becomes is a number. *)
LEMMA ToU32Int == ASSUME NEW n \in Stat!New PROVE Stat!ToU32(n) \in Int
BY StatAssumption DEF Stat!ToU32, Stat!New

(* The ioctls and the poll of mysensordrv keep StatInv. *)
LEMMA StatStep == ASSUME StatInv, Stat!Next PROVE StatInv'
<1> USE DEF StatInv, Stat!NoLostWakeup, Stat!HotMeansAlarm, Stat!Goto, Stat!Begin
<1>1. ASSUME NEW t \in Tools, NEW new \in Stat!New, Stat!set_temp(t, new) PROVE StatInv'
  BY <1>1, ToU32Int DEF Stat!set_temp
<1>2. ASSUME NEW t \in Tools, NEW new \in Stat!New, Stat!set_lim(t, new) PROVE StatInv'
  BY <1>2, ToU32Int DEF Stat!set_lim
<1>3. ASSUME NEW t \in Tools, Stat!Compare(t) PROVE StatInv'
  BY <1>3 DEF Stat!Compare
<1>4. ASSUME NEW t \in Tools, Stat!Look(t) PROVE StatInv'
  BY <1>4 DEF Stat!Look
<1>5. ASSUME NEW t \in Tools, Stat!Wake(t) PROVE StatInv'
  BY <1>5 DEF Stat!Wake
<1>6. ASSUME NEW t \in Tools, Stat!ClearAlarm(t) PROVE StatInv'
  BY <1>6 DEF Stat!ClearAlarm
<1>7. ASSUME NEW t \in Tools, Stat!TriggerAlarm(t) PROVE StatInv'
  BY <1>7 DEF Stat!TriggerAlarm
<1>8. ASSUME NEW t \in Tools, Stat!WaitAlarm(t) PROVE StatInv'
  BY <1>8 DEF Stat!WaitAlarm
<1>9. ASSUME NEW t \in Tools, Stat!device_poll(t) PROVE StatInv'
  BY <1>9 DEF Stat!device_poll
<1>10. ASSUME NEW t \in Tools, Stat!PollWoken(t) \/ Stat!PollEnds(t) PROVE StatInv'
  BY <1>10 DEF Stat!PollWoken, Stat!PollEnds
<1> HIDE DEF StatInv
<1> QED
  BY <1>1, <1>2, <1>3, <1>4, <1>5, <1>6, <1>7, <1>8, <1>9, <1>10 DEF Stat!Next

-----------------------------------------------------------------------------
(* SensorText: the cell behind the longest text is never anything but NUL. *)

TextType ==
  /\ message \in [Text!Cells -> Files \cup {NUL}]
  /\ off \in [Files -> Text!Cells] /\ at \in [Files -> Nat]
  /\ pc \in [Files -> {"idle", "end", "test", "copy", "put"}]
  /\ len \in [Files -> 1 .. MaxText]
  /\ left \in [Files -> Int]
  /\ pread \in [Files -> BOOLEAN] /\ outside \in [Files -> BOOLEAN]
  /\ seen \in [Files -> SUBSET (Files \cup {NUL, "unknown"})]
  /\ overlapped \in [Files -> BOOLEAN]

(* What a file finds in the buffer while no other read has disturbed it:   *)
(* its own text, ended by NUL once sprintf is through.                     *)
OwnText(f) ==
  /\ \A i \in Text!Cells : i < len[f] => message[i] = f
  /\ pc[f] # "end" => message[len[f]] = NUL

(* A read that began in the buffer is in it, and not on its last cell when *)
(* it is about to copy.                                                    *)
StaysIn(f) ==
  /\ outside[f] => pread[f]
  /\ ~outside[f] => at[f] <= MaxText /\ (pc[f] = "put" => at[f] < MaxText)

TextInv ==
  /\ TextType
  /\ message[MaxText] = NUL
  /\ \A f \in Files :
       /\ StaysIn(f)
       /\ pc[f] \in {"idle", "end", "test"} => seen[f] = {}
       /\ pc[f] # "idle" /\ ~overlapped[f] => OwnText(f)
       /\ ~outside[f] /\ pc[f] = "put" => overlapped[f] \/ at[f] # len[f]
       /\ ~outside[f] => seen[f] \subseteq {f} \/ overlapped[f] \/ at[f] > len[f]

(* No device_read is in progress. *)
LEMMA TextInit == ASSUME Text!Init PROVE TextInv
BY TextAssumption DEF Text!Init, Text!Cells, TextInv, TextType, OwnText, StaysIn

(* What a read copied outside an overlap is its own device's text. *)
LEMMA TextSound == ASSUME TextInv PROVE Text!TextStaysOwn
BY DEF TextInv, TextType, StaysIn, Text!Cells, Text!TextStaysOwn

(* device_read returns: the read is idle again, others are as they were.   *)
LEMMA TextReturn ==
  ASSUME TextInv, NEW f \in Files, Text!Return(f), off' \in [Files -> Text!Cells],
         message' = message
  PROVE  TextInv'
<1> USE TextAssumption DEF TextInv, TextType, Text!Goto
<1>1. /\ pc' = [pc EXCEPT ![f] = "idle"] /\ pread' = [pread EXCEPT ![f] = FALSE]
      /\ outside' = [outside EXCEPT ![f] = FALSE] /\ at' = [at EXCEPT ![f] = 0]
      /\ left' = [left EXCEPT ![f] = 0] /\ len' = [len EXCEPT ![f] = 1]
      /\ seen' = [seen EXCEPT ![f] = {}] /\ overlapped' = [overlapped EXCEPT ![f] = FALSE]
  BY DEF Text!Return
<1>2. TextType'
  BY <1>1
<1>3. \A g \in Files \ {f} :
        /\ pc'[g] = pc[g] /\ pread'[g] = pread[g] /\ (outside'[g] <=> outside[g]) /\ at'[g] = at[g]
        /\ len'[g] = len[g] /\ seen'[g] = seen[g] /\ (overlapped'[g] <=> overlapped[g])
  BY <1>1
<1>4. /\ pc'[f] = "idle" /\ pread'[f] = FALSE /\ outside'[f] = FALSE /\ at'[f] = 0 /\ seen'[f] = {}
  BY <1>1
<1>5. \A g \in Files \ {f} : (OwnText(g)' <=> OwnText(g)) /\ (StaysIn(g)' <=> StaysIn(g))
  BY <1>3 DEF OwnText, StaysIn
<1>6. StaysIn(f)'
  BY <1>4 DEF StaysIn
<1> HIDE DEF TextType
<1> QED BY <1>2, <1>3, <1>4, <1>5, <1>6

(* Each load and store of device_read keeps TextInv. *)
LEMMA TextStep == ASSUME TextInv, Text!Next PROVE TextInv'
<1> USE TextAssumption DEF TextInv, TextType, OwnText, StaysIn, Text!Cells, Text!Goto
<1>1. ASSUME NEW f \in Files, NEW n \in 1 .. MaxText, NEW size \in {1, MaxText + 1},
             NEW p \in BOOLEAN, NEW o \in Offsets \cup Text!Cells, Text!Format(f, n, size, p, o)
      PROVE  TextInv'
  <2>1. \A g \in Files : overlapped'[g] <=> IF g = f THEN \E h \in Files : pc[h] = "end"
                                                     ELSE overlapped[g] \/ pc[g] # "idle"
    BY <1>1 DEF Text!Format
  <2>2. overlapped' \in [Files -> BOOLEAN]
    BY <1>1 DEF Text!Format
  <2>3. /\ message' = [i \in Text!Cells |-> IF i < n THEN f ELSE message[i]]
        /\ len' = [len EXCEPT ![f] = n] /\ left' = [left EXCEPT ![f] = size]
        /\ pc' = [pc EXCEPT ![f] = "end"] /\ pread' = [pread EXCEPT ![f] = p]
        /\ outside' = [outside EXCEPT ![f] = o \notin Text!Cells] /\ at' = [at EXCEPT ![f] = o]
        /\ pc[f] = "idle" /\ UNCHANGED <<off, seen>>
    BY <1>1 DEF Text!Format
  <2>4. o \in Nat /\ (~p => o \in Text!Cells)
    BY <1>1 DEF Text!Format
  <2>5. TextType'
    <3>1. pread' \in [Files -> BOOLEAN] /\ outside' \in [Files -> BOOLEAN]
      BY <2>3, Zenon
    <3> QED BY <2>2, <2>3, <2>4, <3>1
  <2>6. \A g \in Files \ {f} :
          /\ pc'[g] = pc[g] /\ pread'[g] = pread[g] /\ outside'[g] = outside[g]
          /\ at'[g] = at[g] /\ len'[g] = len[g] /\ seen'[g] = seen[g]
    BY <2>3
  <2>7. /\ pc'[f] = "end" /\ pread'[f] = p /\ outside'[f] = (o \notin Text!Cells)
        /\ at'[f] = o /\ len'[f] = n /\ seen'[f] = {}
    BY <2>3
  <2>8. message'[MaxText] = NUL
    BY <2>3
  <2>9. OwnText(f)'
    BY <2>3, <2>7
  <2>10. StaysIn(f)'
    BY <2>4, <2>7
  <2>11. \A g \in Files \ {f} : pc[g] # "idle" => overlapped'[g]
    BY <2>1
  <2>12. \A g \in Files \ {f} : StaysIn(g)' <=> StaysIn(g)
    BY <2>6
  <2>13. \A g \in Files \ {f} : overlapped[g] => overlapped'[g]
    BY <2>1
  <2> HIDE DEF TextType, OwnText, StaysIn, Text!Cells
  <2> QED BY <2>5, <2>6, <2>7, <2>8, <2>9, <2>10, <2>11, <2>12, <2>13
<1>2. ASSUME NEW f \in Files, Text!Terminate(f) PROVE TextInv'
  <2>1. \A g \in Files : overlapped'[g] <=> overlapped[g] \/ (g # f /\ pc[g] # "idle")
    BY <1>2 DEF Text!Terminate
  <2>2. overlapped' \in [Files -> BOOLEAN]
    BY <1>2 DEF Text!Terminate
  <2>3. /\ message' = [message EXCEPT ![len[f]] = NUL] /\ pc' = [pc EXCEPT ![f] = "test"]
        /\ pc[f] = "end" /\ UNCHANGED <<off, pread, outside, at, left, len, seen>>
    BY <1>2 DEF Text!Terminate
  <2>4. TextType'
    BY <2>2, <2>3
  <2>5. \A g \in Files \ {f} : pc'[g] = pc[g]
    BY <2>3
  <2>6. pc'[f] = "test"
    BY <2>3
  <2>7. message'[MaxText] = NUL
    BY <2>3
  <2>8. ~overlapped[f] => OwnText(f)'
    <3>1. ~overlapped[f] => OwnText(f)
      BY <2>3
    <3>2. len'[f] = len[f] /\ len[f] \in 1 .. MaxText
      BY <2>3
    <3>3. /\ message'[len[f]] = NUL
          /\ \A i \in 0 .. MaxText : i < len[f] => message'[i] = message[i]
      BY <2>3, <3>2
    <3> HIDE DEF TextInv, TextType
    <3> QED BY <3>1, <3>2, <3>3
  <2>9. \A g \in Files : StaysIn(g)'
    BY <2>3, <2>5, <2>6
  <2> HIDE DEF TextType, OwnText, StaysIn
  <2> QED BY <2>1, <2>3, <2>4, <2>5, <2>6, <2>7, <2>8, <2>9
<1>3. ASSUME NEW f \in Files, Text!Test(f) PROVE TextInv'
  <2>1. CASE Text!Return(f)
    <3>1. message' = message /\ off' \in [Files -> Text!Cells]
      <4>1. message' = message /\ (off' = off \/ off' = [off EXCEPT ![f] = 0])
        BY <1>3 DEF Text!Test
      <4>2. 0 \in Text!Cells /\ off \in [Files -> Text!Cells]
        OBVIOUS
      <4> HIDE DEF TextInv, Text!Cells
      <4> QED BY <4>1, <4>2
    <3> HIDE DEF TextInv
    <3> QED BY <2>1, <3>1, TextReturn
  <2>2. CASE ~Text!Return(f)
    <3>1. /\ pc[f] = "test" /\ pc' = [pc EXCEPT ![f] = "copy"]
          /\ UNCHANGED <<message, off, pread, outside, at, left, len, seen, overlapped>>
      BY <1>3, <2>2 DEF Text!Test
    <3>2. \A g \in Files : g # f => pc'[g] = pc[g]
      BY <3>1
    <3>3. pc'[f] = "copy"
      BY <3>1
    <3>4. TextType'
      BY <3>1
    <3>5. \A g \in Files : (pc[g] # "idle" /\ OwnText(g) => OwnText(g)') /\ StaysIn(g)'
      BY <3>1, <3>2, <3>3
    <3> HIDE DEF TextType, OwnText, StaysIn
    <3> QED BY <3>1, <3>2, <3>3, <3>4, <3>5
  <2> QED BY <2>1, <2>2
<1>4. ASSUME NEW f \in Files, Text!Copy(f) PROVE TextInv'
  <2>1. /\ pc[f] = "copy" /\ Text!Byte(at[f]) # {NUL} /\ pc' = [pc EXCEPT ![f] = "put"]
        /\ UNCHANGED <<message, off, pread, outside, at, left, len, seen, overlapped>>
    BY <1>4 DEF Text!Copy
  <2>2. ~outside[f] => message[at[f]] # NUL
    BY <2>1 DEF Text!Byte
  <2>3. \A g \in Files : g # f => pc'[g] = pc[g]
    BY <2>1
  <2>4. pc'[f] = "put"
    BY <2>1
  <2>5. TextType'
    BY <2>1
  <2>6. \A g \in Files : (pc[g] # "idle" /\ OwnText(g) => OwnText(g)')
    BY <2>1, <2>3, <2>4
  <2>7. ~outside[f] => at[f] < MaxText /\ (overlapped[f] \/ at[f] # len[f])
    <3>1. /\ ~outside[f] => at[f] <= MaxText
          /\ at[f] \in Nat /\ message[MaxText] = NUL
      OBVIOUS
    <3>2. overlapped[f] \/ message[len[f]] = NUL
      BY <2>1
    <3> HIDE DEF TextInv, TextType, OwnText, StaysIn
    <3> QED BY <2>2, <3>1, <3>2
  <2>8. \A g \in Files : StaysIn(g)'
    BY <2>1, <2>3, <2>4, <2>7
  <2> HIDE DEF TextType, OwnText, StaysIn
  <2> QED BY <2>1, <2>3, <2>4, <2>5, <2>6, <2>7, <2>8
<1>5. ASSUME NEW f \in Files, Text!Put(f) PROVE TextInv'
  <2>1. PICK b \in Text!Byte(at[f]) :
          /\ pc[f] = "put" /\ pc' = [pc EXCEPT ![f] = "copy"]
          /\ seen' = [seen EXCEPT ![f] = @ \cup {b}]
          /\ at' = [at EXCEPT ![f] = @ + 1] /\ left' = [left EXCEPT ![f] = @ - 1]
          /\ UNCHANGED <<message, off, pread, outside, len, overlapped>>
    BY <1>5 DEF Text!Put
  <2>2. b \in Files \cup {NUL, "unknown"} /\ (~outside[f] => b = message[at[f]])
    BY <2>1 DEF Text!Byte
  <2>3. TextType'
    <3>1. seen[f] \cup {b} \in SUBSET (Files \cup {NUL, "unknown"})
      BY <2>2
    <3>2. seen' \in [Files -> SUBSET (Files \cup {NUL, "unknown"})]
      BY <2>1, <3>1
    <3>3. at' \in [Files -> Nat] /\ left' \in [Files -> Int]
      BY <2>1
    <3>4. pc' \in [Files -> {"idle", "end", "test", "copy", "put"}]
      BY <2>1
    <3>5. /\ UNCHANGED <<message, off, pread, outside, len, overlapped>> /\ TextType
      BY <2>1
    <3> HIDE DEF TextInv
    <3> QED BY <3>2, <3>3, <3>4, <3>5
  <2>4. \A g \in Files : g # f => pc'[g] = pc[g] /\ at'[g] = at[g] /\ seen'[g] = seen[g]
    BY <2>1
  <2>5. /\ pc'[f] = "copy" /\ at'[f] = at[f] + 1 /\ seen'[f] = seen[f] \cup {b}
        /\ len[f] \in Int /\ at[f] \in Int
    BY <2>1
  <2>6. \A g \in Files : pc[g] # "idle" /\ OwnText(g) => OwnText(g)'
    BY <2>1, <2>4, <2>5
  <2>7. \A g \in Files : StaysIn(g)'
    BY <2>1, <2>4, <2>5
  <2>8. ~outside[f] /\ ~overlapped[f] /\ at[f] <= len[f] => b = f
    <3>1. ~overlapped[f] => OwnText(f)
      BY <2>1
    <3>2. ~outside[f] => at[f] <= MaxText /\ (overlapped[f] \/ at[f] # len[f])
      BY <2>1
    <3>3. at[f] \in Nat /\ len[f] \in Nat
      OBVIOUS
    <3> HIDE DEF TextInv, TextType, StaysIn
    <3> QED BY <2>2, <3>1, <3>2, <3>3
  <2>9. ~outside[f] => seen'[f] \subseteq {f} \/ overlapped[f] \/ at'[f] > len[f]
    <3>1. ~outside[f] => seen[f] \subseteq {f} \/ overlapped[f] \/ at[f] > len[f]
      OBVIOUS
    <3> HIDE DEF TextInv, TextType, OwnText, StaysIn
    <3> QED BY <2>5, <2>8, <3>1
  <2> HIDE DEF TextType, OwnText, StaysIn
  <2> QED BY <2>1, <2>3, <2>4, <2>5, <2>6, <2>7, <2>9
<1>6. ASSUME NEW f \in Files, Text!Done(f) PROVE TextInv'
  <2>1. /\ Text!Return(f) /\ message' = message /\ pc[f] = "copy"
        /\ off' = IF pread[f] THEN off ELSE [off EXCEPT ![f] = at[f]]
    BY <1>6 DEF Text!Done
  <2>2. ~pread[f] => at[f] \in Text!Cells
    OBVIOUS
  <2>3. off' \in [Files -> Text!Cells]
    <3>1. off \in [Files -> Text!Cells]
      OBVIOUS
    <3> HIDE DEF TextInv, Text!Cells
    <3> QED BY <2>1, <2>2, <3>1
  <2> HIDE DEF TextInv
  <2> QED BY <2>1, <2>3, TextReturn
<1> HIDE DEF TextInv
<1> QED BY <1>1, <1>2, <1>3, <1>4, <1>5, <1>6 DEF Text!Next

-----------------------------------------------------------------------------
(* SensorMinors: the node guards the minor, whatever the unlocked table    *)
(* says; and the table is right while nobody overlaps.                     *)

MinorsType ==
  /\ avaliable_minor \in [Minors!Minors -> {0, 1}]
  /\ devcount \in Int
  /\ pc \in [Sensors -> {"unbound", "scan", "claim", "cdev", "create", "bound",
                         "free", "destroy"}]
  /\ minor \in [Sensors -> Nat] /\ local \in [Sensors -> Nat]
  /\ back \in [Sensors -> {"unbound", "destroy"}]
  /\ \A s \in Sensors :
       /\ pc[s] \in {"claim", "cdev", "create", "bound", "free", "destroy"} =>
            minor[s] \in Minors!Minors
       /\ pc[s] \in {"scan", "claim", "cdev", "create"} => back[s] = "unbound"

(* The devices whose node exists. *)
HasNode(s) == pc[s] \in {"bound", "destroy"} \/ (pc[s] = "free" /\ back[s] = "destroy")

NodesInv ==
  /\ \A s \in Sensors : HasNode(s) => minor[s] \in nodes
  /\ \A n \in nodes : \E s \in Sensors : HasNode(s) /\ minor[s] = n
  /\ \A s, t \in Sensors : HasNode(s) /\ HasNode(t) /\ minor[s] = minor[t] => s = t

(* The devices whose minor the table shows as taken. *)
Taken(s) == pc[s] \in {"cdev", "create", "bound", "free"}

TableInv ==
  /\ \A s, t \in Sensors : pc[s] \in Minors!Books /\ pc[t] \in Minors!Books => s = t
  /\ \A s \in Sensors : Taken(s) => avaliable_minor[minor[s]] = 1
  /\ \A i \in Minors!Minors :
       avaliable_minor[i] = 1 => \E s \in Sensors : Taken(s) /\ minor[s] = i
  /\ \A s, t \in Sensors : Taken(s) /\ Taken(t) /\ minor[s] = minor[t] => s = t
  /\ \A s \in Sensors : pc[s] = "claim" => avaliable_minor[minor[s]] = 0

TakenMinors == {i \in Minors!Minors : avaliable_minor[i] = 1}

MinorsInv ==
  /\ MinorsType /\ NodesInv
  /\ ~raced => TableInv /\ devcount = Cardinality(TakenMinors)

(* No device is bound and no minor is taken. *)
LEMMA MinorsInit == ASSUME Minors!Init PROVE MinorsInv
<1>1. MinorsType /\ NodesInv /\ TableInv
  BY DEF Minors!Init, MinorsType, NodesInv, HasNode, TableInv, Taken, Minors!Books
<1>2. TakenMinors = {}
  BY DEF Minors!Init, TakenMinors
<1> QED BY <1>1, <1>2, FS_EmptySet DEF Minors!Init, MinorsInv

(* Probe and remove keep the types of the minor table. *)
LEMMA MinorsTypeStep == ASSUME MinorsType, Minors!Next PROVE MinorsType'
<1> USE MinorsAssumption DEF MinorsType, Minors!Minors, Minors!Goto
<1>1. ASSUME NEW s \in Sensors, Minors!Probe(s) PROVE MinorsType'
  BY <1>1 DEF Minors!Probe
<1>2. ASSUME NEW s \in Sensors, Minors!Scan(s) PROVE MinorsType'
  BY <1>2 DEF Minors!Scan
<1>3. ASSUME NEW s \in Sensors, Minors!Claim(s) PROVE MinorsType'
  BY <1>3 DEF Minors!Claim
<1>4. ASSUME NEW s \in Sensors, Minors!ProbeCdev(s) \/ Minors!ProbeCreate(s) PROVE MinorsType'
  BY <1>4 DEF Minors!ProbeCdev, Minors!ProbeCreate
<1>5. ASSUME NEW s \in Sensors, Minors!Free(s) PROVE MinorsType'
  BY <1>5 DEF Minors!Free
<1>6. ASSUME NEW s \in Sensors, Minors!RemoveCdev(s) \/ Minors!RemoveDestroy(s)
      PROVE  MinorsType'
  BY <1>6 DEF Minors!RemoveCdev, Minors!RemoveDestroy
<1> HIDE DEF MinorsType
<1> QED BY <1>1, <1>2, <1>3, <1>4, <1>5, <1>6 DEF Minors!Next

(* A node stays with the one device whose device_create made it. *)
LEMMA NodesStep == ASSUME MinorsType, NodesInv, Minors!Next PROVE NodesInv'
<1> USE DEF MinorsType, NodesInv, HasNode, Minors!Goto
<1>1. ASSUME NEW s \in Sensors, Minors!Probe(s) PROVE NodesInv'
  BY <1>1 DEF Minors!Probe
<1>2. ASSUME NEW s \in Sensors, Minors!Scan(s) PROVE NodesInv'
  BY <1>2 DEF Minors!Scan
<1>3. ASSUME NEW s \in Sensors, Minors!Claim(s) PROVE NodesInv'
  BY <1>3 DEF Minors!Claim
<1>4. ASSUME NEW s \in Sensors, Minors!ProbeCdev(s) PROVE NodesInv'
  BY <1>4 DEF Minors!ProbeCdev
<1>5. ASSUME NEW s \in Sensors, Minors!ProbeCreate(s) PROVE NodesInv'
  BY <1>5 DEF Minors!ProbeCreate
<1>6. ASSUME NEW s \in Sensors, Minors!Free(s) PROVE NodesInv'
  BY <1>6 DEF Minors!Free
<1>7. ASSUME NEW s \in Sensors, Minors!RemoveCdev(s) PROVE NodesInv'
  BY <1>7 DEF Minors!RemoveCdev
<1>8. ASSUME NEW s \in Sensors, Minors!RemoveDestroy(s) PROVE NodesInv'
  BY <1>8 DEF Minors!RemoveDestroy
<1> HIDE DEF NodesInv
<1> QED BY <1>1, <1>2, <1>3, <1>4, <1>5, <1>6, <1>7, <1>8 DEF Minors!Next

(* A step that does not overlap enters the books alone. *)
LEMMA EntersAlone ==
  ASSUME NEW s, NEW l, Minors!Goto(s, l), ~raced'
  PROVE  /\ pc' = [pc EXCEPT ![s] = l] /\ ~raced
         /\ l \in Minors!Books => \A t \in Sensors \ {s} : pc[t] \notin Minors!Books
BY DEF Minors!Goto

(* As long as no two users of the table overlapped, the table holds the    *)
(* taken minors.                                                           *)
LEMMA TableStep ==
  ASSUME MinorsType, TableInv, Minors!Next, ~raced' PROVE TableInv'
<1> DEFINE Moves(s, l) ==
      /\ pc' = [pc EXCEPT ![s] = l]
      /\ l \in Minors!Books => \A t \in Sensors \ {s} : pc[t] \notin Minors!Books
<1>0. \A s, l : Minors!Goto(s, l) => Moves(s, l)
  BY EntersAlone
<1> USE DEF MinorsType, TableInv, Taken, Minors!Books, Minors!Minors
<1>1. ASSUME NEW s \in Sensors, Minors!Probe(s) PROVE TableInv'
  <2>1. Moves(s, "scan") /\ pc[s] = "unbound" /\ UNCHANGED <<avaliable_minor, minor>>
    BY <1>0, <1>1 DEF Minors!Probe
  <2>2. \A t \in Sensors : (Taken(t)' <=> Taken(t)) /\ (pc'[t] = "claim" => pc[t] = "claim")
    BY <2>1
  <2> QED BY <2>1, <2>2
<1>2. ASSUME NEW s \in Sensors, Minors!Scan(s) PROVE TableInv'
  <2>1. CASE /\ avaliable_minor[local[s]] = 0 /\ local[s] \in Minors!Minors
             /\ minor' = [minor EXCEPT ![s] = local[s]] /\ Moves(s, "claim")
    BY <1>2, <2>1 DEF Minors!Scan
  <2>2. CASE UNCHANGED <<pc, minor>>
    BY <1>2, <2>2 DEF Minors!Scan
  <2>3. CASE Moves(s, "unbound") /\ UNCHANGED minor
    <3>1. pc[s] = "scan" /\ UNCHANGED avaliable_minor
      BY <1>2 DEF Minors!Scan
    <3>2. \A t \in Sensors : /\ Taken(t)' <=> Taken(t)
                             /\ pc'[t] \in Minors!Books => pc'[t] = pc[t]
      BY <2>3, <3>1
    <3> QED BY <2>3, <3>1, <3>2
  <2> QED BY <1>0, <1>2, <2>1, <2>2, <2>3 DEF Minors!Scan
<1>3. ASSUME NEW s \in Sensors, Minors!Claim(s) PROVE TableInv'
  <2>1. Moves(s, "cdev")
    BY <1>0, <1>3 DEF Minors!Claim
  <2> QED BY <1>3, <2>1 DEF Minors!Claim
<1>4. ASSUME NEW s \in Sensors, Minors!ProbeCdev(s) \/ Minors!ProbeCreate(s) PROVE TableInv'
  <2>1. /\ pc[s] \in {"cdev", "create"} /\ UNCHANGED <<avaliable_minor, minor>>
        /\ \E l \in {"create", "bound", "free"} : Moves(s, l)
    BY <1>0, <1>4 DEF Minors!ProbeCdev, Minors!ProbeCreate
  <2> QED BY <2>1
<1>5. ASSUME NEW s \in Sensors, Minors!Free(s) PROVE TableInv'
  <2>1. Moves(s, back[s])
    BY <1>0, <1>5 DEF Minors!Free
  <2> QED BY <1>5, <2>1 DEF Minors!Free
<1>6. ASSUME NEW s \in Sensors, Minors!RemoveCdev(s) PROVE TableInv'
  <2>1. Moves(s, "free") /\ pc[s] = "bound" /\ UNCHANGED <<avaliable_minor, minor>>
    BY <1>0, <1>6 DEF Minors!RemoveCdev
  <2> QED BY <2>1
<1>7. ASSUME NEW s \in Sensors, Minors!RemoveDestroy(s) PROVE TableInv'
  <2>1. Moves(s, "unbound") /\ pc[s] = "destroy" /\ UNCHANGED <<avaliable_minor, minor>>
    BY <1>0, <1>7 DEF Minors!RemoveDestroy
  <2> QED BY <2>1
<1> HIDE DEF TableInv
<1> QED BY <1>1, <1>2, <1>3, <1>4, <1>5, <1>6, <1>7 DEF Minors!Next

(* The taken minors can be counted. *)
LEMMA TakenFinite == ASSUME MinorsType PROVE IsFiniteSet(TakenMinors)
<1>1. IsFiniteSet(Minors!Minors)
  BY FS_Interval, MinorsAssumption DEF Minors!Minors
<1> QED BY <1>1, FS_Subset DEF TakenMinors

(* devcount: only Claim and Free change the table, one entry each. *)
LEMMA DevcountStep ==
  ASSUME MinorsType, TableInv, devcount = Cardinality(TakenMinors), Minors!Next
  PROVE  devcount' = Cardinality(TakenMinors')
<1>1. CASE UNCHANGED <<avaliable_minor, devcount>>
  BY <1>1 DEF TakenMinors
<1>2. ASSUME NEW s \in Sensors, Minors!Claim(s) PROVE devcount' = Cardinality(TakenMinors')
  <2>1. minor[s] \in Minors!Minors /\ minor[s] \notin TakenMinors
    BY <1>2 DEF Minors!Claim, MinorsType, TableInv, TakenMinors
  <2>2. TakenMinors' = TakenMinors \cup {minor[s]}
    BY <1>2, <2>1 DEF Minors!Claim, MinorsType, TakenMinors
  <2> QED BY <1>2, <2>1, <2>2, TakenFinite, FS_AddElement DEF Minors!Claim
<1>3. ASSUME NEW s \in Sensors, Minors!Free(s) PROVE devcount' = Cardinality(TakenMinors')
  <2>1. minor[s] \in TakenMinors
    BY <1>3 DEF Minors!Free, MinorsType, TableInv, Taken, TakenMinors
  <2>2. TakenMinors' = TakenMinors \ {minor[s]}
    BY <1>3, <2>1 DEF Minors!Free, MinorsType, TakenMinors
  <2> QED BY <1>3, <2>1, <2>2, TakenFinite, FS_RemoveElement DEF Minors!Free
<1> QED
  BY <1>1, <1>2, <1>3
     DEF Minors!Next, Minors!Probe, Minors!Scan, Minors!ProbeCdev, Minors!ProbeCreate,
         Minors!RemoveCdev, Minors!RemoveDestroy

(* Probe and remove keep MinorsInv. *)
LEMMA MinorsStep == ASSUME MinorsInv, Minors!Next PROVE MinorsInv'
<1>1. ~raced' => ~raced
  BY DEF Minors!Next, Minors!Probe, Minors!Scan, Minors!Claim, Minors!ProbeCdev,
         Minors!ProbeCreate, Minors!Free, Minors!RemoveCdev, Minors!RemoveDestroy, Minors!Goto
<1> QED
  BY <1>1, MinorsTypeStep, NodesStep, TableStep, DevcountStep DEF MinorsInv

(* FiniteSets as SensorMinors extends it. *)
LEMMA SameCardinality == \A S : Minors!Cardinality(S) = Cardinality(S)
BY DEF Minors!Cardinality, Cardinality, Minors!IsFiniteSet, IsFiniteSet

(* The invariant gives both properties of the minor table. *)
LEMMA MinorsSound == ASSUME MinorsInv PROVE Minors!MinorsDistinct /\ Minors!MinorsAccounted
<1>1. Minors!MinorsDistinct
  BY DEF MinorsInv, NodesInv, HasNode, Minors!MinorsDistinct
<1>2. ASSUME ~raced, \A s \in Sensors : pc[s] \notin Minors!Books, NEW i \in Minors!Minors
      PROVE  Cardinality(Minors!Holders(i)) = avaliable_minor[i]
  <2>1. \A s \in Sensors : s \in Minors!Holders(i) <=> Taken(s) /\ minor[s] = i
    BY <1>2 DEF Minors!Holders, Taken, Minors!Books
  <2>2. CASE avaliable_minor[i] = 1
    <3>1. PICK s \in Sensors : Taken(s) /\ minor[s] = i
      BY <1>2, <2>2 DEF MinorsInv, TableInv
    <3>2. Minors!Holders(i) = {s}
      BY <1>2, <2>1, <3>1 DEF MinorsInv, TableInv, Minors!Holders
    <3> QED BY <2>2, <3>2, FS_Singleton
  <2>3. CASE avaliable_minor[i] = 0
    <3>1. Minors!Holders(i) = {}
      BY <1>2, <2>1, <2>3 DEF MinorsInv, TableInv, Minors!Holders
    <3> QED BY <2>3, <3>1, FS_EmptySet
  <2> QED BY <2>2, <2>3 DEF MinorsInv, MinorsType
<1>3. ASSUME ~raced, NEW s \in Sensors, pc[s] = "create", minor[s] \in nodes
      PROVE  \E t \in Sensors : pc[t] = "destroy" /\ minor[t] = minor[s]
  BY <1>3 DEF MinorsInv, MinorsType, NodesInv, HasNode, TableInv, Taken
<1>4. ~raced => devcount = Cardinality({i \in Minors!Minors : avaliable_minor[i] = 1})
  BY DEF MinorsInv, TakenMinors
<1> QED
  BY <1>1, <1>2, <1>3, <1>4, SameCardinality DEF Minors!MinorsAccounted

-----------------------------------------------------------------------------
(* The device and its interrupt, under mysensor and under myalarm: one     *)
(* stage of the handler at a time, the line masked meanwhile, and the      *)
(* event pending until the thread acknowledges it.                         *)

IrqInv ==
  /\ bell \in Sensor!FakeBellState /\ desc \in Sensor!IrqDesc
  /\ bell.irq_enable /\ (bell.line <=> bell.irq_status)
  /\ desc.requested /\ desc.oneshot
  /\ desc.hard \/ desc.woken \/ tpc # "idle" => desc.masked
  /\ desc.hard \/ desc.woken => bell.irq_status /\ tpc = "idle"
  /\ ~(desc.hard /\ desc.woken)

(* The two drivers use the same device and the same interrupt flow. *)
LEMMA SameDevice ==
  /\ Alarm!fakebell_realize = Sensor!fakebell_realize
  /\ \A b : /\ Alarm!fakebell_timer_cb(b) = Sensor!fakebell_timer_cb(b)
            /\ Alarm!fakebell_write_ack(b) = Sensor!fakebell_write_ack(b)
            /\ Alarm!fakebell_write_enable(b, TRUE) = Sensor!fakebell_write_enable(b, TRUE)
BY DEF Alarm!fakebell_realize, Sensor!fakebell_realize,
       Alarm!fakebell_timer_cb, Sensor!fakebell_timer_cb,
       Alarm!fakebell_write_ack, Sensor!fakebell_write_ack,
       Alarm!fakebell_write_enable, Sensor!fakebell_write_enable,
       Alarm!fakebell_update_irq, Sensor!fakebell_update_irq, Alarm!Inc32, Sensor!Inc32

(* MyAlarm and MySensor instantiate the same interrupt flow. *)
LEMMA SameIrq ==
  /\ Alarm!request_threaded_irq(TRUE) = Sensor!request_threaded_irq(TRUE)
  /\ \A d : /\ Alarm!irq_deliverable(d) = Sensor!irq_deliverable(d)
            /\ Alarm!irq_enter(d) = Sensor!irq_enter(d)
            /\ Alarm!irq_return_none(d) = Sensor!irq_return_none(d)
            /\ Alarm!irq_return_wake_thread(d) = Sensor!irq_return_wake_thread(d)
            /\ Alarm!irq_thread_start(d) = Sensor!irq_thread_start(d)
            /\ Alarm!irq_thread_done(d) = Sensor!irq_thread_done(d)
BY DEF Alarm!request_threaded_irq, Sensor!request_threaded_irq,
       Alarm!irq_unused, Sensor!irq_unused,
       Alarm!irq_deliverable, Sensor!irq_deliverable, Alarm!irq_enter, Sensor!irq_enter,
       Alarm!irq_return_none, Sensor!irq_return_none,
       Alarm!irq_return_wake_thread, Sensor!irq_return_wake_thread,
       Alarm!irq_thread_start, Sensor!irq_thread_start,
       Alarm!irq_thread_done, Sensor!irq_thread_done

(* What the operators do to the fields that matter. *)
LEMMA TimerFields ==
  ASSUME NEW b \in Sensor!FakeBellState, b.irq_enable, b.line <=> b.irq_status,
         b.event_count < MaxEvents
  PROVE  LET c == Sensor!fakebell_timer_cb(b)
         IN  /\ c \in Sensor!FakeBellState /\ c.irq_enable /\ (c.line <=> c.irq_status)
             /\ c.irq_status
             /\ c.event_count = IF b.irq_status THEN b.event_count ELSE b.event_count + 1
<1>1. CASE b.irq_status
  BY <1>1 DEF Sensor!fakebell_timer_cb
<1>2. CASE ~b.irq_status
  <2>1. Sensor!Inc32(b.event_count) = b.event_count + 1 /\ b.event_count + 1 \in Sensor!U32
    BY SensorAssumption DEF Sensor!FakeBellState, Sensor!Inc32, Sensor!U32
  <2> DEFINE c == [status |-> TRUE, irq_enable |-> TRUE, irq_status |-> TRUE,
                   event_count |-> b.event_count + 1, line |-> TRUE]
  <2>2. Sensor!fakebell_timer_cb(b) = c
    BY <1>2, <2>1 DEF Sensor!FakeBellState, Sensor!fakebell_timer_cb, Sensor!fakebell_update_irq
  <2>3. c \in Sensor!FakeBellState
    BY <2>1, Zenon DEF Sensor!FakeBellState
  <2> QED BY <1>2, <2>2, <2>3
<1> QED BY <1>1, <1>2

(* mb_ack_irq lowers the line and leaves the count of events. *)
LEMMA AckFields ==
  ASSUME NEW b \in Sensor!FakeBellState, b.irq_enable
  PROVE  LET c == Sensor!fakebell_write_ack(b)
         IN  /\ c \in Sensor!FakeBellState /\ c.irq_enable /\ ~c.line /\ ~c.irq_status
             /\ c.event_count = b.event_count
BY SensorAssumption
   DEF Sensor!FakeBellState, Sensor!fakebell_write_ack, Sensor!fakebell_update_irq

(* The device and the descriptor as probe leaves them. *)
LEMMA FirstFields ==
  LET b == Sensor!fakebell_write_enable(Sensor!fakebell_realize, TRUE)
      d == Sensor!request_threaded_irq(TRUE)
  IN  /\ b \in Sensor!FakeBellState /\ b.irq_enable /\ ~b.line /\ ~b.irq_status
      /\ b.event_count = 0
      /\ d \in Sensor!IrqDesc /\ d.requested /\ d.oneshot /\ ~d.hard /\ ~d.woken
<1>1. Sensor!fakebell_realize \in Sensor!FakeBellState /\ ~Sensor!fakebell_realize.irq_status
      /\ Sensor!fakebell_realize.event_count = 0
  BY SensorAssumption DEF Sensor!FakeBellState, Sensor!fakebell_realize, Sensor!U32
<1>2. Sensor!irq_unused \in Sensor!IrqDesc /\ ~Sensor!irq_unused.hard /\ ~Sensor!irq_unused.woken
  BY DEF Sensor!IrqDesc, Sensor!irq_unused
<1>3. LET b == Sensor!fakebell_write_enable(Sensor!fakebell_realize, TRUE)
      IN  /\ b \in Sensor!FakeBellState /\ b.irq_enable /\ ~b.line /\ ~b.irq_status
          /\ b.event_count = 0
  BY <1>1 DEF Sensor!FakeBellState, Sensor!fakebell_write_enable, Sensor!fakebell_update_irq
<1>4. LET d == Sensor!request_threaded_irq(TRUE)
      IN  d \in Sensor!IrqDesc /\ d.requested /\ d.oneshot /\ ~d.hard /\ ~d.woken
  BY <1>2 DEF Sensor!IrqDesc, Sensor!request_threaded_irq
<1> QED BY <1>3, <1>4

(* The steps of the kernel's interrupt flow, field by field. *)
LEMMA DescFields ==
  ASSUME NEW d \in Sensor!IrqDesc, d.requested, d.oneshot
  PROVE  /\ LET e == Sensor!irq_enter(d)
            IN  e \in Sensor!IrqDesc /\ e.requested /\ e.oneshot /\ e.masked /\ e.hard
                /\ (e.woken <=> d.woken)
         /\ LET e == Sensor!irq_return_wake_thread(d)
            IN  e \in Sensor!IrqDesc /\ e.requested /\ e.oneshot /\ e.masked /\ ~e.hard
                /\ e.woken
         /\ LET e == Sensor!irq_thread_start(d)
            IN  e \in Sensor!IrqDesc /\ e.requested /\ e.oneshot /\ ~e.woken
                /\ (e.masked <=> d.masked) /\ (e.hard <=> d.hard)
         /\ LET e == Sensor!irq_thread_done(d)
            IN  e \in Sensor!IrqDesc /\ e.requested /\ e.oneshot
                /\ (e.masked <=> d.woken \/ d.hard)
                /\ (e.woken <=> d.woken) /\ (e.hard <=> d.hard)
BY DEF Sensor!IrqDesc, Sensor!irq_enter, Sensor!irq_return_wake_thread,
       Sensor!irq_thread_start, Sensor!irq_thread_done

(* IrqInv holds once the interrupt is requested and enabled, and the steps *)
(* of the device and of the handlers keep it.                              *)
LEMMA FirstKeeps ==
  ASSUME bell = Sensor!fakebell_write_enable(Sensor!fakebell_realize, TRUE),
         desc = Sensor!request_threaded_irq(TRUE), tpc = "idle"
  PROVE  IrqInv /\ ~bell.irq_status /\ bell.event_count = 0
<1>1. /\ bell \in Sensor!FakeBellState /\ bell.irq_enable /\ ~bell.line /\ ~bell.irq_status
      /\ bell.event_count = 0
      /\ desc \in Sensor!IrqDesc /\ desc.requested /\ desc.oneshot /\ ~desc.hard /\ ~desc.woken
  BY FirstFields
<1> QED BY <1>1 DEF IrqInv

(* The device's timer raises an event. *)
LEMMA TimerKeeps ==
  ASSUME IrqInv, bell.event_count < MaxEvents,
         bell' = Sensor!fakebell_timer_cb(bell), UNCHANGED <<desc, tpc>>
  PROVE  IrqInv'
BY TimerFields DEF IrqInv

(* The kernel delivers the interrupt and masks its line. *)
LEMMA EnterKeeps ==
  ASSUME IrqInv, Sensor!irq_deliverable(desc), bell.line,
         desc' = Sensor!irq_enter(desc), UNCHANGED <<bell, tpc>>
  PROVE  IrqInv'
BY DescFields DEF IrqInv, Sensor!irq_deliverable

(* The hard handler returns; an event is pending, so it wakes the thread. *)
LEMMA HandlerKeeps ==
  ASSUME IrqInv, desc.hard, UNCHANGED <<bell, tpc>>,
         desc' = IF bell.irq_status THEN Sensor!irq_return_wake_thread(desc)
                                    ELSE Sensor!irq_return_none(desc)
  PROVE  IrqInv'
BY DescFields DEF IrqInv

(* The thread starts, and the event it was woken for is still pending. *)
LEMMA StartKeeps ==
  ASSUME IrqInv, tpc = "idle", desc.woken, desc' = Sensor!irq_thread_start(desc),
         tpc' # "idle", bell' \in {bell, Sensor!fakebell_write_ack(bell)}
  PROVE  IrqInv' /\ bell.irq_status
BY DescFields, AckFields DEF IrqInv

(* The thread goes on, acknowledging or not. *)
LEMMA ThreadKeeps ==
  ASSUME IrqInv, tpc # "idle", tpc' # "idle", UNCHANGED desc,
         bell' \in {bell, Sensor!fakebell_write_ack(bell)}
  PROVE  IrqInv'
BY AckFields DEF IrqInv

(* The thread ends and the kernel unmasks the line. *)
LEMMA DoneKeeps ==
  ASSUME IrqInv, tpc # "idle", tpc' = "idle", desc' = Sensor!irq_thread_done(desc),
         UNCHANGED bell
  PROVE  IrqInv'
BY DescFields DEF IrqInv

-----------------------------------------------------------------------------
(* MyAlarm: the events that have got through are in one of the three sets, *)
(* and while a process is about to clear, what is pending and unread was   *)
(* raised in that window.                                                  *)

Handled == pending \cup reported \cup missed

(* The events the thread has dealt with: all but the one the device still  *)
(* shows and the one acknowledged but not yet stored.                      *)
Through ==
  bell.event_count - (IF bell.irq_status THEN 1 ELSE 0) - (IF tpc = "set" THEN 1 ELSE 0)

AlarmInv ==
  /\ IrqInv
  /\ tpc \in {"idle", "set", "wake"} /\ alarm \in {0, 1}
  /\ pc \in [Apps -> {"poll", "test", "sleep", "read", "write", "quit"}]
  /\ Through \in Nat /\ Handled = 1 .. Through
  /\ \A p \in Apps : pc[p] = "write" => pending \ reported \subseteq overlap
  /\ Alarm!MissedOnlyInWindow

(* No event has been raised and no application runs. *)
LEMMA AlarmInit == ASSUME Alarm!Init PROVE AlarmInv
<1>0. /\ bell = Sensor!fakebell_write_enable(Sensor!fakebell_realize, TRUE)
      /\ desc = Sensor!request_threaded_irq(TRUE) /\ tpc = "idle"
  BY SameDevice, SameIrq DEF Alarm!Init
<1>1. IrqInv /\ ~bell.irq_status /\ bell.event_count = 0 /\ tpc # "set"
  BY <1>0, FirstKeeps
<1>2. Handled = 1 .. 0
  BY DEF Alarm!Init, Handled
<1>3. Through = 0
  <2>1. (IF bell.irq_status THEN 1 ELSE 0) = 0 /\ (IF tpc = "set" THEN 1 ELSE 0) = 0
    BY <1>1
  <2>2. bell.event_count - 0 - 0 = 0
    BY <1>1
  <2> QED BY <2>1, <2>2, Zenon DEF Through
<1> QED
  BY <1>1, <1>2, <1>3 DEF Alarm!Init, AlarmInv, Alarm!MissedOnlyInWindow

(* The handlers, malm_read, malm_write and malm_poll keep AlarmInv. *)
LEMMA AlarmStep == ASSUME AlarmInv, Alarm!Next PROVE AlarmInv'
<1>0. IrqInv /\ bell.event_count \in Nat
  BY DEF AlarmInv, IrqInv, Sensor!FakeBellState, Sensor!U32
<1>1. CASE Alarm!Timer
  <2>1. bell' = Sensor!fakebell_timer_cb(bell) /\ bell.event_count < MaxEvents
        /\ UNCHANGED <<desc, tpc>>
    BY <1>1, SameDevice DEF Alarm!Timer
  <2>2. IrqInv'
    BY <1>0, <2>1, TimerKeeps
  <2>3. Through' = Through
    BY <1>0, <2>1, TimerFields DEF IrqInv, Through
  <2> QED BY <1>1, <2>2, <2>3 DEF Alarm!Timer, Alarm!history, AlarmInv, Handled, Alarm!MissedOnlyInWindow
<1>2. CASE Alarm!IrqEnter \/ Alarm!alarm_irq_handler
  <2>1. IrqInv'
    BY <1>0, <1>2, SameIrq, EnterKeeps, HandlerKeeps DEF Alarm!IrqEnter, Alarm!alarm_irq_handler
  <2> QED
    BY <1>2, <2>1
       DEF Alarm!IrqEnter, Alarm!alarm_irq_handler, Alarm!history, AlarmInv, Handled, Through,
           Alarm!MissedOnlyInWindow
<1>3. CASE Alarm!ThreadAck
  <2>1. /\ desc' = Sensor!irq_thread_start(desc) /\ bell' = Sensor!fakebell_write_ack(bell)
        /\ tpc = "idle" /\ tpc' = "set" /\ desc.woken
    BY <1>3, SameDevice, SameIrq DEF Alarm!ThreadAck
  <2>2. IrqInv' /\ bell.irq_status
    BY <1>0, <2>1, StartKeeps
  <2>3. Through' = Through
    BY <1>0, <2>1, <2>2, AckFields DEF IrqInv, Through
  <2> QED BY <1>3, <2>2, <2>3 DEF Alarm!ThreadAck, Alarm!history, AlarmInv, Handled, Alarm!MissedOnlyInWindow
<1>4. CASE Alarm!ThreadSet
  <2>1. IrqInv'
    BY <1>0, <1>4, ThreadKeeps DEF Alarm!ThreadSet
  <2>2. Through' = Through + 1
    BY <1>0, <1>4 DEF Alarm!ThreadSet, Through
  <2>3. Alarm!Fresh = {Through + 1}
    BY <1>0, <1>4 DEF Alarm!ThreadSet, Alarm!Fresh, Through, AlarmInv, Handled
  <2>4. Through + 1 \notin Handled
    BY DEF AlarmInv
  <2>5. Handled' = 1 .. Through'
    BY <1>4, <2>2, <2>3 DEF Alarm!ThreadSet, AlarmInv, Handled
  <2>6. Alarm!MissedOnlyInWindow'
    BY <1>4, <2>3, <2>4 DEF Alarm!ThreadSet, AlarmInv, Handled, Alarm!MissedOnlyInWindow
  <2>7. \A p \in Apps : pc'[p] = "write" => pending' \ reported' \subseteq overlap'
    BY <1>4 DEF Alarm!ThreadSet, AlarmInv
  <2> QED BY <1>4, <2>1, <2>2, <2>5, <2>6, <2>7 DEF Alarm!ThreadSet, AlarmInv
<1>5. CASE Alarm!ThreadWake
  <2>1. IrqInv'
    BY <1>0, <1>5, SameIrq, DoneKeeps DEF Alarm!ThreadWake
  <2> QED
    BY <1>5, <2>1
       DEF Alarm!ThreadWake, Alarm!history, AlarmInv, Handled, Through, Alarm!MissedOnlyInWindow
<1>6. CASE UNCHANGED <<bell, desc, tpc>>
  <2>1. IrqInv' /\ Through' = Through
    BY <1>0, <1>6 DEF IrqInv, Through
  <2> USE <2>1 DEF AlarmInv, Handled, Alarm!MissedOnlyInWindow, Alarm!Goto, Alarm!history
  <2>2. ASSUME NEW p \in Apps, Alarm!PollWait(p) \/ Alarm!malm_poll(p) \/ Alarm!PollWoken(p)
                               \/ Alarm!PollSignal(p)
        PROVE  AlarmInv'
    BY <1>6, <2>2 DEF Alarm!PollWait, Alarm!malm_poll, Alarm!PollWoken, Alarm!PollSignal
  <2>3. ASSUME NEW p \in Apps, Alarm!malm_read(p) PROVE AlarmInv'
    BY <1>6, <2>3 DEF Alarm!malm_read
  <2>4. ASSUME NEW p \in Apps, Alarm!AppWrite(p) PROVE AlarmInv'
    BY <1>6, <2>4 DEF Alarm!AppWrite, Alarm!malm_write, Alarm!Clear
  <2>5. CASE Alarm!OtherWrite
    BY <1>6, <2>5 DEF Alarm!OtherWrite, Alarm!malm_write, Alarm!Clear
  <2>6. CASE Alarm!Timer \/ Alarm!Handlers
    BY <1>1, <1>2, <1>3, <1>4, <1>5, <2>6 DEF Alarm!Handlers, Alarm!alarm_irq_thread
  <2> HIDE DEF AlarmInv
  <2> QED BY <2>2, <2>3, <2>4, <2>5, <2>6 DEF Alarm!Next, Alarm!AppStep
<1> QED
  BY <1>1, <1>2, <1>3, <1>4, <1>5, <1>6
     DEF Alarm!Next, Alarm!Handlers, Alarm!alarm_irq_thread, Alarm!AppStep, Alarm!OtherWrite,
         Alarm!PollWait, Alarm!malm_poll, Alarm!PollWoken, Alarm!PollSignal, Alarm!malm_read,
         Alarm!AppWrite

-----------------------------------------------------------------------------
(* MySensor: the ring. *)

Rings == [buffer : [Sensor!Slots -> 0 .. VALUES - 1], head : Sensor!Slots,
          tail : Sensor!Slots, size : 0 .. RB_SIZE]

(* The i-th slot from t on. *)
Slot(t, i) == IF t + i < RB_SIZE THEN t + i ELSE t + i - RB_SIZE

RingInv == rb \in Rings /\ rb.head = Slot(rb.tail, rb.size)

(* The modulo of an index at most one lap ahead is one subtraction. *)
LEMMA SlotWraps ==
  ASSUME NEW t \in Sensor!Slots, NEW i \in 0 .. RB_SIZE
  PROVE  (t + i) % RB_SIZE = Slot(t, i) /\ Slot(t, i) \in Sensor!Slots
BY SensorAssumption DEF Slot, Sensor!Slots

(* The slots of one window differ. *)
LEMMA SlotsDiffer ==
  ASSUME NEW t \in Sensor!Slots, NEW i \in 0 .. RB_SIZE - 1, NEW j \in 0 .. RB_SIZE - 1, i # j
  PROVE  Slot(t, i) # Slot(t, j)
BY SensorAssumption DEF Slot, Sensor!Slots

(* One slot on, from either end of the window. *)
LEMMA SlotNext ==
  ASSUME NEW t \in Sensor!Slots, NEW i \in 0 .. RB_SIZE - 1
  PROVE  Slot(Slot(t, i), 1) = Slot(t, i + 1) /\ Slot(Slot(t, 1), i) = Slot(t, i + 1)
BY SensorAssumption DEF Slot, Sensor!Slots

(* rb_push and rb_pop, field by field. *)
LEMMA PushFields ==
  ASSUME RingInv, NEW v \in 0 .. VALUES - 1, rb' = Sensor!rb_push(rb, v)
  PROVE  /\ RingInv'
         /\ rb'.buffer = [rb.buffer EXCEPT ![rb.head] = v]
         /\ rb.size < RB_SIZE => rb'.size = rb.size + 1 /\ rb'.tail = rb.tail
         /\ rb.size = RB_SIZE => rb'.size = rb.size /\ rb'.tail = Slot(rb.tail, 1)
<1> USE SensorAssumption DEF RingInv
<1>0. /\ (rb.head + 1) % RB_SIZE = Slot(rb.head, 1) /\ Slot(rb.head, 1) \in Sensor!Slots
      /\ (rb.tail + 1) % RB_SIZE = Slot(rb.tail, 1) /\ Slot(rb.tail, 1) \in Sensor!Slots
  BY SlotWraps DEF Rings
<1>1. rb' = [buffer |-> [rb.buffer EXCEPT ![rb.head] = v], head |-> Slot(rb.head, 1),
             tail |-> IF rb.size < RB_SIZE THEN rb.tail ELSE Slot(rb.tail, 1),
             size |-> IF rb.size < RB_SIZE THEN rb.size + 1 ELSE rb.size]
  BY <1>0 DEF Rings, Sensor!rb_push
<1>2. rb' \in Rings
  BY <1>0, <1>1 DEF Rings
<1>3. CASE rb.size < RB_SIZE
  <2>1. rb.size \in 0 .. RB_SIZE - 1 /\ rb.tail \in Sensor!Slots
    BY <1>3 DEF Rings
  <2>2. Slot(rb.head, 1) = Slot(rb.tail, rb.size + 1)
    BY <2>1, SlotNext
  <2> QED BY <1>1, <1>2, <1>3, <2>1, <2>2
<1>4. CASE rb.size = RB_SIZE
  <2>1. Slot(rb.head, 1) = Slot(Slot(rb.tail, 1), RB_SIZE)
    BY <1>4 DEF Rings, Slot, Sensor!Slots
  <2> QED BY <1>1, <1>2, <1>4, <2>1
<1> QED BY <1>3, <1>4 DEF Rings

(* rb_pop moves the tail only. *)
LEMMA PopFields ==
  ASSUME RingInv, rb.size > 0, rb' = Sensor!rb_pop(rb)
  PROVE  /\ RingInv'
         /\ rb'.buffer = rb.buffer /\ rb'.size = rb.size - 1 /\ rb'.tail = Slot(rb.tail, 1)
<1> USE SensorAssumption DEF RingInv
<1>0. (rb.tail + 1) % RB_SIZE = Slot(rb.tail, 1) /\ Slot(rb.tail, 1) \in Sensor!Slots
  BY SlotWraps DEF Rings
<1>1. rb' = [rb EXCEPT !.tail = Slot(rb.tail, 1), !.size = rb.size - 1]
  BY <1>0 DEF Rings, Sensor!rb_pop
<1>2. rb' \in Rings
  <2>1. rb.size - 1 \in 0 .. RB_SIZE
    BY DEF Rings
  <2> QED BY <1>0, <1>1, <2>1 DEF Rings
<1>3. rb'.size = rb.size - 1 /\ rb'.tail = Slot(rb.tail, 1) /\ rb'.head = rb.head
      /\ rb'.buffer = rb.buffer
  BY <1>1 DEF Rings
<1>4. Slot(Slot(rb.tail, 1), rb.size - 1) = Slot(rb.tail, (rb.size - 1) + 1)
  <2>1. rb.size - 1 \in 0 .. RB_SIZE - 1 /\ rb.tail \in Sensor!Slots
    BY DEF Rings
  <2> QED BY <2>1, SlotNext
<1>5. (rb.size - 1) + 1 = rb.size
  BY DEF Rings
<1> QED BY <1>2, <1>3, <1>4, <1>5

-----------------------------------------------------------------------------
(* MySensor: events, sleepers and readers. *)

(* OnePerEvent needs that the event is still pending when it is acknowledged. *)
PushInv ==
  /\ IrqInv /\ data \in Nat /\ tpc \in {"idle", "ack", "wake"}
  /\ tpc = "ack" => bell.irq_status
  /\ Sensor!OnePerEvent

ReaderType ==
  /\ pc \in [Readers -> Sensor!Calls] /\ mode \in [Readers -> {"block", "poll"}]
  /\ result \in [Readers -> Sensor!Results] /\ rival \in [Readers -> BOOLEAN]

(* A reader in its call has no result yet, and one that stands before an   *)
(* empty ring, which it has seen with data, has had a rival.               *)
ReaderInv ==
  \A p \in Readers :
    /\ pc[p] \in {"first", "queue", "check", "sleep", "pop"} => result[p] = "none"
    /\ pc[p] = "pop" /\ rb.size = 0 => rival[p]
    /\ result[p] = "empty" => rival[p]

SensorInv ==
  /\ RingInv /\ dropped \in Nat /\ PushInv /\ ReaderType /\ ReaderInv
  /\ Sensor!NoLostWakeup

(* After probe the ring is empty and nobody reads. *)
LEMMA SensorInit == ASSUME Sensor!Init PROVE SensorInv
<1> USE SensorAssumption DEF Sensor!Init, Sensor!Bound
<1>1. RingInv
  BY DEF RingInv, Rings, Sensor!Slots, Slot, Sensor!rb_init
<1>2. IrqInv /\ ~bell.irq_status /\ bell.event_count = 0 /\ tpc = "idle" /\ data = 0
  BY FirstKeeps
<1>3. Sensor!OnePerEvent
  <2>1. (IF bell.irq_status /\ tpc # "ack" THEN 1 ELSE 0) = 0
    BY <1>2
  <2> QED BY <1>2, <2>1, 0 + 0 = 0, Zenon DEF Sensor!OnePerEvent
<1>4. ReaderType
  BY DEF ReaderType, Sensor!Calls, Sensor!Results
<1>5. ReaderInv /\ Sensor!NoLostWakeup
  BY DEF ReaderInv, Sensor!NoLostWakeup
<1> QED BY <1>1, <1>2, <1>3, <1>4, <1>5 DEF SensorInv, PushInv

(* The value pushed is one of the values. *)
LEMMA PushedValue == ASSUME data \in Nat PROVE data % VALUES \in 0 .. VALUES - 1
BY SensorAssumption

(* A step pushes one value, or takes one, or leaves the ring alone. *)
LEMMA RingKinds ==
  ASSUME Sensor!Next
  PROVE  \/ Sensor!ThreadPush
         \/ /\ \E p \in Readers : Sensor!Take(p) /\ pc[p] \in {"idle", "pop"}
            /\ UNCHANGED <<bell, desc, tpc, data, asleep, mode, dropped>>
         \/ UNCHANGED <<rb, dropped>>
BY DEF Sensor!Next, Sensor!Timer, Sensor!IrqEnter, Sensor!mysensor_irq_handler,
       Sensor!mysensor_irq_thread, Sensor!ThreadAck, Sensor!ThreadWake,
       Sensor!ReadNonblock, Sensor!ReadBlock, Sensor!mysensor_poll, Sensor!Begin,
       Sensor!WaitFirst, Sensor!WaitQueue, Sensor!WaitCheck, Sensor!WaitWoken,
       Sensor!WaitEnds, Sensor!ReadPop, Sensor!ReadCopy, Sensor!irqVars

(* rb_push keeps the ring's fields in range and leaves data in it. *)
LEMMA PushStep ==
  ASSUME RingInv, data \in Nat, Sensor!ThreadPush
  PROVE  RingInv' /\ rb'.size # 0
<1>1. rb' = Sensor!rb_push(rb, data % VALUES)
  BY DEF Sensor!ThreadPush
<1>2. /\ RingInv'
      /\ rb.size < RB_SIZE => rb'.size = rb.size + 1
      /\ rb.size = RB_SIZE => rb'.size = rb.size
  BY <1>1, PushedValue, PushFields
<1> QED BY <1>2, SensorAssumption DEF RingInv, Rings

(* rb_pop takes from a ring that is not empty. *)
LEMMA TakeStep ==
  ASSUME RingInv, NEW p \in Readers, Sensor!Take(p)
  PROVE  RingInv' /\ rb.size # 0
<1>1. rb.size > 0
  BY DEF Sensor!Take, Sensor!rb_isempty, RingInv, Rings
<1> QED BY <1>1, PopFields DEF Sensor!Take

(* Every step of mysensor keeps the ring's fields in range. *)
LEMMA RingStep ==
  ASSUME RingInv, data \in Nat, dropped \in Nat, Sensor!Next
  PROVE  RingInv' /\ dropped' \in Nat
<1>1. CASE Sensor!ThreadPush
  BY <1>1, PushStep DEF Sensor!ThreadPush
<1>2. CASE UNCHANGED <<rb, dropped>>
  BY <1>2 DEF RingInv
<1> QED BY <1>1, <1>2, TakeStep, RingKinds

(* The rest of the steps: system calls, which leave the interrupt alone. *)
SensorCall(p) ==
  \/ Sensor!ReadNonblock(p) \/ Sensor!ReadBlock(p) \/ Sensor!mysensor_poll(p)
  \/ Sensor!WaitFirst(p) \/ Sensor!WaitQueue(p) \/ Sensor!WaitCheck(p)
  \/ Sensor!WaitWoken(p) \/ Sensor!WaitEnds(p) \/ Sensor!ReadPop(p) \/ Sensor!ReadCopy(p)

(* A system call touches neither the interrupt nor the static counter. *)
LEMMA CallKeepsIrq ==
  ASSUME NEW p \in Readers, SensorCall(p) PROVE UNCHANGED <<bell, desc, tpc, data>>
BY DEF SensorCall, Sensor!ReadNonblock, Sensor!ReadBlock, Sensor!mysensor_poll, Sensor!Begin,
       Sensor!WaitFirst, Sensor!WaitQueue, Sensor!WaitCheck, Sensor!WaitWoken,
       Sensor!WaitEnds, Sensor!ReadPop, Sensor!ReadCopy, Sensor!irqVars

(* The thread pushes exactly one value per event. *)
LEMMA PushInvStep == ASSUME PushInv, Sensor!Next PROVE PushInv'
<1>0. IrqInv /\ bell.event_count \in Nat /\ data \in Nat
  BY DEF PushInv, IrqInv, Sensor!FakeBellState, Sensor!U32
<1> USE <1>0 DEF PushInv, Sensor!OnePerEvent
<1>1. CASE Sensor!Timer
  <2>1. IrqInv'
    BY <1>1, TimerKeeps DEF Sensor!Timer
  <2>2. bell'.irq_status
        /\ bell'.event_count = IF bell.irq_status THEN bell.event_count ELSE bell.event_count + 1
    BY <1>1, TimerFields DEF Sensor!Timer, IrqInv
  <2>3. UNCHANGED <<data, tpc>>
    BY <1>1 DEF Sensor!Timer
  <2> QED BY <2>1, <2>2, <2>3
<1>2. CASE Sensor!IrqEnter \/ Sensor!mysensor_irq_handler
  <2>1. IrqInv'
    BY <1>2, EnterKeeps, HandlerKeeps DEF Sensor!IrqEnter, Sensor!mysensor_irq_handler
  <2> QED BY <1>2, <2>1 DEF Sensor!IrqEnter, Sensor!mysensor_irq_handler
<1>3. CASE Sensor!ThreadPush
  <2>1. /\ tpc = "idle" /\ desc.woken /\ desc' = Sensor!irq_thread_start(desc)
        /\ data' = data + 1 /\ tpc' = "ack" /\ bell' = bell
    BY <1>3 DEF Sensor!ThreadPush
  <2>2. IrqInv' /\ bell.irq_status
    BY <2>1, StartKeeps
  <2> QED BY <2>1, <2>2
<1>4. CASE Sensor!ThreadAck
  <2>1. /\ tpc = "ack" /\ bell' = Sensor!fakebell_write_ack(bell) /\ tpc' = "wake"
        /\ UNCHANGED <<desc, data>>
    BY <1>4 DEF Sensor!ThreadAck
  <2>2. IrqInv'
    BY <2>1, ThreadKeeps
  <2>3. ~bell'.irq_status /\ bell'.event_count = bell.event_count
    BY <2>1, AckFields DEF IrqInv
  <2> QED BY <2>1, <2>2, <2>3
<1>5. CASE Sensor!ThreadWake
  <2>1. IrqInv'
    BY <1>5, DoneKeeps DEF Sensor!ThreadWake
  <2> QED BY <1>5, <2>1 DEF Sensor!ThreadWake
<1>6. CASE UNCHANGED <<bell, desc, tpc, data>>
  BY <1>6 DEF IrqInv
<1> HIDE DEF PushInv
<1> QED
  BY <1>1, <1>2, <1>3, <1>4, <1>5, <1>6, CallKeepsIrq
     DEF Sensor!Next, Sensor!mysensor_irq_thread, SensorCall

(* The steps of the device and of its handlers leave the readers alone. *)
LEMMA HandlersKeepReaders ==
  ASSUME Sensor!Timer \/ Sensor!IrqEnter \/ Sensor!mysensor_irq_handler
         \/ Sensor!mysensor_irq_thread
  PROVE  /\ UNCHANGED <<pc, mode, result, rival>>
         /\ rb' = rb \/ Sensor!ThreadPush
BY DEF Sensor!Timer, Sensor!IrqEnter, Sensor!mysensor_irq_handler,
       Sensor!mysensor_irq_thread, Sensor!ThreadPush, Sensor!ThreadAck, Sensor!ThreadWake,
       Sensor!procVars

(* The steps of the readers keep their types. *)
LEMMA ReaderTypeStep == ASSUME ReaderType, Sensor!Next PROVE ReaderType'
<1> USE DEF ReaderType, Sensor!Calls, Sensor!Results, Sensor!Goto, Sensor!Return
<1>0. ASSUME NEW p \in Readers, Sensor!Take(p) PROVE rival' \in [Readers -> BOOLEAN]
  BY <1>0 DEF Sensor!Take
<1>1. ASSUME NEW p \in Readers, Sensor!ReadNonblock(p) \/ Sensor!ReadPop(p) PROVE ReaderType'
  <2>1. CASE Sensor!Take(p) /\ UNCHANGED mode
    <3>1. /\ pc' = [pc EXCEPT ![p] = "copy"] /\ result' = [result EXCEPT ![p] = "none"]
      BY <2>1 DEF Sensor!Take
    <3> QED BY <1>0, <2>1, <3>1
  <2>2. CASE \E r \in Sensor!Results : Sensor!Return(p, r) /\ UNCHANGED <<mode, rival>>
    BY <2>2
  <2> QED BY <1>1, <2>1, <2>2 DEF Sensor!ReadNonblock, Sensor!ReadPop
<1>2. ASSUME NEW p \in Readers, Sensor!ReadBlock(p) \/ Sensor!mysensor_poll(p) PROVE ReaderType'
  BY <1>2 DEF Sensor!ReadBlock, Sensor!mysensor_poll, Sensor!Begin
<1>3. ASSUME NEW p \in Readers, Sensor!WaitFirst(p) \/ Sensor!WaitCheck(p) PROVE ReaderType'
  BY <1>3 DEF Sensor!WaitFirst, Sensor!WaitCheck, Sensor!Proceed
<1>4. ASSUME NEW p \in Readers, Sensor!WaitQueue(p) \/ Sensor!WaitWoken(p) \/ Sensor!WaitEnds(p)
                                \/ Sensor!ReadCopy(p)
      PROVE  ReaderType'
  BY <1>4 DEF Sensor!WaitQueue, Sensor!WaitWoken, Sensor!WaitEnds, Sensor!ReadCopy
<1>5. CASE UNCHANGED <<pc, mode, result, rival>>
  BY <1>5
<1> HIDE DEF ReaderType
<1> QED BY <1>1, <1>2, <1>3, <1>4, <1>5, HandlersKeepReaders DEF Sensor!Next

(* A ring that a reader saw with data is empty at its pop only after a     *)
(* rival's.                                                                *)
LEMMA ReaderInvStep ==
  ASSUME RingInv, data \in Nat, ReaderType, ReaderInv, Sensor!Next PROVE ReaderInv'
<1> USE DEF ReaderType, ReaderInv, Sensor!Calls, Sensor!Results, Sensor!Goto, Sensor!Return,
            Sensor!rb_isempty
<1>0. ASSUME NEW p \in Readers, Sensor!Take(p) PROVE ReaderInv'
  <2>1. \A q \in Readers : rival'[q] <=> rival[q] \/ (q # p /\ pc[q] = "pop")
    BY <1>0 DEF Sensor!Take
  <2>2. pc' = [pc EXCEPT ![p] = "copy"] /\ result' = [result EXCEPT ![p] = "none"]
    BY <1>0 DEF Sensor!Take
  <2> QED BY <2>1, <2>2
<1>1. ASSUME NEW p \in Readers, Sensor!ReadNonblock(p) \/ Sensor!ReadPop(p), ~Sensor!Take(p)
      PROVE  ReaderInv'
  BY <1>1 DEF Sensor!ReadNonblock, Sensor!ReadPop
<1>2. ASSUME NEW p \in Readers, Sensor!ReadBlock(p) \/ Sensor!mysensor_poll(p) PROVE ReaderInv'
  BY <1>2 DEF Sensor!ReadBlock, Sensor!mysensor_poll, Sensor!Begin
<1>3. ASSUME NEW p \in Readers, Sensor!WaitFirst(p) PROVE ReaderInv'
  BY <1>3 DEF Sensor!WaitFirst, Sensor!Proceed
<1>4. ASSUME NEW p \in Readers, Sensor!WaitCheck(p) PROVE ReaderInv'
  BY <1>4 DEF Sensor!WaitCheck, Sensor!Proceed
<1>5. ASSUME NEW p \in Readers, Sensor!WaitQueue(p) \/ Sensor!WaitWoken(p) PROVE ReaderInv'
  BY <1>5 DEF Sensor!WaitQueue, Sensor!WaitWoken
<1>6. ASSUME NEW p \in Readers, Sensor!WaitEnds(p) \/ Sensor!ReadCopy(p) PROVE ReaderInv'
  BY <1>6 DEF Sensor!WaitEnds, Sensor!ReadCopy
<1>7. CASE UNCHANGED <<pc, mode, result, rival>> /\ (rb' = rb \/ Sensor!ThreadPush)
  BY <1>7, PushStep
<1> HIDE DEF ReaderInv
<1> QED BY <1>0, <1>1, <1>2, <1>3, <1>4, <1>5, <1>6, <1>7, HandlersKeepReaders DEF Sensor!Next

(* A reader that has queued itself is woken by the push that it missed. *)
LEMMA WakeupStep ==
  ASSUME RingInv, data \in Nat, ReaderType, Sensor!NoLostWakeup, Sensor!Next
  PROVE  Sensor!NoLostWakeup'
<1> USE DEF ReaderType, Sensor!Calls, Sensor!NoLostWakeup, Sensor!Goto, Sensor!Return,
            Sensor!rb_isempty, Sensor!procVars, Sensor!irqVars
<1>1. CASE Sensor!Timer \/ Sensor!IrqEnter \/ Sensor!mysensor_irq_handler
  BY <1>1 DEF Sensor!Timer, Sensor!IrqEnter, Sensor!mysensor_irq_handler
<1>2. CASE Sensor!mysensor_irq_thread
  BY <1>2 DEF Sensor!mysensor_irq_thread, Sensor!ThreadPush, Sensor!ThreadAck, Sensor!ThreadWake
<1>3. ASSUME NEW p \in Readers, Sensor!ReadNonblock(p) \/ Sensor!ReadPop(p)
      PROVE  Sensor!NoLostWakeup'
  <2>1. CASE Sensor!Take(p)
    <3>1. rb.size # 0 /\ pc' = [pc EXCEPT ![p] = "copy"] /\ UNCHANGED <<asleep, tpc>>
      BY <1>3, <2>1, TakeStep DEF Sensor!ReadNonblock, Sensor!ReadPop, Sensor!Take
    <3> QED BY <3>1
  <2>2. CASE ~Sensor!Take(p)
    BY <1>3, <2>2 DEF Sensor!ReadNonblock, Sensor!ReadPop
  <2> QED BY <2>1, <2>2
<1>4. ASSUME NEW p \in Readers, Sensor!ReadBlock(p) \/ Sensor!mysensor_poll(p)
      PROVE  Sensor!NoLostWakeup'
  BY <1>4 DEF Sensor!ReadBlock, Sensor!mysensor_poll, Sensor!Begin
<1>5. ASSUME NEW p \in Readers, Sensor!WaitFirst(p) PROVE Sensor!NoLostWakeup'
  BY <1>5 DEF Sensor!WaitFirst, Sensor!Proceed
<1>6. ASSUME NEW p \in Readers, Sensor!WaitCheck(p) PROVE Sensor!NoLostWakeup'
  BY <1>6 DEF Sensor!WaitCheck, Sensor!Proceed
<1>7. ASSUME NEW p \in Readers, Sensor!WaitQueue(p) \/ Sensor!WaitWoken(p) \/ Sensor!WaitEnds(p)
                                \/ Sensor!ReadCopy(p)
      PROVE  Sensor!NoLostWakeup'
  BY <1>7 DEF Sensor!WaitQueue, Sensor!WaitWoken, Sensor!WaitEnds, Sensor!ReadCopy
<1> HIDE DEF Sensor!NoLostWakeup
<1> QED BY <1>1, <1>2, <1>3, <1>4, <1>5, <1>6, <1>7 DEF Sensor!Next

(* Every step of mysensor keeps SensorInv. *)
LEMMA SensorStep == ASSUME SensorInv, Sensor!Next PROVE SensorInv'
<1>1. data \in Nat
  BY DEF SensorInv, PushInv
<1> QED
  BY <1>1, RingStep, PushInvStep, ReaderTypeStep, ReaderInvStep, WakeupStep DEF SensorInv

-----------------------------------------------------------------------------
(* BellLock: who is inside is the holder, and the interrupt is in one      *)
(* place at a time.                                                        *)

BellInv ==
  /\ task \in [CPUs -> {"idle", "spin", "inside"}]
  /\ top \in [CPUs -> {"none", "spin", "inside"}]
  /\ holder \in {Lock!Free} \cup (CPUs \X {"task", "top"})
  /\ \A c \in CPUs : /\ task[c] = "inside" <=> holder = <<c, "task">>
                     /\ top[c] = "inside" <=> holder = <<c, "top">>
  /\ \A c, e \in CPUs : top[c] # "none" /\ top[e] # "none" => c = e

(* Before the first interrupt the lock is free. *)
LEMMA BellInit == ASSUME Lock!Init PROVE BellInv
BY DEF Lock!Init, Lock!Free, BellInv

(* Tasks and handlers keep BellInv. *)
LEMMA BellStep == ASSUME BellInv, Lock!Next PROVE BellInv'
<1> USE DEF BellInv, Lock!Free
<1> PICK c \in CPUs : Lock!TaskWants(c) \/ Lock!TopEnters(c) \/ Lock!Run(c)
  BY DEF Lock!Next
<1>1. CASE Lock!TaskWants(c)
  BY <1>1 DEF Lock!TaskWants
<1>2. CASE Lock!TopEnters(c)
  BY <1>2 DEF Lock!TopEnters
<1>3. CASE Lock!TaskLocks(c)
  BY <1>3 DEF Lock!TaskLocks
<1>4. CASE Lock!TaskUnlocks(c)
  BY <1>4 DEF Lock!TaskUnlocks
<1>5. CASE Lock!TopLocks(c)
  BY <1>5 DEF Lock!TopLocks
<1>6. CASE Lock!TopReturns(c)
  BY <1>6 DEF Lock!TopReturns
<1> QED BY <1>1, <1>2, <1>3, <1>4, <1>5, <1>6 DEF Lock!Run

-----------------------------------------------------------------------------
(* All devices. *)

IInv ==
  /\ which = "sensor" => SensorInv
  /\ which = "alarm" => AlarmInv
  /\ which = "minors" => MinorsInv
  /\ which = "stat" => StatInv
  /\ which = "text" => TextInv
  /\ which = "usb" => UsbInv
  /\ which = "dpdk" => DpdkInv
  /\ which = "proc" => ProcInv
  /\ which = "lock" => BellInv
  /\ which = "kprobe" => KprobeInv

(* Whichever device the behaviour is about, its invariant holds at first. *)
LEMMA InitInv == ASSUME Init PROVE IInv
BY SensorInit, AlarmInit, MinorsInit, StatInit, TextInit, UsbInit, DpdkInit, BellInit,
   ProcInit, KprobeInit
   DEF Init, IInv

(* A step is a step of that device. *)
LEMMA NextInv == ASSUME IInv, Next PROVE IInv'
<1>1. CASE SensorNext
  BY <1>1, SensorStep DEF SensorNext, SensorRest, IInv
<1>2. CASE AlarmNext
  BY <1>2, AlarmStep DEF AlarmNext, AlarmRest, IInv
<1>3. CASE MinorsNext
  BY <1>3, MinorsStep DEF MinorsNext, MinorsRest, IInv
<1>4. CASE StatNext
  BY <1>4, StatStep DEF StatNext, StatRest, IInv
<1>5. CASE TextNext
  BY <1>5, TextStep DEF TextNext, TextRest, IInv
<1>6. CASE UsbNext
  BY <1>6, UsbStep DEF UsbNext, UsbRest, IInv
<1>7. CASE DpdkNext
  BY <1>7, DpdkStep DEF DpdkNext, DpdkRest, IInv
<1>8. CASE LockNext
  BY <1>8, BellStep DEF LockNext, LockRest, IInv
<1>9. CASE ProcNext
  BY <1>9, ProcStep DEF ProcNext, ProcRest, IInv
<1>10. CASE KprobeNext
  BY <1>10, KprobeStep DEF KprobeNext, KprobeRest, IInv
<1> QED BY <1>1, <1>2, <1>3, <1>4, <1>5, <1>6, <1>7, <1>8, <1>9, <1>10 DEF Next

(* A step that changes nothing keeps what was true. *)
LEMMA StutterInv == ASSUME IInv, UNCHANGED vars PROVE IInv'
<1> USE DEF vars, irqOwn, sensorOwn, alarmOwn, minorsOwn, statOwn, textOwn, usbOwn, dpdkOwn,
            lockOwn, procOwn, probeOwn
<1>0. IrqInv' <=> IrqInv
  BY DEF IrqInv
<1>1. SensorInv' <=> SensorInv
  <2>1. (RingInv' <=> RingInv) /\ (PushInv' <=> PushInv)
    BY <1>0 DEF RingInv, PushInv, Sensor!OnePerEvent
  <2>2. (ReaderType' <=> ReaderType) /\ (ReaderInv' <=> ReaderInv)
        /\ (Sensor!NoLostWakeup' <=> Sensor!NoLostWakeup)
    BY DEF ReaderType, ReaderInv, Sensor!NoLostWakeup, Sensor!rb_isempty
  <2> QED BY <2>1, <2>2 DEF SensorInv
<1>2. AlarmInv' <=> AlarmInv
  BY <1>0 DEF AlarmInv, Handled, Through, Alarm!MissedOnlyInWindow
<1>3. MinorsInv' <=> MinorsInv
  BY DEF MinorsInv, MinorsType, NodesInv, HasNode, TableInv, Taken, TakenMinors
<1>4. StatInv' <=> StatInv
  BY DEF StatInv, Stat!NoLostWakeup, Stat!HotMeansAlarm
<1>5. TextInv' <=> TextInv
  BY DEF TextInv, TextType, OwnText, StaysIn
<1>6. UsbInv' <=> UsbInv
  BY DEF UsbInv, Usb!ButtonWatched
<1>7. DpdkInv' <=> DpdkInv
  BY DEF DpdkInv, DpdkType, MbufsAddUp, Dpdk!NeverStarves
<1>8. ProcInv' <=> ProcInv
  BY DEF ProcInv
<1>9. KprobeInv' <=> KprobeInv
  BY DEF KprobeInv
<1>10. BellInv' <=> BellInv
  BY DEF BellInv
<1> QED BY <1>1, <1>2, <1>3, <1>4, <1>5, <1>6, <1>7, <1>8, <1>9, <1>10 DEF IInv

(* The invariant of the device at work holds throughout. *)
LEMMA Invariant == Spec => []IInv
<1>1. IInv /\ [Next]_vars => IInv'
  BY NextInv, StutterInv
<1> QED BY <1>1, InitInv, PTL DEF Spec

-----------------------------------------------------------------------------
(* The results. *)

(* mysensor_irq_thread (mysensor.c l.161-182) pushes one value per event,  *)
(* and malm_write (myalarm.c l.114-131) clears an unread event only if it  *)
(* was raised between a process's read and its write.                      *)
THEOREM NoEventDropped == Spec => []EventsKept
<1>1. IInv => EventsKept
  BY DEF IInv, EventsKept, SensorInv, PushInv, AlarmInv
<1> QED BY <1>1, Invariant, PTL

(* mysensor_read (mysensor.c l.105-131) fails on a ring it saw with data    *)
(* only because of a rival.                                                *)
THEOREM ReadFailsByRival == Spec => []FailedReadNeedsRival
<1>1. IInv => FailedReadNeedsRival
  BY DEF IInv, FailedReadNeedsRival, SensorInv, ReaderInv, Sensor!FailedReadNeedsRival
<1> QED BY <1>1, Invariant, PTL

(* Nobody sleeps in mysensor_read, mysensor_poll or device_poll over what  *)
(* he waits for, unless the wake-up is on its way.                         *)
THEOREM NoSleeperForgotten == Spec => []SleepersWoken
<1>1. IInv => SleepersWoken
  BY DEF IInv, SleepersWoken, SensorInv, StatInv
<1> QED BY <1>1, Invariant, PTL

(* get_minor, return_minor and the node (mysensordrv.c): bound devices     *)
(* never share a minor, and the table is right unless calls overlapped.    *)
THEOREM MinorsAreKept == Spec => []MinorsKept
<1>1. IInv => MinorsKept
  BY MinorsSound DEF IInv, MinorsKept
<1> QED BY <1>1, Invariant, PTL

(* The unlocked state of fakesensor.c, device_read, procfs.c and           *)
(* kprobe_toggle.c is off only where the history says why.                 *)
THEOREM UnlockedStateIsSound == Spec => []UnlockedStateSound
<1>1. ProcInv => Proc!CopyFits
  BY DEF ProcInv, Proc!CopyFits
<1>2. IInv => UnlockedStateSound
  BY <1>1, TextSound, KprobeSound DEF IInv, UnlockedStateSound, StatInv
<1> QED BY <1>2, Invariant, PTL

(* panicb_int_callback and panicb_disconnect (myusb.c): polled until the   *)
(* disconnect, and no handler when the memory goes.                        *)
THEOREM ButtonIsWatched == Spec => []ButtonWatched
<1>1. IInv => ButtonWatched
  BY DEF IInv, ButtonWatched, UsbInv
<1> QED BY <1>1, Invariant, PTL

(* No path of mydpdk.c forgets a packet buffer or frees one it does not    *)
(* own, for all sizes and any number of ports.                             *)
THEOREM BuffersHaveOneOwner == Spec => []BuffersAddUp
<1>1. IInv => BuffersAddUp
  BY DEF IInv, BuffersAddUp, DpdkInv, MbufsAddUp, Dpdk!BuffersAddUp, Posted
<1> QED BY <1>1, Invariant, PTL

(* The pool of mydpdk.c never runs dry, for all sizes and ports.           *)
THEOREM PoolNeverStarves == Spec => []NeverStarves
<1>1. IInv => NeverStarves
  BY DEF IInv, NeverStarves, DpdkInv
<1> QED BY <1>1, Invariant, PTL

(* The lock is held by a task that runs on another CPU. *)
HolderRuns(c) ==
  \E e \in CPUs \ {c} : holder = <<e, "task">> /\ task[e] = "inside" /\ top[e] = "none"

(* When myirq_top spins for mybelllock (myfakebell.c l.172) the lock is    *)
(* free, or its holder is a task that can run, or it is the task that the  *)
(* handler has interrupted: the safety part of WaitsEnd, for any number of *)
(* CPUs.                                                                   *)
THEOREM WaiterHasRunner ==
  Spec => [](which = "lock" =>
               \A c \in CPUs : top[c] = "spin" =>
                  holder = Lock!Free \/ HolderRuns(c) \/ Lock!Stuck(c))
<1> DEFINE P == which = "lock" =>
               \A c \in CPUs : top[c] = "spin" =>
                  holder = Lock!Free \/ HolderRuns(c) \/ Lock!Stuck(c)
<1>1. IInv => P
  BY DEF IInv, BellInv, HolderRuns, Lock!Free, Lock!Stuck
<1> HIDE DEF P
<1>2. Spec => []P
  BY <1>1, Invariant, PTL
<1> QED BY <1>2 DEF P

(* myirq_top, once it spins for the lock of the task it has interrupted,   *)
(* spins for ever, whatever the other CPUs do: the tasks take the lock     *)
(* (l.54, l.72, l.148) without disabling interrupts.                       *)
THEOREM StuckForGood ==
  Spec => [][\A c \in CPUs :
               which = "lock" /\ Lock!Stuck(c) => which' = "lock" /\ Lock!Stuck(c)']_vars
<1> DEFINE A == \A c \in CPUs : which = "lock" /\ Lock!Stuck(c) => which' = "lock" /\ Lock!Stuck(c)'
<1>1. IInv /\ [Next]_vars => [A]_vars
  <2> SUFFICES ASSUME IInv, Next, NEW c \in CPUs, which = "lock", Lock!Stuck(c)
               PROVE  which' = "lock" /\ Lock!Stuck(c)'
    OBVIOUS
  <2>1. LockNext /\ BellInv
    BY DEF Next, IInv, SensorNext, AlarmNext, MinorsNext, StatNext, TextNext, UsbNext,
           DpdkNext, ProcNext, KprobeNext
  <2>2. PICK e \in CPUs : Lock!TaskWants(e) \/ Lock!TopEnters(e) \/ Lock!Run(e)
    BY <2>1 DEF LockNext, Lock!Next
  <2> QED
    BY <2>1, <2>2
       DEF LockNext, LockRest, BellInv, Lock!Stuck, Lock!Free, Lock!TaskWants,
           Lock!TopEnters, Lock!Run, Lock!TaskLocks, Lock!TaskUnlocks, Lock!TopLocks,
           Lock!TopReturns
<1> HIDE DEF A
<1>2. Spec => [][A]_vars
  BY <1>1, Invariant, PTL DEF Spec
<1> QED BY <1>2 DEF A

-----------------------------------------------------------------------------
(* mysensor's ring implements the lossy queue. *)

(* A function on 1 .. n is a sequence of length n. *)
LEMMA FunctionSeq ==
  ASSUME NEW n \in Nat, NEW S, NEW f \in [1 .. n -> S] PROVE f \in Seq(S) /\ Len(f) = n
OBVIOUS

(* The abstract queue, value by value: the slots from the tail on. *)
LEMMA ContentsSeq ==
  ASSUME RingInv
  PROVE  /\ Sensor!Contents \in Seq(0 .. VALUES - 1) /\ Len(Sensor!Contents) = rb.size
         /\ \A i \in 1 .. rb.size : Sensor!Contents[i] = rb.buffer[Slot(rb.tail, i - 1)]
<1>1. rb.size \in Nat /\ rb.size <= RB_SIZE /\ rb.tail \in Sensor!Slots
      /\ rb.buffer \in [Sensor!Slots -> 0 .. VALUES - 1]
  BY SensorAssumption DEF RingInv, Rings
<1>2. ASSUME NEW i \in 1 .. rb.size
      PROVE  /\ (rb.tail + i - 1) % RB_SIZE = Slot(rb.tail, i - 1)
             /\ Slot(rb.tail, i - 1) \in Sensor!Slots
  <2>1. i - 1 \in 0 .. RB_SIZE /\ rb.tail + i - 1 = rb.tail + (i - 1)
    BY <1>1, SensorAssumption DEF Sensor!Slots
  <2> QED BY <1>1, <2>1, SlotWraps
<1>3. Sensor!Contents = [i \in 1 .. rb.size |-> rb.buffer[Slot(rb.tail, i - 1)]]
  BY <1>2 DEF Sensor!Contents
<1>4. \A i \in 1 .. rb.size : rb.buffer[Slot(rb.tail, i - 1)] \in 0 .. VALUES - 1
  BY <1>1, <1>2
<1>5. Sensor!Contents \in Seq(0 .. VALUES - 1) /\ Len(Sensor!Contents) = rb.size
  <2>1. Sensor!Contents \in [1 .. rb.size -> 0 .. VALUES - 1]
    BY <1>3, <1>4
  <2> QED BY <1>1, <2>1, FunctionSeq
<1> QED BY <1>3, <1>5

(* rb_push appends, after dropping the head of a full queue. *)
LEMMA PushAppends ==
  ASSUME RingInv, NEW v \in 0 .. VALUES - 1, rb' = Sensor!rb_push(rb, v)
  PROVE  /\ rb.size < RB_SIZE => Sensor!Contents' = Append(Sensor!Contents, v)
         /\ rb.size = RB_SIZE => Sensor!Contents' = Append(Tail(Sensor!Contents), v)
<1>1. /\ RingInv'
      /\ rb'.buffer = [rb.buffer EXCEPT ![rb.head] = v]
      /\ rb.size < RB_SIZE => rb'.size = rb.size + 1 /\ rb'.tail = rb.tail
      /\ rb.size = RB_SIZE => rb'.size = rb.size /\ rb'.tail = Slot(rb.tail, 1)
  BY PushFields
<1>2. /\ Sensor!Contents \in Seq(0 .. VALUES - 1) /\ Len(Sensor!Contents) = rb.size
      /\ \A i \in 1 .. rb.size : Sensor!Contents[i] = rb.buffer[Slot(rb.tail, i - 1)]
  BY ContentsSeq
<1>3. /\ Sensor!Contents' \in Seq(0 .. VALUES - 1) /\ Len(Sensor!Contents') = rb'.size
      /\ \A i \in 1 .. rb'.size : Sensor!Contents'[i] = rb'.buffer[Slot(rb'.tail, i - 1)]
  <2>1. (/\ Sensor!Contents \in Seq(0 .. VALUES - 1) /\ Len(Sensor!Contents) = rb.size
         /\ \A i \in 1 .. rb.size : Sensor!Contents[i] = rb.buffer[Slot(rb.tail, i - 1)])'
    BY <1>1, ContentsSeq, PTL
  <2> QED BY <2>1 DEF Slot
<1>4. /\ rb.size \in Nat /\ rb.size <= RB_SIZE /\ rb.tail \in Sensor!Slots
      /\ rb.buffer \in [Sensor!Slots -> 0 .. VALUES - 1] /\ rb.head \in Sensor!Slots
      /\ rb.head = Slot(rb.tail, rb.size) /\ RB_SIZE \in Nat \ {0}
  BY SensorAssumption DEF RingInv, Rings
<1>5. ASSUME rb.size < RB_SIZE PROVE Sensor!Contents' = Append(Sensor!Contents, v)
  <2>1. ASSUME NEW i \in 1 .. rb.size + 1
        PROVE  Sensor!Contents'[i] = Append(Sensor!Contents, v)[i]
    <3>0. Sensor!Contents'[i] = rb'.buffer[Slot(rb.tail, i - 1)]
      BY <1>1, <1>3, <1>5
    <3>1. CASE i = rb.size + 1
      <4>1. i - 1 = rb.size
        BY <1>4, <3>1
      <4> QED BY <1>1, <1>2, <1>4, <3>0, <3>1, <4>1
    <3>2. CASE i # rb.size + 1
      <4>1. i \in 1 .. rb.size /\ i - 1 \in 0 .. RB_SIZE - 1 /\ rb.size \in 0 .. RB_SIZE - 1
            /\ i - 1 \in 0 .. RB_SIZE /\ i - 1 # rb.size
        BY <1>4, <1>5, <3>2
      <4>2. Slot(rb.tail, i - 1) # rb.head /\ Slot(rb.tail, i - 1) \in Sensor!Slots
        <5>1. Slot(rb.tail, i - 1) # Slot(rb.tail, rb.size)
          BY <1>4, <4>1, SlotsDiffer
        <5>2. Slot(rb.tail, i - 1) \in Sensor!Slots
          BY <1>4, <4>1, SlotWraps
        <5> QED BY <1>4, <5>1, <5>2
      <4>3. Sensor!Contents'[i] = Sensor!Contents[i]
        BY <1>1, <1>2, <1>4, <3>0, <4>1, <4>2
      <4> QED BY <1>2, <4>1, <4>3
    <3> QED BY <3>1, <3>2
  <2>2. /\ Append(Sensor!Contents, v) \in Seq(0 .. VALUES - 1)
        /\ Len(Append(Sensor!Contents, v)) = rb.size + 1
    BY <1>2
  <2>3. Len(Sensor!Contents') = rb.size + 1
    BY <1>1, <1>3, <1>5
  <2> QED BY <1>3, <2>1, <2>2, <2>3, SeqEqual
<1>6. ASSUME rb.size = RB_SIZE PROVE Sensor!Contents' = Append(Tail(Sensor!Contents), v)
  <2>0. /\ Tail(Sensor!Contents) \in Seq(0 .. VALUES - 1)
        /\ Len(Tail(Sensor!Contents)) = RB_SIZE - 1
        /\ \A i \in 1 .. RB_SIZE - 1 : Tail(Sensor!Contents)[i] = Sensor!Contents[i + 1]
    BY <1>2, <1>4, <1>6
  <2>1. ASSUME NEW i \in 1 .. RB_SIZE
        PROVE  Sensor!Contents'[i] = Append(Tail(Sensor!Contents), v)[i]
    <3>0. i - 1 \in 0 .. RB_SIZE - 1 /\ (i - 1) + 1 = i
      BY <1>4
    <3>1. Sensor!Contents'[i] = rb'.buffer[Slot(rb.tail, i)]
      <4>1. Slot(Slot(rb.tail, 1), i - 1) = Slot(rb.tail, (i - 1) + 1)
        BY <1>4, <3>0, SlotNext
      <4> QED BY <1>1, <1>3, <1>6, <3>0, <4>1
    <3>2. CASE i = RB_SIZE
      BY <1>1, <1>4, <1>6, <2>0, <3>1, <3>2
    <3>3. CASE i # RB_SIZE
      <4>1. i \in 1 .. RB_SIZE - 1 /\ i \in 0 .. RB_SIZE - 1 /\ 0 \in 0 .. RB_SIZE - 1
            /\ i + 1 \in 1 .. RB_SIZE /\ (i + 1) - 1 = i /\ i \in 0 .. RB_SIZE /\ i # 0
        BY <1>4, <3>3
      <4>2. Slot(rb.tail, 0) = rb.head
        BY <1>4, <1>6 DEF Slot, Sensor!Slots
      <4>3. Slot(rb.tail, i) # rb.head /\ Slot(rb.tail, i) \in Sensor!Slots
        <5>1. Slot(rb.tail, i) # Slot(rb.tail, 0)
          BY <1>4, <4>1, SlotsDiffer
        <5>2. Slot(rb.tail, i) \in Sensor!Slots
          BY <1>4, <4>1, SlotWraps
        <5> QED BY <4>2, <5>1, <5>2
      <4>4. Sensor!Contents'[i] = Sensor!Contents[i + 1]
        BY <1>1, <1>2, <1>4, <1>6, <3>1, <4>1, <4>3
      <4> QED BY <2>0, <4>1, <4>4
    <3> QED BY <3>2, <3>3
  <2>2. /\ Append(Tail(Sensor!Contents), v) \in Seq(0 .. VALUES - 1)
        /\ Len(Append(Tail(Sensor!Contents), v)) = RB_SIZE
    BY <1>4, <2>0
  <2>3. Len(Sensor!Contents') = RB_SIZE
    BY <1>1, <1>3, <1>6
  <2> QED BY <1>3, <2>1, <2>2, <2>3, SeqEqual
<1> QED BY <1>5, <1>6

(* rb_pop removes the head. *)
LEMMA PopTails ==
  ASSUME RingInv, rb.size > 0, rb' = Sensor!rb_pop(rb)
  PROVE  Sensor!Contents' = Tail(Sensor!Contents) /\ Sensor!Contents # <<>>
<1>1. /\ RingInv'
      /\ rb'.buffer = rb.buffer /\ rb'.size = rb.size - 1 /\ rb'.tail = Slot(rb.tail, 1)
  BY PopFields
<1>2. /\ Sensor!Contents \in Seq(0 .. VALUES - 1) /\ Len(Sensor!Contents) = rb.size
      /\ \A i \in 1 .. rb.size : Sensor!Contents[i] = rb.buffer[Slot(rb.tail, i - 1)]
  BY ContentsSeq
<1>3. /\ Sensor!Contents' \in Seq(0 .. VALUES - 1) /\ Len(Sensor!Contents') = rb'.size
      /\ \A i \in 1 .. rb'.size : Sensor!Contents'[i] = rb'.buffer[Slot(rb'.tail, i - 1)]
  <2>1. (/\ Sensor!Contents \in Seq(0 .. VALUES - 1) /\ Len(Sensor!Contents) = rb.size
         /\ \A i \in 1 .. rb.size : Sensor!Contents[i] = rb.buffer[Slot(rb.tail, i - 1)])'
    BY <1>1, ContentsSeq, PTL
  <2> QED BY <2>1 DEF Slot
<1>4. rb.size \in Nat /\ rb.size <= RB_SIZE /\ rb.tail \in Sensor!Slots /\ RB_SIZE \in Nat
  BY SensorAssumption DEF RingInv, Rings
<1>5. /\ Tail(Sensor!Contents) \in Seq(0 .. VALUES - 1)
      /\ Len(Tail(Sensor!Contents)) = rb.size - 1
      /\ \A i \in 1 .. rb.size - 1 : Tail(Sensor!Contents)[i] = Sensor!Contents[i + 1]
  BY <1>2, <1>4
<1>6. ASSUME NEW i \in 1 .. rb.size - 1 PROVE Sensor!Contents'[i] = Tail(Sensor!Contents)[i]
  <2>1. /\ i - 1 \in 0 .. RB_SIZE - 1 /\ (i - 1) + 1 = i /\ i + 1 \in 1 .. rb.size
        /\ (i + 1) - 1 = i
    BY <1>4
  <2>2. Slot(Slot(rb.tail, 1), i - 1) = Slot(rb.tail, (i - 1) + 1)
    BY <1>4, <2>1, SlotNext
  <2>3. Sensor!Contents'[i] = rb.buffer[Slot(rb.tail, i)]
    BY <1>1, <1>3, <2>1, <2>2
  <2> QED BY <1>2, <1>5, <2>1, <2>3
<1>7. Len(Sensor!Contents') = rb.size - 1
  BY <1>1, <1>3
<1>8. Sensor!Contents # <<>>
  BY <1>2, <1>4
<1> QED BY <1>3, <1>5, <1>6, <1>7, <1>8, SeqEqual

(* A push of mysensor is a push of the queue, a take is a pop, and nothing *)
(* else touches the ring.                                                  *)
LEMMA SensorQueueStep ==
  ASSUME SensorInv, Sensor!Next
  PROVE  \/ \E v \in 0 .. VALUES - 1 :
              \/ /\ Len(Sensor!Contents) < RB_SIZE
                 /\ Sensor!Contents' = Append(Sensor!Contents, v) /\ dropped' = dropped
              \/ /\ Len(Sensor!Contents) = RB_SIZE
                 /\ Sensor!Contents' = Append(Tail(Sensor!Contents), v)
                 /\ dropped' = dropped + 1
         \/ /\ Sensor!Contents # <<>> /\ Sensor!Contents' = Tail(Sensor!Contents)
            /\ dropped' = dropped
         \/ Sensor!Contents' = Sensor!Contents /\ dropped' = dropped
<1>0. RingInv /\ data \in Nat /\ rb.size \in Nat /\ rb.size <= RB_SIZE /\ RB_SIZE \in Nat
  BY SensorAssumption DEF SensorInv, PushInv, RingInv, Rings
<1>1. CASE Sensor!ThreadPush
  <2>1. /\ rb' = Sensor!rb_push(rb, data % VALUES) /\ data % VALUES \in 0 .. VALUES - 1
        /\ dropped' = IF rb.size = RB_SIZE THEN dropped + 1 ELSE dropped
    BY <1>0, <1>1, PushedValue DEF Sensor!ThreadPush
  <2>2. /\ rb.size < RB_SIZE => Sensor!Contents' = Append(Sensor!Contents, data % VALUES)
        /\ rb.size = RB_SIZE => Sensor!Contents' = Append(Tail(Sensor!Contents), data % VALUES)
    BY <1>0, <2>1, PushAppends
  <2>3. Len(Sensor!Contents) = rb.size
    BY <1>0, ContentsSeq
  <2> QED BY <1>0, <2>1, <2>2, <2>3
<1>2. ASSUME NEW p \in Readers, Sensor!Take(p), UNCHANGED dropped
      PROVE  Sensor!Contents # <<>> /\ Sensor!Contents' = Tail(Sensor!Contents)
  <2>1. rb.size > 0 /\ rb' = Sensor!rb_pop(rb)
    BY <1>0, <1>2 DEF Sensor!Take, Sensor!rb_isempty
  <2> QED BY <1>0, <2>1, PopTails
<1>3. CASE UNCHANGED <<rb, dropped>>
  BY <1>3 DEF Sensor!Contents
<1> QED BY <1>1, <1>2, <1>3, RingKinds

(* The ring of mysensor (mysensor.c l.16-77) implements the                *)
(* bounded queue that drops its oldest value, for every RB_SIZE and any    *)
(* number of readers.                                                      *)
THEOREM SensorImplementsLossyQueue == Spec => SensorIsLossyQueue
<1> DEFINE queue == IF which = "sensor" THEN Sensor!Contents ELSE <<>>
<1>1. Init => SensorQueue!Init
  <2> SUFFICES ASSUME Init PROVE queue = <<>> /\ dropped = 0
    BY DEF SensorQueue!Init
  <2>1. CASE which = "sensor"
    <3>1. Sensor!Init
      BY <2>1 DEF Init
    <3>2. Sensor!Contents = <<>> /\ dropped = 0
      BY <3>1 DEF Sensor!Init, Sensor!Bound, Sensor!rb_init, Sensor!Contents
    <3> QED BY <2>1, <3>2
  <2>2. CASE which # "sensor"
    BY <2>2 DEF Init, SensorOff
  <2> QED BY <2>1, <2>2
<1>2. IInv /\ [Next]_vars => [SensorQueue!Next]_(SensorQueue!vars)
  <2> SUFFICES ASSUME IInv, [Next]_vars PROVE [SensorQueue!Next]_(SensorQueue!vars)
    OBVIOUS
  <2>1. CASE SensorNext
    <3>1. which = "sensor" /\ which' = "sensor" /\ SensorInv /\ Sensor!Next
      BY <2>1 DEF SensorNext, SensorRest, IInv
    <3> QED
      BY <3>1, SensorQueueStep
         DEF SensorQueue!Next, SensorQueue!Push, SensorQueue!Pop, SensorQueue!vars
  <2>2. CASE UNCHANGED <<which, rb, dropped>>
    BY <2>2 DEF SensorQueue!vars, Sensor!Contents
  <2>3. UNCHANGED vars => UNCHANGED <<which, rb, dropped>>
    BY DEF vars, sensorOwn
  <2>4. Next /\ ~SensorNext => UNCHANGED <<which, rb, dropped>>
    BY DEF Next, AlarmNext, AlarmRest, MinorsNext, MinorsRest, StatNext, StatRest, TextNext,
           TextRest, UsbNext, UsbRest, DpdkNext, DpdkRest, LockNext, LockRest, ProcNext,
           ProcRest, KprobeNext, KprobeRest, sensorOwn
  <2> QED BY <2>1, <2>2, <2>3, <2>4
<1> QED BY <1>1, <1>2, Invariant, PTL DEF Spec, SensorIsLossyQueue, SensorQueue!Spec

=============================================================================
