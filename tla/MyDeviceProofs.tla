--------------------------- MODULE MyDeviceProofs ---------------------------
(***************************************************************************)
(* Proofs about mydevice.c for any finite number of files.                 *)
(*                                                                         *)
(* The count and the flag are read and written in two steps, so none of    *)
(* the properties is inductive: a step that stores local + 1 is right only *)
(* if nobody has stored since the load.  LockInv says so.  ConfigInv       *)
(* places the configuring file, and DrainInv carries what mydevremove saw  *)
(* at the end of its wait on to the free of the device.                    *)
(***************************************************************************)
EXTENDS MyDevice, FiniteSetTheorems, TLAPS

Places == {"closed", "opened", "relConfig", "relref", "relrefSet"} \cup Opening \cup Leaving

TypeInv ==
  /\ dev \in Lives /\ inited \in BOOLEAN
  /\ reference \in Nat /\ config_opened \in BOOLEAN
  /\ reflock \in Files \cup {NoFile} /\ configlock \in Files \cup {NoFile}
  /\ pc \in [Files -> Places]
  /\ writer \in [Files -> BOOLEAN] /\ is_config \in [Files -> BOOLEAN]
  /\ local \in [Files -> Nat]
  /\ torn \in BOOLEAN /\ forced \in BOOLEAN
  /\ wait # "none" => dev = "draining"

InRef(f) == pc[f] \in {"addrefSet", "relrefSet"}

(* A file holds a mutex exactly in its section, and what it has read there *)
(* is still so.                                                            *)
LockInv ==
  \A f \in Files : /\ (reflock = f) = InRef(f)
                   /\ (configlock = f) = (pc[f] = "config")
                   /\ InRef(f) => local[f] = reference
                   /\ pc[f] = "config" => local[f] = IF config_opened THEN 1 ELSE 0

(* The right to configure lasts from the open to the release. *)
ConfigInv ==
  \A f \in Files :
    /\ is_config[f] => pc[f] \in {"addref", "addrefSet", "opened", "relConfig"}
    /\ pc[f] = "relConfig" => is_config[f]

(* After the wait only uncounted files are left. *)
DrainInv ==
  dev \in {"drained", "destroyed", "deleted", "freed"} /\ ~forced =>
    \A f \in Files : pc[f] = "closed" \/ pc[f] \in Leaving \/ f \in late

IInv ==
  /\ TypeInv
  /\ ~torn => LockInv /\ ConfigInv /\ DrainInv
  /\ ConfigExclusive /\ ReferenceCounts

Holders == {f \in Files : pc[f] \in Counted}

-----------------------------------------------------------------------------
(* The steps, by what they may disturb. *)

(* Steps that touch neither a file's place nor what the locks guard. *)
Aside ==
  \/ UNCHANGED vars
  \/ ProbeCreate \/ RemoveStart \/ RemoveQueue \/ RemoveWoken \/ RemoveTeardown
  \/ \E f \in Files : mydevread(f) \/ \E v \in Configs : mydevwrite(f, v)

(* Every step is one of those, of the wait's end, or of one file. *)
LEMMA StepKinds ==
  ASSUME [Next]_vars
  PROVE  \/ Aside \/ mydevice_init \/ RemoveTest \/ RemoveSignal
         \/ \E f \in Files : \/ \E w \in BOOLEAN : OpenStart(f, w)
                             \/ Contend(f) \/ FileStep(f)
  BY DEF Next, Remove, Aside

(* What the steps aside leave as it is. *)
LEMMA AsideKeeps ==
  ASSUME Aside
  PROVE  UNCHANGED <<inited, reference, config_opened, reflock, configlock, pc, writer,
                     is_config, local, torn, forced, late>>
  BY DEF Aside, vars, devVars, ctlVars, histVars, ProbeCreate, RemoveStart, RemoveQueue,
         RemoveWoken, RemoveTeardown, mydevread, mydevwrite

(* The history variable torn is never taken back. *)
LEMMA TornStays == ASSUME [Next]_vars, ~torn' PROVE ~torn
<1>1. CASE Aside
  BY <1>1, AsideKeeps
<1>2. CASE mydevice_init \/ RemoveTest \/ RemoveSignal
  BY <1>2 DEF mydevice_init, RemoveTest, RemoveSignal
<1>3. ASSUME NEW f \in Files,
             (\E w \in BOOLEAN : OpenStart(f, w)) \/ Contend(f) \/ FileStep(f)
      PROVE  ~torn
  BY <1>3 DEF OpenStart, Contend, FileStep, OpenRead, OpenTestConfig, OpenBusy,
              OpenTakeConfig, RefLock, addref, relref, ReleaseStart, ReleaseConfig,
              ReleaseWake, histVars
<1> QED BY <1>1, <1>2, <1>3, StepKinds

(* The initial state satisfies the inductive invariant. *)
LEMMA InitInv == Init => IInv
<1> SUFFICES ASSUME Init PROVE IInv
  OBVIOUS
<1>1. TypeInv
  BY DEF Init, TypeInv, Lives, Places
<1>2. LockInv
  BY MyDeviceAssumption DEF Init, LockInv, InRef
<1>3. ConfigInv /\ DrainInv
  BY DEF Init, ConfigInv, DrainInv
<1>4. ConfigExclusive
  BY DEF Init, ConfigExclusive
<1>5. ReferenceCounts
  <2>1. {f \in Files : pc[f] \in Counted} = {}
    BY DEF Init, Counted
  <2> QED BY <2>1, FS_EmptySet DEF Init, ReferenceCounts
<1> QED BY <1>1, <1>2, <1>3, <1>4, <1>5 DEF IInv

(* Every variable keeps its type. *)
LEMMA TypeStep == ASSUME TypeInv, [Next]_vars PROVE TypeInv'
<1> USE MyDeviceAssumption DEF TypeInv, Places, Opening, Leaving, Lives
<1>1. CASE Aside
  <2>1. dev' \in Lives /\ (wait' # "none" => dev' = "draining")
    BY <1>1 DEF Aside, vars, devVars, ctlVars, histVars, ProbeCreate, RemoveStart,
                RemoveQueue, RemoveWoken, RemoveTeardown, mydevread, mydevwrite
  <2> QED BY <1>1, <2>1, AsideKeeps
<1>2. CASE mydevice_init \/ RemoveTest \/ RemoveSignal
  BY <1>2 DEF mydevice_init, RemoveTest, RemoveSignal, EndWait, devVars, ctlVars, histVars
<1>3. ASSUME NEW f \in Files, NEW w \in BOOLEAN, OpenStart(f, w) PROVE TypeInv'
  BY <1>3 DEF OpenStart, Goto, devVars, ctlVars
<1>4. ASSUME NEW f \in Files, OpenTestConfig(f) \/ OpenBusy(f) PROVE TypeInv'
  BY <1>4 DEF OpenTestConfig, OpenBusy, Goto, devVars, ctlVars, histVars
<1>7. ASSUME NEW f \in Files, Contend(f) \/ OpenRead(f) \/ OpenTakeConfig(f) PROVE TypeInv'
  BY <1>7 DEF Contend, OpenRead, OpenTakeConfig, Goto, devVars, ctlVars, histVars
<1>5. ASSUME NEW f \in Files, RefLock(f) \/ addref(f) \/ relref(f) PROVE TypeInv'
  BY <1>5 DEF RefLock, addref, relref, Goto, devVars, ctlVars, histVars
<1>6. ASSUME NEW f \in Files, ReleaseStart(f) \/ ReleaseConfig(f) \/ ReleaseWake(f)
      PROVE  TypeInv'
  BY <1>6 DEF ReleaseStart, ReleaseConfig, ReleaseWake, Goto, devVars, ctlVars, histVars
<1> HIDE DEF TypeInv
<1> QED BY <1>1, <1>2, <1>3, <1>4, <1>5, <1>6, <1>7, StepKinds DEF FileStep

-----------------------------------------------------------------------------
(* What the two mutexes guard. *)

(* Both sections exclude each other and see what they have read. *)
LEMMA LockStep == ASSUME IInv, [Next]_vars, ~torn' PROVE LockInv'
<1>0. TypeInv /\ (~torn => LockInv)
  BY DEF IInv
<1> USE <1>0, MyDeviceAssumption DEF TypeInv, Places, Opening, Leaving, LockInv, InRef
<1>1. CASE Aside
  BY <1>1, AsideKeeps
<1>2. CASE mydevice_init
  BY <1>2 DEF mydevice_init
<1>7. CASE RemoveTest \/ RemoveSignal
  BY <1>7 DEF RemoveTest, RemoveSignal, EndWait
<1>3. ASSUME NEW f \in Files, NEW w \in BOOLEAN, OpenStart(f, w) PROVE LockInv'
  BY <1>3 DEF OpenStart, Goto, devVars, ctlVars
<1>4. ASSUME NEW f \in Files, Contend(f) \/ OpenRead(f) \/ OpenTestConfig(f)
                              \/ OpenBusy(f) \/ OpenTakeConfig(f)
      PROVE  LockInv'
  BY <1>4 DEF Contend, OpenRead, OpenTestConfig, OpenBusy, OpenTakeConfig, Goto, histVars
<1>5. ASSUME NEW f \in Files, RefLock(f) \/ addref(f) \/ relref(f) PROVE LockInv'
  BY <1>5 DEF RefLock, addref, relref, Goto, histVars
<1>6. ASSUME NEW f \in Files, ReleaseStart(f) \/ ReleaseConfig(f) \/ ReleaseWake(f)
      PROVE  LockInv'
  BY <1>6 DEF ReleaseStart, ReleaseConfig, ReleaseWake, Goto, histVars
<1> HIDE DEF LockInv
<1> QED BY <1>1, <1>2, <1>3, <1>4, <1>5, <1>6, <1>7, StepKinds DEF FileStep

(* One configuring file, and the flag is set exactly while there is one. *)
LEMMA ConfigStep ==
  ASSUME IInv, [Next]_vars, ~torn' PROVE ConfigInv' /\ ConfigExclusive'
<1>0. TypeInv /\ ~torn /\ LockInv /\ ConfigInv /\ ConfigExclusive
  BY TornStays DEF IInv
<1> DEFINE Kept == ConfigInv' /\ UNCHANGED <<config_opened, is_config>>
<1>1. Kept => ConfigExclusive'
  BY <1>0 DEF ConfigExclusive
<1> USE <1>0, MyDeviceAssumption DEF TypeInv, Places, Opening, Leaving, ConfigInv
<1>2. ASSUME Aside PROVE Kept
  BY <1>2, AsideKeeps
<1>3. ASSUME mydevice_init \/ RemoveTest \/ RemoveSignal PROVE Kept
  BY <1>3 DEF mydevice_init, RemoveTest, RemoveSignal
<1>4. ASSUME NEW f \in Files, NEW w \in BOOLEAN, OpenStart(f, w) PROVE Kept
  BY <1>4 DEF OpenStart, Goto
<1>5. ASSUME NEW f \in Files, Contend(f) \/ OpenRead(f) \/ OpenTestConfig(f) \/ OpenBusy(f)
      PROVE  Kept
  BY <1>5 DEF Contend, OpenRead, OpenTestConfig, OpenBusy, Goto
<1>6. ASSUME NEW f \in Files, RefLock(f) \/ addref(f) \/ relref(f) PROVE Kept
  BY <1>6 DEF RefLock, addref, relref, Goto
<1>7. ASSUME NEW f \in Files, ReleaseStart(f) \/ ReleaseWake(f) PROVE Kept
  BY <1>7 DEF ReleaseStart, ReleaseWake, Goto
<1>8. ASSUME NEW f \in Files, OpenTakeConfig(f) PROVE ConfigInv' /\ ConfigExclusive'
  BY <1>8 DEF OpenTakeConfig, Goto, ConfigExclusive, LockInv
<1>9. ASSUME NEW f \in Files, ReleaseConfig(f) PROVE ConfigInv' /\ ConfigExclusive'
  BY <1>9 DEF ReleaseConfig, Goto, ConfigExclusive
<1> HIDE DEF ConfigInv
<1> QED
  BY <1>1, <1>2, <1>3, <1>4, <1>5, <1>6, <1>7, <1>8, <1>9, StepKinds, AsideKeeps
     DEF FileStep

-----------------------------------------------------------------------------
(* The reference count. *)

(* Only addref and relref change who is counted, each by its own file. *)
LEMMA HoldersStep ==
  ASSUME TypeInv, [Next]_vars, ~torn'
  PROVE  \/ Holders' = Holders /\ reference' = reference
         \/ \E f \in Files : addref(f) /\ Holders' = Holders \cup {f} /\ f \notin Holders
         \/ \E f \in Files : relref(f) /\ Holders' = Holders \ {f} /\ f \in Holders
<1> DEFINE Same == Holders' = Holders /\ reference' = reference
<1> USE DEF TypeInv, Holders, Counted, Places, Opening, Leaving
<1>1. CASE Aside
  BY <1>1, AsideKeeps
<1>2. CASE mydevice_init \/ RemoveTest \/ RemoveSignal
  BY <1>2 DEF mydevice_init, RemoveTest, RemoveSignal, EndWait, devVars, ctlVars
<1>3. ASSUME NEW f \in Files, NEW w \in BOOLEAN, OpenStart(f, w) PROVE Same
  BY <1>3 DEF OpenStart, Goto, devVars, ctlVars
<1>4. ASSUME NEW f \in Files, Contend(f) \/ OpenRead(f) \/ OpenTestConfig(f)
                              \/ OpenBusy(f) \/ OpenTakeConfig(f) \/ RefLock(f)
      PROVE  Same
  BY <1>4 DEF Contend, OpenRead, OpenTestConfig, OpenBusy, OpenTakeConfig, RefLock, Goto,
              histVars
<1>5. ASSUME NEW f \in Files, addref(f)
      PROVE  Holders' = Holders \cup {f} /\ f \notin Holders
  BY <1>5 DEF addref, Goto
<1>6. ASSUME NEW f \in Files, relref(f)
      PROVE  Holders' = Holders \ {f} /\ f \in Holders
  BY <1>6 DEF relref, Goto
<1>7. ASSUME NEW f \in Files, ReleaseStart(f) \/ ReleaseConfig(f) \/ ReleaseWake(f)
      PROVE  Same
  BY <1>7 DEF ReleaseStart, ReleaseConfig, ReleaseWake, Goto, histVars
<1> HIDE DEF TypeInv, Holders
<1> QED BY <1>1, <1>2, <1>3, <1>4, <1>5, <1>6, <1>7, StepKinds DEF FileStep

(* The count follows. *)
LEMMA CountStep == ASSUME IInv, [Next]_vars, ~torn' PROVE ReferenceCounts'
<1>1. LockInv /\ reference = Cardinality(Holders) /\ IsFiniteSet(Holders)
  BY TornStays, MyDeviceAssumption, FS_Subset DEF IInv, ReferenceCounts, Holders
<1>2. Cardinality(Holders) \in Nat
  BY <1>1, FS_CardinalityType
<1>3. CASE Holders' = Holders /\ reference' = reference
  BY <1>1, <1>3 DEF ReferenceCounts, Holders
<1>4. ASSUME NEW f \in Files, addref(f), Holders' = Holders \cup {f}, f \notin Holders
      PROVE  ReferenceCounts'
  <2>1. reference' = reference + 1
    BY <1>1, <1>4 DEF addref, LockInv, InRef
  <2>2. Cardinality(Holders') = Cardinality(Holders) + 1
    BY <1>1, <1>4, FS_AddElement
  <2> QED BY <1>1, <2>1, <2>2 DEF ReferenceCounts, Holders
<1>5. ASSUME NEW f \in Files, relref(f), Holders' = Holders \ {f}, f \in Holders
      PROVE  ReferenceCounts'
  <2>1. Cardinality(Holders') = Cardinality(Holders) - 1 /\ Cardinality(Holders) # 0
    BY <1>1, <1>5, FS_RemoveElement, FS_EmptySet
  <2>2. reference' = reference - 1
    BY <1>1, <1>2, <1>5, <2>1 DEF relref, LockInv, InRef
  <2> QED BY <1>1, <2>1, <2>2 DEF ReferenceCounts, Holders
<1> QED BY <1>3, <1>4, <1>5, HoldersStep DEF IInv

-----------------------------------------------------------------------------
(* The end of the wait. *)

(* A wait that no signal ended leaves only the files the count missed. *)
LEMMA DrainStep == ASSUME IInv, [Next]_vars, ~torn' PROVE DrainInv'
<1>0. TypeInv /\ ~torn /\ LockInv /\ ConfigInv /\ DrainInv /\ ReferenceCounts
  BY TornStays DEF IInv
<1> USE DEF TypeInv, Places, Opening, Leaving, DrainInv
<1>1. CASE Aside
  <2>1. dev' \in {"drained", "destroyed", "deleted", "freed"} =>
          dev \in {"drained", "destroyed", "deleted", "freed"}
    BY <1>0, <1>1 DEF Aside, vars, devVars, ProbeCreate, RemoveStart, RemoveQueue, RemoveWoken,
                RemoveTeardown, mydevread, mydevwrite
  <2> QED BY <1>0, <1>1, <2>1, AsideKeeps
<1>2. CASE mydevice_init
  BY <1>2 DEF mydevice_init
<1>3. CASE RemoveTest
  <2>1. CASE reference = 0 /\ EndWait(FALSE)
    <3>1. Holders = {}
      BY <1>0, <2>1, MyDeviceAssumption, FS_Subset, FS_EmptySet DEF ReferenceCounts, Holders
    <3> QED BY <1>0, <1>3, <2>1, <3>1 DEF RemoveTest, EndWait, Holders, Counted
  <2>2. CASE UNCHANGED <<dev, waiting, forced, late>>
    BY <1>0, <1>3, <2>2 DEF RemoveTest
  <2> QED BY <1>3, <2>1, <2>2 DEF RemoveTest
<1>4. CASE RemoveSignal
  BY <1>4 DEF RemoveSignal, EndWait
<1>5. ASSUME NEW f \in Files, NEW w \in BOOLEAN, OpenStart(f, w) PROVE DrainInv'
  BY <1>0, <1>5 DEF OpenStart, Goto, devVars, ctlVars
<1>6. ASSUME NEW f \in Files, Contend(f) \/ OpenRead(f) \/ OpenTestConfig(f)
                              \/ OpenBusy(f) \/ OpenTakeConfig(f)
      PROVE  DrainInv'
  BY <1>0, <1>6 DEF Contend, OpenRead, OpenTestConfig, OpenBusy, OpenTakeConfig, Goto,
                    devVars, ctlVars, histVars
<1>7. ASSUME NEW f \in Files, RefLock(f) \/ addref(f) \/ relref(f) PROVE DrainInv'
  BY <1>0, <1>7 DEF RefLock, addref, relref, Goto, devVars, ctlVars, histVars
<1>8. ASSUME NEW f \in Files, ReleaseStart(f) \/ ReleaseConfig(f) \/ ReleaseWake(f)
      PROVE  DrainInv'
  BY <1>0, <1>8 DEF ReleaseStart, ReleaseConfig, ReleaseWake, Goto, devVars, ctlVars, histVars
<1> HIDE DEF DrainInv
<1> QED BY <1>1, <1>2, <1>3, <1>4, <1>5, <1>6, <1>7, <1>8, StepKinds DEF FileStep

-----------------------------------------------------------------------------

(* The inductive invariant holds throughout. *)
LEMMA Inductive == Spec => []IInv
<1>1. IInv /\ [Next]_vars => IInv'
  <2> SUFFICES ASSUME IInv, [Next]_vars PROVE IInv'
    OBVIOUS
  <2>1. TypeInv'
    BY TypeStep DEF IInv
  <2>2. ~torn' => LockInv' /\ ConfigInv' /\ DrainInv' /\ ConfigExclusive' /\ ReferenceCounts'
    BY LockStep, ConfigStep, DrainStep, CountStep
  <2>3. torn' => ConfigExclusive' /\ ReferenceCounts'
    BY DEF ConfigExclusive, ReferenceCounts
  <2> QED BY <2>1, <2>2, <2>3 DEF IInv, TypeInv
<1> QED BY <1>1, InitInv, PTL DEF Spec

(* At most one file holds the right to configure, and config_opened is set *)
(* exactly while one does (mydevopen, mydevrelease).                       *)
THEOREM OneConfigures == Spec => []ConfigExclusive
  BY Inductive, PTL DEF IInv

(* mydev->reference is the number of files between addref and relref.      *)
THEOREM CountIsExact == Spec => []ReferenceCounts
  BY Inductive, PTL DEF IInv

(* Files that survive the free of the device are in one of the windows     *)
(* that mydevremove's wait does not cover.                                 *)
THEOREM WaitProtectsFiles == Spec => []DevOutlivesFiles
<1>1. IInv => DevOutlivesFiles
  BY DEF IInv, DrainInv, DevOutlivesFiles
<1> QED BY <1>1, Inductive, PTL

-----------------------------------------------------------------------------
(* What RemoveFinishes rests on besides fairness, which stays with TLC. *)

(* The wait for the count is not slept through: once it is 0, mydevremove  *)
(* has been woken or a release is about to wake it.                        *)
WakeInv ==
  wait = "asleep" /\ reference = 0 => ~waiting \/ \E f \in Files : pc[f] = "wake"

(* mydevremove never waits for nobody: while it sleeps unwoken there is a  *)
(* file still to be released, or a release before its wake_up, on a device *)
(* whose memory is there; and who waits for a mutex waits for a file in    *)
(* its section, where it waits for nothing.                                *)
NeverWaitsForNobody ==
  ~torn /\ wait # "none" =>
    /\ Alive
    /\ wait = "asleep" /\ waiting => \E f \in Files : pc[f] \in Counted \cup {"wake"}
    /\ reflock # NoFile => reflock \in Files /\ InRef(reflock)
    /\ configlock # NoFile => configlock \in Files /\ pc[configlock] = "config"

(* No wake-up is lost between the test of the count, the queueing and the  *)
(* sleep.                                                                  *)
LEMMA WakeStep == ASSUME TypeInv, WakeInv, [Next]_vars PROVE WakeInv'
<1> USE DEF TypeInv, WakeInv
<1>1. CASE UNCHANGED vars
  BY <1>1 DEF vars, ctlVars
<1>2. CASE ProbeCreate \/ mydevice_init
  BY <1>2 DEF ProbeCreate, mydevice_init, ctlVars
<1>3. CASE RemoveStart \/ RemoveQueue \/ RemoveWoken
  BY <1>3 DEF RemoveStart, RemoveQueue, RemoveWoken
<1>4. CASE RemoveTest \/ RemoveSignal
  BY <1>4 DEF RemoveTest, RemoveSignal, EndWait
<1>5. CASE RemoveTeardown
  BY <1>5 DEF RemoveTeardown, ctlVars
<1>6. ASSUME NEW f \in Files, mydevread(f) \/ \E v \in Configs : mydevwrite(f, v)
      PROVE  WakeInv'
  BY <1>6 DEF mydevread, mydevwrite, ctlVars
<1>7. ASSUME NEW f \in Files, NEW w \in BOOLEAN, OpenStart(f, w) PROVE WakeInv'
  BY <1>7 DEF OpenStart, Goto, ctlVars
<1>8. ASSUME NEW f \in Files, Contend(f) \/ OpenRead(f) \/ OpenTestConfig(f) \/ OpenBusy(f)
                              \/ OpenTakeConfig(f) \/ RefLock(f)
      PROVE  WakeInv'
  BY <1>8 DEF Contend, OpenRead, OpenTestConfig, OpenBusy, OpenTakeConfig, RefLock, Goto, ctlVars
<1>9. ASSUME NEW f \in Files, addref(f) \/ relref(f) PROVE WakeInv'
  BY <1>9 DEF addref, relref, Goto, ctlVars
<1>10. ASSUME NEW f \in Files, ReleaseStart(f) \/ ReleaseConfig(f) \/ ReleaseWake(f)
       PROVE  WakeInv'
  BY <1>10 DEF ReleaseStart, ReleaseConfig, ReleaseWake, Goto, ctlVars
<1> HIDE DEF TypeInv, WakeInv
<1> QED BY <1>1, <1>2, <1>3, <1>4, <1>5, <1>6, <1>7, <1>8, <1>9, <1>10 DEF Next, Remove, FileStep

(* For any number of files, the wait of mydevremove ends with the last     *)
(* release and cannot deadlock with the mutexes: no wake-up is lost, every *)
(* count it waits for belongs to a file, every held mutex to a file that   *)
(* is about to unlock it.                                                  *)
THEOREM RemoveNotForgotten == Spec => []NeverWaitsForNobody
<1>1. Init => WakeInv
  BY DEF Init, WakeInv
<1>2. IInv /\ WakeInv /\ [Next]_vars => WakeInv'
  BY WakeStep DEF IInv
<1>3. Spec => []WakeInv
  BY <1>1, <1>2, Inductive, PTL DEF Spec
<1>4. ASSUME IInv, WakeInv PROVE NeverWaitsForNobody
  <2> SUFFICES ASSUME ~torn, wait # "none"
               PROVE  /\ Alive
                      /\ wait = "asleep" /\ waiting =>
                           \E f \in Files : pc[f] \in Counted \cup {"wake"}
                      /\ reflock # NoFile => reflock \in Files /\ InRef(reflock)
                      /\ configlock # NoFile => configlock \in Files /\ pc[configlock] = "config"
    BY DEF NeverWaitsForNobody
  <2>1. TypeInv /\ LockInv /\ ReferenceCounts
    BY <1>4 DEF IInv
  <2>2. Alive
    BY <2>1 DEF TypeInv, Alive
  <2>3. /\ reflock # NoFile => reflock \in Files /\ InRef(reflock)
        /\ configlock # NoFile => configlock \in Files /\ pc[configlock] = "config"
    BY <2>1 DEF TypeInv, LockInv
  <2>4. ASSUME wait = "asleep", waiting PROVE \E f \in Files : pc[f] \in Counted \cup {"wake"}
    <3>1. CASE reference = 0
      BY <1>4, <2>4, <3>1 DEF WakeInv
    <3>2. CASE reference # 0
      <4>1. Holders # {}
        BY <2>1, <3>2, FS_EmptySet DEF ReferenceCounts, Holders
      <4> QED BY <4>1 DEF Holders
    <3> QED BY <3>1, <3>2
  <2> QED BY <2>2, <2>3, <2>4
<1> QED BY <1>3, <1>4, Inductive, PTL

=============================================================================
