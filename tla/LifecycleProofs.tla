-------------------------- MODULE LifecycleProofs --------------------------
(***************************************************************************)
(* The life cycle of every driver: what holds whatever its functions do,   *)
(* and what follows from criteria that can be read off its table without   *)
(* running it.  Nothing is assumed about the tables; the criteria are      *)
(* hypotheses, and the last part shows that drivers of the repository meet *)
(* them.                                                                   *)
(***************************************************************************)
EXTENDS MCLifecycle, SequenceTheorems, TLAPS

(* What the kernel promises a file that holds a reference to the module,   *)
(* whatever the driver: only a failing init pulls the module away from it. *)
PinnedModuleStays == file = "pinned" => mod \in {"init", "in", "undo", "failed"}

(* The file of a process takes a reference only while the module can be    *)
(* referenced, and rmmod refuses a referenced module.                      *)
LEMMA PinnedInit == Init => PinnedModuleStays
  BY DEF Init, PinnedModuleStays

(* No operation of any table, and no step of a file, frees a pinned        *)
(* module.                                                                 *)
LEMMA PinnedNext == PinnedModuleStays /\ [Next]_vars => PinnedModuleStays'
<1> SUFFICES ASSUME PinnedModuleStays, [Next]_vars PROVE PinnedModuleStays'
    OBVIOUS
<1>1. CASE UNCHANGED vars
  BY <1>1 DEF vars, PinnedModuleStays
<1>2. CASE ModNext
  <2>1. CASE Load \/ Loaded \/ Unload \/ FreeText \/ InitFails
    BY <2>1 DEF Load, Loaded, Unload, FreeText, InitFails, PinnedModuleStays
  <2>2. CASE OptFails("mod") \/ Acquire("mod") \/ TryFails("mod")
    BY <2>2 DEF OptFails, Acquire, TryFails, PinnedModuleStays
  <2>3. CASE Release("mod")
    BY <2>3 DEF Release, PinnedModuleStays
  <2> QED BY <1>2, <2>1, <2>2, <2>3 DEF ModNext, Step
<1>3. CASE DevNext
  <2>1. CASE Probe \/ Bound \/ Unbind \/ Removed \/ DevresRelease \/ Unbound \/ ProbeFails
    BY <2>1 DEF Probe, Bound, Unbind, Removed, DevresRelease, Unbound, ProbeFails,
                PinnedModuleStays
  <2>2. CASE Acquire("dev") \/ TryFails("dev") \/ Release("dev")
    BY <2>2 DEF Acquire, TryFails, Release, PinnedModuleStays
  <2> QED BY <1>3, <2>1, <2>2 DEF DevNext, Step
<1>4. CASE FileNext
  BY <1>4 DEF FileNext, Open, OpenPins, Close, Alive, PinnedModuleStays
<1> QED BY <1>1, <1>2, <1>3, <1>4 DEF Next

-----------------------------------------------------------------------------
(* What is asked of the functions of a driver.  The criteria below look at *)
(* a table only, never at a state.                                         *)

(* What is in a sequence; s is one, whatever its elements are. *)
Elements(s) == {s[i] : i \in DOMAIN s}

IsSeq(s) == s \in Seq(Elements(s))

(* All that the operations of s name, and all that goes when they release. *)
Names(s) == UNION {s[i].rs : i \in DOMAIN s}

Freed(s) == UNION {WithParts(s[i].rs) : i \in DOMAIN s}

(* s only releases, and nothing of X. *)
Undoes(s, X) ==
  /\ IsSeq(s)
  /\ \A i \in DOMAIN s : s[i].op \in {"put", "drop", "spoil"} /\ WithParts(s[i].rs) \cap X = {}

Fails(o) == o.op \in {"get", "devm", "need"}

(* s only acquires, in one of the ways K, and nothing of X. *)
Acquires(s, K, X) ==
  /\ IsSeq(s)
  /\ \A i \in DOMAIN s : /\ s[i].op \in K
                         /\ WithParts(s[i].rs) \cap X = {}
                         /\ s[i].op = "try" => s[i].undo = <<>>
                         /\ Fails(s[i]) => Undoes(s[i].undo, X)

(* Probe and remove leave alone what the module holds for the device. *)
Kept(T) == {"text", "class", "region", "bus"} \union T.anchors

ProbeKinds == {"get", "devm", "set"}

DeviceSide(T) == Acquires(T.probe, ProbeKinds, Kept(T)) /\ Undoes(T.remove, Kept(T))

(* The operations of an init function, with those that run when a tried    *)
(* one fails, two levels deep as in myintfinit.                            *)
WithAlternatives(S) ==
  S \union UNION {Elements(o.undo) : o \in {x \in S : x.op = "try"}}

Body(s) == WithAlternatives(WithAlternatives(Elements(s)))

(* No managed resource in a function of the module, which has no device;   *)
(* error paths and exit only release.                                      *)
ModuleSide(T) ==
  /\ T.init \in Seq(Body(T.init))
  /\ \A o \in Body(T.init) : /\ o.op # "devm"
                             /\ o.op = "try" => o.undo \in Seq(Body(T.init))
                             /\ Fails(o) => Undoes(o.undo, {})
  /\ Undoes(T.exit, {})

Regular(T) == ModuleSide(T) /\ DeviceSide(T)

-----------------------------------------------------------------------------
(* The phases of the two threads, for every table. *)
Shape ==
  /\ mod \in {"new", "init", "undo", "in", "exit", "failed", "gone"}
  /\ dev \in {"unbound", "probe", "undo", "bound", "remove", "release"}
  /\ todo = [mod |-> todo.mod, dev |-> todo.dev]
  /\ mod \in {"new", "in", "failed", "gone"} => todo.mod = <<>>
  /\ dev \in {"unbound", "bound", "release"} => todo.dev = <<>>
  /\ mod = "new" => held = {} /\ dev = "unbound"
  /\ dev # "unbound" => Table[d].anchors # {}

(* What the device's thread still has to do. *)
DevShape ==
  /\ dev = "probe" => Acquires(todo.dev, ProbeKinds, Kept(Table[d]))
  /\ dev \in {"undo", "remove"} => Undoes(todo.dev, Kept(Table[d]))
  /\ IsSeq(devres)
  /\ \A i \in DOMAIN devres : WithParts(devres[i]) \cap Kept(Table[d]) = {}

(* What the module's thread still has to do. *)
ModShape ==
  /\ mod = "init" => todo.mod \in Seq(Body(Table[d].init))
  /\ mod \in {"undo", "exit"} => Undoes(todo.mod, {})

(* Every sequence is a sequence of its own elements. *)
LEMMA OwnElements == ASSUME NEW S, NEW s \in Seq(S) PROVE IsSeq(s)
<1> DEFINE R == {s[i] : i \in DOMAIN s}
<1>1. Len(s) \in Nat /\ DOMAIN s = 1 .. Len(s) /\ s \in [1 .. Len(s) -> S]
  OBVIOUS
<1>2. s \in [1 .. Len(s) -> R]
  BY <1>1
<1>3. s \in Seq(R)
  BY <1>1, <1>2, SeqDef
<1> QED BY <1>3 DEF IsSeq, Elements

(* The rest of a sequence. *)
LEMMA TailOf ==
  ASSUME NEW s, IsSeq(s), s # <<>>
  PROVE /\ 1 \in DOMAIN s /\ Head(s) = s[1] /\ Len(s) \in Nat /\ DOMAIN s = 1 .. Len(s)
        /\ IsSeq(Tail(s)) /\ Len(Tail(s)) = Len(s) - 1
        /\ DOMAIN Tail(s) = 1 .. Len(Tail(s))
        /\ \A i \in DOMAIN Tail(s) : i + 1 \in DOMAIN s /\ Tail(s)[i] = s[i + 1]
<1> DEFINE S == {s[i] : i \in DOMAIN s}
<1>1. s \in Seq(S) /\ s # <<>>
  BY DEF IsSeq, Elements
<1> HIDE DEF S
<1>2. /\ Len(s) \in Nat /\ DOMAIN s = 1 .. Len(s) /\ 1 \in DOMAIN s /\ Head(s) = s[1]
      /\ Tail(s) \in Seq(S) /\ Len(Tail(s)) = Len(s) - 1 /\ DOMAIN Tail(s) = 1 .. Len(Tail(s))
      /\ \A i \in DOMAIN Tail(s) : i + 1 \in DOMAIN s /\ Tail(s)[i] = s[i + 1]
  BY <1>1
<1>3. IsSeq(Tail(s))
  BY <1>2, OwnElements
<1> QED BY <1>2, <1>3

(* The empty sequence is one. *)
LEMMA EmptyIsSeq == IsSeq(<<>>)
  BY DEF IsSeq, Elements

(* A sequence with one more element in front. *)
LEMMA ConsOf ==
  ASSUME NEW s, IsSeq(s), NEW x
  PROVE /\ IsSeq(<<x>> \o s) /\ DOMAIN (<<x>> \o s) = 1 .. (Len(s) + 1)
        /\ Len(s) \in Nat /\ DOMAIN s = 1 .. Len(s)
        /\ (<<x>> \o s)[1] = x
        /\ \A i \in DOMAIN s : (<<x>> \o s)[i + 1] = s[i]
        /\ \A i \in DOMAIN (<<x>> \o s) :
             i = 1 \/ (i - 1 \in DOMAIN s /\ (<<x>> \o s)[i] = s[i - 1])
<1> DEFINE S == {s[i] : i \in DOMAIN s} \union {x}
<1>1. s \in Seq(S) /\ x \in S
  BY DEF IsSeq, Elements
<1> HIDE DEF S
<1>2. /\ <<x>> \o s \in Seq(S) /\ Len(s) \in Nat /\ DOMAIN s = 1 .. Len(s)
      /\ Len(<<x>> \o s) = Len(s) + 1 /\ (<<x>> \o s)[1] = x
      /\ \A i \in 1 .. Len(s) : (<<x>> \o s)[i + 1] = s[i]
  BY <1>1
<1>3. \A i \in 1 .. (Len(s) + 1) : i = 1 \/ (i - 1 \in 1 .. Len(s) /\ (<<x>> \o s)[i] = s[i - 1])
  BY <1>2
<1>4. DOMAIN (<<x>> \o s) = 1 .. (Len(s) + 1)
  BY <1>2
<1>5. IsSeq(<<x>> \o s)
  BY <1>2, OwnElements
<1> QED BY <1>2, <1>3, <1>4, <1>5

(* What is left of a sequence of releases, or of acquisitions, is one. *)
LEMMA UndoesTail ==
  ASSUME NEW s, NEW X, Undoes(s, X), s # <<>>
  PROVE Undoes(Tail(s), X)
  BY TailOf DEF Undoes

(* What is left of a sequence of acquisitions is one. *)
LEMMA AcquiresTail ==
  ASSUME NEW s, NEW K, NEW X, Acquires(s, K, X), s # <<>>
  PROVE Acquires(Tail(s), K, X)
  BY TailOf DEF Acquires

(* The phases and the program of each thread fit, whatever the tables say. *)
LEMMA ShapeInit == Init => Shape
  BY DEF Init, Shape

(* Every step keeps phases and programs together. *)
LEMMA ShapeNext == Shape /\ [Next]_vars => Shape'
<1> SUFFICES ASSUME Shape, [Next]_vars PROVE Shape'
    OBVIOUS
<1> USE DEF Busy
<1>1. CASE UNCHANGED vars
  BY <1>1 DEF vars, Shape
<1>2. CASE Load
  BY <1>2 DEF Load, Shape
<1>3. CASE Loaded
  BY <1>3 DEF Loaded, Shape
<1>4. CASE Unload
  BY <1>4 DEF Unload, Shape
<1>5. CASE FreeText
  BY <1>5 DEF FreeText, Shape
<1>6. CASE InitFails
  BY <1>6 DEF InitFails, Shape
<1>7. CASE OptFails("mod")
  BY <1>7 DEF OptFails, Shape
<1>8. ASSUME NEW t \in {"mod", "dev"}, Acquire(t) PROVE Shape'
  <2>1. /\ todo[t] # <<>> /\ todo' = [todo EXCEPT ![t] = Tail(@)]
        /\ UNCHANGED <<d, mod, dev>>
    BY <1>8 DEF Acquire
  <2>2. mod # "new"
    BY <2>1 DEF Shape
  <2> QED BY <2>1, <2>2 DEF Shape
<1>9. ASSUME NEW t \in {"mod", "dev"}, TryFails(t) PROVE Shape'
  <2>1. /\ todo[t] # <<>> /\ todo' = [todo EXCEPT ![t] = Op1(t).undo \o Tail(@)]
        /\ UNCHANGED <<d, mod, dev, held>>
    BY <1>9 DEF TryFails
  <2> QED BY <2>1 DEF Shape
<1>10. ASSUME NEW t \in {"mod", "dev"}, Release(t) PROVE Shape'
  <2>1. /\ todo[t] # <<>> /\ todo' = [todo EXCEPT ![t] = Tail(@)]
        /\ UNCHANGED <<d, mod, dev>>
    BY <1>10 DEF Release
  <2>2. mod # "new"
    BY <2>1 DEF Shape
  <2> QED BY <2>1, <2>2 DEF Shape
<1>11. CASE Probe
  BY <1>11 DEF Probe, Shape
<1>12. CASE Bound \/ Removed \/ Unbound
  BY <1>12 DEF Bound, Removed, Unbound, Shape
<1>13. CASE Unbind
  BY <1>13 DEF Unbind, Shape
<1>14. CASE DevresRelease
  BY <1>14 DEF DevresRelease, Shape
<1>15. CASE ProbeFails
  BY <1>15 DEF ProbeFails, Shape
<1>16. CASE FileNext
  BY <1>16 DEF FileNext, Open, OpenPins, Close, Shape
<1> QED
  BY <1>1, <1>2, <1>3, <1>4, <1>5, <1>6, <1>7, <1>8, <1>9, <1>10, <1>11, <1>12, <1>13,
     <1>14, <1>15, <1>16 DEF Next, ModNext, DevNext, Step

(* Under regular tables each thread runs what its phase allows. *)
LEMMA ShapesInit == Regular(Table[d]) /\ Init => DevShape /\ ModShape
  BY EmptyIsSeq DEF Init, DevShape, ModShape

(* The module: error paths and exit only release. *)
LEMMA ModShapeNext ==
  ASSUME Regular(Table[d]), Shape, ModShape, [Next]_vars
  PROVE  ModShape'
<1> USE DEF Busy
<1> DEFINE B == Body(Table[d].init)
<1>00. ModuleSide(Table[d])
  BY DEF Regular
<1>0. /\ Table[d].init \in Seq(B) /\ Undoes(Table[d].exit, {})
      /\ \A o \in B : /\ o.op = "try" => o.undo \in Seq(B)
                      /\ Fails(o) => Undoes(o.undo, {})
  BY <1>00 DEF ModuleSide
<1>a. ModShape = /\ mod = "init" => todo.mod \in Seq(B)
                 /\ mod \in {"undo", "exit"} => Undoes(todo.mod, {})
  BY DEF ModShape
<1>b. ASSUME d' = d
      PROVE ModShape' = /\ mod' = "init" => todo'.mod \in Seq(B)
                        /\ mod' \in {"undo", "exit"} => Undoes(todo'.mod, {})
  BY <1>b DEF ModShape
<1> HIDE DEF B
<1>1. CASE UNCHANGED vars
  BY <1>1, <1>a, <1>b DEF vars
<1>2. CASE Load
  <2>1. mod' = "init" /\ todo'.mod = Table[d].init /\ d' = d
    BY <1>2 DEF Load, Shape
  <2> QED BY <2>1, <1>0, <1>b
<1>3. CASE Loaded
  BY <1>3, <1>a, <1>b DEF Loaded
<1>4. CASE Unload
  <2>1. mod' = "exit" /\ todo'.mod = Table[d].exit /\ d' = d
    BY <1>4 DEF Unload, Shape
  <2> QED BY <2>1, <1>0, <1>b
<1>5. CASE FreeText
  BY <1>5, <1>a, <1>b DEF FreeText, Shape
<1>6. CASE InitFails
  <2>1. /\ mod' = "undo" /\ todo'.mod = Head(todo.mod).undo /\ d' = d
        /\ mod = "init" /\ todo.mod # <<>> /\ Fails(Head(todo.mod))
    BY <1>6 DEF InitFails, Shape, Op1, Fails
  <2>2. Head(todo.mod) \in B
    BY <2>1, <1>a
  <2> QED BY <2>1, <2>2, <1>0, <1>b
<1>7. CASE OptFails("mod")
  <2>1. mod' = mod /\ todo'.mod = <<>> /\ d' = d
    BY <1>7 DEF OptFails, Shape
  <2>2. Undoes(<<>>, {})
    BY EmptyIsSeq DEF Undoes
  <2> QED BY <2>1, <2>2, <1>b
<1>8. CASE Acquire("mod") \/ Release("mod")
  <2>1. mod' = mod /\ todo'.mod = Tail(todo.mod) /\ todo.mod # <<>> /\ d' = d
    BY <1>8 DEF Acquire, Release, Shape
  <2>2. mod = "init" => Tail(todo.mod) \in Seq(B)
    BY <2>1, <1>a
  <2>3. mod \in {"undo", "exit"} => Undoes(Tail(todo.mod), {})
    BY <2>1, <1>a, UndoesTail
  <2> QED BY <2>1, <2>2, <2>3, <1>b
<1>9. CASE TryFails("mod")
  <2>1. /\ mod' = mod /\ todo'.mod = Head(todo.mod).undo \o Tail(todo.mod) /\ todo.mod # <<>>
        /\ Head(todo.mod).op = "try" /\ d' = d
    BY <1>9 DEF TryFails, Shape, Op1
  <2>2. mod = "init" => todo'.mod \in Seq(B)
    BY <2>1, <1>0, <1>a
  <2>3. mod \notin {"undo", "exit"}
    <3>1. SUFFICES ASSUME Undoes(todo.mod, {}) PROVE FALSE
      BY <1>a
    <3> QED BY <3>1, <2>1, TailOf DEF Undoes
  <2> QED BY <2>1, <2>2, <2>3, <1>b
<1>10. CASE \/ Probe \/ Bound \/ Unbind \/ Removed \/ DevresRelease \/ Unbound
            \/ ProbeFails \/ Step("dev") \/ FileNext
  <2>1. mod' = mod /\ todo'.mod = todo.mod /\ d' = d
    BY <1>10 DEF Probe, Bound, Unbind, Removed, DevresRelease, Unbound, ProbeFails, Step,
                 Acquire, TryFails, Release, FileNext, Open, OpenPins, Close, Shape
  <2> QED BY <2>1, <1>a, <1>b
<1> QED
  BY <1>1, <1>2, <1>3, <1>4, <1>5, <1>6, <1>7, <1>8, <1>9, <1>10
     DEF Next, ModNext, DevNext, Step

(* The device: probe acquires, error paths and remove release. *)
LEMMA DevShapeNext ==
  ASSUME Regular(Table[d]), Shape, ModShape, DevShape, [Next]_vars
  PROVE  DevShape'
<1> USE DEF Busy
<1> DEFINE X == Kept(Table[d])
<1>0. Acquires(Table[d].probe, ProbeKinds, X) /\ Undoes(Table[d].remove, X)
  BY DEF Regular, DeviceSide
<1>a. /\ dev = "probe" => Acquires(todo.dev, ProbeKinds, X)
      /\ dev \in {"undo", "remove"} => Undoes(todo.dev, X)
      /\ IsSeq(devres)
      /\ \A i \in DOMAIN devres : WithParts(devres[i]) \cap X = {}
  BY DEF DevShape
<1>b. ASSUME d' = d,
             dev' = "probe" => Acquires(todo'.dev, ProbeKinds, X),
             dev' \in {"undo", "remove"} => Undoes(todo'.dev, X),
             IsSeq(devres'),
             \A i \in DOMAIN devres' : WithParts(devres'[i]) \cap X = {}
      PROVE DevShape'
  BY <1>b DEF DevShape
<1> HIDE DEF X
<1>1. CASE UNCHANGED vars
  BY <1>1, <1>a, <1>b DEF vars
<1>2. CASE \/ Load \/ Loaded \/ Unload \/ FreeText \/ InitFails \/ OptFails("mod")
           \/ TryFails("mod") \/ Release("mod") \/ FileNext
  <2>1. dev' = dev /\ todo'.dev = todo.dev /\ d' = d /\ devres' = devres
    BY <1>2 DEF Load, Loaded, Unload, FreeText, InitFails, OptFails, TryFails, Release,
                FileNext, Open, OpenPins, Close, Shape
  <2> QED BY <2>1, <1>a, <1>b
<1>3. CASE Acquire("mod")
  <2>1. dev' = dev /\ todo'.dev = todo.dev /\ d' = d /\ todo.mod # <<>>
    BY <1>3 DEF Acquire, Shape
  <2>2. Head(todo.mod).op # "devm"
    <3>1. CASE mod = "init"
      <4>1. Head(todo.mod) \in Body(Table[d].init)
        BY <3>1, <2>1 DEF ModShape
      <4> QED BY <4>1 DEF Regular, ModuleSide
    <3>2. CASE mod \in {"undo", "exit"}
      BY <3>2, <2>1, TailOf DEF ModShape, Undoes
    <3> QED BY <3>1, <3>2, <2>1 DEF Shape
  <2>3. devres' = devres
    BY <2>2, <1>3 DEF Acquire, Op1
  <2> QED BY <2>1, <2>3, <1>a, <1>b
<1>4. CASE Probe
  <2>1. dev' = "probe" /\ todo'.dev = Table[d].probe /\ d' = d /\ devres' = devres
    BY <1>4 DEF Probe, Shape
  <2> QED BY <2>1, <1>0, <1>a, <1>b
<1>5. CASE Bound \/ Removed \/ Unbound
  BY <1>5, <1>a, <1>b DEF Bound, Removed, Unbound
<1>6. CASE Unbind
  <2>1. dev' = "remove" /\ todo'.dev = Table[d].remove /\ d' = d /\ devres' = devres
    BY <1>6 DEF Unbind, Shape
  <2> QED BY <2>1, <1>0, <1>a, <1>b
<1>7. CASE DevresRelease
  <2>1. /\ dev' = "release" /\ d' = d /\ devres # <<>> /\ devres' = Tail(devres)
    BY <1>7 DEF DevresRelease
  <2>2. IsSeq(devres') /\ \A i \in DOMAIN devres' : WithParts(devres'[i]) \cap X = {}
    BY <2>1, <1>a, TailOf
  <2> QED BY <2>1, <2>2, <1>b
<1>8. CASE ProbeFails
  <2>1. /\ dev = "probe" /\ dev' = "undo" /\ d' = d /\ todo.dev # <<>> /\ devres' = devres
        /\ todo'.dev = Head(todo.dev).undo /\ Fails(Head(todo.dev))
    BY <1>8 DEF ProbeFails, Shape, Op1, Fails
  <2>2. Undoes(Head(todo.dev).undo, X)
    BY <2>1, <1>a, TailOf DEF Acquires
  <2> QED BY <2>1, <2>2, <1>a, <1>b
<1>9. CASE Acquire("dev")
  <2>1. /\ dev' = dev /\ d' = d /\ todo.dev # <<>> /\ todo'.dev = Tail(todo.dev)
        /\ ~ Releases(Head(todo.dev))
        /\ devres' = IF Head(todo.dev).op = "devm" /\ Head(todo.dev).rs # {}
                       THEN <<Head(todo.dev).rs>> \o devres ELSE devres
    BY <1>9 DEF Acquire, Shape, Op1
  <2>2. dev = "probe"
    <3>1. dev \notin {"undo", "remove"}
      BY <2>1, <1>a, TailOf DEF Undoes, Releases
    <3> QED BY <3>1, <2>1 DEF Shape
  <2>3. Acquires(Tail(todo.dev), ProbeKinds, X) /\ WithParts(Head(todo.dev).rs) \cap X = {}
    BY <2>1, <2>2, <1>a, TailOf, AcquiresTail DEF Acquires
  <2>4. IsSeq(devres') /\ \A i \in DOMAIN devres' : WithParts(devres'[i]) \cap X = {}
    <3>1. CASE devres' = devres
      BY <3>1, <1>a
    <3>2. CASE devres' = <<Head(todo.dev).rs>> \o devres
      <4> DEFINE x == Head(todo.dev).rs
      <4>1. /\ IsSeq(<<x>> \o devres) /\ (<<x>> \o devres)[1] = x
            /\ \A i \in DOMAIN (<<x>> \o devres) :
                 i = 1 \/ (i - 1 \in DOMAIN devres /\ (<<x>> \o devres)[i] = devres[i - 1])
        BY <1>a, ConsOf
      <4> QED BY <4>1, <3>2, <1>a, <2>3
    <3> QED BY <3>1, <3>2, <2>1
  <2> QED BY <2>1, <2>2, <2>3, <2>4, <1>b
<1>10. CASE TryFails("dev")
  <2>1. todo.dev # <<>> /\ Head(todo.dev).op = "try"
    BY <1>10 DEF TryFails, Op1
  <2>2. dev \notin {"probe", "undo", "remove"}
    BY <2>1, <1>a, TailOf DEF Undoes, Acquires, ProbeKinds
  <2> QED BY <2>1, <2>2 DEF Shape
<1>11. CASE Release("dev")
  <2>1. /\ dev' = dev /\ d' = d /\ todo.dev # <<>> /\ todo'.dev = Tail(todo.dev)
        /\ devres' = devres
    BY <1>11 DEF Release, Shape
  <2>2. /\ dev = "probe" => Acquires(todo'.dev, ProbeKinds, X)
        /\ dev \in {"undo", "remove"} => Undoes(todo'.dev, X)
    BY <2>1, <1>a, UndoesTail, AcquiresTail
  <2> QED BY <2>1, <2>2, <1>a, <1>b
<1> QED
  BY <1>1, <1>2, <1>3, <1>4, <1>5, <1>6, <1>7, <1>8, <1>9, <1>10, <1>11
     DEF Next, ModNext, DevNext, Step

-----------------------------------------------------------------------------
(* Init, with its alternatives, gives up nothing that probe acquires, and  *)
(* callbacks rely on nothing else.                                         *)
Complete(T) ==
  /\ Regular(T)
  /\ \A o \in Body(T.init) :
       Releases(o) => WithParts(o.rs) \cap ({"text"} \union Names(T.probe)) = {}
  /\ \A c \in T.calls : T.anchors # {} => c.uses \subseteq Names(T.probe)

(* What a running probe has not acquired yet it is still going to acquire. *)
ReadyInv ==
  Alive => /\ "text" \in held
           /\ dev = "probe" => Names(Table[d].probe) \subseteq held \union Names(todo.dev)
           /\ dev = "bound" => Names(Table[d].probe) \subseteq held

(* The first operation and the others. *)
LEMMA NamesTail ==
  ASSUME NEW s, IsSeq(s), s # <<>>
  PROVE  Names(s) \subseteq Head(s).rs \union Names(Tail(s))
<1> SUFFICES ASSUME NEW i \in DOMAIN s, NEW r \in s[i].rs
             PROVE r \in Head(s).rs \/ r \in Names(Tail(s))
    BY DEF Names
<1>1. CASE i = 1
  BY <1>1, TailOf
<1>2. CASE i # 1
  <2>1. i - 1 \in DOMAIN Tail(s) /\ Tail(s)[i - 1] = s[i]
    BY <1>2, TailOf
  <2> QED BY <2>1 DEF Names
<1> QED BY <1>1, <1>2

(* A release takes away no more than the parts of what it names. *)
LEMMA ReleaseKeeps ==
  ASSUME NEW t \in {"mod", "dev"}, Shape, Release(t)
  PROVE  held \ WithParts(Head(todo[t]).rs) \subseteq held'
  BY DEF Release, Op1

(* No step takes away what a bound device has. *)
LEMMA ReadyNext ==
  ASSUME Complete(Table[d]), Shape, ModShape, DevShape, ReadyInv, [Next]_vars
  PROVE  ReadyInv'
<1> USE DEF Busy
<1> DEFINE G == Names(Table[d].probe)
<1>a. Alive => /\ "text" \in held
               /\ dev = "probe" => G \subseteq held \union Names(todo.dev)
               /\ dev = "bound" => G \subseteq held
  BY DEF ReadyInv
<1>b. ASSUME d' = d, Alive' => /\ "text" \in held'
                               /\ dev' = "probe" => G \subseteq held' \union Names(todo'.dev)
                               /\ dev' = "bound" => G \subseteq held'
      PROVE ReadyInv'
  BY <1>b DEF ReadyInv
<1> HIDE DEF G
<1>1. CASE UNCHANGED vars
  BY <1>1, <1>a, <1>b DEF vars, Alive
<1>2. CASE Load
  BY <1>2, <1>b DEF Load, Shape
<1>3. CASE Loaded
  BY <1>3, <1>a, <1>b DEF Loaded, Alive
<1>4. CASE Unload \/ FreeText \/ InitFails
  <2>1. d' = d /\ ~ Alive'
    BY <1>4 DEF Unload, FreeText, InitFails, Alive
  <2> QED BY <2>1, <1>b
<1>5. CASE OptFails("mod") \/ TryFails("mod") \/ FileNext
  <2>1. UNCHANGED <<d, mod, dev, held>> /\ todo'.dev = todo.dev
    BY <1>5 DEF OptFails, TryFails, FileNext, Open, OpenPins, Close, Shape
  <2> QED BY <2>1, <1>a, <1>b DEF Alive
<1>6. CASE Acquire("mod")
  <2>1. UNCHANGED <<d, mod, dev>> /\ todo'.dev = todo.dev /\ held \subseteq held'
    BY <1>6 DEF Acquire, Shape
  <2> QED BY <2>1, <1>a, <1>b DEF Alive
<1>7. CASE Release("mod")
  <2>1. /\ UNCHANGED <<d, mod, dev>> /\ todo'.dev = todo.dev /\ todo.mod # <<>>
        /\ Releases(Head(todo.mod))
    BY <1>7 DEF Release, Shape, Op1
  <2>2. Alive => WithParts(Head(todo.mod).rs) \cap ({"text"} \union G) = {}
    <3> SUFFICES ASSUME Alive PROVE WithParts(Head(todo.mod).rs) \cap ({"text"} \union G) = {}
        OBVIOUS
    <3>1. mod = "init"
      BY <2>1 DEF Alive, Shape
    <3>2. Head(todo.mod) \in Body(Table[d].init)
      BY <3>1, <2>1 DEF ModShape
    <3> QED BY <3>2, <2>1 DEF Complete, G
  <2> QED BY <2>1, <2>2, <1>7, <1>a, <1>b, ReleaseKeeps DEF Alive
<1>8. CASE Probe
  <2>1. UNCHANGED <<d, mod, held>> /\ dev' = "probe" /\ todo'.dev = Table[d].probe
    BY <1>8 DEF Probe, Shape
  <2> QED BY <2>1, <1>a, <1>b DEF Alive, G
<1>9. CASE Bound
  <2>1. UNCHANGED <<d, mod, held>> /\ dev = "probe" /\ dev' = "bound" /\ todo.dev = <<>>
    BY <1>9 DEF Bound
  <2>2. Names(todo.dev) = {}
    BY <2>1 DEF Names
  <2> QED BY <2>1, <2>2, <1>a, <1>b DEF Alive
<1>10. CASE Unbind \/ Removed \/ Unbound \/ ProbeFails
  <2>1. UNCHANGED <<d, mod, held>> /\ dev' \notin {"probe", "bound"}
    BY <1>10 DEF Unbind, Removed, Unbound, ProbeFails
  <2> QED BY <2>1, <1>a, <1>b DEF Alive
<1>11. CASE DevresRelease
  <2>1. UNCHANGED <<d, mod>> /\ dev' = "release" /\ held' = held \ WithParts(Head(devres))
        /\ devres # <<>>
    BY <1>11 DEF DevresRelease
  <2>2. "text" \notin WithParts(Head(devres))
    BY <2>1, TailOf DEF DevShape, Kept
  <2> QED BY <2>1, <2>2, <1>a, <1>b DEF Alive
<1>12. CASE Acquire("dev")
  <2>1. /\ UNCHANGED <<d, mod, dev>> /\ todo.dev # <<>> /\ todo'.dev = Tail(todo.dev)
        /\ held' = held \union Head(todo.dev).rs
    BY <1>12 DEF Acquire, Shape, Op1
  <2>2. dev = "probe" => Names(todo.dev) \subseteq Head(todo.dev).rs \union Names(Tail(todo.dev))
    BY <2>1, NamesTail DEF DevShape, Acquires
  <2> QED BY <2>1, <2>2, <1>a, <1>b DEF Alive
<1>13. CASE TryFails("dev")
  <2>1. todo.dev # <<>> /\ Head(todo.dev).op = "try"
    BY <1>13 DEF TryFails, Op1
  <2>2. dev \notin {"probe", "undo", "remove"}
    BY <2>1, TailOf DEF DevShape, Undoes, Acquires, ProbeKinds
  <2> QED BY <2>1, <2>2 DEF Shape
<1>14. CASE Release("dev")
  <2>1. UNCHANGED <<d, mod, dev>> /\ todo.dev # <<>> /\ Releases(Head(todo.dev))
    BY <1>14 DEF Release, Op1
  <2>2. dev \in {"undo", "remove"}
    <3>1. dev # "probe"
      BY <2>1, TailOf DEF DevShape, Acquires, ProbeKinds, Releases
    <3> QED BY <3>1, <2>1 DEF Shape
  <2>3. "text" \notin WithParts(Head(todo.dev).rs)
    BY <2>1, <2>2, TailOf DEF DevShape, Undoes, Kept
  <2> QED BY <2>1, <2>2, <2>3, <1>14, <1>a, <1>b, ReleaseKeeps DEF Alive
<1> QED
  BY <1>1, <1>2, <1>3, <1>4, <1>5, <1>6, <1>7, <1>8, <1>9, <1>10, <1>11, <1>12, <1>13,
     <1>14 DEF Next, ModNext, DevNext, Step

(* A bound device has all that its probe acquires, and the callbacks rely  *)
(* on no more.                                                             *)
LEMMA ReadyMeans ==
  ASSUME Complete(Table[d]), Shape, ReadyInv
  PROVE  BoundIsReady
<1> SUFFICES ASSUME dev = "bound", mod = "in", NEW c \in Table[d].calls,
                    NEW e \in Missing(c)
             PROVE  e[1] = "file" /\ stale
    BY DEF BoundIsReady, Exposed, LiveCalls
<1>1. c.uses \subseteq held /\ "text" \in held
  BY DEF Complete, ReadyInv, Shape, Alive
<1>2. PICK r \in ({"text"} \union c.uses) \ Found(c) : e = <<c.name, r>>
  BY DEF Missing
<1>3. c.name = "file" /\ stale
  BY <1>1, <1>2 DEF Found
<1> QED BY <1>2, <1>3

(* No step changes the driver. *)
LEMMA SameDriver == [Next]_vars => d' = d
  BY DEF Next, vars, ModNext, DevNext, FileNext, Step, Load, Loaded, Unload, FreeText,
         InitFails, OptFails, Acquire, TryFails, Release, Probe, Bound, Unbind, Removed,
         DevresRelease, Unbound, ProbeFails, Open, OpenPins, Close

(* Of every driver, in the repository or not, whose functions meet the     *)
(* criterion above: between the end of probe and the start of remove, no   *)
(* callback misses anything, whatever the module's init and the device's   *)
(* thread do meanwhile and whatever fails.                                 *)
THEOREM BoundReady == Spec => [](Complete(Table[d]) => BoundIsReady)
<1> DEFINE I == Complete(Table[d]) => Shape /\ ModShape /\ DevShape /\ ReadyInv
<1>1. Init => I
  <2>1. Init => ReadyInv
    BY DEF Init, ReadyInv, Alive
  <2> QED BY <2>1, ShapeInit, ShapesInit DEF Complete
<1>2. I /\ [Next]_vars => I'
  <2> SUFFICES ASSUME I, [Next]_vars, Complete(Table[d])'
               PROVE (Shape /\ ModShape /\ DevShape /\ ReadyInv)'
      OBVIOUS
  <2>1. Complete(Table[d])
    BY SameDriver
  <2>2. Regular(Table[d])
    BY <2>1 DEF Complete
  <2> QED BY <2>1, <2>2, ShapeNext, ModShapeNext, DevShapeNext, ReadyNext
<1>3. I => (Complete(Table[d]) => BoundIsReady)
  BY ReadyMeans
<1> QED BY <1>1, <1>2, <1>3, PTL DEF Spec

-----------------------------------------------------------------------------
(* What the operations of s before the k-th acquire, and what of that is   *)
(* managed.                                                                *)
Before(s, k) == UNION {s[j].rs : j \in 1 .. (k - 1)}

Managed(s, k) ==
  UNION {WithParts(s[j].rs) : j \in {i \in 1 .. (k - 1) : s[i].op = "devm"}}

(* When H is held and M is managed, wherever s stops, its error path, or   *)
(* fin after all of s, releases all of W that is held and not managed.     *)
Undone(s, fin, W, H, M) ==
  /\ \A k \in DOMAIN s : Fails(s[k]) =>
       W \cap (H \union Before(s, k)) \subseteq Freed(s[k].undo) \union M \union Managed(s, k)
  /\ W \cap (H \union Before(s, Len(s) + 1))
       \subseteq Freed(fin) \union M \union Managed(s, Len(s) + 1)

InitKinds == {"get", "set", "try", "opt", "need"}

(* Of what init acquires the error paths and exit, of what probe acquires  *)
(* the error paths, remove and the managed list release all but L.         *)
Tidy(T, L) ==
  /\ Regular(T)
  /\ Acquires(T.init, InitKinds, {"text"})
  /\ Undone(T.init, T.exit, Names(T.init) \ L, {}, {})
  /\ Undone(T.probe, T.remove, Names(T.probe) \ L, {}, {})
  /\ Names(T.init) \cap Names(T.probe) \subseteq L
  /\ T.anchors \subseteq Names(T.init) \ (L \union Embedded)

Own == Names(Table[d].init) \ KnownLeaks

Its == Names(Table[d].probe) \ KnownLeaks

Cover(l) == UNION {WithParts(l[i]) : i \in DOMAIN l}

(* What the module holds is going to be released by the function that runs *)
(* or, if none does, by the next one.                                      *)
OwnInv ==
  /\ mod = "init" => /\ Acquires(todo.mod, InitKinds, {"text"})
                     /\ Names(todo.mod) \subseteq Names(Table[d].init)
                     /\ Undone(todo.mod, Table[d].exit, Own, held, {})
  /\ mod = "in" => Own \cap held \subseteq Freed(Table[d].exit)
  /\ mod \in {"undo", "exit"} => Own \cap held \subseteq Freed(todo.mod)
  /\ mod \in {"new", "failed", "gone"} => Own \cap held = {}

(* The same of the device. *)
ItsInv ==
  /\ dev = "probe" => /\ Names(todo.dev) \subseteq Names(Table[d].probe)
                      /\ Undone(todo.dev, Table[d].remove, Its, held, Cover(devres))
  /\ dev = "bound" => Its \cap held \subseteq Freed(Table[d].remove) \union Cover(devres)
  /\ dev \in {"undo", "remove"} => Its \cap held \subseteq Freed(todo.dev) \union Cover(devres)
  /\ dev = "release" => Its \cap held \subseteq Cover(devres)
  /\ dev = "unbound" => Its \cap held = {}

(* The device is bound only under its anchors, a node is there only with   *)
(* its class, and there is nothing besides.                                *)
HeldInv ==
  /\ dev # "unbound" => Table[d].anchors \subseteq held
  /\ "node" \in held => "class" \in held
  /\ held \subseteq {"text"} \union KnownLeaks \union Own \union Its
  /\ mod \in {"failed", "gone"} => "text" \notin held

TidyInv == "class" \notin misused => OwnInv /\ ItsInv /\ HeldInv

-----------------------------------------------------------------------------
(* What goes with the first release, and with the others. *)
LEMMA FreedTail ==
  ASSUME NEW s, IsSeq(s), s # <<>>
  PROVE  Freed(s) \subseteq WithParts(Head(s).rs) \union Freed(Tail(s))
<1> SUFFICES ASSUME NEW i \in DOMAIN s, NEW r \in WithParts(s[i].rs)
             PROVE r \in WithParts(Head(s).rs) \/ r \in Freed(Tail(s))
    BY DEF Freed
<1>1. CASE i = 1
  BY <1>1, TailOf
<1>2. CASE i # 1
  <2>1. i - 1 \in DOMAIN Tail(s) /\ Tail(s)[i - 1] = s[i]
    BY <1>2, TailOf
  <2> QED BY <2>1 DEF Freed
<1> QED BY <1>1, <1>2

(* The same of the managed list. *)
LEMMA CoverTail ==
  ASSUME NEW l, IsSeq(l), l # <<>>
  PROVE  Cover(l) \subseteq WithParts(Head(l)) \union Cover(Tail(l))
<1> SUFFICES ASSUME NEW i \in DOMAIN l, NEW r \in WithParts(l[i])
             PROVE r \in WithParts(Head(l)) \/ r \in Cover(Tail(l))
    BY DEF Cover
<1>1. CASE i = 1
  BY <1>1, TailOf
<1>2. CASE i # 1
  <2>1. i - 1 \in DOMAIN Tail(l) /\ Tail(l)[i - 1] = l[i]
    BY <1>2, TailOf
  <2> QED BY <2>1 DEF Cover
<1> QED BY <1>1, <1>2

(* A managed resource is added in front. *)
LEMMA CoverCons ==
  ASSUME NEW l, IsSeq(l), NEW x
  PROVE  WithParts(x) \union Cover(l) \subseteq Cover(<<x>> \o l)
<1>1. 1 \in DOMAIN (<<x>> \o l) /\ (<<x>> \o l)[1] = x
  BY ConsOf
<1>2. \A i \in DOMAIN l : i + 1 \in DOMAIN (<<x>> \o l) /\ (<<x>> \o l)[i + 1] = l[i]
  BY ConsOf
<1> QED BY <1>1, <1>2 DEF Cover

(* Less held, or more managed, does no harm. *)
LEMMA UndoneMono ==
  ASSUME NEW s, NEW fin, NEW W, NEW H, NEW M, NEW H2, NEW M2,
         Undone(s, fin, W, H, M), W \cap H2 \subseteq H, M \subseteq M2
  PROVE  Undone(s, fin, W, H2, M2)
<1> DEFINE n == Len(s) + 1
<1>1. \A k \in DOMAIN s : Fails(s[k]) =>
        W \cap (H \union Before(s, k)) \subseteq Freed(s[k].undo) \union M \union Managed(s, k)
  BY DEF Undone
<1>2. W \cap (H \union Before(s, n)) \subseteq Freed(fin) \union M \union Managed(s, n)
  BY DEF Undone
<1>3. \A k \in DOMAIN s : Fails(s[k]) =>
        W \cap (H2 \union Before(s, k)) \subseteq Freed(s[k].undo) \union M2 \union Managed(s, k)
  BY <1>1
<1>4. W \cap (H2 \union Before(s, n)) \subseteq Freed(fin) \union M2 \union Managed(s, n)
  BY <1>2
<1> QED BY <1>3, <1>4 DEF Undone

(* Positions in a sequence and in its rest. *)
LEMMA BeforeTail ==
  ASSUME NEW s, IsSeq(s), s # <<>>, NEW k \in 1 .. Len(s)
  PROVE  /\ Before(Tail(s), k) \subseteq Before(s, k + 1)
         /\ Head(s).rs \subseteq Before(s, k + 1)
         /\ Managed(s, k + 1) \subseteq
              (IF Head(s).op = "devm" THEN WithParts(Head(s).rs) ELSE {})
                \union Managed(Tail(s), k)
<1>0. Len(s) \in Nat /\ Head(s) = s[1] /\ \A j \in 1 .. (Len(s) - 1) : Tail(s)[j] = s[j + 1]
  BY TailOf
<1>1. Before(Tail(s), k) \subseteq Before(s, k + 1)
  <2> SUFFICES ASSUME NEW j \in 1 .. (k - 1), NEW r \in Tail(s)[j].rs
               PROVE r \in Before(s, k + 1)
      BY DEF Before
  <2>1. j + 1 \in 1 .. ((k + 1) - 1) /\ r \in s[j + 1].rs
    BY <1>0
  <2> QED BY <2>1 DEF Before
<1>2. Head(s).rs \subseteq Before(s, k + 1)
  <2>1. 1 \in 1 .. ((k + 1) - 1)
    BY <1>0
  <2> QED BY <1>0, <2>1 DEF Before
<1>3. Managed(s, k + 1) \subseteq
        (IF Head(s).op = "devm" THEN WithParts(Head(s).rs) ELSE {}) \union Managed(Tail(s), k)
  <2> SUFFICES ASSUME NEW j \in 1 .. ((k + 1) - 1), s[j].op = "devm", NEW r \in WithParts(s[j].rs)
               PROVE \/ Head(s).op = "devm" /\ r \in WithParts(Head(s).rs)
                     \/ r \in Managed(Tail(s), k)
      BY DEF Managed
  <2>1. CASE j = 1
    BY <1>0, <2>1
  <2>2. CASE j # 1
    <3>1. j - 1 \in 1 .. (k - 1) /\ Tail(s)[j - 1] = s[j]
      BY <1>0, <2>2
    <3> QED BY <3>1 DEF Managed
  <2> QED BY <2>1, <2>2
<1> QED BY <1>1, <1>2, <1>3

(* One operation further: done, or failed with nobody looking. *)
LEMMA UndoneTail ==
  ASSUME NEW s, NEW fin, NEW W, NEW H, NEW M, NEW H2, NEW M2, IsSeq(s), s # <<>>,
         Undone(s, fin, W, H, M),
         W \cap H2 \subseteq H \union Head(s).rs,
         M \union (IF Head(s).op = "devm" THEN WithParts(Head(s).rs) ELSE {}) \subseteq M2
  PROVE  Undone(Tail(s), fin, W, H2, M2)
<1> DEFINE Hd == IF Head(s).op = "devm" THEN WithParts(Head(s).rs) ELSE {}
<1> DEFINE t == Tail(s)
<1>0. /\ Len(s) \in Nat /\ Len(s) >= 1 /\ DOMAIN s = 1 .. Len(s) /\ Len(t) = Len(s) - 1
      /\ DOMAIN t = 1 .. Len(t) /\ \A k \in DOMAIN t : k + 1 \in DOMAIN s /\ t[k] = s[k + 1]
  BY TailOf
<1>1. ASSUME NEW k \in 1 .. Len(s), NEW F,
             W \cap (H \union Before(s, k + 1)) \subseteq F \union M \union Managed(s, k + 1)
      PROVE W \cap (H2 \union Before(t, k)) \subseteq F \union M2 \union Managed(t, k)
  <2>1. /\ Before(t, k) \subseteq Before(s, k + 1) /\ Head(s).rs \subseteq Before(s, k + 1)
        /\ Managed(s, k + 1) \subseteq Hd \union Managed(t, k)
    BY BeforeTail
  <2> HIDE DEF Hd, t
  <2>2. M \subseteq M2 /\ Hd \subseteq M2
    BY DEF Hd
  <2> QED BY <1>1, <2>1, <2>2
<1>2. ASSUME NEW k \in DOMAIN t, Fails(t[k])
      PROVE W \cap (H2 \union Before(t, k))
              \subseteq Freed(t[k].undo) \union M2 \union Managed(t, k)
  <2>1. k \in 1 .. Len(s) /\ k + 1 \in DOMAIN s /\ t[k] = s[k + 1]
    BY <1>0
  <2>2. W \cap (H \union Before(s, k + 1))
          \subseteq Freed(t[k].undo) \union M \union Managed(s, k + 1)
    BY <1>2, <2>1 DEF Undone
  <2> HIDE DEF t
  <2> QED BY <1>1, <2>1, <2>2
<1>3. W \cap (H2 \union Before(t, Len(t) + 1))
        \subseteq Freed(fin) \union M2 \union Managed(t, Len(t) + 1)
  <2>1. Len(t) + 1 = Len(s)
    BY <1>0
  <2>2. W \cap (H \union Before(s, Len(s) + 1))
          \subseteq Freed(fin) \union M \union Managed(s, Len(s) + 1)
    BY DEF Undone
  <2>3. Len(s) \in 1 .. Len(s)
    BY <1>0
  <2> HIDE DEF t
  <2> QED BY <1>1, <2>1, <2>2, <2>3
<1> HIDE DEF t
<1> QED BY <1>2, <1>3 DEF Undone, t

(* The first operation fails. *)
LEMMA UndoneFails ==
  ASSUME NEW s, NEW fin, NEW W, NEW H, NEW M, IsSeq(s), s # <<>>,
         Undone(s, fin, W, H, M), Fails(Head(s))
  PROVE  W \cap H \subseteq Freed(Head(s).undo) \union M
<1>1. 1 \in DOMAIN s /\ Head(s) = s[1]
  BY TailOf
<1>2. W \cap (H \union Before(s, 1)) \subseteq Freed(Head(s).undo) \union M \union Managed(s, 1)
  BY <1>1 DEF Undone
<1>3. Managed(s, 1) = {}
  BY DEF Managed
<1> QED BY <1>2, <1>3

(* The function ends, or skips what is left of it, nothing being managed   *)
(* in there.                                                               *)
LEMMA UndoneEnds ==
  ASSUME NEW s, NEW fin, NEW W, NEW H, NEW M, IsSeq(s),
         Undone(s, fin, W, H, M), \A i \in DOMAIN s : s[i].op # "devm"
  PROVE  W \cap H \subseteq Freed(fin) \union M
<1>0. Len(s) \in Nat /\ DOMAIN s = 1 .. Len(s)
  BY LenProperties DEF IsSeq
<1>1. W \cap (H \union Before(s, Len(s) + 1))
        \subseteq Freed(fin) \union M \union Managed(s, Len(s) + 1)
  BY DEF Undone
<1>2. Managed(s, Len(s) + 1) = {}
  BY <1>0 DEF Managed
<1> QED BY <1>1, <1>2

(* A function with nothing left to do. *)
LEMMA UndoneEmpty ==
  ASSUME NEW fin, NEW W, NEW H, NEW M, W \cap H \subseteq Freed(fin) \union M
  PROVE  Undone(<<>>, fin, W, H, M)
<1>1. Before(<<>>, Len(<<>>) + 1) = {}
  BY DEF Before
<1> QED BY <1>1 DEF Undone

(* A release by exit, an error path or remove, while nodes have their      *)
(* class, takes away all that it names.                                    *)
LEMMA ReleaseTakes ==
  ASSUME NEW t \in {"mod", "dev"}, Release(t), "node" \in held => "class" \in held,
         Head(todo[t]).op \in {"put", "drop", "spoil"}
  PROVE  /\ held' = held \ WithParts(Head(todo[t]).rs)
         /\ todo[t] # <<>> /\ todo' = [todo EXCEPT ![t] = Tail(@)]
         /\ UNCHANGED <<d, mod, dev, devres>>
<1>1. held' = held \ (WithParts(Head(todo[t]).rs) \ Unreachable(Head(todo[t]).rs))
  BY DEF Release, Op1
<1>2. held \cap Unreachable(Head(todo[t]).rs) = {}
  BY DEF Unreachable
<1> QED BY <1>1, <1>2 DEF Release, Busy

(* Nothing else of the module's thread releases. *)
LEMMA ModReleases ==
  ASSUME Shape, ModShape, OwnInv, Release("mod")
  PROVE  /\ mod \in {"undo", "exit"} /\ todo.mod # <<>> /\ IsSeq(todo.mod)
         /\ Head(todo.mod).op \in {"put", "drop", "spoil"}
<1>1. todo.mod # <<>> /\ Releases(Head(todo.mod))
  BY DEF Release, Busy, Op1
<1>2. mod # "init"
  BY <1>1, TailOf DEF OwnInv, Acquires, InitKinds, Releases
<1> QED BY <1>1, <1>2, TailOf DEF Shape, ModShape, Undoes

(* The same of the device's thread, which spares the anchors. *)
LEMMA DevReleases ==
  ASSUME Shape, DevShape, Release("dev")
  PROVE  /\ dev \in {"undo", "remove"} /\ todo.dev # <<>> /\ IsSeq(todo.dev)
         /\ Head(todo.dev).op \in {"put", "drop", "spoil"}
         /\ WithParts(Head(todo.dev).rs) \cap Kept(Table[d]) = {}
<1>1. todo.dev # <<>> /\ Releases(Head(todo.dev))
  BY DEF Release, Busy, Op1
<1>2. dev # "probe"
  BY <1>1, TailOf DEF DevShape, Acquires, ProbeKinds, Releases
<1>3. dev \in {"undo", "remove"} /\ IsSeq(todo.dev)
  BY <1>1, <1>2 DEF Shape, DevShape, Undoes
<1> QED BY <1>1, <1>3, TailOf DEF DevShape, Undoes

(* Only init and probe acquire, what their functions name. *)
LEMMA ModAcquires ==
  ASSUME Shape, ModShape, OwnInv, Acquire("mod")
  PROVE  /\ mod = "init" /\ todo.mod # <<>> /\ IsSeq(todo.mod)
         /\ held' = held \union Head(todo.mod).rs
         /\ Head(todo.mod).rs \subseteq Names(Table[d].init)
         /\ "node" \in Head(todo.mod).rs => "class" \in held
         /\ Head(todo.mod).op # "devm" /\ devres' = devres
         /\ todo'.mod = Tail(todo.mod) /\ todo'.dev = todo.dev
         /\ UNCHANGED <<d, mod, dev>>
<1>1. /\ todo.mod # <<>> /\ ~ Releases(Head(todo.mod)) /\ held' = held \union Head(todo.mod).rs
      /\ "node" \in Head(todo.mod).rs => "class" \in held
      /\ todo'.mod = Tail(todo.mod) /\ todo'.dev = todo.dev /\ UNCHANGED <<d, mod, dev>>
      /\ Head(todo.mod).op # "devm" => devres' = devres
  BY DEF Acquire, Busy, Op1, Shape
<1>2. mod \notin {"undo", "exit"}
  BY <1>1, TailOf DEF ModShape, Undoes, Releases
<1>3. mod = "init" /\ IsSeq(todo.mod)
  BY <1>1, <1>2 DEF Shape, OwnInv, Acquires
<1>4. Head(todo.mod).op \in InitKinds /\ Head(todo.mod).rs \subseteq Names(todo.mod)
  BY <1>1, <1>3, TailOf DEF OwnInv, Acquires, Names
<1>5. Names(todo.mod) \subseteq Names(Table[d].init)
  BY <1>3 DEF OwnInv
<1>6. Head(todo.mod).op # "devm"
  BY <1>4 DEF InitKinds
<1> QED BY <1>1, <1>3, <1>4, <1>5, <1>6

(* The same of probe. *)
LEMMA DevAcquires ==
  ASSUME Shape, DevShape, ItsInv, Acquire("dev")
  PROVE  /\ dev = "probe" /\ todo.dev # <<>> /\ IsSeq(todo.dev)
         /\ held' = held \union Head(todo.dev).rs
         /\ Head(todo.dev).rs \subseteq Names(Table[d].probe)
         /\ "node" \in Head(todo.dev).rs => "class" \in held
         /\ devres' = IF Head(todo.dev).op = "devm" /\ Head(todo.dev).rs # {}
                        THEN <<Head(todo.dev).rs>> \o devres ELSE devres
         /\ todo'.mod = todo.mod /\ todo'.dev = Tail(todo.dev)
         /\ UNCHANGED <<d, mod, dev>>
<1>1. /\ todo.dev # <<>> /\ ~ Releases(Head(todo.dev)) /\ held' = held \union Head(todo.dev).rs
      /\ "node" \in Head(todo.dev).rs => "class" \in held
      /\ todo'.mod = todo.mod /\ todo'.dev = Tail(todo.dev) /\ UNCHANGED <<d, mod, dev>>
      /\ devres' = IF Head(todo.dev).op = "devm" /\ Head(todo.dev).rs # {}
                     THEN <<Head(todo.dev).rs>> \o devres ELSE devres
  BY DEF Acquire, Busy, Op1, Shape
<1>2. dev \notin {"undo", "remove"}
  BY <1>1, TailOf DEF DevShape, Undoes, Releases
<1>3. dev = "probe" /\ IsSeq(todo.dev)
  BY <1>1, <1>2 DEF Shape, DevShape, Acquires
<1>4. Head(todo.dev).rs \subseteq Names(todo.dev)
  BY <1>1, <1>3, TailOf DEF Names
<1>5. Names(todo.dev) \subseteq Names(Table[d].probe)
  BY <1>3 DEF ItsInv
<1> QED BY <1>1, <1>3, <1>4, <1>5

(* The device's thread tries nothing. *)
LEMMA DevTriesNot == Shape /\ DevShape => ~ TryFails("dev")
<1> SUFFICES ASSUME Shape, DevShape, TryFails("dev") PROVE FALSE
    OBVIOUS
<1>1. todo.dev # <<>> /\ Head(todo.dev).op = "try"
  BY DEF TryFails, Op1, Busy
<1>2. dev \notin {"probe", "undo", "remove"}
  BY <1>1, TailOf DEF DevShape, Undoes, Acquires, ProbeKinds
<1> QED BY <1>1, <1>2 DEF Shape

(* The sets that depend on the driver alone stay. *)
LEMMA SameSets ==
  ASSUME d' = d
  PROVE  KnownLeaks' = KnownLeaks /\ Own' = Own /\ Its' = Its
<1>1. KnownLeaks' = KnownLeaks
  BY DEF KnownLeaks
<1> QED BY <1>1 DEF Own, Its

(* The module's and the device's resources are apart. *)
LEMMA Apart ==
  ASSUME Tidy(Table[d], KnownLeaks)
  PROVE  /\ Own \cap Names(Table[d].probe) = {} /\ Its \cap Names(Table[d].init) = {}
         /\ Table[d].anchors \subseteq Own /\ Table[d].anchors \cap Embedded = {}
  BY DEF Tidy, Own, Its

(* Nothing of the module's is added and its thread does nothing. *)
LEMMA OwnStays ==
  ASSUME OwnInv, UNCHANGED <<d, mod>>, todo'.mod = todo.mod, Own \cap held' \subseteq held
  PROVE  OwnInv'
<1>1. Own' = Own /\ Table[d]' = Table[d]
  BY SameSets
<1>2. mod = "init" => Undone(todo.mod, Table[d].exit, Own, held', {})
  BY UndoneMono DEF OwnInv
<1> HIDE DEF Own
<1> QED BY <1>1, <1>2 DEF OwnInv

(* The same of the device. *)
LEMMA ItsStays ==
  ASSUME ItsInv, UNCHANGED <<d, dev, devres>>, todo'.dev = todo.dev, Its \cap held' \subseteq held
  PROVE  ItsInv'
<1>1. Its' = Its /\ Table[d]' = Table[d]
  BY SameSets
<1>2. dev = "probe" => Undone(todo.dev, Table[d].remove, Its, held', Cover(devres))
  BY UndoneMono DEF ItsInv
<1> QED BY <1>1, <1>2 DEF ItsInv

(* The error paths and exit release what init acquired. *)
LEMMA OwnNext ==
  ASSUME Tidy(Table[d], KnownLeaks), Shape, ModShape, DevShape, OwnInv, ItsInv, HeldInv,
         [Next]_vars
  PROVE  OwnInv'
<1> USE DEF Busy
<1>0. /\ Own \cap Names(Table[d].probe) = {} /\ "text" \notin Own
      /\ Undone(Table[d].init, Table[d].exit, Own, {}, {})
      /\ Acquires(Table[d].init, InitKinds, {"text"})
  <2>1. "text" \notin Names(Table[d].init)
    BY DEF Tidy, Acquires, Names, WithParts
  <2> QED BY <2>1, Apart DEF Tidy, Own
<1>a. ASSUME d' = d,
             mod' = "init" => /\ Acquires(todo'.mod, InitKinds, {"text"})
                              /\ Names(todo'.mod) \subseteq Names(Table[d].init)
                              /\ Undone(todo'.mod, Table[d].exit, Own, held', {}),
             mod' = "in" => Own \cap held' \subseteq Freed(Table[d].exit),
             mod' \in {"undo", "exit"} => Own \cap held' \subseteq Freed(todo'.mod),
             mod' \in {"new", "failed", "gone"} => Own \cap held' = {}
      PROVE OwnInv'
  BY <1>a, SameSets DEF OwnInv
<1>1. CASE UNCHANGED vars \/ FileNext
  <2>1. UNCHANGED <<d, mod, todo, held>>
    BY <1>1 DEF vars, FileNext, Open, OpenPins, Close
  <2> QED BY <2>1, OwnStays
<1>2. CASE Load
  <2>1. d' = d /\ mod' = "init" /\ todo'.mod = Table[d].init /\ held' = {"text"}
    BY <1>2 DEF Load, Shape
  <2>2. Undone(Table[d].init, Table[d].exit, Own, held', {})
    BY <1>0, <2>1, UndoneMono
  <2> QED BY <2>1, <2>2, <1>0, <1>a
<1>3. CASE Loaded
  <2>1. d' = d /\ mod = "init" /\ mod' = "in" /\ todo.mod = <<>> /\ held' = held
    BY <1>3 DEF Loaded
  <2>2. Own \cap held \subseteq Freed(Table[d].exit)
    BY <2>1, EmptyIsSeq, UndoneEnds DEF OwnInv
  <2> QED BY <2>1, <2>2, <1>a
<1>4. CASE Unload
  <2>1. d' = d /\ mod = "in" /\ mod' = "exit" /\ todo'.mod = Table[d].exit /\ held' = held
    BY <1>4 DEF Unload, Shape
  <2> QED BY <2>1, <1>a DEF OwnInv
<1>5. CASE FreeText
  <2>1. /\ d' = d /\ mod \in {"undo", "exit"} /\ todo.mod = <<>> /\ held' \subseteq held
        /\ mod' \in {"failed", "gone"}
    BY <1>5 DEF FreeText
  <2>2. Freed(<<>>) = {}
    BY DEF Freed
  <2> QED BY <2>1, <2>2, <1>a DEF OwnInv
<1>6. CASE InitFails
  <2>1. /\ d' = d /\ mod' = "undo" /\ todo'.mod = Head(todo.mod).undo /\ held' = held
        /\ mod = "init" /\ todo.mod # <<>> /\ Fails(Head(todo.mod))
    BY <1>6 DEF InitFails, Shape, Op1, Fails
  <2>2. IsSeq(todo.mod) /\ Undone(todo.mod, Table[d].exit, Own, held, {})
    BY <2>1 DEF OwnInv, Acquires
  <2>3. Own \cap held \subseteq Freed(Head(todo.mod).undo)
    BY <2>1, <2>2, UndoneFails
  <2> QED BY <2>1, <2>3, <1>a
<1>7. CASE OptFails("mod")
  <2>1. /\ d' = d /\ mod' = mod /\ todo'.mod = <<>> /\ held' = held
        /\ todo.mod # <<>> /\ Head(todo.mod).op = "opt"
    BY <1>7 DEF OptFails, Shape, Op1
  <2>2. mod = "init"
    <3>1. mod \notin {"undo", "exit"}
      BY <2>1, TailOf DEF ModShape, Undoes
    <3> QED BY <3>1, <2>1 DEF Shape
  <2>3. Own \cap held \subseteq Freed(Table[d].exit)
    BY <2>2, UndoneEnds DEF OwnInv, Acquires, InitKinds
  <2>4. /\ Undone(<<>>, Table[d].exit, Own, held, {})
        /\ Acquires(<<>>, InitKinds, {"text"}) /\ Names(<<>>) = {}
    BY <2>3, UndoneEmpty, EmptyIsSeq DEF Acquires, Names
  <2> QED BY <2>1, <2>2, <2>4, <1>a
<1>8. CASE Acquire("mod")
  <2>1. /\ mod = "init" /\ todo.mod # <<>> /\ IsSeq(todo.mod) /\ d' = d /\ mod' = mod
        /\ held' = held \union Head(todo.mod).rs /\ Head(todo.mod).op # "devm"
        /\ todo'.mod = Tail(todo.mod)
    BY <1>8, ModAcquires
  <2>2. Undone(todo'.mod, Table[d].exit, Own, held', {})
    BY <2>1, UndoneTail DEF OwnInv
  <2>3. Acquires(todo'.mod, InitKinds, {"text"})
    BY <2>1, AcquiresTail DEF OwnInv
  <2>4. Names(todo'.mod) \subseteq Names(todo.mod)
    BY <2>1, TailOf DEF Names
  <2> QED BY <2>1, <2>2, <2>3, <2>4, <1>a DEF OwnInv
<1>9. CASE TryFails("mod")
  <2>1. /\ d' = d /\ mod' = mod /\ todo'.mod = Head(todo.mod).undo \o Tail(todo.mod)
        /\ held' = held /\ todo.mod # <<>> /\ Head(todo.mod).op = "try"
    BY <1>9 DEF TryFails, Shape, Op1
  <2>2. mod = "init"
    <3>1. mod \notin {"undo", "exit"}
      BY <2>1, TailOf DEF ModShape, Undoes
    <3> QED BY <3>1, <2>1 DEF Shape
  <2>3. IsSeq(todo.mod) /\ Head(todo.mod).undo = <<>>
    BY <2>1, <2>2, TailOf DEF OwnInv, Acquires
  <2>4. IsSeq(Tail(todo.mod))
    BY <2>1, <2>3, TailOf
  <2>5. todo'.mod = Tail(todo.mod)
    BY <2>1, <2>3, <2>4, ConcatEmptySeq DEF IsSeq
  <2>6. Undone(Tail(todo.mod), Table[d].exit, Own, held, {})
    BY <2>1, <2>2, <2>3, UndoneTail DEF OwnInv
  <2>7. Acquires(Tail(todo.mod), InitKinds, {"text"})
    BY <2>1, <2>2, AcquiresTail DEF OwnInv
  <2>8. Names(Tail(todo.mod)) \subseteq Names(todo.mod)
    BY <2>1, <2>3, TailOf DEF Names
  <2> QED BY <2>1, <2>2, <2>5, <2>6, <2>7, <2>8, <1>a DEF OwnInv
<1>10. CASE Release("mod")
  <2>1. /\ mod \in {"undo", "exit"} /\ todo.mod # <<>> /\ IsSeq(todo.mod)
        /\ Head(todo.mod).op \in {"put", "drop", "spoil"}
    BY <1>10, ModReleases
  <2>2. /\ held' = held \ WithParts(Head(todo.mod).rs) /\ d' = d /\ mod' = mod
        /\ todo'.mod = Tail(todo.mod)
    BY <1>10, <2>1, ReleaseTakes DEF HeldInv, Shape
  <2>3. Own \cap held' \subseteq Freed(Tail(todo.mod))
    BY <2>1, <2>2, FreedTail DEF OwnInv
  <2> QED BY <2>1, <2>2, <2>3, <1>a
<1>11. CASE Probe \/ Bound \/ Unbind \/ Removed \/ Unbound \/ ProbeFails
  <2>1. UNCHANGED <<d, mod, held>> /\ todo'.mod = todo.mod
    BY <1>11 DEF Probe, Bound, Unbind, Removed, Unbound, ProbeFails, Shape
  <2> QED BY <2>1, OwnStays
<1>12. CASE DevresRelease
  <2>1. UNCHANGED <<d, mod, todo>> /\ held' \subseteq held
    BY <1>12 DEF DevresRelease
  <2> QED BY <2>1, OwnStays
<1>13. CASE Acquire("dev")
  <2>1. /\ held' = held \union Head(todo.dev).rs /\ UNCHANGED <<d, mod>> /\ todo'.mod = todo.mod
        /\ Head(todo.dev).rs \subseteq Names(Table[d].probe)
    BY <1>13, DevAcquires
  <2> QED BY <2>1, <1>0, OwnStays
<1>14. CASE Release("dev")
  <2>1. Head(todo.dev).op \in {"put", "drop", "spoil"}
    BY <1>14, DevReleases
  <2>2. held' \subseteq held /\ UNCHANGED <<d, mod>> /\ todo'.mod = todo.mod
    BY <1>14, <2>1, ReleaseTakes DEF HeldInv, Shape
  <2> QED BY <2>2, OwnStays
<1> QED
  BY <1>1, <1>2, <1>3, <1>4, <1>5, <1>6, <1>7, <1>8, <1>9, <1>10, <1>11, <1>12, <1>13,
     <1>14, DevTriesNot DEF Next, ModNext, DevNext, Step

(* The error paths, remove and the managed list release what probe         *)
(* acquired.                                                               *)
LEMMA ItsNext ==
  ASSUME Tidy(Table[d], KnownLeaks), Shape, ModShape, DevShape, OwnInv, ItsInv, HeldInv,
         [Next]_vars
  PROVE  ItsInv'
<1> USE DEF Busy
<1>0. /\ Its \cap Names(Table[d].init) = {} /\ "text" \notin Its
      /\ Undone(Table[d].probe, Table[d].remove, Its, {}, {})
  <2>1. "text" \notin Names(Table[d].probe)
    BY DEF Tidy, Regular, DeviceSide, Kept, Acquires, Names, WithParts
  <2> QED BY <2>1, Apart DEF Tidy, Its
<1>a. ASSUME d' = d,
             dev' = "probe" => /\ Names(todo'.dev) \subseteq Names(Table[d].probe)
                               /\ Undone(todo'.dev, Table[d].remove, Its, held', Cover(devres')),
             dev' = "bound" =>
               Its \cap held' \subseteq Freed(Table[d].remove) \union Cover(devres'),
             dev' \in {"undo", "remove"} =>
               Its \cap held' \subseteq Freed(todo'.dev) \union Cover(devres'),
             dev' = "release" => Its \cap held' \subseteq Cover(devres'),
             dev' = "unbound" => Its \cap held' = {}
      PROVE ItsInv'
  BY <1>a, SameSets DEF ItsInv
<1>1. CASE UNCHANGED vars \/ FileNext
  <2>1. UNCHANGED <<d, dev, todo, held, devres>>
    BY <1>1 DEF vars, FileNext, Open, OpenPins, Close
  <2> QED BY <2>1, ItsStays
<1>2. CASE Load
  <2>1. UNCHANGED <<d, dev, devres>> /\ todo'.dev = todo.dev /\ held' = {"text"}
    BY <1>2 DEF Load, Shape
  <2> QED BY <2>1, <1>0, ItsStays
<1>3. CASE Loaded \/ Unload \/ InitFails \/ OptFails("mod") \/ TryFails("mod") \/ FreeText
  <2>1. UNCHANGED <<d, dev, devres>> /\ todo'.dev = todo.dev /\ held' \subseteq held
    BY <1>3 DEF Loaded, Unload, InitFails, OptFails, TryFails, FreeText, Shape
  <2> QED BY <2>1, ItsStays
<1>4. CASE Acquire("mod")
  <2>1. /\ UNCHANGED <<d, dev, devres>> /\ todo'.dev = todo.dev
        /\ held' = held \union Head(todo.mod).rs
        /\ Head(todo.mod).rs \subseteq Names(Table[d].init)
    BY <1>4, ModAcquires
  <2> QED BY <2>1, <1>0, ItsStays
<1>5. CASE Release("mod")
  <2>1. Head(todo.mod).op \in {"put", "drop", "spoil"}
    BY <1>5, ModReleases
  <2>2. held' \subseteq held /\ UNCHANGED <<d, dev, devres>> /\ todo'.dev = todo.dev
    BY <1>5, <2>1, ReleaseTakes DEF HeldInv, Shape
  <2> QED BY <2>2, ItsStays
<1>6. CASE Probe
  <2>1. /\ d' = d /\ dev = "unbound" /\ dev' = "probe" /\ todo'.dev = Table[d].probe
        /\ held' = held
    BY <1>6 DEF Probe, Shape
  <2>2. Its \cap held = {}
    BY <2>1 DEF ItsInv
  <2>3. Undone(Table[d].probe, Table[d].remove, Its, held, Cover(devres'))
    BY <2>2, <1>0, UndoneMono
  <2> QED BY <2>1, <2>3, <1>a
<1>7. CASE Bound
  <2>1. /\ d' = d /\ dev = "probe" /\ dev' = "bound" /\ todo.dev = <<>> /\ held' = held
        /\ devres' = devres
    BY <1>7 DEF Bound
  <2>2. Undone(<<>>, Table[d].remove, Its, held, Cover(devres))
    BY <2>1 DEF ItsInv
  <2>3. Its \cap held \subseteq Freed(Table[d].remove) \union Cover(devres)
    BY <2>2, EmptyIsSeq, UndoneEnds
  <2> QED BY <2>1, <2>3, <1>a
<1>8. CASE Unbind
  <2>1. /\ d' = d /\ dev = "bound" /\ dev' = "remove" /\ todo'.dev = Table[d].remove
        /\ held' = held /\ devres' = devres
    BY <1>8 DEF Unbind, Shape
  <2> QED BY <2>1, <1>a DEF ItsInv
<1>9. CASE Removed
  <2>1. /\ d' = d /\ dev \in {"undo", "remove"} /\ dev' = "release" /\ todo.dev = <<>>
        /\ held' = held /\ devres' = devres
    BY <1>9 DEF Removed
  <2>2. Freed(<<>>) = {}
    BY DEF Freed
  <2> QED BY <2>1, <2>2, <1>a DEF ItsInv
<1>10. CASE Unbound
  <2>1. /\ d' = d /\ dev = "release" /\ dev' = "unbound" /\ devres = <<>> /\ held' = held
    BY <1>10 DEF Unbound
  <2>2. Cover(<<>>) = {}
    BY DEF Cover
  <2> QED BY <2>1, <2>2, <1>a DEF ItsInv
<1>11. CASE ProbeFails
  <2>1. /\ d' = d /\ dev = "probe" /\ dev' = "undo" /\ todo'.dev = Head(todo.dev).undo
        /\ held' = held /\ devres' = devres /\ todo.dev # <<>> /\ Fails(Head(todo.dev))
    BY <1>11 DEF ProbeFails, Shape, Op1, Fails
  <2>2. IsSeq(todo.dev) /\ Undone(todo.dev, Table[d].remove, Its, held, Cover(devres))
    BY <2>1 DEF ItsInv, DevShape, Acquires
  <2>3. Its \cap held \subseteq Freed(Head(todo.dev).undo) \union Cover(devres)
    BY <2>1, <2>2, UndoneFails
  <2> QED BY <2>1, <2>3, <1>a
<1>12. CASE DevresRelease
  <2>1. /\ d' = d /\ dev = "release" /\ dev' = dev /\ devres # <<>> /\ devres' = Tail(devres)
        /\ held' = held \ WithParts(Head(devres))
    BY <1>12 DEF DevresRelease
  <2>2. Cover(devres) \subseteq WithParts(Head(devres)) \union Cover(Tail(devres))
    BY <2>1, CoverTail DEF DevShape
  <2> QED BY <2>1, <2>2, <1>a DEF ItsInv
<1>13. CASE Acquire("dev")
  <2> DEFINE o == Head(todo.dev)
  <2>1. /\ dev = "probe" /\ todo.dev # <<>> /\ IsSeq(todo.dev) /\ UNCHANGED <<d, mod, dev>>
        /\ held' = held \union o.rs /\ todo'.dev = Tail(todo.dev)
        /\ devres' = IF o.op = "devm" /\ o.rs # {} THEN <<o.rs>> \o devres ELSE devres
    BY <1>13, DevAcquires
  <2>2. Cover(devres) \union (IF o.op = "devm" THEN WithParts(o.rs) ELSE {})
          \subseteq Cover(devres')
    <3>1. WithParts({}) = {}
      BY DEF WithParts
    <3>2. CASE o.op = "devm" /\ o.rs # {}
      BY <3>2, <2>1, CoverCons DEF DevShape
    <3>3. CASE ~ (o.op = "devm" /\ o.rs # {})
      BY <3>1, <3>3, <2>1
    <3> QED BY <3>2, <3>3
  <2>3. Undone(Tail(todo.dev), Table[d].remove, Its, held', Cover(devres'))
    <3>1. Undone(todo.dev, Table[d].remove, Its, held, Cover(devres))
      BY <2>1 DEF ItsInv
    <3>2. Its \cap held' \subseteq held \union o.rs
      BY <2>1
    <3> QED BY <3>1, <3>2, <2>1, <2>2, UndoneTail
  <2>4. Names(Tail(todo.dev)) \subseteq Names(todo.dev)
    BY <2>1, TailOf DEF Names
  <2> QED BY <2>1, <2>3, <2>4, <1>a DEF ItsInv
<1>14. CASE Release("dev")
  <2>1. /\ dev \in {"undo", "remove"} /\ todo.dev # <<>> /\ IsSeq(todo.dev)
        /\ Head(todo.dev).op \in {"put", "drop", "spoil"}
    BY <1>14, DevReleases
  <2>2. /\ held' = held \ WithParts(Head(todo.dev).rs) /\ UNCHANGED <<d, dev, devres>>
        /\ todo'.dev = Tail(todo.dev)
    BY <1>14, <2>1, ReleaseTakes DEF HeldInv, Shape
  <2>3. Its \cap held' \subseteq Freed(Tail(todo.dev)) \union Cover(devres)
    BY <2>1, <2>2, FreedTail DEF ItsInv
  <2> QED BY <2>1, <2>2, <2>3, <1>a
<1> QED
  BY <1>1, <1>2, <1>3, <1>4, <1>5, <1>6, <1>7, <1>8, <1>9, <1>10, <1>11, <1>12, <1>13,
     <1>14, DevTriesNot DEF Next, ModNext, DevNext, Step

(* Giving up a class under a node is noted. *)
LEMMA ClassGoes ==
  ASSUME NEW t \in {"mod", "dev"}, Release(t), "node" \in held => "class" \in held,
         Head(todo[t]).op \in {"put", "drop", "spoil"}, "class" \notin misused'
  PROVE  "node" \in held' => "class" \in held'
<1> SUFFICES ASSUME "node" \in held', "class" \notin held' PROVE FALSE
    OBVIOUS
<1> DEFINE o == Head(todo[t])
<1>1. held' = held \ WithParts(o.rs) /\ misused' = misused \union Misuse(o)
  BY ReleaseTakes DEF Release, Op1
<1>2. "node" \in held /\ "class" \in held /\ "node" \notin o.rs /\ "class" \in o.rs
  BY <1>1 DEF WithParts, Embedded
<1>3. "class" \in Needs("node")
  BY DEF Needs
<1>4. CASE o.op = "put"
  <2>1. Misuse(o) = {r \in o.rs : \/ r \notin held
                                  \/ r \in Unreachable(o.rs)
                                  \/ \E s \in held \ o.rs : r \in Needs(s)}
    BY <1>4 DEF Misuse
  <2> QED BY <1>1, <1>2, <1>3, <2>1
<1>5. CASE o.op = "drop"
  <2>1. Misuse(o) = {r \in o.rs \cap held : \E s \in held \ o.rs : r \in Needs(s)}
    BY <1>5 DEF Misuse
  <2> QED BY <1>1, <1>2, <1>3, <2>1
<1>6. CASE o.op = "spoil"
  <2>1. Misuse(o) = o.rs \cap held
    BY <1>6 DEF Misuse
  <2> QED BY <1>1, <1>2, <2>1
<1> QED BY <1>4, <1>5, <1>6

(* The core unbinds the device before an anchor goes, classes outlive      *)
(* their nodes, and nothing appears from elsewhere.                        *)
LEMMA HeldNext ==
  ASSUME Tidy(Table[d], KnownLeaks), Shape, ModShape, DevShape, OwnInv, ItsInv, HeldInv,
         [Next]_vars, "class" \notin misused'
  PROVE  HeldInv'
<1> USE DEF Busy
<1> DEFINE A == Table[d].anchors
           U == {"text"} \union KnownLeaks \union Own \union Its
<1>0. /\ Names(Table[d].init) \subseteq U /\ Names(Table[d].probe) \subseteq U
      /\ A \cap Embedded = {} /\ A \subseteq Own
      /\ "text" \notin Own /\ "text" \notin Names(Table[d].probe)
  <2>1. "text" \notin Names(Table[d].init) /\ "text" \notin Names(Table[d].probe)
    BY DEF Tidy, Regular, DeviceSide, Kept, Acquires, Names, WithParts
  <2> QED BY <2>1, Apart DEF Own, Its
<1>a. /\ dev # "unbound" => A \subseteq held
      /\ "node" \in held => "class" \in held
      /\ held \subseteq U
      /\ mod \in {"failed", "gone"} => "text" \notin held
  BY DEF HeldInv
<1>b. ASSUME d' = d, dev' # "unbound" => A \subseteq held',
             "node" \in held' => "class" \in held', held' \subseteq U,
             mod' \in {"failed", "gone"} => "text" \notin held'
      PROVE HeldInv'
  BY <1>b, SameSets DEF HeldInv
<1> HIDE DEF A, U
<1>1. CASE UNCHANGED vars \/ FileNext
  <2>1. UNCHANGED <<d, dev, mod, held>>
    BY <1>1 DEF vars, FileNext, Open, OpenPins, Close
  <2> QED BY <2>1, <1>a, <1>b
<1>2. CASE Load
  <2>1. d' = d /\ dev' = "unbound" /\ mod' = "init" /\ held' = {"text"}
    BY <1>2 DEF Load, Shape
  <2> QED BY <2>1, <1>b DEF U
<1>3. CASE Loaded \/ Unload \/ InitFails \/ OptFails("mod") \/ TryFails("mod")
  <2>1. UNCHANGED <<d, dev, held>> /\ (mod' = mod \/ mod' \notin {"failed", "gone"})
    BY <1>3 DEF Loaded, Unload, InitFails, OptFails, TryFails
  <2> QED BY <2>1, <1>a, <1>b
<1>4. CASE FreeText
  <2>1. UNCHANGED <<d, dev>> /\ held' = held \ {"text"}
    BY <1>4 DEF FreeText
  <2> QED BY <2>1, <1>0, <1>a, <1>b
<1>5. CASE Acquire("mod")
  <2>1. /\ mod = "init" /\ held' = held \union Head(todo.mod).rs
        /\ Head(todo.mod).rs \subseteq Names(Table[d].init)
        /\ "node" \in Head(todo.mod).rs => "class" \in held
        /\ UNCHANGED <<d, mod, dev>>
    BY <1>5, ModAcquires
  <2> QED BY <2>1, <1>0, <1>a, <1>b
<1>6. CASE Release("mod")
  <2>1. /\ mod \in {"undo", "exit"} /\ Head(todo.mod).op \in {"put", "drop", "spoil"}
        /\ todo.mod # <<>>
    BY <1>6, ModReleases
  <2>2. held' = held \ WithParts(Head(todo.mod).rs) /\ UNCHANGED <<d, mod, dev>>
    BY <1>6, <2>1, <1>a, ReleaseTakes
  <2>3. "node" \in held' => "class" \in held'
    BY <1>6, <2>1, <1>a, ClassGoes
  <2>4. dev # "unbound" => Head(todo.mod).rs \cap A = {}
    BY <1>6 DEF Release, Unregistering, Op1, A
  <2>5. dev # "unbound" => A \subseteq held'
    BY <2>2, <2>4, <1>0, <1>a DEF WithParts
  <2> QED BY <2>1, <2>2, <2>3, <2>5, <1>a, <1>b
<1>7. CASE Probe
  <2>1. UNCHANGED <<d, mod, held>> /\ A \subseteq held
    BY <1>7 DEF Probe, A
  <2> QED BY <2>1, <1>a, <1>b
<1>8. CASE Bound \/ Unbind \/ Removed \/ Unbound \/ ProbeFails
  <2>1. UNCHANGED <<d, mod, held>> /\ dev # "unbound"
    BY <1>8 DEF Bound, Unbind, Removed, Unbound, ProbeFails
  <2> QED BY <2>1, <1>a, <1>b
<1>9. CASE DevresRelease
  <2>1. /\ dev = "release" /\ devres # <<>> /\ held' = held \ WithParts(Head(devres))
        /\ UNCHANGED <<d, mod, dev>>
    BY <1>9 DEF DevresRelease
  <2>2. WithParts(Head(devres)) \cap (A \union {"class"}) = {}
    BY <2>1, TailOf DEF DevShape, Kept, A
  <2> QED BY <2>1, <2>2, <1>a, <1>b
<1>10. CASE Acquire("dev")
  <2>1. /\ held' = held \union Head(todo.dev).rs
        /\ Head(todo.dev).rs \subseteq Names(Table[d].probe)
        /\ "node" \in Head(todo.dev).rs => "class" \in held
        /\ UNCHANGED <<d, mod, dev>>
    BY <1>10, DevAcquires
  <2> QED BY <2>1, <1>0, <1>a, <1>b
<1>11. CASE Release("dev")
  <2>1. /\ Head(todo.dev).op \in {"put", "drop", "spoil"}
        /\ WithParts(Head(todo.dev).rs) \cap (A \union {"class"}) = {}
    BY <1>11, DevReleases DEF Kept, A
  <2>2. held' = held \ WithParts(Head(todo.dev).rs) /\ UNCHANGED <<d, mod, dev>>
    BY <1>11, <2>1, <1>a, ReleaseTakes
  <2> QED BY <2>1, <2>2, <1>a, <1>b
<1> QED
  BY <1>1, <1>2, <1>3, <1>4, <1>5, <1>6, <1>7, <1>8, <1>9, <1>10, <1>11, DevTriesNot
     DEF Next, ModNext, DevNext, Step

(* What is noted stays noted. *)
LEMMA MisusedGrows == [Next]_vars => misused \subseteq misused'
  BY DEF Next, vars, ModNext, DevNext, FileNext, Step, Load, Loaded, Unload, FreeText,
         InitFails, OptFails, Acquire, TryFails, Release, Probe, Bound, Unbind, Removed,
         DevresRelease, Unbound, ProbeFails, Open, OpenPins, Close

(* In the beginning nothing is held. *)
LEMMA TidyInit == Init => OwnInv /\ ItsInv /\ HeldInv
  BY DEF Init, OwnInv, ItsInv, HeldInv

(* At the end of a module nothing is bound any more: its anchors are gone. *)
LEMMA TidyMeans ==
  ASSUME Tidy(Table[d], KnownLeaks), Shape, OwnInv, ItsInv, HeldInv
  PROVE  NothingLeft
<1>1. ProbeResources = Names(Table[d].probe)
  BY DEF ProbeResources, Names
<1>2. dev = "unbound" => held \cap ProbeResources \subseteq KnownLeaks
  BY <1>1 DEF ItsInv, Its
<1>3. ASSUME mod \in {"failed", "gone"} PROVE held \subseteq KnownLeaks
  <2>1. Own \cap held = {} /\ "text" \notin held
    BY <1>3 DEF OwnInv, HeldInv
  <2>2. dev = "unbound"
    BY <2>1, Apart DEF HeldInv, Shape
  <2> QED BY <2>1, <2>2 DEF ItsInv, HeldInv
<1> QED BY <1>2, <1>3 DEF NothingLeft

(* Of every driver whose functions meet the criterion above: as long as no *)
(* class was destroyed under its nodes, a module that is gone and a device *)
(* that is unbound left nothing but what is listed, whichever calls failed *)
(* and however the two threads interleaved.                                *)
THEOREM TidyLeavesNothing ==
  Spec => [](Tidy(Table[d], KnownLeaks) /\ "class" \notin misused => NothingLeft)
<1> DEFINE I == Tidy(Table[d], KnownLeaks) => Shape /\ ModShape /\ DevShape /\ TidyInv
<1>1. Init => I
  BY ShapeInit, ShapesInit, TidyInit DEF Tidy, TidyInv
<1>2. I /\ [Next]_vars => I'
  <2> SUFFICES ASSUME I, [Next]_vars, Tidy(Table[d], KnownLeaks)'
               PROVE (Shape /\ ModShape /\ DevShape /\ TidyInv)'
      OBVIOUS
  <2>1. Tidy(Table[d], KnownLeaks)
    BY SameDriver, SameSets
  <2>2. Regular(Table[d])
    BY <2>1 DEF Tidy
  <2>3. (Shape /\ ModShape /\ DevShape)'
    BY <2>1, <2>2, ShapeNext, ModShapeNext, DevShapeNext
  <2>4. TidyInv'
    <3> SUFFICES ASSUME "class" \notin misused' PROVE (OwnInv /\ ItsInv /\ HeldInv)'
        BY DEF TidyInv
    <3>1. OwnInv /\ ItsInv /\ HeldInv
      BY <2>1, MisusedGrows DEF TidyInv
    <3> QED BY <3>1, <2>1, OwnNext, ItsNext, HeldNext
  <2> QED BY <2>3, <2>4
<1>3. I => (Tidy(Table[d], KnownLeaks) /\ "class" \notin misused => NothingLeft)
  BY TidyMeans DEF TidyInv
<1> QED BY <1>1, <1>2, <1>3, PTL DEF Spec

-----------------------------------------------------------------------------
(* What the operations of s before the k-th acquire for certain, and what  *)
(* those before it release.                                                *)
Sure(s, k) == UNION {s[j].rs : j \in {i \in 1 .. (k - 1) : s[i].op # "try"}}

Gone(s, k) == UNION {WithParts(s[j].rs) : j \in 1 .. (k - 1)}

(* With H held, s puts nothing that is not there, and nothing twice. *)
Puts(s, H) ==
  \A i \in DOMAIN s : /\ s[i].op \in {"put", "drop"}
                      /\ s[i].op = "put" => s[i].rs \subseteq H \ Gone(s, i)

(* Wherever s stops, its error path puts what is there, of K; so does fin. *)
Earns(s, fin, H, K) ==
  /\ \A k \in DOMAIN s : /\ s[k].op # "opt"
                         /\ Fails(s[k]) => Puts(s[k].undo, (H \union Sure(s, k)) \cap K)
  /\ Puts(fin, (H \union Sure(s, Len(s) + 1)) \cap K)

(* s does not release u before w. *)
Ordered(s, w, u) ==
  \A i \in DOMAIN s : u \in WithParts(s[i].rs) => \E j \in 1 .. i : w \in WithParts(s[j].rs)

(* Wherever s stops, w does not stay behind u. *)
Unwinds(s, fin, H, w, u) ==
  /\ \A k \in DOMAIN s : Fails(s[k]) /\ w \in H \union Before(s, k) => Ordered(s[k].undo, w, u)
  /\ Ordered(fin, w, u)

(* s acquires w only on top of u. *)
Rests(s, H, w, u) == \A k \in DOMAIN s : w \in s[k].rs => u \in H \union Sure(s, k)

(* s lets u be managed only before w is; so it stands in the managed list. *)
Stacks(s, M, w, u) ==
  \A k \in DOMAIN s :
    s[k].op = "devm" /\ u \in WithParts(s[k].rs) => w \notin M \union Managed(s, k)

Stacked(l, w, u) ==
  \A i \in DOMAIN l : u \in WithParts(l[i]) => \E j \in 1 .. i : w \in WithParts(l[j])

(* What the first operation acquires for certain. *)
SureHead(s) == IF Head(s).op = "try" THEN {} ELSE Head(s).rs

(* Positions in a sequence and in its rest. *)
LEMMA SureTail ==
  ASSUME NEW s, IsSeq(s), s # <<>>, NEW k \in 1 .. Len(s)
  PROVE  Sure(s, k + 1) \subseteq SureHead(s) \union Sure(Tail(s), k)
<1>0. Len(s) \in Nat /\ Head(s) = s[1] /\ \A j \in 1 .. (Len(s) - 1) : Tail(s)[j] = s[j + 1]
  BY TailOf
<1> SUFFICES ASSUME NEW j \in 1 .. ((k + 1) - 1), s[j].op # "try", NEW r \in s[j].rs
             PROVE r \in SureHead(s) \/ r \in Sure(Tail(s), k)
    BY DEF Sure
<1>1. CASE j = 1
  BY <1>0, <1>1 DEF SureHead
<1>2. CASE j # 1
  <2>1. j - 1 \in 1 .. (k - 1) /\ Tail(s)[j - 1] = s[j]
    BY <1>0, <1>2
  <2> QED BY <2>1 DEF Sure
<1> QED BY <1>1, <1>2

(* The same of what is released. *)
LEMMA GoneTail ==
  ASSUME NEW s, IsSeq(s), s # <<>>, NEW k \in 1 .. Len(s)
  PROVE  /\ Gone(Tail(s), k) \subseteq Gone(s, k + 1)
         /\ WithParts(Head(s).rs) \subseteq Gone(s, k + 1)
<1>0. Len(s) \in Nat /\ Head(s) = s[1] /\ \A j \in 1 .. (Len(s) - 1) : Tail(s)[j] = s[j + 1]
  BY TailOf
<1>1. ASSUME NEW j \in 1 .. (k - 1), NEW r \in WithParts(Tail(s)[j].rs)
      PROVE r \in Gone(s, k + 1)
  <2>1. j + 1 \in 1 .. ((k + 1) - 1) /\ r \in WithParts(s[j + 1].rs)
    BY <1>0, <1>1
  <2> QED BY <2>1 DEF Gone
<1>2. 1 \in 1 .. ((k + 1) - 1)
  BY <1>0
<1> QED BY <1>0, <1>1, <1>2 DEF Gone

(* More held does no harm to the releases. *)
LEMMA PutsMono ==
  ASSUME NEW s, NEW H, NEW G, Puts(s, H), H \subseteq G
  PROVE  Puts(s, G)
  BY DEF Puts

(* The first release is of what is there, and so are the others. *)
LEMMA PutsTail ==
  ASSUME NEW s, NEW H, IsSeq(s), s # <<>>, Puts(s, H)
  PROVE  /\ Head(s).op \in {"put", "drop"} /\ (Head(s).op = "put" => Head(s).rs \subseteq H)
         /\ Puts(Tail(s), H \ WithParts(Head(s).rs))
<1>0. /\ 1 \in DOMAIN s /\ Head(s) = s[1] /\ Len(s) \in Nat /\ DOMAIN s = 1 .. Len(s)
      /\ DOMAIN Tail(s) = 1 .. (Len(s) - 1)
      /\ \A i \in DOMAIN Tail(s) : i + 1 \in DOMAIN s /\ Tail(s)[i] = s[i + 1]
  BY TailOf
<1>1. Head(s).op \in {"put", "drop"} /\ (Head(s).op = "put" => Head(s).rs \subseteq H)
  BY <1>0 DEF Puts
<1>2. ASSUME NEW i \in DOMAIN Tail(s)
      PROVE /\ Tail(s)[i].op \in {"put", "drop"}
            /\ Tail(s)[i].op = "put" =>
                 Tail(s)[i].rs \subseteq (H \ WithParts(Head(s).rs)) \ Gone(Tail(s), i)
  <2>1. i + 1 \in DOMAIN s /\ Tail(s)[i] = s[i + 1] /\ i \in 1 .. Len(s)
    BY <1>0
  <2>2. /\ s[i + 1].op \in {"put", "drop"}
        /\ s[i + 1].op = "put" => s[i + 1].rs \subseteq H \ Gone(s, i + 1)
    BY <2>1 DEF Puts
  <2> QED BY <2>1, <2>2, GoneTail
<1> QED BY <1>1, <1>2 DEF Puts

(* The same of the operations before. *)
LEMMA EarnsMono ==
  ASSUME NEW s, NEW fin, NEW H, NEW K, NEW G, Earns(s, fin, H, K), H \cap K \subseteq G
  PROVE  Earns(s, fin, G, K)
<1>1. \A S : (H \union S) \cap K \subseteq (G \union S) \cap K
  OBVIOUS
<1>2. ASSUME NEW k \in DOMAIN s
      PROVE /\ s[k].op # "opt"
            /\ Fails(s[k]) => Puts(s[k].undo, (G \union Sure(s, k)) \cap K)
  <2>1. /\ s[k].op # "opt"
        /\ Fails(s[k]) => Puts(s[k].undo, (H \union Sure(s, k)) \cap K)
    BY DEF Earns
  <2>2. (H \union Sure(s, k)) \cap K \subseteq (G \union Sure(s, k)) \cap K
    OBVIOUS
  <2> QED BY <2>1, <2>2, PutsMono
<1>3. Puts(fin, (G \union Sure(s, Len(s) + 1)) \cap K)
  <2>1. Puts(fin, (H \union Sure(s, Len(s) + 1)) \cap K)
    BY DEF Earns
  <2> QED BY <2>1, <1>1, PutsMono
<1> QED BY <1>2, <1>3 DEF Earns

(* One operation further. *)
LEMMA EarnsTail ==
  ASSUME NEW s, NEW fin, NEW H, NEW K, NEW G, IsSeq(s), s # <<>>, Earns(s, fin, H, K),
         (H \union SureHead(s)) \cap K \subseteq G
  PROVE  Earns(Tail(s), fin, G, K)
<1> DEFINE t == Tail(s)
<1>0. /\ Len(s) \in Nat /\ Len(s) >= 1 /\ DOMAIN s = 1 .. Len(s) /\ Len(t) = Len(s) - 1
      /\ DOMAIN t = 1 .. Len(t) /\ \A k \in DOMAIN t : k + 1 \in DOMAIN s /\ t[k] = s[k + 1]
  BY TailOf
<1>1. ASSUME NEW k \in 1 .. Len(s)
      PROVE (H \union Sure(s, k + 1)) \cap K \subseteq (G \union Sure(t, k)) \cap K
  <2>1. Sure(s, k + 1) \subseteq SureHead(s) \union Sure(t, k)
    BY SureTail
  <2> QED BY <2>1
<1> HIDE DEF t
<1>2. ASSUME NEW k \in DOMAIN t
      PROVE /\ t[k].op # "opt"
            /\ Fails(t[k]) => Puts(t[k].undo, (G \union Sure(t, k)) \cap K)
  <2>1. k \in 1 .. Len(s) /\ k + 1 \in DOMAIN s /\ t[k] = s[k + 1]
    BY <1>0
  <2>2. /\ t[k].op # "opt"
        /\ Fails(t[k]) => Puts(t[k].undo, (H \union Sure(s, k + 1)) \cap K)
    BY <2>1 DEF Earns
  <2> QED BY <2>1, <2>2, <1>1, PutsMono
<1>3. Puts(fin, (G \union Sure(t, Len(t) + 1)) \cap K)
  <2>1. Len(t) + 1 = Len(s) /\ Len(s) \in 1 .. Len(s)
    BY <1>0
  <2>2. Puts(fin, (H \union Sure(s, Len(s) + 1)) \cap K)
    BY DEF Earns
  <2> QED BY <2>1, <2>2, <1>1, PutsMono
<1> QED BY <1>2, <1>3 DEF Earns, t

(* The first operation fails, or nothing is left. *)
LEMMA EarnsEnds ==
  ASSUME NEW s, NEW fin, NEW H, NEW K, IsSeq(s), Earns(s, fin, H, K)
  PROVE  /\ s # <<>> => Head(s).op # "opt"
         /\ s # <<>> /\ Fails(Head(s)) => Puts(Head(s).undo, H \cap K)
         /\ s = <<>> => Puts(fin, H \cap K)
<1>1. ASSUME s # <<>>
      PROVE Head(s).op # "opt" /\ (Fails(Head(s)) => Puts(Head(s).undo, H \cap K))
  <2>1. 1 \in DOMAIN s /\ Head(s) = s[1]
    BY <1>1, TailOf
  <2>2. Sure(s, 1) = {}
    BY DEF Sure
  <2> QED BY <2>1, <2>2, PutsMono DEF Earns
<1>2. ASSUME s = <<>> PROVE Puts(fin, H \cap K)
  <2>1. Len(s) + 1 = 1
    BY <1>2
  <2>2. Sure(s, 1) = {}
    BY DEF Sure
  <2>3. Puts(fin, (H \union Sure(s, 1)) \cap K)
    BY <2>1 DEF Earns
  <2> QED BY <2>2, <2>3, PutsMono
<1> QED BY <1>1, <1>2

(* The order of the releases that are left. *)
LEMMA OrderedTail ==
  ASSUME NEW s, NEW w, NEW u, IsSeq(s), s # <<>>, Ordered(s, w, u)
  PROVE  /\ u \in WithParts(Head(s).rs) => w \in WithParts(Head(s).rs)
         /\ w \notin WithParts(Head(s).rs) => Ordered(Tail(s), w, u)
<1>0. /\ 1 \in DOMAIN s /\ Head(s) = s[1] /\ Len(s) \in Nat /\ DOMAIN s = 1 .. Len(s)
      /\ DOMAIN Tail(s) = 1 .. (Len(s) - 1)
      /\ \A i \in DOMAIN Tail(s) : i + 1 \in DOMAIN s /\ Tail(s)[i] = s[i + 1]
  BY TailOf
<1>1. u \in WithParts(Head(s).rs) => w \in WithParts(Head(s).rs)
  <2>1. \A j \in 1 .. 1 : j = 1
    OBVIOUS
  <2> QED BY <1>0, <2>1 DEF Ordered
<1>2. ASSUME w \notin WithParts(Head(s).rs), NEW i \in DOMAIN Tail(s),
             u \in WithParts(Tail(s)[i].rs)
      PROVE \E j \in 1 .. i : w \in WithParts(Tail(s)[j].rs)
  <2>1. i + 1 \in DOMAIN s /\ u \in WithParts(s[i + 1].rs)
    BY <1>0, <1>2
  <2>2. PICK j \in 1 .. (i + 1) : w \in WithParts(s[j].rs)
    BY <2>1 DEF Ordered
  <2>3. j # 1
    BY <2>2, <1>0, <1>2
  <2>4. j - 1 \in 1 .. i /\ j - 1 \in DOMAIN Tail(s) /\ (j - 1) + 1 = j
    BY <2>3, <1>0
  <2> QED BY <2>2, <2>4, <1>0
<1> QED BY <1>1, <1>2 DEF Ordered

(* One operation further. *)
LEMMA UnwindsTail ==
  ASSUME NEW s, NEW fin, NEW H, NEW G, NEW w, NEW u, IsSeq(s), s # <<>>,
         Unwinds(s, fin, H, w, u), w \in G => w \in H \union Head(s).rs
  PROVE  Unwinds(Tail(s), fin, G, w, u)
<1>0. /\ Len(s) \in Nat /\ DOMAIN Tail(s) = 1 .. (Len(s) - 1)
      /\ \A i \in DOMAIN Tail(s) : i + 1 \in DOMAIN s /\ Tail(s)[i] = s[i + 1]
  BY TailOf
<1>1. ASSUME NEW k \in DOMAIN Tail(s), Fails(Tail(s)[k]), w \in G \union Before(Tail(s), k)
      PROVE Ordered(Tail(s)[k].undo, w, u)
  <2>1. k + 1 \in DOMAIN s /\ Tail(s)[k] = s[k + 1] /\ k \in 1 .. Len(s)
    BY <1>0
  <2>2. w \in H \union Before(s, k + 1)
    BY <1>1, <2>1, BeforeTail
  <2> QED BY <1>1, <2>1, <2>2 DEF Unwinds
<1>2. Ordered(fin, w, u)
  BY DEF Unwinds
<1> QED BY <1>1, <1>2 DEF Unwinds

(* The first operation fails, or w is not held any more. *)
LEMMA UnwindsEnds ==
  ASSUME NEW s, NEW fin, NEW H, NEW w, NEW u, IsSeq(s), Unwinds(s, fin, H, w, u)
  PROVE  /\ s # <<>> /\ Fails(Head(s)) /\ w \in H => Ordered(Head(s).undo, w, u)
         /\ Ordered(fin, w, u)
         /\ \A G : (w \in G => w \in H) => Unwinds(s, fin, G, w, u)
<1>1. s # <<>> => 1 \in DOMAIN s /\ Head(s) = s[1]
  BY TailOf
<1> QED BY <1>1 DEF Unwinds

(* One operation further. *)
LEMMA RestsTail ==
  ASSUME NEW s, NEW H, NEW G, NEW w, NEW u, IsSeq(s), s # <<>>,
         Rests(s, H, w, u), u \in H \union SureHead(s) => u \in G
  PROVE  Rests(Tail(s), G, w, u) /\ (w \in Head(s).rs => u \in H)
<1>0. /\ Len(s) \in Nat /\ DOMAIN Tail(s) = 1 .. (Len(s) - 1) /\ 1 \in DOMAIN s /\ Head(s) = s[1]
      /\ \A i \in DOMAIN Tail(s) : i + 1 \in DOMAIN s /\ Tail(s)[i] = s[i + 1]
  BY TailOf
<1>1. ASSUME NEW k \in DOMAIN Tail(s), w \in Tail(s)[k].rs
      PROVE u \in G \union Sure(Tail(s), k)
  <2>1. k + 1 \in DOMAIN s /\ Tail(s)[k] = s[k + 1] /\ k \in 1 .. Len(s)
    BY <1>0
  <2>2. u \in H \union Sure(s, k + 1)
    BY <1>1, <2>1 DEF Rests
  <2> QED BY <2>1, <2>2, SureTail
<1>2. Sure(s, 1) = {}
  BY DEF Sure
<1> QED BY <1>0, <1>1, <1>2 DEF Rests

(* One operation further, for the managed list. *)
LEMMA StacksTail ==
  ASSUME NEW s, NEW M, NEW N, NEW w, NEW u, IsSeq(s), s # <<>>, Stacks(s, M, w, u),
         w \in N => \/ w \in M
                    \/ Head(s).op = "devm" /\ w \in WithParts(Head(s).rs)
  PROVE  /\ Stacks(Tail(s), N, w, u)
         /\ Head(s).op = "devm" /\ u \in WithParts(Head(s).rs) => w \notin M
<1>0. /\ Len(s) \in Nat /\ DOMAIN Tail(s) = 1 .. (Len(s) - 1) /\ 1 \in DOMAIN s /\ Head(s) = s[1]
      /\ \A i \in DOMAIN Tail(s) : i + 1 \in DOMAIN s /\ Tail(s)[i] = s[i + 1]
  BY TailOf
<1>a. Head(s).op = "devm" /\ u \in WithParts(Head(s).rs) => w \notin M
  BY <1>0 DEF Stacks
<1> SUFFICES ASSUME NEW k \in DOMAIN Tail(s), Tail(s)[k].op = "devm",
                    u \in WithParts(Tail(s)[k].rs), w \in N \union Managed(Tail(s), k)
             PROVE FALSE
    BY <1>a DEF Stacks
<1>1. k + 1 \in DOMAIN s /\ Tail(s)[k] = s[k + 1]
  BY <1>0
<1>2. w \notin M /\ w \notin Managed(s, k + 1)
  BY <1>1 DEF Stacks
<1>3. CASE w \in Managed(Tail(s), k)
  <2>1. PICK j \in 1 .. (k - 1) : Tail(s)[j].op = "devm" /\ w \in WithParts(Tail(s)[j].rs)
    BY <1>3 DEF Managed
  <2>2. j + 1 \in 1 .. ((k + 1) - 1) /\ Tail(s)[j] = s[j + 1]
    BY <1>0
  <2> QED BY <1>2, <2>1, <2>2 DEF Managed
<1>4. CASE w \in N
  <2>1. Head(s).op = "devm" /\ w \in WithParts(Head(s).rs)
    BY <1>2, <1>4
  <2>2. 1 \in 1 .. ((k + 1) - 1)
    BY <1>0
  <2> QED BY <1>0, <1>2, <2>1, <2>2 DEF Managed
<1> QED BY <1>3, <1>4

(* A managed resource is added in front, or taken from there. *)
LEMMA StackedCons ==
  ASSUME NEW l, NEW x, NEW w, NEW u, IsSeq(l),
         w \in WithParts(x) \/ (u \notin WithParts(x) /\ Stacked(l, w, u))
  PROVE  Stacked(<<x>> \o l, w, u)
<1> DEFINE m == <<x>> \o l
<1>a. DOMAIN m = 1 .. (Len(l) + 1) /\ Len(l) \in Nat /\ DOMAIN l = 1 .. Len(l) /\ m[1] = x
  BY ConsOf
<1>b. \A i \in DOMAIN l : m[i + 1] = l[i]
  BY ConsOf
<1>c. \A i \in DOMAIN m : i = 1 \/ (i - 1 \in DOMAIN l /\ m[i] = l[i - 1])
  BY ConsOf
<1> HIDE DEF m
<1>0. /\ DOMAIN m = 1 .. (Len(l) + 1) /\ Len(l) \in Nat /\ DOMAIN l = 1 .. Len(l) /\ m[1] = x
      /\ \A i \in DOMAIN l : m[i + 1] = l[i]
      /\ \A i \in DOMAIN m : i = 1 \/ (i - 1 \in DOMAIN l /\ m[i] = l[i - 1])
  BY <1>a, <1>b, <1>c
<1> SUFFICES ASSUME NEW i \in DOMAIN m, u \in WithParts(m[i])
             PROVE \E j \in 1 .. i : w \in WithParts(m[j])
    BY DEF Stacked, m
<1>1. CASE w \in WithParts(x)
  <2>1. 1 \in 1 .. i /\ w \in WithParts(m[1])
    BY <1>0, <1>1
  <2> QED BY <2>1
<1>2. CASE u \notin WithParts(x) /\ Stacked(l, w, u)
  <2>1. i # 1 /\ i - 1 \in DOMAIN l /\ m[i] = l[i - 1]
    BY <1>0, <1>2
  <2>2. PICK j \in 1 .. (i - 1) : w \in WithParts(l[j])
    BY <1>2, <2>1 DEF Stacked
  <2>3. j \in DOMAIN l /\ j + 1 \in 1 .. i /\ m[j + 1] = l[j]
    BY <1>0, <2>1
  <2> QED BY <2>2, <2>3
<1> QED BY <1>1, <1>2

(* Nothing else is added. *)
LEMMA CoverOnly ==
  ASSUME NEW l, IsSeq(l), NEW x
  PROVE  Cover(<<x>> \o l) \subseteq WithParts(x) \union Cover(l)
<1> DEFINE m == <<x>> \o l
<1>1. \A i \in DOMAIN m : i = 1 \/ (i - 1 \in DOMAIN l /\ m[i] = l[i - 1])
  BY ConsOf
<1>2. m[1] = x
  BY ConsOf
<1> HIDE DEF m
<1> QED BY <1>1, <1>2 DEF Cover, m

(* The managed list without its first element. *)
LEMMA StackedTail ==
  ASSUME NEW l, NEW w, NEW u, IsSeq(l), l # <<>>, Stacked(l, w, u)
  PROVE  /\ u \in WithParts(Head(l)) => w \in WithParts(Head(l))
         /\ w \notin WithParts(Head(l)) => Stacked(Tail(l), w, u)
<1>0. /\ 1 \in DOMAIN l /\ Head(l) = l[1] /\ Len(l) \in Nat /\ DOMAIN l = 1 .. Len(l)
      /\ DOMAIN Tail(l) = 1 .. (Len(l) - 1)
      /\ \A i \in DOMAIN Tail(l) : i + 1 \in DOMAIN l /\ Tail(l)[i] = l[i + 1]
  BY TailOf
<1>1. u \in WithParts(Head(l)) => w \in WithParts(Head(l))
  <2>1. \A j \in 1 .. 1 : j = 1
    OBVIOUS
  <2> QED BY <1>0, <2>1 DEF Stacked
<1>2. ASSUME w \notin WithParts(Head(l)), NEW i \in DOMAIN Tail(l), u \in WithParts(Tail(l)[i])
      PROVE \E j \in 1 .. i : w \in WithParts(Tail(l)[j])
  <2>1. i + 1 \in DOMAIN l /\ u \in WithParts(l[i + 1])
    BY <1>0, <1>2
  <2>2. PICK j \in 1 .. (i + 1) : w \in WithParts(l[j])
    BY <2>1 DEF Stacked
  <2>3. j # 1
    BY <2>2, <1>0, <1>2
  <2>4. j - 1 \in 1 .. i /\ j - 1 \in DOMAIN Tail(l) /\ (j - 1) + 1 = j
    BY <2>3, <1>0
  <2> QED BY <2>2, <2>4, <1>0
<1> QED BY <1>1, <1>2 DEF Stacked

-----------------------------------------------------------------------------
(* What the device's thread does not touch, which is all if there is none. *)
ModOnly(T) == Kept(T) \union (IF T.anchors = {} THEN Names(T.init) ELSE {})

(* Init acquires and its error paths and exit release in an order in which *)
(* u does not go before w, and w comes on top of u.                        *)
ModOrders(T, w, u) == w \in ModOnly(T) \ {"text"} /\ Unwinds(T.init, T.exit, {}, w, u)

ModRests(T, w, u) ==
  ModOrders(T, w, u) /\ u \in ModOnly(T) \ {"text"} /\ Rests(T.init, {}, w, u)

(* The state of it: what is left to do keeps the order. *)
ModOrder(w, u) ==
  /\ mod = "init" => Unwinds(todo.mod, Table[d].exit, held, w, u)
  /\ mod \in {"undo", "exit"} /\ w \in held => Ordered(todo.mod, w, u)

ModBase(w, u) ==
  /\ w \in held => u \in held
  /\ mod = "init" => Rests(todo.mod, held, w, u)

(* What the module's thread still has to put is there. *)
ModMust ==
  /\ mod = "init" => Earns(todo.mod, Table[d].exit, held, ModOnly(Table[d]))
  /\ mod = "in" => Puts(Table[d].exit, held \cap ModOnly(Table[d]))
  /\ mod \in {"undo", "exit"} => Puts(todo.mod, held \cap ModOnly(Table[d]))

(* The criterion and the invariant that the theorems before rest on. *)
TidyState ==
  /\ Tidy(Table[d], KnownLeaks) /\ Shape /\ ModShape /\ DevShape
  /\ OwnInv /\ ItsInv /\ HeldInv

(* What a step does to the module and to what only its thread touches:     *)
(* nothing, the beginnings and ends of its functions, or one operation.    *)
ModStays ==
  /\ mod' = mod /\ todo'.mod = todo.mod
  /\ held' \cap ModOnly(Table[d]) = held \cap ModOnly(Table[d])

ModLoads ==
  mod = "new" /\ mod' = "init" /\ todo'.mod = Table[d].init /\ held = {} /\ held' = {"text"}

ModLoaded == mod = "init" /\ mod' = "in" /\ todo.mod = <<>> /\ held' = held

ModUnloads == mod = "in" /\ mod' = "exit" /\ todo'.mod = Table[d].exit /\ held' = held

ModEnds == /\ mod \in {"undo", "exit"} /\ mod' = IF mod = "exit" THEN "gone" ELSE "failed"
           /\ todo.mod = <<>> /\ held' = held \ {"text"}

ModFails ==
  /\ mod = "init" /\ mod' = "undo" /\ todo.mod # <<>> /\ IsSeq(todo.mod)
  /\ Fails(Head(todo.mod)) /\ todo'.mod = Head(todo.mod).undo /\ held' = held

ModSkips ==
  /\ mod = "init" /\ mod' = "init" /\ todo.mod # <<>> /\ IsSeq(todo.mod)
  /\ Head(todo.mod).op = "opt" /\ todo'.mod = <<>> /\ held' = held

ModAdvances ==
  /\ mod = "init" /\ mod' = "init" /\ todo.mod # <<>> /\ IsSeq(todo.mod)
  /\ todo'.mod = Tail(todo.mod)
  /\ \/ held' = held \union Head(todo.mod).rs
     \/ held' = held /\ Head(todo.mod).op = "try"

ModGivesUp ==
  /\ mod \in {"undo", "exit"} /\ mod' = mod /\ todo.mod # <<>> /\ IsSeq(todo.mod)
  /\ todo'.mod = Tail(todo.mod) /\ held' = held \ WithParts(Head(todo.mod).rs)
  /\ Release("mod")

(* There is nothing else. *)
LEMMA ModEffects ==
  ASSUME TidyState, [Next]_vars
  PROVE  \/ ModStays \/ ModLoads \/ ModLoaded \/ ModUnloads \/ ModEnds
         \/ ModFails \/ ModSkips \/ ModAdvances \/ ModGivesUp
<1> USE DEF Busy
<1>0. /\ Tidy(Table[d], KnownLeaks) /\ Shape /\ ModShape /\ DevShape
      /\ OwnInv /\ ItsInv /\ HeldInv
  BY DEF TidyState
<1>a. mod = "init" => IsSeq(todo.mod)
  BY <1>0 DEF OwnInv, Acquires
<1>b. dev # "unbound" => ModOnly(Table[d]) = Kept(Table[d])
  BY <1>0 DEF Shape, ModOnly
<1>c. Names(Table[d].probe) \cap Kept(Table[d]) = {}
  BY <1>0 DEF Tidy, Regular, DeviceSide, Acquires, Names, WithParts
<1>d. dev \notin {"unbound", "bound", "release"} \/ todo.dev = <<>>
  BY <1>0 DEF Shape
<1>1. CASE UNCHANGED vars \/ FileNext
  BY <1>1 DEF vars, FileNext, Open, OpenPins, Close, ModStays
<1>2. CASE Load
  BY <1>2, <1>0 DEF Load, Shape, ModLoads
<1>3. CASE Loaded
  BY <1>3 DEF Loaded, ModLoaded
<1>4. CASE Unload
  BY <1>4, <1>0 DEF Unload, Shape, ModUnloads
<1>5. CASE FreeText
  BY <1>5 DEF FreeText, ModEnds
<1>6. CASE InitFails
  BY <1>6, <1>0, <1>a DEF InitFails, Shape, Op1, Fails, ModFails
<1>7. CASE OptFails("mod")
  <2>1. /\ mod' = mod /\ todo'.mod = <<>> /\ held' = held
        /\ todo.mod # <<>> /\ Head(todo.mod).op = "opt"
    BY <1>7, <1>0 DEF OptFails, Shape, Op1
  <2>2. mod \notin {"undo", "exit"}
    BY <1>0, <2>1, TailOf DEF ModShape, Undoes
  <2> QED BY <1>0, <1>a, <2>1, <2>2 DEF Shape, ModSkips
<1>8. CASE Acquire("mod")
  <2>1. /\ mod = "init" /\ todo.mod # <<>> /\ IsSeq(todo.mod) /\ mod' = mod
        /\ held' = held \union Head(todo.mod).rs /\ todo'.mod = Tail(todo.mod)
    BY <1>0, <1>8, ModAcquires
  <2> QED BY <2>1 DEF ModAdvances
<1>9. CASE TryFails("mod")
  <2>1. /\ mod' = mod /\ todo'.mod = Head(todo.mod).undo \o Tail(todo.mod)
        /\ held' = held /\ todo.mod # <<>> /\ Head(todo.mod).op = "try"
    BY <1>9, <1>0 DEF TryFails, Shape, Op1
  <2>2. mod = "init"
    <3>1. mod \notin {"undo", "exit"}
      BY <1>0, <2>1, TailOf DEF ModShape, Undoes
    <3> QED BY <1>0, <3>1, <2>1 DEF Shape
  <2>3. IsSeq(todo.mod) /\ Head(todo.mod).undo = <<>>
    BY <1>0, <2>1, <2>2, TailOf DEF OwnInv, Acquires
  <2>4. IsSeq(Tail(todo.mod))
    BY <2>1, <2>3, TailOf
  <2>5. todo'.mod = Tail(todo.mod)
    BY <2>1, <2>3, <2>4, ConcatEmptySeq DEF IsSeq
  <2> QED BY <2>1, <2>2, <2>3, <2>5 DEF ModAdvances
<1>10. CASE Release("mod")
  <2>1. /\ mod \in {"undo", "exit"} /\ todo.mod # <<>> /\ IsSeq(todo.mod)
        /\ Head(todo.mod).op \in {"put", "drop", "spoil"}
    BY <1>10, <1>0, ModReleases
  <2>2. /\ held' = held \ WithParts(Head(todo.mod).rs) /\ mod' = mod
        /\ todo'.mod = Tail(todo.mod)
    BY <1>10, <1>0, <2>1, ReleaseTakes DEF HeldInv, Shape
  <2> QED BY <1>10, <2>1, <2>2 DEF ModGivesUp
<1>11. CASE Probe \/ Bound \/ Unbind \/ Removed \/ Unbound \/ ProbeFails
  BY <1>11, <1>0 DEF Probe, Bound, Unbind, Removed, Unbound, ProbeFails, Shape, ModStays
<1>12. CASE DevresRelease
  <2>1. /\ UNCHANGED <<mod, todo>> /\ held' = held \ WithParts(Head(devres))
        /\ dev # "unbound" /\ devres # <<>>
    BY <1>12 DEF DevresRelease
  <2>2. WithParts(Head(devres)) \cap Kept(Table[d]) = {}
    BY <1>0, <2>1, TailOf DEF DevShape
  <2> QED BY <1>b, <2>1, <2>2 DEF ModStays
<1>13. CASE Acquire("dev")
  <2>1. /\ held' = held \union Head(todo.dev).rs /\ mod' = mod /\ todo'.mod = todo.mod
        /\ Head(todo.dev).rs \subseteq Names(Table[d].probe) /\ dev # "unbound"
    BY <1>0, <1>13, DevAcquires
  <2> QED BY <1>b, <1>c, <2>1 DEF ModStays
<1>14. CASE Release("dev")
  <2>1. /\ Head(todo.dev).op \in {"put", "drop", "spoil"} /\ dev # "unbound"
        /\ WithParts(Head(todo.dev).rs) \cap Kept(Table[d]) = {}
    BY <1>0, <1>14, DevReleases
  <2>2. held' = held \ WithParts(Head(todo.dev).rs) /\ mod' = mod /\ todo'.mod = todo.mod
    BY <1>0, <1>14, <2>1, ReleaseTakes DEF HeldInv, Shape
  <2> QED BY <1>b, <2>1, <2>2 DEF ModStays
<1> QED
  BY <1>0, <1>1, <1>2, <1>3, <1>4, <1>5, <1>6, <1>7, <1>8, <1>9, <1>10, <1>11, <1>12, <1>13,
     <1>14, DevTriesNot DEF Next, ModNext, DevNext, Step

(* The module's thread keeps to the order of the table. *)
LEMMA ModOrderNext ==
  ASSUME NEW w, NEW u, TidyState, ModOrders(Table[d], w, u), ModOrder(w, u), [Next]_vars
  PROVE  ModOrder(w, u)'
<1> DEFINE fin == Table[d].exit
<1>0. /\ w \in ModOnly(Table[d]) /\ w # "text" /\ Unwinds(Table[d].init, fin, {}, w, u)
      /\ IsSeq(Table[d].init)
  BY DEF ModOrders, TidyState, Tidy, Acquires
<1>a. /\ mod = "init" => Unwinds(todo.mod, fin, held, w, u)
      /\ mod \in {"undo", "exit"} /\ w \in held => Ordered(todo.mod, w, u)
  BY DEF ModOrder
<1>b. ASSUME mod' = "init" => Unwinds(todo'.mod, fin, held', w, u),
             mod' \in {"undo", "exit"} /\ w \in held' => Ordered(todo'.mod, w, u)
      PROVE ModOrder(w, u)'
  BY <1>b, SameDriver DEF ModOrder
<1>c. Ordered(fin, w, u)
  BY <1>0 DEF Unwinds
<1> HIDE DEF fin
<1>1. CASE ModStays
  <2>1. mod' = mod /\ todo'.mod = todo.mod /\ (w \in held' <=> w \in held)
    BY <1>1, <1>0 DEF ModStays
  <2>2. mod = "init" => Unwinds(todo.mod, fin, held', w, u)
    BY <2>1, <1>a DEF Unwinds
  <2> QED BY <2>1, <2>2, <1>a, <1>b
<1>2. CASE ModLoads
  <2>1. Unwinds(Table[d].init, fin, {"text"}, w, u)
    BY <1>0 DEF Unwinds
  <2> QED BY <1>2, <2>1, <1>b DEF ModLoads
<1>3. CASE ModLoaded \/ ModUnloads \/ ModEnds
  BY <1>3, <1>b, <1>c DEF ModLoaded, ModUnloads, ModEnds, fin
<1>4. CASE ModFails
  BY <1>4, <1>a, <1>b, UnwindsEnds DEF ModFails
<1>5. CASE ModSkips
  <2>1. Unwinds(<<>>, fin, held, w, u)
    BY <1>c DEF Unwinds
  <2> QED BY <1>5, <2>1, <1>b DEF ModSkips
<1>6. CASE ModAdvances
  <2>1. w \in held' => w \in held \union Head(todo.mod).rs
    BY <1>6 DEF ModAdvances
  <2>2. Unwinds(Tail(todo.mod), fin, held', w, u)
    BY <1>6, <2>1, <1>a, UnwindsTail DEF ModAdvances
  <2> QED BY <1>6, <2>2, <1>b DEF ModAdvances
<1>7. CASE ModGivesUp
  <2>1. w \in held' => w \in held /\ w \notin WithParts(Head(todo.mod).rs)
    BY <1>7 DEF ModGivesUp
  <2>2. w \in held' => Ordered(Tail(todo.mod), w, u)
    BY <1>7, <2>1, <1>a, OrderedTail DEF ModGivesUp
  <2> QED BY <1>7, <2>2, <1>b DEF ModGivesUp
<1> QED BY <1>1, <1>2, <1>3, <1>4, <1>5, <1>6, <1>7, ModEffects

(* What comes on top of something does not outlive it. *)
LEMMA ModBaseNext ==
  ASSUME NEW w, NEW u, TidyState, ModRests(Table[d], w, u), ModOrder(w, u), ModBase(w, u),
         [Next]_vars
  PROVE  ModBase(w, u)'
<1>0. /\ w \in ModOnly(Table[d]) /\ u \in ModOnly(Table[d]) /\ w # "text" /\ u # "text"
      /\ Rests(Table[d].init, {}, w, u)
  BY DEF ModRests, ModOrders
<1>a. (w \in held => u \in held) /\ (mod = "init" => Rests(todo.mod, held, w, u))
  BY DEF ModBase
<1>b. ASSUME w \in held' => u \in held', mod' = "init" => Rests(todo'.mod, held', w, u)
      PROVE ModBase(w, u)'
  BY <1>b DEF ModBase
<1>1. CASE ModStays
  <2>1. /\ mod' = mod /\ todo'.mod = todo.mod
        /\ (w \in held' <=> w \in held) /\ (u \in held' <=> u \in held)
    BY <1>1, <1>0 DEF ModStays
  <2>2. mod = "init" => Rests(todo.mod, held', w, u)
    BY <2>1, <1>a DEF Rests
  <2> QED BY <2>1, <2>2, <1>a, <1>b
<1>2. CASE ModLoads
  <2>1. Rests(Table[d].init, {"text"}, w, u)
    BY <1>0 DEF Rests
  <2> QED BY <1>2, <2>1, <1>0, <1>b DEF ModLoads
<1>3. CASE ModLoaded \/ ModUnloads \/ ModFails
  BY <1>3, <1>a, <1>b DEF ModLoaded, ModUnloads, ModFails
<1>4. CASE ModEnds
  BY <1>4, <1>0, <1>a, <1>b DEF ModEnds
<1>5. CASE ModSkips
  <2>1. Rests(<<>>, held, w, u)
    BY DEF Rests
  <2> QED BY <1>5, <2>1, <1>a, <1>b DEF ModSkips
<1>6. CASE ModAdvances
  <2>1. u \in held \union SureHead(todo.mod) => u \in held'
    BY <1>6 DEF ModAdvances, SureHead
  <2>2. Rests(Tail(todo.mod), held', w, u) /\ (w \in Head(todo.mod).rs => u \in held)
    BY <1>6, <2>1, <1>a, RestsTail DEF ModAdvances
  <2> QED BY <1>6, <2>2, <1>a, <1>b DEF ModAdvances
<1>7. CASE ModGivesUp
  <2>1. w \in held => Ordered(todo.mod, w, u)
    BY <1>7 DEF ModGivesUp, ModOrder
  <2>2. w \in held /\ u \in WithParts(Head(todo.mod).rs) => w \in WithParts(Head(todo.mod).rs)
    BY <1>7, <2>1, OrderedTail DEF ModGivesUp
  <2> QED BY <1>7, <2>2, <1>a, <1>b DEF ModGivesUp
<1> QED BY <1>1, <1>2, <1>3, <1>4, <1>5, <1>6, <1>7, ModEffects

(* The module's thread puts what is there. *)
LEMMA ModMustNext ==
  ASSUME TidyState, Earns(Table[d].init, Table[d].exit, {}, ModOnly(Table[d])), ModMust,
         [Next]_vars
  PROVE  ModMust'
<1> DEFINE fin == Table[d].exit
           K == ModOnly(Table[d])
<1>a. /\ mod = "init" => Earns(todo.mod, fin, held, K)
      /\ mod = "in" => Puts(fin, held \cap K)
      /\ mod \in {"undo", "exit"} => Puts(todo.mod, held \cap K)
  BY DEF ModMust
<1>b. ASSUME mod' = "init" => Earns(todo'.mod, fin, held', K),
             mod' = "in" => Puts(fin, held' \cap K),
             mod' \in {"undo", "exit"} => Puts(todo'.mod, held' \cap K)
      PROVE ModMust'
  BY <1>b, SameDriver DEF ModMust
<1>c. Earns(Table[d].init, fin, {}, K)
  OBVIOUS
<1>1. CASE ModStays
  <2>1. mod' = mod /\ todo'.mod = todo.mod /\ held' \cap K = held \cap K
    BY <1>1 DEF ModStays
  <2> HIDE DEF fin, K
  <2>2. mod = "init" => Earns(todo.mod, fin, held', K)
    BY <2>1, <1>a, EarnsMono
  <2> QED BY <2>1, <2>2, <1>a, <1>b
<1> HIDE DEF fin, K
<1>2. CASE ModLoads
  <2>1. Earns(Table[d].init, fin, {"text"}, K)
    BY <1>c, EarnsMono
  <2> QED BY <1>2, <2>1, <1>b DEF ModLoads
<1>3. CASE ModLoaded
  BY <1>3, <1>a, <1>b, EmptyIsSeq, EarnsEnds DEF ModLoaded
<1>4. CASE ModUnloads
  BY <1>4, <1>a, <1>b DEF ModUnloads, fin
<1>5. CASE ModEnds
  BY <1>5, <1>b DEF ModEnds
<1>6. CASE ModFails
  BY <1>6, <1>a, <1>b, EarnsEnds DEF ModFails
<1>7. CASE ModSkips
  BY <1>7, <1>a, EarnsEnds DEF ModSkips
<1>8. CASE ModAdvances
  <2>1. (held \union SureHead(todo.mod)) \cap K \subseteq held'
    BY <1>8 DEF ModAdvances, SureHead
  <2>2. Earns(Tail(todo.mod), fin, held', K)
    BY <1>8, <2>1, <1>a, EarnsTail DEF ModAdvances
  <2> QED BY <1>8, <2>2, <1>b DEF ModAdvances
<1>9. CASE ModGivesUp
  <2>1. Puts(Tail(todo.mod), (held \cap K) \ WithParts(Head(todo.mod).rs))
    BY <1>9, <1>a, PutsTail DEF ModGivesUp
  <2>2. (held \cap K) \ WithParts(Head(todo.mod).rs) \subseteq held' \cap K
    BY <1>9 DEF ModGivesUp
  <2>3. Puts(Tail(todo.mod), held' \cap K)
    BY <2>1, <2>2, PutsMono
  <2> QED BY <1>9, <2>3, <1>b DEF ModGivesUp
<1> QED BY <1>1, <1>2, <1>3, <1>4, <1>5, <1>6, <1>7, <1>8, <1>9, ModEffects

-----------------------------------------------------------------------------
(* The same for probe, its error paths, remove and the managed list. *)
DevOrders(T, L, w, u) ==
  /\ w \in Names(T.probe) \ L
  /\ Unwinds(T.probe, T.remove, {}, w, u) /\ Stacks(T.probe, {}, w, u)

DevRests(T, L, w, u) ==
  DevOrders(T, L, w, u) /\ u \in Names(T.probe) /\ Rests(T.probe, {}, w, u)

DevOrder(w, u) ==
  /\ dev = "probe" => /\ Unwinds(todo.dev, Table[d].remove, held, w, u)
                      /\ Stacks(todo.dev, Cover(devres), w, u)
  /\ dev \in {"undo", "remove"} /\ w \in held => Ordered(todo.dev, w, u)
  /\ dev # "release" => w \notin Cover(devres) \/ Stacked(devres, w, u)
  /\ dev = "release" /\ w \in held => Stacked(devres, w, u)

DevBase(w, u) ==
  /\ w \in held => u \in held
  /\ dev = "probe" => Rests(todo.dev, held, w, u)

DevMust ==
  /\ dev = "probe" => Earns(todo.dev, Table[d].remove, held, Names(Table[d].probe))
  /\ dev = "bound" => Puts(Table[d].remove, held \cap Names(Table[d].probe))
  /\ dev \in {"undo", "remove"} => Puts(todo.dev, held \cap Names(Table[d].probe))

(* An anchor that the module's functions give up before anything that the  *)
(* device holds or that its resources hang on.                             *)
Keystone(T, a) ==
  /\ a \in T.anchors
  /\ \A x \in Names(T.probe) : ModOrders(T, a, x)
  /\ \A r \in Names(T.probe) : \A n \in Needs(r) : ModRests(T, a, n)

(* What init, exit, probe and remove release is there, released once, and  *)
(* after what hangs on it.                                                 *)
Orderly(T, L) ==
  /\ Tidy(T, L)
  /\ L \subseteq Names(T.init) \union Names(T.probe)
  /\ Names(T.init) \cap Names(T.probe) = {}
  /\ Earns(T.init, T.exit, {}, ModOnly(T))
  /\ Earns(T.probe, T.remove, {}, Names(T.probe))
  /\ \A r \in Names(T.init) : \A n \in Needs(r) :
       ModOrders(T, r, n) /\ (r = "node" \/ ModRests(T, r, n))
  /\ \A r \in Names(T.probe) : Needs(r) # {} => r \notin L
  /\ T.anchors = {} \/ \E a \in T.anchors : Keystone(T, a)

(* Everything of it at once. *)
OrderInv ==
  /\ misused = {}
  /\ dev = "unbound" => devres = <<>>
  /\ ModMust /\ DevMust
  /\ \A w, u : ModOrders(Table[d], w, u) => ModOrder(w, u)
  /\ \A w, u : ModRests(Table[d], w, u) => ModBase(w, u)
  /\ \A w, u : DevOrders(Table[d], KnownLeaks, w, u) => DevOrder(w, u)
  /\ \A w, u : DevRests(Table[d], KnownLeaks, w, u) => DevBase(w, u)

(* What a step does to the device and to what its thread alone touches.    *)
DevStays ==
  /\ dev' = dev /\ todo'.dev = todo.dev /\ devres' = devres
  /\ dev # "unbound" => held' \cap Names(Table[d].probe) = held \cap Names(Table[d].probe)

DevProbes ==
  /\ dev = "unbound" /\ dev' = "probe" /\ todo'.dev = Table[d].probe
  /\ UNCHANGED <<held, devres>>

DevBinds == dev = "probe" /\ dev' = "bound" /\ todo.dev = <<>> /\ UNCHANGED <<held, devres>>

DevUnbinds ==
  dev = "bound" /\ dev' = "remove" /\ todo'.dev = Table[d].remove /\ UNCHANGED <<held, devres>>

DevRemoved ==
  /\ dev \in {"undo", "remove"} /\ dev' = "release" /\ todo.dev = <<>>
  /\ UNCHANGED <<held, devres>>

DevLetsGo ==
  /\ dev = "release" /\ dev' = "release" /\ devres # <<>> /\ IsSeq(devres)
  /\ held' = held \ WithParts(Head(devres)) /\ devres' = Tail(devres)
  /\ DevresRelease

DevUnbound ==
  dev = "release" /\ dev' = "unbound" /\ devres = <<>> /\ UNCHANGED <<held, devres>>

DevFails ==
  /\ dev = "probe" /\ dev' = "undo" /\ todo.dev # <<>> /\ IsSeq(todo.dev)
  /\ Fails(Head(todo.dev)) /\ todo'.dev = Head(todo.dev).undo /\ UNCHANGED <<held, devres>>

DevAdvances ==
  /\ dev = "probe" /\ dev' = "probe" /\ todo.dev # <<>> /\ IsSeq(todo.dev)
  /\ todo'.dev = Tail(todo.dev) /\ held' = held \union Head(todo.dev).rs
  /\ devres' = IF Head(todo.dev).op = "devm" /\ Head(todo.dev).rs # {}
                 THEN <<Head(todo.dev).rs>> \o devres ELSE devres

DevGivesUp ==
  /\ dev \in {"undo", "remove"} /\ dev' = dev /\ todo.dev # <<>> /\ IsSeq(todo.dev)
  /\ todo'.dev = Tail(todo.dev) /\ held' = held \ WithParts(Head(todo.dev).rs)
  /\ devres' = devres /\ Release("dev")

(* The module's thread releases nothing that hangs on a keystone while the *)
(* device is there: the core unbinds the device first.                     *)
LEMMA Unreleased ==
  ASSUME TidyState, Release("mod"), dev # "unbound",
         NEW a \in Table[d].anchors, NEW x, ModOrder(a, x)
  PROVE  x \notin WithParts(Head(todo.mod).rs)
<1> SUFFICES ASSUME x \in WithParts(Head(todo.mod).rs) PROVE FALSE
    OBVIOUS
<1>1. mod \in {"undo", "exit"} /\ todo.mod # <<>> /\ IsSeq(todo.mod)
  BY ModReleases DEF TidyState
<1>2. a \in held /\ a \notin Embedded
  BY Apart DEF TidyState, HeldInv
<1>3. Ordered(todo.mod, a, x)
  BY <1>1, <1>2 DEF ModOrder
<1>4. a \in Head(todo.mod).rs
  BY <1>1, <1>2, <1>3, OrderedTail DEF WithParts
<1> QED BY <1>4 DEF Release, Unregistering, Op1

(* There is nothing else. *)
LEMMA DevEffects ==
  ASSUME TidyState, Orderly(Table[d], KnownLeaks), OrderInv, [Next]_vars
  PROVE  \/ DevStays \/ DevProbes \/ DevBinds \/ DevUnbinds \/ DevRemoved
         \/ DevLetsGo \/ DevUnbound \/ DevFails \/ DevAdvances \/ DevGivesUp
<1> USE DEF Busy
<1> DEFINE N == Names(Table[d].probe)
<1>0. /\ Tidy(Table[d], KnownLeaks) /\ Shape /\ ModShape /\ DevShape
      /\ OwnInv /\ ItsInv /\ HeldInv
  BY DEF TidyState
<1>a. dev = "probe" => IsSeq(todo.dev)
  BY <1>0 DEF DevShape, Acquires
<1>b. N \cap Kept(Table[d]) = {} /\ N \cap Names(Table[d].init) = {}
  <2>1. N \cap Kept(Table[d]) = {}
    BY <1>0 DEF Tidy, Regular, DeviceSide, Acquires, Names, WithParts
  <2> QED BY <2>1 DEF Orderly
<1> HIDE DEF N
<1>c. ASSUME dev' = dev, todo'.dev = todo.dev, devres' = devres,
             dev # "unbound" => held' \cap N = held \cap N
      PROVE DevStays
  BY <1>c DEF DevStays, N
<1>1. CASE UNCHANGED vars \/ FileNext
  BY <1>1, <1>c DEF vars, FileNext, Open, OpenPins, Close
<1>2. CASE Load
  BY <1>2, <1>0, <1>c DEF Load, Shape
<1>3. CASE Loaded \/ Unload \/ InitFails \/ OptFails("mod") \/ TryFails("mod")
  <2>1. UNCHANGED <<dev, held, devres>> /\ todo'.dev = todo.dev
    BY <1>3, <1>0 DEF Loaded, Unload, InitFails, OptFails, TryFails, Shape
  <2> QED BY <2>1, <1>c
<1>4. CASE FreeText
  <2>1. UNCHANGED <<dev, todo, devres>> /\ held' = held \ {"text"}
    BY <1>4 DEF FreeText
  <2> QED BY <2>1, <1>b, <1>c DEF Kept
<1>5. CASE Acquire("mod")
  <2>1. /\ held' = held \union Head(todo.mod).rs
        /\ Head(todo.mod).rs \subseteq Names(Table[d].init)
        /\ devres' = devres /\ todo'.dev = todo.dev /\ dev' = dev
    BY <1>0, <1>5, ModAcquires
  <2> QED BY <2>1, <1>b, <1>c
<1>6. CASE Release("mod")
  <2>1. Head(todo.mod).op \in {"put", "drop", "spoil"}
    BY <1>0, <1>6, ModReleases
  <2>2. /\ held' = held \ WithParts(Head(todo.mod).rs) /\ UNCHANGED <<dev, devres>>
        /\ todo'.dev = todo.dev
    BY <1>0, <1>6, <2>1, ReleaseTakes DEF HeldInv, Shape
  <2>3. ASSUME dev # "unbound", NEW x \in N PROVE x \notin WithParts(Head(todo.mod).rs)
    <3>1. PICK a \in Table[d].anchors : Keystone(Table[d], a)
      BY <1>0, <2>3 DEF Orderly, Shape
    <3>2. ModOrder(a, x)
      BY <2>3, <3>1 DEF Keystone, OrderInv, N
    <3> QED BY <1>6, <2>3, <3>2, Unreleased
  <2> QED BY <2>2, <2>3, <1>c
<1>7. CASE Probe
  BY <1>7, <1>0 DEF Probe, Shape, DevProbes
<1>8. CASE Bound \/ Unbind \/ Removed \/ Unbound
  BY <1>8, <1>0 DEF Bound, Unbind, Removed, Unbound, Shape, DevBinds, DevUnbinds, DevRemoved,
                    DevUnbound
<1>9. CASE ProbeFails
  BY <1>9, <1>0, <1>a DEF ProbeFails, Shape, Op1, Fails, DevFails
<1>10. CASE DevresRelease
  BY <1>10, <1>0 DEF DevresRelease, DevShape, DevLetsGo
<1>11. CASE Acquire("dev")
  <2>1. /\ dev = "probe" /\ todo.dev # <<>> /\ IsSeq(todo.dev)
        /\ held' = held \union Head(todo.dev).rs
        /\ devres' = IF Head(todo.dev).op = "devm" /\ Head(todo.dev).rs # {}
                       THEN <<Head(todo.dev).rs>> \o devres ELSE devres
        /\ todo'.dev = Tail(todo.dev) /\ dev' = dev
    BY <1>0, <1>11, DevAcquires
  <2> QED BY <2>1 DEF DevAdvances
<1>12. CASE Release("dev")
  <2>1. /\ dev \in {"undo", "remove"} /\ todo.dev # <<>> /\ IsSeq(todo.dev)
        /\ Head(todo.dev).op \in {"put", "drop", "spoil"}
    BY <1>0, <1>12, DevReleases
  <2>2. /\ held' = held \ WithParts(Head(todo.dev).rs) /\ UNCHANGED <<dev, devres>>
        /\ todo'.dev = Tail(todo.dev)
    BY <1>0, <1>12, <2>1, ReleaseTakes DEF HeldInv, Shape
  <2> QED BY <1>12, <2>1, <2>2 DEF DevGivesUp
<1> QED
  BY <1>0, <1>1, <1>2, <1>3, <1>4, <1>5, <1>6, <1>7, <1>8, <1>9, <1>10, <1>11, <1>12,
     DevTriesNot DEF Next, ModNext, DevNext, Step

(* The device's thread puts what is there. *)
LEMMA DevMustNext ==
  ASSUME TidyState, Orderly(Table[d], KnownLeaks), OrderInv, [Next]_vars
  PROVE  DevMust'
<1> DEFINE fin == Table[d].remove
           K == Names(Table[d].probe)
<1>a. /\ dev = "probe" => Earns(todo.dev, fin, held, K)
      /\ dev = "bound" => Puts(fin, held \cap K)
      /\ dev \in {"undo", "remove"} => Puts(todo.dev, held \cap K)
  BY DEF OrderInv, DevMust
<1>b. ASSUME dev' = "probe" => Earns(todo'.dev, fin, held', K),
             dev' = "bound" => Puts(fin, held' \cap K),
             dev' \in {"undo", "remove"} => Puts(todo'.dev, held' \cap K)
      PROVE DevMust'
  BY <1>b, SameDriver DEF DevMust
<1>c. Earns(Table[d].probe, fin, {}, K)
  BY DEF Orderly
<1>1. CASE DevStays
  <2>1. /\ dev' = dev /\ todo'.dev = todo.dev
        /\ dev # "unbound" => held' \cap K = held \cap K
    BY <1>1 DEF DevStays
  <2> HIDE DEF fin, K
  <2>2. dev = "probe" => Earns(todo.dev, fin, held', K)
    BY <2>1, <1>a, EarnsMono
  <2> QED BY <2>1, <2>2, <1>a, <1>b
<1> HIDE DEF fin, K
<1>2. CASE DevProbes
  <2>1. Earns(Table[d].probe, fin, held, K)
    BY <1>c, EarnsMono
  <2> QED BY <1>2, <2>1, <1>b DEF DevProbes
<1>3. CASE DevBinds
  BY <1>3, <1>a, <1>b, EmptyIsSeq, EarnsEnds DEF DevBinds
<1>4. CASE DevUnbinds
  BY <1>4, <1>a, <1>b DEF DevUnbinds, fin
<1>5. CASE DevRemoved \/ DevLetsGo \/ DevUnbound
  BY <1>5, <1>b DEF DevRemoved, DevLetsGo, DevUnbound
<1>6. CASE DevFails
  BY <1>6, <1>a, <1>b, EarnsEnds DEF DevFails
<1>7. CASE DevAdvances
  <2>1. (held \union SureHead(todo.dev)) \cap K \subseteq held'
    BY <1>7 DEF DevAdvances, SureHead
  <2>2. Earns(Tail(todo.dev), fin, held', K)
    BY <1>7, <2>1, <1>a, EarnsTail DEF DevAdvances
  <2> QED BY <1>7, <2>2, <1>b DEF DevAdvances
<1>8. CASE DevGivesUp
  <2>1. Puts(Tail(todo.dev), (held \cap K) \ WithParts(Head(todo.dev).rs))
    BY <1>8, <1>a, PutsTail DEF DevGivesUp
  <2>2. (held \cap K) \ WithParts(Head(todo.dev).rs) \subseteq held' \cap K
    BY <1>8 DEF DevGivesUp
  <2>3. Puts(Tail(todo.dev), held' \cap K)
    BY <2>1, <2>2, PutsMono
  <2> QED BY <1>8, <2>3, <1>b DEF DevGivesUp
<1> QED BY <1>1, <1>2, <1>3, <1>4, <1>5, <1>6, <1>7, <1>8, DevEffects

(* The managed list of a device that is not bound is empty. *)
LEMMA ListNext ==
  ASSUME TidyState, Orderly(Table[d], KnownLeaks), OrderInv, [Next]_vars
  PROVE  (dev = "unbound" => devres = <<>>)'
<1>1. dev = "unbound" => devres = <<>>
  BY DEF OrderInv
<1> QED BY <1>1, DevEffects
        DEF DevStays, DevProbes, DevBinds, DevUnbinds, DevRemoved, DevLetsGo, DevUnbound,
            DevFails, DevAdvances, DevGivesUp

(* The device's thread and the managed list keep to the order. *)
LEMMA DevOrderNext ==
  ASSUME NEW w, NEW u, TidyState, Orderly(Table[d], KnownLeaks), OrderInv, [Next]_vars, ItsInv',
         DevOrders(Table[d], KnownLeaks, w, u)
  PROVE  DevOrder(w, u)'
<1> DEFINE fin == Table[d].remove
           N == Names(Table[d].probe)
<1>0. /\ w \in N /\ w \in Its /\ Unwinds(Table[d].probe, fin, {}, w, u)
      /\ Stacks(Table[d].probe, {}, w, u) /\ IsSeq(devres)
  BY DEF DevOrders, Its, TidyState, DevShape
<1>a. /\ dev = "probe" => /\ Unwinds(todo.dev, fin, held, w, u)
                          /\ Stacks(todo.dev, Cover(devres), w, u)
      /\ dev \in {"undo", "remove"} /\ w \in held => Ordered(todo.dev, w, u)
      /\ dev # "release" => w \notin Cover(devres) \/ Stacked(devres, w, u)
      /\ dev = "release" /\ w \in held => Stacked(devres, w, u)
  BY DEF OrderInv, DevOrder
<1>b. ASSUME dev' = "probe" => /\ Unwinds(todo'.dev, fin, held', w, u)
                               /\ Stacks(todo'.dev, Cover(devres'), w, u),
             dev' \in {"undo", "remove"} /\ w \in held' => Ordered(todo'.dev, w, u),
             dev' # "release" => w \notin Cover(devres') \/ Stacked(devres', w, u),
             dev' = "release" /\ w \in held' => Stacked(devres', w, u)
      PROVE DevOrder(w, u)'
  <2>1. Cover(devres)' = Cover(devres') /\ Stacked(devres, w, u)' = Stacked(devres', w, u)
    OBVIOUS
  <2> QED BY <1>b, <2>1, SameDriver DEF DevOrder
<1>c. /\ dev = "unbound" => w \notin held
      /\ dev' = "release" /\ w \in held' => w \in Cover(devres')
  <2>1. w \in Its'
    BY <1>0, SameDriver, SameSets
  <2>2. Cover(devres)' = Cover(devres')
    OBVIOUS
  <2> QED BY <1>0, <2>1, <2>2 DEF TidyState, ItsInv
<1>d. Ordered(fin, w, u)
  BY <1>0 DEF Unwinds
<1>1. CASE DevStays
  <2>1. /\ dev' = dev /\ todo'.dev = todo.dev /\ devres' = devres
        /\ dev # "unbound" => (w \in held' <=> w \in held)
    BY <1>1, <1>0 DEF DevStays
  <2> HIDE DEF fin, N
  <2>2. dev = "probe" => Unwinds(todo.dev, fin, held', w, u)
    BY <2>1, <1>a DEF Unwinds
  <2> QED BY <2>1, <2>2, <1>a, <1>b
<1> HIDE DEF fin, N
<1>2. CASE DevProbes
  <2>1. dev = "unbound" /\ devres = <<>> /\ w \notin held
    BY <1>2, <1>c DEF DevProbes, OrderInv
  <2>2. Cover(devres) = {}
    BY <2>1 DEF Cover
  <2>3. /\ Unwinds(Table[d].probe, fin, held, w, u)
        /\ Stacks(Table[d].probe, Cover(devres), w, u)
    BY <1>0, <2>1, <2>2 DEF Unwinds
  <2> QED BY <1>2, <2>1, <2>2, <2>3, <1>b DEF DevProbes
<1>3. CASE DevBinds
  BY <1>3, <1>a, <1>b DEF DevBinds
<1>4. CASE DevUnbinds
  BY <1>4, <1>a, <1>b, <1>d DEF DevUnbinds, fin
<1>5. CASE DevRemoved
  BY <1>5, <1>a, <1>b, <1>c DEF DevRemoved
<1>6. CASE DevLetsGo
  <2>1. /\ w \in held => Stacked(devres, w, u)
        /\ devres # <<>> /\ held' = held \ WithParts(Head(devres)) /\ devres' = Tail(devres)
        /\ dev' = "release"
    BY <1>6, <1>a DEF DevLetsGo
  <2>2. w \in held /\ w \notin WithParts(Head(devres)) => Stacked(Tail(devres), w, u)
    BY <1>0, <2>1, StackedTail
  <2> QED BY <2>1, <2>2, <1>b
<1>7. CASE DevUnbound
  <2>1. Cover(<<>>) = {}
    BY DEF Cover
  <2> QED BY <1>7, <2>1, <1>b DEF DevUnbound
<1>8. CASE DevFails
  BY <1>8, <1>a, <1>b, UnwindsEnds DEF DevFails
<1>9. CASE DevAdvances
  <2> DEFINE o == Head(todo.dev)
  <2>1. /\ dev = "probe" /\ dev' = "probe" /\ todo.dev # <<>> /\ IsSeq(todo.dev)
        /\ todo'.dev = Tail(todo.dev) /\ held' = held \union o.rs
        /\ devres' = IF o.op = "devm" /\ o.rs # {} THEN <<o.rs>> \o devres ELSE devres
    BY <1>9 DEF DevAdvances
  <2> HIDE DEF o
  <2>2. Unwinds(Tail(todo.dev), fin, held', w, u)
    BY <2>1, <1>a, UnwindsTail DEF o
  <2>4. Cover(devres') \subseteq Cover(devres) \union
                                   (IF o.op = "devm" THEN WithParts(o.rs) ELSE {})
    BY <2>1, <1>0, CoverOnly
  <2>5. /\ Stacks(Tail(todo.dev), Cover(devres'), w, u)
        /\ o.op = "devm" /\ u \in WithParts(o.rs) => w \notin Cover(devres)
    BY <2>1, <2>4, <1>a, StacksTail DEF o
  <2>6. w \notin Cover(devres') \/ Stacked(devres', w, u)
    <3>1. CASE o.op = "devm" /\ o.rs # {}
      <4>1. CASE w \in WithParts(o.rs)
        BY <2>1, <3>1, <4>1, <1>0, StackedCons
      <4>2. CASE w \notin WithParts(o.rs) /\ w \in Cover(devres)
        BY <2>1, <2>5, <3>1, <4>2, <1>0, <1>a, StackedCons
      <4>3. CASE w \notin WithParts(o.rs) /\ w \notin Cover(devres)
        BY <2>4, <4>3
      <4> QED BY <4>1, <4>2, <4>3
    <3>2. CASE ~ (o.op = "devm" /\ o.rs # {})
      BY <2>1, <3>2, <1>a
    <3> QED BY <3>1, <3>2
  <2> QED BY <2>1, <2>2, <2>5, <2>6, <1>b
<1>10. CASE DevGivesUp
  <2>1. /\ w \in held /\ w \notin WithParts(Head(todo.dev).rs) => Ordered(Tail(todo.dev), w, u)
        /\ dev' = dev /\ dev # "release" /\ dev # "probe" /\ devres' = devres
        /\ todo'.dev = Tail(todo.dev) /\ held' = held \ WithParts(Head(todo.dev).rs)
    BY <1>10, <1>a, OrderedTail DEF DevGivesUp
  <2> QED BY <2>1, <1>a, <1>b
<1> QED BY <1>1, <1>2, <1>3, <1>4, <1>5, <1>6, <1>7, <1>8, <1>9, <1>10, DevEffects

(* What the device has on top of something does not outlive it, not even   *)
(* in the managed list.                                                    *)
LEMMA DevBaseNext ==
  ASSUME NEW w, NEW u, TidyState, Orderly(Table[d], KnownLeaks), OrderInv, [Next]_vars, ItsInv',
         DevRests(Table[d], KnownLeaks, w, u)
  PROVE  DevBase(w, u)'
<1> DEFINE N == Names(Table[d].probe)
<1>0. /\ w \in N /\ u \in N /\ w \in Its /\ Rests(Table[d].probe, {}, w, u) /\ IsSeq(devres)
  BY DEF DevRests, DevOrders, Its, TidyState, DevShape
<1>a. /\ w \in held => u \in held
      /\ dev = "probe" => Rests(todo.dev, held, w, u)
      /\ dev \in {"undo", "remove"} /\ w \in held => Ordered(todo.dev, w, u)
      /\ dev = "release" /\ w \in held => Stacked(devres, w, u)
  BY DEF OrderInv, DevOrder, DevBase, DevRests
<1>b. ASSUME w \in held' => u \in held', dev' = "probe" => Rests(todo'.dev, held', w, u)
      PROVE DevBase(w, u)'
  BY <1>b DEF DevBase
<1>c. (dev = "unbound" => w \notin held) /\ (dev' = "unbound" => w \notin held')
  <2>1. w \in Its'
    BY <1>0, SameDriver, SameSets
  <2> QED BY <1>0, <2>1 DEF TidyState, ItsInv
<1>1. CASE DevStays
  <2>1. /\ dev' = dev /\ todo'.dev = todo.dev
        /\ dev # "unbound" => (w \in held' <=> w \in held) /\ (u \in held' <=> u \in held)
    BY <1>1, <1>0 DEF DevStays
  <2> HIDE DEF N
  <2>2. dev = "probe" => Rests(todo.dev, held', w, u)
    BY <2>1, <1>a DEF Rests
  <2> QED BY <2>1, <2>2, <1>a, <1>b, <1>c
<1> HIDE DEF N
<1>2. CASE DevProbes
  <2>1. Rests(Table[d].probe, held, w, u)
    BY <1>0 DEF Rests
  <2> QED BY <1>2, <2>1, <1>a, <1>b DEF DevProbes
<1>3. CASE DevBinds \/ DevUnbinds \/ DevRemoved \/ DevUnbound \/ DevFails
  BY <1>3, <1>a, <1>b DEF DevBinds, DevUnbinds, DevRemoved, DevUnbound, DevFails
<1>4. CASE DevLetsGo
  <2>1. w \in held /\ u \in WithParts(Head(devres)) => w \in WithParts(Head(devres))
    BY <1>4, <1>a, <1>0, StackedTail DEF DevLetsGo
  <2> QED BY <1>4, <2>1, <1>a, <1>b DEF DevLetsGo
<1>5. CASE DevAdvances
  <2>1. u \in held \union SureHead(todo.dev) => u \in held'
    BY <1>5 DEF DevAdvances, SureHead
  <2>2. /\ dev = "probe" /\ todo.dev # <<>> /\ IsSeq(todo.dev)
        /\ todo'.dev = Tail(todo.dev) /\ held' = held \union Head(todo.dev).rs
    BY <1>5 DEF DevAdvances
  <2>3. Rests(todo.dev, held, w, u)
    BY <2>2, <1>a
  <2>4. Rests(Tail(todo.dev), held', w, u) /\ (w \in Head(todo.dev).rs => u \in held)
    BY <2>1, <2>2, <2>3, RestsTail
  <2> QED BY <2>2, <2>4, <1>a, <1>b
<1>6. CASE DevGivesUp
  <2>1. w \in held /\ u \in WithParts(Head(todo.dev).rs) => w \in WithParts(Head(todo.dev).rs)
    BY <1>6, <1>a, OrderedTail DEF DevGivesUp
  <2> QED BY <1>6, <2>1, <1>a, <1>b DEF DevGivesUp
<1> QED BY <1>1, <1>2, <1>3, <1>4, <1>5, <1>6, DevEffects

(* Nothing of what a resource hangs on is managed by the device. *)
LEMMA BasesKept ==
  ASSUME NEW r, NEW n \in Needs(r)
  PROVE  /\ n \in {"class", "region", "bus"} /\ r \notin Embedded /\ r # "text"
         /\ r = "node" => n = "class"
  BY DEF Needs, Embedded

(* A release by exit or an error path. *)
LEMMA ModReleaseFits ==
  ASSUME TidyState, Orderly(Table[d], KnownLeaks), OrderInv, Release("mod")
  PROVE  Misuse(Head(todo.mod)) = {}
<1> DEFINE o == Head(todo.mod)
<1>1. mod \in {"undo", "exit"} /\ todo.mod # <<>> /\ IsSeq(todo.mod)
  BY ModReleases DEF TidyState
<1>2. o.op \in {"put", "drop"} /\ (o.op = "put" => o.rs \subseteq held)
  <2>1. Puts(todo.mod, held \cap ModOnly(Table[d]))
    BY <1>1 DEF OrderInv, ModMust
  <2>2. o.op \in {"put", "drop"} /\ (o.op = "put" => o.rs \subseteq held \cap ModOnly(Table[d]))
    BY <1>1, <2>1, PutsTail
  <2> QED BY <2>2
<1>3. "node" \in held => "class" \in held
  BY DEF TidyState, HeldInv
<1> HIDE DEF o
<1>4. ASSUME NEW r \in o.rs, NEW s \in held \ o.rs, r \in Needs(s) PROVE FALSE
  <2>1. r \in WithParts(o.rs) /\ s \notin WithParts(o.rs)
    BY <1>4, BasesKept DEF WithParts
  <2>2. s \in Names(Table[d].init) \union Names(Table[d].probe)
    BY <1>4, BasesKept DEF TidyState, HeldInv, Own, Its, Orderly
  <2>3. CASE s \in Names(Table[d].init)
    <3>1. ModOrder(s, r)
      BY <1>4, <2>3 DEF Orderly, OrderInv
    <3>2. Ordered(todo.mod, s, r)
      BY <1>1, <1>4, <3>1 DEF ModOrder
    <3> QED BY <1>1, <2>1, <3>2, OrderedTail DEF o
  <2>4. CASE s \in Names(Table[d].probe)
    <3>1. s \in Its
      BY <1>4, <2>4 DEF Orderly, Its
    <3>2. dev # "unbound"
      BY <1>4, <3>1 DEF TidyState, ItsInv
    <3>3. PICK a \in Table[d].anchors : Keystone(Table[d], a)
      BY <3>2 DEF Orderly, TidyState, Shape
    <3>4. ModOrder(a, r)
      BY <1>4, <2>4, <3>3 DEF Keystone, ModRests, OrderInv
    <3> QED BY <2>1, <3>2, <3>4, Unreleased DEF o
  <2> QED BY <2>2, <2>3, <2>4
<1>5. CASE o.op = "put"
  <2>1. Misuse(o) = {r \in o.rs : \/ r \notin held
                                  \/ r \in Unreachable(o.rs)
                                  \/ \E s \in held \ o.rs : r \in Needs(s)}
    BY <1>5 DEF Misuse
  <2>2. ASSUME NEW r \in o.rs PROVE r \notin Unreachable(o.rs)
    BY <1>2, <1>3, <1>5 DEF Unreachable
  <2> QED BY <1>2, <1>4, <1>5, <2>1, <2>2 DEF o
<1>6. CASE o.op = "drop"
  <2>1. Misuse(o) = {r \in o.rs \cap held : \E s \in held \ o.rs : r \in Needs(s)}
    BY <1>6 DEF Misuse
  <2> QED BY <1>4, <2>1 DEF o
<1> QED BY <1>2, <1>5, <1>6

(* A release by remove or an error path of probe. *)
LEMMA DevReleaseFits ==
  ASSUME TidyState, Orderly(Table[d], KnownLeaks), OrderInv, Release("dev")
  PROVE  Misuse(Head(todo.dev)) = {}
<1> DEFINE o == Head(todo.dev)
<1>1. /\ dev \in {"undo", "remove"} /\ todo.dev # <<>> /\ IsSeq(todo.dev)
      /\ WithParts(o.rs) \cap Kept(Table[d]) = {}
  BY DevReleases DEF TidyState
<1>2. o.op \in {"put", "drop"} /\ (o.op = "put" => o.rs \subseteq held)
  <2>1. Puts(todo.dev, held \cap Names(Table[d].probe))
    BY <1>1 DEF OrderInv, DevMust
  <2>2. o.op \in {"put", "drop"} /\ (o.op = "put" => o.rs \subseteq held \cap Names(Table[d].probe))
    BY <1>1, <2>1, PutsTail
  <2> QED BY <2>2
<1>3. "node" \in held => "class" \in held
  BY DEF TidyState, HeldInv
<1> HIDE DEF o
<1>4. ASSUME NEW r \in o.rs, NEW s, r \in Needs(s) PROVE FALSE
  BY <1>1, <1>4, BasesKept DEF WithParts, Kept
<1>5. CASE o.op = "put"
  <2>1. Misuse(o) = {r \in o.rs : \/ r \notin held
                                  \/ r \in Unreachable(o.rs)
                                  \/ \E s \in held \ o.rs : r \in Needs(s)}
    BY <1>5 DEF Misuse
  <2>2. ASSUME NEW r \in o.rs PROVE r \notin Unreachable(o.rs)
    BY <1>2, <1>3, <1>5 DEF Unreachable
  <2> QED BY <1>2, <1>4, <1>5, <2>1, <2>2 DEF o
<1>6. CASE o.op = "drop"
  <2>1. Misuse(o) = {r \in o.rs \cap held : \E s \in held \ o.rs : r \in Needs(s)}
    BY <1>6 DEF Misuse
  <2> QED BY <1>4, <2>1 DEF o
<1> QED BY <1>2, <1>5, <1>6

(* An acquisition finds what it hangs on. *)
LEMMA AcquireFits ==
  ASSUME TidyState, Orderly(Table[d], KnownLeaks), OrderInv,
         NEW t \in {"mod", "dev"}, Acquire(t)
  PROVE  Misuse(Head(todo[t])) = {}
<1> DEFINE o == Head(todo[t])
<1>0. ~ Releases(o)
  BY DEF Acquire, Op1
<1>1. ASSUME NEW r \in o.rs, NEW n \in Needs(r) PROVE n \in held
  <2>1. CASE t = "mod"
    <3>1. /\ mod = "init" /\ todo.mod # <<>> /\ IsSeq(todo.mod)
          /\ o.rs \subseteq Names(Table[d].init)
          /\ "node" \in o.rs => "class" \in held
      BY <2>1, ModAcquires DEF TidyState
    <3>2. CASE r = "node"
      BY <3>1, <3>2, <1>1, BasesKept
    <3>3. CASE r # "node"
      <4>1. ModBase(r, n)
        BY <1>1, <3>1, <3>3 DEF Orderly, OrderInv
      <4>2. Rests(todo.mod, held, r, n)
        BY <3>1, <4>1 DEF ModBase
      <4>3. 1 \in DOMAIN todo.mod /\ todo.mod[1] = o
        BY <2>1, <3>1, TailOf
      <4>4. Sure(todo.mod, 1) = {}
        BY DEF Sure
      <4> HIDE DEF o
      <4> QED BY <1>1, <4>2, <4>3, <4>4 DEF Rests
    <3> QED BY <3>2, <3>3
  <2>2. CASE t = "dev"
    <3>1. dev = "probe" /\ o.rs \subseteq Names(Table[d].probe)
      BY <2>2, DevAcquires DEF TidyState
    <3>2. PICK a \in Table[d].anchors : Keystone(Table[d], a)
      BY <3>1 DEF Orderly, TidyState, Shape
    <3>3. ModBase(a, n)
      BY <1>1, <3>1, <3>2 DEF Keystone, OrderInv
    <3>4. a \in held
      BY <3>1 DEF TidyState, HeldInv
    <3> QED BY <3>3, <3>4 DEF ModBase
  <2> QED BY <2>1, <2>2
<1> HIDE DEF o
<1>2. CASE o.op \in {"get", "try", "opt", "devm", "set"}
  <2>1. Misuse(o) = {r \in o.rs : ~ Needs(r) \subseteq held}
    BY <1>2 DEF Misuse
  <2> QED BY <1>1, <2>1 DEF o
<1>3. CASE o.op \notin {"get", "try", "opt", "devm", "set"}
  <2>1. o.op \notin {"put", "drop", "spoil"}
    BY <1>0 DEF Releases
  <2>2. Misuse(o) = {}
    BY <1>3, <2>1 DEF Misuse
  <2> QED BY <2>2 DEF o
<1> QED BY <1>2, <1>3

(* So nothing is ever touched in the wrong order. *)
LEMMA MisuseNext ==
  ASSUME TidyState, Orderly(Table[d], KnownLeaks), OrderInv, [Next]_vars
  PROVE  misused' = {}
<1>0. misused = {} /\ Shape
  BY DEF OrderInv, TidyState
<1>1. CASE \E t \in {"mod", "dev"} : Acquire(t)
  <2>1. PICK t \in {"mod", "dev"} : Acquire(t)
    BY <1>1
  <2>2. misused' = misused \union Misuse(Head(todo[t]))
    BY <2>1 DEF Acquire, Op1
  <2> QED BY <1>0, <2>1, <2>2, AcquireFits
<1>2. CASE Release("mod")
  <2>1. misused' = misused \union Misuse(Head(todo.mod))
    BY <1>2, <1>0 DEF Release, Op1, Shape
  <2> QED BY <1>0, <1>2, <2>1, ModReleaseFits
<1>3. CASE Release("dev")
  <2>1. misused' = misused \union Misuse(Head(todo.dev))
    BY <1>3, <1>0 DEF Release, Op1, Shape
  <2> QED BY <1>0, <1>3, <2>1, DevReleaseFits
<1>4. CASE ~ (\E t \in {"mod", "dev"} : Acquire(t) \/ Release(t))
  <2>1. misused' = misused
    BY <1>4 DEF Next, vars, ModNext, DevNext, FileNext, Step, Load, Loaded, Unload, FreeText,
         InitFails, OptFails, TryFails, Probe, Bound, Unbind, Removed,
         DevresRelease, Unbound, ProbeFails, Open, OpenPins, Close
  <2> QED BY <1>0, <2>1
<1> QED BY <1>1, <1>2, <1>3, <1>4

(* The whole of the order is kept. *)
LEMMA OrderNext ==
  ASSUME TidyState, Orderly(Table[d], KnownLeaks), OrderInv, [Next]_vars
  PROVE  TidyState' /\ OrderInv'
<1>0. Table[d]' = Table[d] /\ KnownLeaks' = KnownLeaks
  BY SameDriver, SameSets
<1>1. misused' = {}
  BY MisuseNext
<1>2. TidyState'
  <2>1. Tidy(Table[d], KnownLeaks)' /\ Regular(Table[d])
    BY <1>0 DEF TidyState, Tidy
  <2>2. (Shape /\ ModShape /\ DevShape)'
    BY <2>1, ShapeNext, ModShapeNext, DevShapeNext DEF TidyState
  <2>3. (OwnInv /\ ItsInv /\ HeldInv)'
    BY <1>1, OwnNext, ItsNext, HeldNext DEF TidyState
  <2> QED BY <2>1, <2>2, <2>3 DEF TidyState
<1>3. ModMust' /\ DevMust'
  BY ModMustNext, DevMustNext DEF Orderly, OrderInv
<1>4. ASSUME NEW w, NEW u, ModOrders(Table[d], w, u) PROVE ModOrder(w, u)'
  BY <1>4, ModOrderNext DEF OrderInv
<1>5. ASSUME NEW w, NEW u, ModRests(Table[d], w, u) PROVE ModBase(w, u)'
  BY <1>5, ModBaseNext DEF OrderInv, ModRests
<1>6. ASSUME NEW w, NEW u, DevRests(Table[d], KnownLeaks, w, u) PROVE DevBase(w, u)'
  BY <1>6, <1>2, DevBaseNext DEF TidyState
<1>7. ASSUME NEW w, NEW u, DevOrders(Table[d], KnownLeaks, w, u) PROVE DevOrder(w, u)'
  BY <1>7, <1>2, DevOrderNext DEF TidyState
<1>8. (dev = "unbound" => devres = <<>>)'
  BY ListNext
<1> QED BY <1>0, <1>1, <1>2, <1>3, <1>4, <1>5, <1>6, <1>7, <1>8 DEF OrderInv

(* In the beginning nothing is there. *)
LEMMA OrderInit ==
  ASSUME Init, Orderly(Table[d], KnownLeaks)
  PROVE  TidyState /\ OrderInv
<1>1. TidyState
  BY ShapeInit, ShapesInit, TidyInit DEF Orderly, Tidy, TidyState
<1>2. mod = "new" /\ dev = "unbound" /\ held = {} /\ devres = <<>> /\ misused = {}
  BY DEF Init
<1>3. Cover(devres) = {}
  BY <1>2 DEF Cover
<1> QED BY <1>1, <1>2, <1>3 DEF OrderInv, ModMust, DevMust, ModOrder, ModBase, DevOrder, DevBase

(* An invariant of every driver that meets the criterion. *)
LEMMA OrderAlways ==
  Spec => [](Orderly(Table[d], KnownLeaks) => TidyState /\ OrderInv)
<1> DEFINE I == Orderly(Table[d], KnownLeaks) => TidyState /\ OrderInv
<1>1. Init => I
  BY OrderInit
<1>2. I /\ [Next]_vars => I'
  <2> SUFFICES ASSUME I, [Next]_vars, Orderly(Table[d], KnownLeaks)'
               PROVE TidyState' /\ OrderInv'
      OBVIOUS
  <2>1. Orderly(Table[d], KnownLeaks)
    BY SameDriver, SameSets
  <2> QED BY <2>1, OrderNext
<1> QED BY <1>1, <1>2, PTL DEF Spec

(* Of every driver whose functions meet the criterion: nothing is released *)
(* twice, without having been acquired or under what hangs on it, and      *)
(* nothing is left behind, whichever calls fail and however the threads    *)
(* interleave.                                                             *)
THEOREM OrderlyReleases ==
  Spec => [](Orderly(Table[d], KnownLeaks) => misused = {} /\ ReleaseInOrder /\ NothingLeft)
<1>1. ASSUME TidyState, OrderInv PROVE misused = {} /\ ReleaseInOrder /\ NothingLeft
  BY <1>1, TidyMeans DEF TidyState, OrderInv, ReleaseInOrder
<1> QED BY <1>1, OrderAlways, PTL

-----------------------------------------------------------------------------
(* What exit gives up of what the device's thread does not touch. *)
Given(T) == (Freed(T.exit) \cap ModOnly(T)) \ {"text"}

(* Something that makes a callback live comes on top of all that it relies *)
(* on, and does not outlive the module's text, or is a known leak of a     *)
(* failed init.                                                            *)
Watched(T, L) ==
  /\ Undoes(T.exit, {"text"})
  /\ \A c \in T.calls : c.name # "file" =>
       /\ \A u \in c.uses : \E w \in c.when \ {"file"} : ModRests(T, w, u) \/ DevRests(T, L, w, u)
       /\ \E w \in c.when \ {"file"} : w \notin L \/ (c.name \in L /\ w \in Given(T))

(* The text is there from insmod to the end of exit or of an error path,   *)
(* and what exit gives up is gone at its end.                              *)
TextInv ==
  /\ mod \in {"init", "in", "undo", "exit"} => "text" \in held
  /\ mod \in {"undo", "exit"} => Undoes(todo.mod, {"text"})
  /\ mod = "exit" => Given(Table[d]) \cap held \subseteq Freed(todo.mod)
  /\ mod = "gone" => Given(Table[d]) \cap held = {}

(* No function of the module gives up its text. *)
LEMMA TextNext ==
  ASSUME TidyState, Undoes(Table[d].exit, {"text"}), TextInv, [Next]_vars
  PROVE  TextInv'
<1> DEFINE G == Given(Table[d])
<1>0. G \subseteq ModOnly(Table[d]) /\ G \subseteq Freed(Table[d].exit) /\ "text" \notin G
      /\ "text" \in ModOnly(Table[d])
  BY DEF Given, ModOnly, Kept
<1>a. /\ mod \in {"init", "in", "undo", "exit"} => "text" \in held
      /\ mod \in {"undo", "exit"} => Undoes(todo.mod, {"text"})
      /\ mod = "exit" => G \cap held \subseteq Freed(todo.mod)
      /\ mod = "gone" => G \cap held = {}
  BY DEF TextInv
<1>b. ASSUME mod' \in {"init", "in", "undo", "exit"} => "text" \in held',
             mod' \in {"undo", "exit"} => Undoes(todo'.mod, {"text"}),
             mod' = "exit" => G \cap held' \subseteq Freed(todo'.mod),
             mod' = "gone" => G \cap held' = {}
      PROVE TextInv'
  BY <1>b, SameDriver DEF TextInv
<1>c. Undoes(Table[d].exit, {"text"})
  OBVIOUS
<1>1. CASE ModStays
  <2>1. /\ mod' = mod /\ todo'.mod = todo.mod
        /\ G \cap held' = G \cap held /\ ("text" \in held' <=> "text" \in held)
    BY <1>1, <1>0 DEF ModStays
  <2> HIDE DEF G
  <2> QED BY <2>1, <1>a, <1>b
<1>4. CASE ModUnloads
  <2>1. mod = "in" /\ mod' = "exit" /\ todo'.mod = Table[d].exit /\ held' = held
    BY <1>4 DEF ModUnloads
  <2> HIDE DEF G
  <2> QED BY <2>1, <1>0, <1>a, <1>b, <1>c
<1> HIDE DEF G
<1>2. CASE ModLoads
  BY <1>2, <1>b DEF ModLoads
<1>3. CASE ModLoaded \/ ModSkips
  BY <1>3, <1>a, <1>b DEF ModLoaded, ModSkips
<1>5. CASE ModEnds
  <2>1. Freed(<<>>) = {}
    BY DEF Freed
  <2> QED BY <1>5, <2>1, <1>a, <1>b DEF ModEnds
<1>6. CASE ModFails
  <2>1. Undoes(Head(todo.mod).undo, {"text"})
    BY <1>6, TailOf DEF ModFails, TidyState, OwnInv, Acquires
  <2> QED BY <1>6, <2>1, <1>a, <1>b DEF ModFails
<1>7. CASE ModAdvances
  BY <1>7, <1>a, <1>b DEF ModAdvances
<1>8. CASE ModGivesUp
  <2>1. /\ mod \in {"undo", "exit"} /\ mod' = mod /\ todo.mod # <<>> /\ IsSeq(todo.mod)
        /\ todo'.mod = Tail(todo.mod) /\ held' = held \ WithParts(Head(todo.mod).rs)
    BY <1>8 DEF ModGivesUp
  <2>2. Undoes(Tail(todo.mod), {"text"}) /\ WithParts(Head(todo.mod).rs) \cap {"text"} = {}
    BY <2>1, <1>a, UndoesTail, TailOf DEF Undoes
  <2>3. mod = "exit" => G \cap held' \subseteq Freed(Tail(todo.mod))
    BY <2>1, <1>a, FreedTail
  <2> QED BY <2>1, <2>2, <2>3, <1>a, <1>b
<1> QED BY <1>1, <1>2, <1>3, <1>4, <1>5, <1>6, <1>7, <1>8, ModEffects

(* An invariant of every driver that meets the criteria. *)
LEMMA TextAlways ==
  Spec => [](Orderly(Table[d], KnownLeaks) /\ Undoes(Table[d].exit, {"text"}) => TextInv)
<1> DEFINE O == Orderly(Table[d], KnownLeaks) => TidyState /\ OrderInv
           I == Orderly(Table[d], KnownLeaks) /\ Undoes(Table[d].exit, {"text"}) => TextInv
<1>1. Init => I
  BY DEF Init, TextInv
<1>2. O /\ I /\ [Next]_vars => I'
  <2> SUFFICES ASSUME O, I, [Next]_vars, Orderly(Table[d], KnownLeaks)',
                      Undoes(Table[d].exit, {"text"})'
               PROVE TextInv'
      OBVIOUS
  <2>1. Orderly(Table[d], KnownLeaks) /\ Undoes(Table[d].exit, {"text"})
    BY SameDriver, SameSets
  <2> QED BY <2>1, TextNext
<1> QED BY <1>1, <1>2, OrderAlways, PTL DEF Spec

(* What makes a callback live is there together with what it relies on. *)
LEMMA WatchedMeans ==
  ASSUME TidyState, OrderInv, Orderly(Table[d], KnownLeaks), Watched(Table[d], KnownLeaks), TextInv
  PROVE  CallbacksReady
<1> SUFFICES ASSUME NEW c \in LiveCalls, c.name # "file", NEW r \in {"text"} \union c.uses,
                    r \notin held
             PROVE  r = "text" /\ mod = "failed" /\ c.name \in KnownLeaks
  <2>1. ASSUME NEW e \in Exposed, e[1] # "file"
        PROVE e[2] = "text" /\ mod = "failed" /\ e[1] \in KnownLeaks
    <3>1. PICK c \in LiveCalls : e \in Missing(c)
      BY <2>1 DEF Exposed
    <3>2. PICK r \in ({"text"} \union c.uses) \ Found(c) : e = <<c.name, r>>
      BY <3>1 DEF Missing
    <3>3. c.name # "file" /\ e[2] = r
      BY <2>1, <3>2
    <3> QED BY <3>2, <3>3 DEF Found
  <2> QED BY <2>1 DEF CallbacksReady
<1>1. /\ c \in Table[d].calls
      /\ \A w \in c.when \ {"file"} : w \in held
  BY DEF LiveCalls, Present
<1>2. ASSUME r \in c.uses PROVE FALSE
  <2>1. PICK w \in c.when \ {"file"} :
             ModRests(Table[d], w, r) \/ DevRests(Table[d], KnownLeaks, w, r)
    BY <1>1, <1>2 DEF Watched
  <2>2. w \in held
    BY <1>1
  <2>3. CASE ModRests(Table[d], w, r)
    BY <2>2, <2>3 DEF OrderInv, ModBase
  <2>4. CASE DevRests(Table[d], KnownLeaks, w, r)
    BY <2>2, <2>4 DEF OrderInv, DevBase
  <2> QED BY <2>1, <2>3, <2>4
<1>3. r = "text"
  BY <1>2
<1>4. PICK w \in c.when \ {"file"} :
           w \notin KnownLeaks \/ (c.name \in KnownLeaks /\ w \in Given(Table[d]))
  BY <1>1 DEF Watched
<1>5. w \in held
  BY <1>1
<1>6. mod \in {"failed", "gone"}
  BY <1>3, <1>5 DEF TextInv, TidyState, Shape
<1>7. held \subseteq KnownLeaks
  BY <1>6, TidyMeans DEF TidyState, NothingLeft
<1>8. c.name \in KnownLeaks /\ w \in Given(Table[d])
  BY <1>4, <1>5, <1>7
<1> QED BY <1>3, <1>5, <1>6, <1>8 DEF TextInv

(* Of every driver whose functions meet the criteria: an interrupt         *)
(* handler, a timer, a completion, a hook, a thread or an attribute finds  *)
(* everything it relies on whenever it can run, in the middle of probe,    *)
(* remove, exit and their error paths too, except for entries that a       *)
(* failed init is known to leave registered.                               *)
THEOREM CallbacksFind ==
  Spec => [](Orderly(Table[d], KnownLeaks) /\ Watched(Table[d], KnownLeaks) => CallbacksReady)
<1>1. ASSUME Watched(Table[d], KnownLeaks) PROVE Undoes(Table[d].exit, {"text"})
  BY <1>1 DEF Watched
<1> QED BY <1>1, WatchedMeans, OrderAlways, TextAlways, PTL

-----------------------------------------------------------------------------
(* With H held, s does not fail any more once e is there. *)
Sealed(s, H, e) == \A k \in DOMAIN s : Fails(s[k]) => e \notin H \union Before(s, k)

(* The entry is the last thing that init may fail to get, and its files    *)
(* keep the module.                                                        *)
Last(T) ==
  /\ T.pin = "owner" /\ T.entry \in ModOnly(T) \ {"text"}
  /\ Sealed(T.init, {}, T.entry)

(* The entry comes on top of the device structure. *)
OnDevice(T, L) == "dev" \notin L /\ DevRests(T, L, T.entry, "dev")

(* What the files of driver x use is there before the entry is, unless x   *)
(* is known to show its entry early; no device goes under them, unless x   *)
(* is known not to wait for them; and they keep the module, unless x is    *)
(* known not to.                                                           *)
Served(x, T, L) ==
  /\ Undoes(T.exit, {"text"})
  /\ "file" \notin Names(T.init) \union Names(T.probe)
  /\ \A c \in T.calls : c.name = "file" =>
       /\ "file" \in c.when
       /\ x \in Unowned \/ T.pin = "owner"
       /\ \/ c.uses = {}
          \/ /\ Last(T) /\ T.anchors = {}
             /\ \A u \in c.uses : u = T.entry \/ ModRests(T, T.entry, u)
          \/ /\ OnDevice(T, L) /\ x \in Outlived
             /\ x \in EarlyEntry \/ \A u \in c.uses : DevRests(T, L, T.entry, u)

(* A file that keeps the module is never seen without its reference. *)
Owned == Table[d].pin = "owner" => file \in {"closed", "pinned"}

(* A file on an entry that comes last keeps the module from being undone.  *)
LastFile ==
  /\ mod = "init" => Sealed(todo.mod, held, Table[d].entry)
  /\ file # "closed" => Alive /\ Table[d].entry \in held

(* A file of a device that is there has the device structure, and its   *)
(* entry for as long as the device is bound.                               *)
DeviceFile ==
  file # "closed" /\ ~ stale =>
    /\ "dev" \in held
    /\ dev \in {"probe", "bound"} => Table[d].entry \in held

FileInv ==
  /\ PinnedModuleStays /\ Owned
  /\ Last(Table[d]) => LastFile
  /\ Last(Table[d]) /\ Table[d].anchors = {} => ~ stale
  /\ OnDevice(Table[d], KnownLeaks) => DeviceFile

(* What a step does to the file: it closes or is closed, it is opened, or  *)
(* it stays, and is stale if the device structure goes.                    *)
FileOpens ==
  /\ file = "closed" /\ Table[d].entry \in held
  /\ Table[d].pin = "owner" => Alive /\ file' = "pinned"
  /\ UNCHANGED <<d, mod, dev, todo, held, devres, stale>>

FileStays ==
  /\ file # "closed" /\ (file' = file \/ file = "opening")
  /\ ~ stale' => ~ stale /\ ("dev" \in held => "dev" \in held')

(* There is nothing else. *)
LEMMA FileEffects ==
  ASSUME TidyState, [Next]_vars
  PROVE  file' = "closed" \/ FileOpens \/ FileStays
<1>0. Shape
  BY DEF TidyState
<1>1. CASE UNCHANGED vars
  BY <1>1 DEF vars, FileStays
<1>2. CASE Load
  BY <1>2, <1>0 DEF Load, Shape, FileStays
<1>3. CASE Loaded \/ Unload \/ InitFails \/ OptFails("mod") \/ TryFails("mod") \/ TryFails("dev")
  BY <1>3 DEF Loaded, Unload, InitFails, OptFails, TryFails, FileStays
<1>4. CASE FreeText
  BY <1>4 DEF FreeText, FileStays
<1>5. CASE Acquire("mod") \/ Acquire("dev")
  BY <1>5 DEF Acquire, FileStays
<1>6. ASSUME NEW t \in {"mod", "dev"}, Release(t) PROVE file' = "closed" \/ FileStays
  <2> DEFINE rs == Op1(t).rs
  <2>1. /\ held \ WithParts(rs) \subseteq held'
        /\ stale' = (stale \/ ("dev" \in rs \cap held /\ file # "closed"))
        /\ file' = "closed" \/ file' = file
    BY <1>6 DEF Release, Dangle
  <2>2. "dev" \in WithParts(rs) => "dev" \in rs
    BY DEF WithParts, Embedded
  <2> HIDE DEF rs
  <2> QED BY <2>1, <2>2 DEF FileStays
<1>7. CASE Probe \/ Bound \/ Unbind \/ Removed \/ Unbound \/ ProbeFails
  BY <1>7 DEF Probe, Bound, Unbind, Removed, Unbound, ProbeFails, FileStays
<1>8. CASE DevresRelease
  <2> DEFINE rs == Head(devres)
  <2>1. /\ held' = held \ WithParts(rs) /\ file' = file
        /\ stale' = (stale \/ ("dev" \in rs \cap held /\ file # "closed"))
    BY <1>8 DEF DevresRelease, Dangle
  <2>2. "dev" \in WithParts(rs) => "dev" \in rs
    BY DEF WithParts, Embedded
  <2> HIDE DEF rs
  <2> QED BY <2>1, <2>2 DEF FileStays
<1>9. CASE FileNext
  BY <1>9 DEF FileNext, Open, OpenPins, Close, FileOpens, FileStays
<1> QED
  BY <1>1, <1>2, <1>3, <1>4, <1>5, <1>6, <1>7, <1>8, <1>9 DEF Next, ModNext, DevNext, Step

(* Positions in a sequence and in its rest. *)
LEMMA SealedTail ==
  ASSUME NEW s, NEW H, NEW G, NEW e, IsSeq(s), s # <<>>, Sealed(s, H, e),
         e \in G => e \in H \union Head(s).rs
  PROVE  Sealed(Tail(s), G, e)
<1>0. /\ Len(s) \in Nat /\ DOMAIN s = 1 .. Len(s) /\ DOMAIN Tail(s) = 1 .. (Len(s) - 1)
      /\ \A k \in DOMAIN Tail(s) : k + 1 \in DOMAIN s /\ Tail(s)[k] = s[k + 1]
  BY TailOf
<1> SUFFICES ASSUME NEW k \in DOMAIN Tail(s), Fails(Tail(s)[k])
             PROVE e \notin G \union Before(Tail(s), k)
    BY DEF Sealed
<1>1. e \notin H \union Before(s, k + 1)
  BY <1>0 DEF Sealed
<1>2. k \in 1 .. Len(s)
  BY <1>0
<1>3. Before(Tail(s), k) \subseteq Before(s, k + 1) /\ Head(s).rs \subseteq Before(s, k + 1)
  BY <1>2, BeforeTail
<1> QED BY <1>1, <1>3

(* Only a reference keeps a file open that is opened with one. *)
LEMMA OwnedNext ==
  ASSUME TidyState, FileInv, [Next]_vars
  PROVE  Owned'
  BY FileEffects, SameDriver DEF FileInv, Owned, FileOpens, FileStays

(* While such a file is open, init does not fail and exit does not run. *)
LEMMA LastNext ==
  ASSUME TidyState, FileInv, PinnedModuleStays', Last(Table[d]), [Next]_vars
  PROVE  LastFile'
<1> DEFINE e == Table[d].entry
<1>0. /\ e \in ModOnly(Table[d]) /\ e # "text" /\ Sealed(Table[d].init, {}, e)
      /\ Table[d].pin = "owner" /\ Owned /\ Owned'
  BY OwnedNext DEF Last, FileInv
<1>a. /\ mod = "init" => Sealed(todo.mod, held, e)
      /\ file # "closed" => mod \in {"init", "in"} /\ e \in held
  BY DEF FileInv, LastFile, Alive
<1>b. ASSUME mod' = "init" => Sealed(todo'.mod, held', e),
             file' # "closed" => mod' \in {"init", "in"} /\ e \in held'
      PROVE LastFile'
  BY <1>b, SameDriver DEF LastFile, Alive
<1>c. CASE FileOpens
  <2>1. mod' = mod /\ todo' = todo /\ held' = held /\ mod \in {"init", "in"} /\ e \in held
    BY <1>c, <1>0 DEF FileOpens, Alive
  <2> HIDE DEF e
  <2> QED BY <2>1, <1>a, <1>b
<1>d. ASSUME file' # "closed", ~ FileOpens
      PROVE mod \in {"init", "in"} /\ e \in held /\ mod' # "exit"
  <2>1. file # "closed"
    BY <1>d, FileEffects DEF FileStays
  <2>2. file' = "pinned"
    BY <1>d, <1>0, SameDriver DEF Owned
  <2> QED BY <2>1, <2>2, <1>a DEF PinnedModuleStays
<1>1. CASE ModStays
  <2>1. mod' = mod /\ todo'.mod = todo.mod /\ (e \in held' <=> e \in held)
    BY <1>1, <1>0 DEF ModStays
  <2> HIDE DEF e
  <2>2. mod = "init" => Sealed(todo.mod, held', e)
    BY <2>1, <1>a DEF Sealed
  <2> QED BY <2>1, <2>2, <1>b, <1>c, <1>d
<1> HIDE DEF e
<1>2. CASE ModLoads
  <2>1. Sealed(Table[d].init, {"text"}, e)
    BY <1>0 DEF Sealed
  <2> QED BY <1>2, <2>1, <1>b, <1>c, <1>d DEF ModLoads
<1>3. CASE ModLoaded \/ ModUnloads \/ ModEnds
  BY <1>3, <1>b, <1>c, <1>d DEF ModLoaded, ModUnloads, ModEnds
<1>4. CASE ModFails
  <2>1. /\ mod = "init" /\ mod' = "undo" /\ todo.mod # <<>> /\ IsSeq(todo.mod)
        /\ Fails(Head(todo.mod))
    BY <1>4 DEF ModFails
  <2>2. 1 \in DOMAIN todo.mod /\ todo.mod[1] = Head(todo.mod)
    BY <2>1, TailOf
  <2>3. e \notin held
    BY <2>1, <2>2, <1>a DEF Sealed
  <2> QED BY <2>1, <2>3, <1>b, <1>c, <1>d
<1>5. CASE ModSkips
  <2>1. Sealed(<<>>, held, e)
    BY DEF Sealed
  <2> QED BY <1>5, <2>1, <1>b, <1>c, <1>d DEF ModSkips
<1>6. CASE ModAdvances
  <2>1. /\ mod = "init" /\ mod' = "init" /\ todo.mod # <<>> /\ IsSeq(todo.mod)
        /\ todo'.mod = Tail(todo.mod)
        /\ held \subseteq held' /\ held' \subseteq held \union Head(todo.mod).rs
    BY <1>6 DEF ModAdvances
  <2>2. Sealed(todo.mod, held, e) /\ (e \in held' => e \in held \union Head(todo.mod).rs)
    BY <2>1, <1>a
  <2>3. Sealed(Tail(todo.mod), held', e)
    BY <2>1, <2>2, SealedTail
  <2> QED BY <2>1, <2>3, <1>b, <1>c, <1>d
<1>7. CASE ModGivesUp
  BY <1>7, <1>b, <1>c, <1>d DEF ModGivesUp
<1> QED BY <1>1, <1>2, <1>3, <1>4, <1>5, <1>6, <1>7, ModEffects

(* And what such a file uses does not go, if no device is involved. *)
LEMMA FreshNext ==
  ASSUME TidyState, FileInv, Last(Table[d]), Table[d].anchors = {}, [Next]_vars
  PROVE  ~ stale'
<1>1. ~ stale /\ (file # "closed" => mod \in {"init", "in"}) /\ dev = "unbound"
  BY DEF FileInv, LastFile, Alive, TidyState, Shape
<1>2. CASE UNCHANGED vars
  BY <1>1, <1>2 DEF vars
<1>3. CASE Load \/ Loaded \/ Unload \/ FreeText \/ InitFails
  BY <1>1, <1>3 DEF Load, Loaded, Unload, FreeText, InitFails
<1>4. CASE OptFails("mod") \/ Acquire("mod") \/ TryFails("mod") \/ Acquire("dev") \/ TryFails("dev")
  BY <1>1, <1>4 DEF OptFails, Acquire, TryFails
<1>5. CASE Release("mod")
  <2>1. mod \in {"undo", "exit"}
    BY <1>5, ModReleases DEF TidyState
  <2> QED BY <2>1, <1>1, <1>5 DEF Release, Dangle
<1>6. CASE Release("dev")
  BY <1>1, <1>6 DEF Release, Busy, TidyState, Shape
<1>7. CASE Probe \/ Bound \/ Unbind \/ Removed \/ DevresRelease \/ Unbound \/ ProbeFails
  BY <1>1, <1>7 DEF Probe, Bound, Unbind, Removed, DevresRelease, Unbound, ProbeFails
<1>8. CASE FileNext
  BY <1>1, <1>8 DEF FileNext, Open, OpenPins, Close
<1> QED BY <1>2, <1>3, <1>4, <1>5, <1>6, <1>7, <1>8 DEF Next, ModNext, DevNext, Step

(* A device does not go away under a file without making it stale. *)
LEMMA DeviceNext ==
  ASSUME TidyState, Orderly(Table[d], KnownLeaks), OrderInv, FileInv,
         OnDevice(Table[d], KnownLeaks), [Next]_vars
  PROVE  DeviceFile'
<1> DEFINE e == Table[d].entry
<1>0. "dev" \in Its /\ e \in Names(Table[d].probe)
  BY DEF OnDevice, DevRests, DevOrders, Its
<1>a. file # "closed" /\ ~ stale => "dev" \in held /\ (dev \in {"probe", "bound"} => e \in held)
  BY DEF FileInv, DeviceFile
<1> SUFFICES ASSUME file' # "closed", ~ stale'
             PROVE  "dev" \in held' /\ (dev' \in {"probe", "bound"} => e \in held')
  BY SameDriver DEF DeviceFile
<1>b. e \in held => "dev" \in held
  BY DEF OnDevice, OrderInv, DevBase
<1>c. dev = "unbound" => "dev" \notin held
  BY <1>0 DEF TidyState, ItsInv
<1>1. CASE FileOpens
  BY <1>1, <1>b DEF FileOpens
<1>2. CASE FileStays
  <2>1. /\ "dev" \in held /\ "dev" \in held' /\ dev # "unbound"
        /\ dev \in {"probe", "bound"} => e \in held
    BY <1>2, <1>a, <1>c DEF FileStays
  <2>2. CASE DevStays
    BY <2>1, <2>2, <1>0 DEF DevStays
  <2> HIDE DEF e
  <2>3. CASE ~ DevStays
    BY <2>1, <2>3, DevEffects
       DEF DevProbes, DevBinds, DevUnbinds, DevRemoved, DevLetsGo, DevUnbound,
           DevFails, DevAdvances, DevGivesUp
  <2> QED BY <2>2, <2>3
<1> QED BY <1>1, <1>2, FileEffects

(* An invariant of every driver that meets the criterion of the order. *)
LEMMA FileAlways ==
  Spec => [](Orderly(Table[d], KnownLeaks) => FileInv)
<1> DEFINE O == Orderly(Table[d], KnownLeaks) => TidyState /\ OrderInv
           I == Orderly(Table[d], KnownLeaks) => FileInv
<1>1. Init => I
  BY PinnedInit DEF Init, FileInv, Owned, LastFile, DeviceFile
<1>2. O /\ I /\ [Next]_vars => I'
  <2> SUFFICES ASSUME O, I, [Next]_vars, Orderly(Table[d], KnownLeaks)' PROVE FileInv'
      OBVIOUS
  <2>1. Orderly(Table[d], KnownLeaks) /\ Table[d]' = Table[d] /\ KnownLeaks' = KnownLeaks
    BY SameDriver, SameSets
  <2>2. TidyState /\ OrderInv /\ FileInv
    BY <2>1
  <2>3. PinnedModuleStays' /\ Owned'
    BY <2>2, PinnedNext, OwnedNext DEF FileInv
  <2>4. Last(Table[d])' => LastFile'
    BY <2>1, <2>2, <2>3, LastNext
  <2>5. OnDevice(Table[d], KnownLeaks)' => DeviceFile'
    BY <2>1, <2>2, DeviceNext
  <2>6. (Last(Table[d]) /\ Table[d].anchors = {})' => ~ stale'
    BY <2>1, <2>2, FreshNext
  <2> QED BY <2>3, <2>4, <2>5, <2>6 DEF FileInv
<1> QED BY <1>1, <1>2, OrderAlways, PTL DEF Spec

(* What a running probe has not acquired yet it is still going to acquire, *)
(* also while the module goes.                                             *)
GotInv ==
  /\ dev = "probe" => Names(Table[d].probe) \subseteq held \union Names(todo.dev)
  /\ dev = "bound" => Names(Table[d].probe) \subseteq held

(* An invariant of every driver that meets the criterion of the order. *)
LEMMA GotAlways ==
  Spec => [](Orderly(Table[d], KnownLeaks) => GotInv)
<1> DEFINE O == Orderly(Table[d], KnownLeaks) => TidyState /\ OrderInv
           I == Orderly(Table[d], KnownLeaks) => GotInv
<1>1. Init => I
  BY DEF Init, GotInv
<1>2. O /\ I /\ [Next]_vars => I'
  <2> SUFFICES ASSUME O, I, [Next]_vars, Orderly(Table[d], KnownLeaks)' PROVE GotInv'
      OBVIOUS
  <2>1. /\ Orderly(Table[d], KnownLeaks) /\ TidyState /\ OrderInv /\ GotInv
        /\ Table[d]' = Table[d]
    BY SameDriver, SameSets
  <2> DEFINE N == Names(Table[d].probe)
  <2>a. /\ dev = "probe" => N \subseteq held \union Names(todo.dev)
        /\ dev = "bound" => N \subseteq held
    BY <2>1 DEF GotInv
  <2>b. ASSUME /\ dev' = "probe" => N \subseteq held' \union Names(todo'.dev)
               /\ dev' = "bound" => N \subseteq held'
        PROVE GotInv'
    BY <2>b, <2>1 DEF GotInv
  <2>c. Names(<<>>) = {}
    BY DEF Names
  <2>2. CASE DevStays
    <3>1. /\ dev' = dev /\ todo'.dev = todo.dev
          /\ dev # "unbound" => held' \cap N = held \cap N
      BY <2>2 DEF DevStays
    <3> HIDE DEF N
    <3> QED BY <3>1, <2>a, <2>b
  <2>3. CASE DevProbes
    BY <2>3, <2>b DEF DevProbes
  <2> HIDE DEF N
  <2>4. CASE DevBinds
    BY <2>4, <2>a, <2>b, <2>c DEF DevBinds
  <2>5. CASE DevUnbinds \/ DevRemoved \/ DevLetsGo \/ DevUnbound \/ DevFails \/ DevGivesUp
    BY <2>5, <2>b DEF DevUnbinds, DevRemoved, DevLetsGo, DevUnbound, DevFails, DevGivesUp
  <2>6. CASE DevAdvances
    <3>1. Names(todo.dev) \subseteq Head(todo.dev).rs \union Names(Tail(todo.dev))
      BY <2>6, NamesTail DEF DevAdvances
    <3> QED BY <3>1, <2>6, <2>a, <2>b DEF DevAdvances
  <2> QED BY <2>1, <2>2, <2>3, <2>4, <2>5, <2>6, DevEffects
<1> QED BY <1>1, <1>2, OrderAlways, PTL DEF Spec

(* Why a file may miss r, as far as it is known. *)
Excused(r) ==
  IF r = "text"
    THEN d \in Unowned \/ mod = "failed"
    ELSE \/ d \in EarlyEntry /\ (dev = "probe" \/ mod \in {"init", "undo", "failed"})
         \/ d \in Outlived /\ (stale \/ dev \in {"undo", "remove", "release"})

(* What a file uses is there, or one of the known reasons applies. *)
LEMMA ServedMeans ==
  ASSUME TidyState, OrderInv, Orderly(Table[d], KnownLeaks), Served(d, Table[d], KnownLeaks),
         TextInv, FileInv, Complete(Table[d]), GotInv
  PROVE  FilesReady
<1> SUFFICES ASSUME NEW c \in LiveCalls, c.name = "file",
                    NEW r \in ({"text"} \union c.uses) \ Found(c)
             PROVE  Excused(r)
  <2>1. ASSUME NEW e \in Exposed, e[1] = "file" PROVE Excused(e[2])
    <3>1. PICK c \in LiveCalls : e \in Missing(c)
      BY <2>1 DEF Exposed
    <3>2. PICK r \in ({"text"} \union c.uses) \ Found(c) : e = <<c.name, r>>
      BY <3>1 DEF Missing
    <3>3. c.name = "file" /\ e[2] = r
      BY <2>1, <3>2
    <3> QED BY <2>1, <3>3
  <2> QED BY <2>1 DEF FilesReady, Excused
<1>1. c \in Table[d].calls
      /\ c.when \subseteq held \union (IF file = "closed" THEN {} ELSE {"file"})
  BY DEF LiveCalls, Present
<1>2. /\ "file" \in c.when
      /\ d \in Unowned \/ Table[d].pin = "owner"
      /\ "file" \notin {"text"} \union KnownLeaks \union Own \union Its
  BY <1>1 DEF Served, Orderly, Own, Its
<1>3. file # "closed"
  BY <1>1, <1>2 DEF TidyState, HeldInv
<1>a. r \notin held \/ (stale /\ r \in WithParts({"dev"}))
  BY DEF Found
<1>4. CASE r = "text"
  <2>0. r \notin held
    BY <1>a, <1>4 DEF WithParts, Embedded
  <2>1. ASSUME d \notin Unowned PROVE mod = "failed"
    <3>1. file = "pinned"
      BY <1>2, <1>3, <2>1 DEF FileInv, Owned
    <3> QED BY <3>1, <1>4, <2>0 DEF FileInv, PinnedModuleStays, TextInv
  <2> QED BY <1>4, <2>1 DEF Excused
<1>5. CASE r # "text"
  <2>1. \/ /\ Last(Table[d]) /\ Table[d].anchors = {}
           /\ \A u \in c.uses : u = Table[d].entry \/ ModRests(Table[d], Table[d].entry, u)
        \/ /\ OnDevice(Table[d], KnownLeaks) /\ d \in Outlived
           /\ \/ d \in EarlyEntry
              \/ \A u \in c.uses : DevRests(Table[d], KnownLeaks, Table[d].entry, u)
    BY <1>1, <1>5 DEF Served
  <2>2. CASE /\ Last(Table[d]) /\ Table[d].anchors = {}
             /\ \A u \in c.uses : u = Table[d].entry \/ ModRests(Table[d], Table[d].entry, u)
    <3>0. r \notin held
      BY <1>a, <2>2 DEF FileInv
    <3>1. Table[d].entry \in held
      BY <1>3, <2>2 DEF FileInv, LastFile
    <3>2. ModRests(Table[d], Table[d].entry, r)
      BY <1>5, <2>2, <3>0, <3>1
    <3>3. r \in held
      BY <3>1, <3>2 DEF OrderInv, ModBase
    <3> QED BY <3>0, <3>3
  <2>3. CASE /\ OnDevice(Table[d], KnownLeaks) /\ d \in Outlived
             /\ \/ d \in EarlyEntry
                \/ \A u \in c.uses : DevRests(Table[d], KnownLeaks, Table[d].entry, u)
    <3> SUFFICES ASSUME ~ stale, dev \notin {"undo", "remove", "release"}
                 PROVE  d \in EarlyEntry /\ dev = "probe"
        BY <1>5, <2>3 DEF Excused
    <3>0. r \notin held
      BY <1>a
    <3>1. "dev" \in held /\ (dev \in {"probe", "bound"} => Table[d].entry \in held)
      BY <1>3, <2>3 DEF FileInv, DeviceFile
    <3>2. dev # "unbound"
      BY <2>3, <3>1 DEF TidyState, ItsInv, Its, OnDevice, DevRests
    <3>3. dev \in {"probe", "bound"} /\ Table[d].anchors # {}
      BY <3>2 DEF TidyState, Shape
    <3>4. dev # "bound"
      BY <1>1, <1>5, <3>0, <3>3 DEF Complete, GotInv
    <3>5. ASSUME DevRests(Table[d], KnownLeaks, Table[d].entry, r) PROVE FALSE
      BY <3>0, <3>1, <3>3, <3>5 DEF OrderInv, DevBase
    <3> QED BY <1>5, <2>3, <3>3, <3>4, <3>5
  <2> QED BY <2>1, <2>2, <2>3
<1> QED BY <1>4, <1>5

(* Of every driver whose functions meet the criteria: an open file finds   *)
(* the module's text and everything its operations use, in the middle of   *)
(* init, probe, remove and exit too, except for the drivers known to show  *)
(* their entry early, not to wait for a file whose device goes, or not to  *)
(* keep the module.                                                        *)
THEOREM FilesFind ==
  Spec => [](Orderly(Table[d], KnownLeaks) /\ Complete(Table[d])
               /\ Served(d, Table[d], KnownLeaks) => FilesReady)
<1>1. ASSUME Served(d, Table[d], KnownLeaks) PROVE Undoes(Table[d].exit, {"text"})
  BY <1>1 DEF Served
<1> QED BY <1>1, ServedMeans, OrderAlways, TextAlways, FileAlways, GotAlways, PTL

-----------------------------------------------------------------------------
(* The tables of the repository meet the criteria. *)

(* An init without alternatives is its own body. *)
LEMMA BodyPlain ==
  ASSUME NEW s, \A i \in DOMAIN s : s[i].op = "try" => s[i].undo = <<>>
  PROVE  Body(s) = Elements(s)
<1>1. Elements(<<>>) = {}
  BY DEF Elements
<1>2. ASSUME NEW o \in Elements(s), o.op = "try" PROVE Elements(o.undo) = {}
  BY <1>1, <1>2 DEF Elements
<1>3. WithAlternatives(Elements(s)) = Elements(s)
  BY <1>2 DEF WithAlternatives
<1> QED BY <1>3 DEF Body

(* A driver without alternatives in its init. *)
LEMMA PlainDriver ==
  ASSUME NEW T, NEW L,
         Acquires(T.init, InitKinds, {"text"}), Undoes(T.exit, {}), DeviceSide(T),
         \A c \in T.calls : T.anchors # {} => c.uses \subseteq Names(T.probe),
         Undone(T.init, T.exit, Names(T.init) \ L, {}, {}),
         Undone(T.probe, T.remove, Names(T.probe) \ L, {}, {}),
         Names(T.init) \cap Names(T.probe) \subseteq L,
         T.anchors \subseteq Names(T.init) \ (L \union Embedded)
  PROVE  Complete(T) /\ Tidy(T, L)
<1>1. Body(T.init) = Elements(T.init)
  BY BodyPlain DEF Acquires
<1>2. \A o \in Elements(T.init) : /\ o.op \in InitKinds
                                  /\ o.op = "try" => o.undo = <<>>
                                  /\ Fails(o) => Undoes(o.undo, {})
  BY DEF Acquires, Elements, Undoes
<1>3. <<>> \in Seq(Elements(T.init)) /\ T.init \in Seq(Elements(T.init))
  BY DEF Acquires, IsSeq
<1>4. ModuleSide(T)
  BY <1>1, <1>2, <1>3 DEF ModuleSide, InitKinds
<1>5. \A o \in Body(T.init) : ~ Releases(o)
  BY <1>1, <1>2 DEF Releases, InitKinds
<1> QED BY <1>4, <1>5 DEF Regular, Complete, Tidy

(* One that binds no device. *)
LEMMA PlainService ==
  ASSUME NEW T, NEW L, T.probe = <<>>, T.remove = <<>>, T.anchors = {},
         Acquires(T.init, InitKinds, {"text"}), Undoes(T.exit, {}),
         Undone(T.init, T.exit, Names(T.init) \ L, {}, {})
  PROVE  Complete(T) /\ Tidy(T, L)
<1>1. DeviceSide(T) /\ Names(T.probe) = {}
  BY EmptyIsSeq DEF DeviceSide, Acquires, Undoes, Names
<1>2. Undone(T.probe, T.remove, Names(T.probe) \ L, {}, {})
  BY <1>1, UndoneEmpty
<1> QED BY <1>1, <1>2, PlainDriver

(* Short tuples are sequences. *)
LEMMA Tuples ==
  /\ \A a : IsSeq(<<a>>)
  /\ \A a, b : IsSeq(<<a, b>>)
  /\ \A a, b, c : IsSeq(<<a, b, c>>)
  /\ \A a, b, c, e : IsSeq(<<a, b, c, e>>)
  /\ \A a, b, c, e, f : IsSeq(<<a, b, c, e, f>>)
  /\ \A a, b, c, e, f, g : IsSeq(<<a, b, c, e, f, g>>)
  /\ \A a, b, c, e, f, g, h : IsSeq(<<a, b, c, e, f, g, h>>)
  /\ \A a, b, c, e, f, g, h, i : IsSeq(<<a, b, c, e, f, g, h, i>>)
  /\ \A a, b, c, e, f, g, h, i, j : IsSeq(<<a, b, c, e, f, g, h, i, j>>)
  /\ \A a, b, c, e, f, g, h, i, j, k : IsSeq(<<a, b, c, e, f, g, h, i, j, k>>)
  /\ \A a, b, c, e, f, g, h, i, j, k, l : IsSeq(<<a, b, c, e, f, g, h, i, j, k, l>>)
  /\ \A a, b, c, e, f, g, h, i, j, k, l, m : IsSeq(<<a, b, c, e, f, g, h, i, j, k, l, m>>)
<1>1. ASSUME NEW a
      PROVE IsSeq(<<a>>)
  <2>1. <<a>> \in Seq({a})
    OBVIOUS
  <2> QED BY <2>1, OwnElements
<1>2. ASSUME NEW a, NEW b
      PROVE IsSeq(<<a, b>>)
  <2>1. <<a, b>> \in Seq({a, b})
    OBVIOUS
  <2> QED BY <2>1, OwnElements
<1>3. ASSUME NEW a, NEW b, NEW c
      PROVE IsSeq(<<a, b, c>>)
  <2>1. <<a, b, c>> \in Seq({a, b, c})
    OBVIOUS
  <2> QED BY <2>1, OwnElements
<1>4. ASSUME NEW a, NEW b, NEW c, NEW e
      PROVE IsSeq(<<a, b, c, e>>)
  <2>1. <<a, b, c, e>> \in Seq({a, b, c, e})
    OBVIOUS
  <2> QED BY <2>1, OwnElements
<1>5. ASSUME NEW a, NEW b, NEW c, NEW e, NEW f
      PROVE IsSeq(<<a, b, c, e, f>>)
  <2>1. <<a, b, c, e, f>> \in Seq({a, b, c, e, f})
    OBVIOUS
  <2> QED BY <2>1, OwnElements
<1>6. ASSUME NEW a, NEW b, NEW c, NEW e, NEW f, NEW g
      PROVE IsSeq(<<a, b, c, e, f, g>>)
  <2>1. <<a, b, c, e, f, g>> \in Seq({a, b, c, e, f, g})
    OBVIOUS
  <2> QED BY <2>1, OwnElements
<1>7. ASSUME NEW a, NEW b, NEW c, NEW e, NEW f, NEW g, NEW h
      PROVE IsSeq(<<a, b, c, e, f, g, h>>)
  <2>1. <<a, b, c, e, f, g, h>> \in Seq({a, b, c, e, f, g, h})
    OBVIOUS
  <2> QED BY <2>1, OwnElements
<1>8. ASSUME NEW a, NEW b, NEW c, NEW e, NEW f, NEW g, NEW h, NEW i
      PROVE IsSeq(<<a, b, c, e, f, g, h, i>>)
  <2>1. <<a, b, c, e, f, g, h, i>> \in Seq({a, b, c, e, f, g, h, i})
    OBVIOUS
  <2> QED BY <2>1, OwnElements
<1>9. ASSUME NEW a, NEW b, NEW c, NEW e, NEW f, NEW g, NEW h, NEW i, NEW j
      PROVE IsSeq(<<a, b, c, e, f, g, h, i, j>>)
  <2>1. <<a, b, c, e, f, g, h, i, j>> \in Seq({a, b, c, e, f, g, h, i, j})
    OBVIOUS
  <2> QED BY <2>1, OwnElements
<1>10. ASSUME NEW a, NEW b, NEW c, NEW e, NEW f, NEW g, NEW h, NEW i, NEW j, NEW k
       PROVE IsSeq(<<a, b, c, e, f, g, h, i, j, k>>)
  <2>1. <<a, b, c, e, f, g, h, i, j, k>> \in Seq({a, b, c, e, f, g, h, i, j, k})
    OBVIOUS
  <2> QED BY <2>1, OwnElements
<1>11. ASSUME NEW a, NEW b, NEW c, NEW e, NEW f, NEW g, NEW h, NEW i, NEW j, NEW k, NEW l
       PROVE IsSeq(<<a, b, c, e, f, g, h, i, j, k, l>>)
  <2>1. <<a, b, c, e, f, g, h, i, j, k, l>> \in Seq({a, b, c, e, f, g, h, i, j, k, l})
    OBVIOUS
  <2> QED BY <2>1, OwnElements
<1>12. ASSUME NEW a, NEW b, NEW c, NEW e, NEW f, NEW g, NEW h, NEW i, NEW j, NEW k, NEW l, NEW m
       PROVE IsSeq(<<a, b, c, e, f, g, h, i, j, k, l, m>>)
  <2>1. <<a, b, c, e, f, g, h, i, j, k, l, m>> \in Seq({a, b, c, e, f, g, h, i, j, k, l, m})
    OBVIOUS
  <2> QED BY <2>1, OwnElements
<1> QED BY <1>1, <1>2, <1>3, <1>4, <1>5, <1>6, <1>7, <1>8, <1>9, <1>10, <1>11, <1>12

(* The drivers that are checked against the criteria here. *)
Met == {"myalarm", "mybell", "myspidrv", "mydma", "mynetcard",
        "mypci", "charrw", "chardev", "charioctl", "procfs",
        "myserial", "nf_hook", "mykthread", "myworkqueue", "mybus",
        "mybusdev", "mydrvbus", "mychild", "mydrvchild", "myclass"}

USE DEF Devm, Chk, Get, Set, Put, Try, Drop, Opt, Require, Op, Call

(* The module of a driver that registers itself and does nothing else. *)
LEMMA RegistersOnly ==
  /\ Acquires(<<Get({"driver"}, <<>>)>>, InitKinds, {"text"})
  /\ Undoes(<<Put({"driver"})>>, {})
  /\ Names(<<Get({"driver"}, <<>>)>>) = {"driver"}
  /\ Undone(<<Get({"driver"}, <<>>)>>, <<Put({"driver"})>>,
            Names(<<Get({"driver"}, <<>>)>>) \ {}, {}, {})
<1>1. Acquires(<<Get({"driver"}, <<>>)>>, InitKinds, {"text"}) /\ Undoes(<<Put({"driver"})>>, {})
  BY Tuples, EmptyIsSeq DEF Acquires, Undoes, InitKinds, Fails, WithParts, Embedded
<1>2. Names(<<Get({"driver"}, <<>>)>>) = {"driver"}
  BY DEF Names
<1>3. Undone(<<Get({"driver"}, <<>>)>>, <<Put({"driver"})>>,
             Names(<<Get({"driver"}, <<>>)>>) \ {}, {}, {})
  BY SMTT(60) DEF Undone, Fails, Before, Managed, Names, Freed, WithParts, Embedded
<1> QED BY <1>1, <1>2, <1>3

(* myalarm: its functions meet both criteria. *)
LEMMA myalarm_meets == Complete(myalarm) /\ Tidy(myalarm, {})
<1>1. Acquires(myalarminit, InitKinds, {"text"}) /\ Undoes(myalarmexit, {})
  BY Tuples, EmptyIsSeq DEF Acquires, Undoes, InitKinds, Fails, WithParts, Embedded,
         myalarminit, myalarmexit
<1>2. /\ Acquires(alarm_probe, ProbeKinds, {"text", "class", "region", "bus"} \union {"driver"})
      /\ Undoes(alarm_remove, {"text", "class", "region", "bus"} \union {"driver"})
  BY Tuples, EmptyIsSeq DEF Acquires, Undoes, ProbeKinds, Fails, WithParts, Embedded,
         alarm_probe, alarm_undo, alarm_remove
<1>3. Undone(myalarminit, myalarmexit, Names(myalarminit) \ {}, {}, {})
  BY SMTT(60) DEF Undone, Fails, Before, Managed, Names, Freed, WithParts, Embedded,
         myalarminit, myalarmexit
<1>4. Undone(alarm_probe, alarm_remove, Names(alarm_probe) \ {}, {}, {})
  BY SMTT(60) DEF Undone, Fails, Before, Managed, Names, Freed, WithParts, Embedded,
         alarm_probe, alarm_undo, alarm_remove
<1>5. /\ Names(myalarminit) = {"region", "class", "driver", "testdev"}
      /\ Names(alarm_probe) = {"dev", "lock", "cdev", "node", "wq", "base", "irq", "line"}
  BY DEF Names, myalarminit, alarm_probe, alarm_undo
<1>6. /\ myalarm.init = myalarminit /\ myalarm.exit = myalarmexit
      /\ myalarm.anchors = {"driver"} /\ myalarm.probe = alarm_probe
      /\ myalarm.remove = alarm_remove
  BY DEF myalarm
<1>7. \A c \in myalarm.calls :
        c.uses \subseteq {"dev", "lock", "cdev", "node", "wq", "base", "irq", "line"}
  BY DEF myalarm
<1>8. DeviceSide(myalarm)
  BY <1>2, <1>6 DEF DeviceSide, Kept
<1> QED BY <1>1, <1>3, <1>4, <1>5, <1>6, <1>7, <1>8, PlainDriver DEF Embedded

(* mybell: its functions meet both criteria. *)
LEMMA mybell_meets == Complete(mybell) /\ Tidy(mybell, {})
<1>1. Acquires(mybell_init, InitKinds, {"text"}) /\ Undoes(mybell_exit, {})
  BY Tuples, EmptyIsSeq DEF Acquires, Undoes, InitKinds, Fails, WithParts, Embedded,
         mybell_init, mybell_exit
<1>2. /\ Acquires(mybell_probe, ProbeKinds, {"text", "class", "region", "bus"} \union {"driver"})
      /\ Undoes(mybell_remove, {"text", "class", "region", "bus"} \union {"driver"})
  BY Tuples, EmptyIsSeq DEF Acquires, Undoes, ProbeKinds, Fails, WithParts, Embedded,
         mybell_probe, mybell_remove
<1>3. Undone(mybell_init, mybell_exit, Names(mybell_init) \ {}, {}, {})
  BY SMTT(60) DEF Undone, Fails, Before, Managed, Names, Freed, WithParts, Embedded,
         mybell_init, mybell_exit
<1>4. Undone(mybell_probe, mybell_remove, Names(mybell_probe) \ {}, {}, {})
  BY SMTT(60) DEF Undone, Fails, Before, Managed, Names, Freed, WithParts, Embedded,
         mybell_probe, mybell_remove
<1>5. /\ Names(mybell_init) = {"driver"}
      /\ Names(mybell_probe) = {"dev", "base", "irq", "line"}
  BY DEF Names, mybell_init, mybell_probe
<1>6. /\ mybell.init = mybell_init /\ mybell.exit = mybell_exit
      /\ mybell.anchors = {"driver"} /\ mybell.probe = mybell_probe /\ mybell.remove = mybell_remove
  BY DEF mybell
<1>7. \A c \in mybell.calls :
        c.uses \subseteq {"dev", "base", "irq", "line"}
  BY DEF mybell
<1>8. DeviceSide(mybell)
  BY <1>2, <1>6 DEF DeviceSide, Kept
<1> QED BY <1>1, <1>3, <1>4, <1>5, <1>6, <1>7, <1>8, PlainDriver DEF Embedded

(* myspidrv: its functions meet both criteria. *)
LEMMA myspidrv_meets == Complete(myspidrv) /\ Tidy(myspidrv, {})
<1>2. /\ Acquires(spi_device_probe, ProbeKinds,
                  {"text", "class", "region", "bus"} \union {"driver"})
      /\ Undoes(<<>>, {"text", "class", "region", "bus"} \union {"driver"})
  BY Tuples, EmptyIsSeq DEF Acquires, Undoes, ProbeKinds, Fails, WithParts, Embedded,
         spi_device_probe
<1>4. Undone(spi_device_probe, <<>>, Names(spi_device_probe) \ {}, {}, {})
  BY SMTT(60) DEF Undone, Fails, Before, Managed, Names, Freed, WithParts, Embedded,
         spi_device_probe
<1>5. Names(spi_device_probe) = {}
  BY DEF Names, spi_device_probe
<1>6. /\ myspidrv.init = <<Get({"driver"}, <<>>)>> /\ myspidrv.exit = <<Put({"driver"})>>
      /\ myspidrv.anchors = {"driver"} /\ myspidrv.probe = spi_device_probe
      /\ myspidrv.remove = <<>>
  BY DEF myspidrv
<1>7. \A c \in myspidrv.calls :
        c.uses \subseteq {}
  BY DEF myspidrv
<1>8. DeviceSide(myspidrv)
  BY <1>2, <1>6 DEF DeviceSide, Kept
<1> QED BY <1>4, <1>5, <1>6, <1>7, <1>8, RegistersOnly, PlainDriver DEF Embedded

(* mydma: its functions meet both criteria. *)
LEMMA mydma_meets == Complete(mydma) /\ Tidy(mydma, {})
<1>2. /\ Acquires(dma_nic_probe, ProbeKinds, {"text", "class", "region", "bus"} \union {"driver"})
      /\ Undoes(dma_nic_remove, {"text", "class", "region", "bus"} \union {"driver"})
  BY Tuples, EmptyIsSeq DEF Acquires, Undoes, ProbeKinds, Fails, WithParts, Embedded,
         dma_nic_probe, dma_nic_remove
<1>4. Undone(dma_nic_probe, dma_nic_remove, Names(dma_nic_probe) \ {}, {}, {})
  BY SMTT(60) DEF Undone, Fails, Before, Managed, Names, Freed, WithParts, Embedded,
         dma_nic_probe, dma_nic_remove
<1>5. Names(dma_nic_probe) = {"dev", "pci", "buffer", "netdev"}
  BY DEF Names, dma_nic_probe
<1>6. /\ mydma.init = <<Get({"driver"}, <<>>)>> /\ mydma.exit = <<Put({"driver"})>>
      /\ mydma.anchors = {"driver"} /\ mydma.probe = dma_nic_probe /\ mydma.remove = dma_nic_remove
  BY DEF mydma
<1>7. \A c \in mydma.calls :
        c.uses \subseteq {"dev", "pci", "buffer", "netdev"}
  BY DEF mydma
<1>8. DeviceSide(mydma)
  BY <1>2, <1>6 DEF DeviceSide, Kept
<1> QED BY <1>4, <1>5, <1>6, <1>7, <1>8, RegistersOnly, PlainDriver DEF Embedded

(* mynetcard: its functions meet both criteria. *)
LEMMA mynetcard_meets == Complete(mynetcard) /\ Tidy(mynetcard, {})
<1>2. /\ Acquires(my_probe, ProbeKinds, {"text", "class", "region", "bus"} \union {"driver"})
      /\ Undoes(my_remove, {"text", "class", "region", "bus"} \union {"driver"})
  BY Tuples, EmptyIsSeq DEF Acquires, Undoes, ProbeKinds, Fails, WithParts, Embedded, my_probe,
         my_remove
<1>4. Undone(my_probe, my_remove, Names(my_probe) \ {}, {}, {})
  BY SMTT(60) DEF Undone, Fails, Before, Managed, Names, Freed, WithParts, Embedded, my_probe,
         my_remove
<1>5. Names(my_probe) = {"pci", "netdev", "interface"}
  BY DEF Names, my_probe
<1>6. /\ mynetcard.init = <<Get({"driver"}, <<>>)>> /\ mynetcard.exit = <<Put({"driver"})>>
      /\ mynetcard.anchors = {"driver"} /\ mynetcard.probe = my_probe
      /\ mynetcard.remove = my_remove
  BY DEF mynetcard
<1>7. \A c \in mynetcard.calls :
        c.uses \subseteq {"pci", "netdev", "interface"}
  BY DEF mynetcard
<1>8. DeviceSide(mynetcard)
  BY <1>2, <1>6 DEF DeviceSide, Kept
<1> QED BY <1>4, <1>5, <1>6, <1>7, <1>8, RegistersOnly, PlainDriver DEF Embedded

(* mypci: its functions meet both criteria. *)
LEMMA mypci_meets == Complete(mypci) /\ Tidy(mypci, {})
<1>2. /\ Acquires(simple_pci_probe, ProbeKinds,
                  {"text", "class", "region", "bus"} \union {"driver"})
      /\ Undoes(simple_pci_remove, {"text", "class", "region", "bus"} \union {"driver"})
  BY Tuples, EmptyIsSeq DEF Acquires, Undoes, ProbeKinds, Fails, WithParts, Embedded,
         simple_pci_probe, simple_pci_remove
<1>4. Undone(simple_pci_probe, simple_pci_remove, Names(simple_pci_probe) \ {}, {}, {})
  BY SMTT(60) DEF Undone, Fails, Before, Managed, Names, Freed, WithParts, Embedded,
         simple_pci_probe, simple_pci_remove
<1>5. Names(simple_pci_probe) = {"dev", "pci"}
  BY DEF Names, simple_pci_probe
<1>6. /\ mypci.init = <<Get({"driver"}, <<>>)>> /\ mypci.exit = <<Put({"driver"})>>
      /\ mypci.anchors = {"driver"} /\ mypci.probe = simple_pci_probe
      /\ mypci.remove = simple_pci_remove
  BY DEF mypci
<1>7. \A c \in mypci.calls :
        c.uses \subseteq {"dev", "pci"}
  BY DEF mypci
<1>8. DeviceSide(mypci)
  BY <1>2, <1>6 DEF DeviceSide, Kept
<1> QED BY <1>4, <1>5, <1>6, <1>7, <1>8, RegistersOnly, PlainDriver DEF Embedded

(* charrw: its functions meet both criteria. *)
LEMMA charrw_meets == Complete(charrw) /\ Tidy(charrw, {"cdev", "node"})
<1>1. Acquires(mycdev_init, InitKinds, {"text"}) /\ Undoes(mycdev_exit, {})
  BY Tuples, EmptyIsSeq DEF Acquires, Undoes, InitKinds, Fails, WithParts, Embedded,
         mycdev_init, mycdev_exit
<1>2. Undone(mycdev_init, mycdev_exit, Names(mycdev_init) \ {"cdev", "node"}, {}, {})
  BY SMTT(60) DEF Undone, Fails, Before, Managed, Names, Freed, WithParts, Embedded,
         mycdev_init, mycdev_exit
<1> QED BY <1>1, <1>2, PlainService DEF charrw

(* chardev: its functions meet both criteria. *)
LEMMA chardev_meets == Complete(chardev) /\ Tidy(chardev, {})
<1>1. Acquires(chardev_init, InitKinds, {"text"}) /\ Undoes(chardev_exit, {})
  BY Tuples, EmptyIsSeq DEF Acquires, Undoes, InitKinds, Fails, WithParts, Embedded,
         chardev_init, chardev_exit
<1>2. Undone(chardev_init, chardev_exit, Names(chardev_init) \ {}, {}, {})
  BY SMTT(60) DEF Undone, Fails, Before, Managed, Names, Freed, WithParts, Embedded,
         chardev_init, chardev_exit
<1> QED BY <1>1, <1>2, PlainService DEF chardev

(* charioctl: its functions meet both criteria. *)
LEMMA charioctl_meets == Complete(charioctl) /\ Tidy(charioctl, {})
<1>1. Acquires(chardev2_init, InitKinds, {"text"}) /\ Undoes(chardev2_exit, {})
  BY Tuples, EmptyIsSeq DEF Acquires, Undoes, InitKinds, Fails, WithParts, Embedded,
         chardev2_init, chardev2_exit
<1>2. Undone(chardev2_init, chardev2_exit, Names(chardev2_init) \ {}, {}, {})
  BY SMTT(60) DEF Undone, Fails, Before, Managed, Names, Freed, WithParts, Embedded,
         chardev2_init, chardev2_exit
<1> QED BY <1>1, <1>2, PlainService DEF charioctl

(* procfs: its functions meet both criteria. *)
LEMMA procfs_meets == Complete(procfs) /\ Tidy(procfs, {"dir"})
<1>1. Acquires(procfs_init, InitKinds, {"text"}) /\ Undoes(procfs_exit, {})
  BY Tuples, EmptyIsSeq DEF Acquires, Undoes, InitKinds, Fails, WithParts, Embedded,
         procfs_init, procfs_exit
<1>2. Undone(procfs_init, procfs_exit, Names(procfs_init) \ {"dir"}, {}, {})
  BY SMTT(60) DEF Undone, Fails, Before, Managed, Names, Freed, WithParts, Embedded,
         procfs_init, procfs_exit
<1> QED BY <1>1, <1>2, PlainService DEF procfs

(* myserial: its functions meet both criteria. *)
LEMMA myserial_meets == Complete(myserial) /\ Tidy(myserial, {})
<1>1. Acquires(simple_serial_init, InitKinds, {"text"}) /\ Undoes(simple_serial_exit, {})
  BY Tuples, EmptyIsSeq DEF Acquires, Undoes, InitKinds, Fails, WithParts, Embedded,
         simple_serial_init, simple_serial_exit
<1>2. Undone(simple_serial_init, simple_serial_exit, Names(simple_serial_init) \ {}, {}, {})
  BY SMTT(60) DEF Undone, Fails, Before, Managed, Names, Freed, WithParts, Embedded,
         simple_serial_init, simple_serial_exit
<1> QED BY <1>1, <1>2, PlainService DEF myserial

(* nf_hook: its functions meet both criteria. *)
LEMMA nf_hook_meets == Complete(nf_hook) /\ Tidy(nf_hook, {})
<1>1. Acquires(nf_hook_init, InitKinds, {"text"}) /\ Undoes(nf_hook_exit, {})
  BY Tuples, EmptyIsSeq DEF Acquires, Undoes, InitKinds, Fails, WithParts, Embedded,
         nf_hook_init, nf_hook_exit
<1>2. Undone(nf_hook_init, nf_hook_exit, Names(nf_hook_init) \ {}, {}, {})
  BY SMTT(60) DEF Undone, Fails, Before, Managed, Names, Freed, WithParts, Embedded,
         nf_hook_init, nf_hook_exit
<1> QED BY <1>1, <1>2, PlainService DEF nf_hook, Service

(* mykthread: its functions meet both criteria. *)
LEMMA mykthread_meets == Complete(mykthread) /\ Tidy(mykthread, {})
<1>1. Acquires(kthread_init, InitKinds, {"text"}) /\ Undoes(kthread_exit, {})
  BY Tuples, EmptyIsSeq DEF Acquires, Undoes, InitKinds, Fails, WithParts, Embedded,
         kthread_init, kthread_exit
<1>2. Undone(kthread_init, kthread_exit, Names(kthread_init) \ {}, {}, {})
  BY SMTT(60) DEF Undone, Fails, Before, Managed, Names, Freed, WithParts, Embedded,
         kthread_init, kthread_exit
<1> QED BY <1>1, <1>2, PlainService DEF mykthread, Service

(* myworkqueue: its functions meet both criteria. *)
LEMMA myworkqueue_meets == Complete(myworkqueue) /\ Tidy(myworkqueue, {})
<1>1. Acquires(workqueue_init, InitKinds, {"text"}) /\ Undoes(workqueue_exit, {})
  BY Tuples, EmptyIsSeq DEF Acquires, Undoes, InitKinds, Fails, WithParts, Embedded,
         workqueue_init, workqueue_exit
<1>2. Undone(workqueue_init, workqueue_exit, Names(workqueue_init) \ {}, {}, {})
  BY SMTT(60) DEF Undone, Fails, Before, Managed, Names, Freed, WithParts, Embedded,
         workqueue_init, workqueue_exit
<1> QED BY <1>1, <1>2, PlainService DEF myworkqueue, Service

(* mybus: its functions meet both criteria. *)
LEMMA mybus_meets == Complete(mybus) /\ Tidy(mybus, {"bus", "descr"})
<1>1. Acquires(mybus_init, InitKinds, {"text"}) /\ Undoes(mybus_exit, {})
  BY Tuples, EmptyIsSeq DEF Acquires, Undoes, InitKinds, Fails, WithParts, Embedded, mybus_init,
         mybus_exit
<1>2. Undone(mybus_init, mybus_exit, Names(mybus_init) \ {"bus", "descr"}, {}, {})
  BY SMTT(60) DEF Undone, Fails, Before, Managed, Names, Freed, WithParts, Embedded, mybus_init,
         mybus_exit
<1> QED BY <1>1, <1>2, PlainService DEF mybus, Service

(* mybusdev: its functions meet both criteria. *)
LEMMA mybusdev_meets == Complete(mybusdev) /\ Tidy(mybusdev, {"bus", "busdev"})
<1>1. Acquires(busdev_init, InitKinds, {"text"}) /\ Undoes(busdev_exit, {})
  BY Tuples, EmptyIsSeq DEF Acquires, Undoes, InitKinds, Fails, WithParts, Embedded,
         busdev_init, busdev_exit
<1>2. Undone(busdev_init, busdev_exit, Names(busdev_init) \ {"bus", "busdev"}, {}, {})
  BY SMTT(60) DEF Undone, Fails, Before, Managed, Names, Freed, WithParts, Embedded,
         busdev_init, busdev_exit
<1> QED BY <1>1, <1>2, PlainService DEF mybusdev, Service

(* mydrvbus: its functions meet both criteria. *)
LEMMA mydrvbus_meets == Complete(mydrvbus) /\ Tidy(mydrvbus, {"bus", "busdev"})
<1>1. Acquires(drvbus_init, InitKinds, {"text"}) /\ Undoes(drvbus_exit, {})
  BY Tuples, EmptyIsSeq DEF Acquires, Undoes, InitKinds, Fails, WithParts, Embedded,
         drvbus_init, drvbus_exit
<1>2. Undone(drvbus_init, drvbus_exit, Names(drvbus_init) \ {"bus", "busdev"}, {}, {})
  BY SMTT(60) DEF Undone, Fails, Before, Managed, Names, Freed, WithParts, Embedded,
         drvbus_init, drvbus_exit
<1> QED BY <1>1, <1>2, PlainService DEF mydrvbus, Service

(* mychild: its functions meet both criteria. *)
LEMMA mychild_meets == Complete(mychild) /\ Tidy(mychild, {})
<1>1. Acquires(child_init, InitKinds, {"text"}) /\ Undoes(child_exit, {})
  BY Tuples, EmptyIsSeq DEF Acquires, Undoes, InitKinds, Fails, WithParts, Embedded, child_init,
         child_exit
<1>2. Undone(child_init, child_exit, Names(child_init) \ {}, {}, {})
  BY SMTT(60) DEF Undone, Fails, Before, Managed, Names, Freed, WithParts, Embedded, child_init,
         child_exit
<1> QED BY <1>1, <1>2, PlainService DEF mychild, Service

(* mydrvchild: its functions meet both criteria. *)
LEMMA mydrvchild_meets == Complete(mydrvchild) /\ Tidy(mydrvchild, {"child"})
<1>1. Acquires(drvchild_init, InitKinds, {"text"}) /\ Undoes(drvchild_exit, {})
  BY Tuples, EmptyIsSeq DEF Acquires, Undoes, InitKinds, Fails, WithParts, Embedded,
         drvchild_init, drvchild_exit
<1>2. Undone(drvchild_init, drvchild_exit, Names(drvchild_init) \ {"child"}, {}, {})
  BY SMTT(60) DEF Undone, Fails, Before, Managed, Names, Freed, WithParts, Embedded,
         drvchild_init, drvchild_exit
<1> QED BY <1>1, <1>2, PlainService DEF mydrvchild, Service

(* myclass: its functions meet both criteria. *)
LEMMA myclass_meets == Complete(myclass) /\ Tidy(myclass, {"class"})
<1>1. Acquires(class_init, InitKinds, {"text"}) /\ Undoes(class_cleanup, {})
  BY Tuples, EmptyIsSeq DEF Acquires, Undoes, InitKinds, Fails, WithParts, Embedded, class_init,
         class_cleanup
<1>2. Undone(class_init, class_cleanup, Names(class_init) \ {"class"}, {}, {})
  BY SMTT(60) DEF Undone, Fails, Before, Managed, Names, Freed, WithParts, Embedded, class_init,
         class_cleanup
<1> QED BY <1>1, <1>2, PlainService DEF myclass, Service

HIDE DEF Devm, Chk, Get, Set, Put, Try, Drop, Opt, Require, Op, Call

-----------------------------------------------------------------------------
(* The criteria of the order, of callbacks and of files at once. *)
InOrder(x, T, L) == Orderly(T, L) /\ Watched(T, L) /\ Served(x, T, L)

(* One that binds no device, and releases in order. *)
LEMMA OrderlyService ==
  ASSUME NEW T, NEW L, T.probe = <<>>, T.remove = <<>>, T.anchors = {}, Tidy(T, L),
         L \subseteq Names(T.init), Earns(T.init, T.exit, {}, Names(T.init)),
         \A r \in Names(T.init) : \A n \in Needs(r) :
           /\ n \in Names(T.init) /\ Unwinds(T.init, T.exit, {}, r, n)
           /\ r = "node" \/ Rests(T.init, {}, r, n)
  PROVE  /\ Orderly(T, L)
         /\ Names(T.init) \subseteq ModOnly(T) \ {"text"}
<1> DEFINE N == Names(T.init)
<1>1. Names(T.probe) = {} /\ Sure(<<>>, 1) = {} /\ Len(<<>>) = 0
  BY DEF Names, Sure
<1>2. Earns(T.probe, T.remove, {}, Names(T.probe))
  BY <1>1 DEF Earns, Puts
<1>3. "text" \notin N
  BY DEF Tidy, Acquires, Names, WithParts
<1>4. N \subseteq ModOnly(T)
  BY DEF ModOnly
<1>5. Earns(T.init, T.exit, {}, ModOnly(T))
  <2>1. \A S : ({} \union S) \cap N \subseteq ({} \union S) \cap ModOnly(T)
    BY <1>4
  <2>2. ASSUME NEW k \in DOMAIN T.init
        PROVE /\ T.init[k].op # "opt"
              /\ Fails(T.init[k]) =>
                   Puts(T.init[k].undo, ({} \union Sure(T.init, k)) \cap ModOnly(T))
    <3>1. /\ T.init[k].op # "opt"
          /\ Fails(T.init[k]) => Puts(T.init[k].undo, ({} \union Sure(T.init, k)) \cap N)
      BY DEF Earns
    <3>2. ({} \union Sure(T.init, k)) \cap N \subseteq ({} \union Sure(T.init, k)) \cap ModOnly(T)
      BY <2>1
    <3> QED BY <3>1, <3>2, PutsMono
  <2>3. Puts(T.exit, ({} \union Sure(T.init, Len(T.init) + 1)) \cap ModOnly(T))
    BY <2>1, PutsMono DEF Earns
  <2> QED BY <2>2, <2>3 DEF Earns
<1>6. ASSUME NEW r \in N, NEW n \in Needs(r)
      PROVE ModOrders(T, r, n) /\ (r = "node" \/ ModRests(T, r, n))
  BY <1>3, <1>4 DEF ModOrders, ModRests
<1> QED BY <1>1, <1>2, <1>3, <1>4, <1>5, <1>6 DEF Orderly

USE DEF Devm, Chk, Get, Set, Put, Try, Drop, Opt, Require, Op, Call

(* chardev: its functions meet the criteria of the order. *)
LEMMA chardev_orderly == InOrder("chardev", chardev, {})
<1> DEFINE N == {"chrdev", "class", "node"}
<1>1. Names(chardev_init) = N
  BY DEF Names, chardev_init
<1>2. Earns(chardev_init, chardev_exit, {}, N)
  BY <1>1, SMTT(60) DEF Earns, Puts, Sure, Gone, Fails, WithParts, Embedded, chardev_init,
         chardev_exit
<1>3. /\ Unwinds(chardev_init, chardev_exit, {}, "node", "class")
  BY SMTT(60) DEF Unwinds, Ordered, Rests, Sure, Before, Fails, WithParts, Embedded,
         chardev_init, chardev_exit
<1>4. \A r \in N : \A n \in Needs(r) :
        /\ n \in N /\ Unwinds(chardev_init, chardev_exit, {}, r, n)
        /\ r = "node" \/ Rests(chardev_init, {}, r, n)
  BY <1>3 DEF Needs
<1>5. /\ chardev.init = chardev_init /\ chardev.exit = chardev_exit /\ chardev.anchors = {}
      /\ chardev.probe = <<>> /\ chardev.remove = <<>>
  BY DEF chardev
<1>6. Orderly(chardev, {}) /\ N \subseteq ModOnly(chardev) \ {"text"}
  <2>1. \A r \in Names(chardev.init) : \A n \in Needs(r) :
          /\ n \in Names(chardev.init) /\ Unwinds(chardev.init, chardev.exit, {}, r, n)
          /\ r = "node" \/ Rests(chardev.init, {}, r, n)
    BY <1>1, <1>4, <1>5
  <2>2. /\ {} \subseteq Names(chardev.init)
        /\ Earns(chardev.init, chardev.exit, {}, Names(chardev.init))
    BY <1>1, <1>2, <1>5
  <2>3. /\ Orderly(chardev, {})
        /\ Names(chardev.init) \subseteq ModOnly(chardev) \ {"text"}
    BY chardev_meets, <1>5, <2>1, <2>2, OrderlyService
  <2> QED BY <1>1, <1>5, <2>3
<1>7. Undoes(chardev_exit, {"text"})
  BY Tuples DEF Undoes, WithParts, Embedded, chardev_exit
<1>9. Watched(chardev, {})
  <2>2. ASSUME NEW c \in chardev.calls, c.name # "file"
        PROVE /\ \A u \in c.uses : \E w \in c.when \ {"file"} : ModRests(chardev, w, u)
              /\ \E w \in c.when \ {"file"} :
                   TRUE
    BY <2>2 DEF chardev
  <2> QED BY <1>5, <1>7, <2>2 DEF Watched
<1>11. Served("chardev", chardev, {})
  BY <1>1, <1>5, <1>7 DEF Served, Names, Unowned, chardev
<1> QED BY <1>6, <1>9, <1>11 DEF InOrder

(* charioctl: its functions meet the criteria of the order. *)
LEMMA charioctl_orderly == InOrder("charioctl", charioctl, {})
<1> DEFINE N == {"chrdev", "class", "node"}
<1>1. Names(chardev2_init) = N
  BY DEF Names, chardev2_init
<1>2. Earns(chardev2_init, chardev2_exit, {}, N)
  BY <1>1, SMTT(60) DEF Earns, Puts, Sure, Gone, Fails, WithParts, Embedded, chardev2_init,
         chardev2_exit
<1>3. /\ Unwinds(chardev2_init, chardev2_exit, {}, "node", "class")
  BY SMTT(60) DEF Unwinds, Ordered, Rests, Sure, Before, Fails, WithParts, Embedded,
         chardev2_init, chardev2_exit
<1>4. \A r \in N : \A n \in Needs(r) :
        /\ n \in N /\ Unwinds(chardev2_init, chardev2_exit, {}, r, n)
        /\ r = "node" \/ Rests(chardev2_init, {}, r, n)
  BY <1>3 DEF Needs
<1>5. /\ charioctl.init = chardev2_init
      /\ charioctl.exit = chardev2_exit
      /\ charioctl.anchors = {}
      /\ charioctl.probe = <<>> /\ charioctl.remove = <<>>
  BY DEF charioctl
<1>6. Orderly(charioctl, {}) /\ N \subseteq ModOnly(charioctl) \ {"text"}
  <2>1. \A r \in Names(charioctl.init) : \A n \in Needs(r) :
          /\ n \in Names(charioctl.init) /\ Unwinds(charioctl.init, charioctl.exit, {}, r, n)
          /\ r = "node" \/ Rests(charioctl.init, {}, r, n)
    BY <1>1, <1>4, <1>5
  <2>2. /\ {} \subseteq Names(charioctl.init)
        /\ Earns(charioctl.init, charioctl.exit, {}, Names(charioctl.init))
    BY <1>1, <1>2, <1>5
  <2>3. /\ Orderly(charioctl, {})
        /\ Names(charioctl.init) \subseteq ModOnly(charioctl) \ {"text"}
    BY charioctl_meets, <1>5, <2>1, <2>2, OrderlyService
  <2> QED BY <1>1, <1>5, <2>3
<1>7. Undoes(chardev2_exit, {"text"})
  BY Tuples DEF Undoes, WithParts, Embedded, chardev2_exit
<1>9. Watched(charioctl, {})
  <2>2. ASSUME NEW c \in charioctl.calls, c.name # "file"
        PROVE /\ \A u \in c.uses : \E w \in c.when \ {"file"} : ModRests(charioctl, w, u)
              /\ \E w \in c.when \ {"file"} :
                   TRUE
    BY <2>2 DEF charioctl
  <2> QED BY <1>5, <1>7, <2>2 DEF Watched
<1>11. Served("charioctl", charioctl, {})
  BY <1>1, <1>5, <1>7 DEF Served, Names, Unowned, charioctl
<1> QED BY <1>6, <1>9, <1>11 DEF InOrder

(* procfs: its functions meet the criteria of the order. *)
LEMMA procfs_orderly == InOrder("procfs", procfs, {"dir"})
<1> DEFINE N == {"dir", "proc"}
<1>1. Names(procfs_init) = N
  BY DEF Names, procfs_init
<1>2. Earns(procfs_init, procfs_exit, {}, N)
  BY <1>1, SMTT(60) DEF Earns, Puts, Sure, Gone, Fails, WithParts, Embedded, procfs_init,
         procfs_exit
<1>3. /\ Unwinds(procfs_init, procfs_exit, {}, "proc", "dir")
      /\ Rests(procfs_init, {}, "proc", "dir")
  BY SMTT(60) DEF Unwinds, Ordered, Rests, Sure, Before, Fails, WithParts, Embedded,
         procfs_init, procfs_exit
<1>4. \A r \in N : Needs(r) = {}
  BY DEF Needs
<1>5. /\ procfs.init = procfs_init /\ procfs.exit = procfs_exit /\ procfs.anchors = {}
      /\ procfs.probe = <<>> /\ procfs.remove = <<>>
  BY DEF procfs
<1>6. Orderly(procfs, {"dir"}) /\ N \subseteq ModOnly(procfs) \ {"text"}
  <2>1. \A r \in Names(procfs.init) : \A n \in Needs(r) :
          /\ n \in Names(procfs.init) /\ Unwinds(procfs.init, procfs.exit, {}, r, n)
          /\ r = "node" \/ Rests(procfs.init, {}, r, n)
    BY <1>1, <1>4, <1>5
  <2>2. /\ {"dir"} \subseteq Names(procfs.init)
        /\ Earns(procfs.init, procfs.exit, {}, Names(procfs.init))
    BY <1>1, <1>2, <1>5
  <2>3. /\ Orderly(procfs, {"dir"})
        /\ Names(procfs.init) \subseteq ModOnly(procfs) \ {"text"}
    BY procfs_meets, <1>5, <2>1, <2>2, OrderlyService
  <2> QED BY <1>1, <1>5, <2>3
<1>7. Undoes(procfs_exit, {"text"})
  BY Tuples DEF Undoes, WithParts, Embedded, procfs_exit
<1>9. Watched(procfs, {"dir"})
  <2>1. /\ ModRests(procfs, "proc", "dir")
    BY <1>3, <1>5, <1>6 DEF ModRests, ModOrders
  <2>2. ASSUME NEW c \in procfs.calls, c.name # "file"
        PROVE /\ \A u \in c.uses : \E w \in c.when \ {"file"} : ModRests(procfs, w, u)
              /\ \E w \in c.when \ {"file"} :
                   w \notin {"dir"} \/ (c.name \in {"dir"} /\ w \in Given(procfs))
    BY <2>2, <2>1 DEF procfs
  <2> QED BY <1>5, <1>7, <2>2 DEF Watched
<1>11. Served("procfs", procfs, {"dir"})
  BY <1>1, <1>5, <1>7 DEF Served, Names, Unowned, procfs
<1> QED BY <1>6, <1>9, <1>11 DEF InOrder

(* myserial: its functions meet the criteria of the order. *)
LEMMA myserial_orderly == InOrder("myserial", myserial, {})
<1> DEFINE N == {"pdev", "uart", "port"}
<1>1. Names(simple_serial_init) = N
  BY DEF Names, simple_serial_init
<1>2. Earns(simple_serial_init, simple_serial_exit, {}, N)
  BY <1>1, SMTT(60) DEF Earns, Puts, Sure, Gone, Fails, WithParts, Embedded, simple_serial_init,
         simple_serial_exit
<1>3. /\ Unwinds(simple_serial_init, simple_serial_exit, {}, "port", "uart")
      /\ Rests(simple_serial_init, {}, "port", "uart")
      /\ Unwinds(simple_serial_init, simple_serial_exit, {}, "port", "pdev")
      /\ Rests(simple_serial_init, {}, "port", "pdev")
  BY SMTT(60) DEF Unwinds, Ordered, Rests, Sure, Before, Fails, WithParts, Embedded,
         simple_serial_init, simple_serial_exit
<1>4. \A r \in N : Needs(r) = {}
  BY DEF Needs
<1>5. /\ myserial.init = simple_serial_init
      /\ myserial.exit = simple_serial_exit
      /\ myserial.anchors = {}
      /\ myserial.probe = <<>> /\ myserial.remove = <<>>
  BY DEF myserial
<1>6. Orderly(myserial, {}) /\ N \subseteq ModOnly(myserial) \ {"text"}
  <2>1. \A r \in Names(myserial.init) : \A n \in Needs(r) :
          /\ n \in Names(myserial.init) /\ Unwinds(myserial.init, myserial.exit, {}, r, n)
          /\ r = "node" \/ Rests(myserial.init, {}, r, n)
    BY <1>1, <1>4, <1>5
  <2>2. /\ {} \subseteq Names(myserial.init)
        /\ Earns(myserial.init, myserial.exit, {}, Names(myserial.init))
    BY <1>1, <1>2, <1>5
  <2>3. /\ Orderly(myserial, {})
        /\ Names(myserial.init) \subseteq ModOnly(myserial) \ {"text"}
    BY myserial_meets, <1>5, <2>1, <2>2, OrderlyService
  <2> QED BY <1>1, <1>5, <2>3
<1>7. Undoes(simple_serial_exit, {"text"})
  BY Tuples DEF Undoes, WithParts, Embedded, simple_serial_exit
<1>9. Watched(myserial, {})
  <2>1. /\ ModRests(myserial, "port", "uart")
        /\ ModRests(myserial, "port", "pdev")
    BY <1>3, <1>5, <1>6 DEF ModRests, ModOrders
  <2>2. ASSUME NEW c \in myserial.calls, c.name # "file"
        PROVE /\ \A u \in c.uses : \E w \in c.when \ {"file"} : ModRests(myserial, w, u)
              /\ \E w \in c.when \ {"file"} :
                   TRUE
    BY <2>2, <2>1 DEF myserial
  <2> QED BY <1>5, <1>7, <2>2 DEF Watched
<1>10. Last(myserial)
  <2>1. Sealed(simple_serial_init, {}, "port")
    BY SMTT(60) DEF Sealed, Before, Fails, simple_serial_init
  <2> QED BY <2>1, <1>5, <1>6 DEF Last, myserial
<1>11. Served("myserial", myserial, {})
  BY <1>1, <1>5, <1>10, <1>7 DEF Served, Names, Unowned, myserial
<1> QED BY <1>6, <1>9, <1>11 DEF InOrder

(* nf_hook: its functions meet the criteria of the order. *)
LEMMA nf_hook_orderly == InOrder("nf_hook", nf_hook, {})
<1> DEFINE N == {"hook"}
<1>1. Names(nf_hook_init) = N
  BY DEF Names, nf_hook_init
<1>2. Earns(nf_hook_init, nf_hook_exit, {}, N)
  BY <1>1, SMTT(60) DEF Earns, Puts, Sure, Gone, Fails, WithParts, Embedded, nf_hook_init,
         nf_hook_exit
<1>4. \A r \in N : Needs(r) = {}
  BY DEF Needs
<1>5. /\ nf_hook.init = nf_hook_init /\ nf_hook.exit = nf_hook_exit /\ nf_hook.anchors = {}
      /\ nf_hook.probe = <<>> /\ nf_hook.remove = <<>>
  BY DEF nf_hook, Service
<1>6. Orderly(nf_hook, {}) /\ N \subseteq ModOnly(nf_hook) \ {"text"}
  <2>1. \A r \in Names(nf_hook.init) : \A n \in Needs(r) :
          /\ n \in Names(nf_hook.init) /\ Unwinds(nf_hook.init, nf_hook.exit, {}, r, n)
          /\ r = "node" \/ Rests(nf_hook.init, {}, r, n)
    BY <1>1, <1>4, <1>5
  <2>2. /\ {} \subseteq Names(nf_hook.init)
        /\ Earns(nf_hook.init, nf_hook.exit, {}, Names(nf_hook.init))
    BY <1>1, <1>2, <1>5
  <2>3. /\ Orderly(nf_hook, {})
        /\ Names(nf_hook.init) \subseteq ModOnly(nf_hook) \ {"text"}
    BY nf_hook_meets, <1>5, <2>1, <2>2, OrderlyService
  <2> QED BY <1>1, <1>5, <2>3
<1>7. Undoes(nf_hook_exit, {"text"})
  BY Tuples DEF Undoes, WithParts, Embedded, nf_hook_exit
<1>9. Watched(nf_hook, {})
  <2>2. ASSUME NEW c \in nf_hook.calls, c.name # "file"
        PROVE /\ \A u \in c.uses : \E w \in c.when \ {"file"} : ModRests(nf_hook, w, u)
              /\ \E w \in c.when \ {"file"} :
                   TRUE
    BY <2>2 DEF nf_hook, Service
  <2> QED BY <1>5, <1>7, <2>2 DEF Watched
<1>11. Served("nf_hook", nf_hook, {})
  BY <1>1, <1>5, <1>7 DEF Served, Names, Unowned, nf_hook, Service
<1> QED BY <1>6, <1>9, <1>11 DEF InOrder

(* mykthread: its functions meet the criteria of the order. *)
LEMMA mykthread_orderly == InOrder("mykthread", mykthread, {})
<1> DEFINE N == {"thread"}
<1>1. Names(kthread_init) = N
  BY DEF Names, kthread_init
<1>2. Earns(kthread_init, kthread_exit, {}, N)
  BY <1>1, SMTT(60) DEF Earns, Puts, Sure, Gone, Fails, WithParts, Embedded, kthread_init,
         kthread_exit
<1>4. \A r \in N : Needs(r) = {}
  BY DEF Needs
<1>5. /\ mykthread.init = kthread_init
      /\ mykthread.exit = kthread_exit
      /\ mykthread.anchors = {}
      /\ mykthread.probe = <<>> /\ mykthread.remove = <<>>
  BY DEF mykthread, Service
<1>6. Orderly(mykthread, {}) /\ N \subseteq ModOnly(mykthread) \ {"text"}
  <2>1. \A r \in Names(mykthread.init) : \A n \in Needs(r) :
          /\ n \in Names(mykthread.init) /\ Unwinds(mykthread.init, mykthread.exit, {}, r, n)
          /\ r = "node" \/ Rests(mykthread.init, {}, r, n)
    BY <1>1, <1>4, <1>5
  <2>2. /\ {} \subseteq Names(mykthread.init)
        /\ Earns(mykthread.init, mykthread.exit, {}, Names(mykthread.init))
    BY <1>1, <1>2, <1>5
  <2>3. /\ Orderly(mykthread, {})
        /\ Names(mykthread.init) \subseteq ModOnly(mykthread) \ {"text"}
    BY mykthread_meets, <1>5, <2>1, <2>2, OrderlyService
  <2> QED BY <1>1, <1>5, <2>3
<1>7. Undoes(kthread_exit, {"text"})
  BY Tuples DEF Undoes, WithParts, Embedded, kthread_exit
<1>9. Watched(mykthread, {})
  <2>2. ASSUME NEW c \in mykthread.calls, c.name # "file"
        PROVE /\ \A u \in c.uses : \E w \in c.when \ {"file"} : ModRests(mykthread, w, u)
              /\ \E w \in c.when \ {"file"} :
                   TRUE
    BY <2>2 DEF mykthread, Service
  <2> QED BY <1>5, <1>7, <2>2 DEF Watched
<1>11. Served("mykthread", mykthread, {})
  BY <1>1, <1>5, <1>7 DEF Served, Names, Unowned, mykthread, Service
<1> QED BY <1>6, <1>9, <1>11 DEF InOrder

(* myworkqueue: its functions meet the criteria of the order. *)
LEMMA myworkqueue_orderly == InOrder("myworkqueue", myworkqueue, {})
<1> DEFINE N == {"workqueue", "work"}
<1>1. Names(workqueue_init) = N
  BY DEF Names, workqueue_init
<1>2. Earns(workqueue_init, workqueue_exit, {}, N)
  BY <1>1, SMTT(60) DEF Earns, Puts, Sure, Gone, Fails, WithParts, Embedded, workqueue_init,
         workqueue_exit
<1>3. /\ Unwinds(workqueue_init, workqueue_exit, {}, "work", "workqueue")
      /\ Rests(workqueue_init, {}, "work", "workqueue")
  BY SMTT(60) DEF Unwinds, Ordered, Rests, Sure, Before, Fails, WithParts, Embedded,
         workqueue_init, workqueue_exit
<1>4. \A r \in N : Needs(r) = {}
  BY DEF Needs
<1>5. /\ myworkqueue.init = workqueue_init
      /\ myworkqueue.exit = workqueue_exit
      /\ myworkqueue.anchors = {}
      /\ myworkqueue.probe = <<>> /\ myworkqueue.remove = <<>>
  BY DEF myworkqueue, Service
<1>6. Orderly(myworkqueue, {}) /\ N \subseteq ModOnly(myworkqueue) \ {"text"}
  <2>1. \A r \in Names(myworkqueue.init) : \A n \in Needs(r) :
          /\ n \in Names(myworkqueue.init)
          /\ Unwinds(myworkqueue.init, myworkqueue.exit, {}, r, n)
          /\ r = "node" \/ Rests(myworkqueue.init, {}, r, n)
    BY <1>1, <1>4, <1>5
  <2>2. /\ {} \subseteq Names(myworkqueue.init)
        /\ Earns(myworkqueue.init, myworkqueue.exit, {}, Names(myworkqueue.init))
    BY <1>1, <1>2, <1>5
  <2>3. /\ Orderly(myworkqueue, {})
        /\ Names(myworkqueue.init) \subseteq ModOnly(myworkqueue) \ {"text"}
    BY myworkqueue_meets, <1>5, <2>1, <2>2, OrderlyService
  <2> QED BY <1>1, <1>5, <2>3
<1>7. Undoes(workqueue_exit, {"text"})
  BY Tuples DEF Undoes, WithParts, Embedded, workqueue_exit
<1>9. Watched(myworkqueue, {})
  <2>1. /\ ModRests(myworkqueue, "work", "workqueue")
    BY <1>3, <1>5, <1>6 DEF ModRests, ModOrders
  <2>2. ASSUME NEW c \in myworkqueue.calls, c.name # "file"
        PROVE /\ \A u \in c.uses : \E w \in c.when \ {"file"} : ModRests(myworkqueue, w, u)
              /\ \E w \in c.when \ {"file"} :
                   TRUE
    BY <2>2, <2>1 DEF myworkqueue, Service
  <2> QED BY <1>5, <1>7, <2>2 DEF Watched
<1>11. Served("myworkqueue", myworkqueue, {})
  BY <1>1, <1>5, <1>7 DEF Served, Names, Unowned, myworkqueue, Service
<1> QED BY <1>6, <1>9, <1>11 DEF InOrder

(* mybus: its functions meet the criteria of the order. *)
LEMMA mybus_orderly == InOrder("mybus", mybus, {"bus", "descr"})
<1> DEFINE N == {"bus", "descr", "pad"}
<1>1. Names(mybus_init) = N
  BY DEF Names, mybus_init
<1>2. Earns(mybus_init, mybus_exit, {}, N)
  BY <1>1, SMTT(60) DEF Earns, Puts, Sure, Gone, Fails, WithParts, Embedded, mybus_init,
         mybus_exit
<1>3. /\ Unwinds(mybus_init, mybus_exit, {}, "descr", "bus")
      /\ Rests(mybus_init, {}, "descr", "bus")
      /\ Unwinds(mybus_init, mybus_exit, {}, "pad", "bus")
      /\ Rests(mybus_init, {}, "pad", "bus")
  BY SMTT(60) DEF Unwinds, Ordered, Rests, Sure, Before, Fails, WithParts, Embedded, mybus_init,
         mybus_exit
<1>4. \A r \in N : \A n \in Needs(r) :
        /\ n \in N /\ Unwinds(mybus_init, mybus_exit, {}, r, n)
        /\ r = "node" \/ Rests(mybus_init, {}, r, n)
  BY <1>3 DEF Needs
<1>5. /\ mybus.init = mybus_init /\ mybus.exit = mybus_exit /\ mybus.anchors = {}
      /\ mybus.probe = <<>> /\ mybus.remove = <<>>
  BY DEF mybus, Service
<1>6. Orderly(mybus, {"bus", "descr"}) /\ N \subseteq ModOnly(mybus) \ {"text"}
  <2>1. \A r \in Names(mybus.init) : \A n \in Needs(r) :
          /\ n \in Names(mybus.init) /\ Unwinds(mybus.init, mybus.exit, {}, r, n)
          /\ r = "node" \/ Rests(mybus.init, {}, r, n)
    BY <1>1, <1>4, <1>5
  <2>2. /\ {"bus", "descr"} \subseteq Names(mybus.init)
        /\ Earns(mybus.init, mybus.exit, {}, Names(mybus.init))
    BY <1>1, <1>2, <1>5
  <2>3. /\ Orderly(mybus, {"bus", "descr"})
        /\ Names(mybus.init) \subseteq ModOnly(mybus) \ {"text"}
    BY mybus_meets, <1>5, <2>1, <2>2, OrderlyService
  <2> QED BY <1>1, <1>5, <2>3
<1>7. Undoes(mybus_exit, {"text"})
  BY Tuples DEF Undoes, WithParts, Embedded, mybus_exit
<1>8. "bus" \in Given(mybus) /\ "descr" \in Given(mybus)
  BY <1>5, <1>6 DEF Given, Freed, WithParts, mybus_exit
<1>9. Watched(mybus, {"bus", "descr"})
  <2>1. /\ ModRests(mybus, "descr", "bus")
        /\ ModRests(mybus, "pad", "bus")
    BY <1>3, <1>5, <1>6 DEF ModRests, ModOrders
  <2>2. \A c \in mybus.calls :
          \/ c.name = "descr" /\ c.when = {"descr"} /\ c.uses = {"bus"}
          \/ c.name = "pad" /\ c.when = {"pad"} /\ c.uses = {"bus"}
    BY DEF mybus, Service
  <2>3. ASSUME NEW c \in mybus.calls, c.name # "file"
        PROVE /\ \A u \in c.uses : \E w \in c.when \ {"file"} : ModRests(mybus, w, u)
              /\ \E w \in c.when \ {"file"} :
                   w \notin {"bus", "descr"} \/ (c.name \in {"bus", "descr"} /\ w \in Given(mybus))
    BY <2>3, <2>1, <2>2, <1>8
  <2> QED BY <1>5, <1>7, <2>3 DEF Watched
<1>11. Served("mybus", mybus, {"bus", "descr"})
  BY <1>1, <1>5, <1>7 DEF Served, Names, Unowned, mybus, Service
<1> QED BY <1>6, <1>9, <1>11 DEF InOrder

(* mybusdev: its functions meet the criteria of the order. *)
LEMMA mybusdev_orderly == InOrder("mybusdev", mybusdev, {"bus", "busdev"})
<1> DEFINE N == {"bus", "busdev"}
<1>1. Names(busdev_init) = N
  BY DEF Names, busdev_init
<1>2. Earns(busdev_init, busdev_exit, {}, N)
  BY <1>1, SMTT(60) DEF Earns, Puts, Sure, Gone, Fails, WithParts, Embedded, busdev_init,
         busdev_exit
<1>4. \A r \in N : Needs(r) = {}
  BY DEF Needs
<1>5. /\ mybusdev.init = busdev_init /\ mybusdev.exit = busdev_exit /\ mybusdev.anchors = {}
      /\ mybusdev.probe = <<>> /\ mybusdev.remove = <<>>
  BY DEF mybusdev, Service
<1>6. Orderly(mybusdev, {"bus", "busdev"}) /\ N \subseteq ModOnly(mybusdev) \ {"text"}
  <2>1. \A r \in Names(mybusdev.init) : \A n \in Needs(r) :
          /\ n \in Names(mybusdev.init) /\ Unwinds(mybusdev.init, mybusdev.exit, {}, r, n)
          /\ r = "node" \/ Rests(mybusdev.init, {}, r, n)
    BY <1>1, <1>4, <1>5
  <2>2. /\ {"bus", "busdev"} \subseteq Names(mybusdev.init)
        /\ Earns(mybusdev.init, mybusdev.exit, {}, Names(mybusdev.init))
    BY <1>1, <1>2, <1>5
  <2>3. /\ Orderly(mybusdev, {"bus", "busdev"})
        /\ Names(mybusdev.init) \subseteq ModOnly(mybusdev) \ {"text"}
    BY mybusdev_meets, <1>5, <2>1, <2>2, OrderlyService
  <2> QED BY <1>1, <1>5, <2>3
<1>7. Undoes(busdev_exit, {"text"})
  BY Tuples DEF Undoes, WithParts, Embedded, busdev_exit
<1>8. "bus" \in Given(mybusdev)
  BY <1>5, <1>6 DEF Given, Freed, WithParts, busdev_exit
<1>9. Watched(mybusdev, {"bus", "busdev"})
  <2>2. \A c \in mybusdev.calls :
          \/ c.name = "bus" /\ c.when = {"bus"} /\ c.uses = {}
    BY DEF mybusdev, Service
  <2>3. ASSUME NEW c \in mybusdev.calls, c.name # "file"
        PROVE /\ \A u \in c.uses : \E w \in c.when \ {"file"} : ModRests(mybusdev, w, u)
              /\ \E w \in c.when \ {"file"} :
                   w \notin {"bus", "busdev"}
                   \/ (c.name \in {"bus", "busdev"} /\ w \in Given(mybusdev))
    BY <2>3, <2>2, <1>8
  <2> QED BY <1>5, <1>7, <2>3 DEF Watched
<1>11. Served("mybusdev", mybusdev, {"bus", "busdev"})
  BY <1>1, <1>5, <1>7 DEF Served, Names, Unowned, mybusdev, Service
<1> QED BY <1>6, <1>9, <1>11 DEF InOrder

(* mydrvbus: its functions meet the criteria of the order. *)
LEMMA mydrvbus_orderly == InOrder("mydrvbus", mydrvbus, {"bus", "busdev"})
<1> DEFINE N == {"bus", "busdev"}
<1>1. Names(drvbus_init) = N
  BY DEF Names, drvbus_init
<1>2. Earns(drvbus_init, drvbus_exit, {}, N)
  BY <1>1, SMTT(60) DEF Earns, Puts, Sure, Gone, Fails, WithParts, Embedded, drvbus_init,
         drvbus_exit
<1>4. \A r \in N : Needs(r) = {}
  BY DEF Needs
<1>5. /\ mydrvbus.init = drvbus_init /\ mydrvbus.exit = drvbus_exit /\ mydrvbus.anchors = {}
      /\ mydrvbus.probe = <<>> /\ mydrvbus.remove = <<>>
  BY DEF mydrvbus, Service
<1>6. Orderly(mydrvbus, {"bus", "busdev"}) /\ N \subseteq ModOnly(mydrvbus) \ {"text"}
  <2>1. \A r \in Names(mydrvbus.init) : \A n \in Needs(r) :
          /\ n \in Names(mydrvbus.init) /\ Unwinds(mydrvbus.init, mydrvbus.exit, {}, r, n)
          /\ r = "node" \/ Rests(mydrvbus.init, {}, r, n)
    BY <1>1, <1>4, <1>5
  <2>2. /\ {"bus", "busdev"} \subseteq Names(mydrvbus.init)
        /\ Earns(mydrvbus.init, mydrvbus.exit, {}, Names(mydrvbus.init))
    BY <1>1, <1>2, <1>5
  <2>3. /\ Orderly(mydrvbus, {"bus", "busdev"})
        /\ Names(mydrvbus.init) \subseteq ModOnly(mydrvbus) \ {"text"}
    BY mydrvbus_meets, <1>5, <2>1, <2>2, OrderlyService
  <2> QED BY <1>1, <1>5, <2>3
<1>7. Undoes(drvbus_exit, {"text"})
  BY Tuples DEF Undoes, WithParts, Embedded, drvbus_exit
<1>8. "bus" \in Given(mydrvbus)
  BY <1>5, <1>6 DEF Given, Freed, WithParts, drvbus_exit
<1>9. Watched(mydrvbus, {"bus", "busdev"})
  <2>2. \A c \in mydrvbus.calls :
          \/ c.name = "bus" /\ c.when = {"bus"} /\ c.uses = {}
    BY DEF mydrvbus, Service
  <2>3. ASSUME NEW c \in mydrvbus.calls, c.name # "file"
        PROVE /\ \A u \in c.uses : \E w \in c.when \ {"file"} : ModRests(mydrvbus, w, u)
              /\ \E w \in c.when \ {"file"} :
                   w \notin {"bus", "busdev"}
                   \/ (c.name \in {"bus", "busdev"} /\ w \in Given(mydrvbus))
    BY <2>3, <2>2, <1>8
  <2> QED BY <1>5, <1>7, <2>3 DEF Watched
<1>11. Served("mydrvbus", mydrvbus, {"bus", "busdev"})
  BY <1>1, <1>5, <1>7 DEF Served, Names, Unowned, mydrvbus, Service
<1> QED BY <1>6, <1>9, <1>11 DEF InOrder

(* mychild: its functions meet the criteria of the order. *)
LEMMA mychild_orderly == InOrder("mychild", mychild, {})
<1> DEFINE N == {"child"}
<1>1. Names(child_init) = N
  BY DEF Names, child_init
<1>2. Earns(child_init, child_exit, {}, N)
  BY <1>1, SMTT(60) DEF Earns, Puts, Sure, Gone, Fails, WithParts, Embedded, child_init,
         child_exit
<1>4. \A r \in N : Needs(r) = {}
  BY DEF Needs
<1>5. /\ mychild.init = child_init /\ mychild.exit = child_exit /\ mychild.anchors = {}
      /\ mychild.probe = <<>> /\ mychild.remove = <<>>
  BY DEF mychild, Service
<1>6. Orderly(mychild, {}) /\ N \subseteq ModOnly(mychild) \ {"text"}
  <2>1. \A r \in Names(mychild.init) : \A n \in Needs(r) :
          /\ n \in Names(mychild.init) /\ Unwinds(mychild.init, mychild.exit, {}, r, n)
          /\ r = "node" \/ Rests(mychild.init, {}, r, n)
    BY <1>1, <1>4, <1>5
  <2>2. /\ {} \subseteq Names(mychild.init)
        /\ Earns(mychild.init, mychild.exit, {}, Names(mychild.init))
    BY <1>1, <1>2, <1>5
  <2>3. /\ Orderly(mychild, {})
        /\ Names(mychild.init) \subseteq ModOnly(mychild) \ {"text"}
    BY mychild_meets, <1>5, <2>1, <2>2, OrderlyService
  <2> QED BY <1>1, <1>5, <2>3
<1>7. Undoes(child_exit, {"text"})
  BY Tuples DEF Undoes, WithParts, Embedded, child_exit
<1>9. Watched(mychild, {})
  <2>2. ASSUME NEW c \in mychild.calls, c.name # "file"
        PROVE /\ \A u \in c.uses : \E w \in c.when \ {"file"} : ModRests(mychild, w, u)
              /\ \E w \in c.when \ {"file"} :
                   TRUE
    BY <2>2 DEF mychild, Service
  <2> QED BY <1>5, <1>7, <2>2 DEF Watched
<1>11. Served("mychild", mychild, {})
  BY <1>1, <1>5, <1>7 DEF Served, Names, Unowned, mychild, Service
<1> QED BY <1>6, <1>9, <1>11 DEF InOrder

HIDE DEF Devm, Chk, Get, Set, Put, Try, Drop, Opt, Require, Op, Call

(* What an operation before the k-th acquires for certain. *)
LEMMA SureAt ==
  ASSUME NEW s, NEW k, NEW j \in 1 .. (k - 1), s[j].op # "try", NEW r \in s[j].rs
  PROVE  r \in Sure(s, k)
  BY DEF Sure

(* Nothing that is released goes before anything else. *)
LEMMA UnwindsFree ==
  ASSUME NEW s, NEW fin, NEW H, NEW w, NEW u, u \notin Freed(fin),
         \A k \in DOMAIN s : Fails(s[k]) => u \notin Freed(s[k].undo)
  PROVE  Unwinds(s, fin, H, w, u)
  BY DEF Unwinds, Ordered, Freed

(* One that binds devices through its registration, and releases in order. *)
LEMMA OrderlyDriver ==
  ASSUME NEW T, T.anchors = {"driver"}, Tidy(T, {}),
         Earns(T.init, T.exit, {}, {"text", "class", "region", "bus", "driver"}),
         Earns(T.probe, T.remove, {}, Names(T.probe)),
         \A r \in Names(T.init) : Needs(r) = {},
         \A x \in Names(T.probe) : Unwinds(T.init, T.exit, {}, "driver", x),
         \A r \in Names(T.probe) : \A n \in Needs(r) :
           /\ n \in {"class", "region", "bus"}
           /\ Unwinds(T.init, T.exit, {}, "driver", n) /\ Rests(T.init, {}, "driver", n)
  PROVE  Orderly(T, {})
<1>1. ModOnly(T) = {"text", "class", "region", "bus", "driver"}
  BY DEF ModOnly, Kept
<1>2. Names(T.init) \cap Names(T.probe) = {}
  BY DEF Tidy
<1>3. Keystone(T, "driver")
  BY <1>1 DEF Keystone, ModOrders, ModRests
<1> QED BY <1>1, <1>2, <1>3 DEF Orderly

USE DEF Devm, Chk, Get, Set, Put, Try, Drop, Opt, Require, Op, Call

(* myalarm: its functions meet the criteria of the order. *)
LEMMA myalarm_orderly == InOrder("myalarm", myalarm, {})
<1> DEFINE K == {"text", "class", "region", "bus", "driver"}
           N == {"dev", "lock", "cdev", "node", "wq", "base", "irq", "line"}
<1>1. Names(myalarminit) = {"region", "class", "driver", "testdev"} /\ Names(alarm_probe) = N
  BY DEF Names, myalarminit, alarm_probe, alarm_undo
<1>2. Earns(myalarminit, myalarmexit, {}, K)
  <2>0. DOMAIN myalarminit = 1 .. 4 /\ Len(myalarminit) = 4
    BY DEF myalarminit
  <2>1. Puts(myalarminit[1].undo, ({} \union Sure(myalarminit, 1)) \cap K)
    BY DEF Puts, myalarminit
  <2>2. Puts(myalarminit[2].undo, ({} \union Sure(myalarminit, 2)) \cap K)
    <3>1. {"region"} \subseteq ({} \union Sure(myalarminit, 2)) \cap K
      <4>1. /\ 1 \in 1 .. (2 - 1) /\ myalarminit[1].op # "try" /\ myalarminit[1].rs = {"region"}
        BY DEF myalarminit
      <4> QED BY <4>1, SureAt
    <3>2. Puts(myalarminit[2].undo, {"region"})
      BY SMTT(60) DEF Puts, Gone, WithParts, Embedded, myalarminit
    <3> QED BY <3>1, <3>2, PutsMono
  <2>3. Puts(myalarminit[3].undo, ({} \union Sure(myalarminit, 3)) \cap K)
    <3>1. {"region", "class"} \subseteq ({} \union Sure(myalarminit, 3)) \cap K
      <4>1. /\ 1 \in 1 .. (3 - 1) /\ myalarminit[1].op # "try" /\ myalarminit[1].rs = {"region"}
            /\ 2 \in 1 .. (3 - 1) /\ myalarminit[2].op # "try" /\ myalarminit[2].rs = {"class"}
        BY DEF myalarminit
      <4> QED BY <4>1, SureAt
    <3>2. Puts(myalarminit[3].undo, {"region", "class"})
      BY SMTT(60) DEF Puts, Gone, WithParts, Embedded, myalarminit
    <3> QED BY <3>1, <3>2, PutsMono
  <2>5. Puts(myalarmexit, ({} \union Sure(myalarminit, 5)) \cap K)
    <3>1. {"region", "class", "driver"} \subseteq ({} \union Sure(myalarminit, 5)) \cap K
      <4>1. /\ 1 \in 1 .. (5 - 1) /\ myalarminit[1].op # "try" /\ myalarminit[1].rs = {"region"}
            /\ 2 \in 1 .. (5 - 1) /\ myalarminit[2].op # "try" /\ myalarminit[2].rs = {"class"}
            /\ 3 \in 1 .. (5 - 1) /\ myalarminit[3].op # "try" /\ myalarminit[3].rs = {"driver"}
        BY DEF myalarminit
      <4> QED BY <4>1, SureAt
    <3>2. Puts(myalarmexit, {"region", "class", "driver"})
      BY SMTT(60) DEF Puts, Gone, WithParts, Embedded, myalarmexit
    <3> QED BY <3>1, <3>2, PutsMono
  <2>6. ASSUME NEW k \in DOMAIN myalarminit
        PROVE /\ myalarminit[k].op # "opt"
              /\ Fails(myalarminit[k]) =>
                   Puts(myalarminit[k].undo, ({} \union Sure(myalarminit, k)) \cap K)
    <3>1. \A i \in 1 .. 4 : myalarminit[i].op # "opt"
      BY DEF myalarminit
    <3>2. ~ Fails(myalarminit[4])
      BY DEF Fails, myalarminit
    <3>3. k = 1 \/ k = 2 \/ k = 3 \/ k = 4
      BY <2>0
    <3> QED BY <2>0, <3>1, <3>2, <3>3, <2>1, <2>2, <2>3
  <2> QED BY <2>0, <2>5, <2>6 DEF Earns
<1>3. Earns(alarm_probe, alarm_remove, {}, N)
  <2>0. DOMAIN alarm_probe = 1 .. 10 /\ Len(alarm_probe) = 10
    BY DEF alarm_probe
  <2>1. Puts(alarm_probe[1].undo, ({} \union Sure(alarm_probe, 1)) \cap N)
    BY DEF Puts, alarm_probe
  <2>2. Puts(alarm_probe[2].undo, ({} \union Sure(alarm_probe, 2)) \cap N)
    BY DEF Puts, alarm_probe
  <2>4. Puts(alarm_probe[4].undo, ({} \union Sure(alarm_probe, 4)) \cap N)
    BY DEF Puts, alarm_probe
  <2>5. Puts(alarm_probe[5].undo, ({} \union Sure(alarm_probe, 5)) \cap N)
    <3>1. {"cdev"} \subseteq ({} \union Sure(alarm_probe, 5)) \cap N
      <4>1. /\ 4 \in 1 .. (5 - 1) /\ alarm_probe[4].op # "try" /\ alarm_probe[4].rs = {"cdev"}
        BY DEF alarm_probe
      <4> QED BY <4>1, SureAt
    <3>2. Puts(alarm_probe[5].undo, {"cdev"})
      BY SMTT(60) DEF Puts, Gone, WithParts, Embedded, alarm_probe, alarm_undo
    <3> QED BY <3>1, <3>2, PutsMono
  <2>7. Puts(alarm_probe[7].undo, ({} \union Sure(alarm_probe, 7)) \cap N)
    <3>1. {"cdev", "node"} \subseteq ({} \union Sure(alarm_probe, 7)) \cap N
      <4>1. /\ 4 \in 1 .. (7 - 1) /\ alarm_probe[4].op # "try" /\ alarm_probe[4].rs = {"cdev"}
            /\ 5 \in 1 .. (7 - 1) /\ alarm_probe[5].op # "try" /\ alarm_probe[5].rs = {"node"}
        BY DEF alarm_probe
      <4> QED BY <4>1, SureAt
    <3>2. Puts(alarm_probe[7].undo, {"cdev", "node"})
      BY SMTT(60) DEF Puts, Gone, WithParts, Embedded, alarm_probe, alarm_undo
    <3> QED BY <3>1, <3>2, PutsMono
  <2>8. Puts(alarm_probe[8].undo, ({} \union Sure(alarm_probe, 8)) \cap N)
    <3>1. {"cdev", "node"} \subseteq ({} \union Sure(alarm_probe, 8)) \cap N
      <4>1. /\ 4 \in 1 .. (8 - 1) /\ alarm_probe[4].op # "try" /\ alarm_probe[4].rs = {"cdev"}
            /\ 5 \in 1 .. (8 - 1) /\ alarm_probe[5].op # "try" /\ alarm_probe[5].rs = {"node"}
        BY DEF alarm_probe
      <4> QED BY <4>1, SureAt
    <3>2. Puts(alarm_probe[8].undo, {"cdev", "node"})
      BY SMTT(60) DEF Puts, Gone, WithParts, Embedded, alarm_probe, alarm_undo
    <3> QED BY <3>1, <3>2, PutsMono
  <2>9. Puts(alarm_probe[9].undo, ({} \union Sure(alarm_probe, 9)) \cap N)
    <3>1. {"cdev", "node"} \subseteq ({} \union Sure(alarm_probe, 9)) \cap N
      <4>1. /\ 4 \in 1 .. (9 - 1) /\ alarm_probe[4].op # "try" /\ alarm_probe[4].rs = {"cdev"}
            /\ 5 \in 1 .. (9 - 1) /\ alarm_probe[5].op # "try" /\ alarm_probe[5].rs = {"node"}
        BY DEF alarm_probe
      <4> QED BY <4>1, SureAt
    <3>2. Puts(alarm_probe[9].undo, {"cdev", "node"})
      BY SMTT(60) DEF Puts, Gone, WithParts, Embedded, alarm_probe, alarm_undo
    <3> QED BY <3>1, <3>2, PutsMono
  <2>11. Puts(alarm_remove, ({} \union Sure(alarm_probe, 11)) \cap N)
    <3>1. {"line", "cdev", "node"} \subseteq ({} \union Sure(alarm_probe, 11)) \cap N
      <4>1. /\ 4 \in 1 .. (11 - 1) /\ alarm_probe[4].op # "try" /\ alarm_probe[4].rs = {"cdev"}
            /\ 5 \in 1 .. (11 - 1) /\ alarm_probe[5].op # "try" /\ alarm_probe[5].rs = {"node"}
            /\ 10 \in 1 .. (11 - 1)
            /\ alarm_probe[10].op # "try"
            /\ alarm_probe[10].rs = {"line"}
        BY DEF alarm_probe
      <4> QED BY <4>1, SureAt
    <3>2. Puts(alarm_remove, {"line", "cdev", "node"})
      BY SMTT(60) DEF Puts, Gone, WithParts, Embedded, alarm_remove
    <3> QED BY <3>1, <3>2, PutsMono
  <2>12. ASSUME NEW k \in DOMAIN alarm_probe
        PROVE /\ alarm_probe[k].op # "opt"
              /\ Fails(alarm_probe[k]) =>
                   Puts(alarm_probe[k].undo, ({} \union Sure(alarm_probe, k)) \cap N)
    <3>1. \A i \in 1 .. 10 : alarm_probe[i].op # "opt"
      BY DEF alarm_probe
    <3>2. ~ Fails(alarm_probe[3]) /\ ~ Fails(alarm_probe[6]) /\ ~ Fails(alarm_probe[10])
      BY DEF Fails, alarm_probe
    <3>3. k = 1 \/ k = 2 \/ k = 3 \/ k = 4 \/ k = 5 \/ k = 6 \/ k = 7 \/ k = 8 \/ k = 9 \/ k = 10
      BY <2>0
    <3> QED BY <2>0, <3>1, <3>2, <3>3, <2>1, <2>2, <2>4, <2>5, <2>7, <2>8, <2>9
  <2> QED BY <2>0, <2>11, <2>12 DEF Earns
<1>4. \A x \in N \union {"class", "region"} : Unwinds(myalarminit, myalarmexit, {}, "driver", x)
  BY SMTT(60) DEF Unwinds, Ordered, Before, Fails, WithParts, Embedded, myalarminit, myalarmexit
<1>5. Rests(myalarminit, {}, "driver", "region") /\ Rests(myalarminit, {}, "driver", "class")
  BY SMTT(60) DEF Rests, Sure, myalarminit, myalarmexit
<1>6. /\ myalarm.init = myalarminit /\ myalarm.exit = myalarmexit
      /\ myalarm.probe = alarm_probe
      /\ myalarm.remove = alarm_remove
      /\ myalarm.anchors = {"driver"}
  BY DEF myalarm
<1>7. Orderly(myalarm, {})
  <2>1. \A r \in Names(myalarm.init) : Needs(r) = {}
    BY <1>1, <1>6 DEF Needs
  <2>2. \A x \in Names(myalarm.probe) : Unwinds(myalarm.init, myalarm.exit, {}, "driver", x)
    BY <1>1, <1>4, <1>6
  <2>3. \A r \in Names(myalarm.probe) : \A n \in Needs(r) :
          /\ n \in {"class", "region", "bus"}
          /\ Unwinds(myalarm.init, myalarm.exit, {}, "driver", n)
          /\ Rests(myalarm.init, {}, "driver", n)
    BY <1>1, <1>4, <1>5, <1>6 DEF Needs
  <2>4. /\ Earns(myalarm.init, myalarm.exit, {}, K)
        /\ Earns(myalarm.probe, myalarm.remove, {}, Names(myalarm.probe))
    BY <1>1, <1>2, <1>3, <1>6
  <2> QED BY myalarm_meets, <1>6, <2>1, <2>2, <2>3, <2>4, OrderlyDriver
<1>8. /\ DevRests(myalarm, {}, "cdev", "dev")
      /\ DevRests(myalarm, {}, "irq", "dev")
      /\ DevRests(myalarm, {}, "irq", "base")
      /\ DevRests(myalarm, {}, "irq", "lock")
      /\ DevRests(myalarm, {}, "irq", "wq")
  <2>a. ASSUME NEW k \in DOMAIN alarm_probe, Fails(alarm_probe[k])
        PROVE Freed(alarm_probe[k].undo) \subseteq {"cdev", "node"}
    <3>1. /\ Freed(alarm_probe[1].undo) = {} /\ Freed(alarm_probe[2].undo) = {}
          /\ Freed(alarm_probe[4].undo) = {}
      BY DEF Freed, alarm_probe
    <3>2. Freed(alarm_probe[5].undo) = {"cdev"}
      BY DEF Freed, WithParts, alarm_probe
    <3>3. Freed(alarm_probe[7].undo) = {"cdev", "node"}
      BY DEF Freed, WithParts, alarm_probe, alarm_undo
    <3>4. Freed(alarm_probe[8].undo) = {"cdev", "node"}
      BY DEF Freed, WithParts, alarm_probe, alarm_undo
    <3>5. Freed(alarm_probe[9].undo) = {"cdev", "node"}
      BY DEF Freed, WithParts, alarm_probe, alarm_undo
    <3>6. ~ Fails(alarm_probe[3]) /\ ~ Fails(alarm_probe[6]) /\ ~ Fails(alarm_probe[10])
      BY DEF Fails, alarm_probe
    <3>7. DOMAIN alarm_probe = 1 .. 10
      BY DEF alarm_probe
    <3>8. k = 1 \/ k = 2 \/ k = 3 \/ k = 4 \/ k = 5 \/ k = 6 \/ k = 7 \/ k = 8 \/ k = 9 \/ k = 10
      BY <3>7
    <3> QED BY <2>a, <3>1, <3>2, <3>3, <3>4, <3>5, <3>6, <3>8
  <2>b. Freed(alarm_remove) = {"line", "cdev", "node"}
    BY DEF Freed, WithParts, alarm_remove
  <2>1. /\ Unwinds(alarm_probe, alarm_remove, {}, "cdev", "dev")
        /\ Rests(alarm_probe, {}, "cdev", "dev")
        /\ Stacks(alarm_probe, {}, "cdev", "dev")
    <3>1. Unwinds(alarm_probe, alarm_remove, {}, "cdev", "dev")
      BY <2>a, <2>b, UnwindsFree
    <3>2. Rests(alarm_probe, {}, "cdev", "dev")
      BY SMTT(60) DEF Rests, Sure, alarm_probe
    <3>3. Stacks(alarm_probe, {}, "cdev", "dev")
      BY SMTT(60) DEF Stacks, Managed, WithParts, Embedded, alarm_probe
    <3> QED BY <3>1, <3>2, <3>3
  <2>2. /\ Unwinds(alarm_probe, alarm_remove, {}, "irq", "dev")
        /\ Rests(alarm_probe, {}, "irq", "dev")
        /\ Stacks(alarm_probe, {}, "irq", "dev")
    <3>1. Unwinds(alarm_probe, alarm_remove, {}, "irq", "dev")
      BY <2>a, <2>b, UnwindsFree
    <3>2. Rests(alarm_probe, {}, "irq", "dev")
      BY SMTT(60) DEF Rests, Sure, alarm_probe
    <3>3. Stacks(alarm_probe, {}, "irq", "dev")
      BY SMTT(60) DEF Stacks, Managed, WithParts, Embedded, alarm_probe
    <3> QED BY <3>1, <3>2, <3>3
  <2>3. /\ Unwinds(alarm_probe, alarm_remove, {}, "irq", "base")
        /\ Rests(alarm_probe, {}, "irq", "base")
        /\ Stacks(alarm_probe, {}, "irq", "base")
    <3>1. Unwinds(alarm_probe, alarm_remove, {}, "irq", "base")
      BY <2>a, <2>b, UnwindsFree
    <3>2. Rests(alarm_probe, {}, "irq", "base")
      BY SMTT(60) DEF Rests, Sure, alarm_probe
    <3>3. Stacks(alarm_probe, {}, "irq", "base")
      BY SMTT(60) DEF Stacks, Managed, WithParts, Embedded, alarm_probe
    <3> QED BY <3>1, <3>2, <3>3
  <2>4. /\ Unwinds(alarm_probe, alarm_remove, {}, "irq", "lock")
        /\ Rests(alarm_probe, {}, "irq", "lock")
        /\ Stacks(alarm_probe, {}, "irq", "lock")
    <3>1. Unwinds(alarm_probe, alarm_remove, {}, "irq", "lock")
      BY <2>a, <2>b, UnwindsFree
    <3>2. Rests(alarm_probe, {}, "irq", "lock")
      BY SMTT(60) DEF Rests, Sure, alarm_probe
    <3>3. Stacks(alarm_probe, {}, "irq", "lock")
      BY SMTT(60) DEF Stacks, Managed, WithParts, Embedded, alarm_probe
    <3> QED BY <3>1, <3>2, <3>3
  <2>5. /\ Unwinds(alarm_probe, alarm_remove, {}, "irq", "wq")
        /\ Rests(alarm_probe, {}, "irq", "wq")
        /\ Stacks(alarm_probe, {}, "irq", "wq")
    <3>1. Unwinds(alarm_probe, alarm_remove, {}, "irq", "wq")
      BY <2>a, <2>b, UnwindsFree
    <3>2. Rests(alarm_probe, {}, "irq", "wq")
      BY SMTT(60) DEF Rests, Sure, alarm_probe
    <3>3. Stacks(alarm_probe, {}, "irq", "wq")
      BY SMTT(60) DEF Stacks, Managed, WithParts, Embedded, alarm_probe
    <3> QED BY <3>1, <3>2, <3>3
  <2> QED BY <1>1, <1>6, <2>1, <2>2, <2>3, <2>4, <2>5 DEF DevRests, DevOrders
<1>9. Undoes(myalarmexit, {"text"})
  BY Tuples DEF Undoes, WithParts, Embedded, myalarmexit
<1>10. Watched(myalarm, {})
  <2>1. ASSUME NEW c \in myalarm.calls, c.name # "file"
        PROVE /\ \A u \in c.uses : \E w \in c.when \ {"file"} : DevRests(myalarm, {}, w, u)
              /\ \E w \in c.when \ {"file"} : TRUE
    BY <2>1, <1>8 DEF myalarm
  <2> QED BY <1>6, <1>9, <2>1 DEF Watched
<1>11. Served("myalarm", myalarm, {})
  <2>1. OnDevice(myalarm, {})
    BY <1>8 DEF OnDevice, myalarm
  <2>2. ASSUME NEW c \in myalarm.calls, c.name = "file" PROVE "file" \in c.when
    BY <2>2 DEF myalarm
  <2> QED BY <1>1, <1>6, <1>9, <2>1, <2>2 DEF Served, Unowned, EarlyEntry, Outlived
<1> QED BY <1>7, <1>10, <1>11 DEF InOrder

(* mybell: its functions meet the criteria of the order. *)
LEMMA mybell_orderly == InOrder("mybell", mybell, {})
<1> DEFINE K == {"text", "class", "region", "bus", "driver"}
           N == {"dev", "base", "irq", "line"}
<1>1. Names(mybell_init) = {"driver"} /\ Names(mybell_probe) = N
  BY DEF Names, mybell_init, mybell_probe
<1>2. Earns(mybell_init, mybell_exit, {}, K)
  BY SMTT(60) DEF Earns, Puts, Sure, Gone, Fails, WithParts, Embedded, mybell_init, mybell_exit
<1>3. Earns(mybell_probe, mybell_remove, {}, N)
  BY SMTT(60) DEF Earns, Puts, Sure, Gone, Fails, WithParts, Embedded, mybell_probe,
         mybell_remove
<1>4. \A x \in N : Unwinds(mybell_init, mybell_exit, {}, "driver", x)
  BY SMTT(60) DEF Unwinds, Ordered, Before, Fails, WithParts, Embedded, mybell_init, mybell_exit
<1>6. /\ mybell.init = mybell_init /\ mybell.exit = mybell_exit
      /\ mybell.probe = mybell_probe
      /\ mybell.remove = mybell_remove
      /\ mybell.anchors = {"driver"}
  BY DEF mybell
<1>7. Orderly(mybell, {})
  <2>1. \A r \in Names(mybell.init) : Needs(r) = {}
    BY <1>1, <1>6 DEF Needs
  <2>2. \A x \in Names(mybell.probe) : Unwinds(mybell.init, mybell.exit, {}, "driver", x)
    BY <1>1, <1>4, <1>6
  <2>3. \A r \in Names(mybell.probe) : \A n \in Needs(r) :
          /\ n \in {"class", "region", "bus"}
          /\ Unwinds(mybell.init, mybell.exit, {}, "driver", n)
          /\ Rests(mybell.init, {}, "driver", n)
    BY <1>1, <1>4, <1>6 DEF Needs
  <2>4. /\ Earns(mybell.init, mybell.exit, {}, K)
        /\ Earns(mybell.probe, mybell.remove, {}, Names(mybell.probe))
    BY <1>1, <1>2, <1>3, <1>6
  <2> QED BY mybell_meets, <1>6, <2>1, <2>2, <2>3, <2>4, OrderlyDriver
<1>8. /\ DevRests(mybell, {}, "irq", "dev")
      /\ DevRests(mybell, {}, "irq", "base")
  <2>1. /\ Unwinds(mybell_probe, mybell_remove, {}, "irq", "dev")
        /\ Rests(mybell_probe, {}, "irq", "dev")
        /\ Stacks(mybell_probe, {}, "irq", "dev")
    <3>1. Unwinds(mybell_probe, mybell_remove, {}, "irq", "dev")
      BY SMTT(60) DEF Unwinds, Ordered, Before, Fails, WithParts, Embedded, mybell_probe,
             mybell_remove
    <3>2. Rests(mybell_probe, {}, "irq", "dev")
      BY SMTT(60) DEF Rests, Sure, mybell_probe
    <3>3. Stacks(mybell_probe, {}, "irq", "dev")
      BY SMTT(60) DEF Stacks, Managed, WithParts, Embedded, mybell_probe
    <3> QED BY <3>1, <3>2, <3>3
  <2>2. /\ Unwinds(mybell_probe, mybell_remove, {}, "irq", "base")
        /\ Rests(mybell_probe, {}, "irq", "base")
        /\ Stacks(mybell_probe, {}, "irq", "base")
    <3>1. Unwinds(mybell_probe, mybell_remove, {}, "irq", "base")
      BY SMTT(60) DEF Unwinds, Ordered, Before, Fails, WithParts, Embedded, mybell_probe,
             mybell_remove
    <3>2. Rests(mybell_probe, {}, "irq", "base")
      BY SMTT(60) DEF Rests, Sure, mybell_probe
    <3>3. Stacks(mybell_probe, {}, "irq", "base")
      BY SMTT(60) DEF Stacks, Managed, WithParts, Embedded, mybell_probe
    <3> QED BY <3>1, <3>2, <3>3
  <2> QED BY <1>1, <1>6, <2>1, <2>2 DEF DevRests, DevOrders
<1>9. Undoes(mybell_exit, {"text"})
  BY Tuples DEF Undoes, WithParts, Embedded, mybell_exit
<1>10. Watched(mybell, {})
  <2>1. ASSUME NEW c \in mybell.calls, c.name # "file"
        PROVE /\ \A u \in c.uses : \E w \in c.when \ {"file"} : DevRests(mybell, {}, w, u)
              /\ \E w \in c.when \ {"file"} : TRUE
    BY <2>1, <1>8 DEF mybell
  <2> QED BY <1>6, <1>9, <2>1 DEF Watched
<1>11. Served("mybell", mybell, {})
  <2>1. \A c \in mybell.calls : c.name # "file"
    BY DEF mybell
  <2> QED BY <1>1, <1>6, <1>9, <2>1 DEF Served
<1> QED BY <1>7, <1>10, <1>11 DEF InOrder

(* myspidrv: its functions meet the criteria of the order. *)
LEMMA myspidrv_orderly == InOrder("myspidrv", myspidrv, {})
<1> DEFINE K == {"text", "class", "region", "bus", "driver"}
           N == {}
<1>1. Names(<<Get({"driver"}, <<>>)>>) = {"driver"} /\ Names(spi_device_probe) = N
  BY DEF Names, spi_device_probe
<1>2. Earns(<<Get({"driver"}, <<>>)>>, <<Put({"driver"})>>, {}, K)
  BY SMTT(60) DEF Earns, Puts, Sure, Gone, Fails, WithParts, Embedded
<1>3. Earns(spi_device_probe, <<>>, {}, N)
  BY SMTT(60) DEF Earns, Puts, Sure, Gone, Fails, WithParts, Embedded, spi_device_probe
<1>4. \A x \in N : Unwinds(<<Get({"driver"}, <<>>)>>, <<Put({"driver"})>>, {}, "driver", x)
  BY SMTT(60) DEF Unwinds, Ordered, Before, Fails, WithParts, Embedded
<1>6. /\ myspidrv.init = <<Get({"driver"}, <<>>)>> /\ myspidrv.exit = <<Put({"driver"})>>
      /\ myspidrv.probe = spi_device_probe
      /\ myspidrv.remove = <<>>
      /\ myspidrv.anchors = {"driver"}
  BY DEF myspidrv
<1>7. Orderly(myspidrv, {})
  <2>1. \A r \in Names(myspidrv.init) : Needs(r) = {}
    BY <1>1, <1>6 DEF Needs
  <2>2. \A x \in Names(myspidrv.probe) : Unwinds(myspidrv.init, myspidrv.exit, {}, "driver", x)
    BY <1>1, <1>4, <1>6
  <2>3. \A r \in Names(myspidrv.probe) : \A n \in Needs(r) :
          /\ n \in {"class", "region", "bus"}
          /\ Unwinds(myspidrv.init, myspidrv.exit, {}, "driver", n)
          /\ Rests(myspidrv.init, {}, "driver", n)
    BY <1>1, <1>4, <1>6 DEF Needs
  <2>4. /\ Earns(myspidrv.init, myspidrv.exit, {}, K)
        /\ Earns(myspidrv.probe, myspidrv.remove, {}, Names(myspidrv.probe))
    BY <1>1, <1>2, <1>3, <1>6
  <2> QED BY myspidrv_meets, <1>6, <2>1, <2>2, <2>3, <2>4, OrderlyDriver
<1>9. Undoes(<<Put({"driver"})>>, {"text"})
  BY Tuples DEF Undoes, WithParts, Embedded
<1>10. Watched(myspidrv, {})
  <2>1. ASSUME NEW c \in myspidrv.calls, c.name # "file"
        PROVE /\ \A u \in c.uses : \E w \in c.when \ {"file"} : DevRests(myspidrv, {}, w, u)
              /\ \E w \in c.when \ {"file"} : TRUE
    BY <2>1 DEF myspidrv
  <2> QED BY <1>6, <1>9, <2>1 DEF Watched
<1>11. Served("myspidrv", myspidrv, {})
  <2>1. \A c \in myspidrv.calls : c.name # "file"
    BY DEF myspidrv
  <2> QED BY <1>1, <1>6, <1>9, <2>1 DEF Served
<1> QED BY <1>7, <1>10, <1>11 DEF InOrder

(* mydma: its functions meet the criteria of the order. *)
LEMMA mydma_orderly == InOrder("mydma", mydma, {})
<1> DEFINE K == {"text", "class", "region", "bus", "driver"}
           N == {"dev", "pci", "buffer", "netdev"}
<1>1. Names(<<Get({"driver"}, <<>>)>>) = {"driver"} /\ Names(dma_nic_probe) = N
  BY DEF Names, dma_nic_probe
<1>2. Earns(<<Get({"driver"}, <<>>)>>, <<Put({"driver"})>>, {}, K)
  BY SMTT(60) DEF Earns, Puts, Sure, Gone, Fails, WithParts, Embedded
<1>3. Earns(dma_nic_probe, dma_nic_remove, {}, N)
  <2>0. DOMAIN dma_nic_probe = 1 .. 5 /\ Len(dma_nic_probe) = 5
    BY DEF dma_nic_probe
  <2>1. Puts(dma_nic_probe[1].undo, ({} \union Sure(dma_nic_probe, 1)) \cap N)
    BY DEF Puts, dma_nic_probe
  <2>2. Puts(dma_nic_probe[2].undo, ({} \union Sure(dma_nic_probe, 2)) \cap N)
    <3>1. {"dev"} \subseteq ({} \union Sure(dma_nic_probe, 2)) \cap N
      <4>1. /\ 1 \in 1 .. (2 - 1)
            /\ dma_nic_probe[1].op # "try"
            /\ dma_nic_probe[1].rs = {"dev"}
        BY DEF dma_nic_probe
      <4> QED BY <4>1, SureAt
    <3>2. Puts(dma_nic_probe[2].undo, {"dev"})
      BY SMTT(60) DEF Puts, Gone, WithParts, Embedded, dma_nic_probe
    <3> QED BY <3>1, <3>2, PutsMono
  <2>3. Puts(dma_nic_probe[3].undo, ({} \union Sure(dma_nic_probe, 3)) \cap N)
    <3>1. {"dev", "pci"} \subseteq ({} \union Sure(dma_nic_probe, 3)) \cap N
      <4>1. /\ 1 \in 1 .. (3 - 1)
            /\ dma_nic_probe[1].op # "try"
            /\ dma_nic_probe[1].rs = {"dev"}
            /\ 2 \in 1 .. (3 - 1)
            /\ dma_nic_probe[2].op # "try"
            /\ dma_nic_probe[2].rs = {"pci"}
        BY DEF dma_nic_probe
      <4> QED BY <4>1, SureAt
    <3>2. Puts(dma_nic_probe[3].undo, {"dev", "pci"})
      BY SMTT(60) DEF Puts, Gone, WithParts, Embedded, dma_nic_probe
    <3> QED BY <3>1, <3>2, PutsMono
  <2>4. Puts(dma_nic_probe[4].undo, ({} \union Sure(dma_nic_probe, 4)) \cap N)
    <3>1. {"dev", "pci"} \subseteq ({} \union Sure(dma_nic_probe, 4)) \cap N
      <4>1. /\ 1 \in 1 .. (4 - 1)
            /\ dma_nic_probe[1].op # "try"
            /\ dma_nic_probe[1].rs = {"dev"}
            /\ 2 \in 1 .. (4 - 1)
            /\ dma_nic_probe[2].op # "try"
            /\ dma_nic_probe[2].rs = {"pci"}
        BY DEF dma_nic_probe
      <4> QED BY <4>1, SureAt
    <3>2. Puts(dma_nic_probe[4].undo, {"dev", "pci"})
      BY SMTT(60) DEF Puts, Gone, WithParts, Embedded, dma_nic_probe
    <3> QED BY <3>1, <3>2, PutsMono
  <2>5. Puts(dma_nic_probe[5].undo, ({} \union Sure(dma_nic_probe, 5)) \cap N)
    <3>1. {"dev", "pci", "buffer"} \subseteq ({} \union Sure(dma_nic_probe, 5)) \cap N
      <4>1. /\ 1 \in 1 .. (5 - 1)
            /\ dma_nic_probe[1].op # "try"
            /\ dma_nic_probe[1].rs = {"dev"}
            /\ 2 \in 1 .. (5 - 1)
            /\ dma_nic_probe[2].op # "try"
            /\ dma_nic_probe[2].rs = {"pci"}
            /\ 4 \in 1 .. (5 - 1)
            /\ dma_nic_probe[4].op # "try"
            /\ dma_nic_probe[4].rs = {"buffer"}
        BY DEF dma_nic_probe
      <4> QED BY <4>1, SureAt
    <3>2. Puts(dma_nic_probe[5].undo, {"dev", "pci", "buffer"})
      BY SMTT(60) DEF Puts, Gone, WithParts, Embedded, dma_nic_probe
    <3> QED BY <3>1, <3>2, PutsMono
  <2>6. Puts(dma_nic_remove, ({} \union Sure(dma_nic_probe, 6)) \cap N)
    <3>1. {"dev", "pci", "buffer", "netdev"} \subseteq ({} \union Sure(dma_nic_probe, 6)) \cap N
      <4>1. /\ 1 \in 1 .. (6 - 1)
            /\ dma_nic_probe[1].op # "try"
            /\ dma_nic_probe[1].rs = {"dev"}
            /\ 2 \in 1 .. (6 - 1)
            /\ dma_nic_probe[2].op # "try"
            /\ dma_nic_probe[2].rs = {"pci"}
            /\ 4 \in 1 .. (6 - 1)
            /\ dma_nic_probe[4].op # "try"
            /\ dma_nic_probe[4].rs = {"buffer"}
            /\ 5 \in 1 .. (6 - 1)
            /\ dma_nic_probe[5].op # "try"
            /\ dma_nic_probe[5].rs = {"netdev"}
        BY DEF dma_nic_probe
      <4> QED BY <4>1, SureAt
    <3>2. Puts(dma_nic_remove, {"dev", "pci", "buffer", "netdev"})
      BY SMTT(60) DEF Puts, Gone, WithParts, Embedded, dma_nic_remove
    <3> QED BY <3>1, <3>2, PutsMono
  <2>7. ASSUME NEW k \in DOMAIN dma_nic_probe
        PROVE /\ dma_nic_probe[k].op # "opt"
              /\ Fails(dma_nic_probe[k]) =>
                   Puts(dma_nic_probe[k].undo, ({} \union Sure(dma_nic_probe, k)) \cap N)
    <3>1. \A i \in 1 .. 5 : dma_nic_probe[i].op # "opt"
      BY DEF dma_nic_probe
    <3>3. k = 1 \/ k = 2 \/ k = 3 \/ k = 4 \/ k = 5
      BY <2>0
    <3> QED BY <2>0, <3>1, <3>3, <2>1, <2>2, <2>3, <2>4, <2>5
  <2> QED BY <2>0, <2>6, <2>7 DEF Earns
<1>4. \A x \in N : Unwinds(<<Get({"driver"}, <<>>)>>, <<Put({"driver"})>>, {}, "driver", x)
  BY SMTT(60) DEF Unwinds, Ordered, Before, Fails, WithParts, Embedded
<1>6. /\ mydma.init = <<Get({"driver"}, <<>>)>> /\ mydma.exit = <<Put({"driver"})>>
      /\ mydma.probe = dma_nic_probe
      /\ mydma.remove = dma_nic_remove
      /\ mydma.anchors = {"driver"}
  BY DEF mydma
<1>7. Orderly(mydma, {})
  <2>1. \A r \in Names(mydma.init) : Needs(r) = {}
    BY <1>1, <1>6 DEF Needs
  <2>2. \A x \in Names(mydma.probe) : Unwinds(mydma.init, mydma.exit, {}, "driver", x)
    BY <1>1, <1>4, <1>6
  <2>3. \A r \in Names(mydma.probe) : \A n \in Needs(r) :
          /\ n \in {"class", "region", "bus"}
          /\ Unwinds(mydma.init, mydma.exit, {}, "driver", n)
          /\ Rests(mydma.init, {}, "driver", n)
    BY <1>1, <1>4, <1>6 DEF Needs
  <2>4. /\ Earns(mydma.init, mydma.exit, {}, K)
        /\ Earns(mydma.probe, mydma.remove, {}, Names(mydma.probe))
    BY <1>1, <1>2, <1>3, <1>6
  <2> QED BY mydma_meets, <1>6, <2>1, <2>2, <2>3, <2>4, OrderlyDriver
<1>9. Undoes(<<Put({"driver"})>>, {"text"})
  BY Tuples DEF Undoes, WithParts, Embedded
<1>10. Watched(mydma, {})
  <2>1. ASSUME NEW c \in mydma.calls, c.name # "file"
        PROVE /\ \A u \in c.uses : \E w \in c.when \ {"file"} : DevRests(mydma, {}, w, u)
              /\ \E w \in c.when \ {"file"} : TRUE
    BY <2>1 DEF mydma
  <2> QED BY <1>6, <1>9, <2>1 DEF Watched
<1>11. Served("mydma", mydma, {})
  <2>1. \A c \in mydma.calls : c.name # "file"
    BY DEF mydma
  <2> QED BY <1>1, <1>6, <1>9, <2>1 DEF Served
<1> QED BY <1>7, <1>10, <1>11 DEF InOrder

(* mynetcard: its functions meet the criteria of the order. *)
LEMMA mynetcard_orderly == InOrder("mynetcard", mynetcard, {})
<1> DEFINE K == {"text", "class", "region", "bus", "driver"}
           N == {"pci", "netdev", "interface"}
<1>1. Names(<<Get({"driver"}, <<>>)>>) = {"driver"} /\ Names(my_probe) = N
  BY DEF Names, my_probe
<1>2. Earns(<<Get({"driver"}, <<>>)>>, <<Put({"driver"})>>, {}, K)
  BY SMTT(60) DEF Earns, Puts, Sure, Gone, Fails, WithParts, Embedded
<1>3. Earns(my_probe, my_remove, {}, N)
  BY SMTT(60) DEF Earns, Puts, Sure, Gone, Fails, WithParts, Embedded, my_probe, my_remove
<1>4. \A x \in N : Unwinds(<<Get({"driver"}, <<>>)>>, <<Put({"driver"})>>, {}, "driver", x)
  BY SMTT(60) DEF Unwinds, Ordered, Before, Fails, WithParts, Embedded
<1>6. /\ mynetcard.init = <<Get({"driver"}, <<>>)>> /\ mynetcard.exit = <<Put({"driver"})>>
      /\ mynetcard.probe = my_probe
      /\ mynetcard.remove = my_remove
      /\ mynetcard.anchors = {"driver"}
  BY DEF mynetcard
<1>7. Orderly(mynetcard, {})
  <2>1. \A r \in Names(mynetcard.init) : Needs(r) = {}
    BY <1>1, <1>6 DEF Needs
  <2>2. \A x \in Names(mynetcard.probe) : Unwinds(mynetcard.init, mynetcard.exit, {}, "driver", x)
    BY <1>1, <1>4, <1>6
  <2>3. \A r \in Names(mynetcard.probe) : \A n \in Needs(r) :
          /\ n \in {"class", "region", "bus"}
          /\ Unwinds(mynetcard.init, mynetcard.exit, {}, "driver", n)
          /\ Rests(mynetcard.init, {}, "driver", n)
    BY <1>1, <1>4, <1>6 DEF Needs
  <2>4. /\ Earns(mynetcard.init, mynetcard.exit, {}, K)
        /\ Earns(mynetcard.probe, mynetcard.remove, {}, Names(mynetcard.probe))
    BY <1>1, <1>2, <1>3, <1>6
  <2> QED BY mynetcard_meets, <1>6, <2>1, <2>2, <2>3, <2>4, OrderlyDriver
<1>8. /\ DevRests(mynetcard, {}, "interface", "netdev")
      /\ DevRests(mynetcard, {}, "interface", "pci")
  <2>1. /\ Unwinds(my_probe, my_remove, {}, "interface", "netdev")
        /\ Rests(my_probe, {}, "interface", "netdev")
        /\ Stacks(my_probe, {}, "interface", "netdev")
    <3>1. Unwinds(my_probe, my_remove, {}, "interface", "netdev")
      BY SMTT(60) DEF Unwinds, Ordered, Before, Fails, WithParts, Embedded, my_probe, my_remove
    <3>2. Rests(my_probe, {}, "interface", "netdev")
      BY SMTT(60) DEF Rests, Sure, my_probe
    <3>3. Stacks(my_probe, {}, "interface", "netdev")
      BY SMTT(60) DEF Stacks, Managed, WithParts, Embedded, my_probe
    <3> QED BY <3>1, <3>2, <3>3
  <2>2. /\ Unwinds(my_probe, my_remove, {}, "interface", "pci")
        /\ Rests(my_probe, {}, "interface", "pci")
        /\ Stacks(my_probe, {}, "interface", "pci")
    <3>1. Unwinds(my_probe, my_remove, {}, "interface", "pci")
      BY SMTT(60) DEF Unwinds, Ordered, Before, Fails, WithParts, Embedded, my_probe, my_remove
    <3>2. Rests(my_probe, {}, "interface", "pci")
      BY SMTT(60) DEF Rests, Sure, my_probe
    <3>3. Stacks(my_probe, {}, "interface", "pci")
      BY SMTT(60) DEF Stacks, Managed, WithParts, Embedded, my_probe
    <3> QED BY <3>1, <3>2, <3>3
  <2> QED BY <1>1, <1>6, <2>1, <2>2 DEF DevRests, DevOrders
<1>9. Undoes(<<Put({"driver"})>>, {"text"})
  BY Tuples DEF Undoes, WithParts, Embedded
<1>10. Watched(mynetcard, {})
  <2>1. ASSUME NEW c \in mynetcard.calls, c.name # "file"
        PROVE /\ \A u \in c.uses : \E w \in c.when \ {"file"} : DevRests(mynetcard, {}, w, u)
              /\ \E w \in c.when \ {"file"} : TRUE
    BY <2>1, <1>8 DEF mynetcard
  <2> QED BY <1>6, <1>9, <2>1 DEF Watched
<1>11. Served("mynetcard", mynetcard, {})
  <2>1. \A c \in mynetcard.calls : c.name # "file"
    BY DEF mynetcard
  <2> QED BY <1>1, <1>6, <1>9, <2>1 DEF Served
<1> QED BY <1>7, <1>10, <1>11 DEF InOrder

(* mypci: its functions meet the criteria of the order. *)
LEMMA mypci_orderly == InOrder("mypci", mypci, {})
<1> DEFINE K == {"text", "class", "region", "bus", "driver"}
           N == {"dev", "pci"}
<1>1. Names(<<Get({"driver"}, <<>>)>>) = {"driver"} /\ Names(simple_pci_probe) = N
  BY DEF Names, simple_pci_probe
<1>2. Earns(<<Get({"driver"}, <<>>)>>, <<Put({"driver"})>>, {}, K)
  BY SMTT(60) DEF Earns, Puts, Sure, Gone, Fails, WithParts, Embedded
<1>3. Earns(simple_pci_probe, simple_pci_remove, {}, N)
  BY SMTT(60) DEF Earns, Puts, Sure, Gone, Fails, WithParts, Embedded, simple_pci_probe,
         simple_pci_remove
<1>4. \A x \in N : Unwinds(<<Get({"driver"}, <<>>)>>, <<Put({"driver"})>>, {}, "driver", x)
  BY SMTT(60) DEF Unwinds, Ordered, Before, Fails, WithParts, Embedded
<1>6. /\ mypci.init = <<Get({"driver"}, <<>>)>> /\ mypci.exit = <<Put({"driver"})>>
      /\ mypci.probe = simple_pci_probe
      /\ mypci.remove = simple_pci_remove
      /\ mypci.anchors = {"driver"}
  BY DEF mypci
<1>7. Orderly(mypci, {})
  <2>1. \A r \in Names(mypci.init) : Needs(r) = {}
    BY <1>1, <1>6 DEF Needs
  <2>2. \A x \in Names(mypci.probe) : Unwinds(mypci.init, mypci.exit, {}, "driver", x)
    BY <1>1, <1>4, <1>6
  <2>3. \A r \in Names(mypci.probe) : \A n \in Needs(r) :
          /\ n \in {"class", "region", "bus"}
          /\ Unwinds(mypci.init, mypci.exit, {}, "driver", n)
          /\ Rests(mypci.init, {}, "driver", n)
    BY <1>1, <1>4, <1>6 DEF Needs
  <2>4. /\ Earns(mypci.init, mypci.exit, {}, K)
        /\ Earns(mypci.probe, mypci.remove, {}, Names(mypci.probe))
    BY <1>1, <1>2, <1>3, <1>6
  <2> QED BY mypci_meets, <1>6, <2>1, <2>2, <2>3, <2>4, OrderlyDriver
<1>9. Undoes(<<Put({"driver"})>>, {"text"})
  BY Tuples DEF Undoes, WithParts, Embedded
<1>10. Watched(mypci, {})
  <2>1. ASSUME NEW c \in mypci.calls, c.name # "file"
        PROVE /\ \A u \in c.uses : \E w \in c.when \ {"file"} : DevRests(mypci, {}, w, u)
              /\ \E w \in c.when \ {"file"} : TRUE
    BY <2>1 DEF mypci
  <2> QED BY <1>6, <1>9, <2>1 DEF Watched
<1>11. Served("mypci", mypci, {})
  <2>1. \A c \in mypci.calls : c.name # "file"
    BY DEF mypci
  <2> QED BY <1>1, <1>6, <1>9, <2>1 DEF Served
<1> QED BY <1>7, <1>10, <1>11 DEF InOrder

HIDE DEF Devm, Chk, Get, Set, Put, Try, Drop, Opt, Require, Op, Call

-----------------------------------------------------------------------------
(* The criteria of each of these drivers, by its name in the table. *)
LEMMA MetCriteria ==
  ASSUME Table = AllTables, d \in Met
  PROVE  Complete(Table[d]) /\ Tidy(Table[d], KnownLeaks)
<1>1. CASE d = "myalarm"
  <2>1. Table[d] = myalarm /\ KnownLeaks = {}
    BY <1>1 DEF AllTables, KnownLeaks
  <2> QED BY <2>1, myalarm_meets
<1>2. CASE d = "mybell"
  <2>1. Table[d] = mybell /\ KnownLeaks = {}
    BY <1>2 DEF AllTables, KnownLeaks
  <2> QED BY <2>1, mybell_meets
<1>3. CASE d = "myspidrv"
  <2>1. Table[d] = myspidrv /\ KnownLeaks = {}
    BY <1>3 DEF AllTables, KnownLeaks
  <2> QED BY <2>1, myspidrv_meets
<1>4. CASE d = "mydma"
  <2>1. Table[d] = mydma /\ KnownLeaks = {}
    BY <1>4 DEF AllTables, KnownLeaks
  <2> QED BY <2>1, mydma_meets
<1>5. CASE d = "mynetcard"
  <2>1. Table[d] = mynetcard /\ KnownLeaks = {}
    BY <1>5 DEF AllTables, KnownLeaks
  <2> QED BY <2>1, mynetcard_meets
<1>6. CASE d = "mypci"
  <2>1. Table[d] = mypci /\ KnownLeaks = {}
    BY <1>6 DEF AllTables, KnownLeaks
  <2> QED BY <2>1, mypci_meets
<1>7. CASE d = "charrw"
  <2>1. Table[d] = charrw /\ KnownLeaks = {"cdev", "node"}
    BY <1>7 DEF AllTables, KnownLeaks
  <2> QED BY <2>1, charrw_meets
<1>8. CASE d = "chardev"
  <2>1. Table[d] = chardev /\ KnownLeaks = {}
    BY <1>8 DEF AllTables, KnownLeaks
  <2> QED BY <2>1, chardev_meets
<1>9. CASE d = "charioctl"
  <2>1. Table[d] = charioctl /\ KnownLeaks = {}
    BY <1>9 DEF AllTables, KnownLeaks
  <2> QED BY <2>1, charioctl_meets
<1>10. CASE d = "procfs"
  <2>1. Table[d] = procfs /\ KnownLeaks = {"dir"}
    BY <1>10 DEF AllTables, KnownLeaks
  <2> QED BY <2>1, procfs_meets
<1>11. CASE d = "myserial"
  <2>1. Table[d] = myserial /\ KnownLeaks = {}
    BY <1>11 DEF AllTables, KnownLeaks
  <2> QED BY <2>1, myserial_meets
<1>12. CASE d = "nf_hook"
  <2>1. Table[d] = nf_hook /\ KnownLeaks = {}
    BY <1>12 DEF AllTables, KnownLeaks
  <2> QED BY <2>1, nf_hook_meets
<1>13. CASE d = "mykthread"
  <2>1. Table[d] = mykthread /\ KnownLeaks = {}
    BY <1>13 DEF AllTables, KnownLeaks
  <2> QED BY <2>1, mykthread_meets
<1>14. CASE d = "myworkqueue"
  <2>1. Table[d] = myworkqueue /\ KnownLeaks = {}
    BY <1>14 DEF AllTables, KnownLeaks
  <2> QED BY <2>1, myworkqueue_meets
<1>15. CASE d = "mybus"
  <2>1. Table[d] = mybus /\ KnownLeaks = {"bus", "descr"}
    BY <1>15 DEF AllTables, KnownLeaks
  <2> QED BY <2>1, mybus_meets
<1>16. CASE d = "mybusdev"
  <2>1. Table[d] = mybusdev /\ KnownLeaks = {"bus", "busdev"}
    BY <1>16 DEF AllTables, KnownLeaks
  <2> QED BY <2>1, mybusdev_meets
<1>17. CASE d = "mydrvbus"
  <2>1. Table[d] = mydrvbus /\ KnownLeaks = {"bus", "busdev"}
    BY <1>17 DEF AllTables, KnownLeaks
  <2> QED BY <2>1, mydrvbus_meets
<1>18. CASE d = "mychild"
  <2>1. Table[d] = mychild /\ KnownLeaks = {}
    BY <1>18 DEF AllTables, KnownLeaks
  <2> QED BY <2>1, mychild_meets
<1>19. CASE d = "mydrvchild"
  <2>1. Table[d] = mydrvchild /\ KnownLeaks = {"child"}
    BY <1>19 DEF AllTables, KnownLeaks
  <2> QED BY <2>1, mydrvchild_meets
<1>20. CASE d = "myclass"
  <2>1. Table[d] = myclass /\ KnownLeaks = {"class"}
    BY <1>20 DEF AllTables, KnownLeaks
  <2> QED BY <2>1, myclass_meets
<1> QED BY <1>1, <1>2, <1>3, <1>4, <1>5, <1>6, <1>7, <1>8, <1>9, <1>10, <1>11, <1>12, <1>13,
           <1>14, <1>15, <1>16, <1>17, <1>18, <1>19, <1>20 DEF Met

(* For these drivers of the repository, without any hypothesis on their    *)
(* functions: a bound device misses nothing, and nothing but what is       *)
(* listed is left behind as long as no class goes before its nodes.        *)
THEOREM RepositoryDrivers ==
  ASSUME Table = AllTables
  PROVE  Spec => [](d \in Met =>
                      BoundIsReady /\ ("class" \notin misused => NothingLeft))
<1>1. d \in Met => Complete(Table[d]) /\ Tidy(Table[d], KnownLeaks)
  BY MetCriteria
<1> QED BY <1>1, BoundReady, TidyLeavesNothing, PTL

(* Those of them that release in order: no misuse of theirs is known. *)
Sound == Met \ {"charrw", "mydrvchild", "myclass"}

(* The criteria of the order of each of these, by its name in the table. *)
LEMMA SoundCriteria ==
  ASSUME Table = AllTables, d \in Sound
  PROVE  InOrder(d, Table[d], KnownLeaks)
<1>1. CASE d = "myalarm"
  <2>1. Table[d] = myalarm /\ KnownLeaks = {}
    BY <1>1 DEF AllTables, KnownLeaks
  <2> QED BY <1>1, <2>1, myalarm_orderly
<1>2. CASE d = "mybell"
  <2>1. Table[d] = mybell /\ KnownLeaks = {}
    BY <1>2 DEF AllTables, KnownLeaks
  <2> QED BY <1>2, <2>1, mybell_orderly
<1>3. CASE d = "myspidrv"
  <2>1. Table[d] = myspidrv /\ KnownLeaks = {}
    BY <1>3 DEF AllTables, KnownLeaks
  <2> QED BY <1>3, <2>1, myspidrv_orderly
<1>4. CASE d = "mydma"
  <2>1. Table[d] = mydma /\ KnownLeaks = {}
    BY <1>4 DEF AllTables, KnownLeaks
  <2> QED BY <1>4, <2>1, mydma_orderly
<1>5. CASE d = "mynetcard"
  <2>1. Table[d] = mynetcard /\ KnownLeaks = {}
    BY <1>5 DEF AllTables, KnownLeaks
  <2> QED BY <1>5, <2>1, mynetcard_orderly
<1>6. CASE d = "mypci"
  <2>1. Table[d] = mypci /\ KnownLeaks = {}
    BY <1>6 DEF AllTables, KnownLeaks
  <2> QED BY <1>6, <2>1, mypci_orderly
<1>7. CASE d = "chardev"
  <2>1. Table[d] = chardev /\ KnownLeaks = {}
    BY <1>7 DEF AllTables, KnownLeaks
  <2> QED BY <1>7, <2>1, chardev_orderly
<1>8. CASE d = "charioctl"
  <2>1. Table[d] = charioctl /\ KnownLeaks = {}
    BY <1>8 DEF AllTables, KnownLeaks
  <2> QED BY <1>8, <2>1, charioctl_orderly
<1>9. CASE d = "procfs"
  <2>1. Table[d] = procfs /\ KnownLeaks = {"dir"}
    BY <1>9 DEF AllTables, KnownLeaks
  <2> QED BY <1>9, <2>1, procfs_orderly
<1>10. CASE d = "myserial"
  <2>1. Table[d] = myserial /\ KnownLeaks = {}
    BY <1>10 DEF AllTables, KnownLeaks
  <2> QED BY <1>10, <2>1, myserial_orderly
<1>11. CASE d = "nf_hook"
  <2>1. Table[d] = nf_hook /\ KnownLeaks = {}
    BY <1>11 DEF AllTables, KnownLeaks
  <2> QED BY <1>11, <2>1, nf_hook_orderly
<1>12. CASE d = "mykthread"
  <2>1. Table[d] = mykthread /\ KnownLeaks = {}
    BY <1>12 DEF AllTables, KnownLeaks
  <2> QED BY <1>12, <2>1, mykthread_orderly
<1>13. CASE d = "myworkqueue"
  <2>1. Table[d] = myworkqueue /\ KnownLeaks = {}
    BY <1>13 DEF AllTables, KnownLeaks
  <2> QED BY <1>13, <2>1, myworkqueue_orderly
<1>14. CASE d = "mybus"
  <2>1. Table[d] = mybus /\ KnownLeaks = {"bus", "descr"}
    BY <1>14 DEF AllTables, KnownLeaks
  <2> QED BY <1>14, <2>1, mybus_orderly
<1>15. CASE d = "mybusdev"
  <2>1. Table[d] = mybusdev /\ KnownLeaks = {"bus", "busdev"}
    BY <1>15 DEF AllTables, KnownLeaks
  <2> QED BY <1>15, <2>1, mybusdev_orderly
<1>16. CASE d = "mydrvbus"
  <2>1. Table[d] = mydrvbus /\ KnownLeaks = {"bus", "busdev"}
    BY <1>16 DEF AllTables, KnownLeaks
  <2> QED BY <1>16, <2>1, mydrvbus_orderly
<1>17. CASE d = "mychild"
  <2>1. Table[d] = mychild /\ KnownLeaks = {}
    BY <1>17 DEF AllTables, KnownLeaks
  <2> QED BY <1>17, <2>1, mychild_orderly
<1> QED BY <1>1, <1>2, <1>3, <1>4, <1>5, <1>6, <1>7, <1>8, <1>9, <1>10, <1>11, <1>12, <1>13,
           <1>14, <1>15, <1>16, <1>17 DEF Sound, Met

(* For these drivers of the repository, without any hypothesis on their    *)
(* functions, whichever allocation or registration fails and whenever the  *)
(* device or a file comes and goes: nothing is misused, nothing is left    *)
(* but what is listed, nothing is released before what rests on it, and no *)
(* callback and no file finds what it uses missing.                        *)
THEOREM RepositoryOrder ==
  ASSUME Table = AllTables
  PROVE  Spec => [](d \in Sound =>
                      /\ misused = {} /\ BoundIsReady /\ NothingLeft
                      /\ ReleaseInOrder /\ CallbacksReady /\ FilesReady)
<1>1. d \in Sound => /\ Complete(Table[d]) /\ Orderly(Table[d], KnownLeaks)
                     /\ Watched(Table[d], KnownLeaks) /\ Served(d, Table[d], KnownLeaks)
  BY MetCriteria, SoundCriteria DEF Sound, InOrder
<1> QED BY <1>1, BoundReady, OrderlyReleases, CallbacksFind, FilesFind, PTL

=============================================================================
