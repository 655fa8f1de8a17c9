----------------------------- MODULE Lifecycle -----------------------------
(***************************************************************************)
(* How a driver module of the repository comes, binds a device, serves     *)
(* files and callbacks, and goes.  The init, exit, probe and remove        *)
(* functions of a driver are sequences of operations on resources; module  *)
(* DriverTables holds them for every driver.  This module runs them the    *)
(* way the kernel does: module loading and the binding of a device are two *)
(* threads, processes open and close files meanwhile, any call that can    *)
(* fail may fail, and managed resources are released in reverse order      *)
(* after remove or a failed probe.                                         *)
(*                                                                         *)
(* A driver is a record                                                    *)
(*   init, exit, probe, remove   sequences of operations                   *)
(*   anchors   what must be registered for a device to be bound; giving it *)
(*             up makes the core unbind the device first                   *)
(*   entry     the resource through which a process opens a file           *)
(*   pin       when an open file starts to keep the module loaded: "owner" *)
(*             (.owner in the file operations), "open" (try_module_get in  *)
(*             the open function) or "none"                                *)
(*   calls     the callbacks: what makes one live and what it relies on    *)
(***************************************************************************)
EXTENDS Naturals, Sequences, FiniteSets

CONSTANTS
  Drivers,   \* the drivers
  Table      \* Table[d] is the record of driver d

VARIABLES
  d,         \* the driver that is loaded
  mod,       \* the module: "new", "init", "undo", "in", "exit", "failed", "gone"
  dev,       \* its device: "unbound", "probe", "undo", "bound", "remove", "release"
  todo,      \* what is left of the function each thread runs
  held,      \* the resources that exist
  devres,    \* managed resources of the device, last acquired first
  file,      \* a process's file: "closed", "opening", "unpinned", "pinned"
  stale,     \* the file was opened on a device that is gone
  misused    \* history: resources touched in the wrong order

vars == <<d, mod, dev, todo, held, devres, file, stale, misused>>

-----------------------------------------------------------------------------
(* Operations.  rs is a set of resources; the empty set stands for a       *)
(* lookup.  undo is what the error path executes.                          *)

Op(kind, rs, undo) == [op |-> kind, rs |-> rs, undo |-> undo]

Get(rs, undo)    == Op("get", rs, undo)       \* may fail: undo, then give up
Chk(undo)        == Op("get", {}, undo)       \* a lookup that may fail
Devm(rs, undo)   == Op("devm", rs, undo)      \* the same, managed
Try(rs)          == Op("try", rs, <<>>)       \* may fail, and nobody looks
TryElse(rs, alt) == Op("try", rs, alt)        \* may fail: alt, then go on
Opt(rs)          == Op("opt", rs, <<>>)       \* may fail: the rest is skipped
Set(rs)          == Op("set", rs, <<>>)       \* cannot fail
Require(rs)      == Op("need", rs, <<>>)      \* fails unless they are there
Put(rs)          == Op("put", rs, <<>>)       \* release
Drop(rs)         == Op("drop", rs, <<>>)      \* release if it is there
Lose(rs)         == Op("lose", rs, <<>>)      \* forget the pointer to it
Spoil(rs)        == Op("spoil", rs, <<>>)     \* release of what is not whole

Call(name, when, uses) == [name |-> name, when |-> when, uses |-> uses]

(* The parts of the device structure go with it. *)
Embedded == {"ring", "wq", "lock", "stat"}

WithParts(rs) == IF "dev" \in rs THEN rs \union Embedded ELSE rs

(* What a resource hangs on: a device node is found through its class, a   *)
(* character device occupies numbers of a region, a bus attribute and a    *)
(* child device belong to their bus.                                       *)
Needs(r) == CASE r = "node" -> {"class"}
              [] r = "cdev" -> {"region"}
              [] r \in {"descr", "pad"} -> {"bus"}
              [] OTHER -> {}

(* Without its class device_destroy does not find the node. *)
Unreachable(rs) == {r \in rs : r = "node" /\ "class" \notin held}

(* Releasing what is not there or what is still needed, acquiring what     *)
(* lacks its base.                                                         *)
Misuse(o) ==
  CASE o.op \in {"get", "try", "opt", "devm", "set"} -> {r \in o.rs : ~ Needs(r) \subseteq held}
    [] o.op = "put"   -> {r \in o.rs : \/ r \notin held
                                       \/ r \in Unreachable(o.rs)
                                       \/ \E s \in held \ o.rs : r \in Needs(s)}
    [] o.op = "drop"  -> {r \in o.rs \cap held : \E s \in held \ o.rs : r \in Needs(s)}
    [] o.op = "spoil" -> o.rs \cap held
    [] OTHER -> {}

-----------------------------------------------------------------------------
Init ==
  /\ d \in Drivers
  /\ mod = "new" /\ dev = "unbound"
  /\ todo = [mod |-> <<>>, dev |-> <<>>]
  /\ held = {} /\ devres = <<>>
  /\ file = "closed" /\ stale = FALSE
  /\ misused = {}

(* The next operation of a thread. *)
Busy(t) == todo[t] # <<>>

Op1(t) == Head(todo[t])

Releases(o) == o.op \in {"put", "drop", "lose", "spoil"}

Unregistering == Busy("mod") /\ Releases(Op1("mod"))
                             /\ Op1("mod").rs \cap Table[d].anchors # {}

(* One operation succeeds. *)
Acquire(t) ==
  /\ Busy(t) /\ ~ Releases(Op1(t))
  /\ Op1(t).op = "need" => Op1(t).rs \subseteq held
  /\ "node" \in Op1(t).rs => "class" \in held    \* device_create looks it up
  /\ held' = held \union Op1(t).rs
  /\ devres' = IF Op1(t).op = "devm" /\ Op1(t).rs # {}
                 THEN <<Op1(t).rs>> \o devres ELSE devres
  /\ todo' = [todo EXCEPT ![t] = Tail(@)]
  /\ misused' = misused \union Misuse(Op1(t))
  /\ UNCHANGED <<d, mod, dev, file, stale>>

(* A tried operation fails: its alternative runs and the function goes on. *)
TryFails(t) ==
  /\ Busy(t) /\ Op1(t).op = "try"
  /\ todo' = [todo EXCEPT ![t] = Op1(t).undo \o Tail(@)]
  /\ UNCHANGED <<d, mod, dev, held, devres, file, stale, misused>>

OptFails(t) ==
  /\ Busy(t) /\ Op1(t).op = "opt"
  /\ todo' = [todo EXCEPT ![t] = <<>>]
  /\ UNCHANGED <<d, mod, dev, held, devres, file, stale, misused>>

(* A checked operation fails: the error path runs, the function fails. *)
InitFails ==
  /\ mod = "init" /\ Busy("mod")
  /\ \/ Op1("mod").op \in {"get", "devm"}
     \/ Op1("mod").op = "need" /\ ~ Op1("mod").rs \subseteq held
  /\ mod' = "undo"
  /\ todo' = [todo EXCEPT !.mod = Op1("mod").undo]
  /\ UNCHANGED <<d, dev, held, devres, file, stale, misused>>

ProbeFails ==
  /\ dev = "probe" /\ Busy("dev") /\ Op1("dev").op \in {"get", "devm"}
  /\ dev' = "undo"
  /\ todo' = [todo EXCEPT !.dev = Op1("dev").undo]
  /\ UNCHANGED <<d, mod, held, devres, file, stale, misused>>

(* A file of a device that goes is left with a dangling pointer. *)
Dangle(rs) == stale' = (stale \/ ("dev" \in rs \cap held /\ file # "closed"))

(* A release.  The core unbinds the device before it lets go of an anchor. *)
(* Removing a /proc entry waits for calls in it and closes its files.      *)
Release(t) ==
  /\ Busy(t) /\ Releases(Op1(t))
  /\ Unregistering /\ t = "mod" => dev = "unbound"
  /\ "proc" \in Op1(t).rs => file # "opening"
  /\ held' = (held \ (WithParts(Op1(t).rs) \ Unreachable(Op1(t).rs)))
               \union (IF Op1(t).op = "lose" /\ Op1(t).rs \subseteq held
                         THEN {"lost"} ELSE {})
  /\ misused' = misused \union Misuse(Op1(t))
  /\ Dangle(Op1(t).rs)
  /\ file' = IF "proc" \in Op1(t).rs THEN "closed" ELSE file
  /\ todo' = [todo EXCEPT ![t] = Tail(@)]
  /\ UNCHANGED <<d, mod, dev, devres>>

-----------------------------------------------------------------------------
(* The module: insmod, rmmod and the ends of init and exit. *)

Load ==
  /\ mod = "new"
  /\ mod' = "init" /\ held' = {"text"}
  /\ todo' = [todo EXCEPT !.mod = Table[d].init]
  /\ UNCHANGED <<d, dev, devres, file, stale, misused>>

Loaded ==
  /\ mod = "init" /\ ~ Busy("mod")
  /\ mod' = "in"
  /\ UNCHANGED <<d, dev, todo, held, devres, file, stale, misused>>

Unload ==
  /\ mod = "in" /\ file # "pinned"
  /\ mod' = "exit"
  /\ todo' = [todo EXCEPT !.mod = Table[d].exit]
  /\ UNCHANGED <<d, dev, held, devres, file, stale, misused>>

(* The text of the module is freed after exit, and after a failed init. *)
FreeText ==
  /\ mod \in {"undo", "exit"} /\ ~ Busy("mod")
  /\ mod' = IF mod = "exit" THEN "gone" ELSE "failed"
  /\ held' = held \ {"text"}
  /\ UNCHANGED <<d, dev, todo, devres, file, stale, misused>>

-----------------------------------------------------------------------------
(* The device: bound by the core while driver and device are registered,   *)
(* unbound through sysfs, by unplugging or because an anchor goes.         *)

Probe ==
  /\ dev = "unbound" /\ Table[d].anchors # {} /\ Table[d].anchors \subseteq held
  /\ ~ Unregistering
  /\ dev' = "probe"
  /\ todo' = [todo EXCEPT !.dev = Table[d].probe]
  /\ UNCHANGED <<d, mod, held, devres, file, stale, misused>>

Bound ==
  /\ dev = "probe" /\ ~ Busy("dev")
  /\ dev' = "bound"
  /\ UNCHANGED <<d, mod, todo, held, devres, file, stale, misused>>

Unbind ==
  /\ dev = "bound"
  /\ dev' = "remove"
  /\ todo' = [todo EXCEPT !.dev = Table[d].remove]
  /\ UNCHANGED <<d, mod, held, devres, file, stale, misused>>

(* The driver's part is over; managed resources go, the last one first. *)
Removed ==
  /\ dev \in {"undo", "remove"} /\ ~ Busy("dev")
  /\ dev' = "release"
  /\ UNCHANGED <<d, mod, todo, held, devres, file, stale, misused>>

DevresRelease ==
  /\ dev = "release" /\ devres # <<>>
  /\ held' = held \ WithParts(Head(devres))
  /\ devres' = Tail(devres)
  /\ Dangle(Head(devres))
  /\ UNCHANGED <<d, mod, dev, todo, file, misused>>

Unbound ==
  /\ dev = "release" /\ devres = <<>>
  /\ dev' = "unbound"
  /\ UNCHANGED <<d, mod, todo, held, devres, file, stale, misused>>

-----------------------------------------------------------------------------
(* A process. *)

Alive == mod \in {"init", "in"}   \* a reference to the module can be taken

Open ==
  /\ file = "closed" /\ Table[d].entry \in held /\ "text" \in held
  /\ \/ Table[d].pin = "owner" /\ Alive /\ file' = "pinned"
     \/ Table[d].pin = "open" /\ file' = "opening"
     \/ Table[d].pin = "none" /\ file' = "unpinned"
  /\ UNCHANGED <<d, mod, dev, todo, held, devres, stale, misused>>

(* try_module_get in the open function; its result is not looked at. *)
OpenPins ==
  /\ file = "opening"
  /\ file' = IF Alive THEN "pinned" ELSE "unpinned"
  /\ UNCHANGED <<d, mod, dev, todo, held, devres, stale, misused>>

Close ==
  /\ file \in {"unpinned", "pinned"}
  /\ file' = "closed" /\ stale' = FALSE
  /\ UNCHANGED <<d, mod, dev, todo, held, devres, misused>>

Step(t) == Acquire(t) \/ TryFails(t) \/ Release(t)

ModNext == \/ Load \/ Loaded \/ Unload \/ FreeText \/ InitFails
           \/ OptFails("mod") \/ Step("mod")

DevNext == \/ Probe \/ Bound \/ Unbind \/ Removed \/ DevresRelease \/ Unbound
           \/ ProbeFails \/ Step("dev")

FileNext == Open \/ OpenPins \/ Close

Next == ModNext \/ DevNext \/ FileNext

Spec == Init /\ [][Next]_vars

-----------------------------------------------------------------------------
(* What exists, a file included, and which callbacks are live. *)
Present == held \union (IF file = "closed" THEN {} ELSE {"file"})

LiveCalls == {c \in Table[d].calls : c.when \subseteq Present}

(* What a callback finds.  A file opened on a device that is gone keeps    *)
(* pointing to it: another device bound since does not serve it.           *)
Found(c) == IF c.name = "file" /\ stale THEN held \ WithParts({"dev"}) ELSE held

(* Pairs of a live callback and something it relies on and does not find. *)
Missing(c) == {<<c.name, r>> : r \in ({"text"} \union c.uses) \ Found(c)}

Exposed == UNION {Missing(c) : c \in LiveCalls}

(* Once probe has returned, and until the device is unbound, every         *)
(* callback of the device finds everything it relies on, for every driver: *)
(* whatever order a probe function does its work in, the gaps it opens     *)
(* are closed when it returns.  A file left from an earlier binding is no  *)
(* callback of this device; FilesReady is about it.                        *)
BoundIsReady ==
  dev = "bound" /\ mod = "in" => \A e \in Exposed : e[1] = "file" /\ stale

=============================================================================
