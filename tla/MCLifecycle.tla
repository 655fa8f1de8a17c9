---------------------------- MODULE MCLifecycle ----------------------------
EXTENDS DriverTables

AllTables ==
  [mysensor |-> mysensor, myalarm |-> myalarm, myconfig |-> myconfig,
   myfakebell |-> myfakebell, myblkdev |-> myblkdev, mydevice |-> mydevice,
   mysensordrv |-> mysensordrv, mybell |-> mybell, myusb |-> myusb,
   block |-> block, charrw |-> charrw, chardev |-> chardev,
   charioctl |-> charioctl, procfs |-> procfs, myserial |-> myserial,
   myspidev |-> myspidev, myspidrv |-> myspidrv, myi2c |-> myi2c,
   mydma |-> mydma, mynetcard |-> mynetcard, mypci |-> mypci, mymem |-> mymem,
   nf_hook |-> nf_hook, mykthread |-> mykthread, myworkqueue |-> myworkqueue,
   mybus |-> mybus, mybusdev |-> mybusdev, mydrvbus |-> mydrvbus,
   mychild |-> mychild, mydrvchild |-> mydrvchild, myclass |-> myclass]

AllDrivers == DOMAIN AllTables

OnlyMem == {"mymem"}

-----------------------------------------------------------------------------
(* What is known to go wrong, driver by driver. *)

(* Left behind by an init that fails half way, by an exit in the wrong     *)
(* order, or because nobody turns the interrupt of the device off.         *)
KnownLeaks ==
  CASE d = "mysensor"   -> {"class", "region", "node", "line"}
    [] d = "myfakebell" -> {"line"}
    [] d = "myconfig"   -> {"lost"}
    [] d = "mysensordrv" -> {"node"}
    [] d = "charrw"     -> {"cdev", "node"}
    [] d = "procfs"     -> {"dir"}
    [] d = "mymem"      -> {"drv", "kmalloc", "vmalloc", "pages", "free_pages"}
    [] d = "mybus"      -> {"bus", "descr"}
    [] d \in {"mybusdev", "mydrvbus"} -> {"bus", "busdev"}
    [] d = "mydrvchild" -> {"child"}
    [] d = "myclass"    -> {"class"}
    [] OTHER -> {}

(* Released before what hangs on it, or without having been acquired. *)
KnownMisuse ==
  CASE d = "mysensor"   -> {"region", "class", "cdev", "node"}
    [] d = "myconfig"   -> {"unadded"}
    [] d = "mysensordrv" -> {"class", "node"}
    [] d = "charrw"     -> {"class", "region"}
    [] d = "myi2c"      -> {"driver"}
    [] d = "mydrvchild" -> {"child"}
    [] d = "myclass"    -> {"class"}
    [] OTHER -> {}

(* Drivers whose /dev entry is there before all that its files use. *)
EarlyEntry == {"mysensor", "myalarm", "myfakebell", "myblkdev", "mydevice",
               "mysensordrv", "charrw"}

(* Drivers whose files do not keep the module, or not from the start. *)
Unowned == {"mysensor", "myalarm", "mysensordrv", "chardev", "charioctl", "procfs"}

(* Drivers whose device structure does not wait for the files that are     *)
(* open on it.  The wait of mydevice may be interrupted (module MyDevice). *)
Outlived == {"mysensor", "myalarm", "myconfig", "myfakebell", "myblkdev",
             "mydevice", "mysensordrv", "myusb"}

-----------------------------------------------------------------------------
(* Whatever fails on the way, a module that is gone, or whose init failed, *)
(* leaves nothing behind, and a device that is unbound nothing that its    *)
(* probe acquired, except for the leaks listed above.                      *)
ProbeResources == UNION {Table[d].probe[i].rs : i \in DOMAIN Table[d].probe}

NothingLeft ==
  /\ mod \in {"failed", "gone"} => held \subseteq KnownLeaks
  /\ dev = "unbound" => held \cap ProbeResources \subseteq KnownLeaks

(* Init, exit, probe and remove release things once, in an order in which  *)
(* nothing loses what it hangs on, except for the drivers listed above.    *)
ReleaseInOrder == misused \subseteq KnownMisuse

(* An interrupt handler, timer, completion, request queue, hook, thread or *)
(* attribute finds everything it relies on whenever it can run, also in    *)
(* the middle of probe, remove and exit.  The exceptions: myfakebell frees *)
(* its device under the still requested interrupt, and entries that a      *)
(* failed init left registered outlive their module.                       *)
CallbacksReady ==
  \A e \in Exposed :
    \/ e[1] = "file"
    \/ d = "myfakebell" /\ e[1] = "irq" /\ dev \in {"remove", "release"}
    \/ e[2] = "text" /\ mod = "failed" /\ e[1] \in KnownLeaks

(* A file finds everything it uses, with two exceptions, each for the      *)
(* drivers listed above.  Where the entry is there too early, a file may   *)
(* be opened, and miss something, until probe or init is done.  Where the  *)
(* device does not wait for its files, one that is held open from before   *)
(* remove or the error path of probe misses what these take away, also     *)
(* when another device is bound afterwards.  And a file loses the module's *)
(* text only in drivers without .owner, or after an init that failed.      *)
FilesReady ==
  \A e \in Exposed : e[1] = "file" =>
    IF e[2] = "text"
      THEN d \in Unowned \/ mod = "failed"
      ELSE \/ d \in EarlyEntry /\ (dev = "probe" \/ mod \in {"init", "undo", "failed"})
           \/ d \in Outlived /\ (stale \/ dev \in {"undo", "remove", "release"})

(* mymem.c:58 and :62 announce the release of the resources in the exit    *)
(* function: an unloaded module has freed what its init allocated.         *)
ExitFreesAll == mod = "gone" => held = {}

=============================================================================
