# Verification of kernel_drv_learn

The repository is a collection of small Linux drivers, each a module of its own.
They share a few patterns: a threaded interrupt of an emulated device, a ring
buffer between the interrupt and the readers, a character device with waiting
readers, a ring shared with user space, and a probe/remove life cycle. This
directory models those patterns in TLA+, one module per component, checks them
with TLC and proves the central results with TLAPS for all parameter values.

All paths below are relative to the repository root.

## Inventory

| Component | State | Operations | Hard part |
|---|---|---|---|
| fakebell device (`myirq/README`, QEMU listing) | status, irq_enable, irq_status, event_count, line | timer, register writes | level line, counter wrap |
| `myirq/mybell.c` | irq_count, requested interrupt | probe, hard handler, thread, remove | device, handler, thread and bus core interleave |
| `practice/myfakebell/ringbuf.h` | data, head, tail, size, dropcount, lock | init, push, pop, getsize, getlost, resetlost | wrap, overwrite when full |
| `practice/myfakebell/myfakebell.c` | ring, wait queue, device lock | handlers, read, poll, ioctl, probe, remove | several readers, stale sizes, reset without the lock, wake-ups, spin lock shared with the hard handler |
| `practice/myblkdev` (driver and app) | head, tail, overflow and bytes in shared memory | timer, poll, mmap, consume_ring | no lock and no barrier between kernel and process |
| `practice/mydevice/mydevice.c` | reference, config_opened, config, two mutexes, wait queue | open, release, read, write, probe, remove | remove against open and release, late initialisation |
| `chardev/ioctl/charioctl.c` | message, already_open | ioctl, read, write | byte-wise copies, flag that only ioctl takes, unchecked offset and index |
| `practice/mysensor` | ring, wait queue, static counter | handlers, blocking and non-blocking read, poll, probe, remove | several readers for one wake-up |
| `practice/myalarm` | alarm bit, wait queue | handlers, read, write, poll, probe, remove | events collapse, the clearing write is late |
| `practice/myconfig` | one integer, two sysfs files | show, store, read, write, probe, remove | unwinding of probe |
| `myproject` (mysensordrv, fakesensor, sensor_tool) | minor table, sensor status, static text buffer | ioctl, poll, read, probe, remove | shared globals without locks |
| `procfs/procfs.c` | buffer and its size | open, read, write, release | one size for all callers, no lock |
| `mykprobe/kprobe_toggle.c` | parameter, registered flag, probe | init, parameter write, exit | parameter writable before init is over, ignored failures |
| `myusb/myusb.c` | urb, button, interface data | probe, completion, open, ioctl, disconnect | resubmission against disconnect |
| `mydpdk/mydpdk.c` | mbuf pool and queues | port set-up, send, receive | buffer ownership on error paths |
| the modules above and `chardev`, `myblkdev/blk.c`, bus, class, PCI, SPI, I2C, DMA, serial, net, memory, thread, work queue and netfilter demos | registered resources | init, exit, probe, remove | unwinding, order of release, callbacks and files that come too early or stay too long |
| LSM, FUSE and hello-world demos | none | answers from constants, log messages | none |

The drivers do not call each other. They interact with the device (register
accesses and the interrupt line), with the kernel (interrupt flow, wait queues,
driver core, devm release, module references) and with processes (system calls,
shared memory).

`PROJECT.json` lists every component with its status, and the hazards with the
line where each one bites and the properties that would catch it.

## Modules

| Module | Models |
|---|---|
| `FakeBell` | the device as a record, one operator per callback |
| `GenericIrq` | the kernel's threaded interrupt flow (external contract): masking, one-shot, thread, free_irq |
| `MyBell` | `mybell.c` composed with the two above; every register access is a step |
| `MyBellProofs` | proofs about `MyBell` |
| `LossyQueue` | abstract specification of a sample buffer: bounded FIFO, drops and counts its oldest value |
| `RingBuf`, `RingBufSpec` | `ringbuf.h` as operators, and any sequence of its calls |
| `RingBufProofs` | proofs about `RingBufSpec`, with the refinement of `LossyQueue` |
| `MyFakeBell` | the data path of `myfakebell.c` (handlers, read, poll, statistics, reset) over `FakeBell`, `GenericIrq` and `RingBuf` |
| `MyFakeBellProofs` | proofs about `MyFakeBell` |
| `BellLock` | `mybelllock` of `myfakebell.c`: tasks and the hard handler, CPU by CPU |
| `MyBlkDev` | `myblk_produce_data`, `myblkpoll` and the application's `consume_ring` |
| `MyBlkDevProofs` | proofs about `MyBlkDev` |
| `MyDevice` | `mydevice.c`: opening, configuring, closing and removing |
| `MyDeviceProofs` | proofs about `MyDevice` |
| `CharIoctl` | `charioctl.c`: the message under ioctl, read and write |
| `CharIoctlProofs` | proofs about `CharIoctl` |
| `MySensor` | `mysensor.c` and its test program over `FakeBell` and `GenericIrq`; a second implementation of `LossyQueue` |
| `MyAlarm` | `myalarm.c` and its application over `FakeBell` and `GenericIrq` |
| `SensorMinors`, `SensorStat`, `SensorText` | `mysensordrv.c`/`fakesensor.c`: minor table; temperature, threshold, alarm and poll with `sensor_tool`; the static text buffer of `device_read` |
| `UsbPanicb` | `myusb.c` from the first submission to the disconnect |
| `DpdkForward` | `mydpdk.c`: where each packet buffer is |
| `ProcBuffer` | read and write of `procfs.c` |
| `KprobeToggle` | `kprobe_toggle.c` |
| `Devices` | the nine modules from `MySensor` to `KprobeToggle`, and `BellLock`, side by side, with the properties that span them |
| `DevicesProofs` | proofs about `Devices`, device by device, with `mysensor`'s refinement of `LossyQueue` |
| `MCDevices` | `Devices` with constants for one run |
| `Lifecycle` | how any module is loaded, bound, used, unbound and unloaded |
| `DriverTables` | init, exit, probe and remove of 31 modules as sequences of operations for `Lifecycle` |
| `MCLifecycle` | the 31 tables together, what is known to go wrong in each, and the properties |
| `LifecycleProofs` | a proof about `Lifecycle` that holds for every table |

An operator whose name ends in `_Something` and whose comment says *mutant* is a
plausible fault of the definition that follows it. It is used by no
specification; it shows that a property notices the fault.

### How state and steps correspond to the code

* A variable is a field of the driver's structure, a local that survives a step
  (`seen`, `rd`, `ph`, `ct`), or a history variable (marked so).
* An action is one stretch of a handler between two points where another thread
  can see or change what it uses. A critical section whose lock every user takes
  is one step. `ringbuf_push` and `ringbuf_pop` are split in two in `MyFakeBell`
  because FB_RESET_BUFFER (`myfakebell.c` l.93) ignores the lock; `addref`,
  `relref` and the test of `config_opened` are split in `MyDevice` because
  `mydevice_init` (l.224) may re-initialise the mutex under them. The functions
  of `mysensordrv.c`, `fakesensor.c` and `procfs.c` take no lock, so a value they
  load and what others store meanwhile are kept apart, step by step.
* Some loads and stores that could be apart share a step, because what falls
  between them changes nothing a property speaks of:
  - `ProcBuffer.ReadSize`, the test of the size (`procfs.c` l.23) with its load
    and store (l.28). A size stored in between is overwritten by one that is
    bounded in the same way.
  - `SensorStat.Compare`, the loads of temperature and threshold with the store
    of the alarm (`fakesensor.c` l.15-18). A temperature set in between is
    compared by its own call, a threshold lowered in between is not compared by
    anyone and excepted for that, and an alarm stored late is still an alarm.
  - `MyFakeBell.BottomReserve`, the test and the store of the size
    (`ringbuf.h` l.31-43). Only a reset can fall in between, and a size stored
    late is at most `RINGBUF_SIZE`, like any other.
  - `MyBell.ThreadRead`, the three register reads (`mybell.c` l.28-30): the
    device raises nothing new until the acknowledge.
  - the sections of `mydevread`, `mydevwrite` and `mydevrelease` in `MyDevice`.
    Only a mutex that is initialised under its holder could split them, and the
    properties except the behaviours where that happens (`torn`).
* Undefined outcomes are choices. A reset inside a push or pop lets that call
  use the index it had in a register or the one it finds in memory; the stores
  of bytes and head in `MyBlkDev` may become visible in either order; a thread
  that waits on a mutex of zeroes in `MyDevice` crashes. The history variables
  `raced`, `overtaken`, `torn`, `crossed`, `overlapped` and `doubt` record that
  it happened, and the properties that cannot survive it say so.
* Once `mydevice` or the USB device is freed its files take no further step: what
  they would do is undefined. `DevOutlivesFiles` says of `mydevice`, and
  `FilesReady` with its list `Outlived` of every driver, which files there can be.
* Samples, bytes and events are numbered in the order they are produced, so order
  and loss can be read off the numbers.

### Life cycles

In `DriverTables` each init, exit, probe and remove function is the sequence of
its calls on named resources (device numbers, class, node, cdev, interrupt,
...), each with the error path its failure leads to. `Lifecycle` runs a table
with two threads: the module's (insmod, rmmod) and the driver core's (bind,
unbind). Every call that can fail may fail; managed resources go in reverse order
after remove or a failed probe; giving up an anchor such as the registered driver
makes the core unbind first. A process opens and closes a file at any moment
while the entry exists, and holds a module reference from the start (`.owner`),
from inside open (`try_module_get`) or never. A callback is *live* while certain
resources exist and *relies on* others; it is `Exposed` when one of them, or the
module's text, is missing.

`MCLifecycle` states what is wrong today, driver by driver, and the properties
say that within the model nothing else is: `KnownLeaks`, `KnownMisuse` (released
too early or twice), `EarlyEntry` (the /dev entry precedes what its files use),
`Outlived` (the device structure goes although a file is open on it; that file
stays `stale` also when another device is bound) and `Unowned` (files that do not
hold the module). A change that mends a driver lets its entry be struck from
these sets; a change that breaks one fails the run. An interrupt or a file that
is in a list is recorded, not caught: the properties guard the other drivers, and
the listed ones against a further fault.

The tables are as wide as the source: the anchor of `mysensordrv` is its driver
alone, since its match tables (`mysensordrv.c` l.105-127), the repository's device
tree and `myproject/README` (l.125) bind a device besides the module's own.

## Runs

| Run | Question | Bounds |
|---|---|---|
| `mybell` | Is every event counted once, can there be a storm, does removal end, does a handler outlive its device? | counters of five values, so they wrap; bind and unbind without limit |
| `ringbuf` | Is the ring a lossy queue? | 3 slots, 9 pushes: three times around |
| `fakebell_readers` | What do two concurrent readers see; can a reader or poller be forgotten asleep? | 2 slots, 3 events (one more than fits), 2 reads of up to 2 samples, 1 poll |
| `fakebell_reset` | What survives a reset at any moment? | 1 reader, 2 reads, 1 statistics call, 1 reset |
| `blkring` | Does the application print the stream the driver produced? | 5 bytes, samples of 3, 12 bytes, 2 overflows |
| `mydevice` | What do the reference count and the configuration flag protect? | 2 processes, 3 opens |
| `charioctl` | Do ioctls keep messages whole; what leads an access out of the buffer? | 2 processes, 3 calls, texts up to one byte longer than the buffer, offsets and indices up to one behind its last byte (`MaxOffset`) |
| `charioctl_one` | expected violation: comment l.24/l.100 against read and write | as above |
| `charioctl_set` | expected violation: comment l.107 against the empty text | ioctls only |
| `lifecycle` | What does each of 31 modules leave behind, release in the wrong order, or expose too early or too long? | one device and one file per module; load once, bind and unbind, open and close without limit |
| `mymem` | expected violation: comments l.58/l.62 against an exit that frees nothing | the `mymem` table alone |
| `devices` | The ten smaller state machines, one per behaviour (below) | 2 or 3 users each, a handful of calls |

Every bound is a constant named `Max...` or the size of a buffer. The buffers
are small, but each run passes the full state, the wrap and the refusal several
times; two processes are enough for each race, since the races are between one
victim and one rival; the three of `SensorMinors` and `SensorStat` let a third
one meet what two left behind. In `mybell` and, after loading, in `lifecycle`
nothing is cut off.

The machines in `devices` do not interact. They share one run because they share
its questions: is an event lost (`EventsKept`), a sleeper forgotten
(`SleepersWoken`), a wait without end (`WaitsEnd`), unlocked state out of step
(`UnlockedStateSound`, `MinorsKept`), a callback lost (`ButtonWatched`), a packet
buffer lost or with two owners (`BuffersAddUp`, `NeverStarves`), a failed read
unexplained (`FailedReadNeedsRival`), and is `mysensor`'s ring a lossy queue
(`SensorIsLossyQueue`). A behaviour picks one machine; the variables of the others
stay 0. Constants: `MySensor` 2 slots, 3 values, 3 reads; `MyAlarm` 4 events, 2
applications; `SensorMinors` 3 devices for 2 minors; `SensorStat` arguments -1 and
101 around the threshold of 100, a counter of 8 bits; `SensorText` texts of up to
2 bytes, 3 reads, callers' offsets 1 and 3 (`Offsets`: one inside the buffer, one
outside); `UsbPanicb` 3 reports; `DpdkForward` 0 to 4 ports, pool of 9, queues of
2 (so that with four ports the premise of `NeverStarves` fails and with three it
just does not); `BellLock` 2 CPUs.

What the runs show beyond "it holds":

* A read of `myfakebell` can end in -1, or a blocking read in 0 (which
  the application takes for end of file), but only when another reader or a
  reset took samples in between (`ShortReadNeedsRival`); overwriting pushes never
  cause it. The samples such a read had already popped are lost
  (`SamplesAccounted` lists them under `lost`). Likewise a poll that reported
  data is only disappointed by a rival. `mysensor_read` returns -EFAULT in the
  same situation (`FailedReadNeedsRival`).
* An FB_RESET_BUFFER inside a pop can leave `size` negative and make a reader
  return stale slots; indices stay inside the array nevertheless (`TypeOK`).
* `myirq_top` never gets `mybelllock` when it interrupts the task that holds it
  (`Stuck`), since the tasks take it without `_irqsave`; in every other case it
  does (`WaitsEnd`).
* `consume_ring`'s else branch is right although it re-reads `head` after the
  loop's test, because the driver leaves one slot free (`ElseMeansWrapped`; the
  mutant that uses all slots breaks it).
* `mydevremove` protects files whose open has been counted. It does not protect
  an open that has not reached `addref`, a release between `relref` and
  `wake_up`, or any file when a signal ends the wait (`DevOutlivesFiles`).
* In `myalarm` an event is cleared unread only in one window: raised between
  an application's read and its clearing write (`MissedOnlyInWindow`).
* In `mysensordrv` two overlapping `get_minor` can hand out one minor twice;
  `device_create` refuses the second, so two bound devices never share one, but
  the table is then wrong (`MinorsKept`). Setting the threshold below the present
  temperature raises no alarm until the next temperature is set
  (`HotMeansAlarm`). A read can return bytes of another device when reads
  overlap, or when the text has become shorter than the offset it begins at. It
  leaves the buffer only from an offset outside it that its caller gave to
  pread(2), which l.158 does not check; a file's own offset never gets there
  (`TextStaysOwn`).
* In `charioctl` the offset of a pread (l.55) and the index of
  IOCTL_GET_NTH_BYTE (l.131) are not checked either, and lead a load out of the
  buffer. Nothing else does: no store, no read that begins inside, no file's own
  position, whatever overlaps (`TransfersStayInside`).
* A `procfs` call can copy more than its caller asked for when another call
  stores the size in between (`CopyFits` excepts those calls).
* The kprobe can differ from its parameter for good after an ignored failure of
  `enable_kprobe`/`disable_kprobe`, or when a write falls between init's test and
  its `disable_kprobe` (`FlagMatchesProbe`).
* With the sizes of `mydpdk.c` the pool cannot run dry for up to 6 ports.
* `mysensor` destroys its class before it unregisters the driver, leaves class and
  numbers after a failed registration, and nobody turns the device's interrupt
  off; `mysensordrv` destroys its class (l.327) before its driver (l.328) while a
  device of the device tree is bound, whose node stays; `myfakebell_remove` frees
  its device under the still requested interrupt; `charrw`, `procfs`, `mymem`,
  `myconfig`, `myclass` and the bus demos leave resources behind on the paths
  `KnownLeaks` names.
* The eight drivers in `Outlived` free, or let devm free, the device structure
  under a file that is held open across the unbinding (`FilesReady`). Of these
  `mydevice` waits for its files, unless a signal ends the wait.

### Fairness

* `MyBell`: the timer re-arms itself, an unmasked high line is delivered, a woken
  handler thread is scheduled, and a probe or remove once begun goes on. Nobody
  has to bind or unbind the driver.
* `MyFakeBell`: the same for the handlers; a system call once begun goes on, none
  has to begin, no signal has to arrive.
* `MyBlkDev`: the timer and the application's loop go on. The poll timeout is not
  counted on: `AllPrinted` holds by the driver's wake-up alone.
* `MyDevice`: threads are scheduled and every process closes its file in the end;
  without that `mydevremove` waits by design.
* `MyAlarm`: the handlers run and the application goes on with its loop unless it
  is asleep. No event has to come.
* `BellLock`: a CPU goes on with what it runs, and a handler that meets the lock
  free again and again gets it: strong fairness, because the kernel's spinlocks
  are queued.

All else is weak fairness. Deadlock checking is off where a bound or the end of
the device's life stops the model.

## Proofs

`MyBellProofs` (for every counter width `MaxU32 >= 1`). `EventsCounted` is not
inductive: a step of the thread keeps the account only if the event it handles is
still the pending one. The inductive invariant adds `LineInv` (line, mask and
device registers agree), `StageInv` (driver phase, descriptor and thread stage
agree, and at most one of hard handler, wake-up and thread is active per event)
and `ThreadSeesItsEvent`. One lemma per conjunct, one case per action; the
theorems `TypeCorrect`, `CountIsExact`, `LogIsOfItsEvent`, `StormFree` and
`NoHandlerWithoutDev` follow. Two more are what the liveness properties rest on
besides fairness. `NoStrandedEvent`: a pending event of a bound driver can be
delivered or is in the hands of a handler that is ready to run (with `MaskInv`, a
line nobody serves is unmasked). `RemoveWaitsDown`, an action property: free_irq
waits only for a handler that can go on, and counts down `StepsLeft`, at most
five, which no step of another actor raises.

`RingBufProofs` (for every `RINGBUF_SIZE >= 1` and every number of pushes).
`NewestInOrder` speaks of sequences; the inductive invariant states it slot by
slot: slot `(tail + i) % RINGBUF_SIZE` holds sample `pushed - size + i + 1`. The
lemmas about slots (they wrap once, those of one window differ, one step along)
carry the arithmetic. From it follow `TypeCorrect`, `KeepsNewestInOrder`,
`CountsDrops` and, with the lemmas on windows as queues, `ImplementsLossyQueue`.

`MyFakeBellProofs` (for every `RINGBUF_SIZE >= 1`, every counter width, any set of
readers, any number of events, reads, polls and resets). The ring is shared by the
interrupt thread and the readers under its lock, and a push or pop is two steps
because a reset ignores the lock. The inductive invariant has nine parts:
`TypeInv`; `IrqInv`, one stage of the handler at a time and all earlier events
pushed; `LockInv`, who holds the lock finds the ring as he left it; `RingInv`, the
ring holds the samples above `Low`, in order; `HomeInv`, locals between calls;
`RivalInv`, what a reader has seen is still there unless a rival interfered;
`StatsInv`; `OrderInv`, what a process has got is rising and not above `Low`; and
`AccountInv`, the samples up to `Low` lie in pairwise disjoint places. `Low`, the
number of samples that have left the ring, is what joins the last three: every
step that removes samples raises it by as many, and nothing lowers it. All but
`TypeInv`, `IrqInv` and `HomeInv` are conditional on `raced`, so the theorems
`AccountIsExact`, `OrderIsKept`, `ShortReadByRival` and `StatsArePlausible` say
nothing once a reset has run into a push or pop; `TypeCorrect` holds even then.
For `SleeperRuns`: `NoLostWakeUp`, a process asleep beside a ring with samples has
been woken or the interrupt thread is before its wake_up; `NoStrandedSample`, an
event always has a stage of the handler that can go on, and the lock in its way is
held only by a thread about to give it back.

`MyBlkDevProofs` (for every ring of two bytes or more and every sample length).
`ClaimInv`: the space of a production is free and begins at the head;
`StretchInv`: the stretch the application reads is in the ring and not empty,
although it reads `head` twice; `BytesInv`: each slot, by its distance from the
head, holds its byte of the stream, unless a head overtook its bytes. From them
`StreamIsIntact`, `NoByteSkipped` (which needs no such exception) and
`ElseIsWrapped`. For `AllPrinted`: `NoLostWakeUp`, an application asleep in poll
beside a ring with bytes has been woken or the driver is before its wake_up,
although the comparison is made without the spinlock. This one is inductive as it
stands.

`MyDeviceProofs` (for every finite set of files). `LockInv`: a file holds a mutex
exactly in its section and what it has read there is still so; `ConfigInv`: the
right to configure lasts from open to release; `DrainInv`: after remove's wait
only uncounted or leaving files are left. `CountIsExact` is about a cardinality:
one lemma per way a file joins or leaves the counted set. The three
theorems except behaviours in which a mutex was used before its initialisation
(`torn`). For `RemoveFinishes`: `RemoveNotForgotten`, the wait of remove is for a
file that still has to release, or for a release before its wake_up, and a held
mutex belongs to a file inside its section; `WakeInv` says the same of the moments
between the test, the queueing and the sleep.

`CharIoctlProofs` (for every buffer length, alphabet and set of processes).
`TransfersInside`, that only a caller's offset or index leads a load out of the
buffer, rests on `CallInv`: the last byte stays NUL, so every reader that begins
inside stops in time whatever the writers do. For
`GetIsLastSet`, `FlagInv` says that one ioctl is in progress at a time and
`TextInv` how much of the text has been copied in or out.

`DevicesProofs` (for all constants). One invariant per machine, each proved by
itself; `IInv` says the one that runs has its own.
  * `mysensor`: `PushInv` (with the same `IrqInv` as above, shared with
    `myalarm`), `RingInv`, `ReaderInv` (a reader in front of an empty ring that it
    saw with data has had a rival) and the wake-up property itself. The theorems
    are `NoEventDropped`, `ReadFailsByRival`, `NoSleeperForgotten` and
    `SensorImplementsLossyQueue`: the values from tail to head, as a sequence,
    are the abstract queue; `rb_push` appends, dropping the head of a full one,
    and `rb_pop` takes the head.
  * `myalarm`: the events that have got through are pending, reported or missed,
    and while a process is about to clear, what is pending and unread was raised
    in its window.
  * `SensorMinors`: the nodes have one owner each in every interleaving; the table
    and its count agree with them while no two users of the table overlap.
  * `SensorStat` and `ProcBuffer` need types and the call's own size; `SensorText`
    that the buffer ends in NUL, that a read which begins inside stays inside, and
    that it holds the text of the call that filled it last; `KprobeToggle` relates
    init's phase, the setter's, the probe and the parameter.
  * `UsbPanicb`: what the handler is about to store; urbs are rejected while
    `usb_kill_urb` waits. `DpdkForward`: pool, hand, transmit queues and posted
    receive buffers add up to `NUM_MBUFS` (`BuffersHaveOneOwner`), from which
    `PoolNeverStarves` follows.
  * `BellLock`: who is inside is the holder, and the interrupt is on one CPU at a
    time. `WaiterHasRunner` is the safety part of `WaitsEnd`: a spinning handler
    finds the lock free or held by a task that can run, unless it has interrupted
    the holder. `StuckForGood`, an action property, says that from there no step
    of anyone leads out.

`LifecycleProofs` (for every set of drivers and every table of operations). The
properties hold of a driver only if its functions are right. The theorems say what
"right" is: five criteria that look at the text of a table, never at a state, each
with the theorem that every behaviour of a driver that meets it has the property,
whichever call fails and however the two threads and the file interleave. The
criteria are hypotheses; nothing is assumed of the tables.

| Criterion on a table | What it asks | Theorem |
| --- | --- | --- |
| `Complete` | init gives up nothing that probe gets; callbacks rely on nothing else | `BoundReady`: `BoundIsReady` |
| `Tidy` | wherever init or probe stops, its error path, or exit, or remove and the managed list, releases all but the leaks listed | `TidyLeavesNothing`: `NothingLeft`, as long as no class goes before its nodes |
| `Orderly` | `Tidy`, and what is released is there, is released once, and after what hangs on it | `OrderlyReleases`: nothing is misused, `ReleaseInOrder`, `NothingLeft` without exception |
| `Watched` | something that makes a callback live comes on top of all that it relies on | `CallbacksFind`: `CallbacksReady` |
| `Served` | the /dev entry comes on top of what its files use, the device structure does not go under an open file, and the files keep the module, or the exception is listed | `FilesFind`: `FilesReady` |

The inductive invariants turn a criterion on a function into one on what is left
of it. `Shape`, `ModShape` and `DevShape`: the phases of the two threads agree
with the kinds of operation they still have to do. `OwnInv` and `ItsInv`: what
the module and the device hold is going to be released by the function that runs
or by the next one; `HeldInv`: a device is bound only under its anchors, and
nothing is held besides. `OrderInv`: what is left to do releases only what is
there (`ModMust`, `DevMust`), keeps each pair in its order (`ModOrder`,
`DevOrder`), and what came on top of something still has it below (`ModBase`,
`DevBase`); the pairs that cross the two threads go through a `Keystone`, an
anchor that rests on what the device needs from the module. `TextInv`: the
module's text outlasts all its functions. `GotInv`: what a running probe has not
acquired yet it still goes on to acquire, also while the module goes. `FileInv`: a
module is not undone under a file that holds it (the kernel's contract), and an
open file that keeps its module has an entry or a device structure under it unless
it is stale, which no file of a module without a device is. They are
not one invariant but a tower: the proofs of order use that nothing is lost,
those of callbacks and files use the order.

That the criteria are met is proved, from the operations of the table, for the
drivers in `Met` (`Complete` and `Tidy`, 20 drivers) and in `Sound` (all five, 17
of these), so that `RepositoryDrivers` and `RepositoryOrder` state the properties
of these drivers without a hypothesis on their functions; in `RepositoryOrder`
that is all of them at once. Of the 14 that `Sound` leaves out, seven have a known
misuse (`KnownMisuse`), which is what `Orderly` excludes: `mysensor`, `myconfig`,
`mysensordrv`, `charrw`, `myi2c`, `mydrvchild` and `myclass`. `myfakebell` is not
`Watched`: its interrupt relies on structures inside `dev`, which remove frees
before the managed interrupt. The other six are built with concatenated or long
error paths that the provers do not evaluate; for them, as for all, TLC checks the
properties themselves.

The assumptions are those stated in the modules. `MaxU32Assumption` and
`RingbufSizeAssumption`: a counter has more than one value, a ring at least one
slot (the code has 2^32 and fixed sizes). `MyBlkAssumption`: the shared ring has
two bytes or more, since one always stays free. `MyDeviceAssumption`: finitely
many files. `CharIoctlAssumption` and `TextAssumption`: NUL is no character of a
text, and offsets are numbers, of which one lies outside `charioctl`'s buffer.
`FakeBellReaders` and `KprobeAssumption`: the names for "nobody" and the
interrupt thread are not processes. All other conjuncts, and
`MaxPushAssumption`, `SensorAssumption`, `MinorsAssumption`, `StatAssumption`,
`DpdkAssumption` and `ProcAssumption`, say that sizes and bounds are numbers, and
that the sensor's ring and its range of values are not empty.

### Only model-checked

* The liveness properties `EventHandled`, both `RemoveFinishes`, `SleeperRuns`,
  `AllPrinted` and `WaitsEnd`: reasoning under fairness is out of the prover's
  reach. What they rest on besides fairness is proved: `NoStrandedEvent`,
  `RemoveWaitsDown`, `NoStrandedSample`, `NoLostWakeUp` (of `MyFakeBellProofs` and
  of `MyBlkDevProofs`), `RemoveNotForgotten`, `NoSleeperForgotten` and
  `WaiterHasRunner`.
* That each of the 14 drivers outside `Sound` has the properties of the life cycle
  with its listed exceptions. After loading the model of a life cycle has no
  bound, so TLC visits every state of every table.

## Not modelled

* The threshold and status registers of the extended fakebell: its source is not
  in the repository; the commands that write them appear as users of the lock.
* The data paths of the netfilter hook and of the SPI, I2C, DMA, serial and network
  demos: single calls into a controller or on one packet, which share nothing that
  survives a call.
* The data paths of `myconfig` (one integer), `charrw` (`kernel_buffer`, which write
  fills from its start and read copies up to its first NUL) and `blk.c`
  (`block_memory`, copied request by request). They do share what survives a call,
  but it is a plain store that each call overwrites or copies without a lock, and
  the code promises nothing about calls that overlap.
* The data path of `chardev`: `msg` is written by open, which lets in one file at a
  time, and read by the byte loop that `CharIoctl` models, with the same unchecked
  offset. The life cycles of all of these are in `DriverTables`.
* `send_burst_test_packets` of `mydpdk.c`, which nothing calls.
* Packet contents, message texts and logging; humidity in `myproject`; file
  position arithmetic of `mydevice` beyond "not 0"; failures of
  `copy_from_user` in `charioctl`.
* `mysecure`, `myfuse` and the hello-world modules, which keep no state; kernel
  configurations and images.

## Plan

Every safety invariant of the runs is stated by a theorem. What could be added:

1. The order of the six drivers whose tables are concatenations, which needs
   lemmas about each concatenation first.
2. A criterion between `Orderly` and the known misuses, so that a driver with one
   fault is proved to have no other.
3. Action properties of the data paths: a reader's samples are never taken back,
   and the counts of the devices never go down.
