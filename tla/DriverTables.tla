---------------------------- MODULE DriverTables ----------------------------
(***************************************************************************)
(* The init, exit, probe and remove functions of the repository's drivers  *)
(* as the operations module Lifecycle runs.  One definition per function,  *)
(* in the order of its calls; an error path is listed with the call whose  *)
(* failure leads to it.  What a function does to memory it alone uses is   *)
(* left out.                                                               *)
(*                                                                         *)
(* Names of resources: region (device numbers), class, driver (registered  *)
(* driver), testdev (platform device the module registers itself), dev     *)
(* (the driver's device structure), cdev, node (in /dev), minor, base      *)
(* (mapped registers), irq (requested interrupt), line (interrupt enabled  *)
(* in the device), and names of their own where a driver has something     *)
(* special.                                                                *)
(***************************************************************************)
EXTENDS Lifecycle

-----------------------------------------------------------------------------
(* practice/mysensor/mysensor.c *)

sensor_undo == <<Put({"node"}), Put({"cdev"})>>

mysensor_probe == <<
  Devm({"dev"}, <<>>),
  Get({"cdev"}, <<>>),
  Get({"node"}, <<Put({"cdev"})>>),
  Set({"ring"}), Set({"wq"}),
  Chk(sensor_undo),
  Devm({"base"}, sensor_undo),
  Chk(sensor_undo),
  Devm({"irq"}, sensor_undo),
  Set({"line"})>>

mysensor_remove == <<Put({"node"}), Put({"cdev"})>>

mysensor_init == <<
  Try({"region"}),
  Get({"class"}, <<Put({"region"})>>),
  Get({"driver"}, <<>>)>>

mysensor_exit == <<Put({"class"}), Put({"region"}), Put({"driver"})>>

mysensor == [init |-> mysensor_init, exit |-> mysensor_exit,
             probe |-> mysensor_probe, remove |-> mysensor_remove,
             anchors |-> {"driver"}, entry |-> "cdev", pin |-> "none",
             calls |-> {Call("cdev", {"cdev"}, {"dev"}),
                        Call("file", {"file"}, {"dev", "ring", "wq"}),
                        Call("irq", {"irq", "line"}, {"dev", "base", "ring", "wq"})}]

-----------------------------------------------------------------------------
(* practice/myalarm/myalarm.c, built with DRIVER_TEST *)

alarm_undo == <<Put({"cdev"}), Put({"node"})>>

(* Mutant: a failed ioremap leaves the character device behind. *)
alarm_probe_Leaks == <<
  Devm({"dev"}, <<>>),
  Chk(<<>>),
  Set({"lock"}),
  Get({"cdev"}, <<>>),
  Get({"node"}, <<Put({"cdev"})>>),
  Set({"wq"}),
  Devm({"base"}, <<Put({"node"})>>),
  Chk(alarm_undo),
  Devm({"irq"}, alarm_undo),
  Set({"line"})>>

(* Mutant: the wait queue is not initialised. *)
alarm_probe_LateQueue == <<
  Devm({"dev"}, <<>>),
  Chk(<<>>),
  Set({"lock"}),
  Get({"cdev"}, <<>>),
  Get({"node"}, <<Put({"cdev"})>>),
  Devm({"base"}, alarm_undo),
  Chk(alarm_undo),
  Devm({"irq"}, alarm_undo),
  Set({"line"})>>

alarm_probe == <<
  Devm({"dev"}, <<>>),
  Chk(<<>>),
  Set({"lock"}),
  Get({"cdev"}, <<>>),
  Get({"node"}, <<Put({"cdev"})>>),
  Set({"wq"}),
  Devm({"base"}, alarm_undo),
  Chk(alarm_undo),
  Devm({"irq"}, alarm_undo),
  Set({"line"})>>

alarm_remove == <<Put({"line"}), Put({"cdev"}), Put({"node"})>>

myalarminit == <<
  Get({"region"}, <<>>),
  Get({"class"}, <<Put({"region"})>>),
  Get({"driver"}, <<Put({"class"}), Put({"region"})>>),
  Try({"testdev"})>>

(* Mutant: the class goes first. *)
myalarmexit_ClassFirst == <<
  Put({"class"}), Put({"driver"}), Put({"region"}), Drop({"testdev"})>>

myalarmexit == <<
  Put({"driver"}), Put({"class"}), Put({"region"}), Drop({"testdev"})>>

myalarm == [init |-> myalarminit, exit |-> myalarmexit,
            probe |-> alarm_probe, remove |-> alarm_remove,
            anchors |-> {"driver"}, entry |-> "cdev", pin |-> "none",
            calls |-> {Call("cdev", {"cdev"}, {"dev"}),
                       Call("file", {"file"}, {"dev", "lock", "wq"}),
                       Call("irq", {"irq", "line"}, {"dev", "base", "lock", "wq"})}]

-----------------------------------------------------------------------------
(* practice/myconfig/myconfig.c, built with TESTDRIVER *)

config_undo == <<Put({"node"}), Put({"cdev"}), Put({"minor"})>>

myconfigprobe == <<
  Devm({"dev"}, <<>>),
  Get({"minor"}, <<>>),
  Get({"cdev"}, <<Put({"minor"})>>),
  Get({"node"}, <<Put({"minor"}), Put({"cdev"})>>),
  Get({"config"}, config_undo),
  Get({"status"}, <<Put({"config"})>> \o config_undo)>>

myconfigremove == <<Put({"config"}), Put({"status"})>> \o config_undo

(* When the second test device is allocated but cannot be added, it is the *)
(* first one that is put and forgotten.                                    *)
myintfinit == <<
  Get({"region"}, <<>>),
  Get({"class"}, <<Put({"region"})>>),
  Get({"driver"}, <<Put({"class"}), Put({"region"})>>),
  Try({"testdev"}),
  TryElse({"testdev2"}, <<TryElse({}, <<Lose({"testdev"}), Set({"unadded"})>>)>>)>>

myintfexit == <<
  Drop({"testdev"}),
  Drop({"testdev2"}), Spoil({"unadded"}),
  Put({"driver"}), Put({"class"}), Put({"region"}), Drop({"minor"})>>

myconfig == [init |-> myintfinit, exit |-> myintfexit,
             probe |-> myconfigprobe, remove |-> myconfigremove,
             anchors |-> {"driver"}, entry |-> "cdev", pin |-> "owner",
             calls |-> {Call("cdev", {"cdev"}, {"dev"}),
                        Call("file", {"file"}, {"dev"}),
                        Call("config", {"config"}, {"dev"}),
                        Call("status", {"status"}, {"dev"})}]

-----------------------------------------------------------------------------
(* practice/myfakebell/myfakebell.c *)

fakebell_undo == <<Put({"node"}), Put({"cdev"}), Put({"minor"}), Put({"dev"})>>

myfakebell_init == <<Set({"lock"}), Set({"ring"}), Set({"wq"})>>

myfbprobe == <<
  Get({"dev"}, <<>>),
  Get({"minor"}, <<Put({"dev"})>>),
  Get({"cdev"}, <<Put({"minor"}), Put({"dev"})>>),
  Get({"node"}, <<Put({"cdev"}), Put({"minor"}), Put({"dev"})>>),
  Chk(fakebell_undo),
  Devm({"base"}, fakebell_undo)>>
  \o myfakebell_init \o <<
  Set({"line"}),
  Chk(fakebell_undo),
  Devm({"irq"}, fakebell_undo)>>

myfbremove == fakebell_undo

myfbinit == <<
  Get({"region"}, <<>>),
  Get({"class"}, <<Put({"region"})>>),
  Get({"driver"}, <<Put({"class"}), Put({"region"})>>)>>

myfbexit == <<Put({"driver"}), Put({"class"}), Put({"region"})>>

myfakebell == [init |-> myfbinit, exit |-> myfbexit,
               probe |-> myfbprobe, remove |-> myfbremove,
               anchors |-> {"driver"}, entry |-> "cdev", pin |-> "owner",
               calls |-> {Call("cdev", {"cdev"}, {"dev"}),
                          Call("file", {"file"}, {"dev", "base", "lock", "ring", "wq"}),
                          Call("irq", {"irq", "line"}, {"dev", "base", "lock", "ring", "wq"})}]

-----------------------------------------------------------------------------
(* practice/myblkdev/myblkdev.c, built with TESTDRIVER *)

blk_undo == <<Put({"node"}), Put({"cdev"}), Put({"minor"})>>

myblkprobe == <<
  Devm({"dev"}, <<>>),
  Get({"minor"}, <<>>),
  Get({"cdev"}, <<Put({"minor"})>>),
  Get({"node"}, <<Put({"cdev"}), Put({"minor"})>>),
  Get({"map"}, blk_undo),
  Set({"wq"}), Set({"lock"}), Set({"timer"})>>

(* Mutant: the timer is still pending when the memory goes. *)
myblkremove_TimerLast == blk_undo \o <<Put({"map"}), Put({"timer"})>>

myblkremove == <<Put({"timer"})>> \o blk_undo \o <<Put({"map"})>>

myblkinit == <<
  Get({"region"}, <<>>),
  Get({"class"}, <<Put({"region"})>>),
  Get({"driver"}, <<Put({"class"}), Put({"region"})>>),
  Try({"testdev"})>>

myblkexit == <<
  Drop({"testdev"}), Drop({"minor"}),
  Put({"driver"}), Put({"class"}), Put({"region"})>>

myblkdev == [init |-> myblkinit, exit |-> myblkexit,
             probe |-> myblkprobe, remove |-> myblkremove,
             anchors |-> {"driver", "testdev"}, entry |-> "cdev", pin |-> "owner",
             calls |-> {Call("cdev", {"cdev"}, {"dev"}),
                        Call("file", {"file"}, {"dev", "map", "wq"}),
                        Call("timer", {"timer"}, {"dev", "map", "wq", "lock"})}]

-----------------------------------------------------------------------------
(* practice/mydevice/mydevice.c, built with TESTDRIVER.  The wait of       *)
(* mydevremove for the files may be interrupted; module MyDevice is about  *)
(* it.                                                                     *)

mydevice_init == <<Set({"lock"}), Set({"wq"})>>

mydevprobe == <<
  Devm({"dev"}, <<>>),
  Get({"minor"}, <<>>),
  Get({"cdev"}, <<Put({"minor"})>>),
  Get({"node"}, <<Put({"cdev"}), Put({"minor"})>>)>>
  \o mydevice_init

mydevremove == <<Put({"node"}), Put({"cdev"}), Put({"minor"})>>

mydevinit == <<
  Get({"region"}, <<>>),
  Get({"class"}, <<Put({"region"})>>),
  Get({"driver"}, <<Put({"class"}), Put({"region"})>>),
  Try({"testdev"}), Try({"testdev2"})>>

mydevexit == <<
  Drop({"testdev"}), Drop({"testdev2"}),
  Put({"driver"}), Put({"class"}), Put({"region"}), Drop({"minor"})>>

mydevice == [init |-> mydevinit, exit |-> mydevexit,
             probe |-> mydevprobe, remove |-> mydevremove,
             anchors |-> {"driver", "testdev"}, entry |-> "cdev", pin |-> "owner",
             calls |-> {Call("cdev", {"cdev"}, {"dev"}),
                        Call("file", {"file"}, {"dev", "lock", "wq"})}]

-----------------------------------------------------------------------------
(* myproject/driver/src/mysensordrv.c, built with DRIVER_TEST.  Beside its *)
(* test devices the driver matches the node "zxy,fakesensor" of the        *)
(* project's device tree, which test_exit does not remove: the device is   *)
(* bound until the driver goes.  The table of minors is the subject of     *)
(* module SensorMinors.                                                    *)

myssdrv_probe == <<
  Get({"minor"}, <<>>),
  Get({"dev"}, <<Put({"minor"})>>),
  Get({"cdev"}, <<Put({"minor"}), Put({"dev"})>>),
  Get({"node"}, <<Put({"cdev"}), Put({"minor"}), Put({"dev"})>>),
  Set({"stat"}), Set({"wq"})>>

myssdrv_remove == <<Put({"cdev"}), Put({"minor"}), Put({"node"}), Put({"dev"})>>

test_init == <<Try({"testdev"}), Try({"testdev2"})>>

test_exit == <<Drop({"testdev"}), Drop({"testdev2"})>>

myssdrv_init == <<
  Get({"region"}, <<>>),
  Get({"class"}, <<Put({"region"})>>),
  Get({"driver"}, <<Put({"class"}), Put({"region"})>>)>>
  \o test_init

myssdrv_exit == test_exit \o <<Put({"class"}), Put({"driver"}), Put({"region"})>>

mysensordrv == [init |-> myssdrv_init, exit |-> myssdrv_exit,
                probe |-> myssdrv_probe, remove |-> myssdrv_remove,
                anchors |-> {"driver"}, entry |-> "cdev", pin |-> "none",
                calls |-> {Call("cdev", {"cdev"}, {"dev"}),
                           Call("file", {"file"}, {"dev", "stat", "wq"})}]

-----------------------------------------------------------------------------
(* myirq/mybell.c *)

mybell_probe == <<
  Chk(<<>>),
  Devm({"dev"}, <<>>),
  Devm({"base"}, <<>>),
  Chk(<<>>),
  Devm({"irq"}, <<>>),
  Set({"line"})>>

mybell_remove == <<Put({"line"})>>

mybell_init == <<Get({"driver"}, <<>>)>>

mybell_exit == <<Put({"driver"})>>

mybell == [init |-> mybell_init, exit |-> mybell_exit,
           probe |-> mybell_probe, remove |-> mybell_remove,
           anchors |-> {"driver"}, entry |-> "none", pin |-> "none",
           calls |-> {Call("irq", {"irq", "line"}, {"dev", "base"})}]

-----------------------------------------------------------------------------
(* myusb/myusb.c.  urb is the allocated request, inflight the submitted    *)
(* one; usb_kill_urb ends it and waits for its callback.                   *)

usb_error == <<Drop({"urb"}), Drop({"buffer"}), Put({"udev"}), Put({"dev"})>>

(* Mutant: the node is registered before the lock is initialised. *)
panicb_probe_EarlyNode == <<
  Get({"dev"}, <<>>),
  Set({"udev"}),
  Get({"usbdev"}, <<Put({"udev"}), Put({"dev"})>>),
  Set({"lock"}),
  Chk(<<Put({"usbdev"})>> \o usb_error),
  Get({"buffer"}, <<Put({"usbdev"})>> \o usb_error),
  Get({"urb"}, <<Put({"usbdev"})>> \o usb_error),
  Get({"inflight"}, <<Put({"usbdev"})>> \o usb_error)>>

panicb_probe == <<
  Get({"dev"}, <<>>),
  Set({"udev"}), Set({"lock"}),
  Chk(usb_error),
  Get({"buffer"}, usb_error),
  Get({"urb"}, usb_error),
  Get({"usbdev"}, usb_error),
  Get({"inflight"}, <<Put({"usbdev"})>> \o usb_error)>>

panicb_disconnect == <<
  Put({"usbdev"}), Put({"inflight"}),
  Put({"urb"}), Put({"buffer"}), Put({"udev"}), Put({"dev"})>>

usb_panicb_init == <<Get({"driver"}, <<>>)>>

usb_panicb_exit == <<Put({"driver"})>>

myusb == [init |-> usb_panicb_init, exit |-> usb_panicb_exit,
          probe |-> panicb_probe, remove |-> panicb_disconnect,
          anchors |-> {"driver"}, entry |-> "usbdev", pin |-> "owner",
          calls |-> {Call("usbdev", {"usbdev"}, {"dev"}),
                     Call("file", {"file"}, {"dev", "lock"}),
                     Call("urb", {"inflight"}, {"dev", "lock", "urb", "buffer"})}]

-----------------------------------------------------------------------------
(* myblkdev/blk.c *)

block_init == <<
  Get({"memory"}, <<>>),
  Get({"dev"}, <<Put({"memory"})>>),
  Get({"major"}, <<Put({"dev"}), Put({"memory"})>>),
  Get({"tags"}, <<Put({"major"}), Put({"dev"}), Put({"memory"})>>),
  Get({"disk"}, <<Put({"tags"}), Put({"major"}), Put({"dev"}), Put({"memory"})>>),
  Get({"added"}, <<Put({"disk"}), Put({"tags"}), Put({"major"}),
                   Put({"dev"}), Put({"memory"})>>)>>

block_exit == <<
  Drop({"added"}), Drop({"disk"}),
  Put({"tags"}), Put({"major"}), Put({"dev"}), Put({"memory"})>>

block == [init |-> block_init, exit |-> block_exit, probe |-> <<>>, remove |-> <<>>,
          anchors |-> {}, entry |-> "added", pin |-> "owner",
          calls |-> {Call("queue", {"added"}, {"disk", "tags", "memory"}),
                     Call("file", {"file"}, {"dev", "memory"})}]

-----------------------------------------------------------------------------
(* chardev/rdwr/charrw.c, chardev/rdonly/chardev.c, chardev/ioctl/         *)
(* charioctl.c and procfs/procfs.c                                         *)

mycdev_init == <<
  Get({"region"}, <<>>),
  Get({"cdev"}, <<Put({"region"})>>),
  Get({"class"}, <<Put({"region"})>>),
  Get({"node"}, <<Put({"class"}), Put({"region"})>>),
  Get({"buffer"}, <<Put({"class"}), Put({"region"})>>)>>

mycdev_exit == <<
  Put({"buffer"}), Put({"node"}), Put({"class"}), Put({"cdev"}), Put({"region"})>>

(* Mutant: the file operations name no owner. *)
charrw_NoOwner == [init |-> mycdev_init, exit |-> mycdev_exit, probe |-> <<>>, remove |-> <<>>,
                   anchors |-> {}, entry |-> "cdev", pin |-> "none",
                   calls |-> {Call("cdev", {"cdev"}, {}), Call("file", {"file"}, {"buffer"})}]

charrw == [init |-> mycdev_init, exit |-> mycdev_exit, probe |-> <<>>, remove |-> <<>>,
           anchors |-> {}, entry |-> "cdev", pin |-> "owner",
           calls |-> {Call("cdev", {"cdev"}, {}), Call("file", {"file"}, {"buffer"})}]

chardev_init == <<Get({"chrdev"}, <<>>), Try({"class"}), Try({"node"})>>

chardev_exit == <<Drop({"node"}), Drop({"class"}), Put({"chrdev"})>>

chardev == [init |-> chardev_init, exit |-> chardev_exit, probe |-> <<>>, remove |-> <<>>,
            anchors |-> {}, entry |-> "chrdev", pin |-> "open",
            calls |-> {Call("chrdev", {"chrdev"}, {}), Call("file", {"file"}, {})}]

chardev2_init == <<Get({"chrdev"}, <<>>), Try({"class"}), Try({"node"})>>

chardev2_exit == <<Drop({"node"}), Drop({"class"}), Put({"chrdev"})>>

charioctl == [init |-> chardev2_init, exit |-> chardev2_exit,
              probe |-> <<>>, remove |-> <<>>,
              anchors |-> {}, entry |-> "chrdev", pin |-> "open",
              calls |-> {Call("chrdev", {"chrdev"}, {}), Call("file", {"file"}, {})}]

procfs_init == <<Get({"dir"}, <<>>), Get({"proc"}, <<>>)>>

procfs_exit == <<Put({"dir", "proc"})>>

procfs == [init |-> procfs_init, exit |-> procfs_exit, probe |-> <<>>, remove |-> <<>>,
           anchors |-> {}, entry |-> "proc", pin |-> "open",
           calls |-> {Call("proc", {"proc"}, {"dir"}), Call("file", {"file"}, {})}]

-----------------------------------------------------------------------------
(* Drivers of hardware demonstrations: myserial, myspi, myi2c, mydma,      *)
(* mynetcard, mypci                                                        *)

simple_serial_init == <<
  Get({"pdev"}, <<>>),
  Get({"uart"}, <<Put({"pdev"})>>),
  Get({"port"}, <<Put({"uart"}), Put({"pdev"})>>)>>

simple_serial_exit == <<Put({"port"}), Put({"uart"}), Drop({"pdev"})>>

myserial == [init |-> simple_serial_init, exit |-> simple_serial_exit,
             probe |-> <<>>, remove |-> <<>>,
             anchors |-> {}, entry |-> "port", pin |-> "owner",
             calls |-> {Call("port", {"port"}, {"uart", "pdev"}), Call("file", {"file"}, {"port"})}]

fake_spi_create_device == <<
  Get({"spidev"}, <<Put({"ctlr", "registered"}), Put({"pdev"})>>)>>

fake_spi_init == <<
  Get({"pdev"}, <<>>),
  Get({"ctlr"}, <<Put({"pdev"})>>),
  Get({"registered"}, <<Put({"ctlr"}), Put({"pdev"})>>)>>
  \o fake_spi_create_device

fake_spi_exit == <<Drop({"spidev"}), Drop({"ctlr", "registered"}), Drop({"pdev"})>>

myspidev == [init |-> fake_spi_init, exit |-> fake_spi_exit, probe |-> <<>>, remove |-> <<>>,
             anchors |-> {}, entry |-> "none", pin |-> "none",
             calls |-> {Call("transfer", {"spidev"}, {"ctlr", "registered", "pdev"})}]

spi_device_probe == <<Chk(<<>>), Chk(<<>>)>>

myspidrv == [init |-> <<Get({"driver"}, <<>>)>>, exit |-> <<Put({"driver"})>>,
             probe |-> spi_device_probe, remove |-> <<>>,
             anchors |-> {"driver"}, entry |-> "none", pin |-> "none",
             calls |-> {Call("driver", {"driver"}, {})}]

(* A failing i2c_new_client_device is not noticed: it does not return NULL. *)
etx_driver_init == <<
  Opt({"adapter"}), Try({"client"}), Try({"driver"}), Put({"adapter"})>>

etx_driver_exit == <<Drop({"client"}), Put({"driver"})>>

myi2c == [init |-> etx_driver_init, exit |-> etx_driver_exit,
          probe |-> <<>>, remove |-> <<>>,
          anchors |-> {"driver", "client"}, entry |-> "none", pin |-> "none",
          calls |-> {Call("driver", {"driver"}, {})}]

dma_nic_probe == <<
  Get({"dev"}, <<>>),
  Get({"pci"}, <<Put({"dev"})>>),
  Chk(<<Put({"pci"}), Put({"dev"})>>),
  Get({"buffer"}, <<Put({"pci"}), Put({"dev"})>>),
  Get({"netdev"}, <<Put({"buffer"}), Put({"pci"}), Put({"dev"})>>)>>

dma_nic_remove == <<Drop({"netdev"}), Drop({"buffer"}), Put({"pci"}), Put({"dev"})>>

mydma == [init |-> <<Get({"driver"}, <<>>)>>, exit |-> <<Put({"driver"})>>,
          probe |-> dma_nic_probe, remove |-> dma_nic_remove,
          anchors |-> {"driver"}, entry |-> "none", pin |-> "none",
          calls |-> {Call("driver", {"driver"}, {})}]

my_probe == <<
  Get({"pci"}, <<>>),
  Get({"netdev"}, <<Put({"pci"})>>),
  Get({"interface"}, <<Put({"netdev"}), Put({"pci"})>>)>>

my_remove == <<Put({"interface"}), Put({"netdev"}), Put({"pci"})>>

mynetcard == [init |-> <<Get({"driver"}, <<>>)>>, exit |-> <<Put({"driver"})>>,
              probe |-> my_probe, remove |-> my_remove,
              anchors |-> {"driver"}, entry |-> "none", pin |-> "none",
              calls |-> {Call("interface", {"interface"}, {"netdev", "pci"})}]

simple_pci_probe == <<Get({"dev"}, <<>>), Get({"pci"}, <<Put({"dev"})>>)>>

simple_pci_remove == <<Put({"pci"}), Put({"dev"})>>

mypci == [init |-> <<Get({"driver"}, <<>>)>>, exit |-> <<Put({"driver"})>>,
          probe |-> simple_pci_probe, remove |-> simple_pci_remove,
          anchors |-> {"driver"}, entry |-> "none", pin |-> "none",
          calls |-> {Call("driver", {"driver"}, {})}]

-----------------------------------------------------------------------------
(* Kernel services: mymem, mynfhook, mykthread, myworkqueue.  The exit of  *)
(* mymem has no pointer to what init allocated and frees nothing.          *)

mem_alloc_init == <<
  Get({"drv"}, <<>>),
  Get({"kmalloc"}, <<Put({"drv"})>>),
  Get({"vmalloc"}, <<Put({"kmalloc"}), Put({"drv"})>>),
  Get({"pages"}, <<Put({"vmalloc"}), Put({"kmalloc"}), Put({"drv"})>>),
  Get({"free_pages"}, <<Put({"pages"}), Put({"vmalloc"}), Put({"kmalloc"}), Put({"drv"})>>)>>

mem_alloc_exit == <<>>

Service(init, exit, calls) ==
  [init |-> init, exit |-> exit, probe |-> <<>>, remove |-> <<>>,
   anchors |-> {}, entry |-> "none", pin |-> "none", calls |-> calls]

mymem == Service(mem_alloc_init, mem_alloc_exit, {})

nf_hook_init == <<Get({"hook"}, <<>>)>>

nf_hook_exit == <<Put({"hook"})>>

nf_hook == Service(nf_hook_init, nf_hook_exit, {Call("hook", {"hook"}, {})})

kthread_init == <<Get({"thread"}, <<>>)>>

kthread_exit == <<Put({"thread"})>>

mykthread == Service(kthread_init, kthread_exit, {Call("thread", {"thread"}, {})})

workqueue_init == <<Get({"workqueue"}, <<>>), Set({"work"})>>

workqueue_exit == <<Put({"workqueue", "work"})>>

myworkqueue == Service(workqueue_init, workqueue_exit,
                       {Call("work", {"work"}, {"workqueue"})})

-----------------------------------------------------------------------------
(* Buses, devices, drivers and a class without hardware: mybus, mydevice,  *)
(* mydriver, myclass                                                       *)

mybus_init == <<Get({"bus"}, <<>>), Get({"descr"}, <<>>), Get({"pad"}, <<>>)>>

mybus_exit == <<Put({"descr"}), Put({"pad"}), Put({"bus"})>>

mybus == Service(mybus_init, mybus_exit,
                 {Call("descr", {"descr"}, {"bus"}), Call("pad", {"pad"}, {"bus"})})

(* Both registrations are tried, and either failure fails the init. *)
busdev_init == <<Try({"bus"}), Try({"busdev"}), Require({"bus", "busdev"})>>

busdev_exit == <<Put({"bus"}), Put({"busdev"})>>

mybusdev == Service(busdev_init, busdev_exit, {Call("bus", {"bus"}, {})})

drvbus_init == <<Try({"bus"}), Try({"busdev"}), Require({"bus", "busdev"})>>

drvbus_exit == <<Put({"bus"}), Put({"busdev"})>>

mydrvbus == Service(drvbus_init, drvbus_exit, {Call("bus", {"bus"}, {})})

child_init == <<Get({"child"}, <<>>)>>

child_exit == <<Put({"child"})>>

mychild == Service(child_init, child_exit, {Call("child", {"child"}, {})})

drvchild_init == <<Try({"child"}), Get({"busdriver"}, <<>>)>>

drvchild_exit == <<Put({"child"}), Put({"busdriver"})>>

mydrvchild == Service(drvchild_init, drvchild_exit, {Call("child", {"child"}, {})})

class_init == <<Try({"class"}), Get({"region"}, <<>>), Try({"node"})>>

class_cleanup == <<Drop({"node"}), Put({"class"}), Put({"region"})>>

myclass == Service(class_init, class_cleanup, {Call("class", {"class"}, {})})

=============================================================================
