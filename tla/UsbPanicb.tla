----------------------------- MODULE UsbPanicb ------------------------------
(***************************************************************************)
(* myusb/myusb.c from the first submission of its interrupt transfer on:   *)
(* the completion handler, which submits the transfer again, files that    *)
(* ask for the button, and the disconnect.  A report is its first byte, or *)
(* NoByte when it is empty.                                                *)
(*                                                                         *)
(* External, from how the driver uses it: a submitted URB completes once,  *)
(* with a status; usb_kill_urb first rejects submissions, then takes the   *)
(* URB back and waits until its handler has returned.                      *)
(***************************************************************************)
EXTENDS Naturals

CONSTANTS
  Files,       \* processes that open the device
  Bytes,       \* first bytes of reports
  NoByte,      \* an empty report
  MaxReports,  \* bound on the completions
  MaxOpens     \* bound on the opens

VARIABLES
  disc,        \* progress of panicb_disconnect
  urb,         \* idle, flying, or in its handler
  reject,      \* usb_kill_urb is under way
  status, report,     \* of the completed URB
  button,      \* dev->button
  intfdata,    \* usb_get_intfdata finds the device
  pc,          \* closed or opened
  result,      \* what each file's last ioctl returned
  reports, opens,     \* completions and opens so far
  last,        \* history: first byte of the last report that was not empty
  stopped      \* history: the handler gave the transfer up

urbVars == <<urb, status, report>>
vars == <<disc, urbVars, reject, button, intfdata, pc, result, reports, opens, last, stopped>>

Init ==
  /\ disc = "bound" /\ urb = "flying" /\ reject = FALSE
  /\ status = "ok" /\ report = NoByte
  /\ button = 0 /\ intfdata = TRUE
  /\ pc = [f \in Files |-> "closed"] /\ result = [f \in Files |-> 0]
  /\ reports = 0 /\ opens = 0 /\ last = 0 /\ stopped = FALSE

-----------------------------------------------------------------------------
(* The transfer and panicb_int_callback. *)

(* "gone" stands for -ENOENT, -ECONNRESET and -ESHUTDOWN. *)
Complete(s, r) ==
  /\ urb = "flying" /\ reports < MaxReports
  /\ reports' = reports + 1
  /\ urb' = "handler" /\ status' = s /\ report' = r
  /\ last' = IF s = "ok" /\ r # NoByte THEN r ELSE last
  /\ UNCHANGED <<disc, reject, button, intfdata, pc, result, opens, stopped>>

(* Mutant: an empty report ends the polling. *)
CallbackStore_EmptyEnds ==
  /\ urb = "handler"
  /\ button' = IF status = "ok" /\ report # NoByte THEN report ELSE button
  /\ urb' = IF status = "gone" \/ report = NoByte THEN "idle" ELSE "resubmit"
  /\ stopped' = (stopped \/ status = "gone")
  /\ UNCHANGED <<disc, status, report, reject, intfdata, pc, result, reports, opens, last>>

(* l.48-78 *)
CallbackStore ==
  /\ urb = "handler"
  /\ button' = IF status = "ok" /\ report # NoByte THEN report ELSE button
  /\ urb' = IF status = "gone" THEN "idle" ELSE "resubmit"
  /\ stopped' = (stopped \/ status = "gone")
  /\ UNCHANGED <<disc, status, report, reject, intfdata, pc, result, reports, opens, last>>

(* l.80: the submission is refused while the URB is being killed, or fails. *)
CallbackSubmit ==
  /\ urb = "resubmit"
  /\ \/ ~reject /\ urb' = "flying" /\ UNCHANGED stopped
     \/ urb' = "idle" /\ stopped' = TRUE
  /\ UNCHANGED <<disc, status, report, reject, button, intfdata, pc, result, reports, opens, last>>

-----------------------------------------------------------------------------
(* panicb_open runs under the lock of usb_open that usb_deregister_dev     *)
(* also takes; panicb_ioctl takes no part in that.  A file that is still   *)
(* open when the device is freed has a dangling pointer: what its ioctl    *)
(* then does is undefined, and it takes no further step here.              *)

panicb_open(f) ==
  /\ pc[f] = "closed" /\ opens < MaxOpens
  /\ disc \in {"bound", "cleared"}
  /\ opens' = opens + 1
  /\ pc' = [pc EXCEPT ![f] = IF intfdata THEN "opened" ELSE "closed"]
  /\ UNCHANGED <<disc, urbVars, reject, button, intfdata, result, reports, last, stopped>>

panicb_ioctl(f) ==
  /\ pc[f] = "opened" /\ disc # "freed"
  /\ result' = [result EXCEPT ![f] = button]
  /\ UNCHANGED <<disc, urbVars, reject, button, intfdata, pc, reports, opens, last, stopped>>

panicb_release(f) ==
  /\ pc[f] = "opened"
  /\ pc' = [pc EXCEPT ![f] = "closed"]
  /\ UNCHANGED <<disc, urbVars, reject, button, intfdata, result, reports, opens, last, stopped>>

-----------------------------------------------------------------------------
(* panicb_disconnect. *)

DisconnectClear ==
  /\ disc = "bound"
  /\ disc' = "cleared" /\ intfdata' = FALSE
  /\ UNCHANGED <<urbVars, reject, button, pc, result, reports, opens, last, stopped>>

DisconnectDeregister ==
  /\ disc = "cleared"
  /\ disc' = "deregistered"
  /\ UNCHANGED <<urbVars, reject, button, intfdata, pc, result, reports, opens, last, stopped>>

KillStart ==
  /\ disc = "deregistered"
  /\ disc' = "killing" /\ reject' = TRUE
  /\ UNCHANGED <<urbVars, button, intfdata, pc, result, reports, opens, last, stopped>>

(* A URB in flight is completed with -ENOENT. *)
KillUnlink ==
  /\ disc = "killing" /\ urb = "flying"
  /\ urb' = "handler" /\ status' = "gone"
  /\ UNCHANGED <<disc, report, reject, button, intfdata, pc, result, reports, opens, last, stopped>>

(* Mutant: usb_unlink_urb, which does not wait for the handler. *)
KillDone_NoWait ==
  /\ disc = "killing"
  /\ disc' = "killed" /\ reject' = FALSE
  /\ UNCHANGED <<urbVars, button, intfdata, pc, result, reports, opens, last, stopped>>

KillDone ==
  /\ disc = "killing" /\ urb = "idle"
  /\ disc' = "killed" /\ reject' = FALSE
  /\ UNCHANGED <<urbVars, button, intfdata, pc, result, reports, opens, last, stopped>>

(* usb_free_urb, kfree of the buffer, usb_put_dev, kfree of the device. *)
DisconnectFree ==
  /\ disc = "killed"
  /\ disc' = "freed"
  /\ UNCHANGED <<urbVars, reject, button, intfdata, pc, result, reports, opens, last, stopped>>

-----------------------------------------------------------------------------

Next ==
  \/ \E r \in Bytes \cup {NoByte} : Complete("ok", r)
  \/ \E s \in {"gone", "error"} : Complete(s, NoByte)
  \/ CallbackStore \/ CallbackSubmit
  \/ \E f \in Files : panicb_open(f) \/ panicb_ioctl(f) \/ panicb_release(f)
  \/ DisconnectClear \/ DisconnectDeregister \/ KillStart \/ KillUnlink \/ KillDone
  \/ DisconnectFree

Spec == Init /\ [][Next]_vars

-----------------------------------------------------------------------------
(* Properties. *)

(* The button is watched until the disconnect, whatever the reports are,   *)
(* unless a submission failed or the device was gone; outside the handler  *)
(* the driver holds the last report; and the transfer and its handler are  *)
(* over when the device's memory goes, also when the handler was just      *)
(* submitting the transfer again.                                          *)
ButtonWatched ==
  /\ disc = "bound" /\ ~stopped => urb # "idle"
  /\ urb # "handler" => button = last
  /\ disc \in {"killed", "freed"} => urb = "idle"

=============================================================================
