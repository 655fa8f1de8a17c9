----------------------------- MODULE SensorText -----------------------------
(***************************************************************************)
(* device_read of myproject/driver/src/mysensordrv.c.  Every read formats  *)
(* the status of its device into one static buffer, shared by all files of *)
(* all devices, and copies from its offset on up to a NUL; reads of        *)
(* different files overlap.  A cell of the buffer holds the device whose   *)
(* text it belongs to, or NUL; sprintf stores the text, then its NUL.      *)
(*                                                                         *)
(* read(2) takes and moves the file's offset, pread(2) takes its caller's, *)
(* which is not checked: outside the buffer is memory of unknown content.  *)
(* The cell MaxText stands for all of the buffer that no text reaches.     *)
(***************************************************************************)
EXTENDS Integers

CONSTANTS
  Files,      \* one file of each device
  MaxText,    \* longest text; the buffer is longer than that
  MaxReads,   \* bound on the reads
  Offsets,    \* the offsets that callers of pread give
  NUL

VARIABLES
  message,    \* the static buffer
  off,        \* the offset of each file
  pc, at, left, len,   \* each read: next step, next cell, bytes wanted, text length
  pread,      \* whether its offset is the caller's
  outside,    \* history: whether that offset was outside the buffer
  seen,       \* history: devices whose bytes the read of each file got
  overlapped, \* history: another read formatted since this one did
  reads       \* reads so far

vars == <<message, off, pc, at, left, len, pread, outside, seen, overlapped, reads>>

Cells == 0 .. MaxText

(* What a load of message[i] may find. *)
Byte(i) == IF i \in Cells THEN {message[i]} ELSE {"unknown", NUL}

Init ==
  /\ message = [i \in Cells |-> NUL]
  /\ off = [f \in Files |-> 0]
  /\ pread = [f \in Files |-> FALSE] /\ outside = [f \in Files |-> FALSE]
  /\ pc = [f \in Files |-> "idle"] /\ at = [f \in Files |-> 0]
  /\ left = [f \in Files |-> 0] /\ len = [f \in Files |-> 1]
  /\ seen = [f \in Files |-> {}] /\ overlapped = [f \in Files |-> FALSE]
  /\ reads = 0

Goto(f, l) == pc' = [pc EXCEPT ![f] = l]

(* device_read returns, and its local state is gone. *)
Return(f) ==
  /\ Goto(f, "idle")
  /\ pread' = [pread EXCEPT ![f] = FALSE] /\ outside' = [outside EXCEPT ![f] = FALSE]
  /\ at' = [at EXCEPT ![f] = 0] /\ left' = [left EXCEPT ![f] = 0]
  /\ len' = [len EXCEPT ![f] = 1]
  /\ seen' = [seen EXCEPT ![f] = {}] /\ overlapped' = [overlapped EXCEPT ![f] = FALSE]

(* The text of sprintf, n bytes long: temperature, humidity and alarm have *)
(* as many digits as they happen to have now.                              *)
Format(f, n, size, p, o) ==
  /\ pc[f] = "idle" /\ reads < MaxReads
  /\ o \in IF p THEN Offsets ELSE {off[f]}
  /\ pread' = [pread EXCEPT ![f] = p] /\ outside' = [outside EXCEPT ![f] = o \notin Cells]
  /\ at' = [at EXCEPT ![f] = o]
  /\ reads' = reads + 1
  /\ message' = [i \in Cells |-> IF i < n THEN f ELSE message[i]]
  /\ len' = [len EXCEPT ![f] = n]
  /\ left' = [left EXCEPT ![f] = size]
  /\ overlapped' = [g \in Files |-> IF g = f THEN \E h \in Files : pc[h] = "end"
                                             ELSE overlapped[g] \/ pc[g] # "idle"]
  /\ Goto(f, "end")
  /\ UNCHANGED <<off, seen>>

Terminate(f) ==
  /\ pc[f] = "end"
  /\ message' = [message EXCEPT ![len[f]] = NUL]
  /\ overlapped' = [g \in Files |-> overlapped[g] \/ (g # f /\ pc[g] # "idle")]
  /\ Goto(f, "test")
  /\ UNCHANGED <<off, pread, outside, at, left, len, seen, reads>>

(* At the end of the text the offset starts over, and the read returns 0.  *)
Test(f) ==
  /\ pc[f] = "test"
  /\ \/ /\ NUL \in Byte(at[f])
        /\ off' = IF pread[f] THEN off ELSE [off EXCEPT ![f] = 0]
        /\ Return(f)
     \/ /\ Byte(at[f]) # {NUL}
        /\ Goto(f, "copy")
        /\ UNCHANGED <<off, pread, outside, at, left, len, seen, overlapped>>
  /\ UNCHANGED <<message, reads>>

(* Mutant: copies as many bytes as the caller wants. *)
Copy_NoNul(f) ==
  /\ pc[f] = "copy" /\ left[f] > 0
  /\ Goto(f, "put")
  /\ UNCHANGED <<message, off, pread, outside, at, left, len, seen, overlapped, reads>>

(* The loop's test; the byte is perhaps loaded again to be copied. *)
Copy(f) ==
  /\ pc[f] = "copy" /\ left[f] > 0 /\ Byte(at[f]) # {NUL}
  /\ Goto(f, "put")
  /\ UNCHANGED <<message, off, pread, outside, at, left, len, seen, overlapped, reads>>

Put(f) ==
  /\ pc[f] = "put"
  /\ \E b \in Byte(at[f]) : seen' = [seen EXCEPT ![f] = @ \cup {b}]
  /\ at' = [at EXCEPT ![f] = @ + 1]
  /\ left' = [left EXCEPT ![f] = @ - 1]
  /\ Goto(f, "copy")
  /\ UNCHANGED <<message, off, pread, outside, len, overlapped, reads>>

Done(f) ==
  /\ pc[f] = "copy" /\ (left[f] = 0 \/ NUL \in Byte(at[f]))
  /\ off' = IF pread[f] THEN off ELSE [off EXCEPT ![f] = at[f]]
  /\ Return(f)
  /\ UNCHANGED <<message, reads>>

Next ==
  \E f \in Files :
    \/ \E n \in 1 .. MaxText, size \in {1, MaxText + 1}, p \in BOOLEAN, o \in Offsets \cup Cells :
         Format(f, n, size, p, o)
    \/ Terminate(f) \/ Test(f) \/ Copy(f) \/ Put(f) \/ Done(f)

Spec == Init /\ [][Next]_vars

-----------------------------------------------------------------------------
(* Properties. *)

(* A file's own offset never leaves the buffer, whatever reads overlap and *)
(* however short they were, and neither does a read that begins inside it: *)
(* a NUL stops it at the latest behind the longest text.  Such a read gets *)
(* bytes of another device only through an overlapping read, or as the     *)
(* rest of a longer text behind a shorter one, from an offset that an      *)
(* earlier read of the file had left there or its caller gave.  Only a     *)
(* caller's offset outside the buffer, which nobody checks, leads a read   *)
(* out of it.                                                              *)
TextStaysOwn ==
  \A f \in Files :
    /\ off[f] \in Cells
    /\ outside[f] => pread[f]
    /\ ~outside[f] => /\ at[f] \in Cells
                      /\ seen[f] \subseteq {f} \/ overlapped[f] \/ at[f] > len[f]

=============================================================================
