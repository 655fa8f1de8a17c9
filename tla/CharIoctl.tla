----------------------------- MODULE CharIoctl -----------------------------
(***************************************************************************)
(* chardev/ioctl/charioctl.c: a device that keeps one message.  ioctl sets *)
(* and gets the message under the flag already_open; read and write reach  *)
(* the same buffer without it.  Every byte of a transfer is a step, since  *)
(* get_user and put_user may sleep on a page fault.                        *)
(*                                                                         *)
(* The index of IOCTL_GET_NTH_BYTE and the offset of a pread(2) are the    *)
(* caller's and are not checked.  A load outside the buffer gets a byte of *)
(* unknown memory; where there is no memory the process ends inside its    *)
(* call, which is a behaviour in which it takes no further step.           *)
(***************************************************************************)
EXTENDS Naturals, Sequences, FiniteSets, SequencesExt

CONSTANTS
  Procs,      \* processes that have the device open
  Chars,      \* the characters of messages; NUL is not one of them
  NUL,
  BUF_LEN,
  FileCalls,  \* the calls of read, pread and write a process may make
  MaxOffset,  \* bound on the offsets and indices that callers give
  MaxCalls    \* bound on the calls of all processes together

ASSUME CharIoctlAssumption ==
  /\ NUL \notin Chars
  /\ BUF_LEN \in Nat \ {0} /\ MaxCalls \in Nat
  /\ MaxOffset \in Nat /\ MaxOffset > BUF_LEN
  /\ FileCalls \subseteq {"read", "pread", "write"}

Strings == SeqOf(Chars, BUF_LEN + 1)

(* No call in progress. *)
Idle == [op |-> "none", buf |-> <<>>, len |-> 0, from |-> 0, pos |-> 0, tested |-> FALSE]

VARIABLES
  message,       \* the buffer: message[0] .. message[BUF_LEN]
  already_open,
  call,          \* the call in progress: its operation, the user's buffer (what
                 \* it sends or has received), the length, where it began, the
                 \* position and whether device_read's loop has tested the byte
  offset,        \* the file position
  calls,         \* calls so far
  lastSet,       \* history: the text the last SET_MSG that stored one was given
  shared         \* history: some write(2) stored into the message

vars == <<message, already_open, call, offset, calls, lastSet, shared>>

Init ==
  /\ message = [i \in 0 .. BUF_LEN |-> NUL]
  /\ already_open = FALSE
  /\ call = [p \in Procs |-> Idle]
  /\ offset = [p \in Procs |-> 0]
  /\ calls = 0
  /\ lastSet = <<>>
  /\ shared = FALSE

Ioctls == {"SET_MSG", "GET_MSG", "GET_NTH_BYTE"}
Writing(p) == call[p].op \in {"SET_MSG", "write"}
Reading(p) == call[p].op \in {"GET_MSG", "read", "pread"}

(* What a load of message[i] may find. *)
Byte(i) == IF i \in 0 .. BUF_LEN THEN {message[i]} ELSE Chars \cup {NUL}

(* The loop of device_read ends at its length or at a NUL. *)
ReadEnds(p) ==
  Reading(p) /\ ~call[p].tested /\ (call[p].len = 0 \/ NUL \in Byte(call[p].pos))

(* A call that begins at cell i. *)
NewCall(op, s, n, i) ==
  [op |-> op, buf |-> s, len |-> n, from |-> i, pos |-> i, tested |-> FALSE]

Begin(p, c) ==
  /\ call[p] = Idle /\ calls < MaxCalls
  /\ calls' = calls + 1
  /\ call' = [call EXCEPT ![p] = c]

-----------------------------------------------------------------------------
(* device_ioctl. *)

(* Mutant: the NUL is not copied. *)
SetLen_NoNul(s) == IF Len(s) < BUF_LEN THEN Len(s) ELSE BUF_LEN

(* Mutant: the copy is not bounded by the buffer. *)
SetLen_Unbounded(s) == IF s = <<>> THEN 0 ELSE Len(s) + 1

(* The loop that measures the user's string counts its NUL too, but stops  *)
(* at once on an empty string.                                             *)
SetLen(s) ==
  IF s = <<>> THEN 0 ELSE IF Len(s) + 1 < BUF_LEN THEN Len(s) + 1 ELSE BUF_LEN

(* A NUL behind the string: byte i of the user's memory. *)
UserByte(s, i) == IF i < Len(s) THEN s[i + 1] ELSE NUL

ioctl_set_msg(p, s) ==
  /\ ~already_open
  /\ Begin(p, NewCall("SET_MSG", s, SetLen(s), 0))
  /\ already_open' = TRUE
  /\ UNCHANGED <<message, offset, lastSet, shared>>

(* GET_MSG reads from offset 0; its length 99 is longer than the buffer. *)
ioctl_get_msg(p) ==
  /\ ~already_open
  /\ Begin(p, NewCall("GET_MSG", <<>>, BUF_LEN + 1, 0))
  /\ already_open' = TRUE
  /\ UNCHANGED <<message, offset, lastSet, shared>>

(* GET_NTH_BYTE loads the byte its caller names, and returns it. *)
ioctl_get_nth_byte(p, i) ==
  /\ ~already_open
  /\ Begin(p, NewCall("GET_NTH_BYTE", <<>>, 1, i))
  /\ already_open' = TRUE
  /\ UNCHANGED <<message, offset, lastSet, shared>>

NthByte(p) ==
  /\ call[p].op = "GET_NTH_BYTE" /\ call[p].len = 1
  /\ \E b \in Byte(call[p].pos) : call' = [call EXCEPT ![p].buf = <<b>>, ![p].len = 0]
  /\ UNCHANGED <<message, already_open, offset, calls, lastSet, shared>>

(* -EBUSY while another ioctl is in progress, or an unknown number. *)
ioctl_no_effect(p) ==
  /\ call[p] = Idle /\ calls < MaxCalls
  /\ calls' = calls + 1
  /\ UNCHANGED <<message, already_open, call, offset, lastSet, shared>>

IoctlDone(p) ==
  /\ \/ call[p].op = "SET_MSG" /\ call[p].pos = call[p].len
     \/ call[p].op = "GET_MSG" /\ ReadEnds(p)
     \/ call[p].op = "GET_NTH_BYTE" /\ call[p].len = 0
  /\ already_open' = FALSE
  /\ lastSet' = IF call[p].op = "SET_MSG" /\ call[p].len > 0 THEN call[p].buf ELSE lastSet
  /\ call' = [call EXCEPT ![p] = Idle]
  /\ UNCHANGED <<message, offset, calls, shared>>

-----------------------------------------------------------------------------
(* device_write and device_read, called directly or from device_ioctl. *)

(* It stores from the start of the buffer on: pwrite(2) is no different.   *)
device_write(p, s) ==
  /\ "write" \in FileCalls
  /\ Begin(p, NewCall("write", s, IF Len(s) < BUF_LEN THEN Len(s) ELSE BUF_LEN, 0))
  /\ UNCHANGED <<message, already_open, offset, lastSet, shared>>

WriteByte(p) ==
  /\ Writing(p) /\ call[p].pos < call[p].len
  /\ message' = [message EXCEPT ![call[p].pos] = UserByte(call[p].buf, call[p].pos)]
  /\ call' = [call EXCEPT ![p].pos = @ + 1]
  /\ shared' = (shared \/ call[p].op = "write")
  /\ UNCHANGED <<already_open, offset, calls, lastSet>>

WriteDone(p) ==
  /\ call[p].op = "write" /\ call[p].pos = call[p].len
  /\ call' = [call EXCEPT ![p] = Idle]
  /\ UNCHANGED <<message, already_open, offset, calls, lastSet, shared>>

(* read(2) begins at the file's position, pread(2) at its caller's offset, *)
(* and only read moves the position.  At the end of the message it goes    *)
(* back to 0: end of file.                                                 *)
Begins(op, p) == IF op = "read" THEN {offset[p]} ELSE 0 .. MaxOffset

device_read(p, op, i, n) ==
  /\ op \in FileCalls /\ i \in Begins(op, p)
  /\ \/ /\ Byte(i) # {NUL}
        /\ Begin(p, NewCall(op, <<>>, n, i))
        /\ UNCHANGED offset
     \/ /\ NUL \in Byte(i)
        /\ call[p] = Idle /\ calls < MaxCalls
        /\ calls' = calls + 1
        /\ offset' = IF op = "read" THEN [offset EXCEPT ![p] = 0] ELSE offset
        /\ UNCHANGED call
  /\ UNCHANGED <<message, already_open, lastSet, shared>>

(* The byte is tested, and perhaps loaded again to be copied. *)
ReadTest(p) ==
  /\ Reading(p) /\ ~call[p].tested /\ call[p].len > 0 /\ Byte(call[p].pos) # {NUL}
  /\ call' = [call EXCEPT ![p].tested = TRUE]
  /\ UNCHANGED <<message, already_open, offset, calls, lastSet, shared>>

ReadByte(p) ==
  /\ call[p].tested
  /\ \E b \in Byte(call[p].pos) :
       call' = [call EXCEPT ![p].pos = @ + 1, ![p].len = @ - 1, ![p].tested = FALSE,
                            ![p].buf = Append(@, b)]
  /\ UNCHANGED <<message, already_open, offset, calls, lastSet, shared>>

ReadDone(p) ==
  /\ call[p].op \in {"read", "pread"} /\ ReadEnds(p)
  /\ offset' = IF call[p].op = "read" THEN [offset EXCEPT ![p] = @ + Len(call[p].buf)] ELSE offset
  /\ call' = [call EXCEPT ![p] = Idle]
  /\ UNCHANGED <<message, already_open, calls, lastSet, shared>>

-----------------------------------------------------------------------------

Next == \E p \in Procs :
  \/ \E s \in Strings : ioctl_set_msg(p, s) \/ device_write(p, s)
  \/ \E op \in {"read", "pread"}, i \in 0 .. MaxOffset, n \in 1 .. BUF_LEN + 1 :
       device_read(p, op, i, n)
  \/ \E i \in 0 .. MaxOffset : ioctl_get_nth_byte(p, i)
  \/ ioctl_get_msg(p) \/ ioctl_no_effect(p)
  \/ NthByte(p) \/ IoctlDone(p)
  \/ WriteByte(p) \/ WriteDone(p) \/ ReadTest(p) \/ ReadByte(p) \/ ReadDone(p)

Spec == Init /\ [][Next]_vars

-----------------------------------------------------------------------------
(* Properties. *)

(* A read and a write that do not exclude each other move the NUL a reader *)
(* stops at, and still no store leaves the buffer or reaches its last      *)
(* byte, no file's position leaves it, and a load leaves it only in a call *)
(* whose caller named an offset or an index outside, which nobody checks.  *)
TransfersStayInside ==
  /\ message[BUF_LEN] = NUL
  /\ \A p \in Procs : /\ offset[p] <= BUF_LEN
                      /\ Writing(p) => call[p].pos <= call[p].len /\ call[p].len <= BUF_LEN
                      /\ call[p].pos <= BUF_LEN \/ call[p].from > BUF_LEN

(* What the buffer keeps of a text. *)
Kept(s) == IF Len(s) <= BUF_LEN THEN s ELSE SubSeq(s, 1, BUF_LEN)

(* Without writes that bypass the flag, GET_MSG returns the last text set, *)
(* whole: no mixture of two texts and nothing left of a longer older one.  *)
(* GET_NTH_BYTE returns that text's byte, up to its NUL; behind it there   *)
(* may be the rest of a longer older text.                                 *)
GetReturnsLastSet ==
  \A p \in Procs : ~shared =>
    /\ call[p].op = "GET_MSG" /\ ReadEnds(p) => call[p].buf = Kept(lastSet)
    /\ call[p].op = "GET_NTH_BYTE" /\ call[p].len = 0 /\ call[p].from <= Len(Kept(lastSet)) =>
         call[p].buf = <<UserByte(Kept(lastSet), call[p].from)>>

(* "We don't want to tlak to 2 processes at the same time" (device_ioctl,  *)
(* l.100; l.24 says the flag is there "to prevent concurrent access into   *)
(* the same device"): one process at a time reaches the message.           *)
TalksToOneProcess == Cardinality({p \in Procs : call[p] # Idle}) <= 1

(* "Receive a pointer to a message (in user space) adn set that to be the  *)
(* device's message" (device_ioctl, l.107): when SET_MSG has copied, the   *)
(* buffer holds the text it was given, and only that up to the first NUL.  *)
SetMsgSetsTheMessage ==
  \A p \in Procs :
    call[p].op = "SET_MSG" /\ call[p].pos = call[p].len /\ ~shared =>
      /\ \A i \in DOMAIN Kept(call[p].buf) : message[i - 1] = call[p].buf[i]
      /\ message[Len(Kept(call[p].buf))] = NUL

=============================================================================
