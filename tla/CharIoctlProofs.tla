-------------------------- MODULE CharIoctlProofs --------------------------
(***************************************************************************)
(* Proofs about chardev/ioctl/charioctl.c for every set of processes,      *)
(* every length of the buffer and every message.                           *)
(*                                                                         *)
(* That a call which begins inside the buffer stays inside rests on its    *)
(* last byte, which no write reaches and which therefore stays NUL: the    *)
(* loop of device_read, which no lock protects, cannot pass it (CallInv).  *)
(* That GET_MSG and GET_NTH_BYTE return the last text set rests on         *)
(* already_open (FlagInv) and on what the buffer holds before, during and  *)
(* after a SET_MSG (TextInv).                                              *)
(***************************************************************************)
EXTENDS CharIoctl, TLAPS

USE CharIoctlAssumption

Bytes == Chars \cup {NUL}

Ops == {"none", "write", "read", "pread"} \cup Ioctls

Calls == [op : Ops, buf : Seq(Bytes), len : 0 .. BUF_LEN + 1, from : 0 .. MaxOffset, pos : Nat,
          tested : BOOLEAN]

TypeInv ==
  /\ message \in [0 .. BUF_LEN -> Bytes]
  /\ already_open \in BOOLEAN
  /\ call \in [Procs -> Calls]
  /\ offset \in [Procs -> 0 .. BUF_LEN]
  /\ calls \in 0 .. MaxCalls
  /\ lastSet \in Seq(Chars)
  /\ shared \in BOOLEAN

(* The call of one process. *)
CallOK(p) ==
  /\ Writing(p) => call[p].len <= BUF_LEN /\ call[p].pos <= call[p].len
  /\ call[p].op = "SET_MSG" => call[p].buf \in Seq(Chars) /\ call[p].len = SetLen(call[p].buf)
  /\ call[p].pos <= BUF_LEN \/ call[p].from > BUF_LEN
  /\ call[p].tested => /\ Reading(p) /\ call[p].len > 0
                       /\ call[p].pos < BUF_LEN \/ call[p].from > BUF_LEN
  /\ call[p].op = "read" => /\ call[p].from <= BUF_LEN
                            /\ call[p].pos = offset[p] + Len(call[p].buf)
  /\ call[p].op = "GET_MSG" => /\ call[p].from = 0 /\ call[p].pos = Len(call[p].buf)
                               /\ call[p].len = BUF_LEN + 1 - call[p].pos
  /\ call[p].op = "GET_NTH_BYTE" => call[p].pos = call[p].from

CallInv == message[BUF_LEN] = NUL /\ \A p \in Procs : CallOK(p)

(* One ioctl at a time. *)
FlagInv ==
  /\ \A p \in Procs : call[p].op \in Ioctls => already_open
  /\ \A p, q \in Procs : call[p].op \in Ioctls /\ call[q].op \in Ioctls => p = q

(* The text in the buffer, up to its first NUL. *)
KeptLen(s) == IF Len(s) <= BUF_LEN THEN Len(s) ELSE BUF_LEN

MessageIs(s) ==
  /\ \A i \in 0 .. KeptLen(s) - 1 : message[i] = s[i + 1]
  /\ message[KeptLen(s)] = NUL

TextInv ==
  ~shared =>
    /\ (\A p \in Procs : call[p].op # "SET_MSG") => MessageIs(lastSet)
    /\ \A p \in Procs : call[p].op = "SET_MSG" =>
         /\ call[p].len = 0 => MessageIs(lastSet)
         /\ \A i \in 0 .. call[p].pos - 1 : message[i] = UserByte(call[p].buf, i)
    /\ \A p \in Procs : call[p].op = "GET_MSG" =>
         /\ \A i \in 0 .. call[p].pos - 1 : call[p].buf[i + 1] = message[i] /\ message[i] # NUL
         /\ call[p].tested => message[call[p].pos] # NUL
    /\ \A p \in Procs : call[p].op = "GET_NTH_BYTE" =>
         (call[p].len = 0 /\ call[p].from <= BUF_LEN => call[p].buf = <<message[call[p].from]>>)

IInv == TypeInv /\ CallInv /\ FlagInv /\ TextInv

-----------------------------------------------------------------------------

(* The strings a process may send are sequences of characters. *)
LEMMA StringsAreSeqs == \A s \in Strings : s \in Seq(Chars) /\ s \in Seq(Bytes)
BY DEF Strings, SeqOf, Bytes

(* SET_MSG copies no more than the buffer holds. *)
LEMMA SetLenBounded == ASSUME NEW s \in Seq(Chars) PROVE SetLen(s) \in 0 .. BUF_LEN
BY DEF SetLen

(* Every byte of the user's memory is a character or a NUL. *)
LEMMA UserByteType == ASSUME NEW s \in Seq(Bytes), NEW i \in Nat PROVE UserByte(s, i) \in Bytes
BY DEF UserByte, Bytes

(* A load gets one byte, and inside the buffer the one that is there. *)
LEMMA ByteType ==
  ASSUME TypeInv, NEW i \in Nat
  PROVE  /\ Byte(i) \subseteq Bytes
         /\ i <= BUF_LEN => Byte(i) = {message[i]}
BY DEF TypeInv, Byte, Bytes

(* The device as init_chardev leaves it. *)
LEMMA InitInv == ASSUME Init PROVE IInv
<1> USE DEF Init, Idle
<1>1. Idle \in Calls
  BY DEF Calls, Ops
<1>2. TypeInv
  <2>1. already_open \in BOOLEAN /\ shared \in BOOLEAN
    BY Zenon
  <2>2. message \in [0 .. BUF_LEN -> Bytes] /\ lastSet \in Seq(Chars)
    BY DEF Bytes
  <2>3. call \in [Procs -> Calls] /\ offset \in [Procs -> 0 .. BUF_LEN] /\ calls \in 0 .. MaxCalls
    BY <1>1
  <2> QED BY <2>1, <2>2, <2>3 DEF TypeInv
<1>3. CallInv /\ FlagInv
  BY DEF CallInv, CallOK, FlagInv, Writing, Reading, Ioctls
<1>4. TextInv
  BY DEF TextInv, MessageIs, KeptLen
<1> QED BY <1>2, <1>3, <1>4 DEF IInv

(* A call begins: the other calls stay as they are. *)
LEMMA BeginFields ==
  ASSUME NEW p \in Procs, NEW c \in Calls, Begin(p, c), TypeInv
  PROVE  /\ call'[p] = c /\ \A q \in Procs \ {p} : call'[q] = call[q]
         /\ call' \in [Procs -> Calls] /\ calls' \in 0 .. MaxCalls
BY DEF Begin, TypeInv

(* A step of one process leaves the calls of the others as they were. *)
LEMMA OthersKeepCall ==
  ASSUME IInv, NEW p \in Procs, message'[BUF_LEN] = NUL, CallOK(p)',
         \A q \in Procs \ {p} : call'[q] = call[q] /\ offset'[q] = offset[q]
  PROVE  CallInv'
<1>1. ASSUME NEW q \in Procs, q # p PROVE CallOK(q)'
  <2>1. call'[q] = call[q] /\ offset'[q] = offset[q] /\ CallOK(q)
    BY <1>1 DEF IInv, CallInv
  <2> QED BY <2>1 DEF CallOK, Writing, Reading
<1> QED BY <1>1 DEF CallInv

(* A call that is no ioctl, and a call's end, keep to one ioctl at a time. *)
LEMMA FlagStays ==
  ASSUME IInv, NEW p \in Procs, \A q \in Procs \ {p} : call'[q] = call[q],
         \/ already_open' = already_open
               /\ (call'[p].op = call[p].op \/ call'[p].op \notin Ioctls)
         \/ call[p].op \in Ioctls /\ call'[p].op \notin Ioctls
  PROVE  FlagInv'
BY DEF IInv, FlagInv

(* An ioctl enters when no other is in progress. *)
LEMMA FlagTaken ==
  ASSUME IInv, NEW p \in Procs, \A q \in Procs \ {p} : call'[q] = call[q],
         ~already_open, already_open' = TRUE
  PROVE  FlagInv'
BY DEF IInv, FlagInv

-----------------------------------------------------------------------------
(* device_ioctl. *)

(* IOCTL_SET_MSG begins: its length is known, nothing is written yet. *)
LEMMA SetStep ==
  ASSUME IInv, NEW p \in Procs, NEW s \in Strings, ioctl_set_msg(p, s) PROVE IInv'
<1> DEFINE c == [op |-> "SET_MSG", buf |-> s, len |-> SetLen(s), from |-> 0, pos |-> 0,
                 tested |-> FALSE]
<1>1. ~already_open /\ Begin(p, c) /\ already_open' = TRUE
      /\ UNCHANGED <<message, offset, lastSet, shared>>
  BY DEF ioctl_set_msg, NewCall
<1>2. s \in Seq(Chars) /\ s \in Seq(Bytes) /\ SetLen(s) \in 0 .. BUF_LEN
  BY StringsAreSeqs, SetLenBounded
<1>3. c \in Calls
  BY <1>2 DEF Calls, Ops, Ioctls
<1>4. /\ call'[p] = c /\ \A q \in Procs \ {p} : call'[q] = call[q]
      /\ call' \in [Procs -> Calls] /\ calls' \in 0 .. MaxCalls
  <2> HIDE DEF c
  <2> QED BY <1>1, <1>3, BeginFields DEF IInv
<1>5. call[p] = Idle /\ call[p].op = "none"
  BY <1>1 DEF Begin, Idle
<1>6. TypeInv'
  <2>1. already_open' \in BOOLEAN
    BY <1>1, Zenon
  <2> QED BY <1>1, <1>4, <2>1 DEF IInv, TypeInv
<1>7. CallInv'
  <2>1. CallOK(p)'
    BY <1>2, <1>4 DEF CallOK, Writing, Reading
  <2> QED BY <1>1, <1>4, <2>1, OthersKeepCall DEF IInv, CallInv
<1>8. FlagInv'
  BY <1>1, <1>4, FlagTaken
<1>9. TextInv'
  <2> SUFFICES ASSUME ~shared PROVE TextInv'
    BY <1>1 DEF TextInv
  <2>1. \A q \in Procs : call[q].op \notin Ioctls
    BY <1>1 DEF IInv, FlagInv
  <2>2. MessageIs(lastSet) /\ MessageIs(lastSet)'
    BY <1>1, <2>1 DEF IInv, TextInv, Ioctls, MessageIs
  <2>3. \A q \in Procs : call'[q].op # "GET_MSG" /\ call'[q].op # "GET_NTH_BYTE"
    BY <1>4, <2>1 DEF Ioctls
  <2>4. \A q \in Procs : call'[q].op = "SET_MSG" => call'[q].pos = 0
    BY <1>4, <2>1 DEF Ioctls
  <2> QED BY <2>2, <2>3, <2>4 DEF TextInv
<1> QED BY <1>6, <1>7, <1>8, <1>9 DEF IInv

(* IOCTL_GET_MSG begins at the start of the message, IOCTL_GET_NTH_BYTE    *)
(* where its caller says; neither has received anything yet.               *)
LEMMA GetBegins ==
  ASSUME IInv, NEW p \in Procs, NEW c \in Calls, ~already_open, Begin(p, c), already_open' = TRUE,
         UNCHANGED <<message, offset, lastSet, shared>>, c.buf = <<>>, c.pos = c.from, ~c.tested,
         \/ c.op = "GET_MSG" /\ c.len = BUF_LEN + 1 /\ c.from = 0
         \/ c.op = "GET_NTH_BYTE" /\ c.len = 1
  PROVE  IInv'
<1>1. /\ call'[p] = c /\ \A q \in Procs \ {p} : call'[q] = call[q]
      /\ call' \in [Procs -> Calls] /\ calls' \in 0 .. MaxCalls
  BY BeginFields DEF IInv
<1>2. TypeInv'
  <2>1. already_open' \in BOOLEAN
    BY Zenon
  <2> QED BY <1>1, <2>1 DEF IInv, TypeInv
<1>3. CallInv'
  <2>1. CallOK(p)'
    BY <1>1 DEF CallOK, Writing, Reading, Calls
  <2> QED BY <1>1, <2>1, OthersKeepCall DEF IInv, CallInv
<1>4. FlagInv'
  BY <1>1, FlagTaken
<1>5. TextInv'
  <2> SUFFICES ASSUME ~shared PROVE TextInv'
    BY DEF TextInv
  <2>1. \A q \in Procs : call[q].op \notin Ioctls
    BY DEF IInv, FlagInv
  <2>2. MessageIs(lastSet)'
    BY <2>1 DEF IInv, TextInv, Ioctls, MessageIs
  <2>3. \A q \in Procs : call'[q].op # "SET_MSG"
    BY <1>1, <2>1 DEF Ioctls
  <2>4. \A q \in Procs : call'[q].op = "GET_MSG" =>
          /\ \A i \in 0 .. call'[q].pos - 1 : call'[q].buf[i + 1] = message'[i] /\ message'[i] # NUL
          /\ ~call'[q].tested
    BY <1>1, <2>1 DEF Ioctls
  <2>5. \A q \in Procs : call'[q].op = "GET_NTH_BYTE" => call'[q].len = 1
    BY <1>1, <2>1 DEF Ioctls
  <2> QED BY <2>2, <2>3, <2>4, <2>5 DEF TextInv
<1> QED BY <1>2, <1>3, <1>4, <1>5 DEF IInv

(* IOCTL_GET_MSG begins. *)
LEMMA GetStep == ASSUME IInv, NEW p \in Procs, ioctl_get_msg(p) PROVE IInv'
<1> DEFINE c == NewCall("GET_MSG", <<>>, BUF_LEN + 1, 0)
<1>1. c \in Calls
  BY DEF Calls, Ops, Ioctls, NewCall
<1>2. /\ c.op = "GET_MSG" /\ c.buf = <<>> /\ c.len = BUF_LEN + 1 /\ c.from = 0 /\ c.pos = 0
      /\ c.tested = FALSE
  BY DEF NewCall
<1>3. ~already_open /\ Begin(p, c) /\ already_open' = TRUE
      /\ UNCHANGED <<message, offset, lastSet, shared>>
  BY DEF ioctl_get_msg
<1> HIDE DEF c
<1> QED BY <1>1, <1>2, <1>3, GetBegins

(* IOCTL_GET_NTH_BYTE begins, wherever its caller says. *)
LEMMA NthStep ==
  ASSUME IInv, NEW p \in Procs, NEW i \in 0 .. MaxOffset, ioctl_get_nth_byte(p, i) PROVE IInv'
<1> DEFINE c == NewCall("GET_NTH_BYTE", <<>>, 1, i)
<1>1. c \in Calls
  BY DEF Calls, Ops, Ioctls, NewCall
<1>2. /\ c.op = "GET_NTH_BYTE" /\ c.buf = <<>> /\ c.len = 1 /\ c.from = i /\ c.pos = i
      /\ c.tested = FALSE
  BY DEF NewCall
<1>3. ~already_open /\ Begin(p, c) /\ already_open' = TRUE
      /\ UNCHANGED <<message, offset, lastSet, shared>>
  BY DEF ioctl_get_nth_byte
<1> HIDE DEF c
<1> QED BY <1>1, <1>2, <1>3, GetBegins

(* IOCTL_GET_NTH_BYTE loads its byte. *)
LEMMA NthByteStep == ASSUME IInv, NEW p \in Procs, NthByte(p) PROVE IInv'
<1> USE DEF IInv
<1>1. PICK b \in Byte(call[p].pos) :
        /\ call[p].op = "GET_NTH_BYTE" /\ call[p].len = 1
        /\ call' = [call EXCEPT ![p].buf = <<b>>, ![p].len = 0]
        /\ UNCHANGED <<message, already_open, offset, calls, lastSet, shared>>
  BY DEF NthByte
<1>2. call[p] \in Calls /\ CallOK(p) /\ call[p].pos \in Nat /\ call[p].pos = call[p].from
  BY <1>1 DEF TypeInv, CallInv, CallOK, Calls
<1>3. b \in Bytes /\ (call[p].pos <= BUF_LEN => b = message[call[p].pos])
  BY <1>2, ByteType
<1>4. /\ call'[p] = [call[p] EXCEPT !.buf = <<b>>, !.len = 0]
      /\ \A q \in Procs \ {p} : call'[q] = call[q]
  BY <1>1 DEF TypeInv
<1>5. /\ call'[p].op = call[p].op /\ call'[p].buf = <<b>> /\ call'[p].len = 0
      /\ call'[p].from = call[p].from /\ call'[p].pos = call[p].pos
      /\ call'[p].tested = call[p].tested
  BY <1>2, <1>4 DEF Calls
<1>6. TypeInv'
  <2>1. call'[p] = [op |-> call[p].op, buf |-> <<b>>, len |-> 0, from |-> call[p].from,
                    pos |-> call[p].pos, tested |-> call[p].tested]
    BY <1>2, <1>4 DEF Calls
  <2>2. <<b>> \in Seq(Bytes) /\ 0 \in 0 .. BUF_LEN + 1
    BY <1>3
  <2>3. call'[p] \in Calls
    BY <1>2, <2>1, <2>2 DEF Calls
  <2> QED BY <1>1, <2>3 DEF TypeInv
<1>7. CallInv'
  <2>1. CallOK(p)'
    BY <1>1, <1>2, <1>5 DEF CallOK, Writing, Reading
  <2> QED BY <1>1, <1>4, <2>1, OthersKeepCall DEF CallInv
<1>8. FlagInv'
  BY <1>1, <1>4, <1>5, FlagStays
<1>9. TextInv'
  <2> SUFFICES ASSUME ~shared PROVE TextInv'
    BY <1>1 DEF TextInv
  <2>1. \A q \in Procs : q # p => call'[q].op \notin Ioctls
    BY <1>1, <1>4 DEF FlagInv, Ioctls
  <2>2. \A q \in Procs : call[q].op # "SET_MSG"
    BY <1>1 DEF FlagInv, Ioctls
  <2>3. MessageIs(lastSet)'
    BY <1>1, <2>2 DEF TextInv, MessageIs
  <2>4. call'[p].op = "GET_NTH_BYTE"
        /\ (call'[p].from <= BUF_LEN => call'[p].buf = <<message'[call'[p].from]>>)
    BY <1>1, <1>2, <1>3, <1>5
  <2> HIDE DEF IInv
  <2> QED BY <2>1, <2>3, <2>4 DEF TextInv, Ioctls
<1> QED BY <1>6, <1>7, <1>8, <1>9

(* After the copy of SET_MSG the buffer holds the text it was given. *)
LEMMA CopiedText ==
  ASSUME TypeInv, NEW s \in Seq(Chars), SetLen(s) > 0, message[BUF_LEN] = NUL,
         \A i \in 0 .. SetLen(s) - 1 : message[i] = UserByte(s, i)
  PROVE  MessageIs(s)
<1>1. Len(s) \in Nat /\ Len(s) > 0
  BY DEF SetLen
<1>2. CASE Len(s) + 1 <= BUF_LEN
  <2>1. SetLen(s) = Len(s) + 1 /\ KeptLen(s) = Len(s)
    BY <1>1, <1>2 DEF SetLen, KeptLen
  <2> QED BY <1>1, <2>1 DEF MessageIs, UserByte
<1>3. CASE Len(s) >= BUF_LEN
  <2>1. SetLen(s) = BUF_LEN /\ KeptLen(s) = BUF_LEN
    BY <1>1, <1>3 DEF SetLen, KeptLen
  <2> QED BY <1>1, <1>3, <2>1 DEF MessageIs, UserByte
<1> QED BY <1>1, <1>2, <1>3

(* An ioctl returns and gives already_open back. *)
LEMMA DoneStep == ASSUME IInv, NEW p \in Procs, IoctlDone(p) PROVE IInv'
<1> USE DEF IInv
<1>1. /\ call[p].op \in Ioctls
      /\ call[p].op = "SET_MSG" => call[p].pos = call[p].len
      /\ lastSet' = IF call[p].op = "SET_MSG" /\ call[p].len > 0 THEN call[p].buf ELSE lastSet
      /\ already_open' = FALSE
      /\ call' = [call EXCEPT ![p] = Idle]
      /\ UNCHANGED <<message, offset, calls, shared>>
  BY DEF IoctlDone, Ioctls
<1>2. Idle \in Calls /\ Idle.op = "none" /\ Idle.tested = FALSE /\ Idle.pos = 0
  BY DEF Idle, Calls, Ops
<1>3. call'[p] = Idle /\ \A q \in Procs \ {p} : call'[q] = call[q]
  BY <1>1 DEF TypeInv
<1>4. CallOK(p)
  BY DEF CallInv
<1>5. TypeInv'
  <2>1. already_open' \in BOOLEAN
    BY <1>1, Zenon
  <2>2. lastSet' \in Seq(Chars)
    BY <1>1, <1>4 DEF CallOK, TypeInv
  <2>3. call' \in [Procs -> Calls]
    BY <1>1, <1>2 DEF TypeInv
  <2> QED BY <1>1, <2>1, <2>2, <2>3 DEF TypeInv
<1>6. CallInv'
  <2>1. CallOK(p)'
    BY <1>2, <1>3 DEF CallOK, Writing, Reading
  <2> QED BY <1>1, <1>3, <2>1, OthersKeepCall DEF CallInv
<1>7. FlagInv'
  BY <1>1, <1>2, <1>3, FlagStays DEF Ioctls
<1>8. TextInv'
  <2> SUFFICES ASSUME ~shared PROVE TextInv'
    BY <1>1 DEF TextInv
  <2>1. \A q \in Procs : call'[q].op \notin Ioctls
    BY <1>1, <1>2, <1>3 DEF FlagInv, Ioctls
  <2>2. MessageIs(lastSet)'
    <3>1. CASE call[p].op = "SET_MSG" /\ call[p].len > 0
      <4>1. MessageIs(call[p].buf)
        <5> DEFINE s == call[p].buf
        <5>1. s \in Seq(Chars) /\ SetLen(s) > 0 /\ message[BUF_LEN] = NUL
          BY <1>4, <3>1 DEF CallOK, CallInv
        <5>2. \A i \in 0 .. SetLen(s) - 1 : message[i] = UserByte(s, i)
          BY <1>1, <1>4, <3>1 DEF CallOK, TextInv
        <5> HIDE DEF s
        <5>3. MessageIs(s)
          BY <5>1, <5>2, CopiedText
        <5> QED BY <5>3 DEF s
      <4> QED BY <1>1, <3>1, <4>1 DEF MessageIs
    <3>2. CASE call[p].op = "SET_MSG" /\ ~(call[p].len > 0)
      <4>1. call[p].len = 0
        BY <1>4, <3>2 DEF TypeInv, Calls
      <4> QED BY <1>1, <3>2, <4>1 DEF TextInv, MessageIs
    <3>3. CASE call[p].op # "SET_MSG"
      <4>1. \A q \in Procs : call[q].op # "SET_MSG"
        BY <1>1, <3>3 DEF FlagInv, Ioctls
      <4> QED BY <1>1, <3>3, <4>1 DEF TextInv, MessageIs
    <3> QED BY <3>1, <3>2, <3>3
  <2> QED BY <2>1, <2>2 DEF TextInv, Ioctls
<1> QED BY <1>5, <1>6, <1>7, <1>8

-----------------------------------------------------------------------------
(* device_write and device_read. *)

(* A call of read or write does not touch what the ioctls rely on, as long *)
(* as it stores nothing.                                                   *)
LEMMA TextStays ==
  ASSUME IInv, NEW p \in Procs, UNCHANGED <<message, lastSet, shared>>,
         call[p].op \notin Ioctls, call'[p].op \notin Ioctls,
         \A q \in Procs \ {p} : call'[q] = call[q]
  PROVE  TextInv'
<1> SUFFICES ASSUME ~shared PROVE TextInv'
  BY DEF TextInv
<1>1. \A q \in Procs : call'[q].op \in Ioctls => call'[q] = call[q]
  OBVIOUS
<1>2. (\A q \in Procs : call'[q].op # "SET_MSG") => \A q \in Procs : call[q].op # "SET_MSG"
  BY DEF Ioctls
<1>3. MessageIs(lastSet)' <=> MessageIs(lastSet)
  BY DEF MessageIs
<1> QED BY <1>1, <1>2, <1>3 DEF IInv, TextInv, Ioctls

(* device_write begins, its length cut to the buffer. *)
LEMMA WriteStep ==
  ASSUME IInv, NEW p \in Procs, NEW s \in Strings, device_write(p, s) PROVE IInv'
<1> DEFINE c == [op |-> "write", buf |-> s, len |-> IF Len(s) < BUF_LEN THEN Len(s) ELSE BUF_LEN,
                 from |-> 0, pos |-> 0, tested |-> FALSE]
<1>1. Begin(p, c) /\ UNCHANGED <<message, already_open, offset, lastSet, shared>>
  BY DEF device_write, NewCall
<1>2. s \in Seq(Bytes)
  BY StringsAreSeqs
<1>3. c \in Calls
  BY <1>2 DEF Calls, Ops
<1>4. /\ call'[p] = c /\ \A q \in Procs \ {p} : call'[q] = call[q]
      /\ call' \in [Procs -> Calls] /\ calls' \in 0 .. MaxCalls
  <2> HIDE DEF c
  <2> QED BY <1>1, <1>3, BeginFields DEF IInv
<1>5. call[p].op = "none"
  BY <1>1 DEF Begin, Idle
<1>6. TypeInv'
  BY <1>1, <1>4 DEF IInv, TypeInv
<1>7. CallInv'
  <2>1. CallOK(p)'
    BY <1>2, <1>4 DEF CallOK, Writing, Reading
  <2> QED BY <1>1, <1>4, <2>1, OthersKeepCall DEF IInv, CallInv
<1>8. FlagInv'
  BY <1>1, <1>4, FlagStays DEF Ioctls
<1>9. TextInv'
  BY <1>1, <1>4, <1>5, TextStays DEF Ioctls
<1> QED BY <1>6, <1>7, <1>8, <1>9 DEF IInv

(* device_write stores one byte of the message. *)
LEMMA WriteByteStep == ASSUME IInv, NEW p \in Procs, WriteByte(p) PROVE IInv'
<1> USE DEF IInv
<1>1. /\ Writing(p) /\ call[p].pos < call[p].len
      /\ message' = [message EXCEPT ![call[p].pos] = UserByte(call[p].buf, call[p].pos)]
      /\ call' = [call EXCEPT ![p].pos = @ + 1]
      /\ shared' = (shared \/ call[p].op = "write")
      /\ UNCHANGED <<already_open, offset, calls, lastSet>>
  BY DEF WriteByte
<1>2. call[p] \in Calls /\ CallOK(p)
  BY DEF TypeInv, CallInv
<1>3. /\ call'[p] = [call[p] EXCEPT !.pos = @ + 1]
      /\ \A q \in Procs \ {p} : call'[q] = call[q]
  BY <1>1 DEF TypeInv
<1>4. call[p].pos \in 0 .. BUF_LEN - 1
  BY <1>1, <1>2 DEF CallOK, Calls
<1>5. TypeInv'
  <2>1. UserByte(call[p].buf, call[p].pos) \in Bytes
    BY <1>2, <1>4, UserByteType DEF Calls
  <2>2. message' \in [0 .. BUF_LEN -> Bytes]
    BY <1>1, <2>1 DEF TypeInv
  <2>3. call'[p] \in Calls
    <3>1. call'[p] = [op |-> call[p].op, buf |-> call[p].buf, len |-> call[p].len,
                      from |-> call[p].from, pos |-> call[p].pos + 1, tested |-> call[p].tested]
      BY <1>2, <1>3 DEF Calls
    <3>2. call[p].pos + 1 \in Nat
      BY <1>4
    <3> QED BY <1>2, <3>1, <3>2 DEF Calls
  <2>4. call' \in [Procs -> Calls]
    BY <1>1, <2>3 DEF TypeInv
  <2>5. shared' \in BOOLEAN
    BY <1>1, Zenon
  <2> QED BY <1>1, <2>2, <2>4, <2>5 DEF TypeInv
<1>6. CallInv'
  <2>1. message'[BUF_LEN] = NUL
    BY <1>1, <1>4 DEF CallInv, TypeInv
  <2>2. CallOK(p)'
    BY <1>1, <1>2, <1>3, <1>4 DEF CallOK, Writing, Reading, Calls
  <2> QED BY <1>1, <1>3, <2>1, <2>2, OthersKeepCall DEF CallInv
<1>7. call'[p].op = call[p].op
  BY <1>2, <1>3 DEF Calls
<1>8. FlagInv'
  BY <1>1, <1>3, <1>7, FlagStays
<1>9. TextInv'
  <2> SUFFICES ASSUME ~shared' PROVE TextInv'
    BY DEF TextInv
  <2>1. ~shared /\ call[p].op = "SET_MSG" /\ call[p].op \in Ioctls
    BY <1>1 DEF Writing, Ioctls
  <2>2. \A q \in Procs \ {p} : call'[q].op \notin Ioctls
    BY <1>3, <2>1 DEF FlagInv
  <2>3. call'[p].op = "SET_MSG" /\ call'[p].len # 0
    BY <1>1, <1>2, <1>3, <2>1 DEF Calls
  <2>4. \A i \in 0 .. call'[p].pos - 1 : message'[i] = UserByte(call'[p].buf, i)
    <3>1. call'[p].pos = call[p].pos + 1 /\ call'[p].buf = call[p].buf
      BY <1>2, <1>3 DEF Calls
    <3>2. \A i \in 0 .. call[p].pos - 1 : message[i] = UserByte(call[p].buf, i)
      BY <2>1 DEF TextInv
    <3> QED BY <1>1, <1>4, <3>1, <3>2 DEF TypeInv
  <2> QED BY <2>2, <2>3, <2>4 DEF TextInv, Ioctls
<1> QED BY <1>5, <1>6, <1>8, <1>9

(* The end of a write or a read, which changes at most its own position. *)
LEMMA CallEnds ==
  ASSUME IInv, NEW p \in Procs, call[p].op \notin Ioctls, call' = [call EXCEPT ![p] = Idle],
         offset' \in [Procs -> 0 .. BUF_LEN], \A q \in Procs \ {p} : offset'[q] = offset[q],
         UNCHANGED <<message, already_open, calls, lastSet, shared>>
  PROVE  IInv'
<1> USE DEF IInv
<1>1. Idle \in Calls /\ Idle.op = "none" /\ Idle.tested = FALSE /\ Idle.pos = 0
  BY DEF Idle, Calls, Ops
<1>2. call'[p] = Idle /\ \A q \in Procs \ {p} : call'[q] = call[q]
  BY DEF TypeInv
<1>3. TypeInv'
  BY <1>1 DEF TypeInv
<1>4. CallInv'
  <2>1. CallOK(p)'
    BY <1>1, <1>2 DEF CallOK, Writing, Reading
  <2> QED BY <1>2, <2>1, OthersKeepCall DEF CallInv
<1>5. FlagInv'
  BY <1>1, <1>2, FlagStays DEF Ioctls
<1>6. TextInv'
  BY <1>1, <1>2, TextStays DEF Ioctls
<1> QED BY <1>3, <1>4, <1>5, <1>6

(* device_read begins at a byte that is no NUL, or goes back to 0. *)
LEMMA ReadStep ==
  ASSUME IInv, NEW p \in Procs, NEW op \in {"read", "pread"}, NEW i \in 0 .. MaxOffset,
         NEW n \in 1 .. BUF_LEN + 1, device_read(p, op, i, n)
  PROVE  IInv'
<1> USE DEF IInv
<1> DEFINE c == [op |-> op, buf |-> <<>>, len |-> n, from |-> i, pos |-> i, tested |-> FALSE]
<1>0. op = "read" => i = offset[p] /\ i <= BUF_LEN
  BY DEF device_read, Begins, TypeInv
<1>1. UNCHANGED <<message, already_open, lastSet, shared>>
  BY DEF device_read
<1>2. CASE Begin(p, c) /\ UNCHANGED offset
  <2>1. c \in Calls
    BY DEF Calls, Ops
  <2>2. /\ call'[p] = c /\ \A q \in Procs \ {p} : call'[q] = call[q]
        /\ call' \in [Procs -> Calls] /\ calls' \in 0 .. MaxCalls
    <3> HIDE DEF c
    <3> QED BY <1>2, <2>1, BeginFields
  <2>3. call[p].op = "none"
    BY <1>2 DEF Begin, Idle
  <2>4. TypeInv'
    BY <1>1, <1>2, <2>2 DEF TypeInv
  <2>5. CallInv'
    <3>1. CallOK(p)'
      BY <1>0, <1>2, <2>2 DEF CallOK, Writing, Reading, TypeInv
    <3> QED BY <1>1, <1>2, <2>2, <3>1, OthersKeepCall DEF CallInv
  <2>6. FlagInv'
    BY <1>1, <2>2, FlagStays DEF Ioctls
  <2>7. TextInv'
    BY <1>1, <2>2, <2>3, TextStays DEF Ioctls
  <2> QED BY <2>4, <2>5, <2>6, <2>7
<1>3. CASE /\ call[p] = Idle /\ calls < MaxCalls /\ calls' = calls + 1
           /\ offset' = IF op = "read" THEN [offset EXCEPT ![p] = 0] ELSE offset
           /\ UNCHANGED call
  <2>1. TypeInv'
    BY <1>1, <1>3 DEF TypeInv
  <2>2. CallInv'
    <3>1. CallOK(p)'
      BY <1>3 DEF CallOK, Writing, Reading, Idle
    <3>2. \A q \in Procs \ {p} : offset'[q] = offset[q]
      BY <1>3 DEF TypeInv
    <3> QED BY <1>1, <1>3, <3>1, <3>2, OthersKeepCall DEF CallInv
  <2>3. FlagInv' /\ TextInv'
    BY <1>1, <1>3 DEF FlagInv, TextInv, MessageIs
  <2> QED BY <2>1, <2>2, <2>3
<1> QED BY <1>2, <1>3 DEF device_read, NewCall

(* The byte that is tested is not the last one of the buffer, unless the   *)
(* read began outside it.                                                  *)
LEMMA ReadTestStep == ASSUME IInv, NEW p \in Procs, ReadTest(p) PROVE IInv'
<1> USE DEF IInv
<1>1. /\ Reading(p) /\ call[p].len > 0 /\ Byte(call[p].pos) # {NUL}
      /\ call' = [call EXCEPT ![p].tested = TRUE]
      /\ UNCHANGED <<message, already_open, offset, calls, lastSet, shared>>
  BY DEF ReadTest
<1>2. call[p] \in Calls /\ CallOK(p)
  BY DEF TypeInv, CallInv
<1>3. /\ call'[p] = [call[p] EXCEPT !.tested = TRUE]
      /\ \A q \in Procs \ {p} : call'[q] = call[q]
  BY <1>1 DEF TypeInv
<1>4. /\ call'[p].op = call[p].op /\ call'[p].buf = call[p].buf /\ call'[p].len = call[p].len
      /\ call'[p].from = call[p].from /\ call'[p].pos = call[p].pos /\ call'[p].tested = TRUE
  BY <1>2, <1>3 DEF Calls
<1>5. /\ call[p].from > BUF_LEN \/ (call[p].pos < BUF_LEN /\ message[call[p].pos] # NUL)
      /\ call[p].pos \in Nat
  BY <1>1, <1>2, ByteType DEF CallInv, CallOK, Calls
<1>6. TypeInv'
  <2>1. call'[p] \in Calls
    BY <1>2, <1>3 DEF Calls
  <2> QED BY <1>1, <2>1 DEF TypeInv
<1>7. CallInv'
  <2>1. CallOK(p)'
    BY <1>1, <1>2, <1>4, <1>5 DEF CallOK, Writing, Reading
  <2> QED BY <1>1, <1>3, <2>1, OthersKeepCall DEF CallInv
<1>8. FlagInv'
  BY <1>1, <1>3, <1>4, FlagStays
<1>9. TextInv'
  <2> SUFFICES ASSUME ~shared PROVE TextInv'
    BY <1>1 DEF TextInv
  <2>1. MessageIs(lastSet)' <=> MessageIs(lastSet)
    BY <1>1 DEF MessageIs
  <2>2. \A q \in Procs : /\ call'[q].op = call[q].op /\ call'[q].buf = call[q].buf
                          /\ call'[q].len = call[q].len /\ call'[q].pos = call[q].pos
                          /\ call'[q].from = call[q].from
    BY <1>3, <1>4
  <2>3. \A q \in Procs : call[q].op = "GET_MSG" =>
          (call'[q].tested => call[q].tested \/ message[call[q].pos] # NUL)
    BY <1>2, <1>3, <1>5 DEF CallOK
  <2> QED BY <1>1, <2>1, <2>2, <2>3 DEF TextInv
<1> QED BY <1>6, <1>7, <1>8, <1>9

(* device_read copies the byte it has tested. *)
LEMMA ReadByteStep == ASSUME IInv, NEW p \in Procs, ReadByte(p) PROVE IInv'
<1> USE DEF IInv
<1>1. PICK b \in Byte(call[p].pos) :
        /\ call[p].tested
        /\ call' = [call EXCEPT ![p].pos = @ + 1, ![p].len = @ - 1, ![p].tested = FALSE,
                                ![p].buf = Append(@, b)]
        /\ UNCHANGED <<message, already_open, offset, calls, lastSet, shared>>
  BY DEF ReadByte
<1>2. call[p] \in Calls /\ CallOK(p)
  BY DEF TypeInv, CallInv
<1>3. /\ call'[p] = [call[p] EXCEPT !.pos = @ + 1, !.len = @ - 1, !.tested = FALSE,
                                    !.buf = Append(@, b)]
      /\ \A q \in Procs \ {p} : call'[q] = call[q]
  BY <1>1 DEF TypeInv
<1>4. /\ call'[p].op = call[p].op /\ call'[p].buf = Append(call[p].buf, b)
      /\ call'[p].len = call[p].len - 1 /\ call'[p].pos = call[p].pos + 1
      /\ call'[p].from = call[p].from /\ call'[p].tested = FALSE
  BY <1>2, <1>3 DEF Calls
<1>5. /\ Reading(p) /\ call[p].len \in 1 .. BUF_LEN + 1 /\ call[p].pos \in Nat
      /\ call[p].pos < BUF_LEN \/ call[p].from > BUF_LEN
      /\ call[p].buf \in Seq(Bytes) /\ call[p].from \in Nat
  BY <1>1, <1>2 DEF CallOK, Calls
<1>0. b \in Bytes /\ (call[p].pos <= BUF_LEN => b = message[call[p].pos])
  BY <1>5, ByteType
<1>6. /\ call'[p].buf \in Seq(Bytes) /\ Len(call'[p].buf) = Len(call[p].buf) + 1
      /\ \A i \in 1 .. Len(call[p].buf) : call'[p].buf[i] = call[p].buf[i]
      /\ call'[p].buf[Len(call[p].buf) + 1] = b
  BY <1>0, <1>4, <1>5
<1>7. TypeInv'
  <2>1. call'[p] \in Calls
    <3> DEFINE u == call'[p].buf
    <3>1. call'[p] = [op |-> call[p].op, buf |-> u, len |-> call[p].len - 1,
                      from |-> call[p].from, pos |-> call[p].pos + 1, tested |-> FALSE]
      BY <1>2, <1>3, <1>4 DEF Calls
    <3>2. call[p].op \in Ops /\ u \in Seq(Bytes) /\ call[p].from \in 0 .. MaxOffset
      BY <1>2, <1>6 DEF Calls
    <3>3. call[p].len - 1 \in 0 .. BUF_LEN + 1 /\ call[p].pos + 1 \in Nat
      BY <1>5
    <3> HIDE DEF u
    <3> QED BY <3>1, <3>2, <3>3 DEF Calls
  <2> QED BY <1>1, <2>1 DEF TypeInv
<1>8. CallInv'
  <2>1. CallOK(p)'
    <3>1. call'[p].op \notin {"SET_MSG", "write"}
      BY <1>4, <1>5 DEF Reading
    <3>0. call'[p].op # "GET_NTH_BYTE"
      BY <1>4, <1>5 DEF Reading
    <3>2. call[p].op = "read" => /\ call'[p].from <= BUF_LEN
                                 /\ call'[p].pos = offset'[p] + Len(call'[p].buf)
      BY <1>1, <1>2, <1>4, <1>5, <1>6 DEF CallOK, TypeInv
    <3>3. call[p].op = "GET_MSG" => /\ call'[p].from = 0 /\ call'[p].pos = Len(call'[p].buf)
                                    /\ call'[p].len = BUF_LEN + 1 - call'[p].pos
      <4> SUFFICES ASSUME call[p].op = "GET_MSG"
                   PROVE  /\ call'[p].from = 0 /\ call'[p].pos = Len(call'[p].buf)
                          /\ call'[p].len = BUF_LEN + 1 - call'[p].pos
        OBVIOUS
      <4>1. /\ call[p].from = 0 /\ call[p].pos = Len(call[p].buf)
            /\ call[p].len = BUF_LEN + 1 - call[p].pos
        BY <1>2 DEF CallOK
      <4>2. call'[p].pos = Len(call'[p].buf)
        BY <1>4, <1>6, <4>1
      <4>3. call[p].len - 1 = BUF_LEN + 1 - (call[p].pos + 1)
        BY <1>5, <4>1
      <4> QED BY <1>4, <4>1, <4>2, <4>3
    <3>4. call'[p].pos <= BUF_LEN \/ call'[p].from > BUF_LEN
      BY <1>4, <1>5
    <3> QED BY <1>4, <3>0, <3>1, <3>2, <3>3, <3>4 DEF CallOK, Writing
  <2> QED BY <1>1, <1>3, <2>1, OthersKeepCall DEF CallInv
<1>9. FlagInv'
  BY <1>1, <1>3, <1>4, FlagStays
<1>10. TextInv'
  <2> SUFFICES ASSUME ~shared PROVE TextInv'
    BY <1>1 DEF TextInv
  <2>1. MessageIs(lastSet)' <=> MessageIs(lastSet)
    BY <1>1 DEF MessageIs
  <2>2. \A q \in Procs : call'[q].op = call[q].op
    BY <1>3, <1>4
  <2>3. \A q \in Procs : call'[q].op = "SET_MSG" => call'[q] = call[q]
    BY <1>3, <1>4, <1>5 DEF Reading
  <2>4. ASSUME call[p].op = "GET_MSG", NEW i \in 0 .. call'[p].pos - 1
        PROVE  call'[p].buf[i + 1] = message[i] /\ message[i] # NUL
    <3>1. call[p].pos = Len(call[p].buf) /\ call[p].from = 0
      BY <1>2, <2>4 DEF CallOK
    <3>2. message[call[p].pos] # NUL /\ b = message[call[p].pos]
      BY <1>0, <1>1, <1>5, <2>4, <3>1 DEF TextInv
    <3>3. CASE i = call[p].pos
      BY <1>6, <3>1, <3>2, <3>3
    <3>4. CASE i # call[p].pos
      <4>1. i \in 0 .. call[p].pos - 1 /\ i + 1 \in 1 .. Len(call[p].buf)
        BY <1>4, <1>5, <2>4, <3>1, <3>4
      <4>2. call[p].buf[i + 1] = message[i] /\ message[i] # NUL
        BY <2>4, <4>1 DEF TextInv
      <4> QED BY <1>6, <4>1, <4>2
    <3> QED BY <3>3, <3>4
  <2>5. ASSUME NEW q \in Procs, call'[q].op = "GET_MSG"
        PROVE  /\ \A i \in 0 .. call'[q].pos - 1 : call'[q].buf[i + 1] = message[i] /\ message[i] # NUL
               /\ call'[q].tested => message[call'[q].pos] # NUL
    <3>1. CASE q = p
      BY <1>4, <2>2, <2>4, <2>5, <3>1
    <3>2. CASE q # p
      BY <1>3, <2>5, <3>2 DEF TextInv
    <3> QED BY <3>1, <3>2
  <2>6. ASSUME NEW q \in Procs, call'[q].op = "SET_MSG"
        PROVE  /\ call'[q].len = 0 => MessageIs(lastSet)'
               /\ \A i \in 0 .. call'[q].pos - 1 : message'[i] = UserByte(call'[q].buf, i)
    <3>1. call'[q] = call[q] /\ call[q].op = "SET_MSG" /\ message' = message
      BY <1>1, <2>2, <2>3, <2>6
    <3> QED BY <2>1, <3>1 DEF TextInv
  <2>7. (\A q \in Procs : call'[q].op # "SET_MSG") => MessageIs(lastSet)'
    BY <2>1, <2>2 DEF TextInv
  <2>8. message' = message /\ ~shared'
    BY <1>1
  <2>9. ASSUME NEW q \in Procs, call'[q].op = "GET_NTH_BYTE"
        PROVE  call'[q].len = 0 /\ call'[q].from <= BUF_LEN => call'[q].buf = <<message'[call'[q].from]>>
    <3>1. call'[q] = call[q] /\ call[q].op = "GET_NTH_BYTE"
      BY <1>3, <1>4, <1>5, <2>2, <2>9 DEF Reading
    <3> QED BY <2>8, <3>1 DEF TextInv
  <2> HIDE DEF IInv
  <2> QED BY <2>5, <2>6, <2>7, <2>8, <2>9 DEF TextInv
<1> QED BY <1>7, <1>8, <1>9, <1>10

(* The position of a file moves by what was read, and stays in the buffer. *)
LEMMA ReadDoneStep == ASSUME IInv, NEW p \in Procs, ReadDone(p) PROVE IInv'
<1>1. /\ call[p].op \in {"read", "pread"}
      /\ offset' = IF call[p].op = "read" THEN [offset EXCEPT ![p] = @ + Len(call[p].buf)]
                   ELSE offset
      /\ call' = [call EXCEPT ![p] = Idle]
      /\ UNCHANGED <<message, already_open, calls, lastSet, shared>>
  BY DEF ReadDone
<1>2. call[p].op = "read" => /\ offset[p] + Len(call[p].buf) = call[p].pos
                             /\ call[p].pos \in 0 .. BUF_LEN
  BY <1>1 DEF IInv, CallInv, CallOK, TypeInv, Calls
<1>3. offset' \in [Procs -> 0 .. BUF_LEN] /\ \A q \in Procs \ {p} : offset'[q] = offset[q]
  BY <1>1, <1>2 DEF IInv, TypeInv
<1> QED BY <1>1, <1>3, CallEnds DEF Ioctls

-----------------------------------------------------------------------------

(* Every step keeps the invariant. *)
LEMMA NextInv == ASSUME IInv, [Next]_vars PROVE IInv'
<1>1. CASE UNCHANGED vars
  BY <1>1 DEF vars, IInv, TypeInv, CallInv, CallOK, Writing, Reading, FlagInv, TextInv, MessageIs
<1>2. ASSUME NEW p \in Procs, ioctl_no_effect(p) PROVE IInv'
  <2>1. calls' \in 0 .. MaxCalls
    BY <1>2 DEF ioctl_no_effect, IInv, TypeInv
  <2> QED BY <1>2, <2>1 DEF ioctl_no_effect, IInv, TypeInv, CallInv, CallOK, Writing, Reading, FlagInv,
                            TextInv, MessageIs
<1>3. ASSUME NEW p \in Procs, WriteDone(p) PROVE IInv'
  BY <1>3, CallEnds DEF WriteDone, Ioctls, IInv, TypeInv
<1> QED BY <1>1, <1>2, <1>3, SetStep, WriteStep, ReadStep, GetStep, NthStep, NthByteStep, DoneStep,
           WriteByteStep, ReadTestStep, ReadByteStep, ReadDoneStep DEF Next

(* The invariant holds in every reachable state. *)
LEMMA Invariant == Spec => []IInv
BY InitInv, NextInv, PTL DEF Spec

(* device_read and device_write of charioctl.c exclude nobody, and still   *)
(* no store leaves the buffer or reaches its last byte, no file's position *)
(* leaves it, and a load does so only in a call whose caller named an      *)
(* offset or an index outside.                                             *)
THEOREM TransfersInside == Spec => []TransfersStayInside
<1>1. IInv => TransfersStayInside
  BY DEF IInv, TypeInv, CallInv, CallOK, TransfersStayInside
<1> QED BY <1>1, Invariant, PTL

(* Without writes that bypass already_open, GET_MSG of device_ioctl        *)
(* returns the whole text of the last SET_MSG and nothing else, and        *)
(* GET_NTH_BYTE any of its bytes.                                          *)
THEOREM GetIsLastSet == Spec => []GetReturnsLastSet
<1>1. ASSUME IInv, NEW p \in Procs, call[p].op = "GET_MSG", ReadEnds(p), ~shared
      PROVE  call[p].buf = Kept(lastSet)
  <2> DEFINE b == call[p].buf
             k == call[p].pos
             s == lastSet
  <2>1. /\ b \in Seq(Bytes) /\ k = Len(b) /\ k \in 0 .. BUF_LEN /\ s \in Seq(Chars)
        /\ call[p].len = BUF_LEN + 1 - k
    <3>1. call[p] \in Calls /\ CallOK(p)
      BY <1>1 DEF IInv, TypeInv, CallInv
    <3> QED BY <1>1, <3>1 DEF IInv, TypeInv, Calls, CallOK
  <2>2. message[k] = NUL
    <3>1. Byte(k) = {message[k]}
      BY <1>1, <2>1, ByteType DEF IInv
    <3> QED BY <1>1, <2>1, <3>1 DEF ReadEnds
  <2>3. \A i \in 0 .. k - 1 : b[i + 1] = message[i] /\ message[i] # NUL
    BY <1>1 DEF IInv, TextInv
  <2>4. MessageIs(s)
    <3>1. \A q \in Procs : call[q].op # "SET_MSG"
      BY <1>1 DEF IInv, FlagInv, Ioctls
    <3> QED BY <1>1, <3>1 DEF IInv, TextInv
  <2> HIDE DEF b, k, s
  <2>5. k = KeptLen(s)
    <3>1. KeptLen(s) \in 0 .. BUF_LEN /\ KeptLen(s) <= Len(s) /\ Len(s) \in Nat
      BY <2>1 DEF KeptLen
    <3>2. ~(k < KeptLen(s))
      <4>1. ASSUME k < KeptLen(s) PROVE FALSE
        <5>1. message[k] = s[k + 1] /\ k + 1 \in 1 .. Len(s)
          BY <2>1, <2>4, <3>1, <4>1 DEF MessageIs
        <5> QED BY <2>1, <2>2, <5>1
      <4> QED BY <4>1
    <3>3. ~(KeptLen(s) < k)
      BY <2>1, <2>3, <2>4, <3>1 DEF MessageIs
    <3> QED BY <2>1, <3>1, <3>2, <3>3
  <2>6. /\ Kept(s) \in Seq(Chars) /\ Len(Kept(s)) = k
        /\ \A i \in 1 .. k : Kept(s)[i] = s[i]
    BY <2>1, <2>5 DEF Kept, KeptLen
  <2>7. \A i \in 1 .. k : b[i] = s[i]
    <3> SUFFICES ASSUME NEW i \in 1 .. k PROVE b[i] = s[i]
      OBVIOUS
    <3>1. i - 1 \in 0 .. k - 1 /\ (i - 1) + 1 = i
      BY <2>1
    <3>2. b[(i - 1) + 1] = message[i - 1]
      BY <2>3, <3>1
    <3>3. message[i - 1] = s[(i - 1) + 1]
      BY <2>4, <2>5, <3>1 DEF MessageIs
    <3> QED BY <3>1, <3>2, <3>3
  <2>8. b = Kept(s)
    BY <2>1, <2>6, <2>7
  <2> QED BY <2>8 DEF b, s
<1>2. ASSUME IInv, NEW p \in Procs, call[p].op = "GET_NTH_BYTE", call[p].len = 0, ~shared,
             call[p].from <= Len(Kept(lastSet))
      PROVE  call[p].buf = <<UserByte(Kept(lastSet), call[p].from)>>
  <2> DEFINE i == call[p].from
             s == lastSet
  <2>1. s \in Seq(Chars) /\ i \in Nat /\ i <= Len(Kept(s))
    BY <1>2 DEF IInv, TypeInv, Calls
  <2>2. MessageIs(s)
    <3>1. \A q \in Procs : call[q].op # "SET_MSG"
      BY <1>2 DEF IInv, FlagInv, Ioctls
    <3> QED BY <1>2, <3>1 DEF IInv, TextInv
  <2>3. i <= BUF_LEN => call[p].buf = <<message[i]>>
    BY <1>2 DEF IInv, TextInv
  <2> HIDE DEF i, s
  <2>4. /\ Kept(s) \in Seq(Chars) /\ Len(Kept(s)) = KeptLen(s) /\ KeptLen(s) \in 0 .. BUF_LEN
        /\ \A j \in 1 .. KeptLen(s) : Kept(s)[j] = s[j]
    BY <2>1 DEF Kept, KeptLen
  <2>5. message[i] = UserByte(Kept(s), i)
    BY <2>1, <2>2, <2>4 DEF MessageIs, UserByte
  <2>6. call[p].buf = <<UserByte(Kept(s), i)>>
    BY <2>1, <2>3, <2>4, <2>5
  <2> QED BY <2>6 DEF i, s
<1>3. IInv => GetReturnsLastSet
  BY <1>1, <1>2 DEF GetReturnsLastSet
<1> QED BY <1>3, Invariant, PTL

=============================================================================
