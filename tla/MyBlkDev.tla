------------------------------ MODULE MyBlkDev ------------------------------
(***************************************************************************)
(* practice/myblkdev: a byte ring in memory that the driver shares with    *)
(* one process through mmap.  The driver's timer produces (myblkdev.c),    *)
(* the application consumes (app/main.c).  The driver's spinlock does not  *)
(* cover the application, so the two only meet in ctrl->head, ctrl->tail   *)
(* and the bytes; a step below ends at each of those accesses.             *)
(*                                                                         *)
(* The code has no memory barrier between the copy of the bytes and the    *)
(* store of ctrl->head.  The application may therefore see the new head    *)
(* before the bytes: PublishFirst models that, and the history variable    *)
(* overtaken remembers it.                                                 *)
(*                                                                         *)
(* The bytes accepted into the ring are numbered 1, 2, 3, ...              *)
(***************************************************************************)
EXTENDS Naturals, Sequences

CONSTANTS
  Size,       \* ctrl->size
  SampleLen,  \* length of the sample the timer produces
  MaxBytes,   \* bound on the bytes accepted
  MaxOverflow \* bound on ctrl->overflow

ASSUME MyBlkAssumption ==
  /\ Size \in Nat /\ Size >= 2
  /\ SampleLen \in Nat \ {0}
  /\ MaxBytes \in Nat /\ MaxOverflow \in Nat

VARIABLES
  head, tail, overflow,  \* ctrl
  data,                  \* mydev->data
  ppc, ph, plen,         \* myblk_produce_data: next step, its head and len
  cpc, ct, ch,           \* the application: next step, its tail and head
  waiting,               \* the application is queued on mydev->wq, not woken
  accepted,              \* history: bytes produced into the ring
  out,                   \* bytes written to stdout
  overtaken              \* history: a new head became visible before its bytes

prodVars == <<ppc, ph, plen>>
consVars == <<cpc, ct, ch>>
vars == <<head, tail, overflow, data, prodVars, consVars, waiting, accepted, out, overtaken>>

Init ==
  /\ head = 0 /\ tail = 0 /\ overflow = 0
  /\ data = [i \in 0 .. Size - 1 |-> 0]
  /\ ppc = "idle" /\ ph = 0 /\ plen = 0
  /\ cpc = "poll" /\ ct = 0 /\ ch = 0
  /\ waiting = FALSE
  /\ accepted = 0
  /\ out = <<>>
  /\ overtaken = FALSE

-----------------------------------------------------------------------------
(* myblk_timer_fn and myblk_produce_data. *)

(* Mutant: uses every slot. *)
free_space_Full(h, t) == IF h >= t THEN Size - (h - t) ELSE t - h

(* One slot stays free so that head = tail means empty. *)
free_space(h, t) == IF h >= t THEN Size - (h - t) - 1 ELSE t - h - 1

ProduceStart ==
  /\ ppc = "idle" /\ accepted + SampleLen <= MaxBytes
  /\ LET free == free_space(head, tail)
     IN  /\ plen' = IF SampleLen > free THEN free ELSE SampleLen
         /\ overflow' = IF SampleLen > free THEN overflow + 1 ELSE overflow
  /\ overflow' <= MaxOverflow
  /\ ph' = IF plen' > 0 THEN head ELSE 0
  /\ ppc' = IF plen' > 0 THEN "copy" ELSE "idle"
  /\ UNCHANGED <<head, tail, data, consVars, waiting, accepted, out, overtaken>>

(* Mutant: the part behind the end of the ring is not copied. *)
Copied_NoWrap(h, len, n) ==
  [i \in 0 .. Size - 1 |-> IF i >= h /\ i < h + len THEN n + 1 + (i - h) ELSE data[i]]

(* The bytes n+1 .. n+len go to the slots from h on, wrapping at the end. *)
Copied(h, len, n) ==
  [i \in 0 .. Size - 1 |->
     IF i >= h /\ i < h + len THEN n + 1 + (i - h)
     ELSE IF h + len > Size /\ i < h + len - Size THEN n + 1 + (Size - h) + i
     ELSE data[i]]

ProduceCopy ==
  /\ ppc = "copy"
  /\ data' = Copied(ph, plen, accepted)
  /\ ppc' = "publish"
  /\ UNCHANGED <<head, tail, overflow, ph, plen, consVars, waiting, accepted, out, overtaken>>

ProducePublish ==
  /\ ppc = "publish"
  /\ head' = (ph + plen) % Size
  /\ accepted' = accepted + plen
  /\ ppc' = "wake"
  /\ UNCHANGED <<tail, overflow, data, ph, plen, consVars, waiting, out, overtaken>>

(* The stores of bytes and head in the other order. *)
PublishFirst ==
  /\ ppc = "copy"
  /\ head' = (ph + plen) % Size
  /\ accepted' = accepted + plen
  /\ overtaken' = TRUE
  /\ ppc' = "late"
  /\ UNCHANGED <<tail, overflow, data, ph, plen, consVars, waiting, out>>

CopyLate ==
  /\ ppc = "late"
  /\ data' = Copied(ph, plen, accepted - plen)
  /\ ppc' = "wake"
  /\ UNCHANGED <<head, tail, overflow, ph, plen, consVars, waiting, accepted, out, overtaken>>

(* Mutant: nobody is woken. *)
ProduceWake_Silent ==
  /\ ppc = "wake"
  /\ ppc' = "idle" /\ ph' = 0 /\ plen' = 0
  /\ UNCHANGED <<head, tail, overflow, data, consVars, waiting, accepted, out, overtaken>>

ProduceWake ==
  /\ ppc = "wake"
  /\ waiting' = FALSE
  /\ ppc' = "idle" /\ ph' = 0 /\ plen' = 0
  /\ UNCHANGED <<head, tail, overflow, data, consVars, accepted, out, overtaken>>

myblk_produce_data ==
  ProduceStart \/ ProduceCopy \/ ProducePublish \/ PublishFirst \/ CopyLate \/ ProduceWake

-----------------------------------------------------------------------------
(* The application: poll (myblkpoll queues, then compares) and consume_ring. *)

PollQueue ==
  /\ cpc = "poll"
  /\ waiting' = TRUE
  /\ cpc' = "test"
  /\ UNCHANGED <<head, tail, overflow, data, prodVars, ct, ch, accepted, out, overtaken>>

myblkpoll ==
  /\ cpc = "test"
  /\ cpc' = IF head # tail THEN "consume" ELSE "asleep"
  /\ waiting' = IF head # tail THEN FALSE ELSE waiting
  /\ UNCHANGED <<head, tail, overflow, data, prodVars, ct, ch, accepted, out, overtaken>>

(* Woken: poll arms its entry again and asks the driver once more.  The    *)
(* poll also ends after its timeout of five seconds.                       *)
PollWoken ==
  /\ cpc = "asleep" /\ ~waiting
  /\ cpc' = "test" /\ waiting' = TRUE
  /\ UNCHANGED <<head, tail, overflow, data, prodVars, ct, ch, accepted, out, overtaken>>

PollTimeout ==
  /\ cpc = "asleep"
  /\ cpc' = "poll" /\ waiting' = FALSE
  /\ UNCHANGED <<head, tail, overflow, data, prodVars, ct, ch, accepted, out, overtaken>>

ConsumeStart ==
  /\ cpc = "consume"
  /\ \/ /\ tail # head
        /\ ct' = tail /\ cpc' = "head"
     \/ /\ tail = head
        /\ cpc' = "poll" /\ UNCHANGED ct
  /\ UNCHANGED <<head, tail, overflow, data, prodVars, ch, waiting, accepted, out, overtaken>>

ConsumeHead ==
  /\ cpc = "head"
  /\ ch' = head /\ cpc' = "write"
  /\ UNCHANGED <<head, tail, overflow, data, prodVars, ct, waiting, accepted, out, overtaken>>

(* fwrite up to the head, or up to the end of the ring when it has wrapped. *)
ChunkEnd == IF ct < ch THEN ch ELSE Size

ConsumeWrite ==
  /\ cpc = "write"
  /\ out' = out \o [i \in 1 .. ChunkEnd - ct |-> data[ct + i - 1]]
  /\ cpc' = "tail"
  /\ UNCHANGED <<head, tail, overflow, data, prodVars, ct, ch, waiting, accepted, overtaken>>

(* Mutant: the second part of a wrapped stretch is skipped. *)
ConsumeTail_SkipsWrapped ==
  /\ cpc = "tail"
  /\ tail' = ch
  /\ cpc' = "consume" /\ ct' = 0 /\ ch' = 0
  /\ UNCHANGED <<head, overflow, data, prodVars, waiting, accepted, out, overtaken>>

ConsumeTail ==
  /\ cpc = "tail"
  /\ tail' = IF ct < ch THEN ch ELSE 0
  /\ cpc' = "consume" /\ ct' = 0 /\ ch' = 0
  /\ UNCHANGED <<head, overflow, data, prodVars, waiting, accepted, out, overtaken>>

Application ==
  \/ PollQueue \/ myblkpoll \/ PollWoken \/ PollTimeout
  \/ ConsumeStart \/ ConsumeHead \/ ConsumeWrite \/ ConsumeTail

-----------------------------------------------------------------------------

Next == myblk_produce_data \/ Application

Spec == Init /\ [][Next]_vars

(* The timer re-arms itself and the application's loop runs on.  The poll  *)
(* timeout is not counted on: sleepers must be woken by the driver.        *)
Fairness ==
  /\ WF_vars(myblk_produce_data)
  /\ WF_vars(PollQueue \/ myblkpoll \/ PollWoken)
  /\ WF_vars(ConsumeStart \/ ConsumeHead \/ ConsumeWrite \/ ConsumeTail)

FairSpec == Spec /\ Fairness

-----------------------------------------------------------------------------
(* Properties. *)

(* Bytes in the ring, and in the ring but already written to stdout. *)
Used == IF head >= tail THEN head - tail ELSE head - tail + Size

Printed == IF cpc = "tail" THEN ChunkEnd - ct ELSE 0

(* stdout is the produced stream: every accepted byte once and in order,   *)
(* although driver and application share no lock, unless a head overtook   *)
(* its bytes.                                                              *)
StreamIntact == ~overtaken => \A i \in DOMAIN out : out[i] = i

(* What is not in the ring has been written: no accepted byte is skipped   *)
(* and none is released to the producer before it was written.             *)
NothingSkipped == Len(out) + Used = accepted + Printed

(* consume_ring's else branch (l.40-45), which writes up to the end of the *)
(* ring, is only taken when the bytes really wrap: the head it re-reads    *)
(* after the loop's test never equals the tail.                            *)
ElseMeansWrapped == cpc \in {"write", "tail"} => ct # ch

(* No accepted byte waits for ever: the application empties the ring, by   *)
(* the driver's wake-up alone.                                             *)
AllPrinted == \A n \in 1 .. MaxBytes : accepted >= n ~> Len(out) >= n

=============================================================================
