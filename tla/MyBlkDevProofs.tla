--------------------------- MODULE MyBlkDevProofs ---------------------------
(***************************************************************************)
(* Proofs about the shared byte ring of practice/myblkdev for every size   *)
(* of the ring, every sample length and any number of bytes.               *)
(*                                                                         *)
(* Driver and application share no lock, so each works with values that    *)
(* are old: the driver with the space it computed, the application with a  *)
(* head it read.  The invariant says in what sense they stay true.  The    *)
(* space a production has claimed stays free (ClaimInv), since the         *)
(* application only moves the tail towards the head; the stretch the       *)
(* application is at stays filled (StretchInv), since the driver only      *)
(* moves the head away from the tail and never onto it.  With that, the    *)
(* bytes are where their distance from the head says (BytesInv).           *)
(***************************************************************************)
EXTENDS MyBlkDev, Integers, SequenceTheorems, TLAPS

Slots == 0 .. Size - 1

(* How far slot h is ahead of slot t. *)
Dist(t, h) == IF h >= t THEN h - t ELSE h - t + Size

(* Slot i was, or will be, filled this many bytes before, or after, head. *)
Back(i) == IF i < head THEN head - i ELSE head - i + Size
Ahead(i) == IF i < head THEN i - head + Size ELSE i - head

TypeInv ==
  /\ head \in Slots /\ tail \in Slots /\ ph \in Slots /\ ct \in Slots /\ ch \in Slots
  /\ data \in [Slots -> Int]
  /\ plen \in Nat /\ accepted \in Int
  /\ ppc \in {"idle", "copy", "publish", "late", "wake"}
  /\ cpc \in {"poll", "test", "asleep", "consume", "head", "write", "tail"}
  /\ out \in Seq(Int)
  /\ overtaken \in BOOLEAN

(* A production's space is free and begins at the head. *)
ClaimInv ==
  /\ ppc \in {"copy", "publish"} => ph = head /\ Dist(tail, head) + plen < Size
  /\ ppc = "late" => overtaken

(* The application's stretch is in the ring, and is not empty. *)
StretchInv ==
  /\ cpc \in {"head", "write", "tail"} => ct = tail /\ tail # head
  /\ cpc \in {"write", "tail"} => ch # ct /\ Dist(ct, ch) <= Dist(tail, head)

(* The bytes in the ring, and the ones copied behind its head. *)
BytesInv ==
  ~overtaken =>
    /\ \A i \in Slots : Back(i) <= Dist(tail, head) => data[i] = accepted + 1 - Back(i)
    /\ ppc = "publish" => \A i \in Slots : Ahead(i) < plen => data[i] = accepted + 1 + Ahead(i)

IInv == TypeInv /\ ClaimInv /\ StretchInv /\ BytesInv /\ StreamIntact /\ NothingSkipped

-----------------------------------------------------------------------------

(* Used is the distance from the tail to the head. *)
LEMMA UsedIsDist == ASSUME TypeInv PROVE Used = Dist(tail, head) /\ Used \in Slots
BY MyBlkAssumption DEF TypeInv, Used, Dist, Slots

(* The head after a production wraps at most once. *)
LEMMA HeadWraps ==
  ASSUME NEW h \in Slots, NEW n \in Nat, n < Size
  PROVE  /\ (h + n) % Size = IF h + n < Size THEN h + n ELSE h + n - Size
         /\ (h + n) % Size \in Slots
BY MyBlkAssumption DEF Slots

(* free_space leaves one slot unused. *)
LEMMA FreeSpace ==
  ASSUME TypeInv
  PROVE  free_space(head, tail) \in Nat /\ Dist(tail, head) + free_space(head, tail) < Size
BY MyBlkAssumption DEF TypeInv, free_space, Dist, Slots

(* The empty ring satisfies the invariant. *)
LEMMA InitInv == ASSUME Init PROVE IInv
<1> USE MyBlkAssumption DEF Init, Slots
<1>1. TypeInv
  <2>1. out \in Seq(Int) /\ data \in [Slots -> Int]
    OBVIOUS
  <2>2. overtaken \in BOOLEAN
    BY Zenon
  <2>4. 0 \in Slots
    OBVIOUS
  <2>3. /\ ppc \in {"idle", "copy", "publish", "late", "wake"}
        /\ cpc \in {"poll", "test", "asleep", "consume", "head", "write", "tail"}
    OBVIOUS
  <2> HIDE DEF Slots
  <2> QED BY <2>1, <2>2, <2>3, <2>4 DEF TypeInv
<1>2. ClaimInv /\ StretchInv
  BY DEF ClaimInv, StretchInv
<1>3. BytesInv
  BY DEF BytesInv, Back, Dist
<1>4. StreamIntact /\ NothingSkipped
  BY DEF StreamIntact, NothingSkipped, Used, Printed
<1> QED BY <1>1, <1>2, <1>3, <1>4 DEF IInv

(* The copy keeps the type of the bytes, wherever it goes. *)
LEMMA CopyType ==
  ASSUME TypeInv, NEW n \in Int PROVE Copied(ph, plen, n) \in [Slots -> Int]
BY MyBlkAssumption DEF TypeInv, Copied, Slots

(* The copy stores the new bytes behind the head and no others. *)
LEMMA CopyBytes ==
  ASSUME TypeInv, ph = head, plen < Size, NEW n \in Int, NEW i \in Slots
  PROVE  Copied(ph, plen, n)[i] = IF Ahead(i) < plen THEN n + 1 + Ahead(i) ELSE data[i]
<1>1. Copied(ph, plen, n)[i] =
        IF i >= ph /\ i < ph + plen THEN n + 1 + (i - ph)
        ELSE IF ph + plen > Size /\ i < ph + plen - Size THEN n + 1 + (Size - ph) + i
        ELSE data[i]
  BY DEF Copied, Slots
<1>2. /\ i \in Int /\ i >= 0 /\ i < Size /\ head \in Int /\ head >= 0 /\ head < Size
      /\ plen \in Int /\ plen >= 0 /\ Size \in Int
  BY MyBlkAssumption DEF TypeInv, Slots
<1>3. CASE i >= head /\ i < head + plen
  BY <1>1, <1>2, <1>3 DEF Ahead
<1>4. CASE i >= head /\ ~(i < head + plen)
  BY <1>1, <1>2, <1>4 DEF Ahead
<1>5. CASE i < head /\ i < head + plen - Size
  BY <1>1, <1>2, <1>5 DEF Ahead
<1>6. CASE i < head /\ ~(i < head + plen - Size)
  BY <1>1, <1>2, <1>6 DEF Ahead
<1> QED BY <1>2, <1>3, <1>4, <1>5, <1>6

-----------------------------------------------------------------------------
(* The driver's steps. *)

(* ProduceStart claims at most the space that is free. *)
LEMMA StartStep == ASSUME IInv, ProduceStart PROVE IInv'
<1> USE DEF IInv
<1>1. /\ plen' \in Nat /\ Dist(tail, head) + plen' < Size
      /\ ph' \in Slots /\ ppc' \in {"idle", "copy"} /\ (ppc' = "copy" => ph' = head)
  <2>1. /\ plen' = IF SampleLen > free_space(head, tail) THEN free_space(head, tail) ELSE SampleLen
        /\ ph' = IF plen' > 0 THEN head ELSE 0
        /\ ppc' = IF plen' > 0 THEN "copy" ELSE "idle"
    BY DEF ProduceStart
  <2>2. free_space(head, tail) \in Nat /\ Dist(tail, head) + free_space(head, tail) < Size
    BY FreeSpace
  <2>3. SampleLen \in Nat /\ Size \in Nat /\ head \in Slots /\ 0 \in Slots /\ Dist(tail, head) \in Int
    BY MyBlkAssumption DEF TypeInv, Dist, Slots
  <2>4. plen' \in Nat /\ Dist(tail, head) + plen' < Size
    BY <2>1, <2>2, <2>3
  <2> QED BY <2>1, <2>3, <2>4
<1>2. /\ ppc = "idle"
      /\ UNCHANGED <<head, tail, data, consVars, waiting, accepted, out, overtaken>>
  BY DEF ProduceStart
<1>3. TypeInv'
  BY <1>1, <1>2 DEF TypeInv, Slots, consVars
<1>4. ClaimInv' /\ StretchInv'
  BY <1>1, <1>2 DEF ClaimInv, StretchInv, Dist, consVars
<1>5. BytesInv'
  BY <1>1, <1>2 DEF BytesInv, Back, Dist, Slots
<1>6. StreamIntact' /\ NothingSkipped'
  BY <1>2 DEF StreamIntact, NothingSkipped, Used, Printed, ChunkEnd, consVars
<1> QED BY <1>3, <1>4, <1>5, <1>6

(* ProduceCopy changes no byte that is in the ring. *)
LEMMA CopyStep == ASSUME IInv, ProduceCopy PROVE IInv'
<1> USE DEF IInv
<1>1. /\ ppc = "copy" /\ ppc' = "publish" /\ data' = Copied(ph, plen, accepted)
      /\ UNCHANGED <<head, tail, ph, plen, consVars, accepted, out, overtaken>>
  BY DEF ProduceCopy
<1>2. ph = head /\ plen < Size /\ Dist(tail, head) + plen < Size
  BY <1>1, UsedIsDist, MyBlkAssumption DEF ClaimInv, Slots, TypeInv
<1>3. data' \in [Slots -> Int]
  BY <1>1, CopyType DEF TypeInv
<1>4. \A i \in Slots : data'[i] = IF Ahead(i) < plen THEN accepted + 1 + Ahead(i) ELSE data[i]
  BY <1>1, <1>2, CopyBytes DEF TypeInv
<1>5. TypeInv'
  BY <1>1, <1>3 DEF TypeInv, Slots, consVars
<1>6. ClaimInv' /\ StretchInv'
  BY <1>1 DEF ClaimInv, StretchInv, Dist, consVars
<1>7. BytesInv'
  <2> SUFFICES ASSUME ~overtaken, NEW i \in Slots
               PROVE  /\ Back(i) <= Dist(tail, head) => data'[i] = accepted + 1 - Back(i)
                      /\ Ahead(i) < plen => data'[i] = accepted + 1 + Ahead(i)
    BY <1>1 DEF BytesInv, Back, Ahead, Dist, Slots
  <2>1. Back(i) <= Dist(tail, head) => Ahead(i) >= plen
    BY <1>2, MyBlkAssumption DEF Back, Ahead, Dist, TypeInv, Slots
  <2>2. Ahead(i) \in Int
    BY MyBlkAssumption DEF Ahead, TypeInv, Slots
  <2> QED BY <1>4, <2>1, <2>2 DEF BytesInv, TypeInv
<1>8. StreamIntact' /\ NothingSkipped'
  BY <1>1 DEF StreamIntact, NothingSkipped, Used, Printed, ChunkEnd, consVars
<1> QED BY <1>5, <1>6, <1>7, <1>8

(* A new head adds what was claimed to the bytes in the ring. *)
LEMMA HeadMoves ==
  ASSUME TypeInv, ph = head, Dist(tail, head) + plen < Size, head' = (ph + plen) % Size,
         tail' = tail
  PROVE  /\ head' \in Slots
         /\ Dist(tail, head)' = Dist(tail, head) + plen
         /\ \A i \in Slots : Back(i)' = IF Ahead(i) < plen THEN plen - Ahead(i) ELSE Back(i) + plen
<1>1. plen < Size /\ plen \in Nat
  BY UsedIsDist, MyBlkAssumption DEF TypeInv, Slots
<1>2. head' = (IF head + plen < Size THEN head + plen ELSE head + plen - Size) /\ head' \in Slots
  BY <1>1, HeadWraps DEF TypeInv
<1>3. /\ head \in Int /\ head >= 0 /\ head < Size /\ tail \in Int /\ tail >= 0 /\ tail < Size
      /\ plen \in Int /\ plen >= 0 /\ Size \in Int
  BY MyBlkAssumption DEF TypeInv, Slots
<1>4. Dist(tail, head)' = Dist(tail, head) + plen
  <2>1. Dist(tail, head)' = IF head' >= tail THEN head' - tail ELSE head' - tail + Size
    BY DEF Dist
  <2>2. IF head >= tail THEN head - tail + plen < Size ELSE head - tail + Size + plen < Size
    BY <1>3 DEF Dist
  <2>3. CASE head + plen < Size
    BY <1>2, <1>3, <2>1, <2>2, <2>3 DEF Dist
  <2>4. CASE ~(head + plen < Size)
    BY <1>2, <1>3, <2>1, <2>2, <2>4 DEF Dist
  <2> QED BY <2>3, <2>4
<1>5. ASSUME NEW i \in Slots
      PROVE  Back(i)' = IF Ahead(i) < plen THEN plen - Ahead(i) ELSE Back(i) + plen
  <2>1. Back(i)' = IF i < head' THEN head' - i ELSE head' - i + Size
    BY DEF Back
  <2>2. i \in Int /\ i >= 0 /\ i < Size
    BY MyBlkAssumption DEF Slots
  <2>3. CASE head + plen < Size
    BY <1>1, <1>2, <1>3, <2>1, <2>2, <2>3 DEF Back, Ahead
  <2>4. CASE ~(head + plen < Size)
    BY <1>1, <1>2, <1>3, <2>1, <2>2, <2>4 DEF Back, Ahead
  <2> QED BY <2>3, <2>4
<1> QED BY <1>2, <1>4, <1>5

(* A longer ring still holds the application's stretch. *)
LEMMA StretchStays ==
  ASSUME IInv, UNCHANGED <<tail, consVars>>, head' \in Slots, Dist(tail, head)' >= Dist(tail, head)
  PROVE  StretchInv'
<1>1. Dist(ct, ch)' = Dist(ct, ch)
  BY DEF Dist, consVars
<1>2. tail # head => tail' # head'
  BY MyBlkAssumption DEF IInv, TypeInv, Dist, Slots
<1>3. Dist(tail, head) \in Int /\ Dist(tail, head)' \in Int /\ Dist(ct, ch) \in Int
  BY MyBlkAssumption DEF IInv, TypeInv, Dist, Slots
<1> QED BY <1>1, <1>2, <1>3 DEF IInv, StretchInv, consVars

(* ProducePublish moves the head over bytes that are there. *)
LEMMA PublishStep == ASSUME IInv, ProducePublish PROVE IInv'
<1> USE DEF IInv
<1>1. /\ ppc = "publish" /\ ppc' = "wake" /\ head' = (ph + plen) % Size
      /\ accepted' = accepted + plen
      /\ UNCHANGED <<tail, data, ph, plen, consVars, out, overtaken>>
  BY DEF ProducePublish
<1>2. ph = head /\ Dist(tail, head) + plen < Size
  BY <1>1 DEF ClaimInv
<1>3. /\ head' \in Slots
      /\ Dist(tail, head)' = Dist(tail, head) + plen
      /\ \A i \in Slots : Back(i)' = IF Ahead(i) < plen THEN plen - Ahead(i) ELSE Back(i) + plen
  BY <1>1, <1>2, HeadMoves
<1>4. TypeInv'
  BY <1>1, <1>3 DEF TypeInv, Slots, consVars
<1>5. Dist(tail, head) \in Int /\ plen \in Nat /\ accepted \in Int
  BY MyBlkAssumption DEF TypeInv, Dist, Slots
<1>6. ClaimInv' /\ StretchInv'
  BY <1>1, <1>3, <1>5, StretchStays DEF ClaimInv
<1>7. BytesInv'
  <2> SUFFICES ASSUME ~overtaken, NEW i \in Slots, Back(i)' <= Dist(tail, head)'
               PROVE  data[i] = accepted + plen + 1 - Back(i)'
    BY <1>1 DEF BytesInv, Slots
  <2>1. Back(i) \in Int /\ Ahead(i) \in Int
    BY MyBlkAssumption DEF Back, Ahead, TypeInv, Slots
  <2> QED BY <1>1, <1>3, <1>5, <2>1 DEF BytesInv
<1>8. StreamIntact' /\ Printed' = Printed
  BY <1>1 DEF StreamIntact, Printed, ChunkEnd, consVars
<1>9. NothingSkipped'
  <2>1. Used = Dist(tail, head) /\ Used' = Dist(tail, head)'
    BY DEF Used, Dist
  <2>2. Len(out) \in Nat /\ Printed \in Int
    BY MyBlkAssumption DEF TypeInv, Printed, ChunkEnd, Slots
  <2> QED BY <1>1, <1>3, <1>5, <1>8, <2>1, <2>2 DEF NothingSkipped
<1> QED BY <1>4, <1>6, <1>7, <1>8, <1>9

(* PublishFirst moves the head over bytes that are not there yet. *)
LEMMA PublishFirstStep == ASSUME IInv, PublishFirst PROVE IInv'
<1> USE DEF IInv
<1>1. /\ ppc = "copy" /\ ppc' = "late" /\ head' = (ph + plen) % Size
      /\ accepted' = accepted + plen /\ overtaken' = TRUE
      /\ UNCHANGED <<tail, data, ph, plen, consVars, out>>
  BY DEF PublishFirst
<1>2. ph = head /\ Dist(tail, head) + plen < Size
  BY <1>1 DEF ClaimInv
<1>3. head' \in Slots /\ Dist(tail, head)' = Dist(tail, head) + plen
  BY <1>1, <1>2, HeadMoves
<1>4. TypeInv'
  <2>1. overtaken' \in BOOLEAN
    BY <1>1, Zenon
  <2> QED BY <1>1, <1>3, <2>1 DEF TypeInv, Slots, consVars
<1>5. Dist(tail, head) \in Int /\ plen \in Nat /\ accepted \in Int
  BY MyBlkAssumption DEF TypeInv, Dist, Slots
<1>6. ClaimInv' /\ StretchInv'
  BY <1>1, <1>3, <1>5, StretchStays DEF ClaimInv
<1>7. BytesInv' /\ StreamIntact'
  BY <1>1 DEF BytesInv, StreamIntact
<1>8. NothingSkipped'
  <2>1. Used = Dist(tail, head) /\ Used' = Dist(tail, head)' /\ Printed' = Printed
    BY <1>1 DEF Used, Dist, Printed, ChunkEnd, consVars
  <2>2. Len(out) \in Nat /\ Printed \in Int
    BY MyBlkAssumption DEF TypeInv, Printed, ChunkEnd, Slots
  <2> QED BY <1>1, <1>3, <1>5, <2>1, <2>2 DEF NothingSkipped
<1> QED BY <1>4, <1>6, <1>7, <1>8

(* CopyLate stores the bytes of a head that overtook them. *)
LEMMA CopyLateStep == ASSUME IInv, CopyLate PROVE IInv'
<1> USE DEF IInv
<1>1. /\ ppc = "late" /\ ppc' = "wake" /\ data' = Copied(ph, plen, accepted - plen)
      /\ UNCHANGED <<head, tail, ph, plen, consVars, accepted, out, overtaken>>
  BY DEF CopyLate
<1>2. data' \in [Slots -> Int]
  BY <1>1, CopyType DEF TypeInv
<1>3. TypeInv'
  BY <1>1, <1>2 DEF TypeInv, Slots, consVars
<1>4. ClaimInv' /\ StretchInv'
  BY <1>1 DEF ClaimInv, StretchInv, Dist, consVars
<1>5. BytesInv' /\ StreamIntact'
  BY <1>1 DEF BytesInv, StreamIntact, ClaimInv
<1>6. NothingSkipped'
  BY <1>1 DEF NothingSkipped, Used, Printed, ChunkEnd, consVars
<1> QED BY <1>3, <1>4, <1>5, <1>6

(* ProduceWake and every step of the poll leave the ring alone. *)
LEMMA QuietStep ==
  ASSUME IInv, UNCHANGED <<head, tail, data, accepted, out, overtaken>>,
         \/ ppc' = "idle" /\ ph' = 0 /\ plen' = 0 /\ UNCHANGED consVars
         \/ /\ cpc # "tail" /\ cpc' \in {"poll", "test", "asleep", "consume"}
            /\ UNCHANGED <<prodVars, ct, ch>>
  PROVE  IInv'
<1> USE DEF IInv
<1>1. 0 \in Slots
  BY MyBlkAssumption DEF Slots
<1>2. TypeInv'
  BY <1>1 DEF TypeInv, Slots, consVars, prodVars
<1>3. ClaimInv' /\ StretchInv'
  BY DEF ClaimInv, StretchInv, Dist, consVars, prodVars
<1>4. BytesInv' /\ StreamIntact'
  BY DEF BytesInv, Back, Ahead, Dist, StreamIntact, Slots, prodVars
<1>5. NothingSkipped'
  BY DEF NothingSkipped, Used, Printed, ChunkEnd, consVars
<1> QED BY <1>2, <1>3, <1>4, <1>5

-----------------------------------------------------------------------------
(* The application's steps. *)

(* ConsumeStart goes on only when there are bytes. *)
LEMMA ConsumeStartStep == ASSUME IInv, ConsumeStart PROVE IInv'
<1> USE DEF IInv
<1>1. /\ \/ tail # head /\ ct' = tail /\ cpc' = "head"
         \/ ct' = ct /\ cpc' = "poll"
      /\ cpc = "consume"
      /\ UNCHANGED <<head, tail, data, prodVars, ch, accepted, out, overtaken>>
  BY DEF ConsumeStart
<1>2. TypeInv'
  BY <1>1 DEF TypeInv, Slots, prodVars
<1>3. ClaimInv' /\ StretchInv'
  BY <1>1 DEF ClaimInv, StretchInv, Dist, prodVars
<1>4. BytesInv' /\ StreamIntact'
  BY <1>1 DEF BytesInv, Back, Ahead, Dist, StreamIntact, Slots, prodVars
<1>5. NothingSkipped'
  BY <1>1 DEF NothingSkipped, Used, Printed
<1> QED BY <1>2, <1>3, <1>4, <1>5

(* ConsumeHead reads a head that is at most the one there will be. *)
LEMMA ConsumeHeadStep == ASSUME IInv, ConsumeHead PROVE IInv'
<1> USE DEF IInv
<1>1. /\ cpc = "head" /\ ch' = head /\ cpc' = "write"
      /\ UNCHANGED <<head, tail, data, prodVars, ct, accepted, out, overtaken>>
  BY DEF ConsumeHead
<1>2. TypeInv'
  BY <1>1 DEF TypeInv, Slots, prodVars
<1>3. Dist(tail, head) \in Int
  BY MyBlkAssumption DEF TypeInv, Dist, Slots
<1>4. ClaimInv' /\ StretchInv'
  BY <1>1, <1>3 DEF ClaimInv, StretchInv, Dist, prodVars
<1>5. BytesInv' /\ StreamIntact'
  BY <1>1 DEF BytesInv, Back, Ahead, Dist, StreamIntact, Slots, prodVars
<1>6. NothingSkipped'
  BY <1>1 DEF NothingSkipped, Used, Printed
<1> QED BY <1>2, <1>4, <1>5, <1>6

(* The stretch that is written is in the ring and ends before its end. *)
LEMMA ChunkInRing ==
  ASSUME TypeInv, StretchInv, cpc \in {"write", "tail"}
  PROVE  /\ ChunkEnd - ct \in Nat /\ ChunkEnd <= Size /\ ChunkEnd - ct <= Dist(tail, head)
         /\ ct = tail /\ (ch < ct => head < tail)
<1>1. /\ ct = tail /\ ch # ct /\ Dist(ct, ch) <= Dist(tail, head)
  BY DEF StretchInv
<1>2. /\ head \in Int /\ head >= 0 /\ head < Size /\ tail \in Int /\ tail >= 0 /\ tail < Size
      /\ ch \in Int /\ ch >= 0 /\ ch < Size /\ Size \in Int
  BY MyBlkAssumption DEF TypeInv, Slots
<1> QED BY <1>1, <1>2 DEF ChunkEnd, Dist

(* ConsumeWrite continues stdout with the bytes that follow. *)
LEMMA ConsumeWriteStep == ASSUME IInv, ConsumeWrite PROVE IInv'
<1> USE DEF IInv
<1> DEFINE chunk == [i \in 1 .. ChunkEnd - ct |-> data[ct + i - 1]]
<1>1. /\ cpc = "write" /\ cpc' = "tail" /\ out' = out \o chunk
      /\ UNCHANGED <<head, tail, data, prodVars, ct, ch, accepted, overtaken>>
  BY DEF ConsumeWrite
<1>2. /\ ChunkEnd - ct \in Nat /\ ChunkEnd <= Size /\ ChunkEnd - ct <= Dist(tail, head)
      /\ ct = tail
  BY <1>1, ChunkInRing
<1>3. ChunkEnd \in Int /\ ct \in Slots /\ Dist(tail, head) \in Int /\ accepted \in Int
  BY MyBlkAssumption DEF TypeInv, ChunkEnd, Slots, Dist
<1>4. \A i \in 1 .. ChunkEnd - ct : ct + i - 1 \in Slots
  BY <1>2, <1>3, MyBlkAssumption DEF Slots
<1>5. chunk \in Seq(Int) /\ Len(chunk) = ChunkEnd - ct
  <2>1. chunk \in [1 .. ChunkEnd - ct -> Int]
    BY <1>4 DEF TypeInv
  <2> QED BY <1>2, <2>1
<1>6. /\ out \in Seq(Int) /\ out' \in Seq(Int) /\ Len(out') = Len(out) + (ChunkEnd - ct)
      /\ \A i \in 1 .. Len(out) : out'[i] = out[i]
      /\ \A i \in 1 .. ChunkEnd - ct : out'[Len(out) + i] = data[ct + i - 1]
  <2> HIDE DEF chunk
  <2>1. out \in Seq(Int) /\ out' \in Seq(Int)
    BY <1>1, <1>5 DEF TypeInv
  <2>2. /\ Len(out') = Len(out) + Len(chunk)
        /\ \A i \in 1 .. Len(out) + Len(chunk) :
              out'[i] = IF i <= Len(out) THEN out[i] ELSE chunk[i - Len(out)]
    BY <1>1, <1>5, <2>1, ConcatProperties
  <2>3. ASSUME NEW i \in 1 .. ChunkEnd - ct PROVE out'[Len(out) + i] = data[ct + i - 1]
    <3>1. out'[Len(out) + i] = chunk[i]
      BY <1>2, <1>5, <2>1, <2>2
    <3> QED BY <3>1 DEF chunk
  <2>4. \A i \in 1 .. Len(out) : out'[i] = out[i]
    BY <1>2, <1>5, <2>1, <2>2
  <2> QED BY <1>5, <2>1, <2>2, <2>3, <2>4
<1> HIDE DEF chunk
<1>7. TypeInv'
  BY <1>1, <1>6 DEF TypeInv, Slots, prodVars
<1>8. ClaimInv' /\ StretchInv'
  BY <1>1 DEF ClaimInv, StretchInv, Dist, prodVars
<1>9. BytesInv'
  BY <1>1 DEF BytesInv, Back, Ahead, Dist, Slots, prodVars
<1>10. Len(out) + Dist(tail, head) = accepted
  BY <1>1, UsedIsDist, MyBlkAssumption DEF NothingSkipped, Printed, TypeInv, Slots
<1>11. NothingSkipped'
  <2>1. Used' = Dist(tail, head) /\ Printed' = ChunkEnd - ct /\ accepted' = accepted
    BY <1>1 DEF Used, Dist, Printed, ChunkEnd
  <2> QED BY <1>2, <1>3, <1>6, <1>10, <2>1 DEF NothingSkipped
<1>12. StreamIntact'
  <2> SUFFICES ASSUME ~overtaken, NEW i \in 1 .. Len(out) + (ChunkEnd - ct) PROVE out'[i] = i
    BY <1>1, <1>6 DEF StreamIntact
  <2>1. CASE i <= Len(out)
    BY <1>6, <2>1 DEF StreamIntact
  <2>2. CASE i > Len(out)
    <3> DEFINE k == i - Len(out)
    <3>1. k \in 1 .. ChunkEnd - ct /\ i = Len(out) + k /\ ct + k - 1 \in Slots
      <4>1. Len(out) \in Nat /\ ChunkEnd - ct \in Nat
        BY <1>2, <1>6
      <4>2. k \in 1 .. ChunkEnd - ct /\ i = Len(out) + k
        BY <2>2, <4>1
      <4> QED BY <1>4, <4>2
    <3>2. out'[i] = data[ct + k - 1]
      BY <1>6, <3>1
    <3> HIDE DEF k
    <3>3. Back(ct + k - 1) = Dist(tail, head) - k + 1
      <4>1. /\ head \in Int /\ head >= 0 /\ head < Size /\ tail \in Int /\ tail >= 0 /\ tail < Size
            /\ Size \in Int /\ k \in Int /\ k >= 1 /\ tail + k <= Size /\ k <= Dist(tail, head)
        BY <1>2, <1>3, <3>1, MyBlkAssumption DEF TypeInv, Slots
      <4> QED BY <1>2, <4>1 DEF Back, Dist
    <3>4. Back(ct + k - 1) <= Dist(tail, head)
      BY <1>3, <3>1, <3>3
    <3>5. data[ct + k - 1] = accepted + 1 - Back(ct + k - 1)
      BY <3>1, <3>4 DEF BytesInv
    <3> QED BY <1>3, <1>6, <1>10, <3>1, <3>2, <3>3, <3>5
  <2> QED BY <1>6, <2>1, <2>2
<1> QED BY <1>7, <1>8, <1>9, <1>11, <1>12

(* ConsumeTail gives back the stretch that was written and no more. *)
LEMMA ConsumeTailStep == ASSUME IInv, ConsumeTail PROVE IInv'
<1> USE DEF IInv
<1>1. /\ cpc = "tail" /\ cpc' = "consume" /\ tail' = (IF ct < ch THEN ch ELSE 0)
      /\ ct' = 0 /\ ch' = 0
      /\ UNCHANGED <<head, data, prodVars, accepted, out, overtaken>>
  BY DEF ConsumeTail
<1>2. /\ ChunkEnd - ct \in Nat /\ ChunkEnd <= Size /\ ChunkEnd - ct <= Dist(tail, head)
      /\ ct = tail /\ (ch < ct => head < tail) /\ ch # ct
  BY <1>1, ChunkInRing DEF StretchInv
<1>3. /\ head \in Int /\ head >= 0 /\ head < Size /\ tail \in Int /\ tail >= 0 /\ tail < Size
      /\ ch \in Int /\ ch >= 0 /\ ch < Size /\ Size \in Int
  BY MyBlkAssumption DEF TypeInv, Slots
<1>4. Dist(tail, head)' = Dist(tail, head) - (ChunkEnd - ct)
  <2>1. Dist(tail, head)' = IF head >= tail' THEN head - tail' ELSE head - tail' + Size
    BY <1>1 DEF Dist
  <2>2. CASE ct < ch
    BY <1>1, <1>2, <1>3, <2>1, <2>2 DEF Dist, ChunkEnd
  <2>3. CASE ch < ct
    BY <1>1, <1>2, <1>3, <2>1, <2>3 DEF Dist, ChunkEnd
  <2> QED BY <1>2, <1>3, <2>2, <2>3
<1>5. Dist(tail, head) \in Int /\ ChunkEnd - ct >= 0 /\ ChunkEnd - ct \in Int
  BY <1>2, <1>3 DEF Dist
<1>6. TypeInv'
  <2>1. 0 \in Slots /\ tail' \in Slots
    BY <1>1, MyBlkAssumption DEF TypeInv, Slots
  <2> QED BY <1>1, <2>1 DEF TypeInv, Slots, prodVars
<1>7. ClaimInv' /\ StretchInv'
  <2>1. plen \in Int /\ Size \in Int
    BY MyBlkAssumption DEF TypeInv
  <2> QED BY <1>1, <1>4, <1>5, <2>1 DEF ClaimInv, StretchInv, prodVars
<1>8. BytesInv'
  <2> SUFFICES ASSUME ~overtaken, NEW i \in Slots
               PROVE  /\ Back(i) <= Dist(tail, head)' => data[i] = accepted + 1 - Back(i)
                      /\ ppc = "publish" /\ Ahead(i) < plen => data[i] = accepted + 1 + Ahead(i)
    BY <1>1 DEF BytesInv, Back, Ahead, Slots, prodVars
  <2>1. Back(i) \in Int
    BY <1>3 DEF Back, Slots
  <2> QED BY <1>4, <1>5, <2>1 DEF BytesInv
<1>9. StreamIntact'
  BY <1>1 DEF StreamIntact
<1>10. NothingSkipped'
  <2>1. Used = Dist(tail, head) /\ Used' = Dist(tail, head)'
    BY DEF Used, Dist
  <2>2. Printed = ChunkEnd - ct /\ Printed' = 0 /\ Len(out) \in Nat /\ accepted \in Int
    BY <1>1 DEF Printed, TypeInv
  <2> QED BY <1>1, <1>4, <1>5, <2>1, <2>2 DEF NothingSkipped
<1> QED BY <1>6, <1>7, <1>8, <1>9, <1>10

-----------------------------------------------------------------------------

(* Every step of the driver and of the application keeps the invariant. *)
LEMMA NextInv == ASSUME IInv, [Next]_vars PROVE IInv'
<1>1. ASSUME myblk_produce_data PROVE IInv'
  <2>1. CASE ProduceWake
    BY <2>1, QuietStep DEF ProduceWake
  <2> QED BY <1>1, <2>1, StartStep, CopyStep, PublishStep, PublishFirstStep, CopyLateStep
          DEF myblk_produce_data
<1>2. ASSUME PollQueue \/ myblkpoll \/ PollWoken \/ PollTimeout PROVE IInv'
  BY <1>2, QuietStep DEF PollQueue, myblkpoll, PollWoken, PollTimeout
<1>3. ASSUME Application PROVE IInv'
  BY <1>2, <1>3, ConsumeStartStep, ConsumeHeadStep, ConsumeWriteStep, ConsumeTailStep
  DEF Application
<1>4. CASE UNCHANGED vars
  BY <1>4 DEF vars, prodVars, consVars, IInv, TypeInv, Slots, ClaimInv, StretchInv, BytesInv, Dist,
              Back, Ahead, StreamIntact, NothingSkipped, Used, Printed, ChunkEnd
<1> QED BY <1>1, <1>3, <1>4 DEF Next

(* The invariant holds in every reachable state. *)
LEMMA Invariant == Spec => []IInv
BY InitInv, NextInv, PTL DEF Spec

(* What consume_ring writes to stdout is the stream the timer's handler    *)
(* produced, for every size of the ring, unless a head overtook its bytes. *)
THEOREM StreamIsIntact == Spec => []StreamIntact
<1>1. IInv => StreamIntact
  BY DEF IInv
<1> QED BY <1>1, Invariant, PTL

(* No byte accepted into the ring is skipped by consume_ring or given back *)
(* to the producer before it was written, whichever stores overtake.       *)
THEOREM NoByteSkipped == Spec => []NothingSkipped
<1>1. IInv => NothingSkipped
  BY DEF IInv
<1> QED BY <1>1, Invariant, PTL

(* The head that consume_ring reads again after its loop's test never      *)
(* equals the tail, so its else branch writes bytes that are in the ring.  *)
THEOREM ElseIsWrapped == Spec => []ElseMeansWrapped
<1>1. IInv => ElseMeansWrapped
  BY DEF IInv, StretchInv, ElseMeansWrapped
<1> QED BY <1>1, Invariant, PTL

-----------------------------------------------------------------------------
(* What AllPrinted rests on besides fairness, which stays with TLC. *)

(* No byte waits behind a sleeping application: whenever the ring holds    *)
(* bytes while poll sleeps, its entry has been woken or the driver is on   *)
(* its way to wake_up.                                                     *)
NoByteStranded ==
  cpc = "asleep" /\ head # tail => ~waiting \/ ppc \in {"late", "wake"}

(* No wake-up is lost although the driver's spinlock does not cover the    *)
(* poll: myblkpoll queues before it compares, and myblk_produce_data wakes *)
(* after it has moved the head, in whichever order its stores become       *)
(* visible.                                                                *)
THEOREM NoLostWakeUp == Spec => []NoByteStranded
<1>1. Init => NoByteStranded
  BY DEF Init, NoByteStranded
<1>2. ASSUME NoByteStranded, [Next]_vars PROVE NoByteStranded'
  <2> USE DEF NoByteStranded
  <2>1. CASE ProduceStart \/ ProduceCopy
    BY <1>2, <2>1 DEF ProduceStart, ProduceCopy, consVars
  <2>2. CASE ProducePublish \/ PublishFirst \/ CopyLate
    BY <1>2, <2>2 DEF ProducePublish, PublishFirst, CopyLate, consVars
  <2>3. CASE ProduceWake
    BY <2>3 DEF ProduceWake
  <2>4. CASE PollQueue \/ myblkpoll \/ PollWoken \/ PollTimeout
    BY <2>4 DEF PollQueue, myblkpoll, PollWoken, PollTimeout
  <2>5. CASE ConsumeStart \/ ConsumeHead \/ ConsumeWrite \/ ConsumeTail
    BY <2>5 DEF ConsumeStart, ConsumeHead, ConsumeWrite, ConsumeTail
  <2>6. CASE UNCHANGED vars
    BY <1>2, <2>6 DEF vars, prodVars, consVars
  <2> QED BY <1>2, <2>1, <2>2, <2>3, <2>4, <2>5, <2>6 DEF Next, myblk_produce_data, Application
<1> QED BY <1>1, <1>2, PTL DEF Spec

=============================================================================
