------------------------------ MODULE RingBuf ------------------------------
(***************************************************************************)
(* practice/myfakebell/ringbuf.h: the ring of samples between the          *)
(* interrupt thread and the readers.  A ring is a record of the C fields;  *)
(* each operator maps a ring to the ring after one call.  Every call but   *)
(* ringbuf_init runs under the ring's spinlock.                            *)
(*                                                                         *)
(* Samples are abstracted to natural numbers, 0 being the zeroed slot that *)
(* memset leaves.                                                          *)
(***************************************************************************)
EXTENDS Naturals, Sequences

CONSTANT RINGBUF_SIZE

ASSUME RingbufSizeAssumption == RINGBUF_SIZE \in Nat \ {0}

Slots == 0 .. RINGBUF_SIZE - 1

Rings == [data : [Slots -> Nat], head : Slots, tail : Slots,
          size : 0 .. RINGBUF_SIZE, dropcount : Nat]

(* Mutant: the index runs past the end. *)
After_NoWrap(i) == i + 1

After(i) == (i + 1) % RINGBUF_SIZE

ringbuf_init == [data |-> [i \in Slots |-> 0], head |-> 0, tail |-> 0,
                 size |-> 0, dropcount |-> 0]

(* Mutants: the oldest sample is kept; its drop is not counted; a drop is  *)
(* counted one push too early.                                             *)
push_reserve_KeepTail(r) ==
  IF r.size = RINGBUF_SIZE
    THEN [r EXCEPT !.dropcount = @ + 1]
    ELSE [r EXCEPT !.size = @ + 1]

push_reserve_NoCount(r) ==
  IF r.size = RINGBUF_SIZE
    THEN [r EXCEPT !.tail = After(@)]
    ELSE [r EXCEPT !.size = @ + 1]

push_reserve_CountsEarly(r) ==
  IF r.size >= RINGBUF_SIZE - 1
    THEN [r EXCEPT !.tail = IF r.size = RINGBUF_SIZE THEN After(@) ELSE @,
                   !.size = RINGBUF_SIZE, !.dropcount = @ + 1]
    ELSE [r EXCEPT !.size = @ + 1]

(* ringbuf_push, first part: a full ring gives up its oldest sample and    *)
(* counts the drop, otherwise the ring grows.                              *)
push_reserve(r) ==
  IF r.size = RINGBUF_SIZE
    THEN [r EXCEPT !.tail = After(@), !.dropcount = @ + 1]
    ELSE [r EXCEPT !.size = @ + 1]

(* ringbuf_push, second part: the sample is stored at the write index h. *)
push_store(r, h, v) == [r EXCEPT !.data[h] = v, !.head = After(h)]

ringbuf_push(r, v) == push_store(push_reserve(r), r.head, v)

(* ringbuf_pop of a non-empty ring: the sample it copies out, and the ring. *)
ringbuf_front(r) == r.data[r.tail]

(* Mutant: the size is not counted down. *)
ringbuf_pop_KeepSize(r) == [r EXCEPT !.tail = After(@)]

ringbuf_pop(r) == [r EXCEPT !.tail = After(@), !.size = @ - 1]

ringbuf_resetlost(r) == [r EXCEPT !.dropcount = 0]

(* The samples in the ring, oldest first. *)
Contents(r) == [i \in 1 .. r.size |-> r.data[(r.tail + i - 1) % RINGBUF_SIZE]]

(* The write index is where the size says it should be. *)
Consistent(r) == r.head = (r.tail + r.size) % RINGBUF_SIZE

=============================================================================
