SPECIFICATION Spec
CONSTANTS
  RINGBUF_SIZE = 3
  MaxPush = 9
INVARIANTS NewestInOrder DropsCounted
PROPERTY IsLossyQueue
