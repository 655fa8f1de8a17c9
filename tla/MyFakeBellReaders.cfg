SPECIFICATION FairSpec
CONSTANTS
  MaxU32 = 3
  RINGBUF_SIZE = 2
  Readers = {r1, r2}
  MaxCount = 2
  MaxReads = 2
  MaxPolls = 1
  MaxStats = 0
  MaxResets = 0
  Nobody = Nobody
INVARIANTS SamplesAccounted DeliveredInOrder ShortReadNeedsRival
PROPERTY SleeperRuns
CHECK_DEADLOCK FALSE
