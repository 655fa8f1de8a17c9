SPECIFICATION Spec
CONSTANTS
  MaxU32 = 3
  RINGBUF_SIZE = 2
  Readers = {r1}
  MaxCount = 2
  MaxReads = 2
  MaxPolls = 0
  MaxStats = 1
  MaxResets = 1
  Nobody = Nobody
INVARIANTS TypeOK StatsPlausible
CHECK_DEADLOCK FALSE
