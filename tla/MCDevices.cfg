CONSTANTS
  MaxEvents = 4
  RB_SIZE = 2
  VALUES = 3
  Readers = {"r1", "r2"}
  MaxReads = 3
  Apps = {"p1", "p2"}
  Sensors = {"s1", "s2", "s3"}
  DEVCOUNT = 2
  MaxProbes = 4
  Tools = {"t1", "t2", "t3"}
  Args <- ToolArgs
  MaxU32 = 255
  MaxCalls = 4
  Files = {"f1", "f2"}
  MaxText = 2
  MaxTextReads = 3
  Offsets = {1, 3}
  NUL = "nul"
  Bytes = {0, 1}
  NoByte = 256
  MaxReports = 3
  MaxOpens = 3
  NUM_MBUFS = 9
  RX_RING_SIZE = 2
  TX_RING_SIZE = 2
  BURST_SIZE = 2
  MaxPorts = 4
  CPUs = {"c1", "c2"}
  Users = {"u1", "u2"}
  PROCFS_MAX_SIZE = 2
  Writers = {"w1", "w2"}
SPECIFICATION Spec
INVARIANTS
  EventsKept
  FailedReadNeedsRival
  SleepersWoken
  MinorsKept
  UnlockedStateSound
  ButtonWatched
  BuffersAddUp
  NeverStarves
PROPERTIES
  SensorIsLossyQueue
  WaitsEnd
CHECK_DEADLOCK FALSE
