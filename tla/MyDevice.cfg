SPECIFICATION FairSpec
CONSTANTS
  Files = {f1, f2}
  Configs = {1}
  NoFile = NoFile
  MaxOpens = 3
INVARIANTS ConfigExclusive ReferenceCounts DevOutlivesFiles
PROPERTY RemoveFinishes
CHECK_DEADLOCK FALSE
