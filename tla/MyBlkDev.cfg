SPECIFICATION FairSpec
CONSTANTS
  Size = 5
  SampleLen = 3
  MaxBytes = 12
  MaxOverflow = 2
INVARIANTS StreamIntact NothingSkipped ElseMeansWrapped
PROPERTY AllPrinted
CHECK_DEADLOCK FALSE
