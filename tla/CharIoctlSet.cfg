SPECIFICATION Spec
CONSTANTS
  Procs = {p1, p2}
  Chars = {a, b}
  NUL = NUL
  BUF_LEN = 2
  FileCalls = {}
  MaxOffset = 3
  MaxCalls = 3
INVARIANT SetMsgSetsTheMessage
CHECK_DEADLOCK FALSE
