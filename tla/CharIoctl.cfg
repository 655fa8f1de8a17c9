SPECIFICATION Spec
CONSTANTS
  Procs = {p1, p2}
  Chars = {a, b}
  NUL = NUL
  BUF_LEN = 2
  FileCalls = {"read", "pread", "write"}
  MaxOffset = 3
  MaxCalls = 3
INVARIANTS TransfersStayInside GetReturnsLastSet
CHECK_DEADLOCK FALSE
