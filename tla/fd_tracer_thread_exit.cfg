SPECIFICATION Spec
CONSTANTS
  a = a
  b = b
  Tid = {a, b}
  MaxFd = 2
  Names = {"open", "close"}
  ThreadExits = TRUE
  RingSize = 3
  MaxPending = 2
  MaxCalls = 3
INVARIANTS
  CompleteReport
