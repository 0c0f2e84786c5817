SPECIFICATION Spec
CONSTANTS
  a = a
  b = b
  Tid = {a, b}
  MaxFd = 2
  Names = {"open", "pipe", "dup2", "fcntl", "close", "close_range", "exec"}
  ThreadExits = TRUE
  RingSize = 3
  MaxPending = 2
  MaxCalls = 3
INVARIANTS
  TypeOK
  AccurateReport
  CompleteButForgotten
  PendingIsCurrent
PROPERTIES
  DeadHoldsNothing
