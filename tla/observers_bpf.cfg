SPECIFICATION Spec
CONSTANTS
  t1 = t1
  t2 = t2
  c1 = c1
  a = a
  b = b
  Fd = {0, 1}
  Path = {a, b}
  Thread = {t1, t2, c1}
  Forked = {c1}
  Uses = {"open", "eventfd", "socket", "pipe", "close", "close_range", "dup", "dup2", "fcntl_dup", "fcntl_setfd", "connect", "accept", "write", "sendto", "mmap", "getpid", "fork", "execve"}
  Failures <- SomeFailures
  Options <- SomeOptions
  MaxCalls = 3
INVARIANTS
  SeccompBlamedRightly
CHECK_DEADLOCK FALSE
