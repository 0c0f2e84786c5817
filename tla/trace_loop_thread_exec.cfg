SPECIFICATION Spec
CONSTANTS
  t1 = t1
  t2 = t2
  Tid = {t1, t2}
  Primary = t1
  Names = {"io", "fork", "clone", "exec", "exit_group"}
  BpfFilter = {}
  MaxCalls = 2
  MaxSignals = 0
  ThreadExec = TRUE
  Kills = FALSE
  SyscallInfo = TRUE
  Filters = {"io"}
  SeccompBpf = FALSE
  Rules <- SecondIo
  MaxEvents = 0
  Signals = TRUE
  Lifecycle = TRUE
INVARIANTS
  PairedByThread
