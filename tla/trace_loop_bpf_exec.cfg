SPECIFICATION Spec
CONSTANTS
  t1 = t1
  t2 = t2
  Tid = {t1, t2}
  Primary = t1
  Names = {"io", "exec", "exit_group"}
  BpfFilter = {"io", "exec"}
  MaxCalls = 1
  MaxSignals = 0
  ThreadExec = FALSE
  Kills = FALSE
  SyscallInfo = TRUE
  Filters = {"io", "exec"}
  SeccompBpf = TRUE
  Rules <- SecondIo
  MaxEvents = 0
  Signals = TRUE
  Lifecycle = FALSE
INVARIANTS
  FilteredReported
