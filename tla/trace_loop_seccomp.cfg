SPECIFICATION Spec
CONSTANTS
  t1 = t1
  t2 = t2
  Tid = {t1, t2}
  Primary = t1
  Names = {"io", "fork", "clone", "exec", "exit", "exit_group"}
  BpfFilter = {"io", "fork"}
  MaxCalls = 1
  MaxSignals = 1
  ThreadExec = TRUE
  Kills = TRUE
  SyscallInfo = TRUE
  Filters = {"io", "fork"}
  SeccompBpf = TRUE
  Rules <- SecondIo
  MaxEvents = 2
  Signals = TRUE
  Lifecycle = FALSE
INVARIANTS
  TypeOK
  SignalsDelivered
PROPERTIES
  StopsServed
  Terminates
