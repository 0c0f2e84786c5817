SPECIFICATION Spec
CONSTANTS
  CommandLines <- SomeCommandLines
  Fd = {0, 1, 2}
  Files <- SomeFiles
  FirstTable <- SomeTable
  Privileges <- SomePrivileges
  NoFile = 4
  ScanLimit = 3
  BatchFds = 2
  InspectorMoves = 3
  Rounds = 2
  TracerLines <- SomeTracerLines
  Programs <- SomePrograms
  Tracepoints = {"openat", "execve"}
  Images <- SomeImages
  FirstImage <- SomeFirstImage
  ElfFiles <- SomeElf
  Stacks = {5, 9, 13, 20}
  KernelBase = 20
  MaxAllocs = 3
  MaxRemaps = 2
INVARIANTS
  EntriesTrue
  NetnsKept
  LeakTrue
  LeakNoticed
  NamesTrue
CHECK_DEADLOCK FALSE
