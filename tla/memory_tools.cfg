SPECIFICATION Spec
CONSTANTS
  PageKb = 4
  Libraries = {"/lib/c.so"}
  LargePages = 2
  PageUnits = 2
  MaxAddr = 7
  MaxPagesPerScan = 3
  Frame = {1, 2}
  FrameFlags <- SomeFlags
  Node <- SomeNodes
  MaxChanges = 3
  RingUnits = 7
  BodyUnits = 2
  Address = {0, 4}
  MaxEvents = 4
  Drains = 2
  Lengths = {1, 5}
  Mebi = 2
  MaxAttempts = 2
  Polls = 2
  Commands <- SomeCommands
  First <- FirstLayout
  Layouts <- SomeLayouts
  SoftLimits <- SomeLimits
  Groups <- SomeGroups
  MaxMoves = 2
  Rounds = 1
INVARIANTS
  CommandServed
  ReportsTrue
  ScanTrue
  SamplesAccounted
  FaultsReported
PROPERTIES
  DemoEnds
CHECK_DEADLOCK FALSE
