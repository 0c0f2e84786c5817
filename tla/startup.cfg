SPECIFICATION Spec
CONSTANTS
  t1 = t1
  t2 = t2
  t3 = t3
  Lines <- SomeLines
  Numbers <- CallNumbers
  MaxNames = 2
  Tid = {t1, t2, t3}
  First = {t1, t2}
  SeesFilters = TRUE
  MaxSteps = 2
  MaxCalls = 2
INVARIANTS
  FilteredCallsStop
  TracedFollowed
PROPERTIES
  StopsServed
  AttachEnds
CHECK_DEADLOCK FALSE
