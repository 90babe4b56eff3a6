SPECIFICATION FairSpec
CONSTANTS
  U32Max = 12000
  Estimates = {0, 11000, 13000}
  MaxChanges = 1
  MaxFailures = 1
CHECK_DEADLOCK FALSE
INVARIANTS
  FeeFloor
  OrderedWhenClean
PROPERTIES
  StopsAfterShutdown
