SPECIFICATION FairSpec
CONSTANTS
  Workers = 2
  MaxOps = 4
CHECK_DEADLOCK FALSE
INVARIANTS
  TypeOK
  HangsOnlyInBroadcast
  PanicsContained
PROPERTIES
  OperationsEnd
