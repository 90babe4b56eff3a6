SPECIFICATION Spec
CONSTANTS
  Lookahead = 2
  MaxBlocks = 3
  MaxBuilds = 2
  MaxRuns = 3
CHECK_DEADLOCK FALSE
INVARIANTS
  TypeOK
  RescanFindsDeposits
  RescanFindsChange
PROPERTIES
  ReuseOnlyBehind
