SPECIFICATION FairSpec
CONSTANTS
  Forks = {f1, f2}
  MaxHeight = 3
  MaxReorgs = 2
  MaxRpcErrors = 1
  MaxRestarts = 1
CHECK_DEADLOCK FALSE
INVARIANTS
  TypeOK
  TipsAgree
  MissedOnlyAtBoot
  ApplyNeedsTwoReorgs
PROPERTIES
  ChainOrder
  CatchesUp
