SPECIFICATION Spec
CONSTANTS
  Forks = {1}
  MaxHeight = 2
  MaxReorgs = 0
  MaxRpcErrors = 0
  MaxRestarts = 1
CHECK_DEADLOCK FALSE
INVARIANTS
  MonitorsSynced
