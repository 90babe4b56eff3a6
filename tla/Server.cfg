SPECIFICATION FairSpec
CONSTANTS
  Clients = {c1, c2}
  NoClient = NoClient
  MaxKills = 1
  MaxErrors = 1
CHECK_DEADLOCK FALSE
INVARIANTS
  FailedMeansNotDone
  DiesOnlyOf
PROPERTIES
  ClientsEnd
