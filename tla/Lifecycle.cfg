SPECIFICATION FairSpec
CONSTANTS
  Seeds = {s1, s2}
  Peers = {p1}
  MaxRuns = 3
  MaxErrors = 1
CHECK_DEADLOCK FALSE
INVARIANTS
  SeedOfWalletKept
  CleanEndIsBootable
  NoAmnesia
PROPERTIES
  ShutdownEnds
