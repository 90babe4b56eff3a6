SPECIFICATION InboundFairSpec
CONSTANTS
  Hashes = {h1, h2}
  NoHash = NoHash
  MaxErrors = 1
  MaxCrashes = 2
  MaxPays = 3
CHECK_DEADLOCK FALSE
INVARIANTS
  ClaimedHasRecord
  OnlyInvoicesClaimed
PROPERTIES
  HtlcResolved
