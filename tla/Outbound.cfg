SPECIFICATION FairSpec
CONSTANTS
  Hashes = {h1}
  NoHash = NoHash
  MaxAttempts = 3
  MaxIoErrors = 2
  MaxCrashes = 2
INVARIANTS
  SuccessIsProven
  PaidTwiceOnlyAfterPurge
  OutcomeRecorded
PROPERTIES
  SuccessLostOnlyByRepay
  ImplementsLedger
  PendingResolves
