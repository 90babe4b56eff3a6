SPECIFICATION FairSpec
CONSTANTS
  Hashes = {h1}
  NoHash = NoHash
  MaxAttempts = 1
  MaxIoErrors = 0
  MaxCrashes = 0
PROPERTIES
  SentPaymentIsStored
