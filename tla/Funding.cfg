SPECIFICATION Spec
CONSTANTS
  Outbound = {o1, o2}
  Inbound = {i1, i2}
  Anchors = {i1}
  Deposits = {d1, d2}
  DepositSats = 5
  ChannelSats = 2
  Fee = 1
  Reserve = 6
  NoChannel = NoChannel
  MaxErrors = 1
CHECK_DEADLOCK FALSE
INVARIANTS
  TypeOK
  NeverPaysDropped
  LostOnlyByConflict
  RejectedStaysClosed
