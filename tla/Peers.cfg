SPECIFICATION PeersFairSpec
CONSTANTS
  Peers = {p1, p2}
  MaxRuns = 3
  MaxErrors = 1
CHECK_DEADLOCK FALSE
INVARIANTS
  EveryPeerTried
  ConnectedPeersSaved
PROPERTIES
  ReconnectingEnds
