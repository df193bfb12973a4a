\* Two connections of one node.
CONSTANTS
  PeerIDs = {"p"}
  Conns <- MCConns
  Owner <- MCOwner
  BanIDs = {}
  Restless = {"p1"}
  ConnChanCap = 1
  None = None
SPECIFICATION FairSpec
INVARIANT HistoryComplete
CHECK_DEADLOCK FALSE
