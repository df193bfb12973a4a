\* Two connections of one node and room for one in connChan; one of them may
\* fail, and the node may be banned and unbanned again and again.
CONSTANTS
  PeerIDs = {"p"}
  Conns <- MCConns
  Owner <- MCOwner
  BanIDs = {"p"}
  Restless = {"p1"}
  ConnChanCap = 1
  None = None
SPECIFICATION FairSpec
INVARIANTS
  NoOrphan
  OneLivePeer
  LateAcceptBound
  BanCutsKnownPeers
PROPERTIES
  LeavesOnlyClosed
  AllRegistered
  ClosedLoopsEnd
CHECK_DEADLOCK FALSE
