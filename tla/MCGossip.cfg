\* One message, of a node or from outside; a hop limit as large as the
\* network; as many workers as a node has neighbours, and other packets.
CONSTANTS
  Nodes <- MCNodes
  Peers <- MCPeers
  MsgIds = {"m1"}
  Outside = "x"
  WorkersNum = 2
  MaxOther = 1
  HopLimit = 4
  HopModulus = 5
SPECIFICATION FairSpec
INVARIANTS
  ForwardOnce
  HopsAreDistinctNodes
  HopsSuffice
PROPERTY Delivered
\* The flood dies out.
CHECK_DEADLOCK FALSE
