\* Buckets of two, so that three calls overflow one.
CONSTANTS
  IDLength = 2
  MyID <- MCMyID
  Calls <- MCCalls
  PeerOf <- MCPeerOf
  MaxBucketSize = 2
SPECIFICATION Spec
INVARIANTS
  BucketsSound
  AnswersAreNearer
  KeptUnlessOverlapped
\* Every call returns.
CHECK_DEADLOCK FALSE
