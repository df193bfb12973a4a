\* Room for one stream in NewStreams.
CONSTANTS
  AcceptedStreams = {"s1", "s2"}
  SessionIDs = {"i1"}
  Transfers = {"t1", "t2"}
  NoTransfer = "nil"
  Asked <- MCAsked
  NewStreamsCap = 1
SPECIFICATION SessionsFairSpec
INVARIANTS
  SessionsTypeOK
  ListMatchesChannel
PROPERTY HandlersReturn
\* No stream has to be opened and no session registered.
CHECK_DEADLOCK FALSE
