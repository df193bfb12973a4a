CONSTANTS
  Conns = {"c1", "c2"}
  Dialer <- MCDialer
  Msgs = {m1}
  ConnChanCap = 1
  None = None
SPECIFICATION FairSpec
INVARIANT DeafHasCause
PROPERTY SentIsRead
\* The link may rest.
CHECK_DEADLOCK FALSE
