\* A log of two entries, which a single Start fills.
CONSTANTS
  Procs = {p1, p2}
  Passwords = {"right", "wrong"}
  Keys = {k1, k2, k3}
  LogCap = 2
  Other = Other
  None = None
SPECIFICATION FairSpec
INVARIANTS
  OneIdentity
  AcceptsOnlyReady
PROPERTY StartEnds
CHECK_DEADLOCK FALSE
