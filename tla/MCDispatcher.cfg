\* Three CPUs: two workers.
CONSTANTS
  Packets <- MCPackets
  PayloadTypes = {"ChatMessage"}
  Envelope <- MCEnvelope
  NumCPU = 3
  IngressCap = 2
  None = None
SPECIFICATION FairSpec
INVARIANTS
  Accounted
  SomeoneFree
  OnlySoundPacketsHandled
PROPERTIES
  EarlyPacketsServed
  StopReleasesWorkers
\* The workers return and the peers may have nothing more to say.
CHECK_DEADLOCK FALSE
