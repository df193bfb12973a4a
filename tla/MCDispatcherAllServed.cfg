\* Three CPUs: two workers; room in the channel for every packet.
CONSTANTS
  Packets <- MCSoundPackets
  PayloadTypes = {"ChatMessage"}
  Envelope <- MCSoundEnvelope
  NumCPU = 3
  IngressCap = 3
  None = None
SPECIFICATION FairSpec
PROPERTY EveryPacketServed
CHECK_DEADLOCK FALSE
