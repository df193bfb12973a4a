\* One stream with channels of one; three frames either way, so that a
\* channel fills up behind a frame in hand.
CONSTANTS
  Streams = {"s1"}
  ChanCap = 1
  MaxFrames = 3
  MaxSends = 3
SPECIFICATION StreamsFairSpec
INVARIANTS
  StreamsTypeOK
  OrderKept
  MapMatches
PROPERTY LoopsEnd
\* A closed stream rests.
CHECK_DEADLOCK FALSE
