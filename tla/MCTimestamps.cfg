SPECIFICATION FairSpec
CONSTANTS
  MaxPacket = 2
  MaxArrivals = 4
  MaxTime = 3
  MaxLate = 1
  MaxAckDelay = 1
  MaxNumAckRanges = 1
  RingSize = 4
  PeerLimits = {2, 5}
  Scale = 1
  Word = 64
INVARIANTS
  ReportsAreArrivals
  OmittedOnlyIfOvertaken
PROPERTIES
  EventuallyAcked
CHECK_DEADLOCK FALSE
