CONSTANTS
  MsPerSecond = 4
  GroupDurMS = 4
  MaxTime = 16
  CueDurMS = 3
  Tracks <- MCTracks
SPECIFICATION FairSpec
INVARIANTS
  NotBeforeMediaTime
  SeqIDNumbersSamples
  PlaysTheLoop
  CuesTileTheGroup
PROPERTIES
  SamplesContiguous
  ImplementsLiveTrack
  CatchesUp
  StopsWhenCancelled
CHECK_DEADLOCK FALSE
