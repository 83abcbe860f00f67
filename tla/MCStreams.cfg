SPECIFICATION FairStreamSpec
CONSTANTS
  NumLayers = 2
  NumGroups = 3
  GroupLen = 2
  Keys <- MCKeys
  Contents <- MCContents
  MinimalBuffer = 1
  TargetLatency = 2
  MaxPendingUnits = 4
  MaxReceived = 12
  MaxTime = 16
  MaxDelay = 2
  Prompt = TRUE
  MaxResets = 1
  None = None
INVARIANTS
  StartsAtTargetLatency
PROPERTIES
  ReferenceChain
  NoRewind
  ReachesLastGroup
CHECK_DEADLOCK FALSE
