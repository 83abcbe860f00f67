SPECIFICATION StreamSpec
CONSTANTS
  NumLayers = 1
  NumGroups = 3
  GroupLen = 2
  Keys <- MCKeys
  Contents <- MCContents
  MinimalBuffer = 1
  TargetLatency = 4
  MaxPendingUnits = 3
  MaxReceived = 6
  MaxTime = 9
  MaxDelay = 1
  Prompt = TRUE
  MaxResets = 0
  None = None
INVARIANTS
  StartsAtTargetLatency
CHECK_DEADLOCK FALSE
