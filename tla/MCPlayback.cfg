SPECIFICATION FairSpec
CONSTANTS
  NumLayers = 2
  Keys <- MCKeys
  Contents <- MCContents
  MinimalBuffer = 1
  TargetLatency = 2
  MaxPendingUnits = 2
  MaxReceived = 5
  MaxTime = 5
  None = None
INVARIANTS
  TypeOK
  ActiveChainValid
  ReportedStateAgrees
  NeverAheadOfTarget
PROPERTIES
  UpswitchOnlyAtIndependent
  FixedRate
  
  DueIsServed
CHECK_DEADLOCK FALSE
