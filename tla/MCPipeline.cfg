SPECIFICATION FairSpec
CONSTANTS
  Configs <- MCConfigs
  LastGroup = 1
  LastObject = 1
  SeqMod = 16
  MaxFaults = 1
INVARIANTS
  InitFirst
  ProtectionConsistent
  DecodedOnReference
  StopsOnlyOnOwnFailure
PROPERTY
  EverythingWritten
CHECK_DEADLOCK FALSE
