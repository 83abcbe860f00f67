SPECIFICATION FairSpec
CONSTANTS
  Configs <- MCSubtitleConfigs
  LastGroup = 1
  LastObject = 1
  SeqMod = 16
  MaxFaults = 1
INVARIANT
  NoPanic
CHECK_DEADLOCK FALSE
