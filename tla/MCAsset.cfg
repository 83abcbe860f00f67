SPECIFICATION Spec
CONSTANTS
  MsPerSecond = 4
  GroupDurMS = 4
  Parts <- MCParts
  Configs <- MCConfigs
  Word = 64
  MaxTurns = 3
  Captionable <- MCCaptionable
INVARIANTS
  ListedTracksServed
  EachRenditionOnce
  LoopsTogether
  ConformingAssetServed
  KeyframesSelfContained
  SvcChainsPlayable
CHECK_DEADLOCK FALSE
