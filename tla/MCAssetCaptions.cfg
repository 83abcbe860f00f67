SPECIFICATION Spec
CONSTANTS
  MsPerSecond = 4
  GroupDurMS = 4
  Parts <- MCParts
  Configs <- MCCaptioned
  Word = 64
  MaxTurns = 3
  Captionable <- MCCaptionable
INVARIANTS
  CaptionsAsAdvertised
CHECK_DEADLOCK FALSE
