CONSTANTS
  Catalogs <- MCCatalogs
  MoqMI = {"moqmi"}
  MoqMITracks = {"video0"}
  Subtitles = {"subs"}
  LOC = {"msf"}
  Names = {"catalog", "video", "video_locmaf", "video0", "subs", "none"}
  Namespaces <- MCNamespaces
  Configs <- MCConfigs
SPECIFICATION FairSpec
INVARIANTS
  AppliedOnce
  EndsOnlyOnFault
PROPERTIES
  EventuallyPlaying
  EverythingAnnounced
CHECK_DEADLOCK FALSE
