CONSTANTS
  Catalogs <- MCCatalogs
  MoqMI = {"moqmi"}
  MoqMITracks = {"video0"}
  Subtitles = {"subs"}
  LOC = {"msf"}
  Names = {"catalog", "video", "video_locmaf", "video0", "subs", "none"}
  Namespaces <- MCNamespaces
  Configs <- MCJoiningDelayed
SPECIFICATION Spec
INVARIANTS
  FailsOnlyOnFault
CHECK_DEADLOCK FALSE
