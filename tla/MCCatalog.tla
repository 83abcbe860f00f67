------------------------------- MODULE MCCatalog -------------------------------
(* The namespaces mlmpub configures, with one or two tracks of each kind.     *)
EXTENDS CatalogExchange, TLC

MCCatalogs ==
  "cmsf" :> ("video" :> "cmaf" @@ "video_locmaf" :> "locmaf" @@ "subs" :> "cmaf")
  @@ "msf" :> ("video" :> "loc" @@ "audio" :> "loc")

MCNamespaces == <<"msf", "moqmi", "cmsf">>

MCAllModes == {"joining", "subscribe", "fetch"} \X {FALSE}
MCLegacyModesDelayed == {"subscribe", "fetch"} \X {TRUE}
MCConfigs == MCAllModes \cup MCLegacyModesDelayed
MCJoiningDelayed == {<<"joining", TRUE>>}
================================================================================
