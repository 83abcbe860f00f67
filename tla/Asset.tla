-------------------------------- MODULE Asset --------------------------------
(***************************************************************************)
(* How mlmpub turns a directory of files into the namespaces it serves:    *)
(* loading and checking the tracks, splitting AV1 spatial layers,          *)
(* protected copies, track groups, the loop (internal/asset.go and         *)
(* internal/media.go), subtitles and captions, the catalogs and the moq-mi *)
(* track map, put together by runServer's caller in cmd/mlmpub/main.go;    *)
(* and how the publisher later finds what a catalog lists.                 *)
(*                                                                         *)
(* A name is a sequence of parts: the parts of the file name, a protection *)
(* suffix, a packaging suffix or a spatial layer.  A sample is its         *)
(* duration, its decode time, its sync flag and the kinds and layers of    *)
(* its units.                                                              *)
(* Numbers of type uint32 are computed modulo Word.                        *)
(***************************************************************************)
EXTENDS MoQGroup, SequencesExt

CONSTANTS
  Parts,        \* the strings names are put together from
  Configs,      \* command lines with the directories they name, see IsConfig
  Word,         \* 2^32 in the code
  MaxTurns      \* bound: turns of the loop the properties look at

Wrap(n) == n % Word
Types == {"avc", "hevc", "av1", "aac", "opus", "ac3", "ec3"}
ContentType(type) == IF type \in {"avc", "hevc", "av1"} THEN "video" ELSE "audio"

\* A directory entry.  readable is whether the box structure and the codec
\* configuration can be parsed; sets are the parameter sets in the sample entry;
\* edit is the media time of an audio edit list; rate the sample bit rate; codec the
\* place of the codec string among the codec strings in their order.  The units
\* of a sample are its NAL units or OBUs; sid is the spatial layer of an OBU, a
\* number of two bits, and the identity of a parameter set.
UnitKinds == {"sequence", "delimiter", "frame", "tile", "metadata"}
UnitType == [kind : UnitKinds, sid : Nat, tid : Nat]
SampleType == [dur : Nat, time : Nat, sync : BOOLEAN, units : Seq(UnitType)]
FileType ==
  [name : Seq(Parts) \ {<<>>}, mp4 : BOOLEAN, readable : BOOLEAN, type : Types, timeScale : Nat \ {0},
   edit : Nat, rate : Nat, codec : Nat, sets : SUBSET Nat, samples : Seq(SampleType)]
ConfigType ==
  [dir : Seq(FileType), batch : [{"video", "audio"} -> Int], drm : BOOLEAN, eccp : BOOLEAN,
   cc608 : BOOLEAN, wvtt : Seq(Parts), stpp : Seq(Parts)]
IsFile(f) ==
  f \in FileType
    /\ (f.type = "av1" => \A i \in DOMAIN f.samples : \A k \in DOMAIN f.samples[i].units :
                              f.samples[i].units[k].sid \in 0..3)
IsConfig(c) ==
  /\ c \in ConfigType
  /\ \A i \in DOMAIN c.dir : IsFile(c.dir[i])
  /\ \A i, j \in DOMAIN c.dir :
       c.dir[i].mp4 /\ c.dir[j].mp4 /\ c.dir[i].name = c.dir[j].name => i = j

PublisherParts ==
  {"_drm", "_eccp", "_locmaf", "/s0", "/s1", "/s2", "/s3", "subs_wvtt", "subs_stpp", "init"}

ASSUME AssetAssumption ==
  /\ PublisherParts \subseteq Parts
  /\ \A c \in Configs : IsConfig(c)
  /\ Word \in Nat \ {0} /\ MaxTurns \in Nat

VARIABLES
  cfg,            \* the command line and the directory
  pc,             \* the next step of main; "failed" after an error
  entry,          \* the next directory entry of parseTracks
  tracksByType,   \* content type -> tracks
  groups,         \* Asset.Groups
  loopDurMS,      \* Asset.LoopDurMS
  subs,           \* Asset.SubtitleTracks
  namespaces      \* the entries main has built

vars == <<cfg, pc, entry, tracksByType, groups, loopDurMS, subs, namespaces>>

Init ==
  /\ cfg \in Configs
  /\ pc = "parse" /\ entry = 1
  /\ tracksByType = [x \in {"video", "audio"} |-> <<>>]
  /\ groups = <<>> /\ loopDurMS = 0 /\ subs = <<>> /\ namespaces = <<>>

-------------------------------------------------------------------------------
(***************************************************************************)
(* InitContentTrack.                                                       *)
(***************************************************************************)

\* The elements of s at the positions in I, in their order.
Picked(s, I) == FlattenSeq([i \in DOMAIN s |-> IF i \in I THEN <<s[i]>> ELSE <<>>])

\* The first duration that is not zero; all later ones but the last agree.
DurAt(s) == SelectInSeq(s, LAMBDA x : x.dur # 0)
SampleDur(s) == IF DurAt(s) = 0 THEN 0 ELSE s[DurAt(s)].dur
DurationsConsistent(s) ==
  \A i \in DOMAIN s : DurAt(s) < i /\ i < Len(s) => s[i].dur = SampleDur(s)

\* Audio samples up to the first that is not before the edit list's media time are
\* dropped.
Trimmed(f) ==
  LET first == SelectInSeq(f.samples, LAMBDA x : x.time >= f.edit)
  IN  IF ContentType(f.type) = "video" THEN f.samples
      ELSE IF first = 0 THEN <<>> ELSE SubSeq(f.samples, first, Len(f.samples))

\* The distances between sync samples, when the first sample is one.
SyncsAt(s) == {i \in DOMAIN s : s[i].sync}
GopLengths(s) ==
  IF ~s[1].sync THEN {}
  ELSE {i - Max({j \in SyncsAt(s) : j < i}) : i \in SyncsAt(s) \ {1}}
GopLength(s) == IF GopLengths(s) = {} THEN 0 ELSE Max(GopLengths(s))

\* splitAV1SpatialLayers.  A sequence header or temporal delimiter belongs to the
\* base layer; the number of layers follows from the frames, 0 without layers.
LayerOf(o) == IF o.kind \in {"sequence", "delimiter"} THEN 0 ELSE o.sid
FrameIds(s) == UNION {{s[i].units[k].sid : k \in {j \in DOMAIN s[i].units : s[i].units[j].kind = "frame"}}
                        : i \in DOMAIN s}
NrLayers(s) == IF FrameIds(s) \subseteq {0} THEN 0 ELSE Max(FrameIds(s)) + 1
FramesOf(units, id) == {k \in DOMAIN units : units[k].kind = "frame" /\ units[k].sid = id}
LayersSplit(s) ==
  NrLayers(s) > 0 =>
    \A i \in DOMAIN s :
      LET units == s[i].units
      IN  /\ \A k \in DOMAIN units : LayerOf(units[k]) < NrLayers(s)
          /\ \A k \in DOMAIN units : units[k].kind \in {"frame", "tile"} => units[k].tid = 0
          /\ \A id \in 0..(NrLayers(s) - 1) : Cardinality(FramesOf(units, id)) = 1
LayerData(s, id, i) ==
  LET units == s[i].units IN Picked(units, {k \in DOMAIN units : LayerOf(units[k]) = id})

\* validateAV1SVCGOP: groups and GOPs of an SVC track coincide.
GopUnchecked(f, s) == TRUE
ValidateAV1SVCGOP(f, s) ==
  /\ SampleDur(s) # 0
  /\ GopLength(s) # 0
  /\ GopLength(s) * SampleDur(s) * MsPerSecond = GroupDurMS * f.timeScale
  /\ \A i \in DOMAIN s :
       /\ s[i].sync <=> (i - 1) % GopLength(s) = 0
       /\ s[i].sync => s[i].time % f.timeScale = 0

\* initAVCData wants exactly one parameter set of each kind, in the sample entry or
\* in the samples; initHEVCData wants some in the sample entry.
InBand(units) == {k \in DOMAIN units : units[k].kind = "sequence"}
ParameterSets(f) ==
  f.sets \cup UNION {{f.samples[i].units[k].sid : k \in InBand(f.samples[i].units)} : i \in DOMAIN f.samples}
ParameterSetsOK(f) ==
  /\ f.type = "avc" => Cardinality(ParameterSets(f)) = 1
  /\ f.type = "hevc" => f.sets # {}

\* Both take the parameter sets out of the samples, initAVCData the delimiters too;
\* AV1 samples stay as they are.
KeepUnits(type, units) == units
StripUnits(type, units) ==
  Picked(units, {k \in DOMAIN units :
                   /\ type \in {"avc", "hevc"} => units[k].kind # "sequence"
                   /\ type = "avc" => units[k].kind # "delimiter"})

Loadable(f) ==
  LET s == Trimmed(f)
  IN  /\ f.readable
      /\ DurationsConsistent(f.samples)
      /\ Cardinality(GopLengths(s)) <= 1
      /\ ParameterSetsOK(f)
      /\ f.type = "av1" => LayersSplit(s) /\ (NrLayers(s) > 0 => ValidateAV1SVCGOP(f, s))

\* of and layers: the file, and the number of spatial layers.
ContentTrack(f) ==
  LET s == Trimmed(f)
  IN  [name |-> f.name, of |-> f.name, type |-> f.type, prot |-> "none", cc608 |-> FALSE,
       timeScale |-> f.timeScale, sampleDur |-> SampleDur(f.samples), gopLen |-> GopLength(s),
       sampleBatch |-> cfg.batch[ContentType(f.type)], rate |-> f.rate, codec |-> f.codec,
       nrSamples |-> Len(s), duration |-> Wrap(Len(s) * SampleDur(f.samples)), loopDur |-> 0,
       samples |-> [i \in DOMAIN s |-> [s[i] EXCEPT !.units = StripUnits(f.type, @)]],
       layers |-> IF f.type = "av1" THEN NrLayers(s) ELSE 0]

\* One entry of the directory.  A file that has no samples (left) is read out of
\* range before anything checks it.
ParseTrack ==
  /\ pc = "parse" /\ entry <= Len(cfg.dir)
  /\ LET f == cfg.dir[entry]
     IN  \/ ~f.mp4 /\ entry' = entry + 1 /\ UNCHANGED <<pc, tracksByType>>
         \/ /\ f.mp4 /\ f.readable /\ DurationsConsistent(f.samples) /\ Trimmed(f) = <<>>
            /\ pc' = "panic" /\ UNCHANGED <<entry, tracksByType>>
         \/ /\ f.mp4 /\ ~(f.readable /\ DurationsConsistent(f.samples) /\ Trimmed(f) = <<>>)
            /\ IF Loadable(f)
               THEN /\ entry' = entry + 1 /\ UNCHANGED pc
                    /\ tracksByType' = [tracksByType EXCEPT ![ContentType(f.type)] =
                                          Append(@, ContentTrack(f))]
               ELSE pc' = "failed" /\ UNCHANGED <<entry, tracksByType>>
  /\ UNCHANGED <<cfg, groups, loopDurMS, subs, namespaces>>

-------------------------------------------------------------------------------
(***************************************************************************)
(* LoadAssetWithProtection.                                                *)
(***************************************************************************)

\* addProtectionInfoToTrack, and createProtectedTracks for the clear tracks.
Suffix(prot) == IF prot = "drm" THEN "_drm" ELSE "_eccp"
ProtectedCopy(t, prot) == [t EXCEPT !.name = Append(@, Suffix(prot)), !.prot = prot]
Clear(tracks) == Picked(tracks, {i \in DOMAIN tracks : tracks[i].prot = "none"})
CopiesInPlace(tracks, prot) ==
  LET clear == Clear(tracks)
  IN  [i \in DOMAIN clear |-> ProtectedCopy(clear[i], prot)]
CreateProtectedTracks(tracks, prot) ==
  LET clear == Clear(tracks)
  IN  tracks \o [i \in DOMAIN clear |-> ProtectedCopy(clear[i], prot)]
Enabled(prot) == IF prot = "drm" THEN cfg.drm ELSE cfg.eccp

ProtectTracks(prot, next) ==
  /\ pc' = next
  /\ tracksByType' = IF Enabled(prot)
                     THEN [x \in DOMAIN tracksByType |-> CreateProtectedTracks(tracksByType[x], prot)]
                     ELSE tracksByType
  /\ UNCHANGED <<cfg, entry, groups, loopDurMS, subs, namespaces>>
ProtectDRM == pc = "parse" /\ entry > Len(cfg.dir) /\ ProtectTracks("drm", "eccp")
ProtectECCP == pc = "eccp" /\ ProtectTracks("eccp", "groups")

\* sort.Slice is not stable: tracks that compare equal, such as a clear track and
\* its protected copies, come in any order.
TrackLess(a, b) ==
  IF ContentType(a.type) = "video" /\ a.codec # b.codec THEN a.codec < b.codec ELSE a.rate < b.rate
Sorted(tracks) ==
  {[i \in DOMAIN tracks |-> tracks[p[i]]] :
     p \in {q \in SetToSeqs(DOMAIN tracks) :
              \A i, j \in DOMAIN q : i < j => ~TrackLess(tracks[q[j]], tracks[q[i]])}}

NonEmpty(list) == IF list = <<>> THEN <<>> ELSE <<list>>

\* generateTrackGroups: video before audio; equal video durations, in ticks.
GenerateTrackGroups ==
  /\ pc = "groups"
  /\ LET video == tracksByType["video"] IN
       IF \E i \in DOMAIN video : video[i].duration # video[1].duration
       THEN pc' = "failed" /\ UNCHANGED groups
       ELSE /\ pc' = "loop"
            /\ \E v \in Sorted(video), a \in Sorted(tracksByType["audio"]) :
                 groups' = NonEmpty(v) \o NonEmpty(a)
  /\ UNCHANGED <<cfg, entry, tracksByType, loopDurMS, subs, namespaces>>

\* setLoopDuration: the first group's tracks are as long as the loop, audio tracks
\* of a later group at least as long; they loop in the loop's duration, truncated.
LoopMS(gs) == Wrap(gs[1][1].duration * MsPerSecond) \div gs[1][1].timeScale
ExactLength(t, nr, loop) == Wrap(t.duration * MsPerSecond) = Wrap(loop * t.timeScale)
FitsLoop(t, nr, loop) ==
  IF nr = 1 THEN Wrap(t.duration * MsPerSecond) = Wrap(loop * t.timeScale)
  ELSE Wrap(t.duration * MsPerSecond) >= Wrap(loop * t.timeScale)
WholeTrack(t, nr, loop) == t.duration
LoopDur(t, nr, loop) ==
  IF nr = 1 THEN t.duration ELSE Wrap(loop * t.timeScale) \div MsPerSecond
SetLoopDuration ==
  /\ pc = "loop"
  /\ IF groups # <<>> /\ \A g \in DOMAIN groups : \A i \in DOMAIN groups[g] :
                           FitsLoop(groups[g][i], g, LoopMS(groups))
     THEN /\ pc' = "subs"
          /\ loopDurMS' = LoopMS(groups)
          /\ groups' = [g \in DOMAIN groups |-> [i \in DOMAIN groups[g] |->
                          [groups[g][i] EXCEPT !.loopDur = LoopDur(groups[g][i], g, LoopMS(groups))]]]
     ELSE pc' = "failed" /\ UNCHANGED <<groups, loopDurMS>>
  /\ UNCHANGED <<cfg, entry, tracksByType, subs, namespaces>>

-------------------------------------------------------------------------------
(***************************************************************************)
(* Subtitles, captions and the catalogs.                                   *)
(***************************************************************************)

AddSubtitleTracks ==
  /\ pc = "subs" /\ pc' = "cc608"
  /\ LET Named(format, langs) == [i \in DOMAIN langs |-> [name |-> <<format, langs[i]>>, format |-> format]]
     IN  subs' = Named("subs_wvtt", cfg.wvtt) \o Named("subs_stpp", cfg.stpp)
  /\ UNCHANGED <<cfg, entry, tracksByType, groups, loopDurMS, namespaces>>

SetCC608Generator ==
  /\ pc = "cc608" /\ pc' = "msf"
  /\ groups' = [g \in DOMAIN groups |-> [i \in DOMAIN groups[g] |->
                  [groups[g][i] EXCEPT !.cc608 = cfg.cc608 /\ ContentType(groups[g][i].type) = "video"]]]
  /\ UNCHANGED <<cfg, entry, tracksByType, loopDurMS, subs, namespaces>>

\* An element of Catalog.Tracks.  of is history: the file the entry describes.
CatalogTrack(t, name, packaging, init) ==
  [name |-> name, of |-> t.of, packaging |-> packaging, role |-> ContentType(t.type),
   init |-> init, prot |-> t.prot, captions |-> FALSE, spatial |-> 0, depends |-> <<>>]

\* cc608.CodecFor, and the gate both catalogs apply.
CodecFor(type) == type \in {"avc", "hevc"}
Advertises(t) == ContentType(t.type) = "video" /\ CodecFor(t.type) /\ t.cc608

AllTracks == FlattenSeq(groups)

\* GenCMAFCatalogEntry: both packagings of a track share one init segment, which
\* carries the protection of the track.
CmafPair(t) ==
  LET base(name, packaging) ==
        [CatalogTrack(t, name, packaging, <<"init">> \o t.name) EXCEPT !.captions = Advertises(t)]
  IN  <<base(t.name, "cmaf"), base(Append(t.name, "_locmaf"), "locmaf")>>
SubtitleEntry(s) ==
  [name |-> s.name, of |-> s.name, packaging |-> "cmaf", role |-> "subtitle",
   init |-> <<"init">> \o s.name, prot |-> "none", captions |-> FALSE, spatial |-> 0, depends |-> <<>>]
CmafTracks(prot) ==
  LET One(t) == IF t.prot = prot THEN CmafPair(t) ELSE <<>>
  IN  FlattenSeq([i \in DOMAIN AllTracks |-> One(AllTracks[i])])
        \o [i \in DOMAIN subs |-> SubtitleEntry(subs[i])]
InitDataList(prot) ==
  LET One(t) == IF t.prot = prot THEN <<[id |-> <<"init">> \o t.name, of |-> t.of, prot |-> prot]>>
                ELSE <<>>
  IN  FlattenSeq([i \in DOMAIN AllTracks |-> One(AllTracks[i])])
        \o [i \in DOMAIN subs |-> [id |-> <<"init">> \o subs[i].name, of |-> subs[i].name, prot |-> "none"]]

\* genLOCSVCTracks: a layer depends on the one below.
LayerPart(id) == <<"/s0", "/s1", "/s2", "/s3">>[id + 1]
DependsOn(t, id) == IF id = 0 THEN <<>> ELSE <<Append(t.name, LayerPart(id - 1))>>
SvcTracks(t) ==
  [k \in 1..t.layers |->
     [CatalogTrack(t, Append(t.name, LayerPart(k - 1)), "loc", <<>>) EXCEPT
        !.spatial = k - 1, !.depends = DependsOn(t, k - 1)]]

\* GenLOCCatalogEntry.
InLOC(t) == t.prot = "none" /\ t.type \notin {"ac3", "ec3"}
LocTracks ==
  LET One(t) == IF ~InLOC(t) THEN <<>>
                ELSE IF t.layers > 0 THEN SvcTracks(t)
                ELSE <<[CatalogTrack(t, t.name, "loc", <<>>) EXCEPT !.captions = Advertises(t)]>>
  IN  FlattenSeq([i \in DOMAIN AllTracks |-> One(AllTracks[i])])

\* BuildMoqMITrackMap: the first clear AVC track, and the first clear AAC or else
\* Opus track; no map without video.
FirstClear(type) ==
  LET i == SelectInSeq(AllTracks, LAMBDA t : t.prot = "none" /\ t.type = type)
  IN  IF i = 0 THEN <<>> ELSE AllTracks[i].name
MoqMIAudio == IF FirstClear("aac") # <<>> THEN FirstClear("aac") ELSE FirstClear("opus")
MoqMITrackMap == [video0 |-> FirstClear("avc"), audio0 |-> MoqMIAudio]

\* calcCmafBitrate and calcLocmafBitrate make chunks of the first two batches, the
\* samples of which CalcSample looks up: it divides by the duration of the loop.  A
\* batch is at least one sample and at most the whole track; a track without a sample
\* duration is not measured.
MeasuredBatch(t) ==
  LET batch == IF t.sampleBatch <= 0 THEN 1 ELSE t.sampleBatch
  IN  IF batch > t.nrSamples THEN t.nrSamples ELSE batch
Measurable(t) ==
  t.sampleDur # 0 =>
    /\ t.loopDur # 0
    /\ 2 * MeasuredBatch(t) <= t.nrSamples
    /\ \A nr \in 0..(2 * MeasuredBatch(t) - 1) : OrigNr(t, nr) < t.nrSamples

NoMap == [video0 |-> <<>>, audio0 |-> <<>>]
NamespaceEntry(packaging, prot, tracks, inits, moqmi) ==
  [packaging |-> packaging, prot |-> prot, tracks |-> tracks, inits |-> inits, moqmi |-> moqmi]
AddNamespace(when, ns) ==
  /\ namespaces' = IF when THEN Append(namespaces, ns) ELSE namespaces
  /\ UNCHANGED <<cfg, entry, tracksByType, groups, loopDurMS, subs>>

AddMSF ==
  /\ pc = "msf" /\ pc' = "moqmi"
  /\ AddNamespace(LocTracks # <<>>, NamespaceEntry("loc", "none", LocTracks, <<>>, NoMap))
AddMoqMI ==
  /\ pc = "moqmi" /\ pc' = "none"
  /\ AddNamespace(FirstClear("avc") # <<>>, NamespaceEntry("moqmi", "none", <<>>, <<>>, MoqMITrackMap))
\* One CMSF namespace: clear always, the protected ones when configured.
NextProt(prot) == CASE prot = "none" -> "drm" [] prot = "drm" -> "eccpns" [] OTHER -> "serving"
AddCMSF(prot, at) ==
  LET on == prot = "none" \/ Enabled(prot)
      short == \E i \in DOMAIN AllTracks : AllTracks[i].prot = prot /\ ~Measurable(AllTracks[i])
  IN  /\ pc = at
      /\ pc' = IF on /\ short THEN "panic" ELSE NextProt(prot)
      /\ AddNamespace(on /\ ~short, NamespaceEntry("cmaf", prot, CmafTracks(prot), InitDataList(prot), NoMap))

Next ==
  \/ ParseTrack \/ ProtectDRM \/ ProtectECCP \/ GenerateTrackGroups \/ SetLoopDuration
  \/ AddSubtitleTracks \/ SetCC608Generator \/ AddMSF \/ AddMoqMI
  \/ AddCMSF("none", "none") \/ AddCMSF("drm", "drm") \/ AddCMSF("eccp", "eccpns")

Spec == Init /\ [][Next]_vars
===============================================================================
