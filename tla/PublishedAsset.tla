---------------------------- MODULE PublishedAsset ----------------------------
(***************************************************************************)
(* What a subscriber gets from the namespaces of module Asset: how the     *)
(* publisher finds the content of a listed track (the lookups of           *)
(* internal/asset.go as internal/pub/pub.go and moqmi.go use them), where  *)
(* captions are spliced in, what a LOC object carries, and how the         *)
(* simulated player reads it.  The properties relate the loader, the       *)
(* catalogs, the publishers and the player.                                *)
(***************************************************************************)
EXTENDS Asset

CONSTANT Captionable    \* external: the <<time scale, sample duration, number of frames>>
                        \* for which go-608 can build the captions of a group

\* GetTrackByName; an empty sequence stands for nil.
Found(i) == IF i = 0 THEN <<>> ELSE <<AllTracks[i]>>
GetTrackByName(name) == Found(SelectInSeq(AllTracks, LAMBDA t : t.name = name))

\* GetLOCTrackByName also knows the spatial layers of a track, <name>/s<id>.
LayerNames(t) == {Append(t.name, LayerPart(id)) : id \in 0..(t.layers - 1)}
GetLOCTrackByName(name) ==
  Found(SelectInSeq(AllTracks, LAMBDA t : t.name = name \/ name \in LayerNames(t)))
SpatialLayer(t, name) ==
  IF t.name = name \/ t.layers = 0 THEN 0
  ELSE CHOOSE id \in 0..(t.layers - 1) : name = Append(t.name, LayerPart(id))

\* PublishTrack strips the LOCMAF suffix, whatever the packaging.
KeepSuffix(name) == name
TrimSuffix(name) == IF Last(name) = "_locmaf" THEN Front(name) ELSE name

\* What the subscribe handler publishes for a track the catalog lists.
Content(ns, e) ==
  IF ns.packaging = "loc" THEN GetLOCTrackByName(e.name) ELSE GetTrackByName(TrimSuffix(e.name))
IsSubtitle(e) == \E i \in DOMAIN subs : subs[i].name = e.name
InitDataFor(ns, e) ==
  LET i == SelectInSeq(ns.inits, LAMBDA d : d.id = e.init) IN IF i = 0 THEN <<>> ELSE <<ns.inits[i]>>

\* SEISchedule is nil for a group without frames, at a frame rate that is out of
\* range and when a caption overruns the group.
SEISchedule(t, g) ==
  LET frames == EndNr(t, g) - StartNr(t, g)
  IN  frames > 0 /\ <<t.timeScale, t.sampleDur, frames>> \in Captionable

\* Where captions are spliced into a group: newGroupCCSplice for CMAF and LOCMAF,
\* newVideoCaptioner and its schedule for LOC.
NewGroupCCSplice(t, g) ==
  t.cc608 /\ ContentType(t.type) = "video" /\ t.sampleDur # 0 /\ CodecFor(t.type) /\ SEISchedule(t, g)
NewVideoCaptioner(t) ==
  t.cc608 /\ ContentType(t.type) = "video" /\ t.sampleDur # 0 /\ t.timeScale # 0 /\ CodecFor(t.type)
Schedule(t, g) == NewVideoCaptioner(t) /\ SEISchedule(t, g)
InjectsCaptions(ns, t, g) == IF ns.packaging = "loc" THEN Schedule(t, g) ELSE NewGroupCCSplice(t, g)

\* buildLOCObject puts the parameter sets of AVC and HEVC back in front of a sync
\* sample; an AV1 sample gets the sequence header unless it has one
\* (GenLOCVideoConfigForSample), and of an SVC track only the base layer.
LocData(t, layer, i) == IF t.layers > 0 THEN LayerData(t.samples, layer, i) ELSE t.samples[i].units
NeedsConfig(t, data) == t.type # "av1" \/ InBand(data) = {}
Prepended(t, layer, i) ==
  t.samples[i].sync /\ layer = 0 /\ NeedsConfig(t, LocData(t, layer, i))

\* locFrameMarking, two octets, and what getLOCFrameMarking makes of them.
FrameMarking(layer, independent) ==
  (128 + 64 + (IF independent THEN 32 ELSE 0)) * 256 + layer
GetLOCFrameMarking(v) ==
  LET flags == v \div 256
      bit(b) == (flags \div b) % 2 = 1
  IN  [start |-> bit(128), end |-> bit(64), independent |-> bit(32), discardable |-> bit(16),
       sync |-> bit(8), temporal |-> flags % 8, layer |-> v % 256]
ValidPlaybackMarking(m, spatialID) ==
  m.start /\ m.end /\ ~m.discardable /\ ~m.sync /\ m.temporal = 0 /\ m.layer = spatialID

-------------------------------------------------------------------------------
Serving == pc = "serving"
Renditions == ToSet(AllTracks)

\* File names that are told apart by more than the suffixes the publisher itself
\* appends, and no directory entry of the name of a subtitle track.
NamesClear ==
  \A i \in DOMAIN cfg.dir :
    Len(cfg.dir[i].name) = 1 /\ cfg.dir[i].name[1] \notin {"_locmaf", "subs_wvtt", "subs_stpp"}

\* The tracks and the loop fit the 32-bit arithmetic of setLoopDuration.
NoOverflow ==
  \A t \in Renditions :
    t.nrSamples * t.sampleDur * MsPerSecond < Word /\ loopDurMS * t.timeScale < Word

\* Every track that a catalog lists is found again by the publisher, which plays
\* the file, the protection and the layer the entry describes, and whose init data
\* is the one of that track: catalog generation, suffix handling and the lookups,
\* written in four places, agree.  The moq-mi names stand for clear tracks of a
\* codec the moq-mi publishers handle, AAC before Opus.
ListedTracksServed ==
  Serving /\ NamesClear =>
    /\ \A n \in DOMAIN namespaces : \A k \in DOMAIN namespaces[n].tracks :
         LET ns == namespaces[n]
             e == ns.tracks[k]
             c == Content(ns, e)
             d == InitDataFor(ns, e)
         IN  /\ IsSubtitle(e) <=> e.role = "subtitle"
             /\ e.role # "subtitle" =>
                  /\ c # <<>> /\ c[1].of = e.of /\ c[1].prot = ns.prot
                  /\ ns.packaging = "loc" =>
                       /\ SpatialLayer(c[1], e.name) = e.spatial
                       /\ c[1].layers > 0 => e.name # c[1].name
             /\ ns.packaging = "cmaf" =>
                  d # <<>> /\ d[1].of = e.of /\ (e.role # "subtitle" => d[1].prot = ns.prot)
    /\ \A n \in DOMAIN namespaces : namespaces[n].packaging = "moqmi" =>
         LET m == namespaces[n].moqmi
             v == GetTrackByName(m.video0)
             a == GetTrackByName(m.audio0)
         IN  /\ v # <<>> /\ v[1].type = "avc" /\ v[1].prot = "none"
             /\ a # <<>> =>
                  /\ a[1].prot = "none" /\ a[1].type \in {"aac", "opus"}
                  /\ a[1].type = "opus" => \A t \in Renditions : t.type # "aac"
             /\ a = <<>> => \A t \in Renditions : t.type \notin {"aac", "opus"}

\* Each file is published once in CMAF and once in LOCMAF, under every protection
\* that is configured and no other, although the protected copies are made in two
\* passes over the same lists and sorted in among the clear tracks.
EachRenditionOnce ==
  Serving =>
    \A i \in DOMAIN cfg.dir : cfg.dir[i].mp4 =>
      \A prot \in {"none", "drm", "eccp"}, packaging \in {"cmaf", "locmaf"} :
        Cardinality({at \in UNION {{n} \X DOMAIN namespaces[n].tracks : n \in DOMAIN namespaces} :
             LET ns == namespaces[at[1]]
                 e == ns.tracks[at[2]]
             IN  e.of = cfg.dir[i].name /\ e.packaging = packaging /\ e.role # "subtitle"
                   /\ ns.prot = prot /\ e.prot = prot})
          = IF prot = "none" \/ Enabled(prot) THEN 1 ELSE 0

\* "The catalog advertises captions iff they are really injected": every group of
\* a track that is listed with captions carries them, and no group of another one.
\* The catalogs do not ask whether the captions of the track's groups can be built.
CaptionsAsAdvertised ==
  Serving /\ NamesClear =>
    \A n \in DOMAIN namespaces : \A k \in DOMAIN namespaces[n].tracks :
      LET ns == namespaces[n]
          e == ns.tracks[k]
          t == Content(ns, e)[1]
      IN  e.role # "subtitle" /\ t.sampleDur # 0 =>
            \A g \in 0..MaxTurns : e.captions <=> InjectsCaptions(ns, t, g)

\* A loaded track has a sample for every output sample of every turn of the loop
\* (CalcSample never reads behind the last one), and after any number of turns the
\* first sample of the loop comes within one sample of where the loop of the video
\* stands: audio and video loop together.
LoopsTogether ==
  Serving /\ NoOverflow =>
    \A t \in Renditions :
      t.sampleDur > 0 /\ t.loopDur >= t.sampleDur =>
        \A nr \in 0..((MaxTurns * t.loopDur) \div t.sampleDur) :
          /\ OrigNr(t, nr) < t.nrSamples
          /\ OrigNr(t, nr) = 0 /\ (loopDurMS * t.timeScale) % MsPerSecond = 0 =>
               \E turn \in 0..MaxTurns :
                 LET late == nr * t.sampleDur * MsPerSecond - turn * loopDurMS * t.timeScale
                 IN  0 <= late /\ late < t.sampleDur * MsPerSecond

\* A file as an encoder for this publisher writes it: samples of one duration and
\* without gaps from zero on, a closed GOP structure, one set of AVC parameter sets,
\* repeated in band or not, HEVC parameter sets in the sample entry, and of AV1
\* either no spatial layers or one frame of every layer in each temporal unit, with
\* several GOPs, each of them a group and a whole number of seconds long.
OneFramePerLayer(s, n) ==
  \A i \in DOMAIN s :
    /\ \A k \in DOMAIN s[i].units : s[i].units[k].sid < n /\ s[i].units[k].tid = 0
    /\ \A id \in 0..(n - 1) : Cardinality(FramesOf(s[i].units, id)) = 1
Regular(f) ==
  LET s == Trimmed(f)
      d == f.samples[1].dur
  IN  /\ f.readable /\ s # <<>> /\ d > 0
      /\ \A i \in DOMAIN f.samples : f.samples[i].dur = d /\ f.samples[i].time = (i - 1) * d
      /\ \E gop \in 1..Len(s) :
           /\ \A i \in DOMAIN s : s[i].sync <=> (i - 1) % gop = 0
           /\ f.type = "av1" => \E n \in 1..4 :
                /\ OneFramePerLayer(s, n)
                /\ n > 1 => /\ gop < Len(s) /\ (gop * d) % f.timeScale = 0
                            /\ gop * d * MsPerSecond = GroupDurMS * f.timeScale
      /\ f.type = "avc" => \E id \in f.sets :
           /\ f.sets = {id}
           /\ \A i \in DOMAIN s : \A k \in InBand(s[i].units) : s[i].units[k].sid = id
      /\ f.type = "hevc" => f.sets # {}

\* A directory of such files, whose video lasts the same whole number of
\* milliseconds in one time scale and whose audio lasts at least as long, with two
\* batches in every file and a loop of at least one tick of every file, is served:
\* the loader refuses none of it, and neither the loop nor the measurement of the
\* bit rates fails.
LengthMS(f) == Len(Trimmed(f)) * SampleDur(f.samples) * MsPerSecond
Conforming(c) ==
  LET files == {c.dir[i] : i \in {j \in DOMAIN c.dir : c.dir[j].mp4}}
      video == {f \in files : ContentType(f.type) = "video"}
      first == IF video # {} THEN video ELSE files
  IN  /\ files # {} /\ \A f \in files : Regular(f) /\ LengthMS(f) < Word
      /\ \A f \in files : Len(Trimmed(f)) >= 2 /\ 2 * c.batch[ContentType(f.type)] <= Len(Trimmed(f))
      /\ \E loop \in 1..Word :
           /\ \A f \in first : LengthMS(f) = loop * f.timeScale
           /\ \A f \in files : LengthMS(f) >= loop * f.timeScale /\ loop * f.timeScale >= MsPerSecond
      /\ \A f, g \in video : f.timeScale = g.timeScale
ConformingAssetServed == Conforming(cfg) => pc \notin {"failed", "panic"}

\* Every sync object a decoder can start from carries the decoder configuration,
\* in band or prepended and never both, whatever the encoder put into the key frames
\* and the sample entry and although the loader takes it out for two codecs: "LOC
\* has no init segment, so every keyframe must be self-contained".
KeyframesSelfContained ==
  Serving =>
    \A t \in {x \in Renditions : InLOC(x) /\ ContentType(x.type) = "video"} :
      \A i \in DOMAIN t.samples :
        t.samples[i].sync =>
          (InBand(LocData(t, 0, i)) = {} <=> Prepended(t, 0, i))

\* A listed chain of spatial layers can be played: each layer depends on the
\* next lower one, which is listed and is a layer of the same file; every object
\* holds one frame of its layer; the player accepts the marking of every object and
\* takes exactly the sync samples for independent; and, when the loop is a whole
\* number of groups, every group starts with one.
SvcChainsPlayable ==
  Serving =>
    \A n \in DOMAIN namespaces : namespaces[n].packaging = "loc" =>
      \A k \in DOMAIN namespaces[n].tracks :
        LET ns == namespaces[n]
            e == ns.tracks[k]
            t == Content(ns, e)[1]
        IN  t.layers > 0 /\ NamesClear =>
              /\ e.spatial = 0 <=> e.depends = <<>>
              /\ e.spatial > 0 =>
                   /\ Len(e.depends) = 1
                   /\ \E j \in DOMAIN ns.tracks :
                        /\ ns.tracks[j].name = e.depends[1] /\ ns.tracks[j].of = e.of
                        /\ ns.tracks[j].spatial = e.spatial - 1
              /\ \A i \in DOMAIN t.samples :
                   LET m == GetLOCFrameMarking(FrameMarking(e.spatial, t.samples[i].sync))
                   IN  /\ Cardinality(FramesOf(LocData(t, e.spatial, i), e.spatial)) = 1
                       /\ ValidPlaybackMarking(m, e.spatial)
                       /\ m.independent <=> t.samples[i].sync
              /\ loopDurMS % GroupDurMS = 0 /\ NoOverflow =>
                   \A g \in 0..(MaxTurns * (loopDurMS \div GroupDurMS)) :
                     t.samples[OrigNr(t, StartNr(t, g)) + 1].sync
===============================================================================
