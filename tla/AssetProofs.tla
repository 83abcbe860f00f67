----------------------------- MODULE AssetProofs -----------------------------
(***************************************************************************)
(* Proofs about Asset and PublishedAsset, for every directory and command  *)
(* line, every word size, unit of time and duration of groups.             *)
(***************************************************************************)
EXTENDS PublishedAsset, LoopLemmas

(***************************************************************************)
(* What the loader computes for one file.                                  *)
(***************************************************************************)

\* Picked takes the elements at the given places, each once; b is where from.
Picks(F, s, I, b) ==
  /\ \A k \in 1 .. Len(F) : b[k] \in 1 .. Len(s) /\ b[k] \in I /\ F[k] = s[b[k]]
  /\ \A k, l \in 1 .. Len(F) : b[k] = b[l] => k = l
  /\ \A i \in 1 .. Len(s) : i \in I => \E k \in 1 .. Len(F) : b[k] = i

LEMMA PickedPlaces ==
  ASSUME NEW T, NEW s \in Seq(T), NEW I
  PROVE  /\ Picked(s, I) \in Seq(T)
         /\ \E b : Picks(Picked(s, I), s, I, b)
  <1> DEFINE one(i) == IF i \in I THEN <<s[i]>> ELSE <<>>
             seqs == [i \in DOMAIN s |-> one(i)]
             F == Picked(s, I)
  <1>1. DOMAIN s = 1 .. Len(s) /\ Len(s) \in Nat
    OBVIOUS
  <1>2. \A i \in 1 .. Len(s) : /\ one(i) \in Seq(T)
                               /\ i \in I => Len(one(i)) = 1 /\ one(i)[1] = s[i]
                               /\ i \notin I => Len(one(i)) = 0
    <2> TAKE i \in 1 .. Len(s)
    <2>1. s[i] \in T
      OBVIOUS
    <2> QED BY <2>1
  <1>3. F = FlattenSeq(seqs)
    BY Zenon DEF Picked
  <1> HIDE DEF one
  <1>4. seqs \in Seq(Seq(T)) /\ Len(seqs) = Len(s) /\ \A i \in 1 .. Len(s) : seqs[i] = one(i)
    <2>1. seqs \in [1 .. Len(s) -> Seq(T)]
      BY <1>1, <1>2
    <2> HIDE DEF seqs
    <2>2. seqs \in Seq(Seq(T)) /\ Len(seqs) = Len(s)
      BY <1>1, <2>1
    <2> QED BY <1>1, <2>2 DEF seqs
  <1> HIDE DEF seqs, F
  <1>5. F \in Seq(T)
    BY <1>3, <1>4, FlattenPlaces
  <1>6. PICK b, p : Placed(F, seqs, Len(s), b, p)
    BY <1>3, <1>4, FlattenPlaces
  <1>7. /\ \A k \in 1 .. Len(F) :
             b[k] \in 1 .. Len(s) /\ p[k] \in 1 .. Len(seqs[b[k]]) /\ F[k] = seqs[b[k]][p[k]]
        /\ \A k, l \in 1 .. Len(F) : b[k] = b[l] /\ p[k] = p[l] => k = l
        /\ \A i \in 1 .. Len(s) : \A j \in 1 .. Len(seqs[i]) : \E k \in 1 .. Len(F) : b[k] = i /\ p[k] = j
    BY <1>6 DEF Placed
  <1>8. \A k \in 1 .. Len(F) : b[k] \in 1 .. Len(s) /\ b[k] \in I /\ F[k] = s[b[k]] /\ p[k] = 1
    <2> TAKE k \in 1 .. Len(F)
    <2>1. b[k] \in 1 .. Len(s) /\ p[k] \in 1 .. Len(one(b[k])) /\ F[k] = one(b[k])[p[k]]
      BY <1>4, <1>7
    <2>2. b[k] \in I
      <3> SUFFICES ASSUME b[k] \notin I PROVE FALSE
        OBVIOUS
      <3> QED BY <1>2, <2>1
    <2>3. Len(one(b[k])) = 1 /\ one(b[k])[1] = s[b[k]]
      BY <1>2, <2>1, <2>2
    <2>4. p[k] = 1
      BY <2>1, <2>3
    <2> QED BY <2>1, <2>2, <2>3, <2>4
  <1>9. \A k, l \in 1 .. Len(F) : b[k] = b[l] => k = l
    BY <1>7, <1>8
  <1>10. \A i \in 1 .. Len(s) : i \in I => \E k \in 1 .. Len(F) : b[k] = i
    <2> SUFFICES ASSUME NEW i \in 1 .. Len(s), i \in I PROVE \E k \in 1 .. Len(F) : b[k] = i
      OBVIOUS
    <2>1. 1 \in 1 .. Len(seqs[i])
      BY <1>2, <1>4
    <2> QED BY <1>7, <2>1
  <1>11. Picks(F, s, I, b)
    BY <1>8, <1>9, <1>10 DEF Picks
  <1> QED BY <1>5, <1>11, Zenon DEF F

\* The tracks the loader makes.
Prots == {"none", "drm", "eccp"}
TrackType ==
  [name : Seq(Parts), of : Seq(Parts), type : Types, prot : Prots, cc608 : BOOLEAN,
   timeScale : Nat \ {0}, sampleDur : Nat, gopLen : Nat, sampleBatch : Int, rate : Nat,
   codec : Nat, nrSamples : Nat, duration : Nat, loopDur : Nat, samples : Seq(SampleType), layers : 0 .. 4]

LEMMA FileFacts ==
  ASSUME NEW c \in Configs, NEW i \in DOMAIN c.dir
  PROVE  /\ c.dir[i] \in FileType /\ IsFile(c.dir[i])
         /\ c \in ConfigType /\ DOMAIN c.dir = 1 .. Len(c.dir) /\ Len(c.dir) \in Nat
  <1>1. IsConfig(c)
    BY AssetAssumption
  <1>2. c \in ConfigType /\ IsFile(c.dir[i])
    BY <1>1 DEF IsConfig
  <1>3. c.dir \in Seq(FileType)
    BY <1>2 DEF ConfigType
  <1> QED BY <1>2, <1>3 DEF IsFile

LEMMA TrimmedType ==
  ASSUME NEW f \in FileType
  PROVE  /\ Trimmed(f) \in Seq(SampleType)
         /\ ContentType(f.type) # "audio" => Trimmed(f) = f.samples
         /\ f.samples = <<>> => Trimmed(f) = <<>>
  <1> DEFINE s == f.samples  I == {i \in 1 .. Len(s) : s[i].time >= f.edit}
             first == IF I # {} THEN Min(I) ELSE 0
  <1>1. s \in Seq(SampleType) /\ DOMAIN s = 1 .. Len(s) /\ Len(s) \in Nat
    BY DEF FileType
  <1>2. Trimmed(f) = IF ContentType(f.type) = "video" THEN s
                     ELSE IF first = 0 THEN <<>> ELSE SubSeq(s, first, Len(s))
    BY DEF Trimmed, SelectInSeq
  <1>3. I \subseteq Nat /\ I \subseteq DOMAIN s
    BY <1>1
  <1>4. first # 0 => first \in DOMAIN s
    <2>1. ASSUME I # {} PROVE Min(I) \in DOMAIN s
      <3> HIDE DEF I
      <3> QED BY <1>3, <2>1, MinIn
    <2> QED BY <2>1
  <1> HIDE DEF s, first
  <1>5. first # 0 => SubSeq(s, first, Len(s)) \in Seq(SampleType)
    BY <1>1, <1>4
  <1>6. <<>> \in Seq(SampleType)
    OBVIOUS
  <1>7. s = <<>> => Trimmed(f) = <<>>
    <2>1. s = <<>> => first = 0
      BY <1>1, <1>4
    <2> QED BY <1>2, <2>1
  <1>8. ContentType(f.type) # "audio" => ContentType(f.type) = "video"
    BY DEF ContentType
  <1> QED BY <1>1, <1>2, <1>5, <1>6, <1>7, <1>8 DEF s

LEMMA SampleDurType ==
  ASSUME NEW s \in Seq(SampleType)
  PROVE  SampleDur(s) \in Nat
  <1> DEFINE I == {i \in 1 .. Len(s) : s[i].dur # 0}
  <1>1. DurAt(s) = IF I # {} THEN Min(I) ELSE 0
    BY DEF DurAt, SelectInSeq
  <1>2. I \subseteq Nat /\ I \subseteq DOMAIN s
    OBVIOUS
  <1>3. CASE I # {}
    <2>1. DurAt(s) \in I
      <3> HIDE DEF I
      <3> QED BY <1>1, <1>2, <1>3, MinIn
    <2>2. s[DurAt(s)] \in SampleType
      BY <2>1
    <2>3. s[DurAt(s)].dur \in Nat
      BY <2>2 DEF SampleType
    <2> QED BY <2>3 DEF SampleDur
  <1>4. CASE I = {}
    BY <1>1, <1>4 DEF SampleDur
  <1> QED BY <1>3, <1>4

\* GOP lengths lie between 1 and the number of samples.
LEMMA GopLengthType ==
  ASSUME NEW s \in Seq(SampleType)
  PROVE  GopLength(s) \in 0 .. Len(s)
  <1>0. Len(s) \in Nat /\ DOMAIN s = 1 .. Len(s)
    OBVIOUS
  <1>1. GopLengths(s) \subseteq 0 .. Len(s)
    <2> SUFFICES ASSUME s[1].sync, NEW i \in SyncsAt(s) \ {1}
                 PROVE  i - Max({j \in SyncsAt(s) : j < i}) \in 0 .. Len(s)
      BY DEF GopLengths
    <2> DEFINE before == {j \in SyncsAt(s) : j < i}
    <2>1. i \in 2 .. Len(s)
      BY <1>0 DEF SyncsAt
    <2>2. 1 \in before /\ before \subseteq 0 .. i
      <3>1. 1 \in DOMAIN s /\ 1 < i
        BY <1>0, <2>1
      <3>2. 1 \in SyncsAt(s)
        BY <3>1 DEF SyncsAt
      <3>3. SyncsAt(s) \subseteq Nat
        BY <1>0 DEF SyncsAt
      <3> QED BY <3>1, <3>2, <3>3, <2>1
    <2> HIDE DEF before
    <2>3. Max(before) \in before
      <3>1. i \in Nat /\ before # {}
        BY <2>1, <2>2
      <3> QED BY <2>2, <3>1, MaxIn, Zenon
    <2>4. Max(before) \in 0 .. i
      BY <2>2, <2>3
    <2> QED BY <1>0, <2>1, <2>4 DEF before
  <1>2. CASE GopLengths(s) = {}
    BY <1>0, <1>2 DEF GopLength
  <1>3. CASE GopLengths(s) # {}
    <2>1. Max(GopLengths(s)) \in GopLengths(s)
      BY <1>0, <1>1, <1>3, MaxIn
    <2> QED BY <1>1, <1>3, <2>1 DEF GopLength
  <1> QED BY <1>2, <1>3

LEMMA NrLayersType ==
  ASSUME NEW s \in Seq(SampleType),
         \A i \in DOMAIN s : \A k \in DOMAIN s[i].units : s[i].units[k].sid \in 0 .. 3
  PROVE  NrLayers(s) \in {0} \cup 2 .. 4
  <1>1. FrameIds(s) \subseteq 0 .. 3
    BY DEF FrameIds
  <1>2. CASE FrameIds(s) \subseteq {0}
    BY <1>2 DEF NrLayers
  <1>3. CASE ~(FrameIds(s) \subseteq {0})
    <2>1. PICK x \in FrameIds(s) : x # 0
      BY <1>3
    <2>2. Max(FrameIds(s)) \in FrameIds(s) /\ \A y \in FrameIds(s) : y <= Max(FrameIds(s))
      BY <1>1, <2>1, MaxIn
    <2>3. Max(FrameIds(s)) \in 1 .. 3
      BY <1>1, <2>1, <2>2
    <2> QED BY <1>3, <2>3 DEF NrLayers
  <1> QED BY <1>2, <1>3

(***************************************************************************)
(* The invariant.                                                          *)
(***************************************************************************)

\* A track t made of file f: what the loader read, under the name of its
\* protection, whatever the later steps set.
Usable(f) == f.mp4 /\ Loadable(f) /\ Trimmed(f) # <<>>
RenditionName(of, prot) == IF prot = "none" THEN of ELSE Append(of, Suffix(prot))
LoadedSamples(f) ==
  [i \in DOMAIN Trimmed(f) |-> [Trimmed(f)[i] EXCEPT !.units = StripUnits(f.type, @)]]
LoadedLayers(f) == IF f.type = "av1" THEN NrLayers(Trimmed(f)) ELSE 0
Rendition(c, t, f) ==
  /\ t \in TrackType
  /\ t.name = RenditionName(t.of, t.prot)
  /\ t.of = f.name /\ t.type = f.type /\ t.timeScale = f.timeScale
  /\ t.sampleDur = SampleDur(f.samples) /\ t.gopLen = GopLength(Trimmed(f))
  /\ t.sampleBatch = c.batch[ContentType(f.type)]
  /\ t.nrSamples = Len(Trimmed(f)) /\ t.duration = Wrap(Len(Trimmed(f)) * SampleDur(f.samples))
  /\ t.samples = LoadedSamples(f) /\ t.layers = LoadedLayers(f)
Made(c, t, n, prots) ==
  t.prot \in prots /\ \E i \in 1 .. n : Usable(c.dir[i]) /\ Rendition(c, t, c.dir[i])

\* A list of the tracks of type x of the first n directory entries: each file under
\* each protection, once.
ListOf(c, L, x, n, prots) ==
  /\ L \in Seq(TrackType)
  /\ \A k \in DOMAIN L : Made(c, L[k], n, prots) /\ ContentType(L[k].type) = x
  /\ \A i \in 1 .. n : c.dir[i].mp4 /\ ContentType(c.dir[i].type) = x =>
       \A p \in prots : \E k \in DOMAIN L : L[k].of = c.dir[i].name /\ L[k].prot = p
  /\ \A k, l \in DOMAIN L : L[k].of = L[l].of /\ L[k].prot = L[l].prot => k = l

\* The groups, video first.
Has(c, x) == \E i \in DOMAIN c.dir : c.dir[i].mp4 /\ ContentType(c.dir[i].type) = x
KindOf(c, g) == IF g = 1 /\ Has(c, "video") THEN "video" ELSE "audio"
Grouped(c, gs, prots) ==
  /\ gs \in Seq(Seq(TrackType))
  /\ \A g \in DOMAIN gs : gs[g] # <<>>
  /\ \A g \in DOMAIN gs : \A k \in DOMAIN gs[g] :
       Made(c, gs[g][k], Len(c.dir), prots) /\ ContentType(gs[g][k].type) = KindOf(c, g)
  /\ \A i \in DOMAIN c.dir : c.dir[i].mp4 =>
       \A p \in prots : \E g \in DOMAIN gs : \E k \in DOMAIN gs[g] :
         gs[g][k].of = c.dir[i].name /\ gs[g][k].prot = p
  /\ \A g, h \in DOMAIN gs : \A k \in DOMAIN gs[g] : \A l \in DOMAIN gs[h] :
       gs[g][k].of = gs[h][l].of /\ gs[g][k].prot = gs[h][l].prot => g = h /\ k = l

Looped(gs, loop) ==
  /\ loop \in Nat /\ gs # <<>> /\ loop = LoopMS(gs)
  /\ \A g \in DOMAIN gs : \A k \in DOMAIN gs[g] :
       FitsLoop(gs[g][k], g, loop) /\ gs[g][k].loopDur = LoopDur(gs[g][k], g, loop)
Captioned(c, gs) ==
  \A g \in DOMAIN gs : \A k \in DOMAIN gs[g] :
    gs[g][k].cc608 <=> c.cc608 /\ ContentType(gs[g][k].type) = "video"
Subtitled(ss) ==
  /\ ss \in Seq([name : Seq(Parts), format : {"subs_wvtt", "subs_stpp"}])
  /\ \A i \in DOMAIN ss : Len(ss[i].name) = 2 /\ ss[i].name[1] = ss[i].format

\* The namespaces main builds.
LocNS == NamespaceEntry("loc", "none", LocTracks, <<>>, NoMap)
MoqMINS == NamespaceEntry("moqmi", "none", <<>>, <<>>, MoqMITrackMap)
CmafNS(prot) == NamespaceEntry("cmaf", prot, CmafTracks(prot), InitDataList(prot), NoMap)
On(prot) == prot = "none" \/ Enabled(prot)
Done(prot) ==
  pc \in CASE prot = "none" -> {"drm", "eccpns", "serving"}
           [] prot = "drm" -> {"eccpns", "serving"}
           [] prot = "eccp" -> {"serving"}
Published ==
  /\ namespaces \in Seq({LocNS, MoqMINS} \cup {CmafNS(p) : p \in Prots})
  /\ \A n \in DOMAIN namespaces :
       LET ns == namespaces[n]
       IN  /\ ns.packaging = "moqmi" => FirstClear("avc") # <<>>
           /\ ns.packaging = "cmaf" => \E p \in Prots : ns = CmafNS(p) /\ Done(p) /\ On(p)
  /\ \A p \in Prots : Done(p) /\ On(p) => \E n \in DOMAIN namespaces : namespaces[n] = CmafNS(p)
  /\ \A n, m \in DOMAIN namespaces :
       /\ namespaces[n].packaging = "cmaf" /\ namespaces[m].packaging = "cmaf"
       /\ namespaces[n].prot = namespaces[m].prot
       => n = m

\* The protections whose copies have been made.
Applied ==
  {"none"} \cup (IF pc # "parse" /\ cfg.drm THEN {"drm"} ELSE {})
           \cup (IF pc \notin {"parse", "eccp"} /\ cfg.eccp THEN {"eccp"} ELSE {})

Building == {"msf", "moqmi", "none", "drm", "eccpns", "serving"}
HasGroups == {"loop", "subs", "cc608"} \cup Building
Lists == {"parse", "eccp", "groups"}

IInv ==
  /\ cfg \in Configs
  /\ pc \in Lists \cup HasGroups \cup {"failed", "panic"}
  /\ entry \in 1 .. Len(cfg.dir) + 1
  /\ pc \notin {"parse", "failed", "panic"} => entry = Len(cfg.dir) + 1
  /\ pc \in Lists =>
       /\ DOMAIN tracksByType = {"video", "audio"}
       /\ \A x \in {"video", "audio"} : ListOf(cfg, tracksByType[x], x, entry - 1, Applied)
  /\ pc \in HasGroups => Grouped(cfg, groups, Applied)
  /\ pc \in {"subs", "cc608"} \cup Building => Looped(groups, loopDurMS)
  /\ pc \in {"cc608"} \cup Building => Subtitled(subs)
  /\ pc \in Building => Captioned(cfg, groups) /\ Published
  /\ pc \in HasGroups \ Building => namespaces = <<>>
  /\ pc \in Lists => namespaces = <<>>

(***************************************************************************)
(* Every step keeps the invariant.                                         *)
(***************************************************************************)

\* What a file yields has the type of a track.
LEMMA LoadedType ==
  ASSUME NEW f \in FileType, IsFile(f)
  PROVE  /\ SampleDur(f.samples) \in Nat
         /\ Trimmed(f) \in Seq(SampleType) /\ Len(Trimmed(f)) \in Nat
         /\ GopLength(Trimmed(f)) \in Nat
         /\ Wrap(Len(Trimmed(f)) * SampleDur(f.samples)) \in Nat
         /\ LoadedSamples(f) \in Seq(SampleType)
         /\ LoadedLayers(f) \in 0 .. 4
  <1> DEFINE s == Trimmed(f)
  <1>1. f.samples \in Seq(SampleType)
    BY DEF FileType
  <1>2. s \in Seq(SampleType) /\ Len(s) \in Nat /\ DOMAIN s = 1 .. Len(s)
    BY TrimmedType
  <1>3. SampleDur(f.samples) \in Nat
    BY <1>1, SampleDurType
  <1>4. GopLength(s) \in Nat
    <2>1. GopLength(s) \in 0 .. Len(s)
      BY <1>2, GopLengthType
    <2> QED BY <1>2, <2>1
  <1> HIDE DEF s
  <1>5. Wrap(Len(s) * SampleDur(f.samples)) \in Nat
    <2>1. Len(s) * SampleDur(f.samples) \in Nat
      BY <1>2, <1>3
    <2> QED BY <2>1, AssetAssumption DEF Wrap
  <1>6. [i \in DOMAIN s |-> [s[i] EXCEPT !.units = StripUnits(f.type, @)]] \in Seq(SampleType)
    <2>1. ASSUME NEW i \in 1 .. Len(s)
          PROVE  [s[i] EXCEPT !.units = StripUnits(f.type, @)] \in SampleType
      <3>1. s[i] \in SampleType
        BY <1>2
      <3>2. s[i].units \in Seq(UnitType)
        BY <3>1 DEF SampleType
      <3>3. StripUnits(f.type, s[i].units) \in Seq(UnitType)
        BY <3>2, PickedPlaces DEF StripUnits
      <3> QED BY <3>1, <3>3 DEF SampleType
    <2> QED BY <1>2, <2>1
  <1>7. LoadedLayers(f) \in 0 .. 4
    <2>1. CASE f.type = "av1"
      <3>1. s = f.samples
        BY <2>1, TrimmedType DEF s, ContentType
      <3>2. \A i \in DOMAIN s : \A k \in DOMAIN s[i].units : s[i].units[k].sid \in 0 .. 3
        BY <2>1, <3>1 DEF IsFile
      <3>3. NrLayers(s) \in {0} \cup 2 .. 4
        BY <1>2, <3>2, NrLayersType
      <3> QED BY <2>1, <3>3 DEF LoadedLayers, s
    <2>2. CASE f.type # "av1"
      BY <2>2 DEF LoadedLayers
    <2> QED BY <2>1, <2>2
  <1> QED BY <1>2, <1>3, <1>4, <1>5, <1>6, <1>7 DEF s, LoadedSamples

LEMMA ContentTrackMade ==
  ASSUME NEW f \in FileType, IsFile(f), cfg \in ConfigType
  PROVE  Rendition(cfg, ContentTrack(f), f) /\ ContentTrack(f).prot = "none"
         /\ ContentTrack(f).of = f.name /\ ContentTrack(f).type = f.type
  <1> DEFINE t == ContentTrack(f)
  <1>1. /\ t.name = f.name /\ t.of = f.name /\ t.type = f.type /\ t.prot = "none" /\ t.cc608 = FALSE
        /\ t.timeScale = f.timeScale /\ t.sampleDur = SampleDur(f.samples)
        /\ t.gopLen = GopLength(Trimmed(f)) /\ t.sampleBatch = cfg.batch[ContentType(f.type)]
        /\ t.rate = f.rate /\ t.codec = f.codec /\ t.nrSamples = Len(Trimmed(f))
        /\ t.duration = Wrap(Len(Trimmed(f)) * SampleDur(f.samples)) /\ t.loopDur = 0
        /\ t.samples = LoadedSamples(f) /\ t.layers = LoadedLayers(f)
    BY DEF ContentTrack, LoadedSamples, LoadedLayers
  <1>2. t = [name |-> t.name, of |-> t.of, type |-> t.type, prot |-> t.prot, cc608 |-> t.cc608,
             timeScale |-> t.timeScale, sampleDur |-> t.sampleDur, gopLen |-> t.gopLen,
             sampleBatch |-> t.sampleBatch, rate |-> t.rate, codec |-> t.codec,
             nrSamples |-> t.nrSamples, duration |-> t.duration, loopDur |-> t.loopDur, samples |-> t.samples,
             layers |-> t.layers]
    BY DEF ContentTrack
  <1> HIDE DEF t
  <1>3. cfg.batch[ContentType(f.type)] \in Int
    BY DEF ConfigType, ContentType
  <1>4. f.name \in Seq(Parts) /\ f.type \in Types /\ f.timeScale \in Nat \ {0} /\ f.rate \in Nat
        /\ f.codec \in Nat
    BY DEF FileType
  <1>5. t \in TrackType
    <2>1. /\ SampleDur(f.samples) \in Nat /\ Len(Trimmed(f)) \in Nat /\ GopLength(Trimmed(f)) \in Nat
          /\ Wrap(Len(Trimmed(f)) * SampleDur(f.samples)) \in Nat
          /\ LoadedSamples(f) \in Seq(SampleType) /\ LoadedLayers(f) \in 0 .. 4
      BY LoadedType
    <2>2. /\ t.name \in Seq(Parts) /\ t.of \in Seq(Parts) /\ t.type \in Types /\ t.prot \in Prots
          /\ t.cc608 \in BOOLEAN /\ t.timeScale \in Nat \ {0} /\ t.rate \in Nat /\ t.codec \in Nat
          /\ t.loopDur \in Nat
      <3>1. t.cc608 \in BOOLEAN
        BY <1>1, Zenon
      <3>2. t.prot \in Prots
        BY <1>1, Zenon DEF Prots
      <3>3. t.loopDur \in Nat
        <4>1. t.loopDur = 0
          BY <1>1, Zenon
        <4> QED BY <4>1
      <3> QED BY <1>1, <1>4, <3>1, <3>2, <3>3, Zenon
    <2>3. /\ t.sampleDur \in Nat /\ t.gopLen \in Nat /\ t.sampleBatch \in Int /\ t.nrSamples \in Nat
          /\ t.duration \in Nat /\ t.samples \in Seq(SampleType) /\ t.layers \in 0 .. 4
      BY <1>1, <1>3, <2>1, Zenon
    <2> QED BY <1>2, <2>2, <2>3, Zenon DEF TrackType
  <1> QED BY <1>1, <1>5 DEF Rendition, RenditionName, t

\* The file of a track.
LEMMA MadeFacts ==
  ASSUME NEW c, NEW t, NEW n \in Nat, NEW prots, Made(c, t, n, prots)
  PROVE  /\ t \in TrackType /\ t.prot \in prots /\ t.name = RenditionName(t.of, t.prot)
         /\ \E i \in 1 .. n : c.dir[i].mp4 /\ t.of = c.dir[i].name /\ t.type = c.dir[i].type
  BY DEF Made, Rendition, Usable

LEMMA MadeMore ==
  ASSUME NEW c, NEW t, NEW n \in Nat, NEW prots, Made(c, t, n, prots),
         NEW m \in Nat, n <= m, NEW more, prots \subseteq more
  PROVE  Made(c, t, m, more)
  <1>1. PICK i \in 1 .. n : Usable(c.dir[i]) /\ Rendition(c, t, c.dir[i])
    BY DEF Made
  <1>2. i \in 1 .. m
    OBVIOUS
  <1>3. t.prot \in more
    BY DEF Made
  <1> QED BY <1>1, <1>2, <1>3 DEF Made

\* File names are unique.
LEMMA NamesUnique ==
  ASSUME NEW c \in Configs, NEW i \in DOMAIN c.dir, NEW j \in DOMAIN c.dir,
         c.dir[i].mp4, c.dir[j].mp4, c.dir[i].name = c.dir[j].name
  PROVE  i = j
  BY AssetAssumption DEF IsConfig

\* parseTracks adds a track ...
LEMMA ListAppend ==
  ASSUME NEW c \in Configs, NEW L, NEW x, NEW n \in Nat, n + 1 \in DOMAIN c.dir, NEW t,
         ListOf(c, L, x, n, {"none"}), Usable(c.dir[n + 1]), Rendition(c, t, c.dir[n + 1]),
         t.prot = "none", ContentType(c.dir[n + 1].type) = x
  PROVE  ListOf(c, Append(L, t), x, n + 1, {"none"})
  <1> DEFINE M == Append(L, t)  l == Len(L)
  <1>1. L \in Seq(TrackType) /\ t \in TrackType /\ DOMAIN c.dir = 1 .. Len(c.dir) /\ Len(c.dir) \in Nat
    BY FileFacts DEF ListOf, Rendition
  <1>2. /\ M \in Seq(TrackType) /\ l \in Nat /\ DOMAIN L = 1 .. l /\ DOMAIN M = 1 .. l + 1
        /\ M[l + 1] = t /\ \A k \in 1 .. l : M[k] = L[k]
    BY <1>1
  <1>3. Made(c, t, n + 1, {"none"}) /\ ContentType(t.type) = x /\ t.of = c.dir[n + 1].name
    <2>1. n + 1 \in 1 .. n + 1
      OBVIOUS
    <2> QED BY <2>1 DEF Made, Rendition
  <1> HIDE DEF M, l
  <1>4. ASSUME NEW k \in 1 .. l
        PROVE  /\ Made(c, L[k], n, {"none"}) /\ Made(c, L[k], n + 1, {"none"})
               /\ ContentType(L[k].type) = x /\ L[k].of # c.dir[n + 1].name
    <2>1. Made(c, L[k], n, {"none"}) /\ ContentType(L[k].type) = x
      BY <1>2 DEF ListOf
    <2>2. Made(c, L[k], n + 1, {"none"})
      BY <2>1, MadeMore
    <2>3. PICK i \in 1 .. n : c.dir[i].mp4 /\ L[k].of = c.dir[i].name
      BY <2>1, Zenon DEF Made, Rendition, Usable
    <2>4. i \in DOMAIN c.dir /\ i # n + 1
      BY <1>1, <2>3
    <2>5. c.dir[n + 1].mp4
      BY DEF Usable
    <2>6. c.dir[i].name # c.dir[n + 1].name
      BY <2>3, <2>4, <2>5, NamesUnique
    <2> QED BY <2>1, <2>2, <2>3, <2>6
  <1>5. \A k \in DOMAIN M : Made(c, M[k], n + 1, {"none"}) /\ ContentType(M[k].type) = x
    <2> TAKE k \in DOMAIN M
    <2>1. CASE k \in 1 .. l
      BY <2>1, <1>2, <1>4
    <2>2. CASE k = l + 1
      BY <2>2, <1>2, <1>3
    <2> QED BY <2>1, <2>2, <1>2
  <1>6. ASSUME NEW i \in 1 .. n + 1, c.dir[i].mp4, ContentType(c.dir[i].type) = x, NEW p \in {"none"}
        PROVE  \E k \in DOMAIN M : M[k].of = c.dir[i].name /\ M[k].prot = p
    <2>1. CASE i \in 1 .. n
      <3>1. PICK k \in 1 .. l : L[k].of = c.dir[i].name /\ L[k].prot = p
        BY <1>2, <1>6, <2>1 DEF ListOf
      <3>2. k \in DOMAIN M /\ M[k] = L[k]
        BY <1>2
      <3> QED BY <3>1, <3>2
    <2>2. CASE i = n + 1
      <3>1. l + 1 \in DOMAIN M /\ M[l + 1].of = c.dir[i].name /\ M[l + 1].prot = p
        BY <2>2, <1>2, <1>3
      <3> QED BY <3>1
    <2> QED BY <2>1, <2>2
  <1>7. ASSUME NEW k \in DOMAIN M, NEW m \in DOMAIN M, M[k].of = M[m].of, M[k].prot = M[m].prot
        PROVE  k = m
    <2>1. CASE k \in 1 .. l /\ m \in 1 .. l
      <3>1. M[k] = L[k] /\ M[m] = L[m] /\ k \in DOMAIN L /\ m \in DOMAIN L
        BY <2>1, <1>2
      <3> QED BY <3>1, <1>7 DEF ListOf
    <2>2. CASE k = l + 1 /\ m \in 1 .. l
      BY <2>2, <1>2, <1>3, <1>4, <1>7
    <2>3. CASE m = l + 1 /\ k \in 1 .. l
      BY <2>3, <1>2, <1>3, <1>4, <1>7
    <2> QED BY <2>1, <2>2, <2>3, <1>2
  <1> QED BY <1>2, <1>5, <1>6, <1>7 DEF ListOf, M

\* ... or skips an entry, or adds to the other list.
LEMMA ListSkip ==
  ASSUME NEW c, NEW L, NEW x, NEW n \in Nat, NEW prots, ListOf(c, L, x, n, prots),
         ~(c.dir[n + 1].mp4 /\ ContentType(c.dir[n + 1].type) = x)
  PROVE  ListOf(c, L, x, n + 1, prots)
  <1>1. \A k \in DOMAIN L : Made(c, L[k], n + 1, prots) /\ ContentType(L[k].type) = x
    <2> TAKE k \in DOMAIN L
    <2>1. Made(c, L[k], n, prots) /\ ContentType(L[k].type) = x
      BY DEF ListOf
    <2> QED BY <2>1, MadeMore
  <1>2. ASSUME NEW i \in 1 .. n + 1, c.dir[i].mp4, ContentType(c.dir[i].type) = x, NEW p \in prots
        PROVE  \E k \in DOMAIN L : L[k].of = c.dir[i].name /\ L[k].prot = p
    <2>1. i \in 1 .. n
      BY <1>2
    <2> QED BY <1>2, <2>1 DEF ListOf
  <1> QED BY <1>1, <1>2 DEF ListOf

\* A protected copy is a rendition of the same file.
LEMMA CopyMade ==
  ASSUME NEW c, NEW t, NEW n \in Nat, NEW prots, Made(c, t, n, prots), t.prot = "none",
         NEW prot \in {"drm", "eccp"}
  PROVE  /\ Made(c, ProtectedCopy(t, prot), n, prots \cup {prot})
         /\ ProtectedCopy(t, prot).of = t.of /\ ProtectedCopy(t, prot).prot = prot
         /\ ProtectedCopy(t, prot).type = t.type /\ ProtectedCopy(t, prot) \in TrackType
  <1> DEFINE u == ProtectedCopy(t, prot)
  <1>1. PICK i \in 1 .. n : Usable(c.dir[i]) /\ Rendition(c, t, c.dir[i])
    BY DEF Made
  <1>2. t \in TrackType /\ t.name = t.of
    BY <1>1 DEF Rendition, RenditionName
  <1>3. Append(t.name, Suffix(prot)) \in Seq(Parts)
    <2>1. t.name \in Seq(Parts)
      BY <1>2 DEF TrackType
    <2>2. Suffix(prot) \in Parts
      <3>1. "_drm" \in Parts /\ "_eccp" \in Parts
        BY AssetAssumption DEF PublisherParts
      <3> QED BY <3>1, Zenon DEF Suffix
    <2> QED BY <2>1, <2>2
  <1>4. u \in TrackType
    BY <1>2, <1>3 DEF TrackType, ProtectedCopy, Prots
  <1>5. /\ u.name = Append(t.name, Suffix(prot)) /\ u.prot = prot
        /\ u.of = t.of /\ u.type = t.type /\ u.timeScale = t.timeScale /\ u.sampleDur = t.sampleDur
        /\ u.gopLen = t.gopLen /\ u.sampleBatch = t.sampleBatch /\ u.nrSamples = t.nrSamples
        /\ u.duration = t.duration /\ u.samples = t.samples /\ u.layers = t.layers
    BY <1>2 DEF TrackType, ProtectedCopy
  <1>6. u.name = RenditionName(u.of, u.prot)
    BY <1>2, <1>5 DEF RenditionName
  <1> HIDE DEF u
  <1>7. Rendition(c, u, c.dir[i])
    BY <1>1, <1>4, <1>5, <1>6 DEF Rendition
  <1> QED BY <1>1, <1>4, <1>5, <1>7 DEF Made, u

\* createProtectedTracks adds one copy of every clear track.
LEMMA ListProtect ==
  ASSUME NEW c, NEW L, NEW x, NEW n \in Nat, NEW prots, ListOf(c, L, x, n, prots),
         NEW prot \in {"drm", "eccp"}, prot \notin prots, "none" \in prots
  PROVE  ListOf(c, CreateProtectedTracks(L, prot), x, n, prots \cup {prot})
  <1>0. \A t : Made(c, t, n, prots) /\ t.prot = "none" =>
          /\ Made(c, ProtectedCopy(t, prot), n, prots \cup {prot})
          /\ ProtectedCopy(t, prot).of = t.of /\ ProtectedCopy(t, prot).prot = prot
          /\ ProtectedCopy(t, prot).type = t.type /\ ProtectedCopy(t, prot) \in TrackType
    BY CopyMade
  <1> DEFINE I == {i \in DOMAIN L : L[i].prot = "none"}  P == Picked(L, I)
             Q == [i \in DOMAIN P |-> ProtectedCopy(P[i], prot)]
             l == Len(L)  m == Len(P)  M == L \o Q  all == prots \cup {prot}
  <1>1. L \in Seq(TrackType) /\ l \in Nat /\ DOMAIN L = 1 .. l
    BY DEF ListOf
  <1>2. P \in Seq(TrackType) /\ m \in Nat /\ DOMAIN P = 1 .. m
    <2> HIDE DEF I
    <2>1. P \in Seq(TrackType)
      BY <1>1, PickedPlaces
    <2> QED BY <2>1
  <1>3. PICK b : /\ \A k \in 1 .. m : b[k] \in 1 .. l /\ b[k] \in I /\ P[k] = L[b[k]]
                 /\ \A j, k \in 1 .. m : b[j] = b[k] => j = k
                 /\ \A i \in 1 .. l : i \in I => \E k \in 1 .. m : b[k] = i
    <2> HIDE DEF I
    <2>1. PICK b : Picks(P, L, I, b)
      BY <1>1, PickedPlaces
    <2> HIDE DEF P
    <2> QED BY <2>1, Zenon DEF Picks
  <1>4. CreateProtectedTracks(L, prot) = M
    BY Zenon DEF CreateProtectedTracks, Clear
  <1> HIDE DEF P
  <1>5. \A i \in I : i \in 1 .. l /\ L[i].prot = "none"
    BY <1>1
  <1>6. \A k \in 1 .. l : Made(c, L[k], n, prots) /\ ContentType(L[k].type) = x
    BY <1>1 DEF ListOf
  <1> HIDE DEF I
  <1>7. ASSUME NEW k \in 1 .. m
        PROVE  /\ b[k] \in 1 .. l /\ L[b[k]].prot = "none"
               /\ Q[k] = ProtectedCopy(L[b[k]], prot) /\ Q[k] \in TrackType
               /\ Made(c, Q[k], n, all) /\ ContentType(Q[k].type) = x
               /\ Q[k].of = L[b[k]].of /\ Q[k].prot = prot
    <2>1. b[k] \in 1 .. l /\ L[b[k]].prot = "none" /\ Q[k] = ProtectedCopy(L[b[k]], prot)
      BY <1>2, <1>3, <1>5
    <2>2. Made(c, L[b[k]], n, prots) /\ ContentType(L[b[k]].type) = x
      BY <1>6, <2>1
    <2>3. /\ Made(c, ProtectedCopy(L[b[k]], prot), n, all)
          /\ ProtectedCopy(L[b[k]], prot).of = L[b[k]].of /\ ProtectedCopy(L[b[k]], prot).prot = prot
          /\ ProtectedCopy(L[b[k]], prot).type = L[b[k]].type
          /\ ProtectedCopy(L[b[k]], prot) \in TrackType
      BY <2>1, <2>2, <1>0
    <2> QED BY <2>1, <2>2, <2>3, Zenon
  <1>8. Q \in Seq(TrackType) /\ Len(Q) = m
    <2>1. Q \in [1 .. m -> TrackType]
      BY <1>2, <1>7
    <2> HIDE DEF Q
    <2> QED BY <1>2, <2>1
  <1> HIDE DEF Q
  <1>9. /\ M \in Seq(TrackType) /\ DOMAIN M = 1 .. l + m
        /\ \A k \in 1 .. l : M[k] = L[k]
        /\ \A k \in 1 .. m : M[l + k] = Q[k]
    BY <1>1, <1>2, <1>8
  <1>10. \A k \in 1 .. l + m : k \in 1 .. l \/ \E j \in 1 .. m : k = l + j
    <2> TAKE k \in 1 .. l + m
    <2>1. k \in 1 .. l \/ (k - l \in 1 .. m /\ k = l + (k - l))
      BY <1>1, <1>2
    <2> QED BY <2>1
  <1>11. \A k \in 1 .. m : l + k \in 1 .. l + m
    BY <1>1, <1>2
  <1>12. \A k \in 1 .. l : k \in 1 .. l + m
    BY <1>1, <1>2
  <1> HIDE DEF M, l, m
  <1>13. \A k \in DOMAIN M : Made(c, M[k], n, all) /\ ContentType(M[k].type) = x
    <2> TAKE k \in DOMAIN M
    <2>1. CASE k \in 1 .. l
      <3>1. Made(c, L[k], n, all)
        BY <2>1, <1>6, MadeMore
      <3> QED BY <2>1, <3>1, <1>6, <1>9
    <2>2. CASE \E j \in 1 .. m : k = l + j
      <3>1. PICK j \in 1 .. m : k = l + j
        BY <2>2
      <3>2. M[k] = Q[j]
        BY <3>1, <1>9
      <3> QED BY <3>2, <1>7
    <2> QED BY <2>1, <2>2, <1>9, <1>10
  <1>14. ASSUME NEW i \in 1 .. n, c.dir[i].mp4, ContentType(c.dir[i].type) = x, NEW p \in all
         PROVE  \E k \in DOMAIN M : M[k].of = c.dir[i].name /\ M[k].prot = p
    <2>1. CASE p \in prots
      <3>1. PICK k \in 1 .. l : L[k].of = c.dir[i].name /\ L[k].prot = p
        <4>1. \E k \in DOMAIN L : L[k].of = c.dir[i].name /\ L[k].prot = p
          BY <1>14, <2>1, Zenon DEF ListOf
        <4> QED BY <1>1, <4>1, Zenon
      <3> QED BY <3>1, <1>9, <1>12
    <2>2. CASE p = prot
      <3>1. PICK k \in 1 .. l : L[k].of = c.dir[i].name /\ L[k].prot = "none"
        <4>1. \E k \in DOMAIN L : L[k].of = c.dir[i].name /\ L[k].prot = "none"
          BY <1>14, Zenon DEF ListOf
        <4> QED BY <1>1, <4>1, Zenon
      <3>2. k \in I
        BY <1>1, <3>1 DEF I
      <3>3. PICK j \in 1 .. m : b[j] = k
        BY <1>3, <3>2
      <3>4. l + j \in DOMAIN M /\ M[l + j] = Q[j] /\ Q[j].of = L[k].of /\ Q[j].prot = prot
        BY <1>7, <1>9, <1>11, <3>3
      <3> QED BY <2>2, <3>1, <3>4
    <2> QED BY <2>1, <2>2
  <1>15. ASSUME NEW j \in DOMAIN M, NEW k \in DOMAIN M, M[j].of = M[k].of, M[j].prot = M[k].prot
         PROVE  j = k
    <2>1. \A i \in 1 .. l : L[i].prot # prot
      BY <1>6 DEF Made
    <2>2. CASE j \in 1 .. l /\ k \in 1 .. l
      BY <2>2, <1>1, <1>9, <1>15 DEF ListOf
    <2>3. CASE j \in 1 .. l /\ \E i \in 1 .. m : k = l + i
      BY <2>1, <2>3, <1>7, <1>9, <1>15
    <2>4. CASE k \in 1 .. l /\ \E i \in 1 .. m : j = l + i
      BY <2>1, <2>4, <1>7, <1>9, <1>15
    <2>5. CASE (\E i \in 1 .. m : j = l + i) /\ (\E i \in 1 .. m : k = l + i)
      <3>1. PICK i \in 1 .. m : j = l + i
        BY <2>5
      <3>2. PICK h \in 1 .. m : k = l + h
        BY <2>5
      <3>3. L[b[i]].of = L[b[h]].of /\ L[b[i]].prot = L[b[h]].prot
        BY <3>1, <3>2, <1>7, <1>9, <1>15
      <3>4. b[i] = b[h]
        <4>1. b[i] \in DOMAIN L /\ b[h] \in DOMAIN L
          BY <1>1, <1>7
        <4> QED BY <3>3, <4>1 DEF ListOf
      <3> QED BY <3>1, <3>2, <3>4, <1>3
    <2> QED BY <2>2, <2>3, <2>4, <2>5, <1>9, <1>10
  <1>16. ListOf(c, M, x, n, all)
    BY <1>9, <1>13, <1>14, <1>15 DEF ListOf
  <1> QED BY <1>4, <1>16

\* Sorting permutes a list.
Permutes(p, v, L) ==
  /\ \A k \in DOMAIN L : p[k] \in DOMAIN L /\ v[k] = L[p[k]]
  /\ \A j, k \in DOMAIN L : p[j] = p[k] => j = k
  /\ \A i \in DOMAIN L : \E k \in DOMAIN L : p[k] = i

LEMMA SortedPlaces ==
  ASSUME NEW T, NEW L \in Seq(T), NEW v \in Sorted(L)
  PROVE  v \in Seq(T) /\ DOMAIN v = DOMAIN L /\ \E p : Permutes(p, v, L)
  <1> DEFINE D == DOMAIN L
  <1>1. D = 1 .. Len(L) /\ Len(L) \in Nat
    OBVIOUS
  <1>2. PICK p \in SetToSeqs(D) : v = [i \in D |-> L[p[i]]]
    BY DEF Sorted
  <1>3. IsFiniteSet(D) /\ Cardinality(D) = Len(L)
    <2>1. 1 \in Int /\ Len(L) \in Int
      BY <1>1
    <2>2. IsFiniteSet(1 .. Len(L)) /\ Cardinality(1 .. Len(L)) = Len(L)
      BY <1>1, <2>1, FS_Interval, SMTT(40)
    <2> QED BY <1>1, <2>2
  <1>4. /\ p \in Seq(D) /\ ToSet(p) = D /\ DOMAIN p = 1 .. Len(p) /\ Len(p) = Cardinality(D)
        /\ \A i, j \in DOMAIN p : p[i] = p[j] => i = j
    BY <1>2, <1>3, SeqsOfSet
  <1>5. DOMAIN p = D
    BY <1>1, <1>3, <1>4
  <1>6. \A k \in D : p[k] \in D /\ v[k] = L[p[k]]
    <2> TAKE k \in D
    <2>1. p[k] \in D
      BY <1>4, <1>5
    <2> QED BY <1>2, <2>1
  <1>7. \A i \in D : \E k \in D : p[k] = i
    BY <1>4, <1>5 DEF ToSet
  <1>8. v \in Seq(T) /\ DOMAIN v = D
    <2>1. \A k \in D : v[k] \in T
      BY <1>6
    <2>2. v \in [1 .. Len(L) -> T]
      BY <1>1, <1>2, <2>1
    <2> QED BY <1>1, <2>2
  <1>9. Permutes(p, v, L)
    BY <1>4, <1>5, <1>6, <1>7 DEF Permutes
  <1> QED BY <1>8, <1>9

LEMMA ListSorted ==
  ASSUME NEW c, NEW L, NEW x, NEW n, NEW prots, ListOf(c, L, x, n, prots), NEW v \in Sorted(L)
  PROVE  ListOf(c, v, x, n, prots)
  <1>1. L \in Seq(TrackType)
    BY DEF ListOf
  <1>2. v \in Seq(TrackType) /\ DOMAIN v = DOMAIN L
    BY <1>1, SortedPlaces
  <1>3. PICK p : /\ \A k \in DOMAIN L : p[k] \in DOMAIN L /\ v[k] = L[p[k]]
                 /\ \A j, k \in DOMAIN L : p[j] = p[k] => j = k
                 /\ \A i \in DOMAIN L : \E k \in DOMAIN L : p[k] = i
    <2>1. PICK p : Permutes(p, v, L)
      BY <1>1, SortedPlaces
    <2> QED BY <2>1, Zenon DEF Permutes
  <1>4. \A k \in DOMAIN v : Made(c, v[k], n, prots) /\ ContentType(v[k].type) = x
    <2> TAKE k \in DOMAIN v
    <2>1. p[k] \in DOMAIN L /\ v[k] = L[p[k]]
      BY <1>2, <1>3
    <2> QED BY <2>1 DEF ListOf
  <1>5. ASSUME NEW i \in 1 .. n, c.dir[i].mp4, ContentType(c.dir[i].type) = x, NEW q \in prots
        PROVE  \E k \in DOMAIN v : v[k].of = c.dir[i].name /\ v[k].prot = q
    <2>1. PICK j \in DOMAIN L : L[j].of = c.dir[i].name /\ L[j].prot = q
      BY <1>5, Zenon DEF ListOf
    <2>2. PICK k \in DOMAIN L : p[k] = j
      BY <1>3
    <2>3. k \in DOMAIN v /\ v[k] = L[j]
      BY <1>2, <1>3, <2>2
    <2> QED BY <2>1, <2>3
  <1>6. ASSUME NEW j \in DOMAIN v, NEW k \in DOMAIN v, v[j].of = v[k].of, v[j].prot = v[k].prot
        PROVE  j = k
    <2>1. p[j] \in DOMAIN L /\ p[k] \in DOMAIN L /\ v[j] = L[p[j]] /\ v[k] = L[p[k]]
      BY <1>2, <1>3
    <2>2. p[j] = p[k]
      BY <1>6, <2>1 DEF ListOf
    <2> QED BY <1>2, <1>3, <2>2
  <1> QED BY <1>2, <1>4, <1>5, <1>6 DEF ListOf

\* The list of a type is empty when the directory has no file of it.
LEMMA ListEmpty ==
  ASSUME NEW c \in Configs, NEW L, NEW x, NEW prots, "none" \in prots, ListOf(c, L, x, Len(c.dir), prots)
  PROVE  L # <<>> <=> Has(c, x)
  <1>0. DOMAIN c.dir = 1 .. Len(c.dir) /\ L \in Seq(TrackType)
    <2>1. c \in ConfigType
      BY AssetAssumption DEF IsConfig
    <2>2. c.dir \in Seq(FileType)
      BY <2>1 DEF ConfigType
    <2> QED BY <2>2 DEF ListOf
  <1>1. ASSUME Has(c, x) PROVE L # <<>>
    <2>1. PICK i \in 1 .. Len(c.dir) : c.dir[i].mp4 /\ ContentType(c.dir[i].type) = x
      BY <1>0, <1>1, Zenon DEF Has
    <2>2. \E k \in DOMAIN L : L[k].of = c.dir[i].name /\ L[k].prot = "none"
      BY <2>1, Zenon DEF ListOf
    <2> QED BY <2>2
  <1>2. ASSUME L # <<>> PROVE Has(c, x)
    <2>1. 1 \in DOMAIN L
      BY <1>0, <1>2
    <2>2. Made(c, L[1], Len(c.dir), prots) /\ ContentType(L[1].type) = x
      BY <2>1 DEF ListOf
    <2>3. PICK i \in 1 .. Len(c.dir) : c.dir[i].mp4 /\ L[1].type = c.dir[i].type
      BY <2>2, Zenon DEF Made, Rendition, Usable
    <2>4. i \in DOMAIN c.dir /\ ContentType(c.dir[i].type) = x
      BY <1>0, <2>2, <2>3
    <2> QED BY <2>3, <2>4 DEF Has
  <1> QED BY <1>1, <1>2

\* Tracks of one file have the same type.
LEMMA SameFile ==
  ASSUME NEW c \in Configs, NEW t, NEW u, NEW prots, Made(c, t, Len(c.dir), prots),
         Made(c, u, Len(c.dir), prots), t.of = u.of
  PROVE  t.type = u.type
  <1>0. DOMAIN c.dir = 1 .. Len(c.dir)
    <2>1. c \in ConfigType
      BY AssetAssumption DEF IsConfig
    <2>2. c.dir \in Seq(FileType)
      BY <2>1 DEF ConfigType
    <2> QED BY <2>2
  <1>1. PICK i \in DOMAIN c.dir : c.dir[i].mp4 /\ t.of = c.dir[i].name /\ t.type = c.dir[i].type
    BY <1>0, Zenon DEF Made, Rendition, Usable
  <1>2. PICK j \in DOMAIN c.dir : c.dir[j].mp4 /\ u.of = c.dir[j].name /\ u.type = c.dir[j].type
    BY <1>0, Zenon DEF Made, Rendition, Usable
  <1>3. i = j
    BY <1>1, <1>2, NamesUnique
  <1> QED BY <1>1, <1>2, <1>3

\* generateTrackGroups: the lists that are not empty, video first.
LEMMA GroupsOfLists ==
  ASSUME NEW c \in Configs, NEW v, NEW a, NEW prots, "none" \in prots,
         ListOf(c, v, "video", Len(c.dir), prots), ListOf(c, a, "audio", Len(c.dir), prots)
  PROVE  Grouped(c, NonEmpty(v) \o NonEmpty(a), prots)
  <1> DEFINE gs == NonEmpty(v) \o NonEmpty(a)
  <1>0. v \in Seq(TrackType) /\ a \in Seq(TrackType)
    BY DEF ListOf
  <1>1. (v # <<>> <=> Has(c, "video")) /\ (a # <<>> <=> Has(c, "audio"))
    BY ListEmpty
  <1>2. /\ gs \in Seq(Seq(TrackType))
        /\ \A g \in DOMAIN gs : /\ gs[g] # <<>>
                                /\ \/ gs[g] = v /\ KindOf(c, g) = "video"
                                   \/ gs[g] = a /\ KindOf(c, g) = "audio"
        /\ v # <<>> => \E g \in DOMAIN gs : gs[g] = v
        /\ a # <<>> => \E g \in DOMAIN gs : gs[g] = a
        /\ \A g, h \in DOMAIN gs : KindOf(c, g) = KindOf(c, h) => g = h
    <2>1. CASE v = <<>> /\ a = <<>>
      <3>1. gs = <<>>
        BY <2>1 DEF NonEmpty
      <3>2. gs \in Seq(Seq(TrackType)) /\ DOMAIN gs = {}
        BY <3>1
      <3> HIDE DEF gs
      <3> QED BY <2>1, <3>2
    <2>2. CASE v # <<>> /\ a = <<>>
      <3>1. gs = <<v>>
        BY <2>2, <1>0 DEF NonEmpty
      <3>2. gs \in Seq(Seq(TrackType)) /\ DOMAIN gs = {1} /\ gs[1] = v
        BY <3>1, <1>0
      <3> HIDE DEF gs
      <3> QED BY <2>2, <3>2, <1>1 DEF KindOf
    <2>3. CASE v = <<>> /\ a # <<>>
      <3>1. gs = <<a>>
        BY <2>3, <1>0 DEF NonEmpty
      <3>2. gs \in Seq(Seq(TrackType)) /\ DOMAIN gs = {1} /\ gs[1] = a
        BY <3>1, <1>0
      <3> HIDE DEF gs
      <3> QED BY <2>3, <3>2, <1>1 DEF KindOf
    <2>4. CASE v # <<>> /\ a # <<>>
      <3>1. gs = <<v>> \o <<a>>
        BY <2>4 DEF NonEmpty
      <3>2. gs \in Seq(Seq(TrackType)) /\ DOMAIN gs = {1, 2} /\ gs[1] = v /\ gs[2] = a
        BY <3>1, <1>0
      <3> HIDE DEF gs
      <3> QED BY <2>4, <3>2, <1>1 DEF KindOf
    <2> QED BY <2>1, <2>2, <2>3, <2>4
  <1> HIDE DEF gs
  <1>3. ASSUME NEW g \in DOMAIN gs
        PROVE  ListOf(c, gs[g], KindOf(c, g), Len(c.dir), prots)
    BY <1>2
  <1>4. ASSUME NEW g \in DOMAIN gs, NEW k \in DOMAIN gs[g]
        PROVE  Made(c, gs[g][k], Len(c.dir), prots) /\ ContentType(gs[g][k].type) = KindOf(c, g)
    BY <1>3, Zenon DEF ListOf
  <1>5. ASSUME NEW i \in DOMAIN c.dir, c.dir[i].mp4, NEW p \in prots
        PROVE  \E g \in DOMAIN gs : \E k \in DOMAIN gs[g] :
                 gs[g][k].of = c.dir[i].name /\ gs[g][k].prot = p
    <2> DEFINE x == ContentType(c.dir[i].type)
    <2>1. x \in {"video", "audio"} /\ i \in 1 .. Len(c.dir)
      BY FileFacts DEF ContentType
    <2>2. Has(c, x)
      BY <1>5, Zenon DEF Has
    <2>0. ASSUME NEW y, NEW L, ListOf(c, L, y, Len(c.dir), prots), x = y
          PROVE  \E k \in DOMAIN L : L[k].of = c.dir[i].name /\ L[k].prot = p
      <3>1. \A h \in 1 .. Len(c.dir) : c.dir[h].mp4 /\ ContentType(c.dir[h].type) = y =>
              \A q \in prots : \E k \in DOMAIN L : L[k].of = c.dir[h].name /\ L[k].prot = q
        BY <2>0, Zenon DEF ListOf
      <3>2. c.dir[i].mp4 /\ ContentType(c.dir[i].type) = y /\ i \in 1 .. Len(c.dir) /\ p \in prots
        BY <1>5, <2>0, <2>1
      <3> QED BY <3>1, <3>2, Zenon
    <2> HIDE DEF x
    <2>3. CASE x = "video"
      <3>1. PICK g \in DOMAIN gs : gs[g] = v
        BY <1>1, <1>2, <2>2, <2>3
      <3>2. \E k \in DOMAIN v : v[k].of = c.dir[i].name /\ v[k].prot = p
        BY <2>0, <2>3, Zenon
      <3> QED BY <3>1, <3>2
    <2>4. CASE x = "audio"
      <3>1. PICK g \in DOMAIN gs : gs[g] = a
        BY <1>1, <1>2, <2>2, <2>4
      <3>2. \E k \in DOMAIN a : a[k].of = c.dir[i].name /\ a[k].prot = p
        BY <2>0, <2>4, Zenon
      <3> QED BY <3>1, <3>2
    <2> QED BY <2>1, <2>3, <2>4
  <1>6. ASSUME NEW g \in DOMAIN gs, NEW h \in DOMAIN gs, NEW k \in DOMAIN gs[g], NEW l \in DOMAIN gs[h],
               gs[g][k].of = gs[h][l].of, gs[g][k].prot = gs[h][l].prot
        PROVE  g = h /\ k = l
    <2>1. gs[g][k].type = gs[h][l].type
      BY <1>4, <1>6, SameFile
    <2>2. KindOf(c, g) = KindOf(c, h)
      BY <1>4, <2>1
    <2>3. g = h
      BY <1>2, <2>2
    <2>4. k \in DOMAIN gs[g] /\ l \in DOMAIN gs[g] /\ gs[g][k].of = gs[g][l].of /\ gs[g][k].prot = gs[g][l].prot
      BY <1>6, <2>3
    <2>5. k = l
      BY <1>3, <2>4, Zenon DEF ListOf
    <2> QED BY <2>3, <2>5
  <1>7. Grouped(c, gs, prots)
    <2>1. gs \in Seq(Seq(TrackType)) /\ \A g \in DOMAIN gs : gs[g] # <<>>
      BY <1>2
    <2>2. \A g \in DOMAIN gs : \A k \in DOMAIN gs[g] :
            Made(c, gs[g][k], Len(c.dir), prots) /\ ContentType(gs[g][k].type) = KindOf(c, g)
      BY <1>4
    <2>3. \A i \in DOMAIN c.dir : c.dir[i].mp4 =>
            \A p \in prots : \E g \in DOMAIN gs : \E k \in DOMAIN gs[g] :
              gs[g][k].of = c.dir[i].name /\ gs[g][k].prot = p
      BY <1>5
    <2>4. \A g, h \in DOMAIN gs : \A k \in DOMAIN gs[g] : \A l \in DOMAIN gs[h] :
            gs[g][k].of = gs[h][l].of /\ gs[g][k].prot = gs[h][l].prot => g = h /\ k = l
      BY <1>6
    <2> QED BY <2>1, <2>2, <2>3, <2>4, Zenon DEF Grouped
  <1> QED BY <1>7 DEF gs

\* setLoopDuration and SetCC608Generator set other fields than the ones a rendition
\* is known by.
Alike(t, u) ==
  /\ t.name = u.name /\ t.of = u.of /\ t.type = u.type /\ t.prot = u.prot
  /\ t.timeScale = u.timeScale /\ t.sampleDur = u.sampleDur /\ t.gopLen = u.gopLen
  /\ t.sampleBatch = u.sampleBatch /\ t.nrSamples = u.nrSamples /\ t.duration = u.duration
  /\ t.samples = u.samples /\ t.layers = u.layers

LEMMA AlikeMade ==
  ASSUME NEW c, NEW t \in TrackType, NEW u, NEW n, NEW prots, Made(c, u, n, prots), Alike(t, u)
  PROVE  Made(c, t, n, prots)
  <1>1. PICK i \in 1 .. n : Usable(c.dir[i]) /\ Rendition(c, u, c.dir[i])
    BY DEF Made
  <1>2. Rendition(c, t, c.dir[i])
    BY <1>1 DEF Rendition, Alike
  <1> QED BY <1>1, <1>2 DEF Made, Alike

LEMMA Retouch ==
  ASSUME NEW c, NEW gs, NEW prots, Grouped(c, gs, prots), NEW hs, DOMAIN hs = DOMAIN gs,
         \A g \in DOMAIN gs : DOMAIN hs[g] = DOMAIN gs[g],
         \A g \in DOMAIN gs : \A k \in DOMAIN gs[g] : hs[g][k] \in TrackType /\ Alike(hs[g][k], gs[g][k]),
         hs \in Seq(Seq(TrackType))
  PROVE  Grouped(c, hs, prots)
  <1>0. \A g, h \in DOMAIN gs : \A k \in DOMAIN gs[g] : \A l \in DOMAIN gs[h] :
          gs[g][k].of = gs[h][l].of /\ gs[g][k].prot = gs[h][l].prot => g = h /\ k = l
    BY Zenon DEF Grouped
  <1>1. \A g \in DOMAIN gs : gs[g] # <<>> /\ gs[g] \in Seq(TrackType) /\ hs[g] \in Seq(TrackType)
    BY DEF Grouped
  <1>2. \A g \in DOMAIN hs : hs[g] # <<>>
    <2> TAKE g \in DOMAIN hs
    <2>1. gs[g] # <<>> /\ gs[g] \in Seq(TrackType) /\ hs[g] \in Seq(TrackType) /\ DOMAIN hs[g] = DOMAIN gs[g]
      BY <1>1
    <2> QED BY <2>1
  <1>3. \A g \in DOMAIN hs : \A k \in DOMAIN hs[g] :
          Made(c, hs[g][k], Len(c.dir), prots) /\ ContentType(hs[g][k].type) = KindOf(c, g)
    <2> TAKE g \in DOMAIN hs
    <2> TAKE k \in DOMAIN hs[g]
    <2>1. g \in DOMAIN gs /\ k \in DOMAIN gs[g]
      OBVIOUS
    <2>2. Made(c, gs[g][k], Len(c.dir), prots) /\ ContentType(gs[g][k].type) = KindOf(c, g)
      BY <2>1, Zenon DEF Grouped
    <2>3. hs[g][k] \in TrackType /\ Alike(hs[g][k], gs[g][k])
      BY <2>1
    <2>4. hs[g][k].type = gs[g][k].type
      BY <2>3 DEF Alike
    <2>5. Made(c, hs[g][k], Len(c.dir), prots)
      BY <2>2, <2>3, AlikeMade
    <2> QED BY <2>2, <2>4, <2>5, Zenon
  <1>4. ASSUME NEW i \in DOMAIN c.dir, c.dir[i].mp4, NEW p \in prots
        PROVE  \E g \in DOMAIN hs : \E k \in DOMAIN hs[g] : hs[g][k].of = c.dir[i].name /\ hs[g][k].prot = p
    <2>1. PICK g \in DOMAIN gs : \E k \in DOMAIN gs[g] : gs[g][k].of = c.dir[i].name /\ gs[g][k].prot = p
      BY <1>4, Zenon DEF Grouped
    <2>2. PICK k \in DOMAIN gs[g] : gs[g][k].of = c.dir[i].name /\ gs[g][k].prot = p
      BY <2>1
    <2>3. hs[g][k].of = gs[g][k].of /\ hs[g][k].prot = gs[g][k].prot
      BY DEF Alike
    <2> QED BY <2>2, <2>3
  <1>5. ASSUME NEW g \in DOMAIN hs, NEW h \in DOMAIN hs, NEW k \in DOMAIN hs[g], NEW l \in DOMAIN hs[h],
               hs[g][k].of = hs[h][l].of, hs[g][k].prot = hs[h][l].prot
        PROVE  g = h /\ k = l
    <2>1. g \in DOMAIN gs /\ h \in DOMAIN gs /\ k \in DOMAIN gs[g] /\ l \in DOMAIN gs[h]
      OBVIOUS
    <2>2. gs[g][k].of = gs[h][l].of /\ gs[g][k].prot = gs[h][l].prot
      BY <1>5, <2>1 DEF Alike
    <2> QED BY <2>1, <2>2, <1>0
  <1>6. \A i \in DOMAIN c.dir : c.dir[i].mp4 =>
          \A p \in prots : \E g \in DOMAIN hs : \E k \in DOMAIN hs[g] :
            hs[g][k].of = c.dir[i].name /\ hs[g][k].prot = p
    BY <1>4
  <1>7. \A g, h \in DOMAIN hs : \A k \in DOMAIN hs[g] : \A l \in DOMAIN hs[h] :
          hs[g][k].of = hs[h][l].of /\ hs[g][k].prot = hs[h][l].prot => g = h /\ k = l
    BY <1>5
  <1> QED BY <1>2, <1>3, <1>6, <1>7, Zenon DEF Grouped

LEMMA LoopDurType ==
  ASSUME NEW t \in TrackType, NEW g, NEW loop \in Nat
  PROVE  LoopDur(t, g, loop) \in Nat
  <1>1. t.duration \in Nat /\ t.timeScale \in Nat
    BY DEF TrackType
  <1>2. loop * t.timeScale \in Nat
    BY <1>1
  <1>3. Wrap(loop * t.timeScale) \in Nat
    BY <1>2, AssetAssumption DEF Wrap
  <1>4. Wrap(loop * t.timeScale) \div MsPerSecond \in Nat
    BY <1>3, UnitAssumption, DivSpec
  <1> QED BY <1>1, <1>4 DEF LoopDur

LEMMA LoopMSType ==
  ASSUME NEW c, NEW gs, NEW prots, Grouped(c, gs, prots), gs # <<>>
  PROVE  /\ 1 \in DOMAIN gs /\ 1 \in DOMAIN gs[1] /\ gs[1][1] \in TrackType /\ LoopMS(gs) \in Nat
  <1>1. gs \in Seq(Seq(TrackType)) /\ \A g \in DOMAIN gs : gs[g] # <<>>
    BY DEF Grouped
  <1>2. 1 \in DOMAIN gs
    BY <1>1
  <1>3. gs[1] \in Seq(TrackType) /\ gs[1] # <<>>
    BY <1>1, <1>2
  <1>4. 1 \in DOMAIN gs[1]
    BY <1>3
  <1>5. gs[1][1] \in TrackType
    BY <1>3, <1>4
  <1>6. gs[1][1].duration \in Nat /\ gs[1][1].timeScale \in Nat \ {0}
    BY <1>5 DEF TrackType
  <1>7. gs[1][1].duration * MsPerSecond \in Nat
    BY <1>6, UnitAssumption
  <1>8. Wrap(gs[1][1].duration * MsPerSecond) \in Nat
    BY <1>7, AssetAssumption DEF Wrap
  <1>9. LoopMS(gs) \in Nat
    BY <1>6, <1>8, DivSpec DEF LoopMS
  <1> QED BY <1>2, <1>4, <1>5, <1>9

\* Setting a field of every track of every group.
Indexed(f, D) == f = [k \in D |-> f[k]]
LEMMA IndexedSeq ==
  ASSUME NEW T, NEW n \in Nat, NEW f, Indexed(f, 1 .. n), \A k \in 1 .. n : f[k] \in T
  PROVE  f \in Seq(T)
  <1>1. f \in [1 .. n -> T]
    BY Zenon DEF Indexed
  <1>2. \A r \in [1 .. n -> T] : r \in Seq(T)
    OBVIOUS
  <1> QED BY <1>1, <1>2, Zenon

LEMMA GroupsShape ==
  ASSUME NEW gs \in Seq(Seq(TrackType)), NEW hs, Indexed(hs, DOMAIN gs),
         \A g \in DOMAIN gs : Indexed(hs[g], DOMAIN gs[g]),
         \A g \in DOMAIN gs : \A k \in DOMAIN gs[g] : hs[g][k] \in TrackType
  PROVE  hs \in Seq(Seq(TrackType))
  <1>1. ASSUME NEW g \in DOMAIN gs PROVE hs[g] \in Seq(TrackType)
    <2>1. gs[g] \in Seq(TrackType)
      OBVIOUS
    <2>2. DOMAIN gs[g] = 1 .. Len(gs[g]) /\ Len(gs[g]) \in Nat
      BY <2>1
    <2> QED BY <2>2, IndexedSeq
  <1>2. DOMAIN gs = 1 .. Len(gs) /\ Len(gs) \in Nat
    OBVIOUS
  <1> QED BY <1>1, <1>2, IndexedSeq

LEMMA WithLoopDur ==
  ASSUME NEW t \in TrackType, NEW d \in Nat
  PROVE  LET u == [t EXCEPT !.loopDur = d]
         IN  u \in TrackType /\ Alike(u, t) /\ u.loopDur = d
  BY DEF TrackType, Alike

LEMMA WithCaptions ==
  ASSUME NEW t \in TrackType, NEW b \in BOOLEAN
  PROVE  LET u == [t EXCEPT !.cc608 = b]
         IN  u \in TrackType /\ Alike(u, t) /\ u.cc608 = b /\ u.loopDur = t.loopDur
  <1> DEFINE u == [t EXCEPT !.cc608 = b]
  <1>1. u \in TrackType
    BY Zenon DEF TrackType
  <1>2. u.cc608 = b
    BY Zenon DEF TrackType
  <1>3. Alike(u, t) /\ u.loopDur = t.loopDur
    BY DEF TrackType, Alike
  <1> QED BY <1>1, <1>2, <1>3

\* setLoopDuration.
LEMMA SameLoop ==
  ASSUME NEW c, NEW gs, NEW prots, Grouped(c, gs, prots), gs # <<>>, NEW hs \in Seq(Seq(TrackType)),
         DOMAIN hs = DOMAIN gs, \A g \in DOMAIN gs : \A k \in DOMAIN gs[g] : Alike(hs[g][k], gs[g][k])
  PROVE  hs # <<>> /\ LoopMS(hs) = LoopMS(gs)
  <1>1. 1 \in DOMAIN gs /\ 1 \in DOMAIN gs[1]
    BY LoopMSType
  <1>2. hs[1][1].duration = gs[1][1].duration /\ hs[1][1].timeScale = gs[1][1].timeScale
    BY <1>1, Zenon DEF Alike
  <1>3. LoopMS(hs) = LoopMS(gs)
    BY <1>2, Zenon DEF LoopMS
  <1>4. hs # <<>>
    BY <1>1
  <1> QED BY <1>3, <1>4

LEMMA LoopedGroups ==
  ASSUME NEW c, NEW gs, NEW prots, Grouped(c, gs, prots), NEW loop \in Nat,
         gs # <<>>, loop = LoopMS(gs),
         \A g \in DOMAIN gs : \A k \in DOMAIN gs[g] : FitsLoop(gs[g][k], g, loop), NEW hs,
         hs = [g \in DOMAIN gs |-> [k \in DOMAIN gs[g] |->
                 [gs[g][k] EXCEPT !.loopDur = LoopDur(gs[g][k], g, loop)]]]
  PROVE  Grouped(c, hs, prots) /\ Looped(hs, loop)
  <1>1. gs \in Seq(Seq(TrackType))
    BY DEF Grouped
  <1>2. ASSUME NEW g \in DOMAIN gs, NEW k \in DOMAIN gs[g]
        PROVE  /\ hs[g][k] \in TrackType /\ Alike(hs[g][k], gs[g][k])
               /\ hs[g][k].loopDur = LoopDur(gs[g][k], g, loop)
    <2> DEFINE t == gs[g][k]  d == LoopDur(t, g, loop)
    <2>1. t \in TrackType
      BY <1>1
    <2>2. hs[g][k] = [t EXCEPT !.loopDur = d]
      OBVIOUS
    <2> HIDE DEF t
    <2>3. d \in Nat
      BY <2>1, LoopDurType
    <2> HIDE DEF d
    <2>4. LET u == [t EXCEPT !.loopDur = d] IN u \in TrackType /\ Alike(u, t) /\ u.loopDur = d
      BY <2>1, <2>3, WithLoopDur
    <2>5. hs[g][k] \in TrackType /\ Alike(hs[g][k], t) /\ hs[g][k].loopDur = d
      BY <2>2, <2>4
    <2> QED BY <2>5 DEF t, d
  <1>3. /\ DOMAIN hs = DOMAIN gs /\ Indexed(hs, DOMAIN gs)
        /\ \A g \in DOMAIN gs : DOMAIN hs[g] = DOMAIN gs[g] /\ Indexed(hs[g], DOMAIN gs[g])
    <2>1. DOMAIN hs = DOMAIN gs /\ Indexed(hs, DOMAIN gs)
      BY Zenon DEF Indexed
    <2>2. ASSUME NEW g \in DOMAIN gs
          PROVE  hs[g] = [k \in DOMAIN gs[g] |-> [gs[g][k] EXCEPT !.loopDur = LoopDur(gs[g][k], g, loop)]]
      BY Zenon
    <2>3. ASSUME NEW g \in DOMAIN gs
          PROVE  DOMAIN hs[g] = DOMAIN gs[g] /\ Indexed(hs[g], DOMAIN gs[g])
      BY <2>2, Zenon DEF Indexed
    <2> QED BY <2>1, <2>3
  <1>4. hs \in Seq(Seq(TrackType))
    BY <1>1, <1>2, <1>3, GroupsShape, Zenon
  <1>5. Grouped(c, hs, prots)
    BY <1>2, <1>3, <1>4, Retouch, Zenon
  <1>6. Looped(hs, loop)
    <2>1. ASSUME NEW g \in DOMAIN gs, NEW k \in DOMAIN gs[g]
          PROVE  FitsLoop(hs[g][k], g, loop) /\ hs[g][k].loopDur = LoopDur(hs[g][k], g, loop)
      <3>1. hs[g][k].duration = gs[g][k].duration /\ hs[g][k].timeScale = gs[g][k].timeScale
        BY <1>2 DEF Alike
      <3>2. FitsLoop(gs[g][k], g, loop) <=> FitsLoop(hs[g][k], g, loop)
        BY <3>1, Zenon DEF FitsLoop
      <3>3. LoopDur(gs[g][k], g, loop) = LoopDur(hs[g][k], g, loop)
        BY <3>1, Zenon DEF LoopDur
      <3> QED BY <1>2, <3>2, <3>3
    <2>2. hs # <<>> /\ LoopMS(hs) = LoopMS(gs)
      BY <1>2, <1>3, <1>4, SameLoop
    <2> QED BY <1>3, <2>1, <2>2 DEF Looped
  <1> QED BY <1>5, <1>6

\* SetCC608Generator.
LEMMA CaptionedGroups ==
  ASSUME NEW c, c.cc608 \in BOOLEAN, NEW gs, NEW prots, Grouped(c, gs, prots), NEW loop, Looped(gs, loop),
         NEW hs,
         hs = [g \in DOMAIN gs |-> [k \in DOMAIN gs[g] |->
                 [gs[g][k] EXCEPT !.cc608 = c.cc608 /\ ContentType(gs[g][k].type) = "video"]]]
  PROVE  Grouped(c, hs, prots) /\ Looped(hs, loop) /\ Captioned(c, hs)
  <1>1. gs \in Seq(Seq(TrackType))
    BY DEF Grouped
  <1>2. ASSUME NEW g \in DOMAIN gs, NEW k \in DOMAIN gs[g]
        PROVE  /\ hs[g][k] \in TrackType /\ Alike(hs[g][k], gs[g][k])
               /\ hs[g][k].loopDur = gs[g][k].loopDur
               /\ hs[g][k].cc608 <=> c.cc608 /\ ContentType(gs[g][k].type) = "video"
    <2> DEFINE t == gs[g][k]  b == c.cc608 /\ ContentType(t.type) = "video"
    <2>1. t \in TrackType
      BY <1>1
    <2>2. hs[g][k] = [t EXCEPT !.cc608 = b]
      BY Zenon
    <2> HIDE DEF t
    <2>3. b \in BOOLEAN
      BY Zenon
    <2> HIDE DEF b
    <2>4. LET u == [t EXCEPT !.cc608 = b]
          IN u \in TrackType /\ Alike(u, t) /\ u.cc608 = b /\ u.loopDur = t.loopDur
      BY <2>1, <2>3, WithCaptions
    <2>5. /\ hs[g][k] \in TrackType /\ Alike(hs[g][k], t) /\ hs[g][k].cc608 = b
          /\ hs[g][k].loopDur = t.loopDur
      BY <2>2, <2>4, Zenon
    <2> QED BY <2>5, Zenon DEF t, b
  <1>3. /\ DOMAIN hs = DOMAIN gs /\ Indexed(hs, DOMAIN gs)
        /\ \A g \in DOMAIN gs : DOMAIN hs[g] = DOMAIN gs[g] /\ Indexed(hs[g], DOMAIN gs[g])
    <2>1. DOMAIN hs = DOMAIN gs /\ Indexed(hs, DOMAIN gs)
      BY Zenon DEF Indexed
    <2>2. ASSUME NEW g \in DOMAIN gs
          PROVE  hs[g] = [k \in DOMAIN gs[g] |->
                            [gs[g][k] EXCEPT !.cc608 = c.cc608 /\ ContentType(gs[g][k].type) = "video"]]
      BY Zenon
    <2>3. ASSUME NEW g \in DOMAIN gs
          PROVE  DOMAIN hs[g] = DOMAIN gs[g] /\ Indexed(hs[g], DOMAIN gs[g])
      BY <2>2, Zenon DEF Indexed
    <2> QED BY <2>1, <2>3
  <1>4. hs \in Seq(Seq(TrackType))
    BY <1>1, <1>2, <1>3, GroupsShape, Zenon
  <1>5. Grouped(c, hs, prots)
    BY <1>2, <1>3, <1>4, Retouch, Zenon
  <1>6. Looped(hs, loop)
    <2>1. ASSUME NEW g \in DOMAIN gs, NEW k \in DOMAIN gs[g]
          PROVE  FitsLoop(hs[g][k], g, loop) /\ hs[g][k].loopDur = LoopDur(hs[g][k], g, loop)
      <3>0. FitsLoop(gs[g][k], g, loop) /\ gs[g][k].loopDur = LoopDur(gs[g][k], g, loop)
        BY DEF Looped
      <3>1. hs[g][k].duration = gs[g][k].duration /\ hs[g][k].timeScale = gs[g][k].timeScale
        BY <1>2 DEF Alike
      <3>2. FitsLoop(gs[g][k], g, loop) <=> FitsLoop(hs[g][k], g, loop)
        BY <3>1, Zenon DEF FitsLoop
      <3>3. LoopDur(gs[g][k], g, loop) = LoopDur(hs[g][k], g, loop)
        BY <3>1, Zenon DEF LoopDur
      <3>4. hs[g][k].loopDur = gs[g][k].loopDur
        BY <1>2
      <3> QED BY <3>0, <3>2, <3>3, <3>4
    <2>2. hs # <<>> /\ LoopMS(hs) = LoopMS(gs)
      BY <1>2, <1>3, <1>4, SameLoop DEF Looped
    <2> QED BY <1>3, <2>1, <2>2 DEF Looped
  <1>7. Captioned(c, hs)
    <2>1. ASSUME NEW g \in DOMAIN gs, NEW k \in DOMAIN gs[g]
          PROVE  hs[g][k].cc608 <=> c.cc608 /\ ContentType(hs[g][k].type) = "video"
      <3>1. hs[g][k].type = gs[g][k].type
        BY <1>2 DEF Alike
      <3> QED BY <1>2, <3>1, Zenon
    <2>2. \A g \in DOMAIN hs : \A k \in DOMAIN hs[g] :
            hs[g][k].cc608 <=> c.cc608 /\ ContentType(hs[g][k].type) = "video"
      BY <1>3, <2>1, Zenon
    <2> QED BY <2>2, Zenon DEF Captioned
  <1> QED BY <1>5, <1>6, <1>7

-----------------------------------------------------------------------------
(* The steps. *)

LEMMA InitInvariant ==
  Init => IInv
  <1> SUFFICES ASSUME Init PROVE IInv
    OBVIOUS
  <1>1. /\ cfg \in Configs /\ pc = "parse" /\ entry = 1 /\ namespaces = <<>>
        /\ tracksByType = [x \in {"video", "audio"} |-> <<>>]
    BY DEF Init
  <1>2. Len(cfg.dir) \in Nat
    <2>1. cfg \in ConfigType
      BY <1>1, AssetAssumption DEF IsConfig
    <2>2. cfg.dir \in Seq(FileType)
      BY <2>1 DEF ConfigType
    <2> QED BY <2>2
  <1>3. \A x \in {"video", "audio"} : ListOf(cfg, tracksByType[x], x, entry - 1, Applied)
    <2> TAKE x \in {"video", "audio"}
    <2>1. tracksByType[x] = <<>> /\ entry - 1 = 0
      BY <1>1
    <2>2. ListOf(cfg, <<>>, x, 0, Applied)
      BY DEF ListOf
    <2> QED BY <2>1, <2>2
  <1>4. DOMAIN tracksByType = {"video", "audio"}
    BY <1>1
  <1>5. entry \in 1 .. Len(cfg.dir) + 1
    BY <1>1, <1>2
  <1> QED BY <1>1, <1>3, <1>4, <1>5 DEF IInv, Lists, HasGroups, Building

LEMMA ConfigFacts ==
  ASSUME cfg \in Configs
  PROVE  /\ cfg \in ConfigType /\ cfg.dir \in Seq(FileType) /\ Len(cfg.dir) \in Nat
         /\ DOMAIN cfg.dir = 1 .. Len(cfg.dir)
         /\ \A i \in DOMAIN cfg.dir : cfg.dir[i] \in FileType /\ IsFile(cfg.dir[i])
  <1>1. cfg \in ConfigType /\ \A i \in DOMAIN cfg.dir : IsFile(cfg.dir[i])
    BY AssetAssumption DEF IsConfig
  <1>2. cfg.dir \in Seq(FileType)
    BY <1>1 DEF ConfigType
  <1> QED BY <1>1, <1>2 DEF IsFile

LEMMA ParseStep ==
  ASSUME IInv, ParseTrack
  PROVE  IInv'
  <1> DEFINE f == cfg.dir[entry]  x == ContentType(f.type)
  <1>1. /\ cfg \in Configs /\ pc = "parse" /\ entry \in 1 .. Len(cfg.dir) + 1 /\ namespaces = <<>>
        /\ DOMAIN tracksByType = {"video", "audio"}
        /\ \A y \in {"video", "audio"} : ListOf(cfg, tracksByType[y], y, entry - 1, Applied)
    BY DEF IInv, ParseTrack, Lists
  <1>2. entry <= Len(cfg.dir) /\ cfg' = cfg /\ namespaces' = namespaces
    BY DEF ParseTrack
  <1>3. /\ cfg \in ConfigType /\ Len(cfg.dir) \in Nat /\ DOMAIN cfg.dir = 1 .. Len(cfg.dir)
        /\ entry \in DOMAIN cfg.dir /\ f \in FileType /\ IsFile(f)
    BY <1>1, <1>2, ConfigFacts
  <1>4. Applied = {"none"}
    BY <1>1 DEF Applied
  <1> DEFINE n == entry - 1
  <1>5. n \in Nat /\ n + 1 = entry /\ entry \in Nat
    BY <1>1, <1>3
  <1> HIDE DEF n
  <1>6. \A y \in {"video", "audio"} : ListOf(cfg, tracksByType[y], y, n, {"none"})
    BY <1>1, <1>4 DEF n
  <1>7. ASSUME entry' = entry + 1, pc' = pc, DOMAIN tracksByType' = {"video", "audio"},
               \A y \in {"video", "audio"} : ListOf(cfg, tracksByType'[y], y, n + 1, {"none"})
        PROVE  IInv'
    <2>1. entry' \in 1 .. Len(cfg.dir) + 1 /\ entry' - 1 = n + 1
      BY <1>2, <1>3, <1>5, <1>7
    <2>2. Applied' = {"none"}
      BY <1>1, <1>7 DEF Applied
    <2>3. \A y \in {"video", "audio"} : ListOf(cfg, tracksByType'[y], y, entry' - 1, Applied')
      BY <1>7, <2>1, <2>2
    <2>4. pc' = "parse" /\ namespaces' = <<>> /\ cfg' \in Configs /\ cfg' = cfg
      BY <1>1, <1>2, <1>7
    <2> QED BY <1>7, <2>1, <2>3, <2>4 DEF IInv, Lists, HasGroups, Building
  <1>8. ASSUME pc' \in {"failed", "panic"}, entry' = entry
        PROVE  IInv'
    BY <1>1, <1>2, <1>8 DEF IInv, Lists, HasGroups, Building
  <1>9. CASE ~f.mp4 /\ entry' = entry + 1 /\ UNCHANGED <<pc, tracksByType>>
    <2>1. ~cfg.dir[n + 1].mp4
      BY <1>9, <1>5
    <2>2. \A y \in {"video", "audio"} : ListOf(cfg, tracksByType[y], y, n + 1, {"none"})
      BY <1>5, <1>6, <2>1, ListSkip
    <2> QED BY <1>1, <1>7, <1>9, <2>2
  <1>10. CASE pc' \in {"failed", "panic"} /\ entry' = entry
    BY <1>8, <1>10
  <1>11. CASE /\ f.mp4 /\ ~(f.readable /\ DurationsConsistent(f.samples) /\ Trimmed(f) = <<>>)
              /\ Loadable(f) /\ entry' = entry + 1 /\ UNCHANGED pc
              /\ tracksByType' = [tracksByType EXCEPT ![ContentType(f.type)] = Append(@, ContentTrack(f))]
    <2> DEFINE t == ContentTrack(f)
    <2>1. Usable(f)
      <3>1. f.readable /\ DurationsConsistent(f.samples)
        BY <1>11 DEF Loadable
      <3> QED BY <1>11, <3>1, Zenon DEF Usable
    <2>2. Rendition(cfg, t, f) /\ t.prot = "none"
      BY <1>3, ContentTrackMade
    <2> HIDE DEF t
    <2>3. x \in {"video", "audio"}
      BY DEF ContentType
    <2>4. ListOf(cfg, tracksByType[x], x, n, {"none"})
      BY <1>6, <2>3
    <2>5. ListOf(cfg, Append(tracksByType[x], t), x, n + 1, {"none"})
      BY <1>1, <1>3, <1>5, <2>1, <2>2, <2>4, ListAppend
    <2>6. tracksByType' = [tracksByType EXCEPT ![x] = Append(tracksByType[x], t)]
      BY <1>11 DEF t
    <2> HIDE DEF x, f
    <2>7. DOMAIN tracksByType' = {"video", "audio"}
      BY <1>1, <2>6
    <2>8. \A y \in {"video", "audio"} : ListOf(cfg, tracksByType'[y], y, n + 1, {"none"})
      <3> TAKE y \in {"video", "audio"}
      <3>1. CASE y = x
        <4>1. tracksByType'[y] = Append(tracksByType[x], t)
          BY <1>1, <2>3, <2>6, <3>1
        <4> QED BY <2>5, <3>1, <4>1
      <3>2. CASE y # x
        <4>1. tracksByType'[y] = tracksByType[y]
          BY <1>1, <2>6, <3>2
        <4>2. ~(cfg.dir[n + 1].mp4 /\ ContentType(cfg.dir[n + 1].type) = y)
          BY <1>5, <3>2 DEF x, f
        <4> QED BY <1>5, <1>6, <4>1, <4>2, ListSkip
      <3> QED BY <3>1, <3>2
    <2> QED BY <1>7, <1>11, <2>7, <2>8
  <1> QED BY <1>9, <1>10, <1>11 DEF ParseTrack

LEMMA ProtectStep ==
  ASSUME IInv, ProtectDRM \/ ProtectECCP
  PROVE  IInv'
  <1>1. /\ cfg \in Configs /\ entry \in 1 .. Len(cfg.dir) + 1 /\ pc \in {"parse", "eccp"}
        /\ entry > Len(cfg.dir) /\ namespaces = <<>> /\ cfg' = cfg /\ entry' = entry /\ namespaces' = namespaces
        /\ DOMAIN tracksByType = {"video", "audio"}
        /\ \A x \in {"video", "audio"} : ListOf(cfg, tracksByType[x], x, entry - 1, Applied)
    <2>1. pc \in {"parse", "eccp"} /\ cfg' = cfg /\ entry' = entry /\ namespaces' = namespaces
      BY DEF ProtectDRM, ProtectECCP, ProtectTracks
    <2>2. cfg \in Configs
      BY DEF IInv
    <2>3. Len(cfg.dir) \in Nat
      BY <2>2, ConfigFacts
    <2>4. entry > Len(cfg.dir)
      BY <2>3 DEF ProtectDRM, ProtectECCP, IInv
    <2> QED BY <2>1, <2>4 DEF IInv, Lists
  <1>2. Len(cfg.dir) \in Nat
    BY <1>1, ConfigFacts
  <1>3. entry = Len(cfg.dir) + 1 /\ entry - 1 = Len(cfg.dir)
    BY <1>1, <1>2
  <1>4. ASSUME NEW prot \in {"drm", "eccp"}, NEW next \in {"eccp", "groups"}, ProtectTracks(prot, next),
               prot \notin Applied,
               Applied' = IF Enabled(prot) THEN Applied \cup {prot} ELSE Applied
        PROVE  IInv'
    <2>1. "none" \in Applied
      BY DEF Applied
    <2>2. DOMAIN tracksByType' = {"video", "audio"}
      BY <1>1, <1>4 DEF ProtectTracks
    <2>3. \A x \in {"video", "audio"} : ListOf(cfg, tracksByType'[x], x, Len(cfg.dir), Applied')
      <3> TAKE x \in {"video", "audio"}
      <3>1. ListOf(cfg, tracksByType[x], x, Len(cfg.dir), Applied)
        BY <1>1, <1>3
      <3>2. CASE Enabled(prot)
        <4>1. tracksByType' = [y \in DOMAIN tracksByType |-> CreateProtectedTracks(tracksByType[y], prot)]
          BY <1>4, <3>2 DEF ProtectTracks
        <4>2. tracksByType'[x] = CreateProtectedTracks(tracksByType[x], prot)
          BY <1>1, <4>1
        <4>3. ListOf(cfg, CreateProtectedTracks(tracksByType[x], prot), x, Len(cfg.dir), Applied \cup {prot})
          BY <1>2, <1>4, <2>1, <3>1, ListProtect
        <4>4. Applied' = Applied \cup {prot}
          BY <1>4, <3>2
        <4> QED BY <4>2, <4>3, <4>4
      <3>3. CASE ~Enabled(prot)
        <4>1. tracksByType' = tracksByType /\ Applied' = Applied
          BY <1>4, <3>3 DEF ProtectTracks
        <4> QED BY <3>1, <4>1
      <3> QED BY <3>2, <3>3
    <2>4. pc' \in {"eccp", "groups"} /\ cfg' \in Configs /\ entry' = Len(cfg'.dir) + 1
          /\ entry' \in 1 .. Len(cfg'.dir) + 1 /\ namespaces' = <<>> /\ entry' - 1 = Len(cfg.dir)
      BY <1>1, <1>2, <1>3, <1>4 DEF ProtectTracks
    <2>5. \A x \in {"video", "audio"} : ListOf(cfg', tracksByType'[x], x, entry' - 1, Applied')
      BY <1>1, <2>3, <2>4
    <2> QED BY <2>2, <2>4, <2>5 DEF IInv, Lists, HasGroups, Building
  <1>5. CASE ProtectDRM
    <2>1. pc = "parse" /\ pc' = "eccp" /\ ProtectTracks("drm", "eccp")
      BY <1>5 DEF ProtectDRM, ProtectTracks
    <2>2. Applied = {"none"} /\ Applied' = {"none"} \cup (IF cfg.drm THEN {"drm"} ELSE {})
      BY <1>1, <2>1 DEF Applied
    <2>3. "drm" \notin Applied /\ Applied' = IF Enabled("drm") THEN Applied \cup {"drm"} ELSE Applied
      BY <2>2 DEF Enabled
    <2> QED BY <1>4, <2>1, <2>3
  <1>6. CASE ProtectECCP
    <2>1. pc = "eccp" /\ pc' = "groups" /\ ProtectTracks("eccp", "groups")
      BY <1>6 DEF ProtectECCP, ProtectTracks
    <2>2. /\ Applied = {"none"} \cup (IF cfg.drm THEN {"drm"} ELSE {})
          /\ Applied' = {"none"} \cup (IF cfg.drm THEN {"drm"} ELSE {}) \cup (IF cfg.eccp THEN {"eccp"} ELSE {})
      BY <1>1, <2>1 DEF Applied
    <2>3. "eccp" \notin Applied
      BY <2>2
    <2>4. Applied' = IF Enabled("eccp") THEN Applied \cup {"eccp"} ELSE Applied
      BY <2>2 DEF Enabled
    <2> QED BY <1>4, <2>1, <2>3, <2>4
  <1> QED BY <1>5, <1>6

\* From there on the protections are settled.
LEMMA AppliedKept ==
  ASSUME pc \notin {"parse", "eccp"}, pc' \notin {"parse", "eccp"}, cfg' = cfg
  PROVE  Applied' = Applied
  BY DEF Applied

LEMMA GroupStep ==
  ASSUME IInv, GenerateTrackGroups
  PROVE  IInv'
  <1>1. /\ cfg \in Configs /\ pc = "groups" /\ entry \in 1 .. Len(cfg.dir) + 1 /\ entry = Len(cfg.dir) + 1
        /\ namespaces = <<>> /\ cfg' = cfg /\ entry' = entry /\ namespaces' = namespaces
        /\ \A x \in {"video", "audio"} : ListOf(cfg, tracksByType[x], x, entry - 1, Applied)
    BY DEF IInv, GenerateTrackGroups, Lists
  <1>2. Len(cfg.dir) \in Nat /\ entry - 1 = Len(cfg.dir)
    BY <1>1, ConfigFacts
  <1>3. CASE pc' = "failed"
    BY <1>1, <1>3 DEF IInv, Lists, HasGroups, Building
  <1>4. CASE pc' = "loop" /\ \E v \in Sorted(tracksByType["video"]), a \in Sorted(tracksByType["audio"]) :
                               groups' = NonEmpty(v) \o NonEmpty(a)
    <2>1. PICK v \in Sorted(tracksByType["video"]), a \in Sorted(tracksByType["audio"]) :
                 groups' = NonEmpty(v) \o NonEmpty(a)
      BY <1>4
    <2>2. ListOf(cfg, v, "video", Len(cfg.dir), Applied) /\ ListOf(cfg, a, "audio", Len(cfg.dir), Applied)
      BY <1>1, <1>2, ListSorted
    <2>3. "none" \in Applied
      BY DEF Applied
    <2>4. Grouped(cfg, groups', Applied)
      BY <1>1, <2>1, <2>2, <2>3, GroupsOfLists
    <2>5. Applied' = Applied
      BY <1>1, <1>4, AppliedKept
    <2>6. Grouped(cfg', groups', Applied')
      BY <1>1, <2>4, <2>5
    <2> QED BY <1>1, <1>4, <2>6 DEF IInv, Lists, HasGroups, Building
  <1> QED BY <1>3, <1>4 DEF GenerateTrackGroups

LEMMA LoopStep ==
  ASSUME IInv, SetLoopDuration
  PROVE  IInv'
  <1>1. /\ cfg \in Configs /\ pc = "loop" /\ entry \in 1 .. Len(cfg.dir) + 1 /\ entry = Len(cfg.dir) + 1
        /\ namespaces = <<>> /\ cfg' = cfg /\ entry' = entry /\ namespaces' = namespaces
        /\ Grouped(cfg, groups, Applied)
    BY DEF IInv, SetLoopDuration, HasGroups, Building
  <1>2. CASE pc' = "failed"
    BY <1>1, <1>2 DEF IInv, Lists, HasGroups, Building
  <1>3. CASE /\ groups # <<>>
             /\ \A g \in DOMAIN groups : \A i \in DOMAIN groups[g] : FitsLoop(groups[g][i], g, LoopMS(groups))
             /\ pc' = "subs" /\ loopDurMS' = LoopMS(groups)
             /\ groups' = [g \in DOMAIN groups |-> [i \in DOMAIN groups[g] |->
                             [groups[g][i] EXCEPT !.loopDur = LoopDur(groups[g][i], g, LoopMS(groups))]]]
    <2>1. LoopMS(groups) \in Nat
      BY <1>1, <1>3, LoopMSType
    <2>2. Grouped(cfg, groups', Applied) /\ Looped(groups', LoopMS(groups))
      <3> DEFINE loop == LoopMS(groups)
      <3>1. /\ loop \in Nat /\ groups # <<>> /\ loop = LoopMS(groups)
            /\ \A g \in DOMAIN groups : \A i \in DOMAIN groups[g] : FitsLoop(groups[g][i], g, loop)
        BY <2>1, <1>3
      <3>2. groups' = [g \in DOMAIN groups |-> [i \in DOMAIN groups[g] |->
                         [groups[g][i] EXCEPT !.loopDur = LoopDur(groups[g][i], g, loop)]]]
        BY <1>3, Zenon
      <3> HIDE DEF loop
      <3>3. Grouped(cfg, groups', Applied) /\ Looped(groups', loop)
        BY <1>1, <3>1, <3>2, LoopedGroups
      <3> QED BY <3>3 DEF loop
    <2>3. Applied' = Applied
      BY <1>1, <1>3, AppliedKept
    <2>4. Grouped(cfg', groups', Applied') /\ Looped(groups', loopDurMS')
      BY <1>1, <1>3, <2>2, <2>3, Zenon
    <2>5. pc' = "subs"
      BY <1>3, Zenon
    <2> QED BY <1>1, <2>4, <2>5 DEF IInv, Lists, HasGroups, Building
  <1>4. \/ pc' = "failed"
        \/ /\ groups # <<>>
           /\ \A g \in DOMAIN groups : \A i \in DOMAIN groups[g] : FitsLoop(groups[g][i], g, LoopMS(groups))
           /\ pc' = "subs" /\ loopDurMS' = LoopMS(groups)
           /\ groups' = [g \in DOMAIN groups |-> [i \in DOMAIN groups[g] |->
                           [groups[g][i] EXCEPT !.loopDur = LoopDur(groups[g][i], g, LoopMS(groups))]]]
    BY Zenon DEF SetLoopDuration
  <1> QED BY <1>2, <1>3, <1>4, Zenon

LEMMA SubtitleStep ==
  ASSUME IInv, AddSubtitleTracks
  PROVE  IInv'
  <1> DEFINE Named(format, langs) == [i \in DOMAIN langs |-> [name |-> <<format, langs[i]>>, format |-> format]]
             a == Named("subs_wvtt", cfg.wvtt)  b == Named("subs_stpp", cfg.stpp)
             S == [name : Seq(Parts), format : {"subs_wvtt", "subs_stpp"}]
  <1>1. /\ cfg \in Configs /\ pc = "subs" /\ entry \in 1 .. Len(cfg.dir) + 1 /\ entry = Len(cfg.dir) + 1
        /\ namespaces = <<>> /\ cfg' = cfg /\ entry' = entry /\ namespaces' = namespaces /\ pc' = "cc608"
        /\ Grouped(cfg, groups, Applied) /\ Looped(groups, loopDurMS)
        /\ groups' = groups /\ loopDurMS' = loopDurMS
    BY DEF IInv, AddSubtitleTracks, HasGroups, Building
  <1>2. subs' = a \o b
    BY DEF AddSubtitleTracks
  <1>3. cfg.wvtt \in Seq(Parts) /\ cfg.stpp \in Seq(Parts)
    BY <1>1, ConfigFacts DEF ConfigType
  <1>4. ASSUME NEW format \in {"subs_wvtt", "subs_stpp"}, NEW langs \in Seq(Parts)
        PROVE  /\ Named(format, langs) \in Seq(S) /\ Len(Named(format, langs)) = Len(langs)
               /\ \A i \in 1 .. Len(langs) : Len(Named(format, langs)[i].name) = 2
                                             /\ Named(format, langs)[i].name[1] = Named(format, langs)[i].format
    <2>0. DOMAIN langs = 1 .. Len(langs) /\ Len(langs) \in Nat
      OBVIOUS
    <2>1. format \in Parts
      BY AssetAssumption DEF PublisherParts
    <2>2. ASSUME NEW i \in 1 .. Len(langs)
          PROVE  [name |-> <<format, langs[i]>>, format |-> format] \in S
      <3>1. <<format, langs[i]>> \in Seq(Parts)
        BY <2>1
      <3> QED BY <3>1
    <2>3. Named(format, langs) \in [1 .. Len(langs) -> S]
      BY <2>0, <2>2
    <2>4. Named(format, langs) \in Seq(S) /\ Len(Named(format, langs)) = Len(langs)
      <3> DEFINE F == Named(format, langs)
      <3>1. F \in [1 .. Len(langs) -> S]
        BY <2>3
      <3> HIDE DEF F, S
      <3>2. F \in Seq(S) /\ Len(F) = Len(langs)
        BY <2>0, <3>1
      <3> QED BY <3>2 DEF F
    <2>5. \A i \in 1 .. Len(langs) : Len(Named(format, langs)[i].name) = 2
                                     /\ Named(format, langs)[i].name[1] = Named(format, langs)[i].format
      BY <2>0
    <2> QED BY <2>4, <2>5
  <1>5. /\ a \in Seq(S) /\ \A i \in DOMAIN a : Len(a[i].name) = 2 /\ a[i].name[1] = a[i].format
        /\ b \in Seq(S) /\ \A i \in DOMAIN b : Len(b[i].name) = 2 /\ b[i].name[1] = b[i].format
    <2>1. \A F : F \in Seq(S) => DOMAIN F = 1 .. Len(F)
      OBVIOUS
    <2> HIDE DEF S, Named, a, b
    <2>2. /\ a \in Seq(S) /\ Len(a) = Len(cfg.wvtt)
          /\ \A i \in 1 .. Len(cfg.wvtt) : Len(a[i].name) = 2 /\ a[i].name[1] = a[i].format
      BY <1>3, <1>4, Zenon DEF a
    <2>3. /\ b \in Seq(S) /\ Len(b) = Len(cfg.stpp)
          /\ \A i \in 1 .. Len(cfg.stpp) : Len(b[i].name) = 2 /\ b[i].name[1] = b[i].format
      BY <1>3, <1>4, Zenon DEF b
    <2> QED BY <2>1, <2>2, <2>3
  <1> HIDE DEF a, b
  <1>6. Subtitled(subs')
    <2>1. subs' \in Seq(S)
      BY <1>2, <1>5
    <2>2. ASSUME NEW i \in DOMAIN (a \o b)
          PROVE  Len((a \o b)[i].name) = 2 /\ (a \o b)[i].name[1] = (a \o b)[i].format
      <3> HIDE DEF S
      <3>1. \/ i \in DOMAIN a /\ (a \o b)[i] = a[i]
            \/ i - Len(a) \in DOMAIN b /\ (a \o b)[i] = b[i - Len(a)]
        BY <1>5
      <3> QED BY <1>5, <3>1
    <2> QED BY <1>2, <2>1, <2>2 DEF Subtitled
  <1>7. Applied' = Applied
    BY <1>1, AppliedKept
  <1>8. Grouped(cfg', groups', Applied') /\ Looped(groups', loopDurMS')
    BY <1>1, <1>7
  <1> QED BY <1>1, <1>6, <1>8 DEF IInv, Lists, HasGroups, Building

LEMMA CaptionStep ==
  ASSUME IInv, SetCC608Generator
  PROVE  IInv'
  <1>1. /\ cfg \in Configs /\ pc = "cc608" /\ entry \in 1 .. Len(cfg.dir) + 1 /\ entry = Len(cfg.dir) + 1
        /\ namespaces = <<>> /\ cfg' = cfg /\ entry' = entry /\ namespaces' = namespaces /\ pc' = "msf"
        /\ Grouped(cfg, groups, Applied) /\ Looped(groups, loopDurMS) /\ loopDurMS' = loopDurMS
        /\ Subtitled(subs) /\ subs' = subs
    BY DEF IInv, SetCC608Generator, HasGroups, Building
  <1>2. groups' = [g \in DOMAIN groups |-> [k \in DOMAIN groups[g] |->
                     [groups[g][k] EXCEPT !.cc608 = cfg.cc608 /\ ContentType(groups[g][k].type) = "video"]]]
    BY Zenon DEF SetCC608Generator
  <1>3. cfg.cc608 \in BOOLEAN
    <2>1. cfg \in ConfigType
      BY <1>1, ConfigFacts
    <2> QED BY <2>1, Zenon DEF ConfigType
  <1>4. Grouped(cfg, groups', Applied) /\ Looped(groups', loopDurMS) /\ Captioned(cfg, groups')
    BY <1>1, <1>2, <1>3, CaptionedGroups
  <1>5. Applied' = Applied
    BY <1>1, AppliedKept
  <1>6. Grouped(cfg', groups', Applied') /\ Looped(groups', loopDurMS') /\ Captioned(cfg', groups')
        /\ Subtitled(subs')
    BY <1>1, <1>4, <1>5
  <1>7. Published'
    <2>1. namespaces' = <<>> /\ \A p \in Prots : ~Done(p)'
      BY <1>1 DEF Done, Prots
    <2> QED BY <2>1 DEF Published
  <1> QED BY <1>1, <1>6, <1>7 DEF IInv, Lists, HasGroups, Building

\* What is published is computed from groups, subtitles and command line that stay.
LEMMA Frozen ==
  ASSUME UNCHANGED <<cfg, groups, subs>>
  PROVE  /\ LocNS' = LocNS /\ MoqMINS' = MoqMINS /\ FirstClear("avc")' = FirstClear("avc")
         /\ \A p \in Prots : CmafNS(p)' = CmafNS(p) /\ (On(p)' <=> On(p))
  <1>0. cfg' = cfg /\ groups' = groups /\ subs' = subs
    OBVIOUS
  <1>1. AllTracks' = AllTracks
    BY <1>0, Zenon DEF AllTracks
  <1>2. LocNS' = LocNS
    BY <1>1, Zenon DEF LocNS, LocTracks
  <1>3. ASSUME NEW x PROVE FirstClear(x)' = FirstClear(x)
    BY <1>1, Zenon DEF FirstClear, SelectInSeq
  <1>4. MoqMINS' = MoqMINS /\ FirstClear("avc")' = FirstClear("avc")
    BY <1>3, Zenon DEF MoqMINS, MoqMITrackMap, MoqMIAudio
  <1>5. ASSUME NEW p PROVE CmafNS(p)' = CmafNS(p)
    BY <1>0, <1>1, Zenon DEF CmafNS, CmafTracks, InitDataList
  <1>6. ASSUME NEW p PROVE On(p)' <=> On(p)
    BY <1>0, Zenon DEF On, Enabled
  <1> QED BY <1>2, <1>4, <1>5, <1>6

LEMMA PublishedSame ==
  ASSUME Published, UNCHANGED <<cfg, groups, subs, namespaces>>,
         \A p \in Prots : Done(p) => Done(p)', \A p \in Prots : Done(p)' /\ On(p) => Done(p)
  PROVE  Published'
  <1>1. /\ LocNS' = LocNS /\ MoqMINS' = MoqMINS /\ FirstClear("avc")' = FirstClear("avc")
        /\ \A p \in Prots : CmafNS(p)' = CmafNS(p) /\ (On(p)' <=> On(p))
    BY Frozen
  <1>2. namespaces' = namespaces
    OBVIOUS
  <1> DEFINE S == {LocNS, MoqMINS} \cup {CmafNS(p) : p \in Prots}
  <1>3. S' = S
    BY <1>1
  <1>4. namespaces' \in Seq(S')
    BY <1>2, <1>3, Zenon DEF Published
  <1>5. ASSUME NEW n \in DOMAIN namespaces
        PROVE  /\ namespaces[n].packaging = "moqmi" => FirstClear("avc")' # <<>>
               /\ namespaces[n].packaging = "cmaf" =>
                    \E p \in Prots : namespaces[n] = CmafNS(p)' /\ Done(p)' /\ On(p)'
    <2>1. /\ namespaces[n].packaging = "moqmi" => FirstClear("avc") # <<>>
          /\ namespaces[n].packaging = "cmaf" =>
                    \E p \in Prots : namespaces[n] = CmafNS(p) /\ Done(p) /\ On(p)
      BY DEF Published
    <2> QED BY <1>1, <2>1
  <1> QED BY <1>1, <1>2, <1>4, <1>5 DEF Published

LEMMA PublishedMore ==
  ASSUME Published, UNCHANGED <<cfg, groups, subs>>, NEW ns, namespaces' = Append(namespaces, ns),
         \A p \in Prots : Done(p) => Done(p)',
         \/ ns = LocNS /\ \A p \in Prots : Done(p)' => Done(p)
         \/ ns = MoqMINS /\ FirstClear("avc") # <<>> /\ \A p \in Prots : Done(p)' => Done(p)
         \/ \E q \in Prots : /\ ns = CmafNS(q) /\ On(q) /\ ~Done(q) /\ Done(q)'
                             /\ \A p \in Prots \ {q} : Done(p)' => Done(p)
  PROVE  Published'
  <1>1. /\ LocNS' = LocNS /\ MoqMINS' = MoqMINS /\ FirstClear("avc")' = FirstClear("avc")
        /\ \A p \in Prots : CmafNS(p)' = CmafNS(p) /\ (On(p)' <=> On(p))
    BY Frozen
  <1>2. /\ LocNS.packaging = "loc" /\ MoqMINS.packaging = "moqmi"
        /\ \A p : CmafNS(p).packaging = "cmaf" /\ CmafNS(p).prot = p
    BY DEF LocNS, MoqMINS, CmafNS, NamespaceEntry
  <1> DEFINE S == {LocNS, MoqMINS} \cup {CmafNS(p) : p \in Prots}
             l == Len(namespaces)
  <1>3. S' = S
    BY <1>1
  <1>4. namespaces \in Seq(S)
    BY DEF Published
  <1>5. ns \in S
    OBVIOUS
  <1> HIDE DEF S
  <1>6. /\ namespaces' \in Seq(S) /\ l \in Nat /\ DOMAIN namespaces = 1 .. l /\ DOMAIN namespaces' = 1 .. l + 1
        /\ namespaces'[l + 1] = ns /\ \A n \in 1 .. l : namespaces'[n] = namespaces[n]
    BY <1>4, <1>5
  <1> HIDE DEF l
  <1>7. namespaces' \in Seq(S')
    BY <1>3, <1>6
  <1>8. \A n \in 1 .. l :
          /\ namespaces[n].packaging = "moqmi" => FirstClear("avc") # <<>>
          /\ namespaces[n].packaging = "cmaf" =>
               \E p \in Prots : namespaces[n] = CmafNS(p) /\ Done(p) /\ On(p)
    BY <1>6 DEF Published
  <1>9. /\ ns.packaging = "moqmi" => FirstClear("avc") # <<>>
        /\ ns.packaging = "cmaf" =>
             \E p \in Prots : ns = CmafNS(p) /\ Done(p)' /\ ~Done(p) /\ On(p)
    BY <1>2
  <1>10. ASSUME NEW n \in DOMAIN namespaces'
         PROVE  /\ namespaces'[n].packaging = "moqmi" => FirstClear("avc")' # <<>>
                /\ namespaces'[n].packaging = "cmaf" =>
                     \E p \in Prots : namespaces'[n] = CmafNS(p)' /\ Done(p)' /\ On(p)'
    <2>1. CASE n \in 1 .. l
      <3>1. namespaces'[n] = namespaces[n]
        BY <1>6, <2>1
      <3> QED BY <1>1, <1>8, <2>1, <3>1
    <2>2. CASE n = l + 1
      BY <1>1, <1>6, <1>9, <2>2
    <2> QED BY <1>6, <2>1, <2>2
  <1>11. ASSUME NEW p \in Prots, Done(p)', On(p)'
         PROVE  \E n \in DOMAIN namespaces' : namespaces'[n] = CmafNS(p)'
    <2>1. CASE Done(p)
      <3>1. PICK n \in 1 .. l : namespaces[n] = CmafNS(p)
        BY <1>1, <1>6, <1>11, <2>1 DEF Published
      <3> QED BY <1>1, <1>6, <3>1
    <2>2. CASE ~Done(p)
      <3>1. ns = CmafNS(p)
        BY <1>11, <2>2
      <3> QED BY <1>1, <1>6, <3>1
    <2> QED BY <2>1, <2>2
  <1>12. ASSUME NEW n \in DOMAIN namespaces', NEW m \in DOMAIN namespaces',
                namespaces'[n].packaging = "cmaf", namespaces'[m].packaging = "cmaf",
                namespaces'[n].prot = namespaces'[m].prot
         PROVE  n = m
    <2>1. ASSUME NEW i \in 1 .. l, namespaces[i].packaging = "cmaf", ns.packaging = "cmaf"
          PROVE  namespaces[i].prot # ns.prot
      <3>1. PICK p \in Prots : namespaces[i] = CmafNS(p) /\ Done(p)
        BY <1>8, <2>1
      <3>2. PICK q \in Prots : ns = CmafNS(q) /\ ~Done(q)
        BY <1>9, <2>1
      <3> QED BY <1>2, <3>1, <3>2
    <2>2. CASE n \in 1 .. l /\ m \in 1 .. l
      BY <1>6, <1>12, <2>2 DEF Published
    <2>3. CASE n \in 1 .. l /\ m = l + 1
      BY <1>6, <1>12, <2>1, <2>3
    <2>4. CASE m \in 1 .. l /\ n = l + 1
      BY <1>6, <1>12, <2>1, <2>4
    <2> QED BY <1>6, <2>2, <2>3, <2>4
  <1> QED BY <1>7, <1>10, <1>11, <1>12 DEF Published, S

\* The steps that build namespaces.
LEMMA BuildStep ==
  ASSUME IInv, pc \in Building, pc' \in Building, Published',
         UNCHANGED <<cfg, entry, tracksByType, groups, loopDurMS, subs>>
  PROVE  IInv'
  <1>1. /\ cfg \in Configs /\ entry \in 1 .. Len(cfg.dir) + 1 /\ entry = Len(cfg.dir) + 1
        /\ Grouped(cfg, groups, Applied) /\ Looped(groups, loopDurMS) /\ Subtitled(subs)
        /\ Captioned(cfg, groups)
    BY DEF IInv, HasGroups, Building
  <1>2. Applied' = Applied
    BY AppliedKept DEF Building
  <1>3. /\ Grouped(cfg', groups', Applied') /\ Looped(groups', loopDurMS') /\ Captioned(cfg', groups')
        /\ Subtitled(subs')
    BY <1>1, <1>2
  <1> QED BY <1>1, <1>3 DEF IInv, Lists, HasGroups, Building

LEMMA DoneAt ==
  /\ pc \in {"msf", "moqmi", "none"} => \A p \in Prots : ~Done(p)
  /\ pc = "drm" => Done("none") /\ ~Done("drm") /\ ~Done("eccp")
  /\ pc = "eccpns" => Done("none") /\ Done("drm") /\ ~Done("eccp")
  /\ pc = "serving" => Done("none") /\ Done("drm") /\ Done("eccp")
  <1>1. /\ Done("none") <=> pc \in {"drm", "eccpns", "serving"}
        /\ Done("drm") <=> pc \in {"eccpns", "serving"}
        /\ Done("eccp") <=> pc \in {"serving"}
    BY DEF Done
  <1> HIDE DEF Done
  <1> QED BY <1>1 DEF Prots

LEMMA CatalogStep ==
  ASSUME IInv, AddMSF \/ AddMoqMI
  PROVE  IInv'
  <1>0. /\ pc \in {"msf", "moqmi"} /\ pc' \in {"moqmi", "none"}
        /\ UNCHANGED <<cfg, entry, tracksByType, groups, loopDurMS, subs>>
    BY DEF AddMSF, AddMoqMI, AddNamespace
  <1>1. pc \in Building /\ pc' \in Building
    BY <1>0 DEF Building
  <1>2. Published
    BY <1>1 DEF IInv
  <1>3. \A p \in Prots : ~Done(p) /\ ~Done(p)'
    BY <1>0, DoneAt DEF Done, Prots
  <1>4. CASE namespaces' = namespaces
    <2>1. Published'
      BY <1>0, <1>2, <1>3, <1>4, PublishedSame
    <2> QED BY <1>0, <1>1, <2>1, BuildStep
  <1>5. CASE namespaces' = Append(namespaces, LocNS)
    <2>1. Published'
      BY <1>0, <1>2, <1>3, <1>5, PublishedMore
    <2> QED BY <1>0, <1>1, <2>1, BuildStep
  <1>6. CASE FirstClear("avc") # <<>> /\ namespaces' = Append(namespaces, MoqMINS)
    <2>1. Published'
      BY <1>0, <1>2, <1>3, <1>6, PublishedMore
    <2> QED BY <1>0, <1>1, <2>1, BuildStep
  <1> QED BY <1>4, <1>5, <1>6 DEF AddMSF, AddMoqMI, AddNamespace, LocNS, MoqMINS

LEMMA CmafStep ==
  ASSUME IInv, NEW prot \in Prots, NEW at, AddCMSF(prot, at),
         at = CASE prot = "none" -> "none" [] prot = "drm" -> "drm" [] prot = "eccp" -> "eccpns"
  PROVE  IInv'
  <1> DEFINE short == \E i \in DOMAIN AllTracks : AllTracks[i].prot = prot /\ ~Measurable(AllTracks[i])
  <1>0. /\ pc = at /\ UNCHANGED <<cfg, entry, tracksByType, groups, loopDurMS, subs>>
        /\ pc' = (IF On(prot) /\ short THEN "panic" ELSE NextProt(prot))
        /\ namespaces' = IF On(prot) /\ ~short THEN Append(namespaces, CmafNS(prot)) ELSE namespaces
    BY Zenon DEF AddCMSF, AddNamespace, On, CmafNS
  <1> HIDE DEF short
  <1>1. \/ prot = "none" /\ pc = "none" /\ NextProt(prot) = "drm"
        \/ prot = "drm" /\ pc = "drm" /\ NextProt(prot) = "eccpns"
        \/ prot = "eccp" /\ pc = "eccpns" /\ NextProt(prot) = "serving"
    BY <1>0 DEF Prots, NextProt
  <1>2. pc \in Building /\ Published
    BY <1>1 DEF IInv, Building
  <1>3. CASE pc' = "panic"
    <2>1. cfg \in Configs /\ entry \in 1 .. Len(cfg.dir) + 1
      BY DEF IInv
    <2> QED BY <1>0, <1>3, <2>1 DEF IInv, Lists, HasGroups, Building
  <1>4. CASE pc' = NextProt(prot) /\ ~(On(prot) /\ short)
    <2>1. pc' \in Building
      BY <1>1, <1>4 DEF Building
    <2>2. /\ \A p \in Prots : Done(p) => Done(p)'
          /\ ~Done(prot) /\ Done(prot)' /\ \A p \in Prots \ {prot} : Done(p)' => Done(p)
      <3>1. /\ Done("none") <=> pc \in {"drm", "eccpns", "serving"}
            /\ Done("drm") <=> pc \in {"eccpns", "serving"}
            /\ Done("eccp") <=> pc \in {"serving"}
            /\ Done("none")' <=> pc' \in {"drm", "eccpns", "serving"}
            /\ Done("drm")' <=> pc' \in {"eccpns", "serving"}
            /\ Done("eccp")' <=> pc' \in {"serving"}
        BY DEF Done
      <3> QED BY <1>1, <1>4, <3>1 DEF Prots
    <2>3. CASE On(prot)
      <3>1. namespaces' = Append(namespaces, CmafNS(prot))
        BY <1>0, <1>4, <2>3
      <3>2. \E q \in Prots : /\ CmafNS(prot) = CmafNS(q) /\ On(q) /\ ~Done(q) /\ Done(q)'
                             /\ \A p \in Prots \ {q} : Done(p)' => Done(p)
        BY <2>2, <2>3
      <3>3. Published'
        BY <1>0, <1>2, <2>2, <3>1, <3>2, PublishedMore
      <3> QED BY <1>0, <1>2, <2>1, <3>3, BuildStep
    <2>4. CASE ~On(prot)
      <3>1. namespaces' = namespaces
        BY <1>0, <2>4
      <3>2. \A p \in Prots : Done(p)' /\ On(p) => Done(p)
        BY <2>2, <2>4
      <3>3. Published'
        BY <1>0, <1>2, <2>2, <3>1, <3>2, PublishedSame
      <3> QED BY <1>0, <1>2, <2>1, <3>3, BuildStep
    <2> QED BY <2>3, <2>4
  <1> QED BY <1>0, <1>3, <1>4

LEMMA StutterStep ==
  ASSUME IInv, UNCHANGED vars
  PROVE  IInv'
  <1>0. /\ cfg' = cfg /\ pc' = pc /\ entry' = entry /\ tracksByType' = tracksByType /\ groups' = groups
        /\ loopDurMS' = loopDurMS /\ subs' = subs /\ namespaces' = namespaces
    BY DEF vars
  <1>1. Applied' = Applied
    BY <1>0 DEF Applied
  <1>2. ASSUME pc \in Building PROVE Published'
    <2>1. Published
      BY <1>2 DEF IInv
    <2>2. \A p \in Prots : Done(p)' <=> Done(p)
      BY <1>0, Zenon DEF Done
    <2> QED BY <1>0, <2>1, <2>2, PublishedSame
  <1> QED BY <1>0, <1>1, <1>2 DEF IInv

\* Every list, group and namespace of every reachable state consists of exactly the
\* renditions the directory and the command line call for (parseTracks,
\* createProtectedTracks, generateTrackGroups, setLoopDuration and main).
THEOREM Invariance == Spec => []IInv
  <1>1. Init => IInv
    BY InitInvariant
  <1>2. IInv /\ [Next]_vars => IInv'
    <2> SUFFICES ASSUME IInv, [Next]_vars PROVE IInv'
      OBVIOUS
    <2>1. CASE ParseTrack
      BY <2>1, ParseStep
    <2>2. CASE ProtectDRM \/ ProtectECCP
      BY <2>2, ProtectStep
    <2>3. CASE GenerateTrackGroups
      BY <2>3, GroupStep
    <2>4. CASE SetLoopDuration
      BY <2>4, LoopStep
    <2>5. CASE AddSubtitleTracks
      BY <2>5, SubtitleStep
    <2>6. CASE SetCC608Generator
      BY <2>6, CaptionStep
    <2>7. CASE AddMSF \/ AddMoqMI
      BY <2>7, CatalogStep
    <2>8. CASE AddCMSF("none", "none")
      BY <2>8, CmafStep DEF Prots
    <2>9. CASE AddCMSF("drm", "drm")
      BY <2>9, CmafStep DEF Prots
    <2>10. CASE AddCMSF("eccp", "eccpns")
      BY <2>10, CmafStep DEF Prots
    <2>11. CASE UNCHANGED vars
      BY <2>11, StutterStep
    <2> QED BY <2>1, <2>2, <2>3, <2>4, <2>5, <2>6, <2>7, <2>8, <2>9, <2>10, <2>11 DEF Next
  <1> QED BY <1>1, <1>2, PTL DEF Spec

(***************************************************************************)
(* What follows for the tracks of an asset.                                *)
(***************************************************************************)

\* The tracks of all groups, each once.
LEMMA AllTracksFacts ==
  ASSUME IInv, pc \in HasGroups
  PROVE  /\ AllTracks \in Seq(TrackType) /\ DOMAIN AllTracks = 1 .. Len(AllTracks) /\ Len(AllTracks) \in Nat
         /\ \A i \in DOMAIN AllTracks : \E g \in DOMAIN groups : \E k \in DOMAIN groups[g] :
              AllTracks[i] = groups[g][k]
         /\ \A i \in DOMAIN AllTracks : Made(cfg, AllTracks[i], Len(cfg.dir), Applied)
         /\ \A d \in DOMAIN cfg.dir : cfg.dir[d].mp4 =>
              \A p \in Applied : \E i \in DOMAIN AllTracks :
                AllTracks[i].of = cfg.dir[d].name /\ AllTracks[i].prot = p
         /\ \A i, j \in DOMAIN AllTracks :
              AllTracks[i].of = AllTracks[j].of /\ AllTracks[i].prot = AllTracks[j].prot => i = j
  <1> DEFINE A == AllTracks  n == Len(groups)
  <1>1. Grouped(cfg, groups, Applied)
    BY DEF IInv
  <1>2. /\ groups \in Seq(Seq(TrackType))
        /\ \A g \in DOMAIN groups : \A k \in DOMAIN groups[g] : Made(cfg, groups[g][k], Len(cfg.dir), Applied)
        /\ \A i \in DOMAIN cfg.dir : cfg.dir[i].mp4 =>
             \A p \in Applied : \E g \in DOMAIN groups : \E k \in DOMAIN groups[g] :
               groups[g][k].of = cfg.dir[i].name /\ groups[g][k].prot = p
        /\ \A g, h \in DOMAIN groups : \A k \in DOMAIN groups[g] : \A l \in DOMAIN groups[h] :
             groups[g][k].of = groups[h][l].of /\ groups[g][k].prot = groups[h][l].prot => g = h /\ k = l
    BY <1>1, Zenon DEF Grouped
  <1>3. A = FlattenSeq(groups)
    BY DEF AllTracks
  <1> HIDE DEF A
  <1>4. A \in Seq(TrackType) /\ \E b, p : Placed(A, groups, n, b, p)
    BY <1>2, <1>3, FlattenPlaces
  <1>5. DOMAIN A = 1 .. Len(A) /\ Len(A) \in Nat /\ DOMAIN groups = 1 .. n
    BY <1>2, <1>4
  <1>6. PICK b, p : Placed(A, groups, n, b, p)
    BY <1>4
  <1>7. \A g \in DOMAIN groups : DOMAIN groups[g] = 1 .. Len(groups[g])
    BY <1>2
  <1>8. \A i \in 1 .. Len(A) : b[i] \in DOMAIN groups /\ p[i] \in DOMAIN groups[b[i]] /\ A[i] = groups[b[i]][p[i]]
    BY <1>5, <1>6, <1>7 DEF Placed
  <1>9. \A i, j \in 1 .. Len(A) : b[i] = b[j] /\ p[i] = p[j] => i = j
    BY <1>6 DEF Placed
  <1>10. \A g \in DOMAIN groups : \A k \in DOMAIN groups[g] : \E i \in 1 .. Len(A) : b[i] = g /\ p[i] = k
    BY <1>5, <1>6, <1>7, SMTT(40) DEF Placed
  <1>11. \A i \in DOMAIN A : \E g \in DOMAIN groups : \E k \in DOMAIN groups[g] : A[i] = groups[g][k]
    BY <1>5, <1>8
  <1>12. \A i \in DOMAIN A : Made(cfg, A[i], Len(cfg.dir), Applied)
    BY <1>2, <1>11
  <1>13. ASSUME NEW d \in DOMAIN cfg.dir, cfg.dir[d].mp4, NEW q \in Applied
         PROVE  \E i \in DOMAIN A : A[i].of = cfg.dir[d].name /\ A[i].prot = q
    <2>1. PICK g \in DOMAIN groups : \E k \in DOMAIN groups[g] :
               groups[g][k].of = cfg.dir[d].name /\ groups[g][k].prot = q
      BY <1>2, <1>13, Zenon
    <2>2. PICK k \in DOMAIN groups[g] : groups[g][k].of = cfg.dir[d].name /\ groups[g][k].prot = q
      BY <2>1
    <2>3. PICK i \in 1 .. Len(A) : b[i] = g /\ p[i] = k
      BY <1>10
    <2> QED BY <1>5, <1>8, <2>2, <2>3
  <1>14. ASSUME NEW i \in DOMAIN A, NEW j \in DOMAIN A, A[i].of = A[j].of, A[i].prot = A[j].prot
         PROVE  i = j
    <2>1. /\ b[i] \in DOMAIN groups /\ p[i] \in DOMAIN groups[b[i]] /\ A[i] = groups[b[i]][p[i]]
          /\ b[j] \in DOMAIN groups /\ p[j] \in DOMAIN groups[b[j]] /\ A[j] = groups[b[j]][p[j]]
      BY <1>5, <1>8
    <2>2. b[i] = b[j] /\ p[i] = p[j]
      BY <1>2, <1>14, <2>1
    <2> QED BY <1>5, <1>9, <2>2
  <1>15. \A d \in DOMAIN cfg.dir : cfg.dir[d].mp4 =>
           \A q \in Applied : \E i \in DOMAIN A : A[i].of = cfg.dir[d].name /\ A[i].prot = q
    BY <1>13
  <1>16. \A i, j \in DOMAIN A : A[i].of = A[j].of /\ A[i].prot = A[j].prot => i = j
    BY <1>14
  <1> QED BY <1>4, <1>5, <1>11, <1>12, <1>15, <1>16, Zenon DEF A

\* The file of a rendition.
LEMMA RenditionFile ==
  ASSUME IInv, pc \in HasGroups, NEW t \in Renditions
  PROVE  \E d \in DOMAIN cfg.dir : Usable(cfg.dir[d]) /\ Rendition(cfg, t, cfg.dir[d])
  <1>1. PICK i \in DOMAIN AllTracks : t = AllTracks[i]
    BY DEF Renditions, ToSet
  <1>2. Made(cfg, t, Len(cfg.dir), Applied)
    BY <1>1, AllTracksFacts
  <1>3. cfg \in Configs
    BY DEF IInv
  <1>4. DOMAIN cfg.dir = 1 .. Len(cfg.dir)
    BY <1>3, ConfigFacts
  <1> QED BY <1>2, <1>4, Zenon DEF Made

\* Stripped samples hold no parameter sets.
LEMMA StrippedUnits ==
  ASSUME NEW units \in Seq(UnitType), NEW type \in {"avc", "hevc"}
  PROVE  InBand(StripUnits(type, units)) = {}
  <1> DEFINE I == {k \in DOMAIN units : /\ type \in {"avc", "hevc"} => units[k].kind # "sequence"
                                        /\ type = "avc" => units[k].kind # "delimiter"}
             F == Picked(units, I)
  <1>1. StripUnits(type, units) = F
    BY DEF StripUnits
  <1>2. \A i \in I : units[i].kind # "sequence"
    OBVIOUS
  <1> HIDE DEF I
  <1>3. F \in Seq(UnitType)
    BY PickedPlaces
  <1>4. PICK b : Picks(F, units, I, b)
    BY PickedPlaces
  <1> HIDE DEF F
  <1>5. \A k \in DOMAIN F : b[k] \in I /\ F[k] = units[b[k]]
    BY <1>3, <1>4 DEF Picks
  <1>6. \A k \in DOMAIN F : F[k].kind # "sequence"
    BY <1>2, <1>5
  <1> QED BY <1>1, <1>6 DEF InBand

\* GenLOCVideoConfigForSample and the loaders: a key frame carries its decoder
\* configuration exactly once, whatever was in the file.
THEOREM KeyframesComplete == Spec => []KeyframesSelfContained
  <1>1. IInv => KeyframesSelfContained
    <2> SUFFICES ASSUME IInv, Serving, NEW t \in Renditions, ContentType(t.type) = "video",
                        NEW i \in DOMAIN t.samples, t.samples[i].sync
                 PROVE  InBand(LocData(t, 0, i)) = {} <=> Prepended(t, 0, i)
      BY DEF KeyframesSelfContained
    <2>1. pc \in HasGroups
      BY DEF Serving, HasGroups, Building
    <2>2. PICK d \in DOMAIN cfg.dir : Usable(cfg.dir[d]) /\ Rendition(cfg, t, cfg.dir[d])
      BY <2>1, RenditionFile
    <2> DEFINE f == cfg.dir[d]  s == Trimmed(f)
    <2>3. cfg \in Configs /\ f \in FileType
      BY ConfigFacts DEF IInv
    <2>4. t.type = f.type /\ t.samples = LoadedSamples(f) /\ t.layers = LoadedLayers(f)
      BY <2>2 DEF Rendition
    <2>5. CASE t.type = "av1"
      BY <2>5 DEF Prepended, NeedsConfig
    <2>6. CASE t.type # "av1"
      <3>1. t.type \in {"avc", "hevc"}
        BY <2>6 DEF ContentType
      <3>2. LocData(t, 0, i) = t.samples[i].units
        BY <2>4, <2>6 DEF LoadedLayers, LocData
      <3>3. s \in Seq(SampleType)
        BY <2>3, TrimmedType
      <3>4. i \in DOMAIN s /\ t.samples[i] = [s[i] EXCEPT !.units = StripUnits(f.type, @)]
        BY <2>4 DEF LoadedSamples
      <3>5. s[i] \in SampleType
        BY <3>3, <3>4
      <3>6. s[i].units \in Seq(UnitType) /\ t.samples[i].units = StripUnits(f.type, s[i].units)
        BY <3>4, <3>5 DEF SampleType
      <3>7. InBand(LocData(t, 0, i)) = {}
        BY <2>4, <3>1, <3>2, <3>6, StrippedUnits
      <3> QED BY <2>6, <3>7 DEF Prepended, NeedsConfig
    <2> QED BY <2>5, <2>6
  <1> QED BY <1>1, Invariance, PTL

-----------------------------------------------------------------------------
(* The loop. *)

LEMMA WrapSmall ==
  ASSUME NEW n \in Nat, n < Word
  PROVE  Wrap(n) = n
  BY AssetAssumption DEF Wrap

\* A loop of x, truncated to ticks, in a track of D.
LEMMA LoopTruncated ==
  ASSUME NEW x \in Nat, NEW D \in Nat, D * MsPerSecond >= x, NEW L, L = x \div MsPerSecond
  PROVE  L <= D /\ (x % MsPerSecond = 0 => L * MsPerSecond = x)
  <1> DEFINE r == x % MsPerSecond
  <1>1. MsPerSecond \in Nat \ {0}
    BY UnitAssumption
  <1>2. L \in Nat /\ r \in 0 .. MsPerSecond - 1 /\ x = L * MsPerSecond + r
    BY <1>1, DivSpec
  <1> HIDE DEF r
  <1>3. L * MsPerSecond \in Nat /\ D * MsPerSecond \in Nat
    BY <1>1, <1>2
  <1>4. L * MsPerSecond <= D * MsPerSecond
    BY <1>1, <1>2, <1>3
  <1>5. L <= D
    BY <1>1, <1>2, <1>4, MulCancel
  <1> QED BY <1>2, <1>3, <1>5 DEF r

\* Without overflow a track holds as much as it loops in, and it loops in the
\* duration of the loop.
LEMMA LoopFits ==
  ASSUME IInv, Serving, NoOverflow, NEW t \in Renditions
  PROVE  /\ t \in TrackType /\ loopDurMS \in Nat
         /\ t.loopDur <= t.nrSamples * t.sampleDur
         /\ (loopDurMS * t.timeScale) % MsPerSecond = 0 => t.loopDur * MsPerSecond = loopDurMS * t.timeScale
         /\ ContentType(t.type) = "video" => t.loopDur = t.nrSamples * t.sampleDur
  <1> DEFINE N == t.nrSamples  sd == t.sampleDur  L == t.loopDur  T == t.timeScale
             m == loopDurMS  D == N * sd
  <1>0. pc \in HasGroups
    BY DEF Serving, HasGroups, Building
  <1>1. PICK d \in DOMAIN cfg.dir : Rendition(cfg, t, cfg.dir[d])
    BY <1>0, RenditionFile
  <1>2. t \in TrackType /\ t.duration = Wrap(D)
    BY <1>1 DEF Rendition
  <1>3. N \in Nat /\ sd \in Nat /\ L \in Nat /\ T \in Nat \ {0}
    BY <1>2 DEF TrackType
  <1>4. Looped(groups, m)
    BY DEF IInv, Serving, Building
  <1>5. m \in Nat
    BY <1>4 DEF Looped
  <1>6. PICK g \in DOMAIN groups :
          /\ FitsLoop(t, g, m) /\ L = LoopDur(t, g, m)
          /\ ContentType(t.type) = "video" => g = 1
    <2>1. PICK i \in DOMAIN AllTracks : t = AllTracks[i]
      BY DEF Renditions, ToSet
    <2>2. PICK g \in DOMAIN groups : \E k \in DOMAIN groups[g] : t = groups[g][k]
      BY <1>0, <2>1, AllTracksFacts
    <2>3. Grouped(cfg, groups, Applied)
      BY <1>0 DEF IInv
    <2>4. ContentType(t.type) = KindOf(cfg, g)
      <3>1. PICK k \in DOMAIN groups[g] : t = groups[g][k]
        BY <2>2
      <3>2. ContentType(groups[g][k].type) = KindOf(cfg, g)
        BY <2>3, Zenon DEF Grouped
      <3> QED BY <3>1, <3>2, Zenon
    <2>5. ContentType(t.type) = "video" => g = 1
      BY <2>4 DEF KindOf
    <2> QED BY <1>4, <2>2, <2>5 DEF Looped
  <1> DEFINE video == ContentType(t.type) = "video"
  <1>61. FitsLoop(t, g, m) /\ L = LoopDur(t, g, m)
    BY <1>6
  <1>62. g # 1 => ~video
    BY <1>6, Zenon
  <1> HIDE DEF video
  <1>7. D * MsPerSecond < Word /\ m * T < Word
    BY DEF NoOverflow
  <1>8. D \in Nat /\ m * T \in Nat /\ D * MsPerSecond \in Nat
    <2>1. D \in Nat
      BY <1>3
    <2> HIDE DEF D
    <2> QED BY <1>3, <1>5, <2>1, UnitAssumption
  <1> HIDE DEF D, N, sd
  <1>9. D <= D * MsPerSecond
    <2>1. 1 * D <= MsPerSecond * D
      BY <1>8, UnitAssumption, MulMono
    <2> QED BY <1>8, <2>1, UnitAssumption
  <1>10. D < Word
    BY <1>7, <1>8, <1>9, AssetAssumption
  <1>11. t.duration = D
    BY <1>2, <1>8, <1>10, WrapSmall
  <1> HIDE DEF L, T, m
  <1>12. Wrap(D * MsPerSecond) = D * MsPerSecond /\ Wrap(m * T) = m * T
    BY <1>7, <1>8, WrapSmall
  <1>13. CASE g = 1
    <2>1. L = D /\ D * MsPerSecond = m * T
      BY <1>61, <1>11, <1>12, <1>13 DEF FitsLoop, LoopDur, m, T
    <2> QED BY <1>2, <1>5, <1>8, <2>1 DEF D, L, T, m, N, sd
  <1>14. CASE g # 1
    <2>1. L = (m * T) \div MsPerSecond /\ D * MsPerSecond >= m * T
      BY <1>61, <1>11, <1>12, <1>14 DEF FitsLoop, LoopDur, m, T
    <2>2. L <= D /\ ((m * T) % MsPerSecond = 0 => L * MsPerSecond = m * T)
      BY <1>8, <2>1, LoopTruncated
    <2> QED BY <1>2, <1>5, <1>14, <1>62, <2>2 DEF D, L, T, m, N, sd, video
  <1> QED BY <1>13, <1>14

LEMMA CeilDivBounds ==
  ASSUME NEW a \in Nat, NEW b \in Nat \ {0}
  PROVE  CeilDiv(a, b) \in Nat /\ a <= CeilDiv(a, b) * b /\ CeilDiv(a, b) * b < a + b
  <1> DEFINE q == a \div b  r == a % b
  <1>1. q \in Nat /\ r \in 0 .. b - 1 /\ a = q * b + r
    BY DivSpec
  <1> HIDE DEF q, r
  <1>2. (q + 1) * b = q * b + b /\ q * b \in Nat
    BY <1>1
  <1>3. CeilDiv(a, b) = IF r # 0 THEN q + 1 ELSE q
    BY <1>1 DEF CeilDiv, q, r
  <1> QED BY <1>1, <1>2, <1>3

\* The turn an output sample is in, and its place in it.
LEMMA TurnOf ==
  ASSUME NEW t \in TrackType, t.sampleDur # 0, t.loopDur # 0, t.loopDur <= t.nrSamples * t.sampleDur,
         NEW nr \in Nat
  PROVE  LET w == NrWraps(t, nr)  c == CeilDiv(w * t.loopDur, t.sampleDur)
         IN  /\ w \in Nat /\ w * t.loopDur <= nr * t.sampleDur /\ nr * t.sampleDur < (w + 1) * t.loopDur
             /\ c \in Nat /\ w * t.loopDur <= c * t.sampleDur /\ c * t.sampleDur < w * t.loopDur + t.sampleDur
             /\ c <= nr /\ OrigNr(t, nr) = nr - c /\ nr - c < t.nrSamples
  <1> DEFINE sd == t.sampleDur  L == t.loopDur  N == t.nrSamples
             w == NrWraps(t, nr)  c == CeilDiv(w * L, sd)
  <1>1. sd \in Nat \ {0} /\ L \in Nat \ {0} /\ N \in Nat /\ L <= N * sd
    BY DEF TrackType
  <1>2. w = (nr * sd) \div L
    BY DEF NrWraps
  <1>3. OrigNr(t, nr) = (nr * sd - c * sd) \div sd
    BY DEF OrigNr, WrapTime
  <1> HIDE DEF sd, L, N, w
  <1>4. w \in Nat /\ w * L \in Nat
    <2>1. nr * sd \in Nat
      BY <1>1
    <2>2. w \in Nat
      BY <1>1, <1>2, <2>1, DivSpec
    <2> QED BY <1>1, <2>2
  <1>5. c \in Nat /\ w * L <= c * sd /\ c * sd < w * L + sd
    BY <1>1, <1>4, CeilDivBounds
  <1> HIDE DEF c
  <1>6. /\ w * L <= nr * sd /\ nr * sd < (w + 1) * L /\ c <= nr /\ nr - c < N
        /\ (nr * sd - c * sd) \div sd = nr - c
    BY <1>1, <1>2, <1>5, TurnBounds
  <1> QED BY <1>3, <1>4, <1>5, <1>6 DEF sd, L, N, w, c

\* A sample of sd that starts turn w comes within sd of where w loops of m end.
LEMMA TurnsTogether ==
  ASSUME NEW sd \in Nat \ {0}, NEW L \in Nat \ {0}, NEW T \in Nat, NEW m \in Nat, NEW nr \in Nat,
         NEW K \in Nat, nr * sd <= K * L, NEW w \in Nat, w * L <= nr * sd, nr * sd < w * L + sd,
         L * MsPerSecond = m * T
  PROVE  \E turn \in 0 .. K :
           LET late == nr * sd * MsPerSecond - turn * m * T
           IN  0 <= late /\ late < sd * MsPerSecond
  <1>1. MsPerSecond \in Nat \ {0}
    BY UnitAssumption
  <1>2. w <= K
    <2>1. w * L \in Nat /\ K * L \in Nat /\ nr * sd \in Nat
      OBVIOUS
    <2>2. w * L <= K * L
      BY <2>1
    <2> QED BY <2>2, MulCancel
  <1> DEFINE a == nr * sd  b == w * L
  <1>3. a \in Nat /\ b \in Nat /\ b <= a /\ a < b + sd
    OBVIOUS
  <1>4. w * m * T = b * MsPerSecond
    <2>1. w * m * T = w * (m * T) /\ w * (L * MsPerSecond) = (w * L) * MsPerSecond
      BY <1>1
    <2> QED BY <2>1
  <1> HIDE DEF a, b
  <1> DEFINE e == a - b
  <1>5. e \in Nat /\ e + 1 <= sd /\ a * MsPerSecond - b * MsPerSecond = e * MsPerSecond
    BY <1>1, <1>3
  <1> HIDE DEF e
  <1>6. /\ (e + 1) * MsPerSecond <= sd * MsPerSecond /\ (e + 1) * MsPerSecond = e * MsPerSecond + MsPerSecond
        /\ e * MsPerSecond \in Nat /\ sd * MsPerSecond \in Nat
    BY <1>1, <1>5, MulMono
  <1>7. 0 <= e * MsPerSecond /\ e * MsPerSecond < sd * MsPerSecond
    BY <1>1, <1>6
  <1>8. a * MsPerSecond - w * m * T = e * MsPerSecond
    BY <1>4, <1>5
  <1>9. w \in 0 .. K
    BY <1>2
  <1> QED BY <1>7, <1>8, <1>9 DEF a

LEMMA WithinTurns ==
  ASSUME NEW sd \in Nat \ {0}, NEW x \in Nat, NEW nr \in 0 .. (x \div sd)
  PROVE  nr \in Nat /\ nr * sd <= x
  <1> DEFINE q == x \div sd
  <1>1. q \in Nat /\ q * sd <= x
    BY DivBounds
  <1>2. nr \in 0 .. q
    OBVIOUS
  <1> HIDE DEF q
  <1>3. nr \in Nat /\ nr <= q
    BY <1>1, <1>2
  <1>4. nr * sd <= q * sd /\ nr * sd \in Nat /\ q * sd \in Nat
    BY <1>1, <1>3, MulMono
  <1> QED BY <1>1, <1>3, <1>4

LEMMA LoopsOf ==
  ASSUME NEW t \in TrackType, t.sampleDur > 0, t.loopDur >= t.sampleDur,
         t.loopDur <= t.nrSamples * t.sampleDur, NEW m \in Nat, NEW K \in Nat,
         NEW nr \in 0 .. ((K * t.loopDur) \div t.sampleDur)
  PROVE  /\ OrigNr(t, nr) < t.nrSamples
         /\ OrigNr(t, nr) = 0 /\ t.loopDur * MsPerSecond = m * t.timeScale =>
              \E turn \in 0 .. K :
                LET late == nr * t.sampleDur * MsPerSecond - turn * m * t.timeScale
                IN  0 <= late /\ late < t.sampleDur * MsPerSecond
  <1> DEFINE sd == t.sampleDur  L == t.loopDur  N == t.nrSamples  T == t.timeScale
             w == NrWraps(t, nr)  c == CeilDiv(w * L, sd)
  <1>1. sd \in Nat /\ L \in Nat /\ N \in Nat /\ T \in Nat
    BY DEF TrackType
  <1>2. sd \in Nat \ {0} /\ L \in Nat \ {0}
    BY <1>1
  <1>3. nr \in Nat /\ nr * sd <= K * L
    <2>1. K * L \in Nat /\ nr \in 0 .. ((K * L) \div sd)
      BY <1>1
    <2> HIDE DEF sd, L
    <2> QED BY <1>2, <2>1, WithinTurns
  <1>4. /\ w \in Nat /\ w * L <= nr * sd
        /\ c \in Nat /\ w * L <= c * sd /\ c * sd < w * L + sd
        /\ c <= nr /\ OrigNr(t, nr) = nr - c /\ nr - c < N
    <2>1. t.sampleDur # 0 /\ t.loopDur # 0
      BY <1>2
    <2> QED BY <1>3, <2>1, TurnOf
  <1>5. OrigNr(t, nr) < N
    BY <1>4
  <1> HIDE DEF sd, L, N, T, w, c
  <1>6. ASSUME OrigNr(t, nr) = 0, L * MsPerSecond = m * T
        PROVE  \E turn \in 0 .. K :
                 LET late == nr * sd * MsPerSecond - turn * m * T
                 IN  0 <= late /\ late < sd * MsPerSecond
    <2>1. c = nr
      BY <1>3, <1>4, <1>6
    <2>2. nr * sd < w * L + sd
      BY <1>4, <2>1
    <2> QED BY <1>1, <1>2, <1>3, <1>4, <1>6, <2>2, TurnsTogether
  <1> QED BY <1>5, <1>6 DEF sd, L, N, T

\* CalcSample and setLoopDuration: no sample is missing in any turn, and audio and
\* video start their turns together, for any number of turns.
THEOREM TracksLoopTogether == Spec => []LoopsTogether
  <1>1. IInv => LoopsTogether
    <2> SUFFICES ASSUME IInv, Serving, NoOverflow, NEW t \in Renditions
                 PROVE  t.sampleDur > 0 /\ t.loopDur >= t.sampleDur =>
                          \A nr \in 0 .. ((MaxTurns * t.loopDur) \div t.sampleDur) :
                            /\ OrigNr(t, nr) < t.nrSamples
                            /\ OrigNr(t, nr) = 0 /\ (loopDurMS * t.timeScale) % MsPerSecond = 0 =>
                                 \E turn \in 0 .. MaxTurns :
                                   LET late == nr * t.sampleDur * MsPerSecond - turn * loopDurMS * t.timeScale
                                   IN  0 <= late /\ late < t.sampleDur * MsPerSecond
      BY Zenon DEF LoopsTogether
    <2>1. /\ t \in TrackType /\ loopDurMS \in Nat /\ t.loopDur <= t.nrSamples * t.sampleDur
          /\ (loopDurMS * t.timeScale) % MsPerSecond = 0 => t.loopDur * MsPerSecond = loopDurMS * t.timeScale
      BY LoopFits
    <2>2. MaxTurns \in Nat
      BY AssetAssumption
    <2> QED BY <2>1, <2>2, LoopsOf, Zenon
  <1> QED BY <1>1, Invariance, PTL

-----------------------------------------------------------------------------
(* What is well-formed is served. *)

\* A multiple of a GOP that is a whole number of seconds is one too.
LEMMA MultipleOfGop ==
  ASSUME NEW x \in Nat, NEW gop \in Nat \ {0}, x % gop = 0, NEW d \in Nat, NEW T \in Nat \ {0},
         (gop * d) % T = 0
  PROVE  (x * d) % T = 0
  <1> DEFINE q == x \div gop  w == (gop * d) \div T
  <1>1. q \in Nat /\ x = q * gop
    <2>1. q \in Nat /\ x = q * gop + (x % gop)
      BY DivSpec
    <2> HIDE DEF q
    <2>2. q * gop \in Nat
      BY <2>1
    <2> QED BY <2>1, <2>2
  <1>2. gop * d \in Nat
    OBVIOUS
  <1>3. w \in Nat /\ gop * d = w * T
    <2> DEFINE a == gop * d
    <2>1. w \in Nat /\ a = w * T + (a % T)
      <3>1. a \in Nat /\ w = a \div T
        BY <1>2
      <3> HIDE DEF a, w
      <3> QED BY <3>1, DivSpec
    <2>2. a % T = 0
      OBVIOUS
    <2>3. w * T \in Nat
      <3> HIDE DEF w
      <3> QED BY <2>1
    <2> HIDE DEF a, w
    <2>4. a = w * T
      BY <2>1, <2>2, <2>3
    <2> QED BY <2>1, <2>4 DEF a
  <1> HIDE DEF q, w
  <1>4. x * d = (q * w) * T
    <2>1. (q * gop) * d = q * (gop * d) /\ q * (w * T) = (q * w) * T
      BY <1>1, <1>3
    <2> QED BY <1>1, <1>3, <2>1
  <1> DEFINE b == q * w
  <1>5. b \in Nat
    BY <1>1, <1>3
  <1> HIDE DEF b
  <1>6. (b * T) % T = 0
    <2> DEFINE c == b * T  r == c % T
    <2>1. c \in Nat /\ c \div T = b
      BY <1>5, DivOfProduct
    <2>2. c = (c \div T) * T + r /\ r \in 0 .. T - 1
      <3> HIDE DEF c
      <3> QED BY <2>1, DivSpec
    <2>3. c = c + r
      BY <2>1, <2>2
    <2> HIDE DEF c, r
    <2>4. r = 0
      BY <2>1, <2>2, <2>3
    <2> QED BY <2>4 DEF c, r
  <1> QED BY <1>4, <1>6 DEF b

\* The sync samples of a track whose GOPs have one length.
LEMMA PeriodicGops ==
  ASSUME NEW s \in Seq(SampleType), NEW gop \in 1 .. Len(s),
         \A i \in DOMAIN s : s[i].sync <=> (i - 1) % gop = 0
  PROVE  GopLengths(s) \subseteq {gop} /\ (gop < Len(s) => GopLength(s) = gop)
  <1>0. Len(s) \in Nat /\ DOMAIN s = 1 .. Len(s) /\ gop \in Nat \ {0}
    OBVIOUS
  <1>1. \A i \in DOMAIN s : i \in SyncsAt(s) <=> \E q \in Nat : i = q * gop + 1
    <2> TAKE i \in DOMAIN s
    <2>1. i - 1 \in Nat
      BY <1>0
    <2>2. ASSUME (i - 1) % gop = 0 PROVE \E q \in Nat : i = q * gop + 1
      <3> DEFINE q == (i - 1) \div gop
      <3>1. q \in Nat /\ i - 1 = q * gop + ((i - 1) % gop)
        BY <1>0, <2>1, DivSpec
      <3> DEFINE m == (i - 1) % gop  a == q * gop
      <3>2. a \in Nat
        <4> HIDE DEF q
        <4> QED BY <1>0, <3>1
      <3>3. i - 1 = a + m /\ m = 0 /\ i \in Nat
        BY <1>0, <2>2, <3>1
      <3> HIDE DEF q, m, a
      <3>4. i = a + 1
        BY <3>2, <3>3
      <3> QED BY <3>1, <3>4 DEF a
    <2>3. ASSUME NEW q \in Nat, i = q * gop + 1 PROVE (i - 1) % gop = 0
      <3> DEFINE a == q * gop
      <3>1. a \in Nat /\ a \div gop = q
        BY <1>0, DivOfProduct
      <3>2. a = (a \div gop) * gop + (a % gop) /\ a % gop \in 0 .. gop - 1
        <4> HIDE DEF a
        <4> QED BY <1>0, <3>1, DivSpec
      <3>3. a = a + (a % gop)
        BY <3>1, <3>2
      <3> HIDE DEF a
      <3>4. a % gop = 0
        <4> DEFINE m == a % gop
        <4>1. m \in 0 .. gop - 1 /\ a = a + m
          BY <3>2, <3>3
        <4> HIDE DEF m
        <4>2. m = 0
          BY <1>0, <3>1, <4>1
        <4> QED BY <4>2 DEF m
      <3>5. i - 1 = a
        BY <2>3, <3>1 DEF a
      <3> QED BY <3>4, <3>5
    <2> QED BY <2>2, <2>3 DEF SyncsAt
  <1>2. 1 \in DOMAIN s /\ 1 \in SyncsAt(s)
    <2>1. 1 \in DOMAIN s /\ 0 \in Nat /\ 1 = 0 * gop + 1
      BY <1>0
    <2> QED BY <1>1, <2>1
  <1>3. SyncsAt(s) \subseteq DOMAIN s
    BY DEF SyncsAt
  <1>4. ASSUME NEW i \in SyncsAt(s) \ {1}
        PROVE  i - Max({j \in SyncsAt(s) : j < i}) = gop
    <2> DEFINE before == {j \in SyncsAt(s) : j < i}  j0 == i - gop
    <2>1. PICK q \in Nat : i = q * gop + 1
      BY <1>1, <1>3
    <2>2. i \in Nat /\ i <= Len(s) /\ i > 1
      BY <1>0, <1>3
    <2>3. q # 0
      BY <2>1, <2>2
    <2>4. PICK p \in Nat : q = p + 1
      <3>1. q - 1 \in Nat /\ q = (q - 1) + 1
        BY <2>3
      <3> QED BY <3>1
    <2>5. q * gop = p * gop + gop /\ p * gop \in Nat
      <3>1. (p + 1) * gop = p * gop + gop /\ p * gop \in Nat
        BY <1>0
      <3> QED BY <2>4, <3>1
    <2>6. j0 = p * gop + 1 /\ j0 \in DOMAIN s /\ j0 < i
      BY <1>0, <2>1, <2>2, <2>5
    <2>7. j0 \in before
      <3>1. j0 \in SyncsAt(s)
        <4> HIDE DEF j0
        <4> QED BY <1>1, <2>6
      <3> QED BY <2>6, <3>1
    <2>8. before \subseteq 0 .. i /\ before # {}
      <3>1. \A j \in before : j \in DOMAIN s /\ j < i
        BY <1>3
      <3> HIDE DEF before, j0
      <3> QED BY <1>0, <2>2, <2>7, <3>1
    <2>9. ASSUME NEW j \in before PROVE j <= j0
      <3>1. j \in SyncsAt(s) /\ j \in DOMAIN s /\ j < i
        BY <1>3
      <3>2. PICK k \in Nat : j = k * gop + 1
        BY <1>1, <3>1
      <3>3. k * gop \in Nat
        BY <1>0
      <3>4. ASSUME k >= q PROVE FALSE
        <4>1. q * gop <= k * gop
          BY <1>0, <3>4, MulMono
        <4> QED BY <2>1, <2>5, <3>1, <3>2, <3>3, <4>1
      <3>5. k <= p
        BY <2>4, <3>4
      <3>6. k * gop <= p * gop
        BY <1>0, <3>5, MulMono
      <3> QED BY <2>5, <2>6, <3>2, <3>3, <3>6
    <2> HIDE DEF before, j0
    <2>10. Max(before) \in before /\ \A j \in before : j <= Max(before)
      BY <2>2, <2>8, MaxIn
    <2>11. Max(before) \in Nat /\ j0 \in Nat
      <3> DEFINE M == Max(before)
      <3>1. M \in 0 .. i /\ j0 \in 0 .. i
        BY <2>7, <2>8, <2>10, Zenon
      <3> HIDE DEF M
      <3>2. M \in Nat /\ j0 \in Nat
        BY <2>2, <3>1
      <3> QED BY <3>2 DEF M
    <2>12. Max(before) = j0
      BY <2>7, <2>9, <2>10, <2>11
    <2>13. i - j0 = gop
      BY <1>0, <2>2 DEF j0
    <2> QED BY <2>12, <2>13 DEF before
  <1>5. s[1].sync
    BY <1>2 DEF SyncsAt
  <1>6. GopLengths(s) = {i - Max({j \in SyncsAt(s) : j < i}) : i \in SyncsAt(s) \ {1}}
    BY <1>5, Zenon DEF GopLengths
  <1>7. GopLengths(s) \subseteq {gop}
    BY <1>4, <1>6, Zenon
  <1>8. ASSUME gop < Len(s) PROVE GopLength(s) = gop
    <2>1. gop + 1 \in DOMAIN s /\ gop + 1 = 1 * gop + 1 /\ gop + 1 # 1
      BY <1>0, <1>8
    <2>2. gop + 1 \in SyncsAt(s) \ {1}
      BY <1>1, <2>1
    <2>3. gop \in GopLengths(s)
      <3> DEFINE i == gop + 1
      <3>1. i \in SyncsAt(s) \ {1}
        BY <2>2
      <3> HIDE DEF i
      <3> QED BY <1>4, <1>6, <3>1, Zenon
    <2>4. GopLengths(s) = {gop}
      BY <1>7, <2>3, Zenon
    <2>5. Max({gop}) = gop
      <3>1. {gop} \subseteq 0 .. gop /\ {gop} # {} /\ gop \in Nat
        BY <1>0
      <3>2. Max({gop}) \in {gop}
        BY <3>1, MaxIn
      <3> QED BY <3>2
    <2> QED BY <2>4, <2>5 DEF GopLength
  <1> QED BY <1>7, <1>8

\* One frame of each of n layers in every sample is what splitAV1SpatialLayers wants.
LEMMA RegularLayers ==
  ASSUME NEW s \in Seq(SampleType), s # <<>>, NEW n \in 1 .. 4, OneFramePerLayer(s, n)
  PROVE  LayersSplit(s) /\ NrLayers(s) = IF n = 1 THEN 0 ELSE n
  <1>1. \A i \in DOMAIN s : \A k \in DOMAIN s[i].units :
          s[i].units[k].sid \in Nat /\ s[i].units[k].sid < n /\ s[i].units[k].tid = 0
    <2> TAKE i \in DOMAIN s
    <2>1. s[i] \in SampleType
      OBVIOUS
    <2>2. s[i].units \in Seq(UnitType)
      BY <2>1 DEF SampleType
    <2> TAKE k \in DOMAIN s[i].units
    <2>3. s[i].units[k] \in UnitType
      BY <2>2
    <2>4. s[i].units[k].sid \in Nat
      BY <2>3 DEF UnitType
    <2> QED BY <2>4 DEF OneFramePerLayer
  <1>2. FrameIds(s) \subseteq 0 .. n - 1
    <2> SUFFICES ASSUME NEW x \in FrameIds(s) PROVE x \in 0 .. n - 1
      OBVIOUS
    <2>1. PICK i \in DOMAIN s : \E k \in DOMAIN s[i].units : x = s[i].units[k].sid
      BY Zenon DEF FrameIds
    <2> QED BY <1>1, <2>1
  <1>3. n - 1 \in FrameIds(s)
    <2>1. 1 \in DOMAIN s /\ n - 1 \in 0 .. (n - 1)
      OBVIOUS
    <2>2. Cardinality(FramesOf(s[1].units, n - 1)) = 1
      BY <2>1, Zenon DEF OneFramePerLayer
    <2> DEFINE F == FramesOf(s[1].units, n - 1)  id == n - 1
    <2>3. F # {}
      <3> HIDE DEF F
      <3> SUFFICES ASSUME F = {} PROVE FALSE
        OBVIOUS
      <3>1. Cardinality(F) = 1 /\ Cardinality({}) = 0
        BY <2>2, FS_EmptySet DEF F
      <3> QED BY <3>1
    <2>4. PICK k \in F : TRUE
      BY <2>3
    <2> HIDE DEF id
    <2>5. k \in DOMAIN s[1].units /\ s[1].units[k].kind = "frame" /\ id = s[1].units[k].sid
      BY <2>4, Zenon DEF FramesOf, id
    <2>6. 1 \in DOMAIN s /\ id \in FrameIds(s)
      <3>1. 1 \in DOMAIN s
        BY <2>1
      <3> DEFINE one == 1
      <3>2. one \in DOMAIN s /\ k \in {j \in DOMAIN s[one].units : s[one].units[j].kind = "frame"}
            /\ id = s[one].units[k].sid
        BY <2>5, <3>1
      <3> HIDE DEF one
      <3> DEFINE Ids(i) == {s[i].units[l].sid : l \in {j \in DOMAIN s[i].units : s[i].units[j].kind = "frame"}}
      <3>3. id \in Ids(one)
        BY <3>2, Zenon
      <3>4. FrameIds(s) = UNION {Ids(i) : i \in DOMAIN s}
        BY DEF FrameIds
      <3> HIDE DEF Ids
      <3>5. id \in FrameIds(s)
        BY <3>2, <3>3, <3>4
      <3> QED BY <3>1, <3>5
    <2> QED BY <2>6 DEF id
  <1>4. NrLayers(s) = IF n = 1 THEN 0 ELSE n
    <2>1. CASE n = 1
      <3>1. FrameIds(s) \subseteq {0}
        BY <1>2, <2>1
      <3> QED BY <2>1, <3>1 DEF NrLayers
    <2>2. CASE n # 1
      <3>1. ~(FrameIds(s) \subseteq {0})
        BY <1>3, <2>2
      <3>2. Max(FrameIds(s)) \in FrameIds(s) /\ \A y \in FrameIds(s) : y <= Max(FrameIds(s))
        <4>1. FrameIds(s) \subseteq 0 .. n /\ FrameIds(s) # {} /\ n \in Nat
          BY <1>2, <1>3
        <4> QED BY <4>1, MaxIn
      <3>3. Max(FrameIds(s)) = n - 1
        BY <1>2, <1>3, <3>2
      <3>4. NrLayers(s) = Max(FrameIds(s)) + 1
        BY <3>1 DEF NrLayers
      <3> QED BY <2>2, <3>3, <3>4
    <2> QED BY <2>1, <2>2
  <1>5. LayersSplit(s)
    <2> SUFFICES ASSUME NrLayers(s) = n, NEW i \in DOMAIN s
                 PROVE  /\ \A k \in DOMAIN s[i].units : LayerOf(s[i].units[k]) < n
                        /\ \A k \in DOMAIN s[i].units :
                             s[i].units[k].kind \in {"frame", "tile"} => s[i].units[k].tid = 0
                        /\ \A id \in 0 .. (n - 1) : Cardinality(FramesOf(s[i].units, id)) = 1
      BY <1>4 DEF LayersSplit
    <2>1. \A k \in DOMAIN s[i].units : LayerOf(s[i].units[k]) < n
      <3> TAKE k \in DOMAIN s[i].units
      <3>1. LayerOf(s[i].units[k]) = 0 \/ LayerOf(s[i].units[k]) = s[i].units[k].sid
        BY DEF LayerOf
      <3>2. s[i].units[k].sid \in Nat /\ s[i].units[k].sid < n
        BY <1>1
      <3> QED BY <3>1, <3>2
    <2>2. \A id \in 0 .. (n - 1) : Cardinality(FramesOf(s[i].units, id)) = 1
      BY Zenon DEF OneFramePerLayer
    <2> QED BY <1>1, <2>1, <2>2
  <1> QED BY <1>4, <1>5

\* The loader accepts every regular file.
LEMMA RegularLoads ==
  ASSUME NEW f \in FileType, Regular(f)
  PROVE  Trimmed(f) # <<>> /\ Loadable(f) /\ SampleDur(f.samples) \in Nat \ {0}
  <1> DEFINE s == Trimmed(f)  S == f.samples  d == S[1].dur
  <1>1. s \in Seq(SampleType) /\ S \in Seq(SampleType) /\ DOMAIN S = 1 .. Len(S) /\ f.timeScale \in Nat \ {0}
    BY TrimmedType DEF FileType
  <1>2. /\ f.readable /\ s # <<>> /\ d > 0
        /\ \A i \in DOMAIN S : S[i].dur = d /\ S[i].time = (i - 1) * d
    BY Zenon DEF Regular
  <1>3. PICK gop \in 1 .. Len(s) :
          /\ \A i \in DOMAIN s : s[i].sync <=> (i - 1) % gop = 0
          /\ f.type = "av1" => \E n \in 1 .. 4 :
                /\ OneFramePerLayer(s, n)
                /\ n > 1 => /\ gop < Len(s) /\ (gop * d) % f.timeScale = 0
                            /\ gop * d * MsPerSecond = GroupDurMS * f.timeScale
    BY Zenon DEF Regular
  <1>4. S # <<>> /\ 1 \in DOMAIN S /\ d \in Nat \ {0}
    <2>1. S # <<>>
      BY <1>2, TrimmedType
    <2>2. 1 \in DOMAIN S
      BY <1>1, <2>1
    <2>3. S[1] \in SampleType
      BY <1>1, <2>2
    <2>4. S[1].dur \in Nat
      BY <2>3 DEF SampleType
    <2> QED BY <1>2, <2>1, <2>2, <2>4
  <1>5. SampleDur(S) = d /\ DurationsConsistent(S)
    <2> DEFINE I == {i \in 1 .. Len(S) : S[i].dur # 0}
    <2>1. DurAt(S) = IF I # {} THEN Min(I) ELSE 0
      BY DEF DurAt, SelectInSeq
    <2>2. 1 \in I /\ I \subseteq Nat
      BY <1>1, <1>4
    <2>3. DurAt(S) \in I
      <3> HIDE DEF I
      <3>1. I # {}
        BY <2>2
      <3> QED BY <2>1, <2>2, <3>1, MinIn
    <2>4. DurAt(S) \in DOMAIN S /\ DurAt(S) # 0
      BY <1>1, <2>3
    <2>5. SampleDur(S) = d
      BY <1>2, <2>4, Zenon DEF SampleDur
    <2> QED BY <1>2, <2>5, Zenon DEF DurationsConsistent
  <1> HIDE DEF s, S, d
  <1>6. GopLengths(s) \subseteq {gop} /\ (gop < Len(s) => GopLength(s) = gop)
    BY <1>1, <1>3, PeriodicGops
  <1>7. Cardinality(GopLengths(s)) <= 1
    <2>1. IsFiniteSet({gop}) /\ Cardinality({gop}) = 1
      BY FS_Singleton
    <2>2. Cardinality(GopLengths(s)) <= Cardinality({gop})
      BY <1>6, <2>1, FS_Subset
    <2> QED BY <2>1, <2>2
  <1>8. ParameterSetsOK(f)
    <2>1. ASSUME f.type = "avc" PROVE Cardinality(ParameterSets(f)) = 1
      <3>0. Trimmed(f) = f.samples
        BY <2>1, TrimmedType DEF ContentType
      <3>1. PICK id \in f.sets : /\ f.sets = {id}
                                 /\ \A i \in DOMAIN Trimmed(f) : \A k \in InBand(Trimmed(f)[i].units) :
                                      Trimmed(f)[i].units[k].sid = id
        BY <2>1, Zenon DEF Regular
      <3>2. \A i \in DOMAIN f.samples : \A k \in InBand(f.samples[i].units) : f.samples[i].units[k].sid = id
        BY <3>0, <3>1, Zenon
      <3>3. ParameterSets(f) = {id}
        <4>1. ASSUME NEW x \in ParameterSets(f) PROVE x = id
          <5>1. CASE x \in f.sets
            BY <3>1, <5>1
          <5>2. CASE x \notin f.sets
            <6>1. PICK i \in DOMAIN f.samples : \E k \in InBand(f.samples[i].units) : x = f.samples[i].units[k].sid
              BY <4>1, <5>2, Zenon DEF ParameterSets
            <6> QED BY <3>2, <6>1, Zenon
          <5> QED BY <5>1, <5>2
        <4>2. id \in ParameterSets(f)
          BY Zenon DEF ParameterSets
        <4> QED BY <4>1, <4>2, Zenon
      <3> QED BY <3>3, FS_Singleton
    <2>2. f.type = "hevc" => f.sets # {}
      BY Zenon DEF Regular
    <2> QED BY <2>1, <2>2, Zenon DEF ParameterSetsOK
  <1>9. ASSUME f.type = "av1"
        PROVE  LayersSplit(s) /\ (NrLayers(s) > 0 => ValidateAV1SVCGOP(f, s))
    <2>1. PICK n \in 1 .. 4 :
                /\ OneFramePerLayer(s, n)
                /\ n > 1 => /\ gop < Len(s) /\ (gop * d) % f.timeScale = 0
                            /\ gop * d * MsPerSecond = GroupDurMS * f.timeScale
      BY <1>3, <1>9, Zenon
    <2>2. LayersSplit(s) /\ NrLayers(s) = IF n = 1 THEN 0 ELSE n
      BY <1>1, <1>2, <2>1, RegularLayers DEF s
    <2>3. s = S
      BY <1>9, TrimmedType DEF ContentType, s, S
    <2>4. ASSUME n > 1 PROVE ValidateAV1SVCGOP(f, s)
      <3>1. /\ gop < Len(s) /\ (gop * d) % f.timeScale = 0
            /\ gop * d * MsPerSecond = GroupDurMS * f.timeScale
        BY <2>1, <2>4
      <3>2. GopLength(s) = gop /\ SampleDur(s) = d /\ gop \in Nat \ {0}
        BY <1>1, <1>3, <1>5, <1>6, <2>3, <3>1
      <3>3. ASSUME NEW i \in DOMAIN s, s[i].sync PROVE s[i].time % f.timeScale = 0
        <4>0. i \in DOMAIN S /\ i - 1 \in Nat
          BY <1>1, <2>3
        <4>1. s[i].time = (i - 1) * d /\ i - 1 \in Nat /\ (i - 1) % gop = 0
          BY <1>2, <1>3, <2>3, <3>3, <4>0, Zenon
        <4> DEFINE x == i - 1
        <4>2. x \in Nat /\ x % gop = 0
          BY <4>1
        <4> HIDE DEF x
        <4>3. (x * d) % f.timeScale = 0
          BY <1>1, <1>4, <3>1, <3>2, <4>2, MultipleOfGop
        <4> QED BY <4>1, <4>3 DEF x
      <3>4. \A i \in DOMAIN s : s[i].sync <=> (i - 1) % gop = 0
        BY <1>3
      <3>5. SampleDur(s) # 0 /\ GopLength(s) # 0
        BY <1>4, <3>2
      <3> QED BY <3>1, <3>2, <3>3, <3>4, <3>5, Zenon DEF ValidateAV1SVCGOP
    <2>5. NrLayers(s) > 0 => n > 1
      BY <2>2
    <2> QED BY <2>2, <2>4, <2>5
  <1>10. Loadable(f)
    BY <1>2, <1>5, <1>7, <1>8, <1>9, Zenon DEF Loadable, s, S
  <1> QED BY <1>2, <1>4, <1>5, <1>10 DEF s, S

\* A loop that suits file f.
Suits(f, loop) ==
  /\ LengthMS(f) >= loop * f.timeScale /\ loop * f.timeScale >= MsPerSecond
  /\ ContentType(f.type) = "video" \/ ~Has(cfg, "video") => LengthMS(f) = loop * f.timeScale

LEMMA ConformingFacts ==
  ASSUME cfg \in Configs, Conforming(cfg)
  PROVE  /\ \E d \in DOMAIN cfg.dir : cfg.dir[d].mp4
         /\ \A d \in DOMAIN cfg.dir : cfg.dir[d].mp4 =>
              LET f == cfg.dir[d]
              IN  /\ Regular(f) /\ LengthMS(f) < Word /\ Len(Trimmed(f)) >= 2
                  /\ 2 * cfg.batch[ContentType(f.type)] <= Len(Trimmed(f))
         /\ \E loop \in Nat : \A d \in DOMAIN cfg.dir : cfg.dir[d].mp4 => Suits(cfg.dir[d], loop)
         /\ \A d, e \in DOMAIN cfg.dir :
              /\ cfg.dir[d].mp4 /\ ContentType(cfg.dir[d].type) = "video"
              /\ cfg.dir[e].mp4 /\ ContentType(cfg.dir[e].type) = "video"
              => cfg.dir[d].timeScale = cfg.dir[e].timeScale
  <1> DEFINE files == {cfg.dir[i] : i \in {j \in DOMAIN cfg.dir : cfg.dir[j].mp4}}
             video == {f \in files : ContentType(f.type) = "video"}
             first == IF video # {} THEN video ELSE files
  <1>1. /\ files # {} /\ \A f \in files : Regular(f) /\ LengthMS(f) < Word
        /\ \A f \in files : Len(Trimmed(f)) >= 2 /\ 2 * cfg.batch[ContentType(f.type)] <= Len(Trimmed(f))
        /\ \E loop \in 1 .. Word :
             /\ \A f \in first : LengthMS(f) = loop * f.timeScale
             /\ \A f \in files : LengthMS(f) >= loop * f.timeScale /\ loop * f.timeScale >= MsPerSecond
        /\ \A f, g \in video : f.timeScale = g.timeScale
    BY Zenon DEF Conforming
  <1>2. \A d \in DOMAIN cfg.dir : cfg.dir[d].mp4 => cfg.dir[d] \in files
    BY Zenon
  <1>3. \A f \in files : \E d \in DOMAIN cfg.dir : cfg.dir[d].mp4 /\ f = cfg.dir[d]
    BY Zenon
  <1>4. \A f \in files : ContentType(f.type) = "video" => f \in video
    BY Zenon
  <1>5. \A f \in video : f \in files /\ ContentType(f.type) = "video"
    BY Zenon
  <1> HIDE DEF files, video
  <1>6. video # {} <=> Has(cfg, "video")
    BY <1>2, <1>3, <1>4, <1>5, ZenonT(60) DEF Has
  <1>7. \A f \in files : ContentType(f.type) = "video" \/ ~Has(cfg, "video") => f \in first
    BY <1>4, <1>6, Zenon
  <1> HIDE DEF first
  <1>8. PICK loop \in 1 .. Word :
             /\ \A f \in first : LengthMS(f) = loop * f.timeScale
             /\ \A f \in files : LengthMS(f) >= loop * f.timeScale /\ loop * f.timeScale >= MsPerSecond
    BY <1>1, Zenon
  <1>9. loop \in Nat
    BY AssetAssumption
  <1>10. \A d \in DOMAIN cfg.dir : cfg.dir[d].mp4 => Suits(cfg.dir[d], loop)
    BY <1>2, <1>7, <1>8, Zenon DEF Suits
  <1>11. \E d \in DOMAIN cfg.dir : cfg.dir[d].mp4
    <2>1. PICK f : f \in files
      BY <1>1
    <2> QED BY <1>3, <2>1, Zenon
  <1>12. \A d, e \in DOMAIN cfg.dir :
              /\ cfg.dir[d].mp4 /\ ContentType(cfg.dir[d].type) = "video"
              /\ cfg.dir[e].mp4 /\ ContentType(cfg.dir[e].type) = "video"
              => cfg.dir[d].timeScale = cfg.dir[e].timeScale
    BY <1>1, <1>2, <1>4, Zenon
  <1>13. \A d \in DOMAIN cfg.dir : cfg.dir[d].mp4 =>
              LET f == cfg.dir[d]
              IN  /\ Regular(f) /\ LengthMS(f) < Word /\ Len(Trimmed(f)) >= 2
                  /\ 2 * cfg.batch[ContentType(f.type)] <= Len(Trimmed(f))
    BY <1>1, <1>2, Zenon
  <1> QED BY <1>9, <1>10, <1>11, <1>12, <1>13, Zenon

\* The 32-bit products of generateTrackGroups and setLoopDuration are exact.
LEMMA ExactDuration ==
  ASSUME NEW f \in FileType, IsFile(f), LengthMS(f) < Word, NEW c, NEW t, Rendition(c, t, f)
  PROVE  /\ LengthMS(f) \in Nat /\ t.duration \in Nat /\ t.duration * MsPerSecond = LengthMS(f)
         /\ Wrap(t.duration * MsPerSecond) = LengthMS(f) /\ t.duration = t.nrSamples * t.sampleDur
  <1> DEFINE D == Len(Trimmed(f)) * SampleDur(f.samples)
  <1>1. D \in Nat
    <2>1. Len(Trimmed(f)) \in Nat /\ SampleDur(f.samples) \in Nat
      BY LoadedType
    <2> QED BY <2>1
  <1>2. LengthMS(f) = D * MsPerSecond /\ t.duration = Wrap(D)
    BY DEF LengthMS, Rendition
  <1> HIDE DEF D
  <1>3. D * MsPerSecond \in Nat
    BY <1>1, UnitAssumption
  <1>4. D <= D * MsPerSecond
    <2>1. 1 * D <= MsPerSecond * D
      BY <1>1, UnitAssumption, MulMono
    <2> QED BY <1>1, <2>1, UnitAssumption
  <1>5. D < Word
    BY <1>1, <1>2, <1>3, <1>4, AssetAssumption
  <1>6. t.duration = D
    BY <1>1, <1>2, <1>5, WrapSmall
  <1>7. t.nrSamples * t.sampleDur = D
    BY DEF Rendition, D
  <1> QED BY <1>1, <1>2, <1>3, <1>6, <1>7, WrapSmall

LEMMA SuitsSmall ==
  ASSUME NEW f \in FileType, NEW loop \in Nat, Suits(f, loop), LengthMS(f) \in Nat, LengthMS(f) < Word
  PROVE  Wrap(loop * f.timeScale) = loop * f.timeScale
  <1>1. f.timeScale \in Nat
    BY DEF FileType
  <1> DEFINE x == loop * f.timeScale
  <1>2. x \in Nat /\ LengthMS(f) >= x
    BY <1>1 DEF Suits
  <1> HIDE DEF x
  <1>3. x < Word
    BY <1>2, AssetAssumption
  <1>4. Wrap(x) = x
    BY <1>2, <1>3, WrapSmall
  <1> QED BY <1>4 DEF x

\* generateTrackGroups finds video tracks of one duration.
LEMMA EqualDurations ==
  ASSUME IInv, Conforming(cfg), pc = "groups", NEW i \in DOMAIN tracksByType["video"]
  PROVE  tracksByType["video"][i].duration = tracksByType["video"][1].duration
  <1> DEFINE L == tracksByType["video"]
  <1>1. ListOf(cfg, L, "video", Len(cfg.dir), Applied)
    <2>1. cfg \in Configs /\ entry = Len(cfg.dir) + 1 /\ ListOf(cfg, L, "video", entry - 1, Applied)
      BY DEF IInv, Lists
    <2>2. entry - 1 = Len(cfg.dir)
      BY <2>1, ConfigFacts
    <2> QED BY <2>1, <2>2
  <1>2. cfg \in Configs
    BY DEF IInv
  <1>3. DOMAIN cfg.dir = 1 .. Len(cfg.dir) /\ \A d \in DOMAIN cfg.dir : cfg.dir[d] \in FileType /\ IsFile(cfg.dir[d])
    BY <1>2, ConfigFacts
  <1> HIDE DEF L
  <1>4. PICK loop \in Nat : \A d \in DOMAIN cfg.dir : cfg.dir[d].mp4 => Suits(cfg.dir[d], loop)
    BY <1>2, ConformingFacts, Zenon
  <1>5. ASSUME NEW k \in DOMAIN L
        PROVE  \E d \in DOMAIN cfg.dir :
                 /\ cfg.dir[d].mp4 /\ ContentType(cfg.dir[d].type) = "video"
                 /\ L[k].duration \in Nat /\ L[k].duration * MsPerSecond = loop * cfg.dir[d].timeScale
    <2>1. Made(cfg, L[k], Len(cfg.dir), Applied) /\ ContentType(L[k].type) = "video"
      BY <1>1, <1>5, Zenon DEF ListOf
    <2>2. PICK d \in DOMAIN cfg.dir : cfg.dir[d].mp4 /\ Rendition(cfg, L[k], cfg.dir[d])
      BY <1>3, <2>1, Zenon DEF Made, Usable
    <2>3. LengthMS(cfg.dir[d]) < Word
      BY <1>2, <2>2, ConformingFacts, Zenon
    <2>4. L[k].duration \in Nat /\ L[k].duration * MsPerSecond = LengthMS(cfg.dir[d])
      BY <1>3, <2>2, <2>3, ExactDuration
    <2>5. ContentType(cfg.dir[d].type) = "video"
      BY <2>1, <2>2, Zenon DEF Rendition
    <2>6. LengthMS(cfg.dir[d]) = loop * cfg.dir[d].timeScale
      BY <1>4, <2>2, <2>5, Zenon DEF Suits
    <2> QED BY <2>2, <2>4, <2>5, <2>6, Zenon
  <1>6. 1 \in DOMAIN L /\ i \in DOMAIN L
    <2>1. L \in Seq(TrackType) /\ i \in DOMAIN L
      BY <1>1 DEF ListOf, L
    <2> QED BY <2>1
  <1>7. PICK d \in DOMAIN cfg.dir :
                 /\ cfg.dir[d].mp4 /\ ContentType(cfg.dir[d].type) = "video"
                 /\ L[i].duration \in Nat /\ L[i].duration * MsPerSecond = loop * cfg.dir[d].timeScale
    BY <1>5, <1>6, Zenon
  <1>8. PICK e \in DOMAIN cfg.dir :
                 /\ cfg.dir[e].mp4 /\ ContentType(cfg.dir[e].type) = "video"
                 /\ L[1].duration \in Nat /\ L[1].duration * MsPerSecond = loop * cfg.dir[e].timeScale
    BY <1>5, <1>6, Zenon
  <1>9. cfg.dir[d].timeScale = cfg.dir[e].timeScale
    BY <1>2, <1>7, <1>8, ConformingFacts, Zenon
  <1> DEFINE a == L[i].duration  b == L[1].duration
  <1>10. a \in Nat /\ b \in Nat /\ a * MsPerSecond = b * MsPerSecond
    BY <1>7, <1>8, <1>9, Zenon
  <1> HIDE DEF a, b
  <1>11. a * MsPerSecond \in Nat /\ b * MsPerSecond \in Nat /\ MsPerSecond \in Nat \ {0}
    BY <1>10, UnitAssumption
  <1>12. a <= b /\ b <= a
    <2>1. a * MsPerSecond <= b * MsPerSecond /\ b * MsPerSecond <= a * MsPerSecond
      BY <1>10, <1>11
    <2> QED BY <1>10, <1>11, <2>1, MulCancel
  <1>13. a = b
    BY <1>10, <1>12
  <1> QED BY <1>13 DEF a, b, L

\* setLoopDuration accepts every track, and the loop lasts a tick of each.
LEMMA LoopAccepted ==
  ASSUME IInv, Conforming(cfg), pc \in HasGroups
  PROVE  /\ groups # <<>>
         /\ \A g \in DOMAIN groups : \A i \in DOMAIN groups[g] :
              /\ FitsLoop(groups[g][i], g, LoopMS(groups))
              /\ LoopMS(groups) \in Nat /\ LoopMS(groups) * groups[g][i].timeScale >= MsPerSecond
              /\ Wrap(LoopMS(groups) * groups[g][i].timeScale) = LoopMS(groups) * groups[g][i].timeScale
  <1>1. cfg \in Configs /\ Grouped(cfg, groups, Applied) /\ "none" \in Applied
    BY DEF IInv, HasGroups, Applied
  <1>2. DOMAIN cfg.dir = 1 .. Len(cfg.dir) /\ \A d \in DOMAIN cfg.dir : cfg.dir[d] \in FileType /\ IsFile(cfg.dir[d])
    BY <1>1, ConfigFacts
  <1>3. PICK loop \in Nat : \A d \in DOMAIN cfg.dir : cfg.dir[d].mp4 => Suits(cfg.dir[d], loop)
    BY <1>1, ConformingFacts, Zenon
  <1>4. groups # <<>>
    <2>1. PICK d \in DOMAIN cfg.dir : cfg.dir[d].mp4
      BY <1>1, ConformingFacts, Zenon
    <2>2. PICK g \in DOMAIN groups : TRUE
      BY <1>1, <2>1, Zenon DEF Grouped
    <2> QED BY <2>2
  <1>5. ASSUME NEW g \in DOMAIN groups, NEW k \in DOMAIN groups[g]
        PROVE  \E d \in DOMAIN cfg.dir :
                 LET f == cfg.dir[d]  t == groups[g][k]
                 IN  /\ Suits(f, loop) /\ ContentType(f.type) = KindOf(cfg, g) /\ f \in FileType
                     /\ t.timeScale = f.timeScale /\ Wrap(t.duration * MsPerSecond) = LengthMS(f)
                     /\ LengthMS(f) \in Nat /\ LengthMS(f) < Word
    <2>1. Made(cfg, groups[g][k], Len(cfg.dir), Applied) /\ ContentType(groups[g][k].type) = KindOf(cfg, g)
      BY <1>1, Zenon DEF Grouped
    <2>2. PICK d \in DOMAIN cfg.dir : cfg.dir[d].mp4 /\ Rendition(cfg, groups[g][k], cfg.dir[d])
      BY <1>2, <2>1, Zenon DEF Made, Usable
    <2>3. LengthMS(cfg.dir[d]) < Word
      BY <1>1, <2>2, ConformingFacts, Zenon
    <2>4. LengthMS(cfg.dir[d]) \in Nat /\ Wrap(groups[g][k].duration * MsPerSecond) = LengthMS(cfg.dir[d])
      BY <1>2, <2>2, <2>3, ExactDuration
    <2>5. ContentType(cfg.dir[d].type) = KindOf(cfg, g) /\ groups[g][k].timeScale = cfg.dir[d].timeScale
      BY <2>1, <2>2, Zenon DEF Rendition
    <2> QED BY <1>2, <1>3, <2>2, <2>3, <2>4, <2>5, Zenon
  <1>6. KindOf(cfg, 1) = "video" \/ ~Has(cfg, "video")
    BY DEF KindOf
  <1>7. LoopMS(groups) = loop
    <2>1. 1 \in DOMAIN groups /\ 1 \in DOMAIN groups[1]
      BY <1>1, <1>4, LoopMSType
    <2>2. PICK d \in DOMAIN cfg.dir :
                 LET f == cfg.dir[d]  t == groups[1][1]
                 IN  /\ Suits(f, loop) /\ ContentType(f.type) = KindOf(cfg, 1) /\ f \in FileType
                     /\ t.timeScale = f.timeScale /\ Wrap(t.duration * MsPerSecond) = LengthMS(f)
      BY <1>5, <2>1, Zenon
    <2> DEFINE T == groups[1][1].timeScale
    <2>3. Wrap(groups[1][1].duration * MsPerSecond) = loop * T
      BY <1>6, <2>2, Zenon DEF Suits
    <2>4. T \in Nat \ {0}
      BY <2>2 DEF FileType
    <2> HIDE DEF T
    <2>5. (loop * T) \div T = loop
      BY <2>4, DivOfProduct
    <2> QED BY <2>3, <2>5, Zenon DEF LoopMS, T
  <1>8. ASSUME NEW g \in DOMAIN groups, NEW k \in DOMAIN groups[g]
        PROVE  /\ FitsLoop(groups[g][k], g, loop) /\ loop * groups[g][k].timeScale >= MsPerSecond
               /\ Wrap(loop * groups[g][k].timeScale) = loop * groups[g][k].timeScale
    <2> DEFINE t == groups[g][k]
    <2>1. PICK d \in DOMAIN cfg.dir :
                 LET f == cfg.dir[d]
                 IN  /\ Suits(f, loop) /\ ContentType(f.type) = KindOf(cfg, g) /\ f \in FileType
                     /\ t.timeScale = f.timeScale /\ Wrap(t.duration * MsPerSecond) = LengthMS(f)
                     /\ LengthMS(f) \in Nat /\ LengthMS(f) < Word
      BY <1>5, Zenon
    <2> DEFINE f == cfg.dir[d]
    <2>2. Wrap(loop * f.timeScale) = loop * f.timeScale
      BY <2>1, SuitsSmall
    <2>3. LengthMS(f) >= loop * f.timeScale /\ (g = 1 => LengthMS(f) = loop * f.timeScale)
      BY <1>6, <2>1, Zenon DEF Suits
    <2> HIDE DEF t, f
    <2>4. ASSUME g = 1 PROVE FitsLoop(t, g, loop)
      BY <2>1, <2>2, <2>3, <2>4, Zenon DEF FitsLoop, f
    <2>5. ASSUME g # 1 PROVE FitsLoop(t, g, loop)
      BY <2>1, <2>2, <2>3, <2>5, Zenon DEF FitsLoop, f
    <2>6. FitsLoop(t, g, loop)
      BY <2>4, <2>5, Zenon
    <2>7. loop * t.timeScale >= MsPerSecond /\ Wrap(loop * t.timeScale) = loop * t.timeScale
      BY <2>1, <2>2, Zenon DEF Suits, f
    <2> QED BY <2>6, <2>7, Zenon DEF t
  <1> QED BY <1>4, <1>7, <1>8, Zenon

\* The loop of a track lasts, and no longer than the track.
LEMMA LoopInTrack ==
  ASSUME IInv, Conforming(cfg), pc \in Building, NEW i \in DOMAIN AllTracks
  PROVE  LET t == AllTracks[i]
         IN  /\ t \in TrackType /\ t.loopDur # 0 /\ t.loopDur <= t.nrSamples * t.sampleDur
             /\ t.nrSamples >= 2 /\ 2 * t.sampleBatch <= t.nrSamples
  <1> DEFINE t == AllTracks[i]  m == LoopMS(groups)  T == t.timeScale  L == t.loopDur  D == t.duration
  <1>0. pc \in HasGroups /\ cfg \in Configs
    BY DEF IInv, HasGroups
  <1>1. t \in Renditions
    BY Zenon DEF Renditions, ToSet
  <1>2. PICK d \in DOMAIN cfg.dir : cfg.dir[d].mp4 /\ Rendition(cfg, t, cfg.dir[d])
    BY <1>0, <1>1, RenditionFile, Zenon DEF Usable
  <1>3. cfg.dir[d] \in FileType /\ IsFile(cfg.dir[d])
    BY <1>0, ConfigFacts
  <1>4. /\ LengthMS(cfg.dir[d]) < Word /\ Len(Trimmed(cfg.dir[d])) >= 2
        /\ 2 * cfg.batch[ContentType(cfg.dir[d].type)] <= Len(Trimmed(cfg.dir[d]))
    BY <1>0, <1>2, ConformingFacts, Zenon
  <1>5. t \in TrackType /\ t.nrSamples >= 2 /\ 2 * t.sampleBatch <= t.nrSamples
    BY <1>2, <1>4, Zenon DEF Rendition
  <1>6. D \in Nat /\ Wrap(D * MsPerSecond) = D * MsPerSecond /\ D = t.nrSamples * t.sampleDur
    BY <1>2, <1>3, <1>4, ExactDuration
  <1>7. Looped(groups, m)
    BY DEF IInv, Looped
  <1>8. PICK g \in DOMAIN groups :
          /\ FitsLoop(t, g, m) /\ L = LoopDur(t, g, m)
          /\ m \in Nat /\ m * T >= MsPerSecond /\ Wrap(m * T) = m * T
    <2>1. PICK g \in DOMAIN groups : \E k \in DOMAIN groups[g] : t = groups[g][k]
      BY <1>0, AllTracksFacts
    <2>2. PICK k \in DOMAIN groups[g] : t = groups[g][k]
      BY <2>1
    <2>3. FitsLoop(t, g, m) /\ L = LoopDur(t, g, m)
      BY <1>7, <2>2, Zenon DEF Looped
    <2>4. m \in Nat /\ m * T >= MsPerSecond /\ Wrap(m * T) = m * T
      BY <1>0, <2>2, LoopAccepted, Zenon
    <2> QED BY <2>3, <2>4
  <1>9. T \in Nat
    BY <1>5 DEF TrackType
  <1> DEFINE x == m * T
  <1>10. x \in Nat /\ x >= MsPerSecond /\ MsPerSecond \in Nat \ {0}
    BY <1>8, <1>9, UnitAssumption
  <1>11. \/ L = D /\ D * MsPerSecond = x
         \/ L = x \div MsPerSecond /\ D * MsPerSecond >= x
    BY <1>6, <1>8, Zenon DEF FitsLoop, LoopDur
  <1> HIDE DEF x, L, D
  <1>12. CASE L = D /\ D * MsPerSecond = x
    <2>1. D # 0
      BY <1>10, <1>12
    <2> QED BY <1>5, <1>6, <1>12, <2>1 DEF L, D
  <1>13. CASE L = x \div MsPerSecond /\ D * MsPerSecond >= x
    <2>1. L <= D
      BY <1>6, <1>10, <1>13, LoopTruncated
    <2>2. L # 0
      <3>1. ASSUME L = 0 PROVE FALSE
        <4>1. x < (x \div MsPerSecond + 1) * MsPerSecond
          BY <1>10, DivBounds
        <4>2. x \div MsPerSecond = 0
          BY <1>13, <3>1
        <4>3. x < MsPerSecond
          BY <1>10, <4>1, <4>2
        <4> QED BY <1>10, <4>3
      <3> QED BY <3>1
    <2> QED BY <1>5, <1>6, <2>1, <2>2 DEF L, D
  <1> QED BY <1>11, <1>12, <1>13

\* The bit rates of every track can be measured.
LEMMA AllMeasurable ==
  ASSUME IInv, Conforming(cfg), pc \in Building, NEW i \in DOMAIN AllTracks
  PROVE  Measurable(AllTracks[i])
  <1> DEFINE t == AllTracks[i]  b == MeasuredBatch(t)
  <1>1. /\ t \in TrackType /\ t.loopDur # 0 /\ t.loopDur <= t.nrSamples * t.sampleDur
        /\ t.nrSamples >= 2 /\ 2 * t.sampleBatch <= t.nrSamples
    BY LoopInTrack
  <1> HIDE DEF t
  <1>2. t.sampleBatch \in Int /\ t.nrSamples \in Nat
    BY <1>1 DEF TrackType
  <1>3. b \in Nat /\ 2 * b <= t.nrSamples
    BY <1>1, <1>2 DEF MeasuredBatch
  <1> HIDE DEF b
  <1>4. ASSUME t.sampleDur # 0, NEW nr \in 0 .. (2 * b - 1) PROVE OrigNr(t, nr) < t.nrSamples
    <2>1. nr \in Nat
      BY <1>3
    <2> QED BY <1>1, <1>4, <2>1, TurnOf
  <1>5. Measurable(t)
    BY <1>1, <1>3, <1>4, Zenon DEF Measurable, b
  <1> QED BY <1>5 DEF t

\* mlmpub serves every directory that conforms: no check of the loader refuses it and
\* no step stops the program.
THEOREM ConformingServed == Spec => []ConformingAssetServed
  <1>1. Init => ConformingAssetServed
    BY DEF Init, ConformingAssetServed
  <1>2. IInv /\ ConformingAssetServed /\ [Next]_vars => ConformingAssetServed'
    <2> SUFFICES ASSUME IInv, ConformingAssetServed, [Next]_vars, Conforming(cfg')
                 PROVE  pc' \notin {"failed", "panic"}
      BY DEF ConformingAssetServed
    <2>1. cfg' = cfg
      BY DEF Next, vars, ParseTrack, ProtectDRM, ProtectECCP, ProtectTracks, GenerateTrackGroups,
             SetLoopDuration, AddSubtitleTracks, SetCC608Generator, AddMSF, AddMoqMI, AddCMSF, AddNamespace
    <2>2. Conforming(cfg)
      BY <2>1
    <2>3. pc \notin {"failed", "panic"} /\ cfg \in Configs
      BY <2>2 DEF ConformingAssetServed, IInv
    <2>4. CASE ParseTrack
      <3> DEFINE f == cfg.dir[entry]
      <3>1. entry \in DOMAIN cfg.dir /\ pc = "parse"
        BY <2>3, <2>4, ConfigFacts DEF ParseTrack, IInv
      <3>2. f.mp4 => Trimmed(f) # <<>> /\ Loadable(f)
        <4>1. f \in FileType /\ (f.mp4 => Regular(f))
          BY <2>2, <2>3, <3>1, ConfigFacts, ConformingFacts, Zenon
        <4> QED BY <4>1, RegularLoads
      <3>3. pc' = pc
        BY <2>4, <3>2, Zenon DEF ParseTrack
      <3> QED BY <2>3, <3>3
    <2>5. CASE ProtectDRM \/ ProtectECCP
      BY <2>5 DEF ProtectDRM, ProtectECCP, ProtectTracks
    <2>6. CASE GenerateTrackGroups
      <3>1. pc = "groups"
        BY <2>6 DEF GenerateTrackGroups
      <3>2. ~\E i \in DOMAIN tracksByType["video"] :
               tracksByType["video"][i].duration # tracksByType["video"][1].duration
        BY <2>2, <3>1, EqualDurations, Zenon
      <3>3. pc' = "loop"
        BY <2>6, <3>2, Zenon DEF GenerateTrackGroups
      <3> QED BY <3>3
    <2>7. CASE SetLoopDuration
      <3>1. pc = "loop"
        BY <2>7 DEF SetLoopDuration
      <3>2. /\ groups # <<>>
            /\ \A g \in DOMAIN groups : \A i \in DOMAIN groups[g] : FitsLoop(groups[g][i], g, LoopMS(groups))
        BY <2>2, <3>1, LoopAccepted DEF HasGroups
      <3>3. pc' = "subs"
        BY <2>7, <3>2, Zenon DEF SetLoopDuration
      <3> QED BY <3>3
    <2>8. CASE AddSubtitleTracks \/ SetCC608Generator \/ AddMSF \/ AddMoqMI
      <3>1. pc' \in {"cc608", "msf", "moqmi", "none"}
        BY <2>8, Zenon DEF AddSubtitleTracks, SetCC608Generator, AddMSF, AddMoqMI
      <3> QED BY <3>1
    <2>9. ASSUME NEW prot \in Prots, NEW at \in Building, AddCMSF(prot, at)
          PROVE  pc' \notin {"failed", "panic"}
      <3>1. pc \in Building
        BY <2>9 DEF AddCMSF
      <3>2. ~\E i \in DOMAIN AllTracks : AllTracks[i].prot = prot /\ ~Measurable(AllTracks[i])
        BY <2>2, <3>1, AllMeasurable, Zenon
      <3>3. pc' = NextProt(prot)
        BY <2>9, <3>2, Zenon DEF AddCMSF
      <3> QED BY <3>3 DEF NextProt, Prots
    <2>10. CASE AddCMSF("none", "none") \/ AddCMSF("drm", "drm") \/ AddCMSF("eccp", "eccpns")
      BY <2>9, <2>10 DEF Prots, Building
    <2>11. CASE UNCHANGED vars
      BY <2>3, <2>11 DEF vars
    <2> QED BY <2>4, <2>5, <2>6, <2>7, <2>8, <2>10, <2>11 DEF Next
  <1> QED BY <1>1, <1>2, Invariance, PTL DEF Spec

-----------------------------------------------------------------------------
(* The catalogs. *)

\* Sequences of whatever, put together.
IsSeq(s) == Indexed(s, 1 .. Len(s)) /\ Len(s) \in Nat /\ DOMAIN s = 1 .. Len(s)

LEMMA IsSeqOf ==
  ASSUME NEW T, NEW s \in Seq(T)
  PROVE  IsSeq(s)
  <1>1. Len(s) \in Nat /\ DOMAIN s = 1 .. Len(s)
    OBVIOUS
  <1>2. s = [k \in 1 .. Len(s) |-> s[k]]
    OBVIOUS
  <1> QED BY <1>1, <1>2, Zenon DEF IsSeq, Indexed

LEMMA IndexedIsSeq ==
  ASSUME NEW n \in Nat, NEW s, Indexed(s, 1 .. n)
  PROVE  IsSeq(s) /\ Len(s) = n
  <1> DEFINE T == {s[k] : k \in 1 .. n}
  <1>1. DOMAIN s = 1 .. n
    BY Zenon DEF Indexed
  <1>2. \A k \in 1 .. n : s[k] \in T
    OBVIOUS
  <1> HIDE DEF T
  <1>3. s \in Seq(T)
    BY <1>2, IndexedSeq, Zenon
  <1>4. Len(s) = n
    BY <1>1, <1>3
  <1> QED BY <1>3, <1>4, IsSeqOf

Joined(G, F, S) ==
  /\ DOMAIN G = 1 .. Len(F) + Len(S)
  /\ \A k \in 1 .. Len(F) : G[k] = F[k]
  /\ \A j \in 1 .. Len(S) : G[Len(F) + j] = S[j]
LEMMA Concatenated ==
  ASSUME NEW F, NEW S, IsSeq(F), IsSeq(S)
  PROVE  IsSeq(F \o S) /\ Joined(F \o S, F, S)
  <1> DEFINE V == {F[k] : k \in 1 .. Len(F)} \cup {S[k] : k \in 1 .. Len(S)}
  <1>1. /\ Indexed(F, 1 .. Len(F)) /\ Len(F) \in Nat /\ \A k \in 1 .. Len(F) : F[k] \in V
        /\ Indexed(S, 1 .. Len(S)) /\ Len(S) \in Nat /\ \A k \in 1 .. Len(S) : S[k] \in V
    BY Zenon DEF IsSeq
  <1> HIDE DEF V
  <1>2. F \in Seq(V) /\ S \in Seq(V)
    BY <1>1, IndexedSeq, Zenon
  <1>3. F \o S \in Seq(V)
    BY <1>2
  <1>4. Joined(F \o S, F, S)
    BY <1>2 DEF Joined
  <1> QED BY <1>3, <1>4, IsSeqOf

LEMMA FlatPlaces ==
  ASSUME NEW n \in Nat, NEW seqs, Indexed(seqs, 1 .. n), \A i \in 1 .. n : IsSeq(seqs[i])
  PROVE  /\ IsSeq(FlattenSeq(seqs))
         /\ \E b, p : Placed(FlattenSeq(seqs), seqs, n, b, p)
  <1> DEFINE T == UNION {{seqs[i][j] : j \in DOMAIN seqs[i]} : i \in 1 .. n}
  <1>1. ASSUME NEW i \in 1 .. n PROVE seqs[i] \in Seq(T)
    <2>1. IsSeq(seqs[i])
      OBVIOUS
    <2>2. Indexed(seqs[i], 1 .. Len(seqs[i])) /\ Len(seqs[i]) \in Nat /\ DOMAIN seqs[i] = 1 .. Len(seqs[i])
      BY <2>1, Zenon DEF IsSeq
    <2>3. \A k \in 1 .. Len(seqs[i]) : seqs[i][k] \in T
      <3> TAKE k \in 1 .. Len(seqs[i])
      <3>1. k \in DOMAIN seqs[i]
        BY <2>2
      <3>2. seqs[i][k] \in {seqs[i][j] : j \in DOMAIN seqs[i]}
        BY <3>1
      <3> QED BY <3>2
    <2> HIDE DEF T
    <2> QED BY <2>2, <2>3, IndexedSeq, Zenon
  <1> HIDE DEF T
  <1>2. seqs \in Seq(Seq(T))
    BY <1>1, IndexedSeq, Zenon
  <1>3. Len(seqs) = n
    <2>1. DOMAIN seqs = 1 .. n
      BY Zenon DEF Indexed
    <2>2. Len(seqs) \in Nat /\ DOMAIN seqs = 1 .. Len(seqs)
      BY <1>2
    <2> QED BY <2>1, <2>2
  <1>4. FlattenSeq(seqs) \in Seq(T) /\ \E b, p : Placed(FlattenSeq(seqs), seqs, n, b, p)
    BY <1>2, <1>3, FlattenPlaces
  <1> QED BY <1>4, IsSeqOf

\* The two entries of a track in a CMSF catalog.
LEMMA PairFacts ==
  ASSUME NEW t
  PROVE  /\ IsSeq(CmafPair(t)) /\ Len(CmafPair(t)) = 2
         /\ \A j \in {1, 2} :
              LET e == CmafPair(t)[j]
              IN  /\ e.of = t.of /\ e.role = ContentType(t.type) /\ e.prot = t.prot
                  /\ e.init = <<"init">> \o t.name /\ (e.captions <=> Advertises(t))
         /\ CmafPair(t)[1].name = t.name /\ CmafPair(t)[1].packaging = "cmaf"
         /\ CmafPair(t)[2].name = Append(t.name, "_locmaf") /\ CmafPair(t)[2].packaging = "locmaf"
  <1> DEFINE base(name, packaging) ==
               [CatalogTrack(t, name, packaging, <<"init">> \o t.name) EXCEPT !.captions = Advertises(t)]
             x == base(t.name, "cmaf")  y == base(Append(t.name, "_locmaf"), "locmaf")
  <1>1. CmafPair(t) = <<x, y>>
    BY Zenon DEF CmafPair
  <1>2. ASSUME NEW name, NEW packaging
        PROVE  LET e == base(name, packaging)
               IN  /\ e.name = name /\ e.packaging = packaging
                   /\ e.of = t.of /\ e.role = ContentType(t.type) /\ e.prot = t.prot
                   /\ e.init = <<"init">> \o t.name /\ (e.captions <=> Advertises(t))
    <2> DEFINE c == CatalogTrack(t, name, packaging, <<"init">> \o t.name)  e == [c EXCEPT !.captions = Advertises(t)]
    <2>1. /\ c.name = name /\ c.packaging = packaging /\ c.of = t.of /\ c.role = ContentType(t.type)
          /\ c.prot = t.prot /\ c.init = <<"init">> \o t.name
      BY Zenon DEF CatalogTrack
    <2>2. /\ e.name = c.name /\ e.packaging = c.packaging /\ e.of = c.of /\ e.role = c.role
          /\ e.prot = c.prot /\ e.init = c.init
      BY Zenon DEF CatalogTrack
    <2>3. e.captions <=> Advertises(t)
      <3>1. "captions" \in DOMAIN c
        BY DEF CatalogTrack
      <3> HIDE DEF c
      <3> QED BY <3>1, Zenon
    <2> HIDE DEF c, e
    <2>4. /\ e.name = name /\ e.packaging = packaging
          /\ e.of = t.of /\ e.role = ContentType(t.type) /\ e.prot = t.prot
          /\ e.init = <<"init">> \o t.name /\ (e.captions <=> Advertises(t))
      BY <2>1, <2>2, <2>3, Zenon
    <2> QED BY <2>4, Zenon DEF c, e
  <1> HIDE DEF base
  <1>3. CmafPair(t) \in Seq({x, y}) /\ Len(CmafPair(t)) = 2 /\ CmafPair(t)[1] = x /\ CmafPair(t)[2] = y
    BY <1>1
  <1>4. IsSeq(CmafPair(t))
    BY <1>3, IsSeqOf
  <1>5. /\ x.name = t.name /\ x.packaging = "cmaf"
        /\ x.of = t.of /\ x.role = ContentType(t.type) /\ x.prot = t.prot
        /\ x.init = <<"init">> \o t.name /\ (x.captions <=> Advertises(t))
    BY <1>2, Zenon
  <1>6. /\ y.name = Append(t.name, "_locmaf") /\ y.packaging = "locmaf"
        /\ y.of = t.of /\ y.role = ContentType(t.type) /\ y.prot = t.prot
        /\ y.init = <<"init">> \o t.name /\ (y.captions <=> Advertises(t))
    BY <1>2, Zenon
  <1> HIDE DEF x, y
  <1> QED BY <1>3, <1>4, <1>5, <1>6, Zenon

\* Where the entries of a CMSF catalog come from: the first n from the tracks of the
\* protection, two from each, the others from the subtitle tracks.
CmafAt(prot, n, b, p) ==
  LET F == CmafTracks(prot)
  IN  /\ n \in Nat /\ DOMAIN F = 1 .. n + Len(subs)
      /\ \A k \in 1 .. n : /\ b[k] \in DOMAIN AllTracks /\ AllTracks[b[k]].prot = prot
                           /\ p[k] \in {1, 2} /\ F[k] = CmafPair(AllTracks[b[k]])[p[k]]
      /\ \A k, l \in 1 .. n : b[k] = b[l] /\ p[k] = p[l] => k = l
      /\ \A i \in DOMAIN AllTracks : AllTracks[i].prot = prot =>
           \A j \in {1, 2} : \E k \in 1 .. n : b[k] = i /\ p[k] = j
      /\ \A j \in 1 .. Len(subs) : F[n + j] = SubtitleEntry(subs[j])

LEMMA CmafPlaces ==
  ASSUME IInv, pc \in Building, NEW prot
  PROVE  \E n, b, p : CmafAt(prot, n, b, p)
  <1> DEFINE A == AllTracks
             One(t) == IF t.prot = prot THEN CmafPair(t) ELSE <<>>
             seqs == [i \in DOMAIN A |-> One(A[i])]
             F == FlattenSeq(seqs)
             S == [i \in DOMAIN subs |-> SubtitleEntry(subs[i])]
  <1>0. pc \in HasGroups
    BY DEF HasGroups
  <1>1. DOMAIN A = 1 .. Len(A) /\ Len(A) \in Nat
    BY <1>0, AllTracksFacts
  <1>2. CmafTracks(prot) = F \o S
    BY Zenon DEF CmafTracks
  <1>3. DOMAIN subs = 1 .. Len(subs) /\ Len(subs) \in Nat
    <2>1. Subtitled(subs)
      BY DEF IInv, Building
    <2> QED BY <2>1 DEF Subtitled
  <1>4. \A t : /\ t.prot = prot => One(t) = CmafPair(t) /\ IsSeq(One(t)) /\ Len(One(t)) = 2
               /\ t.prot # prot => IsSeq(One(t)) /\ Len(One(t)) = 0
    <2> TAKE t
    <2>1. IsSeq(CmafPair(t)) /\ Len(CmafPair(t)) = 2
      BY PairFacts
    <2>2. <<>> \in Seq({}) /\ Len(<<>>) = 0
      OBVIOUS
    <2>3. IsSeq(<<>>)
      BY <2>2, IsSeqOf
    <2> QED BY <2>1, <2>2, <2>3, Zenon
  <1> HIDE DEF A, One
  <1>5. Indexed(seqs, 1 .. Len(A)) /\ \A i \in 1 .. Len(A) : seqs[i] = One(A[i])
    <2>1. \A i \in 1 .. Len(A) : seqs[i] = One(A[i])
      BY <1>1, Zenon
    <2> QED BY <1>1, <2>1, Zenon DEF Indexed
  <1> HIDE DEF seqs
  <1>6. \A i \in 1 .. Len(A) : IsSeq(seqs[i])
    BY <1>4, <1>5, Zenon
  <1>7. IsSeq(F) /\ \E b, p : Placed(F, seqs, Len(A), b, p)
    BY <1>1, <1>5, <1>6, FlatPlaces
  <1> DEFINE n == Len(F)
  <1>8. PICK b, p : Placed(F, seqs, Len(A), b, p)
    BY <1>7
  <1> HIDE DEF F
  <1>9. n \in Nat /\ IsSeq(F)
    BY <1>7, Zenon DEF IsSeq
  <1>10. IsSeq(S) /\ Len(S) = Len(subs) /\ \A j \in 1 .. Len(subs) : S[j] = SubtitleEntry(subs[j])
    <2>1. Indexed(S, 1 .. Len(subs)) /\ \A j \in 1 .. Len(subs) : S[j] = SubtitleEntry(subs[j])
      BY <1>3, Zenon DEF Indexed
    <2> HIDE DEF S
    <2> QED BY <1>3, <2>1, IndexedIsSeq
  <1> HIDE DEF S
  <1>11. /\ DOMAIN (F \o S) = 1 .. n + Len(subs)
         /\ \A k \in 1 .. n : (F \o S)[k] = F[k]
         /\ \A j \in 1 .. Len(subs) : (F \o S)[n + j] = S[j]
    <2>1. IsSeq(F) /\ IsSeq(S)
      BY <1>9, <1>10, Zenon
    <2>2. Joined(F \o S, F, S)
      BY <2>1, Concatenated
    <2>3. Len(S) = Len(subs)
      BY <1>10, Zenon
    <2> QED BY <2>2, <2>3, Zenon DEF Joined
  <1> HIDE DEF n
  <1>12. /\ \A k \in 1 .. n : b[k] \in 1 .. Len(A) /\ p[k] \in 1 .. Len(seqs[b[k]]) /\ F[k] = seqs[b[k]][p[k]]
         /\ \A k, l \in 1 .. n : b[k] = b[l] /\ p[k] = p[l] => k = l
         /\ \A i \in 1 .. Len(A) : \A j \in 1 .. Len(seqs[i]) : \E k \in 1 .. n : b[k] = i /\ p[k] = j
    BY <1>8, Zenon DEF Placed, n
  <1>13. ASSUME NEW k \in 1 .. n
         PROVE  /\ b[k] \in DOMAIN A /\ A[b[k]].prot = prot /\ p[k] \in {1, 2}
                /\ F[k] = CmafPair(A[b[k]])[p[k]]
    <2>1. b[k] \in 1 .. Len(A) /\ p[k] \in 1 .. Len(One(A[b[k]])) /\ F[k] = One(A[b[k]])[p[k]]
      BY <1>5, <1>12
    <2>2. A[b[k]].prot = prot
      <3> SUFFICES ASSUME A[b[k]].prot # prot PROVE FALSE
        OBVIOUS
      <3>1. Len(One(A[b[k]])) = 0
        BY <1>4
      <3> QED BY <2>1, <3>1
    <2>3. Len(One(A[b[k]])) = 2 /\ One(A[b[k]]) = CmafPair(A[b[k]])
      BY <1>4, <2>2
    <2>4. p[k] \in {1, 2}
      BY <2>1, <2>3
    <2> QED BY <1>1, <2>1, <2>2, <2>3, <2>4
  <1>14. ASSUME NEW i \in DOMAIN A, A[i].prot = prot, NEW j \in {1, 2}
         PROVE  \E k \in 1 .. n : b[k] = i /\ p[k] = j
    <2>1. i \in 1 .. Len(A) /\ Len(seqs[i]) = 2
      BY <1>1, <1>4, <1>5, <1>14
    <2>2. j \in 1 .. Len(seqs[i])
      BY <2>1
    <2> QED BY <1>12, <2>1, <2>2
  <1>15. CmafAt(prot, n, b, p)
    <2>1. n \in Nat /\ DOMAIN CmafTracks(prot) = 1 .. n + Len(subs)
      BY <1>2, <1>9, <1>11, Zenon DEF n
    <2>2. \A k \in 1 .. n : /\ b[k] \in DOMAIN AllTracks /\ AllTracks[b[k]].prot = prot
                            /\ p[k] \in {1, 2} /\ CmafTracks(prot)[k] = CmafPair(AllTracks[b[k]])[p[k]]
      BY <1>2, <1>11, <1>13, Zenon DEF A, n
    <2>3. \A i \in DOMAIN AllTracks : AllTracks[i].prot = prot =>
           \A j \in {1, 2} : \E k \in 1 .. n : b[k] = i /\ p[k] = j
      BY <1>14, Zenon DEF A
    <2>4. \A j \in 1 .. Len(subs) : CmafTracks(prot)[n + j] = SubtitleEntry(subs[j])
      BY <1>2, <1>10, <1>11, Zenon DEF n
    <2> QED BY <1>12, <2>1, <2>2, <2>3, <2>4, Zenon DEF CmafAt
  <1> QED BY <1>15

\* The init segments of a CMSF catalog.
InitOf(t, prot) == [id |-> <<"init">> \o t.name, of |-> t.of, prot |-> prot]
InitOfSub(s) == [id |-> <<"init">> \o s.name, of |-> s.name, prot |-> "none"]

LEMMA InitPlaces ==
  ASSUME IInv, pc \in Building, NEW prot
  PROVE  LET D == InitDataList(prot)
         IN  /\ DOMAIN D = 1 .. Len(D) /\ Len(D) \in Nat
             /\ \A k \in DOMAIN D :
                  \/ \E i \in DOMAIN AllTracks : AllTracks[i].prot = prot /\ D[k] = InitOf(AllTracks[i], prot)
                  \/ \E j \in DOMAIN subs : D[k] = InitOfSub(subs[j])
             /\ \A i \in DOMAIN AllTracks : AllTracks[i].prot = prot =>
                  \E k \in DOMAIN D : D[k] = InitOf(AllTracks[i], prot)
             /\ \A j \in DOMAIN subs : \E k \in DOMAIN D : D[k] = InitOfSub(subs[j])
  <1> DEFINE A == AllTracks
             One(t) == IF t.prot = prot THEN <<InitOf(t, prot)>> ELSE <<>>
             seqs == [i \in DOMAIN A |-> One(A[i])]
             F == FlattenSeq(seqs)
             S == [i \in DOMAIN subs |-> InitOfSub(subs[i])]
             D == InitDataList(prot)
  <1>0. pc \in HasGroups
    BY DEF HasGroups
  <1>1. DOMAIN A = 1 .. Len(A) /\ Len(A) \in Nat
    BY <1>0, AllTracksFacts
  <1>2. D = F \o S
    BY Zenon DEF InitDataList, InitOf, InitOfSub
  <1>3. DOMAIN subs = 1 .. Len(subs) /\ Len(subs) \in Nat
    <2>1. Subtitled(subs)
      BY DEF IInv, Building
    <2> QED BY <2>1 DEF Subtitled
  <1>4. \A t : /\ t.prot = prot => IsSeq(One(t)) /\ Len(One(t)) = 1 /\ One(t)[1] = InitOf(t, prot)
               /\ t.prot # prot => IsSeq(One(t)) /\ Len(One(t)) = 0
    <2> TAKE t
    <2> DEFINE x == InitOf(t, prot)
    <2> HIDE DEF x
    <2>1. <<x>> \in Seq({x}) /\ Len(<<x>>) = 1 /\ <<x>>[1] = x
      OBVIOUS
    <2>2. <<>> \in Seq({}) /\ Len(<<>>) = 0
      OBVIOUS
    <2>3. IsSeq(<<>>) /\ IsSeq(<<x>>)
      BY <2>1, <2>2, IsSeqOf
    <2> QED BY <2>1, <2>2, <2>3, Zenon DEF x
  <1> HIDE DEF A, One, D
  <1>5. Indexed(seqs, 1 .. Len(A)) /\ \A i \in 1 .. Len(A) : seqs[i] = One(A[i])
    <2>1. \A i \in 1 .. Len(A) : seqs[i] = One(A[i])
      BY <1>1, Zenon
    <2> QED BY <1>1, <2>1, Zenon DEF Indexed
  <1> HIDE DEF seqs
  <1>6. \A i \in 1 .. Len(A) : IsSeq(seqs[i])
    BY <1>4, <1>5, Zenon
  <1>7. IsSeq(F) /\ \E b, p : Placed(F, seqs, Len(A), b, p)
    BY <1>1, <1>5, <1>6, FlatPlaces
  <1> DEFINE n == Len(F)
  <1>8. PICK b, p : Placed(F, seqs, Len(A), b, p)
    BY <1>7
  <1> HIDE DEF F
  <1>9. n \in Nat /\ IsSeq(F)
    BY <1>7, Zenon DEF IsSeq
  <1>10. IsSeq(S) /\ Len(S) = Len(subs) /\ \A j \in 1 .. Len(subs) : S[j] = InitOfSub(subs[j])
    <2>1. Indexed(S, 1 .. Len(subs)) /\ \A j \in 1 .. Len(subs) : S[j] = InitOfSub(subs[j])
      BY <1>3, Zenon DEF Indexed
    <2> HIDE DEF S
    <2> QED BY <1>3, <2>1, IndexedIsSeq
  <1> HIDE DEF S
  <1>11. /\ DOMAIN D = 1 .. n + Len(subs)
         /\ \A k \in 1 .. n : D[k] = F[k]
         /\ \A j \in 1 .. Len(subs) : D[n + j] = S[j]
    <2>1. IsSeq(F) /\ IsSeq(S)
      BY <1>9, <1>10, Zenon
    <2>2. Joined(F \o S, F, S)
      BY <2>1, Concatenated
    <2>3. Len(S) = Len(subs)
      BY <1>10, Zenon
    <2> QED BY <1>2, <2>2, <2>3, Zenon DEF Joined
  <1>12. Len(D) = n + Len(subs) /\ IsSeq(D)
    <2>1. n + Len(subs) \in Nat
      BY <1>3, <1>9
    <2>2. Indexed(D, 1 .. n + Len(subs))
      <3>1. IsSeq(D)
        BY <1>2, <1>9, <1>10, Concatenated
      <3>2. Indexed(D, 1 .. Len(D)) /\ DOMAIN D = 1 .. Len(D)
        BY <3>1, Zenon DEF IsSeq
      <3> QED BY <1>11, <3>2, Zenon
    <2> QED BY <2>1, <2>2, IndexedIsSeq
  <1> HIDE DEF n
  <1>13. /\ \A k \in 1 .. n : b[k] \in 1 .. Len(A) /\ p[k] \in 1 .. Len(seqs[b[k]]) /\ F[k] = seqs[b[k]][p[k]]
         /\ \A i \in 1 .. Len(A) : \A j \in 1 .. Len(seqs[i]) : \E k \in 1 .. n : b[k] = i /\ p[k] = j
    BY <1>8, Zenon DEF Placed, n
  <1>14. ASSUME NEW k \in 1 .. n
         PROVE  b[k] \in DOMAIN A /\ A[b[k]].prot = prot /\ p[k] = 1 /\ F[k] = InitOf(A[b[k]], prot)
    <2>1. b[k] \in 1 .. Len(A) /\ p[k] \in 1 .. Len(One(A[b[k]])) /\ F[k] = One(A[b[k]])[p[k]]
      BY <1>5, <1>13
    <2>2. A[b[k]].prot = prot
      <3> SUFFICES ASSUME A[b[k]].prot # prot PROVE FALSE
        OBVIOUS
      <3>1. Len(One(A[b[k]])) = 0
        BY <1>4
      <3> QED BY <2>1, <3>1
    <2>3. Len(One(A[b[k]])) = 1 /\ One(A[b[k]])[1] = InitOf(A[b[k]], prot)
      BY <1>4, <2>2
    <2>4. p[k] = 1
      BY <2>1, <2>3
    <2> QED BY <1>1, <2>1, <2>2, <2>3, <2>4
  <1>15. ASSUME NEW k \in DOMAIN D
         PROVE  \/ \E i \in DOMAIN A : A[i].prot = prot /\ D[k] = InitOf(A[i], prot)
                \/ \E j \in DOMAIN subs : D[k] = InitOfSub(subs[j])
    <2>1. k \in 1 .. n \/ (k - n \in 1 .. Len(subs) /\ k = n + (k - n))
      BY <1>3, <1>9, <1>11 DEF n
    <2>2. CASE k \in 1 .. n
      <3>1. D[k] = F[k]
        BY <1>11, <2>2
      <3> QED BY <1>14, <2>2, <3>1
    <2>3. CASE k - n \in 1 .. Len(subs) /\ k = n + (k - n)
      <3>1. PICK j \in 1 .. Len(subs) : k = n + j
        BY <2>3
      <3>2. D[k] = InitOfSub(subs[j])
        BY <1>10, <1>11, <3>1
      <3> QED BY <1>3, <3>2
    <2> QED BY <2>1, <2>2, <2>3
  <1>16. ASSUME NEW i \in DOMAIN A, A[i].prot = prot
         PROVE  \E k \in DOMAIN D : D[k] = InitOf(A[i], prot)
    <2>1. i \in 1 .. Len(A) /\ Len(seqs[i]) = 1
      BY <1>1, <1>4, <1>5, <1>16
    <2>2. 1 \in 1 .. Len(seqs[i])
      BY <2>1
    <2>3. PICK k \in 1 .. n : b[k] = i
      BY <1>13, <2>1, <2>2
    <2>4. k \in DOMAIN D /\ D[k] = F[k]
      <3>1. k \in 1 .. n + Len(subs)
        BY <1>3, <1>9 DEF n
      <3> QED BY <1>11, <3>1
    <2> QED BY <1>14, <2>3, <2>4
  <1>17. ASSUME NEW j \in DOMAIN subs
         PROVE  \E k \in DOMAIN D : D[k] = InitOfSub(subs[j])
    <2>1. j \in 1 .. Len(subs) /\ n + j \in 1 .. n + Len(subs)
      BY <1>3, <1>9 DEF n
    <2>2. n + j \in DOMAIN D /\ D[n + j] = InitOfSub(subs[j])
      BY <1>10, <1>11, <2>1
    <2> QED BY <2>2
  <1>18. DOMAIN D = 1 .. Len(D) /\ Len(D) \in Nat
    BY <1>12, Zenon DEF IsSeq
  <1> QED BY <1>15, <1>16, <1>17, <1>18, Zenon DEF A, D

\* The entries of a track in the LOC catalog: none, one, or one for each layer.
LocOf(t) ==
  IF ~InLOC(t) THEN <<>>
  ELSE IF t.layers > 0 THEN SvcTracks(t)
  ELSE <<[CatalogTrack(t, t.name, "loc", <<>>) EXCEPT !.captions = Advertises(t)]>>

IsLoc(e, t) ==
  e.of = t.of /\ e.packaging = "loc" /\ e.role = ContentType(t.type) /\ e.prot = t.prot

LEMMA LocFacts ==
  ASSUME NEW t \in TrackType
  PROVE  /\ IsSeq(LocOf(t))
         /\ ~InLOC(t) => Len(LocOf(t)) = 0
         /\ InLOC(t) /\ t.layers = 0 =>
              /\ Len(LocOf(t)) = 1 /\ IsLoc(LocOf(t)[1], t) /\ LocOf(t)[1].name = t.name
              /\ LocOf(t)[1].spatial = 0 /\ (LocOf(t)[1].captions <=> Advertises(t))
         /\ InLOC(t) /\ t.layers > 0 =>
              /\ Len(LocOf(t)) = t.layers
              /\ \A k \in 1 .. t.layers :
                   /\ IsLoc(LocOf(t)[k], t) /\ LocOf(t)[k].name = Append(t.name, LayerPart(k - 1))
                   /\ LocOf(t)[k].spatial = k - 1 /\ LocOf(t)[k].depends = DependsOn(t, k - 1)
                   /\ LocOf(t)[k].captions = FALSE
  <1>0. t.layers \in 0 .. 4 /\ t.layers \in Nat
    BY DEF TrackType
  <1>1. CASE ~InLOC(t)
    <2>1. LocOf(t) = <<>>
      BY <1>1, Zenon DEF LocOf
    <2>2. LocOf(t) \in Seq({}) /\ Len(LocOf(t)) = 0
      BY <2>1
    <2> QED BY <1>1, <2>2, IsSeqOf
  <1>2. CASE InLOC(t) /\ t.layers = 0
    <2> DEFINE c == CatalogTrack(t, t.name, "loc", <<>>)  e == [c EXCEPT !.captions = Advertises(t)]
    <2>1. LocOf(t) = <<e>>
      <3>1. ~(t.layers > 0)
        BY <1>2
      <3> QED BY <1>2, <3>1, Zenon DEF LocOf
    <2>2. /\ c.name = t.name /\ c.packaging = "loc" /\ c.of = t.of /\ c.role = ContentType(t.type)
          /\ c.prot = t.prot /\ c.spatial = 0
      BY Zenon DEF CatalogTrack
    <2>3. /\ e.name = c.name /\ e.packaging = c.packaging /\ e.of = c.of /\ e.role = c.role
          /\ e.prot = c.prot /\ e.spatial = c.spatial
      BY Zenon DEF CatalogTrack
    <2>4. e.captions <=> Advertises(t)
      <3>1. "captions" \in DOMAIN c
        BY DEF CatalogTrack
      <3> HIDE DEF c
      <3> QED BY <3>1, Zenon
    <2> HIDE DEF c, e
    <2>5. LocOf(t) \in Seq({e}) /\ Len(LocOf(t)) = 1 /\ LocOf(t)[1] = e
      BY <2>1
    <2>6. IsSeq(LocOf(t))
      BY <2>5, IsSeqOf
    <2>7. IsLoc(e, t) /\ e.name = t.name /\ e.spatial = 0
      BY <2>2, <2>3, Zenon DEF IsLoc
    <2>8. ~(t.layers > 0)
      BY <1>2
    <2> QED BY <1>2, <2>4, <2>5, <2>6, <2>7, <2>8, Zenon
  <1>3. CASE InLOC(t) /\ t.layers > 0
    <2>1. LocOf(t) = SvcTracks(t)
      BY <1>3, Zenon DEF LocOf
    <2> DEFINE c(k) == CatalogTrack(t, Append(t.name, LayerPart(k - 1)), "loc", <<>>)
               e(k) == [c(k) EXCEPT !.spatial = k - 1, !.depends = DependsOn(t, k - 1)]
    <2>2. SvcTracks(t) = [k \in 1 .. t.layers |-> e(k)]
      BY Zenon DEF SvcTracks
    <2>3. ASSUME NEW k \in 1 .. t.layers
          PROVE  /\ IsLoc(e(k), t) /\ e(k).name = Append(t.name, LayerPart(k - 1))
                 /\ e(k).spatial = k - 1 /\ e(k).depends = DependsOn(t, k - 1) /\ e(k).captions = FALSE
      <3>1. /\ c(k).name = Append(t.name, LayerPart(k - 1)) /\ c(k).packaging = "loc" /\ c(k).of = t.of
            /\ c(k).role = ContentType(t.type) /\ c(k).prot = t.prot /\ c(k).captions = FALSE
            /\ DOMAIN c(k) = {"name", "of", "packaging", "role", "init", "prot", "captions", "spatial", "depends"}
        BY DEF CatalogTrack
      <3> DEFINE r == c(k)  x == k - 1  y == DependsOn(t, k - 1)
                 q == [r EXCEPT !.spatial = x, !.depends = y]
      <3>2. q = e(k)
        BY Zenon
      <3> HIDE DEF r, x, y
      <3>3. DOMAIN r = {"name", "of", "packaging", "role", "init", "prot", "captions", "spatial", "depends"}
        BY <3>1 DEF r
      <3>4. /\ q.name = r.name /\ q.packaging = r.packaging /\ q.of = r.of /\ q.role = r.role
            /\ q.prot = r.prot /\ q.captions = r.captions /\ q.spatial = x /\ q.depends = y
        BY <3>3
      <3> HIDE DEF q, c, e
      <3>5. /\ q.name = Append(t.name, LayerPart(k - 1)) /\ q.packaging = "loc" /\ q.of = t.of
            /\ q.role = ContentType(t.type) /\ q.prot = t.prot /\ q.captions = FALSE
            /\ q.spatial = k - 1 /\ q.depends = DependsOn(t, k - 1)
        BY <3>1, <3>4, Zenon DEF r, x, y
      <3> QED BY <3>2, <3>5, Zenon DEF IsLoc
    <2> HIDE DEF c, e
    <2>4. Indexed(SvcTracks(t), 1 .. t.layers) /\ \A k \in 1 .. t.layers : SvcTracks(t)[k] = e(k)
      BY <2>2, Zenon DEF Indexed
    <2>5. IsSeq(SvcTracks(t)) /\ Len(SvcTracks(t)) = t.layers
      BY <1>0, <2>4, IndexedIsSeq
    <2>6. t.layers # 0
      BY <1>3
    <2> QED BY <1>3, <2>1, <2>3, <2>4, <2>5, <2>6, Zenon
  <1>4. t.layers = 0 \/ t.layers > 0
    BY <1>0
  <1>5. ~InLOC(t) \/ (InLOC(t) /\ t.layers = 0) \/ (InLOC(t) /\ t.layers > 0)
    BY <1>4, Zenon
  <1> QED BY <1>1, <1>2, <1>3, <1>5, Zenon

\* An entry of the LOC catalog and the track it describes.
IsLocEntry(e, t) ==
  /\ InLOC(t) /\ IsLoc(e, t)
  /\ t.layers = 0 => e.name = t.name /\ e.spatial = 0 /\ (e.captions <=> Advertises(t))
  /\ t.layers > 0 =>
       /\ e.spatial \in 0 .. t.layers - 1 /\ e.name = Append(t.name, LayerPart(e.spatial))
       /\ e.depends = DependsOn(t, e.spatial) /\ e.captions = FALSE

LEMMA LocEntries ==
  ASSUME NEW t \in TrackType
  PROVE  /\ \A k \in 1 .. Len(LocOf(t)) : IsLocEntry(LocOf(t)[k], t)
         /\ InLOC(t) => \A id \in 0 .. t.layers - 1 :
              \E k \in 1 .. Len(LocOf(t)) : LocOf(t)[k].spatial = id
  <1> DEFINE L == LocOf(t)
  <1>0. t.layers \in Nat
    BY DEF TrackType
  <1>1. /\ ~InLOC(t) => Len(L) = 0
        /\ InLOC(t) /\ t.layers = 0 =>
              /\ Len(L) = 1 /\ IsLoc(L[1], t) /\ L[1].name = t.name
              /\ L[1].spatial = 0 /\ (L[1].captions <=> Advertises(t))
        /\ InLOC(t) /\ t.layers > 0 =>
              /\ Len(L) = t.layers
              /\ \A k \in 1 .. t.layers :
                   /\ IsLoc(L[k], t) /\ L[k].name = Append(t.name, LayerPart(k - 1))
                   /\ L[k].spatial = k - 1 /\ L[k].depends = DependsOn(t, k - 1)
                   /\ L[k].captions = FALSE
    BY LocFacts, Zenon
  <1> HIDE DEF L
  <1>2. CASE ~InLOC(t)
    <2>1. \A k \in 1 .. Len(L) : FALSE
      BY <1>1, <1>2
    <2> QED BY <1>2, <2>1 DEF L
  <1>3. CASE InLOC(t) /\ t.layers = 0
    <2>1. ASSUME NEW k \in 1 .. Len(L) PROVE IsLocEntry(L[k], t)
      <3>0. Len(L) = 1
        BY <1>1, <1>3, Zenon
      <3>1. k = 1
        BY <3>0
      <3>2. ~(t.layers > 0)
        BY <1>3
      <3> QED BY <1>1, <1>3, <3>1, <3>2, Zenon DEF IsLocEntry
    <2>2. \A id \in 0 .. t.layers - 1 : FALSE
      BY <1>3
    <2> QED BY <2>1, <2>2 DEF L
  <1>4. CASE InLOC(t) /\ t.layers > 0
    <2>1. ASSUME NEW k \in 1 .. Len(L) PROVE IsLocEntry(L[k], t) /\ L[k].spatial = k - 1
      <3>1. k \in 1 .. t.layers /\ k - 1 \in 0 .. t.layers - 1 /\ t.layers # 0
        <4>0. Len(L) = t.layers
          BY <1>1, <1>4, Zenon
        <4>1. k \in 1 .. t.layers
          BY <4>0
        <4> QED BY <1>0, <1>4, <4>1
      <3> QED BY <1>1, <1>4, <3>1, Zenon DEF IsLocEntry
    <2>2. ASSUME NEW id \in 0 .. t.layers - 1
          PROVE  \E k \in 1 .. Len(L) : L[k].spatial = id
      <3>1. Len(L) = t.layers
        BY <1>1, <1>4
      <3>2. id + 1 \in 1 .. Len(L) /\ (id + 1) - 1 = id
        BY <1>0, <3>1
      <3>3. L[id + 1].spatial = (id + 1) - 1
        BY <2>1, <3>2
      <3> QED BY <3>2, <3>3
    <2> QED BY <2>1, <2>2 DEF L
  <1>5. t.layers = 0 \/ t.layers > 0
    BY <1>0
  <1> QED BY <1>2, <1>3, <1>4, <1>5

LEMMA LocPlaces ==
  ASSUME IInv, pc \in Building
  PROVE  /\ IsSeq(LocTracks)
         /\ \A k \in DOMAIN LocTracks : \E i \in DOMAIN AllTracks : IsLocEntry(LocTracks[k], AllTracks[i])
         /\ \A i \in DOMAIN AllTracks : InLOC(AllTracks[i]) =>
              \A id \in 0 .. AllTracks[i].layers - 1 :
                \E k \in DOMAIN LocTracks :
                  IsLocEntry(LocTracks[k], AllTracks[i]) /\ LocTracks[k].spatial = id
  <1> DEFINE A == AllTracks
             seqs == [i \in DOMAIN A |-> LocOf(A[i])]
             F == FlattenSeq(seqs)
  <1>0. pc \in HasGroups
    BY DEF HasGroups
  <1>1. DOMAIN A = 1 .. Len(A) /\ Len(A) \in Nat /\ \A i \in 1 .. Len(A) : A[i] \in TrackType
    <2>1. A \in Seq(TrackType) /\ DOMAIN A = 1 .. Len(A) /\ Len(A) \in Nat
      BY <1>0, AllTracksFacts
    <2> HIDE DEF A
    <2> QED BY <2>1
  <1>2. LocTracks = F
    BY Zenon DEF LocTracks, LocOf
  <1> HIDE DEF A
  <1>3. Indexed(seqs, 1 .. Len(A)) /\ \A i \in 1 .. Len(A) : seqs[i] = LocOf(A[i])
    <2>1. \A i \in 1 .. Len(A) : seqs[i] = LocOf(A[i])
      BY <1>1, Zenon
    <2> QED BY <1>1, <2>1, Zenon DEF Indexed
  <1> HIDE DEF seqs
  <1>4. \A i \in 1 .. Len(A) : IsSeq(seqs[i])
    <2>1. \A t \in TrackType : IsSeq(LocOf(t))
      <3> TAKE t \in TrackType
      <3> QED BY LocFacts
    <2> QED BY <1>1, <1>3, <2>1, Zenon
  <1>5. IsSeq(F) /\ \E b, p : Placed(F, seqs, Len(A), b, p)
    BY <1>1, <1>3, <1>4, FlatPlaces
  <1>6. PICK b, p : Placed(F, seqs, Len(A), b, p)
    BY <1>5
  <1> HIDE DEF F
  <1>7. /\ \A k \in 1 .. Len(F) : b[k] \in 1 .. Len(A) /\ p[k] \in 1 .. Len(seqs[b[k]]) /\ F[k] = seqs[b[k]][p[k]]
        /\ \A i \in 1 .. Len(A) : \A j \in 1 .. Len(seqs[i]) : \E k \in 1 .. Len(F) : b[k] = i /\ p[k] = j
    BY <1>6, Zenon DEF Placed
  <1>8. DOMAIN F = 1 .. Len(F)
    BY <1>5, Zenon DEF IsSeq
  <1>9. ASSUME NEW k \in DOMAIN F
        PROVE  b[k] \in DOMAIN A /\ IsLocEntry(F[k], A[b[k]])
    <2>1. /\ b[k] \in 1 .. Len(A) /\ p[k] \in 1 .. Len(LocOf(A[b[k]]))
          /\ F[k] = LocOf(A[b[k]])[p[k]] /\ A[b[k]] \in TrackType
      BY <1>1, <1>3, <1>7, <1>8, Zenon
    <2> QED BY <1>1, <2>1, LocEntries, Zenon
  <1>10. ASSUME NEW i \in DOMAIN A, InLOC(A[i]), NEW id \in 0 .. A[i].layers - 1
         PROVE  \E k \in DOMAIN F : IsLocEntry(F[k], A[i]) /\ F[k].spatial = id
    <2>1. i \in 1 .. Len(A) /\ A[i] \in TrackType /\ seqs[i] = LocOf(A[i])
      BY <1>1, <1>3, Zenon
    <2>2. PICK j \in 1 .. Len(LocOf(A[i])) : LocOf(A[i])[j].spatial = id
      BY <1>10, <2>1, LocEntries, Zenon
    <2>3. PICK k \in 1 .. Len(F) : b[k] = i /\ p[k] = j
      BY <1>7, <2>1, <2>2, Zenon
    <2>4. F[k] = LocOf(A[i])[j]
      BY <1>7, <2>1, <2>3, Zenon
    <2>5. k \in DOMAIN F /\ IsLocEntry(F[k], A[i])
      BY <1>8, <1>9, <2>3, Zenon
    <2> QED BY <2>2, <2>4, <2>5, Zenon
  <1> QED BY <1>2, <1>5, <1>9, <1>10, Zenon DEF A

\* The namespaces at the end.
LEMMA NamespaceFields ==
  /\ LocNS.packaging = "loc" /\ LocNS.prot = "none" /\ LocNS.tracks = LocTracks /\ LocNS.inits = <<>>
  /\ MoqMINS.packaging = "moqmi" /\ MoqMINS.tracks = <<>> /\ MoqMINS.moqmi = MoqMITrackMap
  /\ \A p : /\ CmafNS(p).packaging = "cmaf" /\ CmafNS(p).prot = p
            /\ CmafNS(p).tracks = CmafTracks(p) /\ CmafNS(p).inits = InitDataList(p)
  BY Zenon DEF LocNS, MoqMINS, CmafNS, NamespaceEntry

LEMMA ServedNamespaces ==
  ASSUME IInv, Serving
  PROVE  /\ \A n \in DOMAIN namespaces :
              \/ namespaces[n] = LocNS
              \/ namespaces[n] = MoqMINS /\ FirstClear("avc") # <<>>
              \/ \E p \in Prots : namespaces[n] = CmafNS(p) /\ On(p)
         /\ \A p \in Prots : On(p) => \E n \in DOMAIN namespaces : namespaces[n] = CmafNS(p)
         /\ \A p : \A n, m \in DOMAIN namespaces : namespaces[n] = CmafNS(p) /\ namespaces[m] = CmafNS(p) => n = m
         /\ \A p \in Prots : p \in Applied <=> On(p)
  <1>1. Published /\ pc = "serving"
    BY DEF IInv, Serving, Building
  <1>2. \A p \in Prots : Done(p)
    BY <1>1 DEF Done, Prots
  <1>3. /\ namespaces \in Seq({LocNS, MoqMINS} \cup {CmafNS(p) : p \in Prots})
        /\ \A n \in DOMAIN namespaces :
             /\ namespaces[n].packaging = "moqmi" => FirstClear("avc") # <<>>
             /\ namespaces[n].packaging = "cmaf" => \E p \in Prots : namespaces[n] = CmafNS(p) /\ Done(p) /\ On(p)
        /\ \A p \in Prots : Done(p) /\ On(p) => \E n \in DOMAIN namespaces : namespaces[n] = CmafNS(p)
        /\ \A n, m \in DOMAIN namespaces :
             /\ namespaces[n].packaging = "cmaf" /\ namespaces[m].packaging = "cmaf"
             /\ namespaces[n].prot = namespaces[m].prot
             => n = m
    BY <1>1, Zenon DEF Published
  <1>4. \A n \in DOMAIN namespaces : namespaces[n] \in {LocNS, MoqMINS} \cup {CmafNS(p) : p \in Prots}
    <2> DEFINE T == {LocNS, MoqMINS} \cup {CmafNS(p) : p \in Prots}
    <2>1. namespaces \in Seq(T)
      BY <1>3, Zenon
    <2> HIDE DEF T
    <2>2. \A n \in DOMAIN namespaces : namespaces[n] \in T
      BY <2>1
    <2> QED BY <2>2, Zenon DEF T
  <1>5. \A n \in DOMAIN namespaces :
              \/ namespaces[n] = LocNS
              \/ namespaces[n] = MoqMINS /\ FirstClear("avc") # <<>>
              \/ \E p \in Prots : namespaces[n] = CmafNS(p) /\ On(p)
    BY <1>3, <1>4, NamespaceFields, Zenon
  <1>6. \A p \in Prots : On(p) => \E n \in DOMAIN namespaces : namespaces[n] = CmafNS(p)
    BY <1>2, <1>3, Zenon
  <1>7. \A p : \A n, m \in DOMAIN namespaces : namespaces[n] = CmafNS(p) /\ namespaces[m] = CmafNS(p) => n = m
    BY <1>3, NamespaceFields, Zenon
  <1>8. ASSUME NEW p \in Prots PROVE p \in Applied <=> On(p)
    <2>1. CASE p = "none"
      BY <2>1 DEF Applied, On
    <2>2. CASE p = "drm"
      BY <1>1, <2>2 DEF Applied, On, Enabled
    <2>3. CASE p = "eccp"
      BY <1>1, <2>3 DEF Applied, On, Enabled
    <2> QED BY <2>1, <2>2, <2>3 DEF Prots
  <1> QED BY <1>5, <1>6, <1>7, <1>8, Zenon

\* An entry of a CMSF catalog and the track it describes; j tells the packaging.
IsCmafEntry(e, t, j) ==
  /\ e.of = t.of /\ e.role = ContentType(t.type) /\ e.prot = t.prot
  /\ e.init = <<"init">> \o t.name /\ (e.captions <=> Advertises(t))
  /\ j = 1 => e.packaging = "cmaf" /\ e.name = t.name
  /\ j = 2 => e.packaging = "locmaf" /\ e.name = Append(t.name, "_locmaf")

LEMMA CmafEntry ==
  ASSUME NEW t, NEW j \in {1, 2}
  PROVE  IsCmafEntry(CmafPair(t)[j], t, j)
  <1>1. /\ CmafPair(t)[j].of = t.of /\ CmafPair(t)[j].role = ContentType(t.type) /\ CmafPair(t)[j].prot = t.prot
        /\ CmafPair(t)[j].init = <<"init">> \o t.name /\ (CmafPair(t)[j].captions <=> Advertises(t))
    BY PairFacts, Zenon
  <1>2. j = 1 => CmafPair(t)[j].packaging = "cmaf" /\ CmafPair(t)[j].name = t.name
    BY PairFacts, ZenonT(60)
  <1>3. j = 2 => CmafPair(t)[j].packaging = "locmaf" /\ CmafPair(t)[j].name = Append(t.name, "_locmaf")
    BY PairFacts, ZenonT(60)
  <1> QED BY <1>1, <1>2, <1>3, Zenon DEF IsCmafEntry

LEMMA SubtitleFields ==
  ASSUME NEW s
  PROVE  /\ SubtitleEntry(s).name = s.name /\ SubtitleEntry(s).of = s.name
         /\ SubtitleEntry(s).packaging = "cmaf" /\ SubtitleEntry(s).role = "subtitle"
         /\ SubtitleEntry(s).init = <<"init">> \o s.name
  BY Zenon DEF SubtitleEntry

\* The entries that publish a file in a packaging of CMSF.
PairPlace(packaging) == IF packaging = "cmaf" THEN 1 ELSE 2
Hits(of, prot, packaging) ==
  {at \in UNION {{n} \X DOMAIN namespaces[n].tracks : n \in DOMAIN namespaces} :
     LET ns == namespaces[at[1]]
         e == ns.tracks[at[2]]
     IN  e.of = of /\ e.packaging = packaging /\ e.role # "subtitle"
           /\ ns.prot = prot /\ e.prot = prot}

LEMMA HitAt ==
  ASSUME IInv, Serving, NEW prot \in Prots, NEW packaging \in {"cmaf", "locmaf"}, NEW of,
         NEW at \in Hits(of, prot, packaging), NEW n0, NEW b, NEW p, CmafAt(prot, n0, b, p)
  PROVE  /\ at = <<at[1], at[2]>> /\ at[1] \in DOMAIN namespaces
         /\ namespaces[at[1]] = CmafNS(prot) /\ On(prot)
         /\ at[2] \in 1 .. n0 /\ AllTracks[b[at[2]]].of = of /\ p[at[2]] = PairPlace(packaging)
  <1> DEFINE n == at[1]  k == at[2]  ns == namespaces[n]  e == ns.tracks[k]
  <1>0. pc \in Building
    BY DEF Serving, Building
  <1>1. /\ \E m \in DOMAIN namespaces : at \in {m} \X DOMAIN namespaces[m].tracks
        /\ e.of = of /\ e.packaging = packaging /\ e.role # "subtitle" /\ ns.prot = prot
    BY Zenon DEF Hits
  <1>2. at = <<n, k>> /\ n \in DOMAIN namespaces /\ k \in DOMAIN ns.tracks
    <2>1. PICK m \in DOMAIN namespaces : at \in {m} \X DOMAIN namespaces[m].tracks
      BY <1>1
    <2>2. at = <<n, k>> /\ n = m /\ k \in DOMAIN namespaces[m].tracks
      BY <2>1
    <2> QED BY <2>2
  <1> HIDE DEF n, k
  <1>3. ns # LocNS
    <2> SUFFICES ASSUME ns = LocNS PROVE FALSE
      OBVIOUS
    <2>1. k \in DOMAIN LocTracks /\ e = LocTracks[k]
      BY <1>2, NamespaceFields, Zenon
    <2>2. PICK i \in DOMAIN AllTracks : IsLocEntry(e, AllTracks[i])
      BY <1>0, <2>1, LocPlaces, Zenon
    <2>3. e.packaging = "loc"
      BY <2>2, Zenon DEF IsLocEntry, IsLoc
    <2> QED BY <1>1, <2>3
  <1>4. ns # MoqMINS
    <2> SUFFICES ASSUME ns = MoqMINS PROVE FALSE
      OBVIOUS
    <2>1. ns.tracks = <<>>
      BY NamespaceFields, Zenon
    <2>2. DOMAIN ns.tracks = {}
      BY <2>1
    <2> QED BY <1>2, <2>2
  <1>5. PICK q \in Prots : ns = CmafNS(q) /\ On(q)
    BY <1>2, <1>3, <1>4, ServedNamespaces, Zenon
  <1>6. q = prot /\ ns = CmafNS(prot) /\ On(prot)
    BY <1>1, <1>5, NamespaceFields, Zenon
  <1>7. k \in DOMAIN CmafTracks(prot) /\ e = CmafTracks(prot)[k]
    BY <1>2, <1>6, NamespaceFields, Zenon
  <1>8. /\ n0 \in Nat /\ DOMAIN CmafTracks(prot) = 1 .. n0 + Len(subs)
        /\ \A l \in 1 .. n0 : /\ b[l] \in DOMAIN AllTracks /\ AllTracks[b[l]].prot = prot
                              /\ p[l] \in {1, 2} /\ CmafTracks(prot)[l] = CmafPair(AllTracks[b[l]])[p[l]]
        /\ \A j \in 1 .. Len(subs) : CmafTracks(prot)[n0 + j] = SubtitleEntry(subs[j])
    BY Zenon DEF CmafAt
  <1>9. k \in 1 .. n0
    <2> SUFFICES ASSUME k \notin 1 .. n0 PROVE FALSE
      OBVIOUS
    <2>1. Len(subs) \in Nat
      <3>1. Subtitled(subs)
        BY <1>0 DEF IInv
      <3> QED BY <3>1 DEF Subtitled
    <2>2. k - n0 \in 1 .. Len(subs) /\ k = n0 + (k - n0)
      BY <1>7, <1>8, <2>1
    <2>3. PICK j \in 1 .. Len(subs) : k = n0 + j
      BY <2>2
    <2>4. e = SubtitleEntry(subs[j])
      BY <1>7, <1>8, <2>3, Zenon
    <2>5. e.role = "subtitle"
      BY <2>4, SubtitleFields, Zenon
    <2> QED BY <1>1, <2>5
  <1>10. p[k] \in {1, 2} /\ IsCmafEntry(e, AllTracks[b[k]], p[k])
    BY <1>7, <1>8, <1>9, CmafEntry, Zenon
  <1>11. AllTracks[b[k]].of = of
    BY <1>1, <1>10, Zenon DEF IsCmafEntry
  <1>12. p[k] = PairPlace(packaging)
    <2>1. p[k] = 1 => packaging = "cmaf"
      BY <1>1, <1>10, Zenon DEF IsCmafEntry
    <2>2. p[k] = 2 => packaging = "locmaf"
      BY <1>1, <1>10, Zenon DEF IsCmafEntry
    <2>3. p[k] = 1 \/ p[k] = 2
      BY <1>10
    <2> QED BY <2>1, <2>2, <2>3 DEF PairPlace
  <1> QED BY <1>2, <1>6, <1>9, <1>11, <1>12, Zenon DEF n, k

LEMMA HitIn ==
  ASSUME IInv, Serving, NEW prot \in Prots, On(prot), NEW packaging \in {"cmaf", "locmaf"},
         NEW d \in DOMAIN cfg.dir, cfg.dir[d].mp4, NEW n0, NEW b, NEW p, CmafAt(prot, n0, b, p)
  PROVE  Hits(cfg.dir[d].name, prot, packaging) # {}
  <1>0. pc \in Building /\ pc \in HasGroups
    BY DEF Serving, Building, HasGroups
  <1>1. PICK i \in DOMAIN AllTracks : AllTracks[i].of = cfg.dir[d].name /\ AllTracks[i].prot = prot
    <2>1. prot \in Applied
      BY ServedNamespaces, Zenon
    <2> QED BY <1>0, <2>1, AllTracksFacts, Zenon
  <1>2. PICK n \in DOMAIN namespaces : namespaces[n] = CmafNS(prot)
    BY ServedNamespaces, Zenon
  <1> DEFINE j == PairPlace(packaging)
  <1>3. j \in {1, 2} /\ (j = 1 => packaging = "cmaf") /\ (j = 2 => packaging = "locmaf")
    BY DEF PairPlace
  <1> HIDE DEF j
  <1>4. /\ n0 \in Nat /\ DOMAIN CmafTracks(prot) = 1 .. n0 + Len(subs)
        /\ \A l \in 1 .. n0 : CmafTracks(prot)[l] = CmafPair(AllTracks[b[l]])[p[l]]
        /\ \A x \in DOMAIN AllTracks : AllTracks[x].prot = prot =>
             \A y \in {1, 2} : \E k \in 1 .. n0 : b[k] = x /\ p[k] = y
    BY Zenon DEF CmafAt
  <1>5. PICK k \in 1 .. n0 : b[k] = i /\ p[k] = j
    BY <1>1, <1>3, <1>4, Zenon
  <1>6. k \in DOMAIN CmafTracks(prot)
    <2>1. Len(subs) \in Nat
      <3>1. Subtitled(subs)
        BY <1>0 DEF IInv
      <3> QED BY <3>1 DEF Subtitled
    <2> QED BY <1>4, <2>1
  <1> DEFINE e == CmafTracks(prot)[k]
  <1>7. IsCmafEntry(e, AllTracks[i], j)
    <2>1. e = CmafPair(AllTracks[b[k]])[p[k]]
      BY <1>4, Zenon
    <2>2. e = CmafPair(AllTracks[i])[j]
      BY <1>5, <2>1, Zenon
    <2>3. IsCmafEntry(CmafPair(AllTracks[i])[j], AllTracks[i], j)
      BY <1>3, CmafEntry
    <2> QED BY <2>2, <2>3, Zenon
  <1> HIDE DEF e
  <1>8. e.of = cfg.dir[d].name /\ e.packaging = packaging /\ e.prot = prot
    BY <1>1, <1>3, <1>7, Zenon DEF IsCmafEntry
  <1>9. e.role # "subtitle"
    <2>1. e.role = ContentType(AllTracks[i].type)
      BY <1>7, Zenon DEF IsCmafEntry
    <2> QED BY <2>1 DEF ContentType
  <1>10. /\ namespaces[n].prot = prot /\ namespaces[n].tracks = CmafTracks(prot)
    BY <1>2, NamespaceFields, Zenon
  <1>11. <<n, k>> \in Hits(cfg.dir[d].name, prot, packaging)
    <2> DEFINE at == <<n, k>>
    <2>1. at[1] = n /\ at[2] = k /\ at \in {n} \X DOMAIN namespaces[n].tracks
      BY <1>6, <1>10
    <2>2. at \in UNION {{m} \X DOMAIN namespaces[m].tracks : m \in DOMAIN namespaces}
      BY <1>2, <2>1, Zenon
    <2> HIDE DEF at
    <2>3. namespaces[at[1]] = namespaces[n] /\ namespaces[at[1]].tracks[at[2]] = e
      BY <1>10, <2>1, Zenon DEF e
    <2>4. at \in Hits(cfg.dir[d].name, prot, packaging)
      BY <1>8, <1>9, <1>10, <2>2, <2>3, Zenon DEF Hits
    <2> QED BY <2>4, Zenon DEF at
  <1> QED BY <1>11

\* GenCMAFCatalogEntry, createProtectedTracks and generateTrackGroups together:
\* every file of every directory is published once for each protection and
\* packaging that is configured.
THEOREM RenditionsOnce == Spec => []EachRenditionOnce
  <1>1. IInv => EachRenditionOnce
    <2> SUFFICES ASSUME IInv, Serving, NEW d \in DOMAIN cfg.dir, cfg.dir[d].mp4,
                        NEW prot \in Prots, NEW packaging \in {"cmaf", "locmaf"}
                 PROVE  Cardinality(Hits(cfg.dir[d].name, prot, packaging)) = IF On(prot) THEN 1 ELSE 0
      BY Zenon DEF EachRenditionOnce, Hits, On, Prots
    <2> DEFINE H == Hits(cfg.dir[d].name, prot, packaging)
    <2>0. pc \in Building /\ pc \in HasGroups
      BY DEF Serving, Building, HasGroups
    <2>1. PICK n0, b, p : CmafAt(prot, n0, b, p)
      BY <2>0, CmafPlaces
    <2>2. \A at \in H : /\ at = <<at[1], at[2]>> /\ at[1] \in DOMAIN namespaces
                        /\ namespaces[at[1]] = CmafNS(prot) /\ On(prot)
                        /\ at[2] \in 1 .. n0 /\ AllTracks[b[at[2]]].of = cfg.dir[d].name
                        /\ p[at[2]] = PairPlace(packaging)
      <3> SUFFICES ASSUME NEW at \in H
                   PROVE  /\ at = <<at[1], at[2]>> /\ at[1] \in DOMAIN namespaces
                          /\ namespaces[at[1]] = CmafNS(prot) /\ On(prot)
                          /\ at[2] \in 1 .. n0 /\ AllTracks[b[at[2]]].of = cfg.dir[d].name
                          /\ p[at[2]] = PairPlace(packaging)
        OBVIOUS
      <3> QED BY <2>1, HitAt
    <2>3. CASE ~On(prot)
      <3>1. H = {}
        BY <2>2, <2>3, Zenon
      <3> QED BY <2>3, <3>1, FS_EmptySet, Zenon
    <2>4. CASE On(prot)
      <3>1. PICK at \in H : TRUE
        BY <2>1, <2>4, HitIn
      <3>2. ASSUME NEW x \in H PROVE x = at
        <4>1. x[1] = at[1]
          BY <2>2, <3>1, <3>2, ServedNamespaces, Zenon
        <4>2. /\ \A k \in 1 .. n0 : b[k] \in DOMAIN AllTracks /\ AllTracks[b[k]].prot = prot
              /\ \A k, l \in 1 .. n0 : b[k] = b[l] /\ p[k] = p[l] => k = l
          BY <2>1, Zenon DEF CmafAt
        <4>3. \A i, j \in DOMAIN AllTracks :
                AllTracks[i].of = AllTracks[j].of /\ AllTracks[i].prot = AllTracks[j].prot => i = j
          BY <2>0, AllTracksFacts, Zenon
        <4>4. \A y \in {x, at} : /\ y[2] \in 1 .. n0 /\ AllTracks[b[y[2]]].of = cfg.dir[d].name
                                 /\ p[y[2]] = PairPlace(packaging) /\ y = <<y[1], y[2]>>
          BY <2>2, <3>1, <3>2, Zenon
        <4> HIDE DEF H
        <4> DEFINE k == x[2]  l == at[2]
        <4>5. /\ k \in 1 .. n0 /\ l \in 1 .. n0 /\ p[k] = p[l]
              /\ AllTracks[b[k]].of = AllTracks[b[l]].of
          BY <4>4, Zenon
        <4>6. x = <<x[1], k>> /\ at = <<at[1], l>>
          BY <4>4, Zenon
        <4> HIDE DEF k, l
        <4>7. b[k] = b[l]
          <5>1. /\ b[k] \in DOMAIN AllTracks /\ AllTracks[b[k]].prot = prot
                /\ b[l] \in DOMAIN AllTracks /\ AllTracks[b[l]].prot = prot
            BY <4>2, <4>5, Zenon
          <5>2. AllTracks[b[k]].prot = AllTracks[b[l]].prot /\ AllTracks[b[k]].of = AllTracks[b[l]].of
            BY <4>5, <5>1, Zenon
          <5> QED BY <4>3, <5>1, <5>2, Zenon
        <4>8. k = l
          BY <4>2, <4>5, <4>7, Zenon
        <4> QED BY <4>1, <4>6, <4>8, Zenon
      <3> HIDE DEF H
      <3>3. H = {at}
        BY <3>1, <3>2
      <3>4. Cardinality(H) = 1
        BY <3>3, FS_Singleton, Zenon
      <3> QED BY <2>4, <3>4 DEF H
    <2> QED BY <2>3, <2>4
  <1> QED BY <1>1, Invariance, PTL

-----------------------------------------------------------------------------
(* The lookups. *)

\* The first track that fits, if there is one.
LEMMA ByName ==
  ASSUME IInv, pc \in HasGroups, NEW name
  PROVE  \/ GetTrackByName(name) = <<>> /\ \A i \in DOMAIN AllTracks : AllTracks[i].name # name
         \/ \E i \in DOMAIN AllTracks : AllTracks[i].name = name /\ GetTrackByName(name) = <<AllTracks[i]>>
  <1> DEFINE A == AllTracks  I == {i \in 1 .. Len(A) : A[i].name = name}
             at == IF I # {} THEN Min(I) ELSE 0
  <1>1. DOMAIN A = 1 .. Len(A) /\ Len(A) \in Nat
    BY AllTracksFacts
  <1>2. GetTrackByName(name) = IF at = 0 THEN <<>> ELSE <<A[at]>>
    BY DEF GetTrackByName, Found, SelectInSeq
  <1> HIDE DEF A
  <1>3. I \subseteq Nat /\ I \subseteq DOMAIN A /\ 0 \notin I /\ \A i \in DOMAIN A : i \in I <=> A[i].name = name
    BY <1>1
  <1> HIDE DEF I
  <1>4. CASE I = {}
    BY <1>2, <1>3, <1>4 DEF A
  <1>5. CASE I # {}
    <2>1. at \in I
      BY <1>3, <1>5, MinIn
    <2> HIDE DEF at
    <2>2. at # 0 /\ at \in DOMAIN A /\ A[at].name = name
      BY <1>3, <2>1
    <2> QED BY <1>2, <2>2 DEF A
  <1> QED BY <1>4, <1>5

LEMMA ByLOCName ==
  ASSUME IInv, pc \in HasGroups, NEW name
  PROVE  \/ /\ GetLOCTrackByName(name) = <<>>
            /\ \A i \in DOMAIN AllTracks : ~(AllTracks[i].name = name \/ name \in LayerNames(AllTracks[i]))
         \/ \E i \in DOMAIN AllTracks :
              /\ AllTracks[i].name = name \/ name \in LayerNames(AllTracks[i])
              /\ GetLOCTrackByName(name) = <<AllTracks[i]>>
  <1> DEFINE A == AllTracks  I == {i \in 1 .. Len(A) : A[i].name = name \/ name \in LayerNames(A[i])}
             at == IF I # {} THEN Min(I) ELSE 0
  <1>1. DOMAIN A = 1 .. Len(A) /\ Len(A) \in Nat
    BY AllTracksFacts
  <1>2. GetLOCTrackByName(name) = IF at = 0 THEN <<>> ELSE <<A[at]>>
    BY DEF GetLOCTrackByName, Found, SelectInSeq
  <1> HIDE DEF A
  <1>3. /\ I \subseteq Nat /\ I \subseteq DOMAIN A /\ 0 \notin I
        /\ \A i \in DOMAIN A : i \in I <=> (A[i].name = name \/ name \in LayerNames(A[i]))
    BY <1>1
  <1> HIDE DEF I
  <1>4. CASE I = {}
    BY <1>2, <1>3, <1>4 DEF A
  <1>5. CASE I # {}
    <2>1. at \in I
      BY <1>3, <1>5, MinIn
    <2> HIDE DEF at
    <2>2. at # 0 /\ at \in DOMAIN A /\ (A[at].name = name \/ name \in LayerNames(A[at]))
      BY <1>3, <2>1
    <2> QED BY <1>2, <2>2 DEF A
  <1> QED BY <1>4, <1>5

LEMMA ByClear ==
  ASSUME IInv, pc \in HasGroups, NEW type
  PROVE  \/ /\ FirstClear(type) = <<>>
            /\ \A i \in DOMAIN AllTracks : ~(AllTracks[i].prot = "none" /\ AllTracks[i].type = type)
         \/ \E i \in DOMAIN AllTracks :
              /\ AllTracks[i].prot = "none" /\ AllTracks[i].type = type
              /\ FirstClear(type) = AllTracks[i].name
  <1> DEFINE A == AllTracks  I == {i \in 1 .. Len(A) : A[i].prot = "none" /\ A[i].type = type}
             at == IF I # {} THEN Min(I) ELSE 0
  <1>1. DOMAIN A = 1 .. Len(A) /\ Len(A) \in Nat
    BY AllTracksFacts
  <1>2. FirstClear(type) = IF at = 0 THEN <<>> ELSE A[at].name
    BY DEF FirstClear, SelectInSeq
  <1> HIDE DEF A
  <1>3. /\ I \subseteq Nat /\ I \subseteq DOMAIN A /\ 0 \notin I
        /\ \A i \in DOMAIN A : i \in I <=> (A[i].prot = "none" /\ A[i].type = type)
    BY <1>1
  <1> HIDE DEF I
  <1>4. CASE I = {}
    BY <1>2, <1>3, <1>4 DEF A
  <1>5. CASE I # {}
    <2>1. at \in I
      BY <1>3, <1>5, MinIn
    <2> HIDE DEF at
    <2>2. at # 0 /\ at \in DOMAIN A /\ A[at].prot = "none" /\ A[at].type = type
      BY <1>3, <2>1
    <2> QED BY <1>2, <2>2 DEF A
  <1> QED BY <1>4, <1>5

HasInit(D, ns, e) == \E j \in DOMAIN D : D[j].id = e.init /\ InitDataFor(ns, e) = <<D[j]>>
LEMMA ByInit ==
  ASSUME NEW ns, NEW e, NEW D, ns.inits = D, DOMAIN D = 1 .. Len(D), Len(D) \in Nat,
         NEW k \in DOMAIN D, D[k].id = e.init
  PROVE  HasInit(D, ns, e)
  <1> DEFINE I == {i \in 1 .. Len(D) : D[i].id = e.init}
             at == IF I # {} THEN Min(I) ELSE 0
  <1>1. InitDataFor(ns, e) = IF at = 0 THEN <<>> ELSE <<D[at]>>
    BY DEF InitDataFor, SelectInSeq
  <1>2. k \in I /\ I \subseteq Nat /\ 0 \notin I /\ \A i \in I : i \in DOMAIN D /\ D[i].id = e.init
    OBVIOUS
  <1> HIDE DEF I
  <1>3. at \in I
    BY <1>2, MinIn
  <1> HIDE DEF at
  <1>4. at # 0 /\ at \in DOMAIN D /\ D[at].id = e.init
    BY <1>2, <1>3
  <1> QED BY <1>1, <1>4 DEF HasInit

\* Names are told apart.
LEMMA AppendTwice ==
  ASSUME NEW T, NEW s \in Seq(T), NEW r \in Seq(T), NEW x \in T, NEW y \in T, Append(s, x) = Append(r, y)
  PROVE  s = r /\ x = y
  <1>1. Len(s) \in Nat /\ Len(r) \in Nat /\ Len(Append(s, x)) = Len(s) + 1 /\ Len(Append(r, y)) = Len(r) + 1
    OBVIOUS
  <1>2. Len(s) = Len(r)
    BY <1>1
  <1>3. Append(s, x)[Len(s) + 1] = x /\ Append(r, y)[Len(r) + 1] = y
    OBVIOUS
  <1>4. ASSUME NEW k \in 1 .. Len(s) PROVE s[k] = r[k]
    <2>1. Append(s, x)[k] = s[k] /\ Append(r, y)[k] = r[k]
      BY <1>2
    <2> QED BY <2>1
  <1>5. s = r
    BY <1>2, <1>4
  <1> QED BY <1>2, <1>3, <1>5

InitId(name) == <<"init">> \o name
LEMMA InitTwice ==
  ASSUME NEW s \in Seq(Parts), NEW r \in Seq(Parts), InitId(s) = InitId(r)
  PROVE  s = r
  <1> DEFINE x == "init"
  <1>0. x \in Parts
    BY AssetAssumption DEF PublisherParts
  <1> HIDE DEF x
  <1>1. Len(s) \in Nat /\ Len(r) \in Nat /\ Len(<<x>> \o s) = 1 + Len(s) /\ Len(<<x>> \o r) = 1 + Len(r)
    BY <1>0
  <1>2. <<x>> \o s = <<x>> \o r
    BY DEF InitId, x
  <1>3. Len(s) = Len(r)
    BY <1>1, <1>2
  <1>4. ASSUME NEW k \in 1 .. Len(s) PROVE s[k] = r[k]
    <2>1. (<<x>> \o s)[1 + k] = s[k]
      BY <1>0
    <2>2. (<<x>> \o r)[1 + k] = r[k]
      BY <1>0, <1>3
    <2> QED BY <1>2, <2>1, <2>2
  <1> QED BY <1>3, <1>4

\* A name under NamesClear: the file name of one part, and a protection suffix.
ClearName(t) ==
  /\ t \in TrackType /\ Len(t.of) = 1 /\ t.of[1] \notin {"_locmaf", "subs_wvtt", "subs_stpp"}
  /\ t.prot = "none" => t.name = t.of
  /\ t.prot # "none" => t.name = Append(t.of, Suffix(t.prot)) /\ Suffix(t.prot) \in {"_drm", "_eccp"}

LEMMA SuffixIn ==
  /\ \A prot : Suffix(prot) \in {"_drm", "_eccp"} /\ Suffix(prot) \in Parts
  /\ \A p, q \in Prots \ {"none"} : Suffix(p) = Suffix(q) => p = q
  /\ "_locmaf" \in Parts /\ "init" \in Parts
  <1>1. \A prot : Suffix(prot) \in {"_drm", "_eccp"}
    BY DEF Suffix
  <1>2. {"_drm", "_eccp", "_locmaf", "init"} \subseteq Parts
    BY AssetAssumption DEF PublisherParts
  <1>3. \A p, q \in Prots \ {"none"} : Suffix(p) = Suffix(q) => p = q
    BY DEF Suffix, Prots
  <1> QED BY <1>1, <1>2, <1>3

LEMMA NamesAreClear ==
  ASSUME IInv, pc \in HasGroups, NamesClear, NEW i \in DOMAIN AllTracks
  PROVE  ClearName(AllTracks[i])
  <1> DEFINE t == AllTracks[i]
  <1>1. t \in Renditions
    BY DEF Renditions, ToSet
  <1>2. PICK d \in DOMAIN cfg.dir : Rendition(cfg, t, cfg.dir[d])
    BY <1>1, RenditionFile
  <1> HIDE DEF t
  <1>3. t \in TrackType /\ t.name = RenditionName(t.of, t.prot) /\ t.of = cfg.dir[d].name
    BY <1>2, Zenon DEF Rendition
  <1>4. Len(t.of) = 1 /\ t.of[1] \notin {"_locmaf", "subs_wvtt", "subs_stpp"}
    BY <1>3, Zenon DEF NamesClear
  <1>5. /\ t.prot = "none" => t.name = t.of
        /\ t.prot # "none" => t.name = Append(t.of, Suffix(t.prot)) /\ Suffix(t.prot) \in {"_drm", "_eccp"}
    BY <1>3, SuffixIn, Zenon DEF RenditionName
  <1> QED BY <1>3, <1>4, <1>5, Zenon DEF ClearName, t

\* The parts of such a name.
LEMMA NameParts ==
  ASSUME NEW t, ClearName(t)
  PROVE  /\ t.name \in Seq(Parts) /\ t.of \in Seq(Parts) /\ t.prot \in Prots
         /\ Len(t.name) \in {1, 2} /\ t.name[1] = t.of[1]
         /\ t.prot = "none" <=> Len(t.name) = 1
         /\ Len(t.name) = 2 => t.name[2] \in {"_drm", "_eccp"}
         /\ t.name[Len(t.name)] # "_locmaf"
         /\ t.name[1] \notin {"subs_wvtt", "subs_stpp"}
  <1>1. t.name \in Seq(Parts) /\ t.of \in Seq(Parts) /\ t.prot \in Prots
    BY DEF ClearName, TrackType
  <1>2. Len(t.of) = 1 /\ t.of[1] \notin {"_locmaf", "subs_wvtt", "subs_stpp"}
    BY DEF ClearName
  <1>3. CASE t.prot = "none"
    <2>1. t.name = t.of
      BY <1>3 DEF ClearName
    <2> QED BY <1>1, <1>2, <1>3, <2>1
  <1>4. CASE t.prot # "none"
    <2> DEFINE x == Suffix(t.prot)
    <2>1. t.name = Append(t.of, x) /\ x \in {"_drm", "_eccp"} /\ x \in Parts
      BY <1>4, SuffixIn DEF ClearName
    <2> HIDE DEF x
    <2>2. Len(t.name) = 2 /\ t.name[1] = t.of[1] /\ t.name[2] = x
      BY <1>1, <1>2, <2>1
    <2> QED BY <1>1, <1>2, <1>4, <2>1, <2>2
  <1> QED BY <1>3, <1>4

LEMMA NameOnce ==
  ASSUME IInv, pc \in HasGroups, NamesClear, NEW i \in DOMAIN AllTracks, NEW j \in DOMAIN AllTracks,
         AllTracks[i].name = AllTracks[j].name
  PROVE  i = j
  <1> DEFINE t == AllTracks[i]  u == AllTracks[j]
  <1>1. ClearName(t) /\ ClearName(u)
    BY NamesAreClear
  <1>2. t.of = u.of /\ t.prot = u.prot => i = j
    BY AllTracksFacts, Zenon
  <1>3. t.name = u.name
    OBVIOUS
  <1> HIDE DEF t, u
  <1>4. t.prot = "none" <=> u.prot = "none"
    <2>1. (t.prot = "none" <=> Len(t.name) = 1) /\ (u.prot = "none" <=> Len(u.name) = 1)
      BY <1>1, NameParts
    <2> QED BY <1>3, <2>1
  <1>5. CASE t.prot = "none"
    BY <1>1, <1>2, <1>3, <1>4, <1>5, Zenon DEF ClearName
  <1>6. CASE t.prot # "none"
    <2>1. /\ t.of \in Seq(Parts) /\ u.of \in Seq(Parts) /\ t.prot \in Prots \ {"none"} /\ u.prot \in Prots \ {"none"}
      BY <1>1, <1>4, <1>6, NameParts
    <2>2. Append(t.of, Suffix(t.prot)) = Append(u.of, Suffix(u.prot))
      BY <1>1, <1>3, <1>4, <1>6, Zenon DEF ClearName
    <2>3. Suffix(t.prot) \in Parts /\ Suffix(u.prot) \in Parts
      BY SuffixIn, Zenon
    <2>4. t.of = u.of /\ Suffix(t.prot) = Suffix(u.prot)
      BY <2>1, <2>2, <2>3, AppendTwice, SMTT(40)
    <2>5. t.prot = u.prot
      BY <2>1, <2>4, SuffixIn, Zenon
    <2> QED BY <1>2, <2>4, <2>5
  <1> QED BY <1>5, <1>6

\* PublishTrack's TrimSuffix undoes what the catalog appended.
LEMMA Trims ==
  ASSUME NEW t, ClearName(t)
  PROVE  TrimSuffix(t.name) = t.name /\ TrimSuffix(Append(t.name, "_locmaf")) = t.name
  <1> DEFINE s == t.name
  <1>1. s \in Seq(Parts) /\ Len(s) \in {1, 2} /\ s[Len(s)] # "_locmaf" /\ "_locmaf" \in Parts
    BY NameParts, SuffixIn
  <1> HIDE DEF s
  <1>2. TrimSuffix(s) = s
    BY <1>1 DEF TrimSuffix, Last
  <1> DEFINE r == Append(s, "_locmaf")
  <1>3. r \in Seq(Parts) /\ Len(r) = Len(s) + 1 /\ r[Len(r)] = "_locmaf" /\ \A k \in 1 .. Len(s) : r[k] = s[k]
    BY <1>1
  <1> HIDE DEF r
  <1>4. SubSeq(r, 1, Len(r) - 1) = s
    <2>1. Len(r) - 1 = Len(s) /\ Len(s) \in Nat
      BY <1>1, <1>3
    <2>2. /\ SubSeq(r, 1, Len(s)) \in Seq(Parts) /\ Len(SubSeq(r, 1, Len(s))) = Len(s)
          /\ \A k \in 1 .. Len(s) : SubSeq(r, 1, Len(s))[k] = r[k]
      BY <1>3, <2>1
    <2>3. SubSeq(r, 1, Len(s)) = s
      BY <1>1, <1>3, <2>2
    <2> QED BY <2>1, <2>3
  <1>5. TrimSuffix(r) = s
    BY <1>3, <1>4 DEF TrimSuffix, Last, Front
  <1> QED BY <1>2, <1>5 DEF r, s

LEMMA LayerParts ==
  /\ \A id \in 0 .. 3 : LayerPart(id) \in Parts /\ LayerPart(id) \notin {"_drm", "_eccp"}
  /\ \A i, j \in 0 .. 3 : LayerPart(i) = LayerPart(j) => i = j
  <1>1. LayerPart(0) = "/s0" /\ LayerPart(1) = "/s1" /\ LayerPart(2) = "/s2" /\ LayerPart(3) = "/s3"
    BY DEF LayerPart
  <1>2. {"/s0", "/s1", "/s2", "/s3"} \subseteq Parts
    BY AssetAssumption DEF PublisherParts
  <1>3. \A id \in 0 .. 3 : id = 0 \/ id = 1 \/ id = 2 \/ id = 3
    OBVIOUS
  <1> QED BY <1>1, <1>2, <1>3

\* The name of a layer.
LEMMA LayerName ==
  ASSUME NEW t, ClearName(t), NEW id \in 0 .. 3
  PROVE  LET s == Append(t.name, LayerPart(id))
         IN  s \in Seq(Parts) /\ Len(s) = Len(t.name) + 1 /\ s[1] = t.name[1] /\ s[Len(s)] = LayerPart(id)
  <1> DEFINE x == LayerPart(id)
  <1>1. x \in Parts
    BY LayerParts
  <1>2. t.name \in Seq(Parts) /\ Len(t.name) \in {1, 2}
    BY NameParts
  <1> HIDE DEF x
  <1>3. LET s == Append(t.name, x)
        IN  s \in Seq(Parts) /\ Len(s) = Len(t.name) + 1 /\ s[1] = t.name[1] /\ s[Len(s)] = x
    BY <1>1, <1>2
  <1> QED BY <1>3 DEF x

\* GetLOCTrackByName finds the track an entry of the LOC catalog was made from,
\* and its layer.
LEMMA LocFound ==
  ASSUME IInv, pc \in HasGroups, NamesClear, NEW i \in DOMAIN AllTracks, NEW e, IsLocEntry(e, AllTracks[i]),
         NEW j \in DOMAIN AllTracks,
         AllTracks[j].name = e.name \/ e.name \in LayerNames(AllTracks[j])
  PROVE  i = j
  <1> DEFINE t == AllTracks[i]  u == AllTracks[j]
  <1>1. ClearName(t) /\ ClearName(u)
    BY NamesAreClear
  <1>2. t.name = u.name => i = j
    BY NameOnce
  <1>3. IsLocEntry(e, t) /\ (u.name = e.name \/ e.name \in LayerNames(u))
    OBVIOUS
  <1> HIDE DEF t, u
  <1>4. t.prot = "none" /\ t.layers \in 0 .. 4 /\ u.layers \in 0 .. 4
    <2>1. t.prot = "none"
      BY <1>3, Zenon DEF IsLocEntry, InLOC
    <2>2. t \in TrackType /\ u \in TrackType
      BY <1>1, Zenon DEF ClearName
    <2> QED BY <2>1, <2>2 DEF TrackType
  <1>5. /\ t.name \in Seq(Parts) /\ u.name \in Seq(Parts) /\ Len(t.name) = 1 /\ Len(u.name) \in {1, 2}
        /\ Len(u.name) = 2 => u.name[2] \in {"_drm", "_eccp"}
    BY <1>1, <1>4, NameParts
  <1>6. ASSUME e.name \in LayerNames(u)
        PROVE  \E id \in 0 .. 3 : id < u.layers /\ e.name = Append(u.name, LayerPart(id))
    BY <1>4, <1>6, SMTT(40) DEF LayerNames
  <1>7. CASE t.layers = 0
    <2>1. e.name = t.name
      BY <1>3, <1>7, Zenon DEF IsLocEntry
    <2>2. e.name \notin LayerNames(u)
      <3> SUFFICES ASSUME e.name \in LayerNames(u) PROVE FALSE
        OBVIOUS
      <3>1. PICK id \in 0 .. 3 : e.name = Append(u.name, LayerPart(id))
        BY <1>6
      <3>2. Len(e.name) = Len(u.name) + 1
        BY <1>1, <3>1, LayerName
      <3> QED BY <1>5, <2>1, <3>2
    <2> QED BY <1>2, <1>3, <2>1, <2>2
  <1>8. CASE t.layers > 0
    <2> DEFINE s == e.spatial
    <2>1. s \in 0 .. t.layers - 1 /\ e.name = Append(t.name, LayerPart(s))
      BY <1>3, <1>8, Zenon DEF IsLocEntry
    <2> HIDE DEF s
    <2>2. s \in 0 .. 3
      BY <1>4, <2>1
    <2>3. Len(e.name) = 2 /\ e.name[2] = LayerPart(s)
      <3>1. Len(e.name) = Len(t.name) + 1 /\ e.name[Len(e.name)] = LayerPart(s)
        BY <1>1, <2>1, <2>2, LayerName
      <3> QED BY <1>5, <3>1
    <2>4. u.name # e.name
      <3>1. LayerPart(s) \notin {"_drm", "_eccp"}
        BY <2>2, LayerParts
      <3> QED BY <1>5, <2>3, <3>1
    <2>5. PICK id \in 0 .. 3 : e.name = Append(u.name, LayerPart(id))
      BY <1>3, <1>6, <2>4
    <2>6. LayerPart(s) \in Parts /\ LayerPart(id) \in Parts /\ Append(t.name, LayerPart(s)) = Append(u.name, LayerPart(id))
      BY <2>1, <2>2, <2>5, LayerParts
    <2>7. t.name = u.name
      BY <1>5, <2>6, AppendTwice
    <2> QED BY <1>2, <2>7
  <1>9. t.layers = 0 \/ t.layers > 0
    BY <1>4
  <1> QED BY <1>7, <1>8, <1>9

LEMMA LocContent ==
  ASSUME IInv, pc \in HasGroups, NamesClear, NEW i \in DOMAIN AllTracks, NEW e, IsLocEntry(e, AllTracks[i]),
         NEW ns, ns.packaging = "loc"
  PROVE  /\ Content(ns, e) = <<AllTracks[i]>>
         /\ SpatialLayer(AllTracks[i], e.name) = e.spatial
         /\ AllTracks[i].layers > 0 => e.name # AllTracks[i].name
  <1> DEFINE t == AllTracks[i]
  <1>1. ClearName(t) /\ IsLocEntry(e, t)
    BY NamesAreClear
  <1>2. t \in TrackType /\ t.layers \in 0 .. 4
    <2>1. t \in TrackType
      BY <1>1, Zenon DEF ClearName
    <2> HIDE DEF t
    <2> QED BY <2>1 DEF TrackType
  <1>3. t.name \in Seq(Parts) /\ Len(t.name) \in {1, 2}
    BY <1>1, NameParts
  <1>4. ASSUME t.layers > 0
        PROVE  /\ e.spatial \in 0 .. t.layers - 1 /\ e.spatial \in 0 .. 3
               /\ e.name = Append(t.name, LayerPart(e.spatial)) /\ e.name # t.name
    <2> HIDE DEF t
    <2>1. e.spatial \in 0 .. t.layers - 1 /\ e.name = Append(t.name, LayerPart(e.spatial))
      BY <1>1, <1>4, Zenon DEF IsLocEntry
    <2>2. e.spatial \in 0 .. 3
      BY <1>2, <2>1
    <2>3. Len(e.name) = Len(t.name) + 1
      BY <1>1, <2>1, <2>2, LayerName
    <2>4. e.name # t.name
      BY <1>3, <2>3
    <2> QED BY <2>1, <2>2, <2>4
  <1>5. t.name = e.name \/ e.name \in LayerNames(t)
    <2> HIDE DEF t
    <2>1. CASE t.layers = 0
      BY <1>1, <2>1, Zenon DEF IsLocEntry
    <2>2. CASE t.layers > 0
      BY <1>4, <2>2, Zenon DEF LayerNames
    <2>3. t.layers = 0 \/ t.layers > 0
      BY <1>2
    <2> QED BY <2>1, <2>2, <2>3
  <1>6. Content(ns, e) = GetLOCTrackByName(e.name)
    BY DEF Content
  <1>7. PICK j \in DOMAIN AllTracks :
           /\ AllTracks[j].name = e.name \/ e.name \in LayerNames(AllTracks[j])
           /\ GetLOCTrackByName(e.name) = <<AllTracks[j]>>
    <2>1. \/ \A j \in DOMAIN AllTracks : ~(AllTracks[j].name = e.name \/ e.name \in LayerNames(AllTracks[j]))
          \/ \E j \in DOMAIN AllTracks :
              /\ AllTracks[j].name = e.name \/ e.name \in LayerNames(AllTracks[j])
              /\ GetLOCTrackByName(e.name) = <<AllTracks[j]>>
      BY ByLOCName, Zenon
    <2> QED BY <1>5, <2>1, Zenon
  <1>8. i = j
    BY <1>7, LocFound
  <1>9. Content(ns, e) = <<t>>
    BY <1>6, <1>7, <1>8, Zenon
  <1> HIDE DEF t
  <1>10. SpatialLayer(t, e.name) = e.spatial
    <2>1. CASE t.layers = 0
      BY <1>1, <2>1, Zenon DEF IsLocEntry, SpatialLayer
    <2>2. CASE t.layers > 0
      <3> DEFINE m == t.layers - 1  fits(id) == e.name = Append(t.name, LayerPart(id))
                 x == CHOOSE id \in 0 .. m : fits(id)
      <3>1. SpatialLayer(t, e.name) = x
        <4>1. t.layers # 0 /\ t.name # e.name
          BY <1>4, <2>2
        <4> QED BY <4>1, Zenon DEF SpatialLayer
      <3>2. e.spatial \in 0 .. m /\ fits(e.spatial)
        BY <1>4, <2>2
      <3>3. \E id \in 0 .. m : fits(id)
        BY <3>2
      <3>4. x \in 0 .. m /\ fits(x)
        BY <3>3, Zenon
      <3> HIDE DEF x
      <3>5. x \in 0 .. 3 /\ e.spatial \in 0 .. 3
        BY <1>2, <1>4, <2>2, <3>4
      <3>6. Append(t.name, LayerPart(x)) = Append(t.name, LayerPart(e.spatial))
        BY <3>2, <3>4
      <3>7. LayerPart(x) \in Parts /\ LayerPart(e.spatial) \in Parts
        BY <3>5, LayerParts, Zenon
      <3>8. LayerPart(x) = LayerPart(e.spatial)
        BY <1>3, <3>6, <3>7, AppendTwice
      <3> QED BY <3>1, <3>5, <3>8, LayerParts
    <2>3. t.layers = 0 \/ t.layers > 0
      BY <1>2
    <2> QED BY <2>1, <2>2, <2>3
  <1> QED BY <1>4, <1>9, <1>10, Zenon DEF t

\* GetTrackByName finds the track an entry of a CMSF catalog was made from.
LEMMA NameFound ==
  ASSUME IInv, pc \in HasGroups, NamesClear, NEW i \in DOMAIN AllTracks
  PROVE  GetTrackByName(AllTracks[i].name) = <<AllTracks[i]>>
  <1> DEFINE x == AllTracks[i].name
  <1>1. \/ \A j \in DOMAIN AllTracks : AllTracks[j].name # x
        \/ \E j \in DOMAIN AllTracks : AllTracks[j].name = x /\ GetTrackByName(x) = <<AllTracks[j]>>
    BY ByName, Zenon
  <1>2. PICK j \in DOMAIN AllTracks : AllTracks[j].name = x /\ GetTrackByName(x) = <<AllTracks[j]>>
    BY <1>1, Zenon
  <1>3. j = i
    BY <1>2, NameOnce
  <1> QED BY <1>2, <1>3, Zenon

LEMMA CmafContent ==
  ASSUME IInv, pc \in HasGroups, NamesClear, NEW i \in DOMAIN AllTracks, NEW j \in {1, 2}, NEW e,
         IsCmafEntry(e, AllTracks[i], j), NEW ns, ns.packaging # "loc"
  PROVE  Content(ns, e) = <<AllTracks[i]>>
  <1> DEFINE t == AllTracks[i]
  <1>1. ClearName(t)
    BY NamesAreClear
  <1>2. GetTrackByName(t.name) = <<t>>
    BY NameFound
  <1>3. e.name = t.name \/ e.name = Append(t.name, "_locmaf")
    <2>1. j = 1 \/ j = 2
      OBVIOUS
    <2> QED BY <2>1, Zenon DEF IsCmafEntry
  <1> HIDE DEF t
  <1>4. TrimSuffix(e.name) = t.name
    BY <1>1, <1>3, Trims, Zenon
  <1>5. Content(ns, e) = GetTrackByName(TrimSuffix(e.name))
    BY DEF Content
  <1> QED BY <1>2, <1>4, <1>5, Zenon DEF t

-----------------------------------------------------------------------------
(* What the catalogs list. *)

LEMMA ListedEntry ==
  ASSUME IInv, Serving, NEW n \in DOMAIN namespaces, NEW k \in DOMAIN namespaces[n].tracks
  PROVE  LET ns == namespaces[n]
             e == ns.tracks[k]
         IN  \/ ns = LocNS /\ \E i \in DOMAIN AllTracks : IsLocEntry(e, AllTracks[i])
             \/ \E q \in Prots : ns = CmafNS(q) /\ \E i \in DOMAIN AllTracks : \E j \in {1, 2} :
                  AllTracks[i].prot = q /\ IsCmafEntry(e, AllTracks[i], j)
             \/ \E q \in Prots : ns = CmafNS(q) /\ \E j \in DOMAIN subs : e = SubtitleEntry(subs[j])
  <1> DEFINE ns == namespaces[n]  e == ns.tracks[k]
  <1>0. pc \in Building
    BY DEF Serving, Building
  <1>1. CASE ns = LocNS
    <2>1. k \in DOMAIN LocTracks /\ e = LocTracks[k]
      BY <1>1, NamespaceFields, Zenon
    <2>2. PICK i \in DOMAIN AllTracks : IsLocEntry(e, AllTracks[i])
      BY <1>0, <2>1, LocPlaces, Zenon
    <2> QED BY <1>1, <2>2, Zenon
  <1>2. CASE ns = MoqMINS
    <2>1. ns.tracks = <<>>
      BY <1>2, NamespaceFields, Zenon
    <2>2. DOMAIN ns.tracks = {}
      BY <2>1
    <2> QED BY <2>2
  <1>3. ASSUME NEW q \in Prots, ns = CmafNS(q)
        PROVE  \/ \E i \in DOMAIN AllTracks : \E j \in {1, 2} :
                    AllTracks[i].prot = q /\ IsCmafEntry(e, AllTracks[i], j)
               \/ \E j \in DOMAIN subs : e = SubtitleEntry(subs[j])
    <2>1. k \in DOMAIN CmafTracks(q) /\ e = CmafTracks(q)[k]
      BY <1>3, NamespaceFields, Zenon
    <2>2. PICK n0, b, p : CmafAt(q, n0, b, p)
      BY <1>0, CmafPlaces
    <2>3. /\ n0 \in Nat /\ DOMAIN CmafTracks(q) = 1 .. n0 + Len(subs)
          /\ \A l \in 1 .. n0 : /\ b[l] \in DOMAIN AllTracks /\ AllTracks[b[l]].prot = q
                                /\ p[l] \in {1, 2} /\ CmafTracks(q)[l] = CmafPair(AllTracks[b[l]])[p[l]]
          /\ \A j \in 1 .. Len(subs) : CmafTracks(q)[n0 + j] = SubtitleEntry(subs[j])
      BY <2>2, Zenon DEF CmafAt
    <2>4. Len(subs) \in Nat /\ DOMAIN subs = 1 .. Len(subs)
      <3>1. Subtitled(subs)
        BY <1>0 DEF IInv
      <3> QED BY <3>1 DEF Subtitled
    <2> HIDE DEF e, ns
    <2>5. k \in 1 .. n0 \/ \E j \in 1 .. Len(subs) : k = n0 + j
      <3>1. k \in 1 .. n0 + Len(subs)
        BY <2>1, <2>3
      <3>2. k \in 1 .. n0 \/ (k - n0 \in 1 .. Len(subs) /\ k = n0 + (k - n0))
        BY <2>3, <2>4, <3>1
      <3> QED BY <3>2
    <2>6. CASE k \in 1 .. n0
      <3>1. /\ b[k] \in DOMAIN AllTracks /\ AllTracks[b[k]].prot = q
            /\ p[k] \in {1, 2} /\ e = CmafPair(AllTracks[b[k]])[p[k]]
        BY <2>1, <2>3, <2>6, Zenon
      <3>2. IsCmafEntry(CmafPair(AllTracks[b[k]])[p[k]], AllTracks[b[k]], p[k])
        BY <3>1, CmafEntry
      <3> QED BY <3>1, <3>2, Zenon
    <2>7. CASE \E j \in 1 .. Len(subs) : k = n0 + j
      <3>1. PICK j \in 1 .. Len(subs) : k = n0 + j
        BY <2>7
      <3>2. e = SubtitleEntry(subs[j]) /\ j \in DOMAIN subs
        BY <2>1, <2>3, <2>4, <3>1, Zenon
      <3> QED BY <3>2, Zenon
    <2> QED BY <2>5, <2>6, <2>7, Zenon
  <1>4. ns = LocNS \/ ns = MoqMINS \/ \E q \in Prots : ns = CmafNS(q)
    BY ServedNamespaces, Zenon
  <1> HIDE DEF ns, e
  <1>5. \/ ns = LocNS /\ \E i \in DOMAIN AllTracks : IsLocEntry(e, AllTracks[i])
        \/ \E q \in Prots : ns = CmafNS(q) /\ \E i \in DOMAIN AllTracks : \E j \in {1, 2} :
             AllTracks[i].prot = q /\ IsCmafEntry(e, AllTracks[i], j)
        \/ \E q \in Prots : ns = CmafNS(q) /\ \E j \in DOMAIN subs : e = SubtitleEntry(subs[j])
    <2>1. CASE \E q \in Prots : ns = CmafNS(q)
      BY <1>3, <2>1, Zenon
    <2> QED BY <1>1, <1>2, <1>4, <2>1, Zenon DEF ns, e
  <1> QED BY <1>5, Zenon DEF ns, e

\* No track has the name of a subtitle track.
LEMMA SubtitleNames ==
  ASSUME IInv, pc \in Building, NEW j \in DOMAIN subs
  PROVE  subs[j].name \in Seq(Parts) /\ subs[j].name[1] \in {"subs_wvtt", "subs_stpp"}
  <1>1. Subtitled(subs)
    BY DEF IInv
  <1> DEFINE T == [name : Seq(Parts), format : {"subs_wvtt", "subs_stpp"}]
  <1>2. subs \in Seq(T) /\ subs[j].name[1] = subs[j].format
    BY <1>1, Zenon DEF Subtitled
  <1> HIDE DEF T
  <1>3. subs[j] \in T
    BY <1>2
  <1>4. subs[j].name \in Seq(Parts) /\ subs[j].format \in {"subs_wvtt", "subs_stpp"}
    BY <1>3 DEF T
  <1> QED BY <1>2, <1>4

LEMMA NotSubtitle ==
  ASSUME IInv, pc \in Building, NEW e, e.name[1] \notin {"subs_wvtt", "subs_stpp"}
  PROVE  ~IsSubtitle(e)
  <1> SUFFICES ASSUME NEW j \in DOMAIN subs, subs[j].name = e.name PROVE FALSE
    BY DEF IsSubtitle
  <1>1. subs[j].name[1] \in {"subs_wvtt", "subs_stpp"}
    BY SubtitleNames
  <1>2. e.name[1] \in {"subs_wvtt", "subs_stpp"}
    BY <1>1, Zenon
  <1> QED BY <1>2

LEMMA LocNamed ==
  ASSUME NEW t, ClearName(t), NEW e, IsLocEntry(e, t)
  PROVE  e.name[1] \notin {"subs_wvtt", "subs_stpp"} /\ e.role # "subtitle"
  <1>1. t.name[1] \notin {"subs_wvtt", "subs_stpp"}
    BY NameParts
  <1>2. t.layers \in 0 .. 4
    <2>1. t \in TrackType
      BY Zenon DEF ClearName
    <2> QED BY <2>1 DEF TrackType
  <1>3. e.role # "subtitle"
    <2>1. e.role = ContentType(t.type)
      BY Zenon DEF IsLocEntry, IsLoc
    <2> QED BY <2>1 DEF ContentType
  <1>4. CASE t.layers = 0
    <2>1. e.name = t.name
      BY <1>4, Zenon DEF IsLocEntry
    <2> QED BY <1>1, <1>3, <2>1
  <1>5. CASE t.layers > 0
    <2>1. e.spatial \in 0 .. t.layers - 1 /\ e.name = Append(t.name, LayerPart(e.spatial))
      BY <1>5, Zenon DEF IsLocEntry
    <2>2. e.spatial \in 0 .. 3
      BY <1>2, <2>1
    <2>3. e.name[1] = t.name[1]
      BY <2>1, <2>2, LayerName
    <2> QED BY <1>1, <1>3, <2>3
  <1>6. t.layers = 0 \/ t.layers > 0
    BY <1>2
  <1> QED BY <1>4, <1>5, <1>6

LEMMA CmafNamed ==
  ASSUME NEW t, ClearName(t), NEW j \in {1, 2}, NEW e, IsCmafEntry(e, t, j)
  PROVE  e.name[1] \notin {"subs_wvtt", "subs_stpp"} /\ e.role # "subtitle"
  <1>1. t.name \in Seq(Parts) /\ Len(t.name) \in {1, 2} /\ t.name[1] \notin {"subs_wvtt", "subs_stpp"}
    BY NameParts
  <1>2. e.role # "subtitle"
    <2>1. e.role = ContentType(t.type)
      BY Zenon DEF IsCmafEntry
    <2> QED BY <2>1 DEF ContentType
  <1>3. e.name = t.name \/ e.name = Append(t.name, "_locmaf")
    <2>1. j = 1 \/ j = 2
      OBVIOUS
    <2> QED BY <2>1, Zenon DEF IsCmafEntry
  <1>4. "_locmaf" \in Parts
    BY SuffixIn
  <1>5. Append(t.name, "_locmaf")[1] = t.name[1]
    BY <1>1, <1>4
  <1> QED BY <1>1, <1>2, <1>3, <1>5

\* The init segment of an entry, of all that share the list.
LEMMA InitFields ==
  ASSUME NEW t, NEW prot
  PROVE  /\ InitOf(t, prot).id = <<"init">> \o t.name /\ InitOf(t, prot).of = t.of /\ InitOf(t, prot).prot = prot
         /\ InitOfSub(t).id = <<"init">> \o t.name /\ InitOfSub(t).of = t.name
  BY Zenon DEF InitOf, InitOfSub

LEMMA InitFound ==
  ASSUME IInv, pc \in Building, NamesClear, NEW q, NEW ns, ns.inits = InitDataList(q),
         NEW e, NEW name \in Seq(Parts), e.init = <<"init">> \o name,
         \/ \E i \in DOMAIN AllTracks : AllTracks[i].prot = q /\ AllTracks[i].name = name
         \/ \E j \in DOMAIN subs : subs[j].name = name
  PROVE  \E d : /\ InitDataFor(ns, e) = <<d>>
                /\ \/ \E i \in DOMAIN AllTracks : AllTracks[i].name = name /\ d.of = AllTracks[i].of /\ d.prot = q
                   \/ \E j \in DOMAIN subs : subs[j].name = name /\ d.of = name
  <1> DEFINE D == InitDataList(q)
  <1>0. pc \in HasGroups
    BY DEF HasGroups
  <1>1. /\ DOMAIN D = 1 .. Len(D) /\ Len(D) \in Nat
        /\ \A k \in DOMAIN D :
             \/ \E i \in DOMAIN AllTracks : AllTracks[i].prot = q /\ D[k] = InitOf(AllTracks[i], q)
             \/ \E j \in DOMAIN subs : D[k] = InitOfSub(subs[j])
        /\ \A i \in DOMAIN AllTracks : AllTracks[i].prot = q =>
             \E k \in DOMAIN D : D[k] = InitOf(AllTracks[i], q)
        /\ \A j \in DOMAIN subs : \E k \in DOMAIN D : D[k] = InitOfSub(subs[j])
    BY InitPlaces, Zenon
  <1> HIDE DEF D
  <1>2. \E k \in DOMAIN D : D[k].id = e.init
    <2>1. CASE \E i \in DOMAIN AllTracks : AllTracks[i].prot = q /\ AllTracks[i].name = name
      <3>1. PICK i \in DOMAIN AllTracks : AllTracks[i].prot = q /\ AllTracks[i].name = name
        BY <2>1
      <3>2. PICK k \in DOMAIN D : D[k] = InitOf(AllTracks[i], q)
        BY <1>1, <3>1, Zenon
      <3> DEFINE t == AllTracks[i]
      <3>3. D[k] = InitOf(t, q) /\ t.name = name
        BY <3>1, <3>2
      <3> HIDE DEF t
      <3>4. InitOf(t, q).id = <<"init">> \o t.name
        BY InitFields
      <3> QED BY <3>3, <3>4, Zenon
    <2>2. CASE \E j \in DOMAIN subs : subs[j].name = name
      <3>1. PICK j \in DOMAIN subs : subs[j].name = name
        BY <2>2
      <3>2. PICK k \in DOMAIN D : D[k] = InitOfSub(subs[j])
        BY <1>1, <3>1, Zenon
      <3> QED BY <3>1, <3>2, InitFields, Zenon
    <2> QED BY <2>1, <2>2
  <1>3. PICK k \in DOMAIN D : D[k].id = e.init /\ InitDataFor(ns, e) = <<D[k]>>
    <2>1. PICK l \in DOMAIN D : D[l].id = e.init
      BY <1>2
    <2>2. ns.inits = D
      BY DEF D
    <2>3. HasInit(D, ns, e)
      BY <1>1, <2>1, <2>2, ByInit
    <2> QED BY <2>3, Zenon DEF HasInit
  <1>5. CASE \E i \in DOMAIN AllTracks : AllTracks[i].prot = q /\ D[k] = InitOf(AllTracks[i], q)
    <2>1. PICK i \in DOMAIN AllTracks : D[k] = InitOf(AllTracks[i], q)
      BY <1>5
    <2>2. D[k].id = <<"init">> \o AllTracks[i].name /\ D[k].of = AllTracks[i].of /\ D[k].prot = q
      <3> DEFINE t == AllTracks[i]
      <3>1. D[k] = InitOf(t, q)
        BY <2>1
      <3> HIDE DEF t
      <3>2. InitOf(t, q).id = <<"init">> \o t.name /\ InitOf(t, q).of = t.of /\ InitOf(t, q).prot = q
        BY InitFields
      <3> QED BY <3>1, <3>2, Zenon DEF t
    <2>3. AllTracks[i].name \in Seq(Parts)
      <3>1. ClearName(AllTracks[i])
        BY <1>0, NamesAreClear
      <3> QED BY <3>1, NameParts
    <2>4. InitId(AllTracks[i].name) = InitId(name)
      BY <1>3, <2>2, Zenon DEF InitId
    <2>5. AllTracks[i].name = name
      BY <2>3, <2>4, InitTwice
    <2> QED BY <1>3, <2>2, <2>5, Zenon
  <1>6. CASE \E j \in DOMAIN subs : D[k] = InitOfSub(subs[j])
    <2>1. PICK j \in DOMAIN subs : D[k] = InitOfSub(subs[j])
      BY <1>6
    <2>2. D[k].id = <<"init">> \o subs[j].name /\ D[k].of = subs[j].name
      BY <2>1, InitFields, Zenon
    <2>3. subs[j].name \in Seq(Parts)
      BY SubtitleNames
    <2>4. InitId(subs[j].name) = InitId(name)
      BY <1>3, <2>2, Zenon DEF InitId
    <2>5. subs[j].name = name
      BY <2>3, <2>4, InitTwice
    <2> QED BY <1>3, <2>2, <2>5, Zenon
  <1> QED BY <1>1, <1>3, <1>5, <1>6, Zenon

\* BuildMoqMITrackMap.
LEMMA ClearFound ==
  ASSUME IInv, pc \in HasGroups, NamesClear, NEW type, FirstClear(type) # <<>>
  PROVE  \E i \in DOMAIN AllTracks : /\ AllTracks[i].prot = "none" /\ AllTracks[i].type = type
                                     /\ GetTrackByName(FirstClear(type)) = <<AllTracks[i]>>
  <1>1. PICK i \in DOMAIN AllTracks : /\ AllTracks[i].prot = "none" /\ AllTracks[i].type = type
                                      /\ FirstClear(type) = AllTracks[i].name
    BY ByClear, Zenon
  <1>2. GetTrackByName(AllTracks[i].name) = <<AllTracks[i]>>
    BY NameFound
  <1> QED BY <1>1, <1>2, Zenon

LEMMA NoneClear ==
  ASSUME IInv, pc \in HasGroups, NamesClear, NEW type, FirstClear(type) = <<>>
  PROVE  \A t \in Renditions : t.type # type
  <1> SUFFICES ASSUME NEW t \in Renditions, t.type = type PROVE FALSE
    OBVIOUS
  <1>1. PICK i \in DOMAIN AllTracks : t = AllTracks[i]
    BY DEF Renditions, ToSet
  <1>2. Made(cfg, t, Len(cfg.dir), Applied) /\ cfg \in Configs
    BY <1>1, AllTracksFacts DEF IInv
  <1>3. PICK d \in DOMAIN cfg.dir : Usable(cfg.dir[d]) /\ Rendition(cfg, t, cfg.dir[d])
    BY RenditionFile
  <1>4. cfg.dir[d].mp4 /\ t.of = cfg.dir[d].name
    BY <1>3, Zenon DEF Usable, Rendition
  <1>5. "none" \in Applied
    BY DEF Applied
  <1>6. PICK j \in DOMAIN AllTracks : AllTracks[j].of = cfg.dir[d].name /\ AllTracks[j].prot = "none"
    BY <1>4, <1>5, AllTracksFacts, Zenon
  <1>7. Made(cfg, AllTracks[j], Len(cfg.dir), Applied)
    BY AllTracksFacts
  <1>8. AllTracks[j].type = type
    <2> DEFINE u == AllTracks[j]
    <2>1. Made(cfg, u, Len(cfg.dir), Applied) /\ t.of = u.of
      BY <1>4, <1>6, <1>7, Zenon
    <2> HIDE DEF u
    <2>2. t.type = u.type
      BY <1>2, <2>1, SameFile, Zenon
    <2> QED BY <2>2, Zenon DEF u
  <1>10. \E l \in DOMAIN AllTracks : FirstClear(type) = AllTracks[l].name
    BY <1>6, <1>8, ByClear, Zenon
  <1>11. PICK l \in DOMAIN AllTracks : AllTracks[l].name = <<>>
    BY <1>10, Zenon
  <1>12. Len(AllTracks[l].name) \in {1, 2}
    <2>1. ClearName(AllTracks[l])
      BY NamesAreClear
    <2> QED BY <2>1, NameParts
  <1> QED BY <1>11, <1>12

LEMMA NoName ==
  ASSUME IInv, pc \in HasGroups, NamesClear
  PROVE  GetTrackByName(<<>>) = <<>>
  <1> SUFFICES ASSUME GetTrackByName(<<>>) # <<>> PROVE FALSE
    OBVIOUS
  <1>1. PICK i \in DOMAIN AllTracks : AllTracks[i].name = <<>>
    BY ByName, Zenon
  <1>2. Len(AllTracks[i].name) \in {1, 2}
    <2>1. ClearName(AllTracks[i])
      BY NamesAreClear
    <2> QED BY <2>1, NameParts
  <1> QED BY <1>1, <1>2

LEMMA MoqMIFound ==
  ASSUME IInv, pc \in HasGroups, NamesClear, FirstClear("avc") # <<>>
  PROVE  LET v == GetTrackByName(MoqMITrackMap.video0)
             a == GetTrackByName(MoqMITrackMap.audio0)
         IN  /\ v # <<>> /\ v[1].type = "avc" /\ v[1].prot = "none"
             /\ a # <<>> =>
                  /\ a[1].prot = "none" /\ a[1].type \in {"aac", "opus"}
                  /\ a[1].type = "opus" => \A t \in Renditions : t.type # "aac"
             /\ a = <<>> => \A t \in Renditions : t.type \notin {"aac", "opus"}
  <1> DEFINE v == GetTrackByName(MoqMITrackMap.video0)
             a == GetTrackByName(MoqMITrackMap.audio0)
  <1>1. MoqMITrackMap.video0 = FirstClear("avc") /\ MoqMITrackMap.audio0 = MoqMIAudio
    BY Zenon DEF MoqMITrackMap
  <1>2. ASSUME NEW type, FirstClear(type) # <<>>
        PROVE  LET x == GetTrackByName(FirstClear(type))
               IN  x # <<>> /\ x[1].type = type /\ x[1].prot = "none"
    <2>1. PICK i \in DOMAIN AllTracks : /\ AllTracks[i].prot = "none" /\ AllTracks[i].type = type
                                        /\ GetTrackByName(FirstClear(type)) = <<AllTracks[i]>>
      BY <1>2, ClearFound
    <2> DEFINE x == GetTrackByName(FirstClear(type))  t == AllTracks[i]
    <2>2. x = <<t>> /\ t.prot = "none" /\ t.type = type
      BY <2>1, Zenon
    <2> HIDE DEF x, t
    <2>3. x # <<>> /\ x[1] = t
      BY <2>2
    <2>4. x # <<>> /\ x[1].type = type /\ x[1].prot = "none"
      BY <2>2, <2>3, Zenon
    <2> QED BY <2>4, Zenon DEF x
  <1>3. v # <<>> /\ v[1].type = "avc" /\ v[1].prot = "none"
    BY <1>1, <1>2, Zenon
  <1>4. CASE FirstClear("aac") # <<>>
    <2>1. a = GetTrackByName(FirstClear("aac"))
      BY <1>1, <1>4, Zenon DEF MoqMIAudio
    <2>2. a # <<>> /\ a[1].type = "aac" /\ a[1].prot = "none"
      BY <1>2, <1>4, <2>1, Zenon
    <2> HIDE DEF a
    <2>3. a[1].type \in {"aac", "opus"} /\ a[1].type # "opus"
      BY <2>2
    <2> QED BY <1>3, <2>2, <2>3, Zenon DEF a
  <1>5. CASE FirstClear("aac") = <<>> /\ FirstClear("opus") # <<>>
    <2>1. a = GetTrackByName(FirstClear("opus"))
      BY <1>1, <1>5, Zenon DEF MoqMIAudio
    <2>2. a # <<>> /\ a[1].type = "opus" /\ a[1].prot = "none"
      BY <1>2, <1>5, <2>1, Zenon
    <2>3. \A t \in Renditions : t.type # "aac"
      BY <1>5, NoneClear
    <2> HIDE DEF a
    <2>4. a[1].type \in {"aac", "opus"}
      BY <2>2
    <2> QED BY <1>3, <2>2, <2>3, <2>4, Zenon DEF a
  <1>6. CASE FirstClear("aac") = <<>> /\ FirstClear("opus") = <<>>
    <2>1. a = GetTrackByName(<<>>)
      BY <1>1, <1>6, Zenon DEF MoqMIAudio
    <2>2. a = <<>>
      BY <2>1, NoName
    <2>3. \A t \in Renditions : t.type # "aac"
      BY <1>6, NoneClear
    <2>4. \A t \in Renditions : t.type # "opus"
      BY <1>6, NoneClear
    <2> HIDE DEF a
    <2>5. \A t \in Renditions : t.type \notin {"aac", "opus"}
      BY <2>3, <2>4
    <2> QED BY <1>3, <2>2, <2>5, Zenon DEF a
  <1> QED BY <1>4, <1>5, <1>6

\* One listed track: what ListedTracksServed says of it.
Served(ns, e) ==
  LET c == Content(ns, e)
      d == InitDataFor(ns, e)
  IN  /\ IsSubtitle(e) <=> e.role = "subtitle"
      /\ e.role # "subtitle" =>
           /\ c # <<>> /\ c[1].of = e.of /\ c[1].prot = ns.prot
           /\ ns.packaging = "loc" =>
                /\ SpatialLayer(c[1], e.name) = e.spatial
                /\ c[1].layers > 0 => e.name # c[1].name
      /\ ns.packaging = "cmaf" =>
           d # <<>> /\ d[1].of = e.of /\ (e.role # "subtitle" => d[1].prot = ns.prot)

LEMMA One ==
  ASSUME NEW x, NEW s, s = <<x>>
  PROVE  s # <<>> /\ s[1] = x
  OBVIOUS

LEMMA LocServed ==
  ASSUME IInv, pc \in Building, NamesClear, NEW i \in DOMAIN AllTracks, NEW e, IsLocEntry(e, AllTracks[i]),
         NEW ns, ns = LocNS
  PROVE  Served(ns, e)
  <1> DEFINE t == AllTracks[i]  c == Content(ns, e)
  <1>0. pc \in HasGroups
    BY DEF HasGroups
  <1>1. ns.packaging = "loc" /\ ns.prot = "none"
    BY NamespaceFields, Zenon
  <1>2. ClearName(t)
    BY <1>0, NamesAreClear
  <1>3. c = <<t>> /\ SpatialLayer(t, e.name) = e.spatial /\ (t.layers > 0 => e.name # t.name)
    BY <1>0, <1>1, LocContent
  <1>4. IsLocEntry(e, t)
    OBVIOUS
  <1> HIDE DEF t, c
  <1>5. e.role # "subtitle" /\ e.name[1] \notin {"subs_wvtt", "subs_stpp"}
    BY <1>2, <1>4, LocNamed
  <1>6. ~IsSubtitle(e)
    BY <1>5, NotSubtitle
  <1>7. c # <<>> /\ c[1] = t
    BY <1>3, One
  <1>8. e.of = t.of /\ t.prot = "none"
    BY <1>4, Zenon DEF IsLocEntry, IsLoc, InLOC
  <1>9. ns.packaging # "cmaf"
    BY <1>1
  <1> QED BY <1>1, <1>3, <1>5, <1>6, <1>7, <1>8, <1>9, Zenon DEF Served, c

LEMMA CmafServed ==
  ASSUME IInv, pc \in Building, NamesClear, NEW i \in DOMAIN AllTracks, NEW j \in {1, 2}, NEW e,
         IsCmafEntry(e, AllTracks[i], j), NEW ns, ns = CmafNS(AllTracks[i].prot)
  PROVE  Served(ns, e)
  <1> DEFINE t == AllTracks[i]  c == Content(ns, e)
  <1>0. pc \in HasGroups
    BY DEF HasGroups
  <1>1. ns.packaging = "cmaf" /\ ns.prot = t.prot /\ ns.inits = InitDataList(t.prot)
    BY NamespaceFields, Zenon
  <1>2. ClearName(t)
    BY <1>0, NamesAreClear
  <1>3. ns.packaging # "loc"
    BY <1>1
  <1>4. c = <<t>>
    BY <1>0, <1>3, CmafContent
  <1>5. IsCmafEntry(e, t, j)
    OBVIOUS
  <1>6. e.init = <<"init">> \o t.name /\ e.of = t.of
    BY <1>5, Zenon DEF IsCmafEntry
  <1>7. t.name \in Seq(Parts)
    BY <1>2, NameParts
  <1>8. PICK d : /\ InitDataFor(ns, e) = <<d>>
                 /\ \/ \E l \in DOMAIN AllTracks : AllTracks[l].name = t.name /\ d.of = AllTracks[l].of /\ d.prot = t.prot
                    \/ \E l \in DOMAIN subs : subs[l].name = t.name /\ d.of = t.name
    <2>1. \E l \in DOMAIN AllTracks : AllTracks[l].prot = t.prot /\ AllTracks[l].name = t.name
      OBVIOUS
    <2> DEFINE q == t.prot  name == t.name
    <2>2. /\ ns.inits = InitDataList(q) /\ name \in Seq(Parts) /\ e.init = <<"init">> \o name
          /\ \E l \in DOMAIN AllTracks : AllTracks[l].prot = q /\ AllTracks[l].name = name
      BY <1>1, <1>6, <1>7, <2>1
    <2> HIDE DEF q, name
    <2>3. \E d : /\ InitDataFor(ns, e) = <<d>>
                 /\ \/ \E l \in DOMAIN AllTracks : AllTracks[l].name = name /\ d.of = AllTracks[l].of /\ d.prot = q
                    \/ \E l \in DOMAIN subs : subs[l].name = name /\ d.of = name
      BY <2>2, InitFound, SMTT(40)
    <2> QED BY <2>3, Zenon DEF q, name
  <1>9. d.of = t.of /\ d.prot = t.prot
    <2>1. CASE \E l \in DOMAIN AllTracks : AllTracks[l].name = t.name /\ d.of = AllTracks[l].of /\ d.prot = t.prot
      <3>1. PICK l \in DOMAIN AllTracks : AllTracks[l].name = t.name /\ d.of = AllTracks[l].of /\ d.prot = t.prot
        BY <2>1
      <3>2. l = i
        BY <1>0, <3>1, NameOnce
      <3> QED BY <3>1, <3>2, Zenon
    <2>2. CASE \E l \in DOMAIN subs : subs[l].name = t.name /\ d.of = t.name
      <3>1. PICK l \in DOMAIN subs : subs[l].name = t.name
        BY <2>2
      <3>2. subs[l].name[1] \in {"subs_wvtt", "subs_stpp"}
        BY SubtitleNames
      <3> HIDE DEF t
      <3>3. t.name[1] \notin {"subs_wvtt", "subs_stpp"}
        BY <1>2, NameParts
      <3> QED BY <3>1, <3>2, <3>3
    <2> QED BY <1>8, <2>1, <2>2
  <1> HIDE DEF t, c
  <1>10. e.role # "subtitle" /\ e.name[1] \notin {"subs_wvtt", "subs_stpp"}
    BY <1>2, <1>5, CmafNamed
  <1>11. ~IsSubtitle(e)
    BY <1>10, NotSubtitle
  <1>12. c # <<>> /\ c[1] = t
    BY <1>4, One
  <1>13. InitDataFor(ns, e) # <<>> /\ InitDataFor(ns, e)[1] = d
    BY <1>8, One
  <1> QED BY <1>1, <1>3, <1>6, <1>9, <1>10, <1>11, <1>12, <1>13, Zenon DEF Served, c

LEMMA SubtitleServed ==
  ASSUME IInv, pc \in Building, NamesClear, NEW j \in DOMAIN subs, NEW q, NEW ns, ns = CmafNS(q),
         NEW e, e = SubtitleEntry(subs[j])
  PROVE  Served(ns, e)
  <1> DEFINE name == subs[j].name
  <1>0. pc \in HasGroups
    BY DEF HasGroups
  <1>1. ns.inits = InitDataList(q)
    BY NamespaceFields, Zenon
  <1>2. e.name = name /\ e.of = name /\ e.role = "subtitle" /\ e.init = <<"init">> \o name
    BY SubtitleFields, Zenon
  <1>3. name \in Seq(Parts) /\ name[1] \in {"subs_wvtt", "subs_stpp"}
    BY SubtitleNames
  <1>4. \E l \in DOMAIN subs : subs[l].name = name
    OBVIOUS
  <1> HIDE DEF name
  <1>5. PICK d : /\ InitDataFor(ns, e) = <<d>>
                 /\ \/ \E l \in DOMAIN AllTracks : AllTracks[l].name = name /\ d.of = AllTracks[l].of /\ d.prot = q
                    \/ \E l \in DOMAIN subs : subs[l].name = name /\ d.of = name
    BY <1>1, <1>2, <1>3, <1>4, InitFound, SMTT(40)
  <1>6. d.of = name
    <2>1. CASE \E l \in DOMAIN AllTracks : AllTracks[l].name = name
      <3>1. PICK l \in DOMAIN AllTracks : AllTracks[l].name = name
        BY <2>1
      <3>2. ClearName(AllTracks[l])
        BY <1>0, NamesAreClear
      <3>3. AllTracks[l].name[1] \notin {"subs_wvtt", "subs_stpp"}
        BY <3>2, NameParts
      <3> QED BY <1>3, <3>1, <3>3
    <2> QED BY <1>5, <2>1
  <1>7. InitDataFor(ns, e) # <<>> /\ InitDataFor(ns, e)[1] = d
    BY <1>5, One
  <1>8. IsSubtitle(e)
    BY <1>2, <1>4, Zenon DEF IsSubtitle
  <1> QED BY <1>2, <1>6, <1>7, <1>8, Zenon DEF Served

\* The catalogs, TrimSuffix and the lookups of the publisher agree, for every
\* directory whose file names are told apart by more than the publisher's suffixes.
THEOREM ListedServed == Spec => []ListedTracksServed
  <1>1. IInv => ListedTracksServed
    <2> SUFFICES ASSUME IInv, Serving, NamesClear PROVE ListedTracksServed
      BY Zenon DEF ListedTracksServed
    <2>0. pc \in HasGroups /\ pc \in Building
      BY DEF Serving, HasGroups, Building
    <2>1. ASSUME NEW n \in DOMAIN namespaces, NEW k \in DOMAIN namespaces[n].tracks
          PROVE  Served(namespaces[n], namespaces[n].tracks[k])
      <3> DEFINE ns == namespaces[n]  e == ns.tracks[k]
      <3>1. \/ ns = LocNS /\ \E i \in DOMAIN AllTracks : IsLocEntry(e, AllTracks[i])
            \/ \E q \in Prots : ns = CmafNS(q) /\ \E i \in DOMAIN AllTracks : \E j \in {1, 2} :
                 AllTracks[i].prot = q /\ IsCmafEntry(e, AllTracks[i], j)
            \/ \E q \in Prots : ns = CmafNS(q) /\ \E j \in DOMAIN subs : e = SubtitleEntry(subs[j])
        BY ListedEntry, Zenon
      <3> HIDE DEF ns, e
      <3>2. ASSUME ns = LocNS, NEW i \in DOMAIN AllTracks, IsLocEntry(e, AllTracks[i])
            PROVE  Served(ns, e)
        BY <2>0, <3>2, LocServed
      <3>3. ASSUME NEW q \in Prots, ns = CmafNS(q), NEW i \in DOMAIN AllTracks, NEW j \in {1, 2},
                   AllTracks[i].prot = q, IsCmafEntry(e, AllTracks[i], j)
            PROVE  Served(ns, e)
        <4>1. ns = CmafNS(AllTracks[i].prot)
          BY <3>3, Zenon
        <4> QED BY <2>0, <3>3, <4>1, CmafServed
      <3>4. ASSUME NEW q \in Prots, ns = CmafNS(q), NEW j \in DOMAIN subs, e = SubtitleEntry(subs[j])
            PROVE  Served(ns, e)
        BY <2>0, <3>4, SubtitleServed
      <3>5. Served(ns, e)
        BY <3>1, <3>2, <3>3, <3>4, Zenon
      <3> QED BY <3>5, Zenon DEF ns, e
    <2>2. ASSUME NEW n \in DOMAIN namespaces, namespaces[n].packaging = "moqmi"
          PROVE  LET m == namespaces[n].moqmi
                     v == GetTrackByName(m.video0)
                     a == GetTrackByName(m.audio0)
                 IN  /\ v # <<>> /\ v[1].type = "avc" /\ v[1].prot = "none"
                     /\ a # <<>> =>
                          /\ a[1].prot = "none" /\ a[1].type \in {"aac", "opus"}
                          /\ a[1].type = "opus" => \A t \in Renditions : t.type # "aac"
                     /\ a = <<>> => \A t \in Renditions : t.type \notin {"aac", "opus"}
      <3>1. namespaces[n] = MoqMINS /\ FirstClear("avc") # <<>>
        <4>1. "moqmi" # "loc" /\ "moqmi" # "cmaf"
          OBVIOUS
        <4> QED BY <2>2, <4>1, ServedNamespaces, NamespaceFields, Zenon
      <3>2. namespaces[n].moqmi = MoqMITrackMap
        BY <3>1, NamespaceFields, Zenon
      <3>3. FirstClear("avc") # <<>>
        BY <3>1
      <3>4. LET v == GetTrackByName(MoqMITrackMap.video0)
                a == GetTrackByName(MoqMITrackMap.audio0)
            IN  /\ v # <<>> /\ v[1].type = "avc" /\ v[1].prot = "none"
                /\ a # <<>> =>
                     /\ a[1].prot = "none" /\ a[1].type \in {"aac", "opus"}
                     /\ a[1].type = "opus" => \A t \in Renditions : t.type # "aac"
                /\ a = <<>> => \A t \in Renditions : t.type \notin {"aac", "opus"}
        BY <2>0, <3>3, MoqMIFound, Zenon
      <3> QED BY <3>2, <3>4, Zenon
    <2> QED BY <2>1, <2>2, Zenon DEF ListedTracksServed, Served
  <1> QED BY <1>1, Invariance, PTL

-----------------------------------------------------------------------------
(* Spatial layers. *)

\* calcMoQGroup for a track whose GOPs last as long as a group.
LEMMA GroupStarts ==
  ASSUME NEW t \in TrackType, t.sampleDur # 0, NEW G \in Nat \ {0},
         G * t.sampleDur * MsPerSecond = GroupDurMS * t.timeScale, NEW g \in Nat
  PROVE  StartNr(t, g) = g * G
  <1> DEFINE sd == t.sampleDur  T == t.timeScale  n == g * G  y == n * sd
  <1>1. sd \in Nat \ {0} /\ T \in Nat /\ G * sd * MsPerSecond = GroupDurMS * T
    BY DEF TrackType
  <1>2. MsPerSecond \in Nat \ {0} /\ GroupDurMS \in Nat
    BY UnitAssumption
  <1>3. GroupTime(t, g) = (g * GroupDurMS * T) \div MsPerSecond /\ StartNr(t, g) = CeilDiv(GroupTime(t, g), sd)
    BY DEF GroupTime, StartNr
  <1> HIDE DEF sd, T
  <1>4. n \in Nat /\ y \in Nat
    <2>1. n \in Nat
      OBVIOUS
    <2> HIDE DEF n
    <2> QED BY <1>1, <2>1
  <1>5. g * GroupDurMS * T = y * MsPerSecond
    <2>1. g * GroupDurMS * T = g * (GroupDurMS * T)
      BY <1>1, <1>2
    <2>2. g * (G * sd * MsPerSecond) = g * G * sd * MsPerSecond
      BY <1>1, <1>2
    <2> QED BY <1>1, <2>1, <2>2
  <1> HIDE DEF n, y
  <1>6. GroupTime(t, g) = y
    BY <1>2, <1>3, <1>4, <1>5, DivOfProduct
  <1>7. y \div sd = n
    BY <1>1, <1>4, DivOfProduct DEF y
  <1>8. y % sd = 0
    <2>1. y % sd \in 0 .. sd - 1 /\ y = (y \div sd) * sd + (y % sd)
      BY <1>1, <1>4, DivSpec
    <2>2. (y \div sd) * sd = y
      BY <1>7 DEF y
    <2> QED BY <1>1, <1>4, <2>1, <2>2
  <1>9. CeilDiv(y, sd) = n
    BY <1>4, <1>7, <1>8 DEF CeilDiv
  <1> QED BY <1>3, <1>6, <1>9 DEF n

\* CalcSample at the start of a group, when the loop is a whole number of GOPs.
StartsGop(t, G, nr) == \E x \in Nat : OrigNr(t, nr) = x * G /\ x * G < t.nrSamples
LEMMA WholeTurns ==
  ASSUME NEW t \in TrackType, t.sampleDur # 0, t.loopDur # 0, t.loopDur <= t.nrSamples * t.sampleDur,
         NEW G \in Nat \ {0}, NEW m \in Nat, t.loopDur = (m * G) * t.sampleDur, NEW g \in Nat
  PROVE  StartsGop(t, G, g * G)
  <1> DEFINE sd == t.sampleDur  L == t.loopDur  nr == g * G  w == NrWraps(t, nr)  c == CeilDiv(w * L, sd)
  <1>1. sd \in Nat \ {0} /\ L \in Nat /\ L = (m * G) * sd
    BY DEF TrackType
  <1>2. nr \in Nat
    OBVIOUS
  <1> HIDE DEF nr
  <1>3. /\ w \in Nat /\ c \in Nat /\ w * L <= c * sd /\ c * sd < w * L + sd
        /\ c <= nr /\ OrigNr(t, nr) = nr - c /\ nr - c < t.nrSamples
    BY <1>2, TurnOf
  <1> HIDE DEF sd, L, w, c
  <1> DEFINE v == w * m  y == v * G
  <1>4. v \in Nat
    BY <1>3
  <1>5. w * L = y * sd
    <2>1. w * ((m * G) * sd) = ((w * m) * G) * sd
      BY <1>1, <1>3
    <2> QED BY <1>1, <2>1
  <1> HIDE DEF v
  <1>6. y \in Nat
    BY <1>4
  <1> HIDE DEF y
  <1>7. y <= c
    BY <1>1, <1>3, <1>5, <1>6, MulCancel
  <1>8. ~(y + 1 <= c)
    <2> SUFFICES ASSUME y + 1 <= c PROVE FALSE
      OBVIOUS
    <2>1. (y + 1) * sd <= c * sd
      BY <1>1, <1>3, <1>6, MulMono
    <2>2. (y + 1) * sd = y * sd + sd /\ y * sd \in Nat /\ c * sd \in Nat
      BY <1>1, <1>3, <1>6
    <2> QED BY <1>1, <1>3, <1>5, <2>1, <2>2
  <1>9. c = y
    BY <1>3, <1>6, <1>7, <1>8
  <1>10. v <= g
    <2>1. v * G <= g * G
      BY <1>3, <1>9 DEF y, nr
    <2> QED BY <1>4, <2>1, MulCancel
  <1> DEFINE x == g - v
  <1>11. x \in Nat /\ nr - c = x * G
    <2>1. (g - v) * G = g * G - v * G
      BY <1>4
    <2> QED BY <1>4, <1>9, <1>10, <2>1 DEF nr, y
  <1> HIDE DEF x
  <1>12. OrigNr(t, nr) = x * G /\ x * G < t.nrSamples
    BY <1>3, <1>11
  <1> QED BY <1>11, <1>12 DEF StartsGop, nr

\* getLOCFrameMarking reads back what locFrameMarking wrote.
LEMMA MarkingAccepted ==
  ASSUME NEW layer \in 0 .. 3, NEW independent \in BOOLEAN
  PROVE  LET m == GetLOCFrameMarking(FrameMarking(layer, independent))
         IN  ValidPlaybackMarking(m, layer) /\ (m.independent <=> independent)
  <1> DEFINE v == FrameMarking(layer, independent)  flags == v \div 256
             m == GetLOCFrameMarking(v)
  <1>1. /\ m.start <=> (flags \div 128) % 2 = 1
        /\ m.end <=> (flags \div 64) % 2 = 1
        /\ m.independent <=> (flags \div 32) % 2 = 1
        /\ m.discardable <=> (flags \div 16) % 2 = 1
        /\ m.sync <=> (flags \div 8) % 2 = 1
        /\ m.temporal = flags % 8 /\ m.layer = v % 256
    BY Zenon DEF GetLOCFrameMarking
  <1>2. CASE independent = TRUE
    <2>1. v = 57344 + layer
      BY <1>2 DEF FrameMarking
    <2> HIDE DEF v
    <2>2. flags = 224 /\ v % 256 = layer
      BY <2>1
    <2> HIDE DEF flags
    <2>3. /\ (flags \div 128) % 2 = 1 /\ (flags \div 64) % 2 = 1 /\ (flags \div 32) % 2 = 1
          /\ (flags \div 16) % 2 # 1 /\ (flags \div 8) % 2 # 1 /\ flags % 8 = 0
      BY <2>2
    <2> HIDE DEF m
    <2>4. ValidPlaybackMarking(m, layer) /\ (m.independent <=> independent)
      BY <1>1, <1>2, <2>2, <2>3, ZenonT(60) DEF ValidPlaybackMarking
    <2> QED BY <2>4, Zenon DEF m, v
  <1>3. CASE independent = FALSE
    <2>1. v = 49152 + layer
      BY <1>3 DEF FrameMarking
    <2> HIDE DEF v
    <2>2. flags = 192 /\ v % 256 = layer
      BY <2>1
    <2> HIDE DEF flags
    <2>3. /\ (flags \div 128) % 2 = 1 /\ (flags \div 64) % 2 = 1 /\ (flags \div 32) % 2 # 1
          /\ (flags \div 16) % 2 # 1 /\ (flags \div 8) % 2 # 1 /\ flags % 8 = 0
      BY <2>2
    <2> HIDE DEF m
    <2>4. ValidPlaybackMarking(m, layer) /\ (m.independent <=> independent)
      BY <1>1, <1>3, <2>2, <2>3, ZenonT(60) DEF ValidPlaybackMarking
    <2> QED BY <2>4, Zenon DEF m, v
  <1>4. independent = TRUE \/ independent = FALSE
    BY Zenon
  <1> QED BY <1>2, <1>3, <1>4, Zenon

\* Taking units out keeps the one frame of a layer.
LEMMA PickedFrames ==
  ASSUME NEW u \in Seq(UnitType), NEW id, NEW I, FramesOf(u, id) \subseteq I, Cardinality(FramesOf(u, id)) = 1
  PROVE  Picked(u, I) \in Seq(UnitType) /\ Cardinality(FramesOf(Picked(u, I), id)) = 1
  <1> DEFINE F == Picked(u, I)  S == FramesOf(u, id)
  <1>0. DOMAIN u = 1 .. Len(u) /\ Len(u) \in Nat
    OBVIOUS
  <1>1. IsFiniteSet(S)
    <2>1. S \subseteq 1 .. Len(u)
      BY <1>0 DEF FramesOf
    <2>2. IsFiniteSet(1 .. Len(u))
      BY <1>0, FS_Interval
    <2> QED BY <2>1, <2>2, FS_Subset
  <1>2. PICK a : S = {a}
    <2> HIDE DEF S
    <2>1. Cardinality(S) = 1
      BY DEF S
    <2> QED BY <1>1, <2>1, FS_Singleton, Zenon
  <1>3. a \in DOMAIN u /\ u[a].kind = "frame" /\ u[a].sid = id /\ a \in I
    <2>1. a \in S
      BY <1>2
    <2> QED BY <2>1 DEF FramesOf
  <1>4. F \in Seq(UnitType) /\ \E b : Picks(F, u, I, b)
    BY PickedPlaces, Zenon
  <1>5. PICK b : Picks(F, u, I, b)
    BY <1>4
  <1> HIDE DEF F
  <1>6. /\ \A k \in 1 .. Len(F) : b[k] \in 1 .. Len(u) /\ F[k] = u[b[k]]
        /\ \A k, l \in 1 .. Len(F) : b[k] = b[l] => k = l
        /\ \A i \in 1 .. Len(u) : i \in I => \E k \in 1 .. Len(F) : b[k] = i
    BY <1>5, Zenon DEF Picks
  <1>7. PICK k \in 1 .. Len(F) : b[k] = a
    BY <1>0, <1>3, <1>6, Zenon
  <1>8. DOMAIN F = 1 .. Len(F)
    BY <1>4
  <1>9. k \in FramesOf(F, id)
    <2>1. F[k] = u[a] /\ k \in DOMAIN F
      BY <1>6, <1>7, <1>8, Zenon
    <2> QED BY <1>3, <2>1, Zenon DEF FramesOf
  <1>10. ASSUME NEW l \in FramesOf(F, id) PROVE l = k
    <2>1. l \in 1 .. Len(F) /\ F[l].kind = "frame" /\ F[l].sid = id
      BY <1>8, Zenon DEF FramesOf
    <2>2. b[l] \in DOMAIN u /\ u[b[l]].kind = "frame" /\ u[b[l]].sid = id
      BY <1>0, <1>6, <2>1, Zenon
    <2>3. b[l] \in S
      BY <2>2, Zenon DEF FramesOf
    <2>4. b[l] = b[k]
      BY <1>2, <1>7, <2>3
    <2> QED BY <1>6, <2>1, <2>4, Zenon
  <1>11. FramesOf(F, id) = {k}
    BY <1>9, <1>10
  <1>12. Cardinality(FramesOf(F, id)) = 1
    BY <1>11, FS_Singleton, Zenon
  <1> QED BY <1>4, <1>12, Zenon DEF F

\* What the loader found in the file of a track with layers.
SvcOf(t, f) ==
  LET s == f.samples
  IN  /\ t \in TrackType /\ f \in FileType /\ s \in Seq(SampleType) /\ s # <<>>
      /\ LayersSplit(s) /\ NrLayers(s) > 0 /\ ValidateAV1SVCGOP(f, s)
      /\ t.layers = NrLayers(s) /\ t.nrSamples = Len(s) /\ t.sampleDur = SampleDur(s)
      /\ t.timeScale = f.timeScale /\ ContentType(t.type) = "video"
      /\ DOMAIN t.samples = DOMAIN s
      /\ \A i \in DOMAIN s : /\ t.samples[i].sync = s[i].sync
                             /\ t.samples[i].units = StripUnits(f.type, s[i].units)

LEMMA SvcFile ==
  ASSUME IInv, pc \in HasGroups, NEW t \in Renditions, t.layers > 0
  PROVE  \E f : SvcOf(t, f)
  <1>1. PICK d \in DOMAIN cfg.dir : Usable(cfg.dir[d]) /\ Rendition(cfg, t, cfg.dir[d])
    BY RenditionFile
  <1> DEFINE f == cfg.dir[d]  s == f.samples
  <1>2. cfg \in Configs /\ f \in FileType
    BY ConfigFacts DEF IInv
  <1>3. Usable(f) /\ Rendition(cfg, t, f)
    BY <1>1
  <1> HIDE DEF f
  <1>4. s \in Seq(SampleType)
    BY <1>2 DEF FileType
  <1>5. /\ t \in TrackType /\ t.type = f.type /\ t.timeScale = f.timeScale /\ t.sampleDur = SampleDur(s)
        /\ t.nrSamples = Len(Trimmed(f)) /\ t.samples = LoadedSamples(f) /\ t.layers = LoadedLayers(f)
    BY <1>3, Zenon DEF Rendition
  <1>6. f.type = "av1"
    <2>1. LoadedLayers(f) > 0
      BY <1>5
    <2> QED BY <2>1 DEF LoadedLayers
  <1>7. ContentType(t.type) = "video" /\ ContentType(f.type) = "video"
    BY <1>5, <1>6 DEF ContentType
  <1>8. Trimmed(f) = s
    BY <1>2, <1>7, TrimmedType
  <1>9. t.layers = NrLayers(s) /\ NrLayers(s) > 0
    <2>1. t.layers = NrLayers(s)
      BY <1>5, <1>6, <1>8 DEF LoadedLayers
    <2> QED BY <2>1
  <1>10. s # <<>> /\ LayersSplit(s) /\ ValidateAV1SVCGOP(f, s)
    <2>1. Loadable(f) /\ Trimmed(f) # <<>>
      BY <1>3, Zenon DEF Usable
    <2>2. LayersSplit(s) /\ (NrLayers(s) > 0 => ValidateAV1SVCGOP(f, s))
      BY <1>6, <1>8, <2>1, Zenon DEF Loadable
    <2> QED BY <1>8, <1>9, <2>1, <2>2, Zenon
  <1>11. t.samples = [i \in DOMAIN s |-> [s[i] EXCEPT !.units = StripUnits(f.type, @)]]
    BY <1>5, <1>8, Zenon DEF LoadedSamples
  <1>12. DOMAIN t.samples = DOMAIN s
    BY <1>11, Zenon
  <1>13. ASSUME NEW i \in DOMAIN s
         PROVE  t.samples[i].sync = s[i].sync /\ t.samples[i].units = StripUnits(f.type, s[i].units)
    <2> DEFINE r == s[i]  x == StripUnits(f.type, s[i].units)  q == [r EXCEPT !.units = x]
    <2>1. t.samples[i] = q
      BY <1>11, Zenon
    <2>2. r \in SampleType
      BY <1>4
    <2>3. DOMAIN r = {"dur", "time", "sync", "units"}
      BY <2>2 DEF SampleType
    <2> HIDE DEF r, x
    <2>4. q.sync = r.sync /\ q.units = x
      BY <2>3
    <2> QED BY <2>1, <2>4, Zenon DEF r, x
  <1>14. SvcOf(t, f)
    BY <1>2, <1>4, <1>5, <1>7, <1>8, <1>9, <1>10, <1>12, <1>13, Zenon DEF SvcOf
  <1> QED BY <1>14

\* splitAV1SpatialLayers: an object holds one frame of its layer.
LEMMA OneFrame ==
  ASSUME NEW t, NEW f, SvcOf(t, f), NEW id \in 0 .. t.layers - 1, NEW i \in DOMAIN t.samples
  PROVE  Cardinality(FramesOf(LocData(t, id, i), id)) = 1
  <1> DEFINE s == f.samples  u == s[i].units
             I == {k \in DOMAIN u : /\ f.type \in {"avc", "hevc"} => u[k].kind # "sequence"
                                    /\ f.type = "avc" => u[k].kind # "delimiter"}
             v == Picked(u, I)
             J == {k \in DOMAIN v : LayerOf(v[k]) = id}
  <1>1. /\ s \in Seq(SampleType) /\ LayersSplit(s) /\ NrLayers(s) > 0 /\ t.layers = NrLayers(s)
        /\ i \in DOMAIN s /\ t.samples[i].units = StripUnits(f.type, u)
    BY Zenon DEF SvcOf
  <1>2. t.layers > 0
    BY <1>1, Zenon
  <1>3. u \in Seq(UnitType)
    <2>1. s[i] \in SampleType
      BY <1>1
    <2> QED BY <2>1 DEF SampleType
  <1>4. Cardinality(FramesOf(u, id)) = 1
    BY <1>1, Zenon DEF LayersSplit
  <1>5. t.samples[i].units = v
    BY <1>1, Zenon DEF StripUnits
  <1> HIDE DEF u
  <1>6. FramesOf(u, id) \subseteq I
    <2> SUFFICES ASSUME NEW k \in FramesOf(u, id) PROVE k \in I
      OBVIOUS
    <2>1. k \in DOMAIN u /\ u[k].kind = "frame"
      BY DEF FramesOf
    <2>2. u[k].kind # "sequence" /\ u[k].kind # "delimiter"
      BY <2>1
    <2> QED BY <2>1, <2>2, Zenon
  <1> HIDE DEF I
  <1>7. v \in Seq(UnitType) /\ Cardinality(FramesOf(v, id)) = 1
    BY <1>3, <1>4, <1>6, PickedFrames
  <1>8. LocData(t, id, i) = LayerData(t.samples, id, i)
    BY <1>2, Zenon DEF LocData
  <1>9. LayerData(t.samples, id, i) = Picked(v, J)
    BY <1>5, Zenon DEF LayerData
  <1> HIDE DEF v
  <1>10. FramesOf(v, id) \subseteq J
    <2> SUFFICES ASSUME NEW k \in FramesOf(v, id) PROVE k \in J
      OBVIOUS
    <2>1. k \in DOMAIN v /\ v[k].kind = "frame" /\ v[k].sid = id
      BY DEF FramesOf
    <2>2. LayerOf(v[k]) = id
      BY <2>1 DEF LayerOf
    <2> QED BY <2>1, <2>2, Zenon
  <1> HIDE DEF J
  <1>11. Cardinality(FramesOf(Picked(v, J), id)) = 1
    BY <1>7, <1>10, PickedFrames
  <1> QED BY <1>8, <1>9, <1>11, Zenon

\* A number of groups, in ticks and in milliseconds.
LEMMA WholeGroups ==
  ASSUME NEW m \in Nat, NEW G \in Nat \ {0}, NEW sd \in Nat \ {0}, NEW T \in Nat,
         G * sd * MsPerSecond = GroupDurMS * T, NEW ms, ms = m * GroupDurMS
  PROVE  ms * T = ((m * G) * sd) * MsPerSecond /\ (ms * T) % MsPerSecond = 0
  <1>0. MsPerSecond \in Nat \ {0} /\ GroupDurMS \in Nat
    BY UnitAssumption
  <1> DEFINE y == (m * G) * sd
  <1>1. y \in Nat
    <2> DEFINE z == m * G
    <2>1. z \in Nat
      OBVIOUS
    <2> HIDE DEF z
    <2>2. z * sd \in Nat
      BY <2>1
    <2> QED BY <2>2 DEF z
  <1>2. ms * T = y * MsPerSecond
    <2>1. (m * GroupDurMS) * T = m * (GroupDurMS * T)
      BY <1>0
    <2>2. m * (G * sd * MsPerSecond) = ((m * G) * sd) * MsPerSecond
      BY <1>0
    <2> QED BY <2>1, <2>2
  <1> HIDE DEF y
  <1> DEFINE x == y * MsPerSecond
  <1>3. x \in Nat /\ x \div MsPerSecond = y
    BY <1>0, <1>1, DivOfProduct
  <1>4. x % MsPerSecond \in 0 .. MsPerSecond - 1 /\ x = (x \div MsPerSecond) * MsPerSecond + (x % MsPerSecond)
    <2> HIDE DEF x
    <2> QED BY <1>0, <1>3, DivSpec
  <1>5. (x \div MsPerSecond) * MsPerSecond = x
    BY <1>3
  <1> HIDE DEF x
  <1>6. x % MsPerSecond = 0
    BY <1>0, <1>3, <1>4, <1>5
  <1> QED BY <1>2, <1>6 DEF x, y

\* validateAV1SVCGOP: a group starts with a sync sample in every turn.
LEMMA GroupStartsSync ==
  ASSUME IInv, Serving, NoOverflow, loopDurMS % GroupDurMS = 0, NEW t \in Renditions, NEW f, SvcOf(t, f),
         NEW g \in Nat
  PROVE  t.samples[OrigNr(t, StartNr(t, g)) + 1].sync
  <1> DEFINE s == f.samples  G == GopLength(s)  sd == t.sampleDur  T == t.timeScale  L == t.loopDur
             m == loopDurMS \div GroupDurMS
  <1>1. /\ t \in TrackType /\ s \in Seq(SampleType) /\ s # <<>> /\ ValidateAV1SVCGOP(f, s)
        /\ t.nrSamples = Len(s) /\ sd = SampleDur(s) /\ T = f.timeScale /\ ContentType(t.type) = "video"
        /\ DOMAIN t.samples = DOMAIN s
        /\ \A i \in DOMAIN s : t.samples[i].sync = s[i].sync
    BY Zenon DEF SvcOf
  <1>2. /\ loopDurMS \in Nat /\ L <= t.nrSamples * sd
        /\ (loopDurMS * T) % MsPerSecond = 0 => L * MsPerSecond = loopDurMS * T
        /\ L = t.nrSamples * sd
    BY <1>1, LoopFits
  <1>3. /\ sd # 0 /\ G # 0 /\ G * sd * MsPerSecond = GroupDurMS * T
        /\ \A i \in DOMAIN s : s[i].sync <=> (i - 1) % G = 0
    BY <1>1, Zenon DEF ValidateAV1SVCGOP
  <1>4. G \in Nat \ {0} /\ sd \in Nat \ {0} /\ T \in Nat \ {0} /\ Len(s) \in Nat \ {0} /\ DOMAIN s = 1 .. Len(s)
    <2>1. G \in 0 .. Len(s)
      BY <1>1, GopLengthType
    <2>2. Len(s) \in Nat /\ Len(s) # 0 /\ DOMAIN s = 1 .. Len(s)
      BY <1>1
    <2>3. sd \in Nat /\ T \in Nat \ {0}
      BY <1>1 DEF TrackType
    <2> HIDE DEF s, G, sd, T
    <2> QED BY <1>3, <2>1, <2>2, <2>3
  <1>5. m \in Nat /\ loopDurMS = m * GroupDurMS
    <2>1. GroupDurMS \in Nat \ {0}
      BY UnitAssumption
    <2>2. m \in Nat /\ loopDurMS = m * GroupDurMS + (loopDurMS % GroupDurMS)
      BY <1>2, <2>1, DivSpec
    <2> HIDE DEF m
    <2>3. m * GroupDurMS \in Nat
      BY <2>1, <2>2
    <2> QED BY <2>2, <2>3
  <1>6. StartNr(t, g) = g * G
    <2> HIDE DEF G, s
    <2> QED BY <1>1, <1>3, <1>4, GroupStarts
  <1> HIDE DEF m, G, s
  <1>7. loopDurMS * T = ((m * G) * sd) * MsPerSecond /\ (loopDurMS * T) % MsPerSecond = 0
    <2> HIDE DEF sd, T
    <2> QED BY <1>3, <1>4, <1>5, WholeGroups
  <1>8. L = (m * G) * sd
    <2> DEFINE y == (m * G) * sd
    <2>1. L * MsPerSecond = y * MsPerSecond
      BY <1>2, <1>7
    <2>2. L \in Nat /\ y \in Nat
      <3>1. L \in Nat
        BY <1>1 DEF TrackType
      <3> DEFINE z == m * G
      <3>2. z \in Nat
        BY <1>4, <1>5
      <3> HIDE DEF z, sd
      <3>3. z * sd \in Nat
        BY <1>4, <3>2
      <3> QED BY <3>1, <3>3 DEF z
    <2>3. MsPerSecond \in Nat \ {0}
      BY UnitAssumption
    <2> HIDE DEF y, L, sd
    <2>4. y * MsPerSecond \in Nat /\ L * MsPerSecond <= y * MsPerSecond /\ y * MsPerSecond <= L * MsPerSecond
      BY <2>1, <2>2, <2>3
    <2>5. L <= y /\ y <= L
      BY <2>2, <2>3, <2>4, MulCancel
    <2> QED BY <2>2, <2>5 DEF y
  <1>9. L # 0
    <2> DEFINE N == Len(s)
    <2>1. N \in Nat \ {0} /\ L = N * sd
      BY <1>1, <1>2, <1>4
    <2> HIDE DEF N, L, sd
    <2> QED BY <1>4, <2>1
  <1>10. StartsGop(t, G, g * G)
    BY <1>1, <1>2, <1>3, <1>4, <1>5, <1>8, <1>9, WholeTurns
  <1>11. PICK x \in Nat : OrigNr(t, g * G) = x * G /\ x * G < t.nrSamples
    BY <1>10, Zenon DEF StartsGop
  <1> DEFINE y == x * G
  <1>12. y \in Nat /\ y \div G = x /\ y % G \in 0 .. G - 1 /\ y = (y \div G) * G + (y % G)
    <2>1. y \in Nat /\ y \div G = x
      BY <1>4, DivOfProduct
    <2> HIDE DEF y
    <2> QED BY <1>4, <2>1, DivSpec
  <1>13. y % G = 0
    <2>1. (y \div G) * G = y
      BY <1>12
    <2> HIDE DEF y
    <2> QED BY <1>4, <1>12, <2>1
  <1> HIDE DEF y
  <1>14. y + 1 \in DOMAIN s /\ (y + 1) - 1 = y
    <2>1. y < Len(s)
      BY <1>1, <1>11, Zenon DEF y
    <2> QED BY <1>4, <1>12, <2>1
  <1>15. s[y + 1].sync
    BY <1>3, <1>13, <1>14, Zenon
  <1>16. t.samples[y + 1].sync
    BY <1>1, <1>14, <1>15, Zenon
  <1>17. OrigNr(t, StartNr(t, g)) = y
    BY <1>6, <1>11, Zenon DEF y
  <1> QED BY <1>16, <1>17, Zenon

\* genLOCSVCTracks: the layer below is listed, of the same file.
Chained(ns, e) ==
  /\ e.spatial = 0 <=> e.depends = <<>>
  /\ e.spatial > 0 =>
       /\ Len(e.depends) = 1
       /\ \E j \in DOMAIN ns.tracks :
            /\ ns.tracks[j].name = e.depends[1] /\ ns.tracks[j].of = e.of
            /\ ns.tracks[j].spatial = e.spatial - 1

LEMMA LayersChained ==
  ASSUME IInv, pc \in Building, NEW i \in DOMAIN AllTracks, AllTracks[i].layers > 0,
         NEW e, IsLocEntry(e, AllTracks[i]), NEW ns, ns = LocNS
  PROVE  Chained(ns, e)
  <1> DEFINE t == AllTracks[i]  s == e.spatial
  <1>0. pc \in HasGroups /\ ns.tracks = LocTracks
    <2>1. ns.tracks = LocTracks
      BY NamespaceFields, Zenon
    <2> QED BY <2>1 DEF HasGroups
  <1>1. t \in TrackType
    BY <1>0, AllTracksFacts
  <1>2. /\ \A id \in 0 .. t.layers - 1 : \E k \in DOMAIN LocTracks : IsLocEntry(LocTracks[k], t) /\ LocTracks[k].spatial = id
    <2>1. InLOC(t)
      BY Zenon DEF IsLocEntry
    <2> QED BY <2>1, LocPlaces, Zenon
  <1>3. IsLocEntry(e, t) /\ t.layers > 0
    OBVIOUS
  <1> HIDE DEF t
  <1>4. t.layers \in 0 .. 4
    BY <1>1 DEF TrackType
  <1>5. s \in 0 .. t.layers - 1 /\ e.depends = DependsOn(t, s) /\ e.of = t.of
    BY <1>3, Zenon DEF IsLocEntry, IsLoc
  <1>6. s \in Nat
    BY <1>4, <1>5
  <1> HIDE DEF s
  <1>7. CASE s = 0
    <2>1. e.depends = <<>>
      BY <1>5, <1>7 DEF DependsOn
    <2>2. ~(s > 0)
      BY <1>7
    <2> QED BY <1>7, <2>1, <2>2, Zenon DEF Chained, s
  <1>8. CASE s > 0
    <2> DEFINE x == Append(t.name, LayerPart(s - 1))
    <2>1. e.depends = <<x>> /\ s # 0
      BY <1>5, <1>8 DEF DependsOn
    <2>2. s - 1 \in 0 .. t.layers - 1
      BY <1>4, <1>5, <1>8
    <2> HIDE DEF x
    <2>3. e.depends # <<>> /\ e.depends[1] = x /\ Len(e.depends) = 1
      BY <2>1
    <2>4. PICK k \in DOMAIN LocTracks : IsLocEntry(LocTracks[k], t) /\ LocTracks[k].spatial = s - 1
      BY <1>2, <2>2, Zenon
    <2>5. LocTracks[k].name = x /\ LocTracks[k].of = e.of
      BY <1>3, <1>5, <2>4, Zenon DEF IsLocEntry, IsLoc, x
    <2> QED BY <1>0, <2>1, <2>3, <2>4, <2>5, Zenon DEF Chained, s
  <1>9. s = 0 \/ s > 0
    BY <1>6
  <1> QED BY <1>7, <1>8, <1>9

\* genLOCSVCTracks, splitAV1SpatialLayers, validateAV1SVCGOP, locFrameMarking and
\* the simulated player fit together, for every file with spatial layers.
THEOREM SvcPlayable == Spec => []SvcChainsPlayable
  <1>1. IInv => SvcChainsPlayable
    <2> SUFFICES ASSUME IInv, Serving, NamesClear, NEW n \in DOMAIN namespaces,
                        namespaces[n].packaging = "loc", NEW k \in DOMAIN namespaces[n].tracks,
                        Content(namespaces[n], namespaces[n].tracks[k])[1].layers > 0
                 PROVE  LET ns == namespaces[n]
                            e == ns.tracks[k]
                            t == Content(ns, e)[1]
                        IN  /\ Chained(ns, e)
                            /\ \A i \in DOMAIN t.samples :
                                 LET m == GetLOCFrameMarking(FrameMarking(e.spatial, t.samples[i].sync))
                                 IN  /\ Cardinality(FramesOf(LocData(t, e.spatial, i), e.spatial)) = 1
                                     /\ ValidPlaybackMarking(m, e.spatial)
                                     /\ m.independent <=> t.samples[i].sync
                            /\ loopDurMS % GroupDurMS = 0 /\ NoOverflow =>
                                 \A g \in 0 .. (MaxTurns * (loopDurMS \div GroupDurMS)) :
                                   t.samples[OrigNr(t, StartNr(t, g)) + 1].sync
      BY ZenonT(60) DEF SvcChainsPlayable, Chained
    <2> DEFINE ns == namespaces[n]  e == ns.tracks[k]  t == Content(ns, e)[1]
    <2>0. pc \in HasGroups /\ pc \in Building
      BY DEF Serving, HasGroups, Building
    <2>1. /\ ns.packaging = "loc" /\ t.layers > 0
          /\ \/ ns = LocNS /\ \E i \in DOMAIN AllTracks : IsLocEntry(e, AllTracks[i])
             \/ \E q \in Prots : ns = CmafNS(q)
      BY ListedEntry, Zenon
    <2> HIDE DEF ns, e, t
    <2>2. ns = LocNS /\ \E i \in DOMAIN AllTracks : IsLocEntry(e, AllTracks[i])
      <3>1. "loc" # "cmaf"
        OBVIOUS
      <3> QED BY <2>1, <3>1, NamespaceFields, Zenon
    <2>3. PICK i \in DOMAIN AllTracks : IsLocEntry(e, AllTracks[i])
      BY <2>2
    <2>4. t = AllTracks[i]
      <3>1. Content(ns, e) = <<AllTracks[i]>>
        BY <2>0, <2>1, <2>3, LocContent
      <3>2. Content(ns, e)[1] = AllTracks[i]
        BY <3>1, One
      <3> QED BY <3>2, Zenon DEF t
    <2>5. Chained(ns, e)
      <3>1. AllTracks[i].layers > 0
        BY <2>1, <2>4, Zenon
      <3> QED BY <2>0, <2>2, <2>3, <3>1, LayersChained
    <2>6. t \in Renditions /\ t \in TrackType /\ IsLocEntry(e, t)
      <3>1. AllTracks[i] \in TrackType
        BY <2>0, AllTracksFacts
      <3>2. AllTracks[i] \in Renditions
        BY DEF Renditions, ToSet
      <3> QED BY <2>3, <2>4, <3>1, <3>2, Zenon
    <2>7. PICK f : SvcOf(t, f)
      BY <2>0, <2>1, <2>6, SvcFile
    <2>8. e.spatial \in 0 .. t.layers - 1
      BY <2>1, <2>6, Zenon DEF IsLocEntry
    <2>9. e.spatial \in 0 .. 3
      <3>1. t.layers \in 0 .. 4
        BY <2>6 DEF TrackType
      <3> QED BY <2>8, <3>1
    <2>10. ASSUME NEW x \in DOMAIN t.samples
           PROVE  LET m == GetLOCFrameMarking(FrameMarking(e.spatial, t.samples[x].sync))
                  IN  /\ Cardinality(FramesOf(LocData(t, e.spatial, x), e.spatial)) = 1
                      /\ ValidPlaybackMarking(m, e.spatial)
                      /\ m.independent <=> t.samples[x].sync
      <3>1. t.samples[x].sync \in BOOLEAN
        <4>1. t.samples \in Seq(SampleType)
          BY <2>6 DEF TrackType
        <4>2. t.samples[x] \in SampleType
          BY <4>1
        <4> QED BY <4>2 DEF SampleType
      <3>2. Cardinality(FramesOf(LocData(t, e.spatial, x), e.spatial)) = 1
        BY <2>7, <2>8, OneFrame
      <3> DEFINE layer == e.spatial  sync == t.samples[x].sync
      <3>3. layer \in 0 .. 3 /\ sync \in BOOLEAN
        BY <2>9, <3>1
      <3> HIDE DEF layer, sync
      <3>4. LET m == GetLOCFrameMarking(FrameMarking(layer, sync))
            IN  ValidPlaybackMarking(m, layer) /\ (m.independent <=> sync)
        BY <3>3, MarkingAccepted, Zenon
      <3> QED BY <3>2, <3>4, Zenon DEF layer, sync
    <2>11. ASSUME loopDurMS % GroupDurMS = 0, NoOverflow,
                  NEW g \in 0 .. (MaxTurns * (loopDurMS \div GroupDurMS))
           PROVE  t.samples[OrigNr(t, StartNr(t, g)) + 1].sync
      <3>1. g \in Nat
        BY <2>11
      <3> QED BY <2>6, <2>7, <2>11, <3>1, GroupStartsSync
    <2> QED BY <2>5, <2>10, <2>11, Zenon DEF ns, e, t
  <1> QED BY <1>1, Invariance, PTL
=============================================================================
