---------------------------- MODULE PublishedTrack ----------------------------
(***************************************************************************)
(* What the publishing loops of module TrackPublisher amount to for a      *)
(* subscriber: the abstract specification LiveTrack they implement, and    *)
(* the cues of the subtitle groups (internal/subtitle.go).                 *)
(***************************************************************************)
EXTENDS TrackPublisher, SequencesExt

CONSTANT CueDurMS     \* SubtitleTrack.CueDurMS

\* A cue is shown once a second; a longer one would need other arithmetic.  Subtitle
\* groups are aligned to seconds: a cue cut by the start of a group could end
\* before it begins.
ASSUME CueAssumption == CueDurMS \in 1..MsPerSecond /\ GroupDurMS % MsPerSecond = 0

\* A moq-mi GOP is a whole number of milliseconds.  publishMoqMIVideo divides the
\* clock by the truncated duration; with a fraction its groups run away from it.
ASSUME GopAssumption ==
  \A t \in Tracks : t.kind = "moqmiVideo" =>
    t.gopLen * t.sampleDur * MsPerSecond = GopDurMS(t) * t.timeScale

-------------------------------------------------------------------------------
(***************************************************************************)
(* The refinement.  A subscriber joins where the first group starts; the   *)
(* object it got last is the one written last.                             *)
(***************************************************************************)

\* One interval, GOP or frame.
GroupSpan(t) ==
  CASE t.kind = "moqmiVideo" -> t.gopLen * t.sampleDur * MsPerSecond
    [] t.kind = "moqmiAudio" -> t.sampleDur * MsPerSecond
    [] OTHER                 -> GroupDurMS * t.timeScale + t.sampleDur * MsPerSecond

WholeBatches(t) == t.kind = "cmaf"

Joined == IF pc = "start" THEN 0 ELSE FirstSample(track, FirstGroup(track, joined))

Live == INSTANCE LiveTrack WITH
          Lead <- [t \in Tracks |-> GroupSpan(t)],
          Complete <- [t \in Tracks |-> WholeBatches(t)],
          phase <- CASE pc = "start" -> "idle" [] pc = "done" -> "over" [] OTHER -> "live",
          from <- Joined,
          got <- IF last.written THEN <<last.first, last.end>> ELSE <<Joined, Joined>>

\* Every publishing loop, in every packaging, implements a live track: whatever
\* the rounding of group boundaries and clock, late wake-ups, failed calls and the
\* end of the context.
ImplementsLiveTrack == Live!Spec

\* Behind it: until the first object is written, the publisher stands at the
\* sample at which the subscriber joined.
AtJoined == pc \notin {"start", "done"} /\ ~last.written => NextSample = Joined

-------------------------------------------------------------------------------
(***************************************************************************)
(* Subtitle cues, in milliseconds since the epoch.                         *)
(***************************************************************************)

\* calcCueItvls: a cue for every second that begins in group g or before it and
\* not after its end, cut to the group; the loop breaks at a cue that would start
\* where the group ends.
GroupStart(g) == g * GroupDurMS
GroupEnd(g) == GroupStart(g) + GroupDurMS
CueItvl(g, utcS) ==
  [utcS |-> utcS,
   start |-> Max({utcS * MsPerSecond, GroupStart(g)}),
   end |-> Min({utcS * MsPerSecond + CueDurMS, GroupEnd(g)})]
CueItvlsToTheEnd(g) ==
  LET first == GroupStart(g) \div MsPerSecond
  IN  [i \in 1 .. (GroupEnd(g) \div MsPerSecond - first + 1) |-> CueItvl(g, first + i - 1)]
LastCue(g) ==
  LET final == GroupEnd(g) \div MsPerSecond
  IN  IF final * MsPerSecond = GroupEnd(g) THEN final - 1 ELSE final
CalcCueItvls(g) ==
  LET first == GroupStart(g) \div MsPerSecond
  IN  [i \in 1 .. (LastCue(g) - first + 1) |-> CueItvl(g, first + i - 1)]

\* createSubtitlesWvttMediaData: the cues as samples, with an empty sample wherever
\* no cue is shown.
Filled(done, to) ==
  IF done.end < to THEN Append(done.samples, [start |-> done.end, end |-> to, cue |-> FALSE])
  ELSE done.samples
WithCue(done, ci) ==
  [end |-> ci.end,
   samples |-> Append(Filled(done, ci.start), [start |-> ci.start, end |-> ci.end, cue |-> TRUE])]
WvttSamples(g) ==
  LET cues == CalcCueItvls(g)
      added[n \in 0 .. Len(cues)] ==
        IF n = 0 THEN [end |-> GroupStart(g), samples |-> <<>>] ELSE WithCue(added[n - 1], cues[n])
  IN  Filled(added[Len(cues)], GroupEnd(g))

\* The samples of every subtitle group that was sent fill the group without gap,
\* overlap or empty sample, so that a player that appends group after group has a
\* sample for every instant; and a cue names the second in which it is shown.
CuesTileTheGroup ==
  last.written /\ track.kind = "subtitle" =>
    LET s == WvttSamples(last.first)
        cues == CalcCueItvls(last.first)
    IN  /\ s # <<>> /\ Head(s).start = GroupStart(last.first) /\ Last(s).end = GroupEnd(last.first)
        /\ \A i \in DOMAIN s : s[i].start < s[i].end
        /\ \A i \in 1 .. Len(s) - 1 : s[i].end = s[i + 1].start
        /\ \A i \in DOMAIN cues : \A ms \in cues[i].start .. cues[i].end - 1 :
             ms \div MsPerSecond = cues[i].utcS
===============================================================================
