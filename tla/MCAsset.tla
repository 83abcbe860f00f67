------------------------------- MODULE MCAsset -------------------------------
(* Directories and command lines for the model checker: four clock units to  *)
(* the second and to the group.                                              *)
EXTENDS PublishedAsset

MCParts == STRING

\* Durations d, back to back from zero on.
Sample(d, i, s) ==
  [dur |-> d[i], time |-> FoldLeft(LAMBDA x, y : x + y, 0, SubSeq(d, 1, i - 1)), sync |-> s, units |-> <<>>]
Even(n, d, gop) == [i \in 1..n |-> Sample([j \in 1..n |-> d], i, (i - 1) % gop = 0)]
CodecPlace(type) == CASE type = "av1" -> 0 [] type = "avc" -> 1 [] OTHER -> 3
File(name, type, timeScale, samples, rate) ==
  [name |-> <<name>>, mp4 |-> TRUE, readable |-> TRUE, type |-> type, timeScale |-> timeScale,
   edit |-> 0, rate |-> rate, codec |-> CodecPlace(type), sets |-> {0}, samples |-> samples]

Obu(kind, sid) == [kind |-> kind, sid |-> sid, tid |-> 0]
Key == <<Obu("delimiter", 0), Obu("sequence", 0), Obu("frame", 0), Obu("frame", 1)>>
Bare == <<Obu("delimiter", 0), Obu("frame", 0), Obu("frame", 1)>>
Patterns ==
  { Key, Bare, <<Obu("sequence", 0), Obu("frame", 0)>>, <<Obu("frame", 0)>>, <<Obu("frame", 1)>>,
    <<Obu("frame", 0), Obu("frame", 0), Obu("frame", 1)>>,
    <<Obu("frame", 0), Obu("tile", 1), Obu("frame", 1), Obu("frame", 2)>>,
    <<Obu("frame", 0), [Obu("frame", 1) EXCEPT !.tid = 1]>>,
    <<Obu("frame", 0), Obu("frame", 1), Obu("metadata", 3)>> }
Av1(name, timeScale, units, gop) ==
  File(name, "av1", timeScale, [i \in DOMAIN units |-> [Even(Len(units), 1, gop)[i] EXCEPT !.units = units[i]]], 1)

Command(dir) ==
  [dir |-> dir, batch |-> [video |-> 1, audio |-> 1], drm |-> FALSE, eccp |-> FALSE, cc608 |-> FALSE,
   wvtt |-> <<>>, stpp |-> <<>>]
Options(c) ==
  {[c EXCEPT !.drm = d, !.eccp = e, !.cc608 = (d = e), !.wvtt = IF d = e THEN <<"en", "sv">> ELSE <<>>,
             !.stpp = IF d THEN <<"en">> ELSE <<>>] : d \in BOOLEAN, e \in BOOLEAN}

\* Every pattern of durations and sync flags of up to four samples; every pair of
\* AV1 samples of one second each.
SingleFiles ==
  {Command(<<File("v", "avc", 2, [i \in 1..n |-> Sample(d, i, s[i])], 1)>>) :
     <<n, d, s>> \in UNION {{n} \X [1..n -> {1, 2}] \X [1..n -> BOOLEAN] : n \in 1..4}}
Av1Files ==
  {Command(<<Av1("v", 1, <<a, b>>, g)>>) : a \in Patterns, b \in Patterns, g \in {1, 2}}

Aac(n) == File("a", "aac", 3, Even(n, 2, 1), 1)
Opus(n) == File("o", "opus", 5, Even(n, 1, 1), 1)
Video == File("v", "avc", 2, Even(4, 1, 2), 1)
Hevc == File("h", "hevc", 2, Even(2, 2, 1), 1)
InBandSets(type, sets) ==
  [File(type, type, 2, [i \in 1..4 |-> [Even(4, 1, 2)[i] EXCEPT !.units =
      IF i = 1 THEN <<Obu("delimiter", 0), Obu("sequence", 0), Obu("frame", 0)>> ELSE <<Obu("frame", 0)>>]], 1)
     EXCEPT !.sets = sets]
Svc == Av1("s", 2, <<Key, Bare, Bare, Bare>>, 2)

\* In this order: two codecs and audio that is longer than the loop; SVC with Opus;
\* an SVC loop of a group and a half; AC-3 only; Opus and AAC of the same bit rate;
\* audio that is too short; a loop of a whole number of clock units that is no
\* whole number of audio ticks; a trimmed audio track, one trimmed to nothing, one
\* that starts late, an empty file; a loop shorter than an audio tick; files that cannot be used or are skipped; video of two lengths;
\* two codec strings of a
\* family; names that end in a suffix; samples without duration; loops beyond Word.
Directories ==
  { <<Hevc, Video, Aac(4)>>, <<Svc, Opus(11)>>, <<Av1("s", 2, <<Key, Bare, Key>>, 2)>>,
    <<File("c", "ac3", 3, Even(3, 1, 1), 1), File("e", "ec3", 3, Even(3, 1, 1), 1)>>,
    <<Aac(3), File("b", "opus", 3, Even(3, 2, 1), 1), Video>>,
    <<Video, Aac(2)>>, <<File("v", "avc", 4, Even(7, 1, 7), 1), Aac(3)>>,
    <<Video, [Aac(5) EXCEPT !.edit = 3]>>, <<Video, [Aac(3) EXCEPT !.edit = 9]>>,
    <<Video, [Aac(5) EXCEPT !.samples = [i \in DOMAIN @ |-> [@[i] EXCEPT !.time = @ + 5]], !.edit = 6]>>,
    <<File("v", "avc", 4, Even(2, 1, 1), 1), File("a", "aac", 1, Even(2, 1, 1), 1)>>,
    <<File("v", "avc", 2, <<>>, 1)>>,
    <<[Video EXCEPT !.readable = FALSE]>>, <<[Video EXCEPT !.mp4 = FALSE], Svc>>,
    <<[Video EXCEPT !.sets = {0, 1}]>>, <<[Hevc EXCEPT !.sets = {}]>>,
    <<InBandSets("avc", {}), InBandSets("hevc", {0})>>, <<InBandSets("avc", {1})>>, <<>>,
    <<Video, File("w", "avc", 2, Even(6, 1, 2), 1)>>,
    <<Video, File("w", "avc", 4, Even(8, 1, 2), 1)>>,
    <<Video, [Video EXCEPT !.name = <<"w">>, !.codec = 2, !.rate = 0], Aac(4)>>,
    <<Video, [Video EXCEPT !.name = <<"v", "_locmaf">>]>>,
    <<[Video EXCEPT !.samples[1].dur = 0]>>, <<File("v", "avc", 2, Even(4, 0, 2), 1)>>,
    <<File("v", "avc", 4, Even(5, 4, 1), 1), File("a", "aac", 3, Even(4, 1, 1), 1)>>,
    <<File("v", "avc", 2, Even(10, 2, 1), 1)>>, <<File("v", "avc", 2, Even(17, 4, 1), 1)>> }

MCConfigs ==
  SingleFiles \cup Av1Files
    \cup UNION {Options(Command(d)) : d \in Directories}
    \cup {[Command(<<Video, Aac(4)>>) EXCEPT !.batch.video = b, !.batch.audio = b] : b \in {-1, 0, 2, 3, 9}}

\* At least two frames in a second: captions need a minimal frame rate.
MCCaptionable == {<<ts, d, n>> \in (1..5) \X (1..4) \X (1..8) : ts >= 2 * d}
MCCaptioned == {[Command(<<Hevc, Video>>) EXCEPT !.cc608 = TRUE]}
================================================================================
