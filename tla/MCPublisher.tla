------------------------------ MODULE MCPublisher ------------------------------
(* Tracks for the model checker: four clock units to the second and to the   *)
(* group, so that sample and group boundaries fall between clock units.      *)
EXTENDS PublishedTrack

Media(kind, timeScale, sampleDur, batch, gop, samples, loop) ==
  [kind |-> kind, timeScale |-> timeScale, sampleDur |-> sampleDur,
   sampleBatch |-> batch, gopLen |-> gop, nrSamples |-> samples, loopDur |-> loop]

\* Video with GOPs of one group (or, for moq-mi, of 4 and 3 clock units) that
\* fill the loop; audio frames that divide neither the group nor the loop, in
\* batches that do not divide the frames of a group; a sample as long as a group.
MCTracks ==
  {Media("cmaf", 6, 2, 1, 3, 6, 12), Media("cmaf", 10, 3, 2, 1, 7, 20),
   Media("cmaf", 8, 3, 2, 1, 6, 16),
   Media("loc", 6, 2, 1, 3, 6, 12), Media("loc", 10, 3, 1, 1, 7, 20),
   Media("loc", 7, 7, 1, 1, 2, 14),
   Media("subtitle", MsPerSecond, GroupDurMS, 1, 1, 1, GroupDurMS),
   Media("moqmiVideo", 6, 2, 1, 3, 6, 12), Media("moqmiVideo", 8, 2, 1, 3, 6, 12),
   Media("moqmiAudio", 10, 3, 1, 1, 4, 10), Media("moqmiAudio", 3, 1, 1, 1, 3, 3)}
================================================================================
