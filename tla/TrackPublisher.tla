---------------------------- MODULE TrackPublisher ----------------------------
(***************************************************************************)
(* The goroutine that publishes one subscribed track: PublishTrack with    *)
(* WriteMoQGroup, PublishLOCTrack, PublishSubtitleTrack with               *)
(* WriteSubtitleGroup (internal/pub/pub.go), publishMoqMIVideo and         *)
(* publishMoqMIAudio (internal/pub/moqmi.go).  They are five variants of   *)
(* one loop: choose the first group from the clock, then for each group    *)
(* open a subgroup, write every object no earlier than its media time, and *)
(* close the subgroup; any error and the end of the context stop it.       *)
(*                                                                         *)
(* What varies is how a group is cut into objects, when an object may be   *)
(* written, and which exits close the subgroup.                            *)
(***************************************************************************)
EXTENDS MoQGroup, FiniteSets

CONSTANTS
  Tracks,      \* the tracks that may be subscribed to
  MaxTime      \* bound: the last value of the clock

Kinds == {"cmaf", "loc", "subtitle", "moqmiVideo", "moqmiAudio"}

TrackType ==
  [kind : Kinds, timeScale : Nat \ {0}, sampleDur : Nat \ {0},
   sampleBatch : Nat \ {0}, gopLen : Nat \ {0},
   nrSamples : Nat \ {0}, loopDur : Nat \ {0}]

\* A group of an asset is never empty: a sample is no longer than a group.  The
\* samples fill the loop (setLoopDuration).  The one sample of a subtitle group
\* is the group, in milliseconds.
ASSUME TrackAssumption ==
  /\ Tracks \subseteq TrackType
  /\ MaxTime \in Nat
  /\ \A t \in Tracks :
       /\ t.sampleDur <= t.loopDur /\ t.loopDur <= t.nrSamples * t.sampleDur
       /\ t.kind \in {"cmaf", "loc"} =>
            t.sampleDur * MsPerSecond <= GroupDurMS * t.timeScale
       /\ t.kind \in {"loc", "moqmiVideo", "moqmiAudio", "subtitle"} => t.sampleBatch = 1
       /\ t.kind = "subtitle" =>
            t.timeScale = MsPerSecond /\ t.sampleDur = GroupDurMS

VARIABLES
  track,       \* the subscribed track
  now,         \* time.Now().UnixMilli()
  cancelled,   \* ctx.Err() # nil
  pc,          \* where the goroutine stands
  joined,      \* the clock when the goroutine chose its first group
  groupNr,     \* the group (moqmiAudio: the frame) being published
  objectID,    \* the next object of that group
  wake,        \* objTimeMS of that object
  sgOpen,      \* a subgroup is open
  seqID,       \* the running number of the moq-mi metadata
  last         \* history: the object written last

vars == <<track, now, cancelled, pc, joined, groupNr, objectID, wake, sgOpen, seqID, last>>

NoObject == [nr |-> 0, first |-> 0, end |-> 0, at |-> 0, seq |-> 0, written |-> FALSE]

-------------------------------------------------------------------------------
(***************************************************************************)
(* The cut of a track into groups and objects.                             *)
(***************************************************************************)

\* gopDurMS, with the code's fallback for a GOP below one millisecond.
GopDurMS(t) ==
  LET d == TimeMS(t, t.gopLen * t.sampleDur) IN IF d = 0 THEN MsPerSecond ELSE d

\* The first group: the one after the current group or GOP; for moq-mi audio
\* the first frame that starts at or after the present instant.
FirstGroup(t, ms) ==
  CASE t.kind = "moqmiVideo" -> ms \div GopDurMS(t) + 1
    [] t.kind = "moqmiAudio" -> CeilDiv((ms * t.timeScale) \div MsPerSecond, t.sampleDur)
    [] OTHER                 -> CurrMoQGroupNr(ms) + 1

\* The samples of group g are FirstSample(t, g) .. FirstSample(t, g + 1) - 1.
FirstSample(t, g) ==
  CASE t.kind \in {"cmaf", "loc"} -> StartNr(t, g)
    [] t.kind = "moqmiVideo"      -> g * t.gopLen
    [] OTHER                      -> g
EndSample(t, g) ==
  CASE t.kind \in {"cmaf", "loc"} -> EndNr(t, g)
    [] t.kind = "moqmiVideo"      -> g * t.gopLen + t.gopLen
    [] OTHER                      -> g + 1

\* Object nr of group g carries ObjectFirst .. ObjectEnd - 1.
ObjectFirst(t, g, nr) == FirstSample(t, g) + nr * t.sampleBatch
ObjectEnd(t, g, nr) ==
  LET e == ObjectFirst(t, g, nr) + t.sampleBatch
  IN  IF e < EndSample(t, g) THEN e ELSE EndSample(t, g)

\* objTimeMS.  A CMAF chunk is written when the last sample of a full batch
\* ends, any other object when its sample starts.
ObjectTimeMSAtStart(t, g, nr) ==
  {TimeMS(t, ObjectFirst(t, g, nr) * t.sampleDur)}
ObjectTimeMS(t, g, nr) ==
  CASE t.kind = "cmaf" ->
         FloatTimeMS(t, FirstSample(t, g) * t.sampleDur + (nr + 1) * t.sampleDur * t.sampleBatch)
    [] t.kind = "subtitle" -> {g * GroupDurMS}
    [] OTHER -> {TimeMS(t, ObjectFirst(t, g, nr) * t.sampleDur)}

-------------------------------------------------------------------------------
Init ==
  /\ track \in Tracks
  /\ now \in 0..MaxTime
  /\ cancelled = FALSE
  /\ pc = "start"
  /\ joined = now
  /\ groupNr = 0 /\ objectID = 0 /\ wake = 0 /\ seqID = 0
  /\ sgOpen = FALSE
  /\ last = NoObject

\* The function returns; only PublishLOCTrack and publishMoqMIAudio close the
\* subgroup on their way out.
Exit ==
  /\ pc' = "done"
  /\ sgOpen' = (sgOpen /\ track.kind \notin {"loc", "moqmiAudio"})

\* Mutant: the sequence number starts at the group number, as it does for audio.
BeginSeqAtGroup ==
  /\ pc = "start"
  /\ joined' = now
  /\ groupNr' = FirstGroup(track, now)
  /\ seqID' = groupNr'
  /\ pc' = "loop"
  /\ UNCHANGED <<track, now, cancelled, objectID, wake, sgOpen, last>>

\* The goroutine starts and reads the clock; seqID is used by moq-mi only.
Begin ==
  /\ pc = "start"
  /\ joined' = now
  /\ groupNr' = FirstGroup(track, now)
  /\ seqID' = FirstSample(track, groupNr')
  /\ pc' = "loop"
  /\ UNCHANGED <<track, now, cancelled, objectID, wake, sgOpen, last>>

\* The head of the loop; moq-mi audio waits for its frame before it opens the
\* subgroup, the others wait for each object inside it.
LoopHead ==
  /\ pc = "loop"
  /\ \/ cancelled /\ Exit
     \/ /\ ~cancelled
        /\ pc' = IF track.kind = "moqmiAudio" THEN "pace" ELSE "open"
        /\ UNCHANGED sgOpen
  /\ UNCHANGED <<track, now, cancelled, joined, groupNr, objectID, wake, seqID, last>>

\* OpenSubgroup may fail; so may GenMoQGroup or GenSubtitleGroup after it.
OpenSubgroup ==
  /\ pc = "open"
  /\ \/ Exit
     \/ /\ sgOpen' = TRUE
        /\ \/ pc' = CASE track.kind = "moqmiAudio" -> "write"
                      [] FirstSample(track, groupNr) = EndSample(track, groupNr) -> "close"
                      [] OTHER -> "pace"
           \/ track.kind \in {"cmaf", "subtitle"} /\ pc' = "done"
  /\ UNCHANGED <<track, now, cancelled, joined, groupNr, objectID, wake, seqID, last>>

\* The object loop: return if cancelled, else write at once or wait.
ReadyToWrite == pc' = IF track.kind = "moqmiAudio" THEN "open" ELSE "write"

Pace ==
  /\ pc = "pace"
  /\ \/ cancelled /\ track.kind # "moqmiAudio" /\ Exit /\ UNCHANGED wake
     \/ /\ ~cancelled \/ track.kind = "moqmiAudio"
        /\ wake' \in ObjectTimeMS(track, groupNr, objectID)
        /\ IF wake' <= now THEN ReadyToWrite ELSE pc' = "wait"
        /\ UNCHANGED sgOpen
  /\ UNCHANGED <<track, now, cancelled, joined, groupNr, objectID, seqID, last>>

\* select: the timer, or the end of the context.
TimerFires ==
  /\ pc = "wait" /\ now >= wake
  /\ ReadyToWrite
  /\ UNCHANGED sgOpen
CancelledInWait == pc = "wait" /\ cancelled /\ Exit

SelectTimerOnly ==
  /\ TimerFires
  /\ UNCHANGED <<track, now, cancelled, joined, groupNr, objectID, wake, seqID, last>>
Select ==
  /\ TimerFires \/ CancelledInWait
  /\ UNCHANGED <<track, now, cancelled, joined, groupNr, objectID, wake, seqID, last>>

\* The object goes out and the loop moves on, or the write fails.
Written ==
  last' = [nr |-> objectID,
           first |-> ObjectFirst(track, groupNr, objectID),
           end |-> ObjectEnd(track, groupNr, objectID),
           at |-> now, seq |-> seqID, written |-> TRUE]
WriteSameObject ==
  /\ pc = "write"
  /\ Written /\ pc' = "pace"
  /\ UNCHANGED <<track, now, cancelled, joined, groupNr, objectID, wake, sgOpen, seqID>>
WriteObject ==
  /\ pc = "write"
  /\ \/ Exit /\ UNCHANGED <<objectID, seqID, last>>
     \/ /\ Written
        /\ objectID' = objectID + 1
        /\ seqID' = seqID + 1
        /\ pc' = IF ObjectEnd(track, groupNr, objectID) = EndSample(track, groupNr)
                 THEN "close" ELSE "pace"
        /\ UNCHANGED sgOpen
  /\ UNCHANGED <<track, now, cancelled, joined, groupNr, wake>>

CloseAndSkipToLive ==
  /\ pc = "close"
  /\ sgOpen' = FALSE /\ pc' = "loop" /\ objectID' = 0
  /\ groupNr' = FirstGroup(track, now)
  /\ UNCHANGED <<track, now, cancelled, joined, wake, seqID, last>>
CloseSubgroup ==
  /\ pc = "close"
  /\ sgOpen' = FALSE
  /\ \/ pc' = "done" /\ UNCHANGED <<groupNr, objectID>>
     \/ pc' = "loop" /\ groupNr' = groupNr + 1 /\ objectID' = 0
  /\ UNCHANGED <<track, now, cancelled, joined, wake, seqID, last>>

Cancel ==
  /\ ~cancelled
  /\ cancelled' = TRUE
  /\ UNCHANGED <<track, now, pc, joined, groupNr, objectID, wake, sgOpen, seqID, last>>

Tick ==
  /\ now < MaxTime
  /\ now' = now + 1
  /\ UNCHANGED <<track, cancelled, pc, joined, groupNr, objectID, wake, sgOpen, seqID, last>>

Publish ==
  Begin \/ LoopHead \/ OpenSubgroup \/ Pace \/ Select \/ WriteObject \/ CloseSubgroup

Next == Publish \/ Cancel \/ Tick

Spec == Init /\ [][Next]_vars

\* A goroutine that can run is eventually scheduled; nothing is assumed of the
\* clock or of the context.
FairSpec == Spec /\ WF_vars(Publish)

-------------------------------------------------------------------------------
TypeOK ==
  /\ track \in Tracks
  /\ now \in Nat
  /\ cancelled \in BOOLEAN /\ sgOpen \in BOOLEAN
  /\ pc \in {"start", "loop", "open", "pace", "wait", "write", "close", "done"}
  /\ joined \in Nat /\ groupNr \in Nat /\ objectID \in Nat /\ wake \in Nat /\ seqID \in Nat
  /\ last \in [nr : Nat, first : Nat, end : Nat, at : Nat, seq : Nat, written : BOOLEAN]

\* An object never leaves before the media it holds exists: a CMAF chunk not
\* before its last sample has ended, a frame or a subtitle not before it starts,
\* to the millisecond the clock is read in.
NotBeforeMediaTime ==
  last.written =>
    LET media == (IF track.kind = "cmaf" THEN last.end ELSE last.first) * track.sampleDur
    IN  (last.at + 1) * track.timeScale >= media * MsPerSecond

\* No sample is lost or repeated, inside a group or from one group to the next:
\* every object continues where the one before it ended.
SamplesContiguous ==
  [][last' # last /\ last.written => last'.first = last.end /\ last'.end > last'.first]_vars

\* The moq-mi publishers count seqID beside their loops over groups and samples:
\* it is set once and raised per object, while the sample number is computed
\* anew from every group number.  The two never part, over groups and late
\* wake-ups, so that a client sees a gap only where an object is missing and two
\* subscribers see the same number for the same frame.
SeqIDNumbersSamples ==
  last.written /\ track.kind \in {"moqmiVideo", "moqmiAudio"} => last.seq = last.first

\* The loop is played as it was recorded: every output sample has a source
\* sample, and its successor is the next source sample or the first one.
PlaysTheLoop ==
  last.written =>
    \A n \in last.first .. last.end - 1 :
      /\ OrigNr(track, n) < track.nrSamples
      /\ OrigNr(track, n + 1) \in {OrigNr(track, n) + 1, 0}

\* A publisher that is late catches up: it keeps coming back to a state in which
\* nothing that is due is unsent.
CatchesUp == []<>(pc = "done" \/ (pc = "wait" /\ now < wake))

\* The end of the context stops the publisher, without waiting for the media
\* time of the next object.
StopsWhenCancelled == cancelled ~> (pc = "done")

-------------------------------------------------------------------------------
(***************************************************************************)
(* The inductive invariant behind SamplesContiguous, NotBeforeMediaTime    *)
(* and SeqIDNumbersSamples.                                                *)
(***************************************************************************)

\* The sample the publisher sends next.
NextSample ==
  IF pc = "close" THEN EndSample(track, groupNr) ELSE ObjectFirst(track, groupNr, objectID)

\* The position in the group: there is an object to write wherever the loop is
\* not about to close the subgroup, and it continues the last one.
Position ==
  /\ pc = "start" => objectID = 0 /\ ~last.written
  /\ pc \in {"loop", "open", "pace", "wait", "write"} =>
       ObjectFirst(track, groupNr, objectID) < EndSample(track, groupNr)
  /\ pc # "done" /\ last.written => last.end = NextSample
  /\ pc \notin {"start", "done"} /\ track.kind \in {"moqmiVideo", "moqmiAudio"} =>
       seqID = NextSample

\* The timer stands for the object about to be written, and has passed where
\* the object may go out.
Paced ==
  /\ pc \in {"wait", "write"} \/ (pc = "open" /\ track.kind = "moqmiAudio") =>
       wake \in ObjectTimeMS(track, groupNr, objectID)
  /\ pc = "write" \/ (pc = "open" /\ track.kind = "moqmiAudio") => wake <= now

IInv ==
  /\ TypeOK /\ Position /\ Paced
  /\ NotBeforeMediaTime /\ SeqIDNumbersSamples
===============================================================================
