------------------------------- MODULE MoQGroup -------------------------------
(***************************************************************************)
(* How a looped media track is cut into MoQ groups (internal/moqgroup.go)  *)
(* and how an output sample is mapped to a sample of the loop              *)
(* (ContentTrack.CalcSample).  Sample n starts at n * sampleDur in the     *)
(* track's time scale, counted from the Unix epoch; group g stands for the *)
(* g-th interval of GroupDurMS milliseconds since the epoch.               *)
(*                                                                         *)
(* MsPerSecond is the 1000 of the code, a constant so that a model of a    *)
(* few clock units still has fractions of a unit.                          *)
(***************************************************************************)
EXTENDS Naturals

CONSTANTS
  MsPerSecond,   \* clock units per second
  GroupDurMS     \* MoqGroupDurMS, the nominal duration of a group

ASSUME UnitAssumption == MsPerSecond \in Nat \ {0} /\ GroupDurMS \in Nat \ {0}

\* Integer division that rounds up: quotient, plus one when there is a rest.
CeilDiv(a, b) == a \div b + IF a % b # 0 THEN 1 ELSE 0

\* The instant, in the track's time scale, at which interval g begins.
GroupTime(t, g) == (g * GroupDurMS * t.timeScale) \div MsPerSecond

\* calcMoQGroup: group g holds the samples StartNr .. EndNr - 1, those that
\* start within its interval.
StartNr(t, g) == CeilDiv(GroupTime(t, g), t.sampleDur)
EndNrTruncated(t, g) == GroupTime(t, g + 1) \div t.sampleDur
EndNr(t, g) == CeilDiv(GroupTime(t, g + 1), t.sampleDur)

CurrMoQGroupNr(nowMS) == nowMS \div GroupDurMS

\* A time of the track's time scale in milliseconds, truncated.
TimeMS(t, x) == (x * MsPerSecond) \div t.timeScale

\* The same conversion through float64, int64(float64(x) * (1000 / TimeScale)):
\* a product that should be a whole number may come out just below it and then
\* truncates to the number before.
FloatTimeMS(t, x) ==
  {TimeMS(t, x)} \cup
    IF TimeMS(t, x) > 0 /\ (x * MsPerSecond) % t.timeScale = 0
    THEN {TimeMS(t, x) - 1} ELSE {}

-------------------------------------------------------------------------------
\* CalcSample: where output sample nr comes from in a loop of loopDur.
NrWraps(t, nr) == (nr * t.sampleDur) \div t.loopDur

\* The start of the current turn of the loop, moved up to a sample boundary.
WrapTimeRoundedDown(t, nr) == ((NrWraps(t, nr) * t.loopDur) \div t.sampleDur) * t.sampleDur
WrapTime(t, nr) == CeilDiv(NrWraps(t, nr) * t.loopDur, t.sampleDur) * t.sampleDur

OrigNr(t, nr) == (nr * t.sampleDur - WrapTime(t, nr)) \div t.sampleDur
===============================================================================
