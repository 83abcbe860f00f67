--------------------------- MODULE PublisherProofs ---------------------------
(***************************************************************************)
(* Proofs about TrackPublisher and PublishedTrack, for every set of tracks *)
(* and every value of the other constants: what the publishing loops keep, *)
(* that they implement LiveTrack, that they publish the loop as it was     *)
(* recorded, and that subtitle cues fill their groups.                     *)
(***************************************************************************)
EXTENDS PublishedTrack, LoopLemmas

(***************************************************************************)
(* Arithmetic.                                                             *)
(***************************************************************************)

\* CeilDiv(a, b) is the least number of b's that reach a.
LEMMA CeilDivSpec ==
  ASSUME NEW a \in Nat, NEW b \in Nat \ {0}
  PROVE  /\ CeilDiv(a, b) \in Nat
         /\ a <= CeilDiv(a, b) * b
         /\ CeilDiv(a, b) * b < a + b
  <1> DEFINE q == a \div b  r == a % b
  <1>1. q \in Nat /\ r \in 0 .. b - 1 /\ a = q * b + r
    BY DivSpec
  <1> HIDE DEF q, r
  <1>2. (q + 1) * b = q * b + b /\ q * b \in Nat
    BY <1>1
  <1>3. CeilDiv(a, b) = IF r # 0 THEN q + 1 ELSE q
    BY <1>1 DEF CeilDiv, q, r
  <1>4. CASE r = 0
    BY <1>1, <1>2, <1>3, <1>4
  <1>5. CASE r # 0
    BY <1>1, <1>2, <1>3, <1>5
  <1> QED BY <1>4, <1>5

\* An interval at least b long holds a multiple of b.
LEMMA CeilDivStep ==
  ASSUME NEW x \in Nat, NEW y \in Nat, NEW b \in Nat \ {0}, x + b <= y
  PROVE  CeilDiv(x, b) < CeilDiv(y, b)
  <1> DEFINE p == CeilDiv(x, b)  q == CeilDiv(y, b)
  <1>1. p \in Nat /\ p * b < x + b
    BY CeilDivSpec
  <1>2. q \in Nat /\ y <= q * b
    BY CeilDivSpec
  <1> HIDE DEF p, q
  <1>3. SUFFICES ASSUME q <= p PROVE FALSE
    BY <1>1, <1>2 DEF p, q
  <1>4. q * b <= p * b
    BY <1>1, <1>2, <1>3, MulMono
  <1>5. q * b \in Nat /\ p * b \in Nat
    BY <1>1, <1>2
  <1> QED BY <1>1, <1>2, <1>4, <1>5

\* Adding d times m adds at least d to the quotient by m.
LEMMA DivStep ==
  ASSUME NEW a \in Nat, NEW c \in Nat, NEW d \in Nat, NEW m \in Nat \ {0}, d * m <= c
  PROVE  a \div m + d <= (a + c) \div m
  <1> DEFINE p == a \div m  q == (a + c) \div m
  <1>1. p \in Nat /\ p * m <= a
    <2>1. p \in Nat /\ a % m \in Nat /\ a = p * m + (a % m)
      BY DivSpec
    <2> HIDE DEF p
    <2>2. p * m \in Nat
      BY <2>1
    <2> QED BY <2>1, <2>2
  <1>2. q \in Nat /\ a + c < q * m + m
    <2>1. q \in Nat /\ (a + c) % m \in 0 .. m - 1 /\ a + c = q * m + ((a + c) % m)
      <3> DEFINE s == a + c
      <3>1. s \in Nat
        OBVIOUS
      <3> HIDE DEF s
      <3>2. s \div m \in Nat /\ s % m \in 0 .. m - 1 /\ s = (s \div m) * m + (s % m)
        BY <3>1, DivSpec
      <3> QED BY <3>2 DEF s
    <2> HIDE DEF q
    <2>2. q * m \in Nat
      BY <2>1
    <2> QED BY <2>1, <2>2
  <1> HIDE DEF p, q
  <1>3. SUFFICES ASSUME q + 1 <= p + d PROVE FALSE
    BY <1>1, <1>2 DEF p, q
  <1>4. (q + 1) * m <= (p + d) * m
    BY <1>1, <1>2, <1>3, MulMono
  <1>5. (q + 1) * m = q * m + m /\ (p + d) * m = p * m + d * m
    BY <1>1, <1>2
  <1>6. q * m \in Nat /\ p * m \in Nat /\ d * m \in Nat
    BY <1>1, <1>2
  <1> QED BY <1>1, <1>2, <1>4, <1>5, <1>6

-----------------------------------------------------------------------------
(***************************************************************************)
(* The cut of a track into groups and objects.                             *)
(***************************************************************************)

\* The fields of a track, and what TrackAssumption says of them.
LEMMA TrackFields ==
  ASSUME NEW t \in Tracks
  PROVE  /\ t.kind \in Kinds
         /\ t.timeScale \in Nat \ {0} /\ t.sampleDur \in Nat \ {0}
         /\ t.sampleBatch \in Nat \ {0} /\ t.gopLen \in Nat \ {0}
  BY TrackAssumption DEF TrackType

\* Group boundaries lie at least one sample apart, so no group is empty.
LEMMA GroupNotEmpty ==
  ASSUME NEW t \in Tracks, NEW g \in Nat, t.kind \in {"cmaf", "loc"}
  PROVE  /\ StartNr(t, g) \in Nat
         /\ EndNr(t, g) \in Nat
         /\ StartNr(t, g) < EndNr(t, g)
         /\ StartNr(t, g + 1) = EndNr(t, g)
  <1> DEFINE ts == t.timeScale  d == t.sampleDur  c == GroupDurMS * ts
  <1>1. ts \in Nat \ {0} /\ d \in Nat \ {0} /\ MsPerSecond \in Nat \ {0} /\ GroupDurMS \in Nat
    BY TrackFields, UnitAssumption
  <1>2. d * MsPerSecond <= c
    BY TrackAssumption
  <1> HIDE DEF ts, d
  <1>3. c \in Nat /\ g * c \in Nat
    BY <1>1
  <1>4. g * GroupDurMS * ts = g * c /\ (g + 1) * GroupDurMS * ts = g * c + c
    BY <1>1
  <1>5. GroupTime(t, g) = (g * c) \div MsPerSecond
    BY <1>4 DEF GroupTime, ts
  <1>6. GroupTime(t, g + 1) = (g * c + c) \div MsPerSecond
    BY <1>4 DEF GroupTime, ts
  <1> HIDE DEF c
  <1>7. GroupTime(t, g) \in Nat /\ GroupTime(t, g) + d <= GroupTime(t, g + 1)
    <2> DEFINE a == g * c
    <2> HIDE DEF a
    <2>1. a \in Nat
      BY <1>3 DEF a
    <2>2. a \div MsPerSecond \in Nat /\ a \div MsPerSecond + d <= (a + c) \div MsPerSecond
      BY <1>1, <1>2, <1>3, <2>1, DivStep, DivSpec
    <2> QED BY <1>5, <1>6, <2>2 DEF a
  <1>8. GroupTime(t, g + 1) \in Nat
    <2> DEFINE a == g * c + c
    <2>1. a \in Nat
      BY <1>3
    <2> HIDE DEF a
    <2>2. a \div MsPerSecond \in Nat
      BY <1>1, <2>1, DivSpec
    <2> QED BY <1>6, <2>2 DEF a
  <1>9. CeilDiv(GroupTime(t, g), d) < CeilDiv(GroupTime(t, g + 1), d)
    BY <1>1, <1>7, <1>8, CeilDivStep
  <1>10. CeilDiv(GroupTime(t, g), d) \in Nat /\ CeilDiv(GroupTime(t, g + 1), d) \in Nat
    BY <1>1, <1>7, <1>8, CeilDivSpec
  <1> QED BY <1>9, <1>10 DEF StartNr, EndNr, d

\* Every group holds at least one sample and ends where the next one begins.
LEMMA GroupsTile ==
  ASSUME NEW t \in Tracks, NEW g \in Nat
  PROVE  /\ FirstSample(t, g) \in Nat
         /\ EndSample(t, g) \in Nat
         /\ FirstSample(t, g) < EndSample(t, g)
         /\ FirstSample(t, g + 1) = EndSample(t, g)
  <1>1. CASE t.kind \in {"cmaf", "loc"}
    BY <1>1, GroupNotEmpty DEF FirstSample, EndSample
  <1>2. CASE t.kind = "moqmiVideo"
    <2> DEFINE n == t.gopLen
    <2>1. n \in Nat \ {0}
      BY TrackFields
    <2>2. FirstSample(t, g) = g * n /\ EndSample(t, g) = g * n + n
      BY <1>2 DEF FirstSample, EndSample
    <2>3. FirstSample(t, g + 1) = (g + 1) * n
      BY <1>2 DEF FirstSample
    <2> HIDE DEF n
    <2>4. g * n \in Nat /\ (g + 1) * n = g * n + n
      BY <2>1
    <2> QED BY <2>1, <2>2, <2>3, <2>4
  <1>3. CASE t.kind \in {"subtitle", "moqmiAudio"}
    BY <1>3 DEF FirstSample, EndSample
  <1> QED BY <1>1, <1>2, <1>3, TrackFields DEF Kinds

\* The objects of a group cut it into pieces that follow each other.
LEMMA ObjectsTile ==
  ASSUME NEW t \in Tracks, NEW g \in Nat, NEW nr \in Nat,
         ObjectFirst(t, g, nr) < EndSample(t, g)
  PROVE  /\ ObjectFirst(t, g, nr) \in Nat
         /\ ObjectEnd(t, g, nr) \in Nat
         /\ ObjectFirst(t, g, nr) < ObjectEnd(t, g, nr)
         /\ ObjectEnd(t, g, nr) <= EndSample(t, g)
         /\ ObjectEnd(t, g, nr) <= ObjectFirst(t, g, nr) + t.sampleBatch
         /\ ObjectEnd(t, g, nr) # EndSample(t, g) =>
              /\ ObjectEnd(t, g, nr) = ObjectFirst(t, g, nr + 1)
              /\ ObjectEnd(t, g, nr) < EndSample(t, g)
  <1> DEFINE n == t.sampleBatch  f == FirstSample(t, g)  e == EndSample(t, g)
             o == ObjectFirst(t, g, nr)
  <1>1. n \in Nat \ {0} /\ f \in Nat /\ e \in Nat
    BY TrackFields, GroupsTile
  <1>2. o = f + nr * n /\ ObjectFirst(t, g, nr + 1) = f + (nr + 1) * n
    BY DEF ObjectFirst
  <1>3. ObjectEnd(t, g, nr) = IF o + n < e THEN o + n ELSE e
    BY DEF ObjectEnd
  <1>4. o < e
    OBVIOUS
  <1> HIDE DEF n, f, e, o
  <1>5. nr * n \in Nat /\ (nr + 1) * n = nr * n + n
    BY <1>1
  <1>6. o \in Nat /\ ObjectFirst(t, g, nr + 1) = o + n
    BY <1>1, <1>2, <1>5
  <1> QED BY <1>1, <1>3, <1>4, <1>6 DEF n, f, e, o

\* The conversion to milliseconds loses less than one of them.
LEMMA TimeMSSpec ==
  ASSUME NEW t \in Tracks, NEW x \in Nat
  PROVE  /\ TimeMS(t, x) \in Nat
         /\ x * MsPerSecond < (TimeMS(t, x) + 1) * t.timeScale
         /\ (x * MsPerSecond) % t.timeScale = 0 =>
              x * MsPerSecond = TimeMS(t, x) * t.timeScale
  <1> DEFINE a == x * MsPerSecond  ts == t.timeScale  q == a \div ts
  <1>1. a \in Nat /\ ts \in Nat \ {0}
    BY TrackFields, UnitAssumption
  <1>2. TimeMS(t, x) = q
    BY DEF TimeMS
  <1> HIDE DEF a, ts
  <1>3. q \in Nat /\ a % ts \in 0 .. ts - 1 /\ a = q * ts + (a % ts)
    BY <1>1, DivSpec
  <1> HIDE DEF q
  <1>4. q * ts \in Nat /\ (q + 1) * ts = q * ts + ts
    BY <1>1, <1>3
  <1>5. a < (q + 1) * ts /\ (a % ts = 0 => a = q * ts)
    BY <1>1, <1>3, <1>4
  <1> QED BY <1>2, <1>3, <1>5 DEF a, ts

\* The instant, in the track's time scale, before which object nr of group g
\* may not be written.
ObjectMedia(t, g, nr) ==
  (IF t.kind = "cmaf" THEN ObjectEnd(t, g, nr) ELSE ObjectFirst(t, g, nr)) * t.sampleDur

\* The pacing time of an object is no more than a millisecond before it.
LEMMA ObjectTimeSpec ==
  ASSUME NEW t \in Tracks, NEW g \in Nat, NEW nr \in Nat,
         NEW w \in ObjectTimeMS(t, g, nr),
         ObjectFirst(t, g, nr) < EndSample(t, g)
  PROVE  /\ w \in Nat
         /\ ObjectMedia(t, g, nr) * MsPerSecond <= (w + 1) * t.timeScale
  <1> DEFINE d == t.sampleDur  n == t.sampleBatch  f == FirstSample(t, g)
             o == ObjectFirst(t, g, nr)
  <1>1. /\ d \in Nat \ {0} /\ n \in Nat \ {0} /\ f \in Nat /\ o \in Nat
        /\ t.timeScale \in Nat \ {0} /\ MsPerSecond \in Nat \ {0} /\ GroupDurMS \in Nat
    BY TrackFields, GroupsTile, ObjectsTile, UnitAssumption
  <1>2. o = f + nr * n
    BY DEF ObjectFirst
  <1>3. CASE t.kind = "cmaf"
    <2> DEFINE x == f * d + (nr + 1) * d * n  e == ObjectEnd(t, g, nr)
    <2>1. e \in Nat /\ e <= o + n
      BY ObjectsTile
    <2>2. w \in FloatTimeMS(t, x)
      BY <1>3 DEF ObjectTimeMS
    <2>3. ObjectMedia(t, g, nr) = e * d
      BY <1>3 DEF ObjectMedia
    <2> HIDE DEF d, n, f, o, e
    <2>4. (o + n) * d = x /\ x \in Nat
      BY <1>1, <1>2
    <2>5. o + n \in Nat
      BY <1>1
    <2>6. e * d <= x
      BY <1>1, <2>1, <2>4, <2>5, MulMono
    <2> HIDE DEF x
    <2>7. e * d \in Nat
      BY <1>1, <2>1
    <2>8. (e * d) * MsPerSecond <= x * MsPerSecond
      BY <1>1, <2>4, <2>6, <2>7, MulMono
    <2> DEFINE m == TimeMS(t, x)
    <2>9. /\ m \in Nat /\ x * MsPerSecond < (m + 1) * t.timeScale
          /\ (x * MsPerSecond) % t.timeScale = 0 => x * MsPerSecond = m * t.timeScale
      BY <2>4, TimeMSSpec
    <2>10. \/ w = m
           \/ w = m - 1 /\ m > 0 /\ (x * MsPerSecond) % t.timeScale = 0
      BY <2>2 DEF FloatTimeMS
    <2> HIDE DEF m
    <2>11. w \in Nat /\ x * MsPerSecond <= (w + 1) * t.timeScale
      <3>1. CASE w = m
        <4>1. x * MsPerSecond \in Nat /\ (m + 1) * t.timeScale \in Nat
          BY <1>1, <2>4, <2>9
        <4> QED BY <2>9, <3>1, <4>1
      <3>2. CASE w = m - 1 /\ m > 0 /\ (x * MsPerSecond) % t.timeScale = 0
        <4>1. w \in Nat /\ w + 1 = m
          BY <2>9, <3>2
        <4>2. x * MsPerSecond = m * t.timeScale /\ x * MsPerSecond \in Nat
          BY <1>1, <2>4, <2>9, <3>2
        <4> QED BY <4>1, <4>2
      <3> QED BY <2>10, <3>1, <3>2
    <2>12. (e * d) * MsPerSecond \in Nat /\ x * MsPerSecond \in Nat /\ (w + 1) * t.timeScale \in Nat
      BY <1>1, <2>4, <2>7, <2>11
    <2> QED BY <2>3, <2>8, <2>11, <2>12 DEF d
  <1>4. CASE t.kind = "subtitle"
    <2>1. t.timeScale = MsPerSecond /\ d = GroupDurMS /\ n = 1
      BY <1>4, TrackAssumption
    <2>2. f = g /\ EndSample(t, g) = g + 1
      BY <1>4 DEF FirstSample, EndSample
    <2>3. o = g
      BY <1>1, <1>2, <2>1, <2>2
    <2>4. w = g * GroupDurMS /\ ObjectMedia(t, g, nr) = o * d
      BY <1>4 DEF ObjectTimeMS, ObjectMedia
    <2>5. w \in Nat /\ ObjectMedia(t, g, nr) = w
      BY <1>1, <2>1, <2>3, <2>4
    <2>6. w * MsPerSecond <= (w + 1) * MsPerSecond
      BY <1>1, <2>5, MulMono
    <2> QED BY <2>1, <2>5, <2>6
  <1>5. CASE t.kind \notin {"cmaf", "subtitle"}
    <2>1. w = TimeMS(t, o * d) /\ ObjectMedia(t, g, nr) = o * d
      BY <1>5 DEF ObjectTimeMS, ObjectMedia
    <2> HIDE DEF o, d
    <2>2. o * d \in Nat
      BY <1>1
    <2>3. w \in Nat /\ (o * d) * MsPerSecond < (w + 1) * t.timeScale
      BY <2>1, <2>2, TimeMSSpec
    <2>4. (o * d) * MsPerSecond \in Nat /\ (w + 1) * t.timeScale \in Nat
      BY <1>1, <2>2, <2>3
    <2> QED BY <2>1, <2>3, <2>4
  <1> QED BY <1>3, <1>4, <1>5

\* The first group of a subscription.
LEMMA FirstGroupType ==
  ASSUME NEW t \in Tracks, NEW ms \in Nat
  PROVE  FirstGroup(t, ms) \in Nat
  <1>1. CASE t.kind = "moqmiVideo"
    <2>1. t.gopLen * t.sampleDur \in Nat
      BY TrackFields
    <2>2. GopDurMS(t) \in Nat \ {0}
      BY <2>1, TimeMSSpec, UnitAssumption DEF GopDurMS
    <2>3. ms \div GopDurMS(t) \in Nat
      BY <2>2, DivSpec
    <2> QED BY <1>1, <2>3 DEF FirstGroup
  <1>2. CASE t.kind = "moqmiAudio"
    <2>1. ms * t.timeScale \in Nat /\ MsPerSecond \in Nat \ {0} /\ t.sampleDur \in Nat \ {0}
      BY TrackFields, UnitAssumption
    <2>2. (ms * t.timeScale) \div MsPerSecond \in Nat
      BY <2>1, DivSpec
    <2>3. CeilDiv((ms * t.timeScale) \div MsPerSecond, t.sampleDur) \in Nat
      BY <2>1, <2>2, CeilDivSpec
    <2> QED BY <1>2, <2>3 DEF FirstGroup
  <1>3. CASE t.kind \notin {"moqmiVideo", "moqmiAudio"}
    <2>1. ms \div GroupDurMS \in Nat
      BY UnitAssumption, DivSpec
    <2> QED BY <1>3, <2>1 DEF FirstGroup, CurrMoQGroupNr
  <1> QED BY <1>1, <1>2, <1>3

-----------------------------------------------------------------------------
(***************************************************************************)
(* The inductive invariant.                                                *)
(***************************************************************************)

LEMMA InitInvariant == Init => IInv
  <1> SUFFICES ASSUME Init PROVE IInv
    OBVIOUS
  <1>1. last = NoObject /\ pc = "start"
    BY DEF Init
  <1>2. last \in [nr : Nat, first : Nat, end : Nat, at : Nat, seq : Nat, written : BOOLEAN]
    BY <1>1 DEF NoObject
  <1>3. ~last.written
    BY <1>1 DEF NoObject
  <1>4. now \in Nat
    BY TrackAssumption DEF Init
  <1>5. TypeOK
    BY <1>2, <1>4 DEF Init, TypeOK
  <1>6. Position /\ Paced /\ NotBeforeMediaTime /\ SeqIDNumbersSamples
    BY <1>1, <1>3 DEF Init, Position, Paced, NotBeforeMediaTime, SeqIDNumbersSamples
  <1> QED BY <1>5, <1>6 DEF IInv

\* Object 0 of a group is its first sample.
LEMMA ObjectZero ==
  ASSUME NEW t \in Tracks, NEW g \in Nat
  PROVE  ObjectFirst(t, g, 0) = FirstSample(t, g) /\ ObjectFirst(t, g, 0) < EndSample(t, g)
  <1>1. t.sampleBatch \in Nat /\ FirstSample(t, g) \in Nat
    BY TrackFields, GroupsTile
  <1>2. ObjectFirst(t, g, 0) = FirstSample(t, g)
    BY <1>1 DEF ObjectFirst
  <1> QED BY <1>2, GroupsTile

\* The object written: what the history records of it.
LEMMA WriteStep ==
  ASSUME IInv, pc = "write", Written
  PROVE  /\ last' \in [nr : Nat, first : Nat, end : Nat, at : Nat, seq : Nat, written : BOOLEAN]
         /\ last'.first = NextSample
         /\ last'.first < last'.end
         /\ last'.end = ObjectEnd(track, groupNr, objectID)
         /\ last'.at = now /\ last'.seq = seqID /\ last'.written
         /\ last'.first = ObjectFirst(track, groupNr, objectID)
  <1>1. /\ track \in Tracks /\ groupNr \in Nat /\ objectID \in Nat /\ now \in Nat /\ seqID \in Nat
        /\ ObjectFirst(track, groupNr, objectID) < EndSample(track, groupNr)
    BY DEF IInv, TypeOK, Position
  <1>2. /\ ObjectFirst(track, groupNr, objectID) \in Nat
        /\ ObjectEnd(track, groupNr, objectID) \in Nat
        /\ ObjectFirst(track, groupNr, objectID) < ObjectEnd(track, groupNr, objectID)
    BY <1>1, ObjectsTile
  <1> QED BY <1>1, <1>2 DEF Written, NextSample

LEMMA StepInvariant ==
  ASSUME IInv, [Next]_vars
  PROVE  IInv'
  <1> USE DEF IInv
  <1>t. /\ track \in Tracks /\ now \in Nat /\ groupNr \in Nat /\ objectID \in Nat
        /\ wake \in Nat /\ seqID \in Nat
    BY DEF TypeOK
  <1>1. CASE Begin
    <2>1. groupNr' \in Nat /\ FirstSample(track, groupNr') \in Nat /\ objectID = 0
      BY <1>t, <1>1, FirstGroupType, GroupsTile DEF Begin, Position
    <2>2. /\ ObjectFirst(track, groupNr', 0) < EndSample(track, groupNr')
          /\ ObjectFirst(track, groupNr', 0) = FirstSample(track, groupNr')
      BY <1>t, <2>1, ObjectZero
    <2>3. TypeOK'
      BY <1>1, <2>1 DEF Begin, TypeOK
    <2>4. Position' /\ Paced'
      BY <1>1, <2>1, <2>2 DEF Begin, Position, Paced, NextSample
    <2>5. NotBeforeMediaTime' /\ SeqIDNumbersSamples'
      BY <1>1 DEF Begin, Position, NotBeforeMediaTime, SeqIDNumbersSamples
    <2> QED BY <2>3, <2>4, <2>5
  <1>2. CASE LoopHead
    <2>1. TypeOK'
      BY <1>2 DEF LoopHead, Exit, TypeOK
    <2>2. Position' /\ Paced'
      BY <1>2 DEF LoopHead, Exit, Position, Paced, NextSample
    <2>3. NotBeforeMediaTime' /\ SeqIDNumbersSamples'
      BY <1>2 DEF LoopHead, Exit, NotBeforeMediaTime, SeqIDNumbersSamples
    <2> QED BY <2>1, <2>2, <2>3
  <1>3. CASE OpenSubgroup
    <2>0. FirstSample(track, groupNr) # EndSample(track, groupNr)
      BY <1>t, GroupsTile
    <2>1. TypeOK'
      BY <1>3 DEF OpenSubgroup, Exit, TypeOK
    <2>2. Position' /\ Paced'
      BY <1>3, <2>0 DEF OpenSubgroup, Exit, Position, Paced, NextSample
    <2>3. NotBeforeMediaTime' /\ SeqIDNumbersSamples'
      BY <1>3, <2>0 DEF OpenSubgroup, Exit, NotBeforeMediaTime, SeqIDNumbersSamples
    <2> QED BY <2>1, <2>2, <2>3
  <1>4. CASE Pace
    <2>0. wake' \in Nat
      <3>1. CASE wake' \in ObjectTimeMS(track, groupNr, objectID)
        BY <1>t, <1>4, <3>1, ObjectTimeSpec DEF Pace, Position
      <3>2. CASE UNCHANGED wake
        BY <1>t, <3>2
      <3> QED BY <1>4, <3>1, <3>2 DEF Pace
    <2>1. TypeOK'
      BY <1>4, <2>0 DEF Pace, Exit, ReadyToWrite, TypeOK
    <2>2. Position' /\ Paced'
      BY <1>4 DEF Pace, Exit, ReadyToWrite, Position, Paced, NextSample
    <2>3. NotBeforeMediaTime' /\ SeqIDNumbersSamples'
      BY <1>4 DEF Pace, Exit, ReadyToWrite, NotBeforeMediaTime, SeqIDNumbersSamples
    <2> QED BY <2>1, <2>2, <2>3
  <1>5. CASE Select
    <2> USE DEF Select, TimerFires, CancelledInWait, Exit, ReadyToWrite
    <2>1. TypeOK'
      BY <1>5 DEF TypeOK
    <2>2. Position' /\ Paced'
      BY <1>5, <1>t DEF Position, Paced, NextSample
    <2>3. NotBeforeMediaTime' /\ SeqIDNumbersSamples'
      BY <1>5 DEF NotBeforeMediaTime, SeqIDNumbersSamples
    <2> QED BY <2>1, <2>2, <2>3
  <1>6. CASE WriteObject
    <2>1. CASE Exit /\ UNCHANGED <<objectID, seqID, last>>
      <3>1. TypeOK'
        BY <1>6, <2>1 DEF WriteObject, Exit, TypeOK
      <3>2. Position' /\ Paced'
        BY <1>6, <2>1 DEF WriteObject, Exit, Position, Paced
      <3>3. NotBeforeMediaTime' /\ SeqIDNumbersSamples'
        BY <1>6, <2>1 DEF WriteObject, Exit, NotBeforeMediaTime, SeqIDNumbersSamples
      <3> QED BY <3>1, <3>2, <3>3
    <2>2. CASE Written
      <3> DEFINE e == ObjectEnd(track, groupNr, objectID)
      <3>1. /\ last' \in [nr : Nat, first : Nat, end : Nat, at : Nat, seq : Nat, written : BOOLEAN]
            /\ last'.end = e /\ last'.at = now /\ last'.seq = seqID /\ last'.written
            /\ last'.first = ObjectFirst(track, groupNr, objectID)
        BY <1>6, <2>2, WriteStep DEF WriteObject
      <3>2. /\ pc = "write" /\ objectID' = objectID + 1 /\ seqID' = seqID + 1
            /\ pc' = IF e = EndSample(track, groupNr) THEN "close" ELSE "pace"
            /\ UNCHANGED <<sgOpen, track, now, cancelled, joined, groupNr, wake>>
        <4>1. last' # last
          <5>1. CASE last.written
            BY <1>6, <2>2, <3>1, <5>1, WriteStep DEF WriteObject, Position
          <5>2. CASE ~last.written
            BY <3>1, <5>2
          <5> QED BY <5>1, <5>2
        <4> QED BY <1>6, <4>1 DEF WriteObject
      <3>3. ObjectFirst(track, groupNr, objectID) < EndSample(track, groupNr)
        BY <3>2 DEF Position
      <3>4. /\ ObjectFirst(track, groupNr, objectID) \in Nat
            /\ e \in Nat
            /\ ObjectFirst(track, groupNr, objectID) < e
            /\ e <= ObjectFirst(track, groupNr, objectID) + track.sampleBatch
            /\ e # EndSample(track, groupNr) =>
                 /\ e = ObjectFirst(track, groupNr, objectID + 1)
                 /\ e < EndSample(track, groupNr)
        BY <1>t, <3>3, ObjectsTile
      <3> HIDE DEF e
      <3>5. TypeOK'
        BY <1>t, <3>1, <3>2 DEF TypeOK
      <3>6. NextSample' = e
        BY <3>2, <3>4 DEF NextSample
      <3>7. track.kind \in {"moqmiVideo", "moqmiAudio"} => seqID' = e
        <4>1. SUFFICES ASSUME track.kind \in {"moqmiVideo", "moqmiAudio"} PROVE seqID' = e
          OBVIOUS
        <4>2. track.sampleBatch = 1
          BY <1>t, <4>1, TrackAssumption
        <4>3. seqID = ObjectFirst(track, groupNr, objectID)
          BY <3>2, <4>1 DEF Position, NextSample
        <4> QED BY <3>2, <3>4, <4>2, <4>3
      <3>8. Position'
        BY <3>1, <3>2, <3>4, <3>6, <3>7 DEF Position
      <3>9. Paced'
        BY <3>2 DEF Paced
      <3>10. NotBeforeMediaTime'
        <4>1. wake \in ObjectTimeMS(track, groupNr, objectID) /\ wake <= now
          BY <3>2 DEF Paced
        <4>2. ObjectMedia(track, groupNr, objectID) * MsPerSecond <= (wake + 1) * track.timeScale
          BY <1>t, <3>3, <4>1, ObjectTimeSpec
        <4>3. wake + 1 \in Nat /\ now + 1 \in Nat /\ wake + 1 <= now + 1 /\ track.timeScale \in Nat
          BY <1>t, <4>1, TrackFields
        <4>4. (wake + 1) * track.timeScale <= (now + 1) * track.timeScale
          BY <4>3, MulMono
        <4>5. ObjectMedia(track, groupNr, objectID)
                = (IF track.kind = "cmaf" THEN last'.end ELSE last'.first) * track.sampleDur
          BY <3>1 DEF ObjectMedia, e
        <4>6. track.sampleDur \in Nat /\ MsPerSecond \in Nat
          BY <1>t, TrackFields, UnitAssumption
        <4>7. ObjectMedia(track, groupNr, objectID) \in Nat
          BY <3>4, <4>6 DEF ObjectMedia, e
        <4>8. /\ ObjectMedia(track, groupNr, objectID) * MsPerSecond \in Nat
              /\ (wake + 1) * track.timeScale \in Nat /\ (now + 1) * track.timeScale \in Nat
          BY <4>3, <4>6, <4>7
        <4>9. ObjectMedia(track, groupNr, objectID) * MsPerSecond <= (now + 1) * track.timeScale
          BY <4>2, <4>4, <4>8
        <4> QED BY <3>1, <3>2, <4>5, <4>8, <4>9 DEF NotBeforeMediaTime
      <3>11. SeqIDNumbersSamples'
        <4>1. track.kind \in {"moqmiVideo", "moqmiAudio"} =>
                seqID = ObjectFirst(track, groupNr, objectID)
          BY <3>2 DEF Position, NextSample
        <4> QED BY <3>1, <3>2, <4>1 DEF SeqIDNumbersSamples
      <3> QED BY <3>5, <3>8, <3>9, <3>10, <3>11
    <2> QED BY <1>6, <2>1, <2>2 DEF WriteObject
  <1>7. CASE CloseSubgroup
    <2>0. /\ sgOpen' \in BOOLEAN /\ cancelled' \in BOOLEAN
          /\ groupNr' \in Nat /\ objectID' \in Nat
      <3>1. sgOpen' \in BOOLEAN /\ cancelled' \in BOOLEAN
        BY <1>7, Zenon DEF CloseSubgroup, TypeOK
      <3>2. groupNr' \in Nat /\ objectID' \in Nat
        BY <1>7, <1>t DEF CloseSubgroup
      <3> QED BY <3>1, <3>2
    <2>1. TypeOK'
      BY <1>7, <2>0 DEF CloseSubgroup, TypeOK
    <2>2. /\ ObjectFirst(track, groupNr + 1, 0) = EndSample(track, groupNr)
          /\ ObjectFirst(track, groupNr + 1, 0) < EndSample(track, groupNr + 1)
      BY <1>t, ObjectZero, GroupsTile
    <2>3. Position' /\ Paced'
      BY <1>7, <2>2 DEF CloseSubgroup, Position, Paced, NextSample
    <2>4. NotBeforeMediaTime' /\ SeqIDNumbersSamples'
      BY <1>7 DEF CloseSubgroup, NotBeforeMediaTime, SeqIDNumbersSamples
    <2> QED BY <2>1, <2>3, <2>4
  <1>8. CASE Cancel
    <2>1. TypeOK'
      BY <1>8 DEF Cancel, TypeOK
    <2>2. Position' /\ Paced'
      BY <1>8 DEF Cancel, Position, Paced, NextSample
    <2>3. NotBeforeMediaTime' /\ SeqIDNumbersSamples'
      BY <1>8 DEF Cancel, NotBeforeMediaTime, SeqIDNumbersSamples
    <2> QED BY <2>1, <2>2, <2>3
  <1>9. CASE Tick
    <2>1. TypeOK'
      BY <1>9, <1>t DEF Tick, TypeOK
    <2>2. Position' /\ Paced'
      BY <1>9, <1>t DEF Tick, Position, Paced, NextSample
    <2>3. NotBeforeMediaTime' /\ SeqIDNumbersSamples'
      BY <1>9 DEF Tick, NotBeforeMediaTime, SeqIDNumbersSamples
    <2> QED BY <2>1, <2>2, <2>3
  <1>10. CASE UNCHANGED vars
    BY <1>10 DEF vars, TypeOK, Position, Paced, NextSample, NotBeforeMediaTime,
       SeqIDNumbersSamples
  <1> QED BY <1>1, <1>2, <1>3, <1>4, <1>5, <1>6, <1>7, <1>8, <1>9, <1>10 DEF Next, Publish

\* IInv holds in every reachable state.
THEOREM Invariance == Spec => []IInv
  BY InitInvariant, StepInvariant, PTL DEF Spec

\* The publisher's state is well typed.
THEOREM TypeCorrect == Spec => []TypeOK
  <1>1. IInv => TypeOK
    BY DEF IInv
  <1> QED BY Invariance, <1>1, PTL

\* No publisher of WriteMoQGroup, PublishLOCTrack, WriteSubtitleGroup or the
\* moq-mi loops writes an object before the media in it exists.
THEOREM PacedByMediaTime == Spec => []NotBeforeMediaTime
  <1>1. IInv => NotBeforeMediaTime
    BY DEF IInv
  <1> QED BY Invariance, <1>1, PTL

\* The moq-mi sequence number never departs from the sample number.
THEOREM SeqIDConsistent == Spec => []SeqIDNumbersSamples
  <1>1. IInv => SeqIDNumbersSamples
    BY DEF IInv
  <1> QED BY Invariance, <1>1, PTL

\* For every time scale, sample duration and batch size, the objects a
\* subscriber receives are contiguous in samples, across groups as well.
THEOREM NoSampleLostOrRepeated == Spec => SamplesContiguous
  <1>1. ASSUME IInv, [Next]_vars, last' # last, last.written
        PROVE  last'.first = last.end /\ last'.end > last'.first
    <2>1. pc = "write" /\ Written
      BY <1>1 DEF Next, Publish, vars, Begin, LoopHead, OpenSubgroup, Pace, Select, WriteObject,
         CloseSubgroup, Cancel, Tick
    <2>2. last.end = NextSample
      BY <1>1, <2>1 DEF IInv, Position
    <2>3. last'.first = NextSample /\ last'.first < last'.end
      BY <1>1, <2>1, WriteStep
    <2>4. last'.first \in Nat /\ last'.end \in Nat
      BY <1>1, <2>1, WriteStep
    <2> QED BY <2>2, <2>3, <2>4
  <1>2. IInv /\ [Next]_vars
          => [last' # last /\ last.written => last'.first = last.end /\ last'.end > last'.first]_vars
    BY <1>1
  <1> QED BY Invariance, <1>2, PTL DEF Spec, SamplesContiguous

(***************************************************************************)
(* Where a subscriber joins.                                               *)
(***************************************************************************)

\* The first multiple of sd at or after floor(x / m), in units of 1 / m: it lies
\* less than a unit before x and less than sd after it.
LEMMA CeilOfFloor ==
  ASSUME NEW x \in Nat, NEW m \in Nat \ {0}, NEW sd \in Nat \ {0},
         NEW n, n = CeilDiv(x \div m, sd)
  PROVE  /\ n \in Nat
         /\ (n * sd + 1) * m > x
         /\ n * sd * m <= x + sd * m
  <1> DEFINE q == x \div m
  <1>1. q \in Nat /\ q * m <= x /\ x < (q + 1) * m
    BY DivBounds
  <1>2. n = CeilDiv(q, sd)
    OBVIOUS
  <1> HIDE DEF q
  <1>3. n \in Nat /\ q <= n * sd /\ n * sd < q + sd
    BY <1>1, <1>2, CeilDivSpec
  <1> DEFINE p == n * sd
  <1>4. p \in Nat
    BY <1>3
  <1>5. q <= p /\ p <= q + sd
    BY <1>1, <1>3, <1>4
  <1> HIDE DEF p
  <1>6. (q + 1) * m <= (p + 1) * m
    BY <1>1, <1>4, <1>5, MulMono
  <1>7. p * m <= (q + sd) * m
    BY <1>1, <1>4, <1>5, MulMono
  <1>8. (q + sd) * m = q * m + sd * m /\ q * m \in Nat /\ sd * m \in Nat
    BY <1>1
  <1>9. (q + 1) * m \in Nat /\ (p + 1) * m \in Nat /\ p * m \in Nat
    BY <1>1, <1>4
  <1>10. (p + 1) * m > x /\ p * m <= x + sd * m
    BY <1>1, <1>6, <1>7, <1>8, <1>9
  <1> QED BY <1>3, <1>10 DEF p

\* The interval after the present one starts within its length.
LEMMA NextInterval ==
  ASSUME NEW ms \in Nat, NEW len \in Nat \ {0}, NEW ts \in Nat \ {0},
         NEW g, g = ms \div len + 1
  PROVE  /\ g \in Nat
         /\ g * len * ts > ms * ts
         /\ g * len * ts <= ms * ts + len * ts
  <1> DEFINE q == ms \div len  e == g * len
  <1>1. q \in Nat /\ q * len <= ms /\ ms < (q + 1) * len
    BY DivBounds
  <1>2. g = q + 1
    OBVIOUS
  <1> HIDE DEF q
  <1>3. e = q * len + len /\ q * len \in Nat /\ g \in Nat
    BY <1>1, <1>2
  <1>4. e \in Nat /\ ms + 1 <= e /\ e <= ms + len
    BY <1>1, <1>2, <1>3
  <1> HIDE DEF e
  <1>5. (ms + 1) * ts <= e * ts /\ e * ts <= (ms + len) * ts
    BY <1>4, MulMono
  <1>6. (ms + 1) * ts = ms * ts + ts /\ (ms + len) * ts = ms * ts + len * ts
    OBVIOUS
  <1>7. ms * ts \in Nat /\ len * ts \in Nat /\ e * ts \in Nat
    BY <1>4
  <1>8. e * ts > ms * ts /\ e * ts <= ms * ts + len * ts
    BY <1>5, <1>6, <1>7
  <1> QED BY <1>3, <1>8 DEF e

\* Whatever the packaging, the first group starts at the live edge: less than a
\* tick of the track before the clock and at most GroupSpan after it.
LEMMA JoinsAtLiveEdge ==
  ASSUME NEW t \in Tracks, NEW ms \in Nat, NEW n, n = FirstSample(t, FirstGroup(t, ms))
  PROVE  /\ n \in Nat
         /\ (n * t.sampleDur + 1) * MsPerSecond > ms * t.timeScale
         /\ n * t.sampleDur * MsPerSecond <= ms * t.timeScale + GroupSpan(t)
  <1> DEFINE sd == t.sampleDur  ts == t.timeScale  M == MsPerSecond  G == GroupDurMS
             g == FirstGroup(t, ms)
  <1>1. sd \in Nat \ {0} /\ ts \in Nat \ {0} /\ M \in Nat \ {0} /\ G \in Nat \ {0}
    BY TrackFields, UnitAssumption
  <1>2. CASE t.kind \in {"cmaf", "loc"}
    <2>1. g = ms \div G + 1 /\ n = CeilDiv((g * G * ts) \div M, sd)
      BY <1>2 DEF FirstGroup, FirstSample, CurrMoQGroupNr, StartNr, GroupTime
    <2>2. GroupSpan(t) = G * ts + sd * M
      BY <1>2 DEF GroupSpan
    <2> HIDE DEF sd, ts, M, G, g
    <2>3. g \in Nat /\ g * G * ts > ms * ts /\ g * G * ts <= ms * ts + G * ts
      BY <1>1, <2>1, NextInterval
    <2> DEFINE x == g * G * ts
    <2>4. x \in Nat
      BY <1>1, <2>3
    <2>5. n = CeilDiv(x \div M, sd)
      BY <2>1
    <2>6. x > ms * ts /\ x <= ms * ts + G * ts
      BY <2>3
    <2> HIDE DEF x
    <2>7. n \in Nat /\ (n * sd + 1) * M > x /\ n * sd * M <= x + sd * M
      BY <1>1, <2>4, <2>5, CeilOfFloor
    <2>8. /\ ms * ts \in Nat /\ G * ts \in Nat /\ sd * M \in Nat
          /\ n * sd * M \in Nat /\ (n * sd + 1) * M \in Nat
      BY <1>1, <2>7
    <2>9. (n * sd + 1) * M > ms * ts /\ n * sd * M <= ms * ts + (G * ts + sd * M)
      BY <2>4, <2>6, <2>7, <2>8
    <2> QED BY <2>2, <2>7, <2>9 DEF sd, ts, M
  <1>3. CASE t.kind = "subtitle"
    <2>1. g = ms \div G + 1 /\ n = g
      BY <1>3 DEF FirstGroup, FirstSample, CurrMoQGroupNr
    <2>2. GroupSpan(t) = G * ts + sd * M
      BY <1>3 DEF GroupSpan
    <2>3. ts = M /\ sd = G
      BY <1>3, TrackAssumption
    <2> HIDE DEF sd, ts, M, G, g
    <2>4. g \in Nat /\ g * G * ts > ms * ts /\ g * G * ts <= ms * ts + G * ts
      BY <1>1, <2>1, NextInterval
    <2>5. /\ n * sd * M = g * G * ts /\ (n * sd + 1) * M = g * G * ts + M
      BY <1>1, <2>1, <2>3, <2>4
    <2>6. ms * ts \in Nat /\ G * ts \in Nat /\ sd * M \in Nat /\ g * G * ts \in Nat
      BY <1>1, <2>4
    <2>7. (n * sd + 1) * M > ms * ts /\ n * sd * M <= ms * ts + (G * ts + sd * M)
      BY <1>1, <2>4, <2>5, <2>6
    <2> QED BY <2>1, <2>2, <2>4, <2>7 DEF sd, ts, M
  <1>4. CASE t.kind = "moqmiVideo"
    <2> DEFINE k == t.gopLen  D == GopDurMS(t)
    <2>1. g = ms \div D + 1 /\ n = g * k
      BY <1>4 DEF FirstGroup, FirstSample
    <2>2. GroupSpan(t) = k * sd * M
      BY <1>4 DEF GroupSpan
    <2>3. k * sd * M = D * ts
      BY <1>4, GopAssumption
    <2>4. k \in Nat \ {0}
      BY TrackFields
    <2>5. D \in Nat \ {0}
      <3>1. t.gopLen * t.sampleDur \in Nat
        BY TrackFields
      <3> QED BY <3>1, TimeMSSpec, UnitAssumption DEF GopDurMS
    <2> HIDE DEF sd, ts, M, g, k, D
    <2>6. g \in Nat /\ g * D * ts > ms * ts /\ g * D * ts <= ms * ts + D * ts
      BY <1>1, <2>1, <2>5, NextInterval
    <2>7. n * sd * M = g * D * ts /\ n \in Nat
      <3>1. n * sd * M = g * (k * sd * M) /\ n \in Nat
        BY <1>1, <2>1, <2>4, <2>6
      <3>2. g * (D * ts) = g * D * ts
        BY <1>1, <2>5, <2>6
      <3> QED BY <2>3, <3>1, <3>2
    <2>8. (n * sd + 1) * M = n * sd * M + M
      BY <1>1, <2>7
    <2>9. ms * ts \in Nat /\ D * ts \in Nat /\ g * D * ts \in Nat
      BY <1>1, <2>5, <2>6
    <2>10. (n * sd + 1) * M > ms * ts /\ n * sd * M <= ms * ts + D * ts
      BY <1>1, <2>6, <2>7, <2>8, <2>9
    <2> QED BY <2>2, <2>3, <2>7, <2>10 DEF sd, ts, M
  <1>5. CASE t.kind = "moqmiAudio"
    <2>1. n = CeilDiv((ms * ts) \div M, sd)
      BY <1>5 DEF FirstGroup, FirstSample
    <2>2. GroupSpan(t) = sd * M
      BY <1>5 DEF GroupSpan
    <2> HIDE DEF sd, ts, M
    <2>3. ms * ts \in Nat
      BY <1>1
    <2>4. n \in Nat /\ (n * sd + 1) * M > ms * ts /\ n * sd * M <= ms * ts + sd * M
      BY <1>1, <2>1, <2>3, CeilOfFloor
    <2> QED BY <2>2, <2>4 DEF sd, ts, M
  <1> QED BY <1>2, <1>3, <1>4, <1>5, TrackFields DEF Kinds

-----------------------------------------------------------------------------
(***************************************************************************)
(* The refinement.                                                         *)
(***************************************************************************)

\* Only WriteObject writes, and then the loop goes on.
LEMMA OnlyWritesChangeLast ==
  ASSUME IInv, [Next]_vars, last' # last
  PROVE  /\ pc = "write" /\ Written /\ pc' \in {"close", "pace"}
         /\ UNCHANGED <<track, now, joined, groupNr>>
  BY DEF Next, Publish, vars, Begin, LoopHead, OpenSubgroup, Pace, Select, WriteObject,
     CloseSubgroup, Cancel, Tick

\* Until it has written something, the publisher stands where the subscriber joined.
LEMMA AtJoinedStep ==
  ASSUME IInv, AtJoined, [Next]_vars
  PROVE  AtJoined'
  <1> SUFFICES ASSUME pc' \notin {"start", "done"}, ~last'.written
               PROVE  NextSample' = Joined'
    BY DEF AtJoined
  <1>t. track \in Tracks /\ now \in Nat /\ groupNr \in Nat /\ objectID \in Nat
    BY DEF IInv, TypeOK
  <1>1. last' = last
    BY OnlyWritesChangeLast, WriteStep
  <1>2. CASE Begin
    <2>1. /\ groupNr' = FirstGroup(track, now) /\ joined' = now /\ pc' = "loop"
          /\ track' = track /\ objectID' = 0
      BY <1>2 DEF Begin, IInv, Position
    <2>2. groupNr' \in Nat
      BY <1>t, <2>1, FirstGroupType
    <2>3. ObjectFirst(track, groupNr', 0) = FirstSample(track, groupNr')
      BY <1>t, <2>2, ObjectZero
    <2> QED BY <2>1, <2>3 DEF NextSample, Joined
  <1>3. CASE CloseSubgroup
    <2>1. /\ pc = "close" /\ pc' = "loop" /\ groupNr' = groupNr + 1 /\ objectID' = 0
          /\ UNCHANGED <<track, joined>>
      BY <1>3 DEF CloseSubgroup
    <2>2. ObjectFirst(track, groupNr + 1, 0) = EndSample(track, groupNr)
      BY <1>t, ObjectZero, GroupsTile
    <2>3. NextSample' = NextSample
      BY <2>1, <2>2 DEF NextSample
    <2> QED BY <1>1, <2>1, <2>3 DEF AtJoined, Joined
  <1>4. CASE LoopHead \/ OpenSubgroup \/ Pace \/ Select \/ Cancel \/ Tick \/ UNCHANGED vars
    <2>1. UNCHANGED <<track, joined, groupNr, objectID>>
      BY <1>4 DEF LoopHead, OpenSubgroup, Pace, Select, Cancel, Tick, vars
    <2>2. FirstSample(track, groupNr) # EndSample(track, groupNr)
      BY <1>t, GroupsTile
    <2>3. pc \notin {"start", "done"} /\ (pc' = "close" <=> pc = "close")
      BY <1>4, <2>2 DEF LoopHead, OpenSubgroup, Pace, Select, Cancel, Tick, vars,
         TimerFires, CancelledInWait, Exit, ReadyToWrite
    <2> QED BY <1>1, <2>1, <2>3 DEF AtJoined, NextSample, Joined
  <1>5. CASE WriteObject
    <2>1. pc' = "done"
      BY <1>1, <1>5, WriteStep DEF WriteObject, Exit
    <2> QED BY <2>1
  <1> QED BY <1>2, <1>3, <1>4, <1>5 DEF Next, Publish

\* The publisher stands at the joining sample until it writes, in every behaviour.
LEMMA AtJoinedInvariance == Spec => [](IInv /\ AtJoined)
  <1>1. Init => IInv /\ AtJoined
    BY InitInvariant DEF Init, AtJoined
  <1>2. IInv /\ AtJoined /\ [Next]_vars => (IInv /\ AtJoined)'
    BY StepInvariant, AtJoinedStep
  <1> QED BY <1>1, <1>2, PTL DEF Spec

\* The initial states of the publisher are initial states of the live track.
LEMMA LiveInit == Init => Live!Init
  <1> SUFFICES ASSUME Init PROVE Live!Init
    OBVIOUS
  <1>1. ~last.written /\ pc = "start" /\ track \in Tracks /\ now \in Nat
    BY TrackAssumption DEF Init, NoObject
  <1> QED BY <1>1 DEF Live!Init, Joined

\* Every step of the publisher is a step of the live track, or none: Begin joins,
\* WriteObject releases, an exit leaves, Tick is the clock.
LEMMA LiveStep ==
  ASSUME IInv, AtJoined, [Next]_vars
  PROVE  [Live!Next]_(Live!liveVars)
  <1>t. track \in Tracks /\ now \in Nat /\ groupNr \in Nat /\ objectID \in Nat
    BY DEF IInv, TypeOK
  <1>j. pc # "start" /\ pc' # "start" /\ UNCHANGED <<track, joined>> => Joined' = Joined
    BY DEF Joined
  <1>1. CASE Begin
    <2>1. /\ pc = "start" /\ pc' = "loop" /\ joined' = now /\ UNCHANGED <<track, now, last>>
          /\ ~last.written
      BY <1>1 DEF Begin, IInv, Position
    <2>2. Joined' = FirstSample(track, FirstGroup(track, now)) /\ Joined = 0
      BY <2>1 DEF Joined
    <2>3. /\ Joined' \in Nat
          /\ (Joined' * track.sampleDur + 1) * MsPerSecond > now * track.timeScale
          /\ Joined' * track.sampleDur * MsPerSecond <= now * track.timeScale + GroupSpan(track)
      BY <1>t, <2>2, JoinsAtLiveEdge
    <2>4. [t \in Tracks |-> GroupSpan(t)][track] = GroupSpan(track)
      BY <1>t
    <2>5. Live!Join
      BY <2>1, <2>3, <2>4 DEF Live!Join
    <2> QED BY <2>5 DEF Live!Next
  <1>2. CASE last' # last
    <2>1. /\ pc = "write" /\ Written /\ pc' \in {"close", "pace"}
          /\ UNCHANGED <<track, now, joined, groupNr>>
      BY <1>2, OnlyWritesChangeLast
    <2>2. /\ last'.first = NextSample /\ last'.first < last'.end /\ last'.written
          /\ last'.first \in Nat /\ last'.end \in Nat /\ last'.at = now
      BY <2>1, WriteStep
    <2>3. IF last.written THEN last.end = last'.first ELSE Joined = last'.first
      BY <2>1, <2>2 DEF IInv, Position, AtJoined
    <2>4. IInv'
      BY StepInvariant
    <2> DEFINE n == IF WholeBatches(track) THEN last'.end ELSE last'.first
    <2>5. n * track.sampleDur * MsPerSecond <= (now + 1) * track.timeScale
      <3>1. (now + 1) * track.timeScale >= n * track.sampleDur * MsPerSecond
        BY <2>1, <2>2, <2>4 DEF IInv, NotBeforeMediaTime, WholeBatches
      <3>2. /\ track.timeScale \in Nat /\ track.sampleDur \in Nat /\ MsPerSecond \in Nat
            /\ n \in Nat
        BY <1>t, <2>2, TrackFields, UnitAssumption
      <3> HIDE DEF n
      <3>3. (now + 1) * track.timeScale \in Nat /\ n * track.sampleDur * MsPerSecond \in Nat
        BY <1>t, <3>2
      <3> QED BY <3>1, <3>3
    <2>6. [t \in Tracks |-> WholeBatches(t)][track] = WholeBatches(track)
      BY <1>t
    <2>7. Live!Release
      BY <1>j, <2>1, <2>2, <2>3, <2>5, <2>6 DEF Live!Release, Live!Reached
    <2> QED BY <2>7 DEF Live!Next
  <1>3. CASE Tick
    <2>1. now' >= now /\ UNCHANGED <<track, pc, joined, last>>
      BY <1>t, <1>3 DEF Tick
    <2>2. Live!Clock
      BY <2>1 DEF Live!Clock, Joined
    <2> QED BY <2>2 DEF Live!Next
  <1>4. CASE /\ LoopHead \/ OpenSubgroup \/ Pace \/ Select \/ WriteObject \/ CloseSubgroup \/ Cancel
                \/ UNCHANGED vars
             /\ last' = last
    <2>1. UNCHANGED <<track, now, joined>>
      BY <1>4 DEF LoopHead, OpenSubgroup, Pace, Select, WriteObject, CloseSubgroup, Cancel, vars
    <2>2. \/ pc' = pc
          \/ pc \notin {"start", "done"} /\ pc' # "start"
      BY <1>4 DEF LoopHead, OpenSubgroup, Pace, Select, WriteObject, CloseSubgroup, Cancel, vars,
         TimerFires, CancelledInWait, Exit, ReadyToWrite
    <2>3. Joined' = Joined
      BY <2>1, <2>2 DEF Joined
    <2>4. CASE pc' = "done" /\ pc \notin {"start", "done"}
      BY <1>4, <2>1, <2>3, <2>4 DEF Live!Next, Live!Leave
    <2>5. CASE ~(pc' = "done" /\ pc \notin {"start", "done"})
      BY <1>4, <2>1, <2>2, <2>3, <2>5 DEF Live!liveVars
    <2> QED BY <2>4, <2>5
  <1> QED BY <1>1, <1>2, <1>3, <1>4 DEF Next, Publish

\* Every publishing loop implements the abstract live track, for every time scale,
\* frame duration, batch, group and GOP length.
THEOREM PublishersImplementLiveTrack == Spec => ImplementsLiveTrack
  <1>1. IInv /\ AtJoined /\ [Next]_vars => [Live!Next]_(Live!liveVars)
    BY LiveStep
  <1> QED BY LiveInit, <1>1, AtJoinedInvariance, PTL DEF Spec, ImplementsLiveTrack, Live!Spec

-----------------------------------------------------------------------------
(***************************************************************************)
(* The loop.                                                               *)
(***************************************************************************)

\* The number of the first output sample of the turn that sample nr is in.
FirstOfTurn(t, nr) == CeilDiv(NrWraps(t, nr) * t.loopDur, t.sampleDur)

\* CalcSample counts from there: the turn has begun when its first sample is out,
\* and sample nr starts before the turn ends.
LEMMA TurnOfSample ==
  ASSUME NEW t \in Tracks, NEW nr \in Nat
  PROVE  /\ NrWraps(t, nr) \in Nat
         /\ NrWraps(t, nr) * t.loopDur <= nr * t.sampleDur
         /\ nr * t.sampleDur < (NrWraps(t, nr) + 1) * t.loopDur
         /\ FirstOfTurn(t, nr) \in Nat
         /\ FirstOfTurn(t, nr) <= nr
         /\ OrigNr(t, nr) = nr - FirstOfTurn(t, nr)
         /\ nr - FirstOfTurn(t, nr) < t.nrSamples
  <1> DEFINE sd == t.sampleDur  L == t.loopDur  N == t.nrSamples
             w == NrWraps(t, nr)  c == FirstOfTurn(t, nr)
  <1>1. sd \in Nat \ {0} /\ L \in Nat \ {0} /\ N \in Nat \ {0} /\ L <= N * sd
    BY TrackAssumption DEF TrackType
  <1>2. w = (nr * sd) \div L /\ c = CeilDiv(w * L, sd)
    BY DEF NrWraps, FirstOfTurn
  <1>3. OrigNr(t, nr) = (nr * sd - c * sd) \div sd
    BY DEF OrigNr, WrapTime, FirstOfTurn
  <1> HIDE DEF sd, L, N, w, c
  <1>4. nr * sd \in Nat
    BY <1>1
  <1>5. w \in Nat /\ w * L \in Nat
    <2>1. w \in Nat
      BY <1>1, <1>2, <1>4, DivSpec
    <2> QED BY <1>1, <2>1
  <1>6. c \in Nat /\ w * L <= c * sd /\ c * sd < w * L + sd
    BY <1>1, <1>2, <1>5, CeilDivSpec
  <1>7. /\ w * L <= nr * sd /\ nr * sd < (w + 1) * L /\ c <= nr /\ nr - c < N
        /\ (nr * sd - c * sd) \div sd = nr - c
    <2>1. w = (nr * sd) \div L /\ N \in Nat
      BY <1>1, <1>2
    <2> QED BY <1>1, <1>6, <2>1, TurnBounds
  <1> QED BY <1>3, <1>5, <1>6, <1>7 DEF sd, L, N, w, c

\* The next output sample is in the same turn or the first of the next one.
LEMMA LoopSuccessor ==
  ASSUME NEW t \in Tracks, NEW nr \in Nat
  PROVE  OrigNr(t, nr + 1) \in {OrigNr(t, nr) + 1, 0}
  <1> DEFINE sd == t.sampleDur  L == t.loopDur
             w == NrWraps(t, nr)  c == FirstOfTurn(t, nr)
             v == NrWraps(t, nr + 1)  d == FirstOfTurn(t, nr + 1)
  <1>1. sd \in Nat \ {0} /\ L \in Nat \ {0} /\ sd <= L
    BY TrackAssumption DEF TrackType
  <1>2. /\ w \in Nat /\ w * L <= nr * sd /\ nr * sd < (w + 1) * L
        /\ c \in Nat /\ c <= nr /\ OrigNr(t, nr) = nr - c
    BY TurnOfSample
  <1>3. /\ v \in Nat /\ v * L <= (nr + 1) * sd /\ (nr + 1) * sd < (v + 1) * L
        /\ d \in Nat /\ d <= nr + 1 /\ OrigNr(t, nr + 1) = nr + 1 - d
    <2>1. nr + 1 \in Nat
      OBVIOUS
    <2> QED BY <2>1, TurnOfSample
  <1>4. c = CeilDiv(w * L, sd) /\ d = CeilDiv(v * L, sd)
    BY DEF FirstOfTurn
  <1> HIDE DEF sd, L, w, c, v, d
  <1>5. (nr + 1) * sd = nr * sd + sd /\ nr * sd \in Nat
    BY <1>1
  <1>6. /\ w * L \in Nat /\ (w + 1) * L = w * L + L /\ (w + 2) * L = w * L + 2 * L
        /\ v * L \in Nat /\ (v + 1) * L = v * L + L
    BY <1>1, <1>2, <1>3
  <1>7. v <= w + 1
    <2>1. SUFFICES ASSUME w + 2 <= v PROVE FALSE
      BY <1>2, <1>3
    <2>2. (w + 2) * L <= v * L
      BY <1>1, <1>2, <1>3, <2>1, MulMono
    <2> QED BY <1>1, <1>2, <1>3, <1>5, <1>6, <2>2
  <1>8. w <= v
    <2>1. SUFFICES ASSUME v + 1 <= w PROVE FALSE
      BY <1>2, <1>3
    <2>2. (v + 1) * L <= w * L
      BY <1>1, <1>2, <1>3, <2>1, MulMono
    <2> QED BY <1>1, <1>2, <1>3, <1>5, <1>6, <2>2
  <1>9. CASE v = w
    <2>1. d = c
      BY <1>4, <1>9
    <2> QED BY <1>2, <1>3, <2>1
  <1>10. CASE v = w + 1
    <2>1. v * L <= d * sd
      BY <1>1, <1>4, <1>6, CeilDivSpec
    <2>2. nr < d
      <3>1. SUFFICES ASSUME d <= nr PROVE FALSE
        BY <1>3
      <3>2. d * sd <= nr * sd
        BY <1>1, <1>3, <3>1, MulMono
      <3>3. d * sd \in Nat
        BY <1>1, <1>3
      <3> QED BY <1>2, <1>5, <1>6, <1>10, <2>1, <3>2, <3>3
    <2> QED BY <1>3, <2>2
  <1> QED BY <1>2, <1>3, <1>7, <1>8, <1>9, <1>10

\* CalcSample: whatever loop and frame duration, each sample sent has a source
\* sample and is followed by the next one of the recording or by its first.
THEOREM LoopPlayedAsRecorded == Spec => []PlaysTheLoop
  <1>1. IInv => PlaysTheLoop
    <2> SUFFICES ASSUME IInv, last.written, NEW n \in last.first .. last.end - 1
                 PROVE  /\ OrigNr(track, n) < track.nrSamples
                        /\ OrigNr(track, n + 1) \in {OrigNr(track, n) + 1, 0}
      BY DEF PlaysTheLoop
    <2>1. track \in Tracks /\ n \in Nat
      BY DEF IInv, TypeOK
    <2> QED BY <2>1, TurnOfSample, LoopSuccessor
  <1> QED BY Invariance, <1>1, PTL

(***************************************************************************)
(* Subtitle cues.                                                          *)
(***************************************************************************)

\* What calcCueItvls computes for groups of k seconds: one uncut cue per second.
LEMMA CuesOfGroup ==
  ASSUME NEW g \in Nat, NEW k \in Nat \ {0}, GroupDurMS = k * MsPerSecond
  PROVE  CalcCueItvls(g) =
           [i \in 1 .. k |-> [utcS |-> g * k + i - 1, start |-> (g * k + i - 1) * MsPerSecond,
                              end |-> (g * k + i - 1) * MsPerSecond + CueDurMS]]
  <1> DEFINE M == MsPerSecond  a == g * k
  <1>1. M \in Nat \ {0} /\ CueDurMS \in 1 .. M
    BY UnitAssumption, CueAssumption
  <1>2. GroupStart(g) = a * M
    <2>1. g * (k * M) = (g * k) * M
      BY <1>1
    <2> QED BY <2>1 DEF GroupStart
  <1>3. GroupEnd(g) = (a + k) * M
    <2>1. (a + k) * M = a * M + k * M
      BY <1>1
    <2> QED BY <1>2, <2>1 DEF GroupEnd
  <1>4. a \in Nat /\ a * M \in Nat /\ (a + k) * M \in Nat
    BY <1>1
  <1> HIDE DEF a, M
  <1>5. (a * M) \div M = a /\ ((a + k) * M) \div M = a + k
    BY <1>1, <1>4, DivOfProduct
  <1>10. GroupStart(g) \div MsPerSecond = a /\ GroupEnd(g) \div MsPerSecond = a + k
    BY <1>2, <1>3, <1>5, Zenon DEF M
  <1>11. (a + k) * MsPerSecond = GroupEnd(g)
    BY <1>3, Zenon DEF M
  <1>6. LastCue(g) = a + k - 1
    <2> DEFINE final == GroupEnd(g) \div MsPerSecond
    <2>1. LastCue(g) = IF final * MsPerSecond = GroupEnd(g) THEN final - 1 ELSE final
      BY DEF LastCue
    <2>2. final = a + k
      BY <1>10
    <2> HIDE DEF final
    <2> QED BY <1>4, <1>11, <2>1, <2>2, UnitAssumption
  <1>7. CalcCueItvls(g) = [i \in 1 .. (a + k - 1 - a + 1) |-> CueItvl(g, a + i - 1)]
    <2> DEFINE first == GroupStart(g) \div MsPerSecond
    <2>1. CalcCueItvls(g) = [i \in 1 .. (LastCue(g) - first + 1) |-> CueItvl(g, first + i - 1)]
      BY DEF CalcCueItvls
    <2>2. first = a
      BY <1>10
    <2> HIDE DEF first
    <2> QED BY <1>4, <1>6, <2>1, <2>2
  <1>8. a + k - 1 - a + 1 = k
    BY <1>4
  <1>9. ASSUME NEW i \in 1 .. k
        PROVE  CueItvl(g, a + i - 1) = [utcS |-> a + i - 1, start |-> (a + i - 1) * M,
                                       end |-> (a + i - 1) * M + CueDurMS]
    <2> DEFINE u == a + i - 1
    <2>1. u \in Nat /\ a <= u /\ u + 1 <= a + k
      BY <1>4
    <2> HIDE DEF u
    <2>2. a * M <= u * M /\ (u + 1) * M <= (a + k) * M
      BY <2>1, <1>1, <1>4, MulMono
    <2>3. (u + 1) * M = u * M + M /\ u * M \in Nat
      BY <2>1, <1>1
    <2>4. u * M + CueDurMS <= (a + k) * M
      BY <2>2, <2>3, <1>1, <1>4
    <2>5. Max({u * M, a * M}) = u * M
      BY <2>2, <2>3, <1>4, MaxOfTwo
    <2>6. Min({u * M + CueDurMS, (a + k) * M}) = u * M + CueDurMS
      BY <2>3, <2>4, <1>1, <1>4, MinOfTwo
    <2> QED BY <1>2, <1>3, <2>5, <2>6 DEF CueItvl, u, M
  <1> QED BY <1>7, <1>8, <1>9 DEF a, M

\* Samples that fill the time from a to b without gap, overlap or empty sample.
SampleType == [start : Int, end : Int, cue : BOOLEAN]
Tile(s, a, b) ==
  /\ s \in Seq(SampleType)
  /\ s = <<>> => a = b
  /\ s # <<>> => s[1].start = a /\ s[Len(s)].end = b
  /\ \A i \in 1 .. Len(s) : s[i].start < s[i].end
  /\ \A i \in 1 .. Len(s) - 1 : s[i].end = s[i + 1].start

LEMMA TileAppend ==
  ASSUME NEW s, NEW a, NEW b \in Int, NEW c \in Int, b < c, NEW x \in BOOLEAN, Tile(s, a, b)
  PROVE  /\ Append(s, [start |-> b, end |-> c, cue |-> x]) # <<>>
         /\ Tile(Append(s, [start |-> b, end |-> c, cue |-> x]), a, c)
  <1> DEFINE e == [start |-> b, end |-> c, cue |-> x]  r == Append(s, e)
  <1>1. s \in Seq(SampleType) /\ e \in SampleType /\ e.start = b /\ e.end = c
    BY DEF Tile, SampleType
  <1> HIDE DEF e
  <1>2. /\ Len(s) \in Nat /\ r \in Seq(SampleType) /\ Len(r) = Len(s) + 1
        /\ \A i \in 1 .. Len(s) : r[i] = s[i]
        /\ r[Len(s) + 1] = e
    BY <1>1
  <1> DEFINE l == Len(s)
  <1>3. l \in Nat /\ (s = <<>> <=> l = 0) /\ Len(r) = l + 1
        /\ (\A i \in 1 .. l : r[i] = s[i]) /\ r[l + 1] = e
    BY <1>1, <1>2
  <1>4. /\ s = <<>> => a = b
        /\ s # <<>> => s[1].start = a /\ s[l].end = b
        /\ \A i \in 1 .. l : s[i].start < s[i].end
        /\ \A i \in 1 .. l - 1 : s[i].end = s[i + 1].start
    BY DEF Tile
  <1>5. r # <<>>
    BY <1>2, <1>3
  <1> HIDE DEF r, l
  <1>6. r[1].start = a
    <2>1. CASE l = 0
      BY <2>1, <1>1, <1>3, <1>4
    <2>2. CASE l # 0
      BY <2>2, <1>3, <1>4
    <2> QED BY <2>1, <2>2
  <1>7. r[l + 1].end = c
    BY <1>1, <1>3
  <1>8. \A i \in 1 .. l + 1 : r[i].start < r[i].end
    <2> TAKE i \in 1 .. l + 1
    <2>1. CASE i = l + 1
      BY <2>1, <1>1, <1>3
    <2>2. CASE i \in 1 .. l
      BY <2>2, <1>3, <1>4
    <2> QED BY <2>1, <2>2, <1>3
  <1>9. \A i \in 1 .. l : r[i].end = r[i + 1].start
    <2> TAKE i \in 1 .. l
    <2>1. CASE i = l
      <3>1. s # <<>> /\ r[i] = s[l] /\ r[i + 1] = e
        BY <2>1, <1>3
      <3> QED BY <3>1, <1>1, <1>4
    <2>2. CASE i \in 1 .. l - 1
      <3>1. r[i] = s[i] /\ r[i + 1] = s[i + 1]
        BY <2>2, <1>3
      <3> QED BY <2>2, <3>1, <1>4
    <2> QED BY <2>1, <2>2, <1>3
  <1>10. (l + 1) - 1 = l
    BY <1>3
  <1>11. Tile(r, a, c)
    BY <1>2, <1>3, <1>5, <1>6, <1>7, <1>8, <1>9, <1>10 DEF Tile
  <1> QED BY <1>5, <1>11 DEF r, e

\* An empty sample up to the next cue, or to the end of the group.
LEMMA FilledTiles ==
  ASSUME NEW done, NEW a, done.end \in Int, NEW to \in Int, done.end <= to,
         Tile(done.samples, a, done.end)
  PROVE  Tile(Filled(done, to), a, to)
  <1>1. CASE done.end < to
    <2>1. Tile(Append(done.samples, [start |-> done.end, end |-> to, cue |-> FALSE]), a, to)
      BY <1>1, TileAppend
    <2> QED BY <1>1, <2>1 DEF Filled
  <1>2. CASE done.end = to
    <2>1. ~(done.end < to)
      BY <1>2
    <2> QED BY <1>2, <2>1 DEF Filled
  <1> QED BY <1>1, <1>2

\* The loop over the cues, as a function of the number of cues it has added.
Added(base, cues) ==
  CHOOSE added : added = [n \in 0 .. Len(cues) |-> IF n = 0 THEN base ELSE WithCue(added[n - 1], cues[n])]

IsAdded(added, base, cues, b) ==
  added = [n \in 0 .. b |-> IF n = 0 THEN base ELSE WithCue(added[n - 1], cues[n])]

\* The loop is well-defined.
LEMMA AddedDef ==
  ASSUME NEW base, NEW cues, Len(cues) \in Nat
  PROVE  IsAdded(Added(base, cues), base, cues, Len(cues))
  <1> DEFINE S == {b \in Nat : \E added : IsAdded(added, base, cues, b)}
             N == Len(cues)
  <1>0. N \in Nat
    OBVIOUS
  <1>1. 0 \in S
    <2> DEFINE out == [n \in 0 .. 0 |-> base]
    <2>1. IsAdded(out, base, cues, 0)
      BY DEF IsAdded
    <2> QED BY <2>1
  <1>2. \A b \in 0 .. N - 1 : b \in S => b + 1 \in S
    <2> SUFFICES ASSUME NEW b \in 0 .. N - 1, NEW g, IsAdded(g, base, cues, b)
                 PROVE  \E added : IsAdded(added, base, cues, b + 1)
      BY <1>0
    <2> DEFINE new == WithCue(g[b], cues[b + 1])
               out == [n \in 0 .. b + 1 |-> IF n = b + 1 THEN new ELSE g[n]]
    <2>0. b \in Nat /\ 0 .. b + 1 = (0 .. b) \cup {b + 1} /\ b + 1 \notin 0 .. b
      BY <1>0
    <2>1. \A n \in 0 .. b : out[n] = g[n]
      BY <2>0
    <2>2. \A n \in 0 .. b : g[n] = IF n = 0 THEN base ELSE WithCue(g[n - 1], cues[n])
      BY DEF IsAdded
    <2>3. \A n \in 0 .. b + 1 : n # 0 => out[n - 1] = g[n - 1]
      BY <2>0, <2>1
    <2>4. out[b + 1] = new /\ b + 1 # 0 /\ (b + 1) - 1 = b
      BY <2>0
    <2>5. \A n \in 0 .. b + 1 : out[n] = IF n = 0 THEN base ELSE WithCue(out[n - 1], cues[n])
      <3> TAKE n \in 0 .. b + 1
      <3>1. CASE n = b + 1
        BY <3>1, <2>3, <2>4
      <3>2. CASE n \in 0 .. b
        BY <3>2, <2>0, <2>1, <2>2, <2>3
      <3> QED BY <3>1, <3>2, <2>0
    <2>6. out = [n \in 0 .. b + 1 |-> out[n]]
      OBVIOUS
    <2> HIDE DEF out, new
    <2>7. IsAdded(out, base, cues, b + 1)
      BY <2>5, <2>6 DEF IsAdded
    <2> QED BY <2>7
  <1>3. N \in S
    <2> HIDE DEF S
    <2>1. \A n \in 0 .. N : n \in S
      BY <1>0, <1>1, <1>2, LoopInduction, Zenon
    <2> QED BY <2>1, <1>0
  <1>4. \E added : IsAdded(added, base, cues, N)
    BY <1>3
  <1> QED BY <1>4, Zenon DEF Added, IsAdded

\* The samples of a group of k seconds tile the group.
LEMMA WvttTiles ==
  ASSUME NEW g \in Nat, NEW k \in Nat \ {0}, GroupDurMS = k * MsPerSecond
  PROVE  /\ Tile(WvttSamples(g), GroupStart(g), GroupEnd(g))
         /\ WvttSamples(g) # <<>>
  <1> DEFINE M == MsPerSecond  a == g * k  cues == CalcCueItvls(g)
             base == [end |-> GroupStart(g), samples |-> <<>>]  f == Added(base, cues)
  <1>1. M \in Nat \ {0} /\ CueDurMS \in 1 .. M /\ a \in Nat
    BY UnitAssumption, CueAssumption
  <1>2. GroupStart(g) = a * M
    <2>1. g * (k * M) = (g * k) * M
      BY <1>1
    <2> QED BY <2>1 DEF GroupStart
  <1>3. GroupEnd(g) = (a + k) * M
    <2>1. (a + k) * M = a * M + k * M
      BY <1>1
    <2> QED BY <1>2, <2>1 DEF GroupEnd
  <1>4. cues = [i \in 1 .. k |-> [utcS |-> a + i - 1, start |-> (a + i - 1) * M,
                                  end |-> (a + i - 1) * M + CueDurMS]]
    BY CuesOfGroup
  <1>5. Len(cues) = k /\ \A i \in 1 .. k : /\ cues[i].start = (a + i - 1) * M
                                          /\ cues[i].end = (a + i - 1) * M + CueDurMS
    <2> HIDE DEF cues, M, a
    <2>1. cues \in [1 .. k -> {cues[i] : i \in 1 .. k}]
      BY <1>4
    <2>2. cues \in Seq({cues[i] : i \in 1 .. k}) /\ Len(cues) = k
      BY <2>1, Tuple
    <2> QED BY <1>4, <2>2
  <1> HIDE DEF a, M, cues
  <1>6. IsAdded(f, base, cues, k)
    BY <1>5, AddedDef
  <1>7. WvttSamples(g) = Filled(f[k], GroupEnd(g))
    BY <1>5, Zenon DEF WvttSamples, Added, cues
  <1> HIDE DEF f
  <1>8. f[0] = base /\ \A n \in 0 .. k - 1 : f[n + 1] = WithCue(f[n], cues[n + 1])
    <2>0. f = [n \in 0 .. k |-> IF n = 0 THEN base ELSE WithCue(f[n - 1], cues[n])]
      BY <1>6, Zenon DEF IsAdded
    <2>1. f[0] = base
      BY <2>0
    <2>2. ASSUME NEW n \in 0 .. k - 1 PROVE f[n + 1] = WithCue(f[n], cues[n + 1])
      <3>1. n + 1 \in 0 .. k /\ n + 1 # 0 /\ (n + 1) - 1 = n
        OBVIOUS
      <3>2. f[n + 1] = IF n + 1 = 0 THEN base ELSE WithCue(f[(n + 1) - 1], cues[n + 1])
        BY <2>0, <3>1
      <3> QED BY <3>1, <3>2
    <2> QED BY <2>1, <2>2
  <1> DEFINE At(n) == /\ f[n].end \in Int /\ f[n].end <= (a + n) * M
                      /\ Tile(f[n].samples, GroupStart(g), f[n].end)
             S == {n \in Nat : At(n)}
  <1>9. 0 \in S
    <2>1. f[0].end = a * M /\ f[0].samples = <<>> /\ GroupStart(g) = f[0].end
      BY <1>8, <1>2
    <2>2. a * M \in Int /\ a + 0 = a
      BY <1>1
    <2>3. Tile(<<>>, GroupStart(g), GroupStart(g))
      BY DEF Tile
    <2> QED BY <2>1, <2>2, <2>3
  <1>10. \A n \in 0 .. k - 1 : n \in S => n + 1 \in S
    <2> SUFFICES ASSUME NEW n \in 0 .. k - 1, At(n) PROVE At(n + 1)
      OBVIOUS
    <2> DEFINE u == (a + n) * M  ci == cues[n + 1]
    <2>1. u \in Int /\ a + (n + 1) - 1 = a + n /\ n + 1 \in 1 .. k
      BY <1>1
    <2>2. (a + (n + 1)) * M = u + M
      BY <1>1
    <2>3. ci.start = u /\ ci.end = u + CueDurMS
      BY <1>5, <2>1
    <2>9. f[n].end \in Int /\ f[n].end <= u /\ Tile(f[n].samples, GroupStart(g), f[n].end)
      OBVIOUS
    <2> HIDE DEF u, ci, At
    <2>4. Tile(Filled(f[n], u), GroupStart(g), u)
      BY <2>1, <2>9, FilledTiles
    <2>10. u + CueDurMS \in Int /\ u < u + CueDurMS
      BY <1>1, <2>1
    <2>5. Tile(Append(Filled(f[n], u), [start |-> u, end |-> u + CueDurMS, cue |-> TRUE]),
               GroupStart(g), u + CueDurMS)
      BY <2>1, <2>4, <2>10, TileAppend
    <2>6. f[n + 1] = WithCue(f[n], ci)
      BY <1>8 DEF ci
    <2>7. /\ f[n + 1].end = u + CueDurMS
          /\ f[n + 1].samples
               = Append(Filled(f[n], u), [start |-> u, end |-> u + CueDurMS, cue |-> TRUE])
      BY <2>3, <2>6 DEF WithCue
    <2>8. u + CueDurMS \in Int /\ u + CueDurMS <= u + M
      BY <1>1, <2>1
    <2> QED BY <2>2, <2>5, <2>7, <2>8 DEF At
  <1>11. k \in S
    <2> HIDE DEF S
    <2>1. \A n \in 0 .. k : n \in S
      BY <1>9, <1>10, LoopInduction, Zenon
    <2> QED BY <2>1
  <1>12. Tile(WvttSamples(g), GroupStart(g), GroupEnd(g))
    <2>1. At(k)
      BY <1>11
    <2>2. GroupEnd(g) \in Int /\ f[k].end <= GroupEnd(g)
      BY <1>1, <1>3, <2>1
    <2> QED BY <1>7, <2>1, <2>2, FilledTiles
  <1>13. GroupStart(g) # GroupEnd(g)
    BY <1>1, <1>2, UnitAssumption DEF GroupEnd
  <1> QED BY <1>12, <1>13 DEF Tile

\* A cue is shown in the second it names.
LEMMA CueInItsSecond ==
  ASSUME NEW u \in Nat, NEW ms \in u * MsPerSecond .. (u * MsPerSecond + CueDurMS - 1)
  PROVE  ms \div MsPerSecond = u
  <1> DEFINE M == MsPerSecond  q == ms \div M  r == ms % M
  <1>1. M \in Nat \ {0} /\ CueDurMS \in 1 .. M
    BY UnitAssumption, CueAssumption
  <1>2. u * M \in Nat /\ (u + 1) * M = u * M + M
    BY <1>1
  <1>3. ms \in Nat /\ u * M <= ms /\ ms < u * M + M
    BY <1>1, <1>2
  <1>4. q \in Nat /\ r \in 0 .. M - 1 /\ ms = q * M + r
    BY <1>1, <1>3, DivSpec
  <1> HIDE DEF q, r, M
  <1>5. (q + 1) * M = q * M + M /\ q * M \in Nat
    BY <1>1, <1>4
  <1>6. ASSUME q + 1 <= u PROVE FALSE
    <2>1. (q + 1) * M <= u * M
      BY <1>1, <1>4, <1>6, MulMono
    <2> QED BY <1>1, <1>2, <1>3, <1>4, <1>5, <2>1
  <1>7. ASSUME u + 1 <= q PROVE FALSE
    <2>1. (u + 1) * M <= q * M
      BY <1>1, <1>4, <1>7, MulMono
    <2> QED BY <1>1, <1>2, <1>3, <1>4, <1>5, <2>1
  <1> QED BY <1>4, <1>6, <1>7 DEF q, M

\* createSubtitlesWvttMediaData: whatever the length of the cues and of the groups,
\* the samples of a subtitle group fill it, and each cue is shown in its second.
THEOREM CuesFillTheGroup == Spec => []CuesTileTheGroup
  <1>1. TypeOK => CuesTileTheGroup
    <2> SUFFICES ASSUME TypeOK PROVE CuesTileTheGroup
      OBVIOUS
    <2> DEFINE g == last.first  k == GroupDurMS \div MsPerSecond
               s == WvttSamples(g)  cues == CalcCueItvls(g)
    <2>1. g \in Nat
      BY DEF TypeOK
    <2>2. k \in Nat \ {0} /\ GroupDurMS = k * MsPerSecond
      <3> DEFINE r == GroupDurMS % MsPerSecond
      <3>1. k \in Nat /\ GroupDurMS = k * MsPerSecond + r
        BY UnitAssumption, DivSpec
      <3>2. r = 0
        BY CueAssumption
      <3> HIDE DEF k, r
      <3> QED BY <3>1, <3>2, UnitAssumption
    <2> HIDE DEF g, k
    <2>3. Tile(s, GroupStart(g), GroupEnd(g)) /\ s # <<>>
      BY <2>1, <2>2, WvttTiles
    <2>4. cues = [i \in 1 .. k |-> [utcS |-> g * k + i - 1, start |-> (g * k + i - 1) * MsPerSecond,
                                    end |-> (g * k + i - 1) * MsPerSecond + CueDurMS]]
      BY <2>1, <2>2, CuesOfGroup
    <2> HIDE DEF s, cues
    <2>5. /\ Head(s).start = GroupStart(g) /\ Last(s).end = GroupEnd(g)
          /\ \A i \in DOMAIN s : s[i].start < s[i].end
          /\ \A i \in 1 .. Len(s) - 1 : s[i].end = s[i + 1].start
      <3>1. s \in Seq(SampleType) /\ DOMAIN s = 1 .. Len(s) /\ Head(s) = s[1] /\ Last(s) = s[Len(s)]
        BY <2>3 DEF Tile, Last
      <3> QED BY <2>3, <3>1 DEF Tile
    <2>6. ASSUME NEW i \in DOMAIN cues, NEW ms \in cues[i].start .. cues[i].end - 1
          PROVE  ms \div MsPerSecond = cues[i].utcS
      <3> DEFINE u == g * k + i - 1
      <3>1. i \in 1 .. k
        BY <2>4, <2>6
      <3>2. u \in Nat
        <4>1. g * k \in Nat
          BY <2>1, <2>2
        <4> QED BY <2>2, <3>1, <4>1
      <3>3. cues[i].utcS = u /\ cues[i].start = u * MsPerSecond
            /\ cues[i].end = u * MsPerSecond + CueDurMS
        BY <2>4, <3>1
      <3> HIDE DEF u
      <3>4. ms \in u * MsPerSecond .. (u * MsPerSecond + CueDurMS - 1)
        <4>1. u * MsPerSecond \in Nat /\ CueDurMS \in Nat
          BY <3>2, UnitAssumption, CueAssumption
        <4> QED BY <2>6, <3>3, <4>1
      <3> QED BY <3>2, <3>3, <3>4, CueInItsSecond
    <2> QED BY <2>3, <2>5, <2>6 DEF CuesTileTheGroup, g, s, cues
  <1> QED BY TypeCorrect, <1>1, PTL
=============================================================================
