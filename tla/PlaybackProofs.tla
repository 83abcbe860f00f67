---------------------------- MODULE PlaybackProofs ----------------------------
(***************************************************************************)
(* Proofs about Playback, for every chain, every set of units and every    *)
(* sequence of arrivals, and about PlaybackStreams, for every sequence of  *)
(* groups and every schedule of its streams.                               *)
(***************************************************************************)
EXTENDS PlaybackStreams, LoopLemmas, FiniteSetTheorems

-----------------------------------------------------------------------------
(* The operators that choose a minimum *)

\* LowestLayer picks the lowest layer received of a unit that has one.
LEMMA LowestLayerSpec ==
  ASSUME NEW u \in UnitType, NEW i \in Layers, u.layers[i] # None
  PROVE  /\ LowestLayer(u) \in Layers
         /\ u.layers[LowestLayer(u)] # None
         /\ \A j \in Layers : u.layers[j] # None => LowestLayer(u) <= j
<1> DEFINE S == {j \in Layers : u.layers[j] # None}
<1>1. S \subseteq Nat /\ S # {}
  BY ChainAssumption DEF Layers
<1>2. PICK m \in S : \A n \in S : m <= n
  BY <1>1, LeastNatural, Zenon
<1>3. \E j \in Layers : u.layers[j] # None /\ \A n \in Layers : u.layers[n] # None => j <= n
  BY <1>2
<1> QED BY <1>3 DEF LowestLayer

\* A unit with a layer has a natural timestamp, that of the base if present.
LEMMA TimestampSpec ==
  ASSUME NEW u \in UnitType, NEW i \in Layers, u.layers[i] # None
  PROVE  /\ Timestamp(u) \in Nat
         /\ u.layers[0] # None => Timestamp(u) = u.layers[0].ts
<1> DEFINE m == LowestLayer(u)
<1>1. /\ m \in Layers
      /\ u.layers[m] # None
      /\ \A j \in Layers : u.layers[j] # None => m <= j
  BY LowestLayerSpec
<1> HIDE DEF m
<1>2. u.layers[m] \in Content
  BY <1>1 DEF UnitType
<1>3. u.layers[m].ts \in Nat
  BY <1>2 DEF Content
<1>4. u.layers[0] # None => m = 0
  BY <1>1, ChainAssumption DEF Layers
<1> QED BY <1>3, <1>4 DEF Timestamp, m

\* CompletePrefix is the highest layer the unit is complete up to.
LEMMA CompletePrefixSpec ==
  ASSUME NEW u \in UnitType
  PROVE  /\ CompletePrefix(u) \in -1 .. Target
         /\ CompletePrefix(u) >= 0 => CompleteUpTo(u, CompletePrefix(u))
         /\ \A i \in CompletePrefix(u) + 1 .. Target : ~CompleteUpTo(u, i)
<1> DEFINE S == {i \in 0 .. Target : CompleteUpTo(u, i)}
<1>0. Target \in Nat
  BY ChainAssumption DEF Target
<1>1. \E n \in -1 .. Target : /\ n >= 0 => CompleteUpTo(u, n)
                             /\ \A i \in n + 1 .. Target : ~CompleteUpTo(u, i)
  <2>1. CASE S = {}
    <3>1. \A i \in -1 + 1 .. Target : ~CompleteUpTo(u, i)
      BY <2>1
    <3>2. -1 \in -1 .. Target /\ ~(-1 >= 0)
      BY <1>0
    <3> QED BY <3>1, <3>2
  <2>2. CASE S # {}
    <3>1. S \subseteq 0 .. Target
      OBVIOUS
    <3>2. PICK m \in S : \A n \in S : n <= m
      BY <1>0, <2>2, <3>1, GreatestNatural, Zenon
    <3>3. m \in -1 .. Target /\ CompleteUpTo(u, m)
      BY <1>0
    <3>4. \A i \in m + 1 .. Target : ~CompleteUpTo(u, i)
      <4> TAKE i \in m + 1 .. Target
      <4>1. i \in 0 .. Target /\ ~(i <= m)
        BY <1>0
      <4> QED BY <3>2, <4>1
    <3> QED BY <3>3, <3>4
  <2> QED BY <2>1, <2>2
<1> QED BY <1>1, Zenon DEF CompletePrefix

\* A layer below a complete one is complete.
LEMMA CompleteDownwards ==
  ASSUME NEW u \in UnitType, NEW i \in Layers, NEW j \in 0 .. i, CompleteUpTo(u, i)
  PROVE  CompleteUpTo(u, j)
  BY ChainAssumption DEF CompleteUpTo, UnitType, Layers

\* An independent unit is complete up to its base at least.
LEMMA IndependentHasPrefix ==
  ASSUME NEW u \in UnitType, Independent(u)
  PROVE  CompletePrefix(u) \in Layers
<1>1. CompleteUpTo(u, 0)
  BY DEF Independent
<1>2. 0 \in 0 .. Target /\ Target \in Nat
  BY ChainAssumption DEF Target
<1>3. CompletePrefix(u) # -1
  BY <1>1, <1>2, CompletePrefixSpec
<1> QED BY <1>2, <1>3, CompletePrefixSpec DEF Layers, Target

\* Earliest picks an element of the set that no other comes before.
LEMMA EarliestSpec ==
  ASSUME NEW p \in [Keys -> UnitType], NEW S, S \subseteq Units(p), S # {}
  PROVE  /\ Earliest(p, S) \in S
         /\ \A j \in S : NotAfter(p, Earliest(p, S), j)
<1>1. \A k \in S : k \in Keys /\ Timestamp(p[k]) \in Nat /\ k[1] \in Nat /\ k[2] \in Nat
                  /\ k = <<k[1], k[2]>>
  <2> TAKE k \in S
  <2>1. k \in Keys /\ p[k] \in UnitType /\ \E i \in Layers : p[k].layers[i] # None
    BY DEF Units
  <2>2. Timestamp(p[k]) \in Nat
    BY <2>1, TimestampSpec
  <2> QED BY <2>1, <2>2, KeysAssumption
<1> DEFINE T1 == {Timestamp(p[k]) : k \in S}
<1>2. PICK t \in T1 : \A x \in T1 : t <= x
  <2>1. T1 \subseteq Nat /\ T1 # {}
    BY <1>1
  <2> QED BY <2>1, LeastNatural, Zenon
<1> DEFINE S2 == {k \in S : Timestamp(p[k]) = t}
           T2 == {k[1] : k \in S2}
<1>3. PICK g \in T2 : \A x \in T2 : g <= x
  <2>1. T2 \subseteq Nat /\ T2 # {}
    BY <1>1
  <2> QED BY <2>1, LeastNatural, Zenon
<1> DEFINE S3 == {k \in S2 : k[1] = g}
           T3 == {k[2] : k \in S3}
<1>4. PICK o \in T3 : \A x \in T3 : o <= x
  <2>1. T3 \subseteq Nat /\ T3 # {}
    BY <1>1
  <2> QED BY <2>1, LeastNatural, Zenon
<1>5. PICK k \in S : Timestamp(p[k]) = t /\ k[1] = g /\ k[2] = o
  OBVIOUS
<1>6. \A j \in S : NotAfter(p, k, j)
  <2> TAKE j \in S
  <2>1. t <= Timestamp(p[j])
    BY <1>2
  <2>2. Timestamp(p[j]) = t => g <= j[1]
    BY <1>3
  <2>3. Timestamp(p[j]) = t /\ j[1] = g => o <= j[2]
    BY <1>4
  <2>4. Timestamp(p[j]) = t /\ j[1] = g /\ j[2] = o => j = k
    BY <1>1, <1>5
  <2> HIDE DEF T1, T2, T3, S2, S3
  <2> QED BY <1>1, <1>5, <2>1, <2>2, <2>3, <2>4 DEF NotAfter, Before
<1>7. \E e \in S : \A j \in S : NotAfter(p, e, j)
  BY <1>6
<1> QED BY <1>7, Zenon DEF Earliest

-----------------------------------------------------------------------------
(* What the helpers of the actions return *)

\* The empty unit, deletion, insertion and trimming keep the type of pending.
LEMMA PendingTypes ==
  ASSUME NEW p \in [Keys -> UnitType]
  PROVE  /\ NoUnit \in UnitType
         /\ \A S : Delete(p, S) \in [Keys -> UnitType]
         /\ TrimPending(p) \in [Keys -> UnitType]
         /\ \A k \in Keys, i \in Layers, c \in Content : WithLayer(p[k], i, c) \in UnitType
<1>1. NoUnit \in UnitType
  BY ChainAssumption DEF NoUnit, UnitType
<1>2. \A S : Delete(p, S) \in [Keys -> UnitType]
  BY <1>1 DEF Delete
<1>3. TrimPending(p) \in [Keys -> UnitType]
  BY <1>2 DEF TrimPending
<1>4. ASSUME NEW k \in Keys, NEW i \in Layers, NEW c \in Content
      PROVE  WithLayer(p[k], i, c) \in UnitType
  <2>1. p[k] \in UnitType /\ i \in 0 .. NumLayers
    BY ChainAssumption DEF Layers
  <2> QED BY <2>1 DEF WithLayer, UnitType
<1> QED BY <1>1, <1>2, <1>3, <1>4

\* The unit tryStart takes: an independent one, complete up to a layer.
LEMMA StartUnitSpec ==
  ASSUME NEW p \in [Keys -> UnitType], StartCandidates(p) # {}
  PROVE  /\ StartUnit(p) \in Units(p)
         /\ p[StartUnit(p)] \in UnitType
         /\ Independent(p[StartUnit(p)])
         /\ CompletePrefix(p[StartUnit(p)]) \in Layers
         /\ CompleteUpTo(p[StartUnit(p)], CompletePrefix(p[StartUnit(p)]))
         /\ p[StartUnit(p)].layers[0].ts \in Nat
<1>1. StartCandidates(p) \subseteq Units(p)
  BY DEF StartCandidates
<1>2. StartUnit(p) \in StartCandidates(p)
  BY <1>1, EarliestSpec DEF StartUnit
<1> DEFINE u == p[StartUnit(p)]
<1>3. StartUnit(p) \in Units(p) /\ u \in UnitType /\ Independent(u)
  BY <1>2 DEF StartCandidates, Units
<1> HIDE DEF u
<1>4. CompletePrefix(u) \in Layers
  BY <1>3, IndependentHasPrefix
<1>5. CompleteUpTo(u, CompletePrefix(u))
  BY <1>3, <1>4, CompletePrefixSpec, ChainAssumption DEF Layers
<1>6. u.layers[0] \in Content
  BY <1>5, <1>3, ChainAssumption DEF CompleteUpTo, UnitType, Layers
<1>7. u.layers[0].ts \in Nat
  BY <1>6 DEF Content
<1> QED BY <1>3, <1>4, <1>5, <1>7 DEF u

\* The unit nextUnit returns: one later than the unit presented last.
LEMMA NextUnitSpec ==
  ASSUME NEW p \in [Keys -> UnitType], NEW last \in Nat, Upcoming(p, last) # {}
  PROVE  /\ NextUnit(p, last) \in Units(p)
         /\ p[NextUnit(p, last)] \in UnitType
         /\ Timestamp(p[NextUnit(p, last)]) \in Nat
         /\ Timestamp(p[NextUnit(p, last)]) > last
         /\ p[NextUnit(p, last)].layers[0] # None =>
              Timestamp(p[NextUnit(p, last)]) = p[NextUnit(p, last)].layers[0].ts
<1> DEFINE k == NextUnit(p, last)
<1>1. Upcoming(p, last) \subseteq Units(p)
  BY DEF Upcoming
<1>2. k \in Upcoming(p, last)
  BY <1>1, EarliestSpec DEF NextUnit
<1> HIDE DEF k
<1>3. k \in Units(p) /\ k \notin Passed(p, last)
  BY <1>2 DEF Upcoming
<1>4. k \in Keys /\ p[k] \in UnitType /\ \E i \in Layers : p[k].layers[i] # None
  BY <1>3 DEF Units
<1>5. /\ Timestamp(p[k]) \in Nat
      /\ p[k].layers[0] # None => Timestamp(p[k]) = p[k].layers[0].ts
  BY <1>4, TimestampSpec
<1>6. last # None
  BY NoneAssumption
<1>7. Timestamp(p[k]) > last
  BY <1>3, <1>5, <1>6 DEF Passed
<1> QED BY <1>3, <1>4, <1>5, <1>7 DEF k

\* The decoder state after a due unit: the usable layers are again those up
\* to the active one, the unit is complete up to it, and only an independent
\* unit raises it.
LEMMA DecoderAfter ==
  ASSUME NEW u \in UnitType, active \in Layers, valid \in [Layers -> BOOLEAN], ActiveChainValid
  PROVE  /\ ActiveAfter(u) \in -1 .. Target
         /\ ValidAfter(u) \in [Layers -> BOOLEAN]
         /\ \A i \in Layers : ValidAfter(u)[i] <=> i <= ActiveAfter(u)
         /\ ActiveAfter(u) >= 0 => CompleteUpTo(u, ActiveAfter(u))
         /\ ActiveAfter(u) > active => Independent(u)
<1> DEFINE n == CompletePrefix(u)
<1>0. Target \in Nat /\ Layers = 0 .. Target
  BY ChainAssumption DEF Target, Layers
<1>1. /\ n \in -1 .. Target
      /\ n >= 0 => CompleteUpTo(u, n)
  BY CompletePrefixSpec
<1>2. Independent(u) => n \in Layers
  BY IndependentHasPrefix
<1> HIDE DEF n
<1>3. ValidAfter(u) =
        [i \in Layers |->
           \/ valid[i] /\ (i <= n \/ n >= active)
           \/ Independent(u) /\ i <= n]
  BY DEF ValidAfter, n
<1>4. ValidAfter(u) \in [Layers -> BOOLEAN]
  BY <1>3 DEF Independent, CompleteUpTo
<1>5. CASE Independent(u)
  <2>1. ActiveAfter(u) = n
    BY <1>5 DEF ActiveAfter, n
  <2>2. ASSUME NEW i \in Layers PROVE ValidAfter(u)[i] <=> i <= n
    <3>1. ValidAfter(u)[i] <=> \/ valid[i] /\ (i <= n \/ n >= active)
                               \/ i <= n
      BY <1>3, <1>5
    <3>2. valid[i] <=> i <= active
      BY DEF ActiveChainValid
    <3> QED BY <3>1, <3>2, <1>0, <1>1
  <2> QED BY <1>1, <1>2, <1>4, <1>5, <2>1, <2>2
<1>6. CASE ~Independent(u)
  <2> DEFINE P == {i \in Layers : i <= n /\ i <= active /\ ValidAfter(u)[i]}
  <2>1. \A i \in Layers : ValidAfter(u)[i] <=> i <= active /\ (i <= n \/ n >= active)
    BY <1>3, <1>6 DEF ActiveChainValid
  <2>2. P = {i \in Layers : i <= n /\ i <= active}
    BY <2>1
  <2>3. ActiveAfter(u) = IF P = {} THEN -1 ELSE CHOOSE i \in P : \A j \in P : j <= i
    BY <1>6 DEF ActiveAfter, n
  <2>4. CASE n < 0
    <3>1. P = {} /\ n = -1
      BY <2>2, <2>4, <1>0, <1>1
    <3>2. ActiveAfter(u) = -1
      BY <2>3, <3>1
    <3>3. \A i \in Layers : ~ValidAfter(u)[i]
      BY <2>1, <3>1, <1>0
    <3> QED BY <1>0, <1>4, <3>2, <3>3
  <2>5. CASE n >= 0
    <3> DEFINE m == IF n <= active THEN n ELSE active
    <3>1. m \in P /\ (\A j \in P : j <= m) /\ m \in Layers /\ m <= n /\ m <= active
      BY <2>2, <2>5, <1>0, <1>1
    <3>2. \A i \in P : (\A j \in P : j <= i) => i = m
      BY <3>1, <2>2, <1>0, <1>1
    <3> HIDE DEF P, m
    <3>3. ActiveAfter(u) = m
      BY <2>3, <3>1, <3>2
    <3>4. CompleteUpTo(u, m)
      BY <1>0, <1>1, <2>5, <3>1, CompleteDownwards
    <3>5. \A i \in Layers : ValidAfter(u)[i] <=> i <= m
      BY <2>1, <2>5, <3>1, <1>0, <1>1 DEF m
    <3> QED BY <1>0, <1>4, <3>1, <3>3, <3>4, <3>5
  <2> QED BY <2>4, <2>5, <1>0, <1>1
<1> QED BY <1>5, <1>6

-----------------------------------------------------------------------------
(* The inductive invariant *)

\* The part of it that advance(now) reads and writes.
PlayType ==
  /\ pending \in [Keys -> UnitType]
  /\ active \in -1 .. Target
  /\ valid \in [Layers -> BOOLEAN]
  /\ state \in {"starting", "buffering", "playing", "stalled"}
  /\ switchState \in {"stable", "waiting_independent"}
  /\ started \in BOOLEAN
  /\ lastPresented \in Nat \cup {None}
  /\ lastPresentedAt \in Nat \cup {None}
  /\ stallStarted \in Nat \cup {None}
  /\ stallCount \in Nat
  /\ stallDuration \in Nat

PlayInv ==
  /\ PlayType
  /\ ActiveChainValid
  /\ PresentedTogether
  /\ ReportedStateAgrees
  /\ NeverAheadOfTarget
  /\ StallAfterLast

\* Neither the last presentation nor the start of the stall is after t.
NotAfterTime(t) ==
  /\ lastPresentedAt # None => lastPresentedAt <= t
  /\ stallStarted # None => stallStarted <= t

IInv == TypeOK /\ PlayInv /\ TimesInOrder

\* Starting or restarting on a due candidate.
LEMMA StartPlayingStep ==
  ASSUME PlayInv, NEW now \in Nat, NotAfterTime(now), active < 0, StartPlaying(now)
  PROVE  PlayInv' /\ NotAfterTime(now)'
<1> DEFINE k == StartUnit(pending)
           n == CompletePrefix(pending[k])
<1>0. Target \in Nat /\ Layers = 0 .. Target /\ TargetLatency \in Nat
  BY ChainAssumption, LatencyAssumption DEF Target, Layers
<1>1. pending \in [Keys -> UnitType] /\ StartCandidates(pending) # {}
  BY DEF PlayInv, PlayType, StartPlaying
<1>2. n \in Layers /\ pending[k].layers[0].ts \in Nat
  BY <1>1, StartUnitSpec
<1>3. /\ now >= pending[k].layers[0].ts + TargetLatency
      /\ valid' = [i \in Layers |-> i <= n \/ valid[i]]
      /\ active' = n
      /\ pending' = Delete(pending, {k})
      /\ stallCount' = stallCount
      /\ lastPresented' = pending[k].layers[0].ts
      /\ lastPresentedAt' = now
      /\ started' = TRUE
      /\ state' = "playing"
      /\ switchState' = IF n < Target THEN "waiting_independent" ELSE "stable"
      /\ stallStarted' = None
      /\ stallDuration' = IF stallStarted = None THEN stallDuration
                          ELSE stallDuration + (now - stallStarted)
  BY DEF StartPlaying, StartDeadline, LeaveStall, Present
<1> HIDE DEF k, n
<1>4. \A i \in Layers : valid[i] = FALSE
  BY <1>0 DEF PlayInv, PlayType, ActiveChainValid
<1>5. valid' \in [Layers -> BOOLEAN] /\ \A i \in Layers : valid'[i] <=> i <= active'
  BY <1>3, <1>4
<1>6. stallDuration' \in Nat
  BY <1>3, NoneAssumption DEF PlayInv, PlayType, NotAfterTime
<1>7. PlayType'
  BY <1>0, <1>1, <1>2, <1>3, <1>5, <1>6, PendingTypes DEF PlayInv, PlayType
<1>8. ActiveChainValid' /\ PresentedTogether'
  BY <1>2, <1>3, <1>5, NoneAssumption DEF ActiveChainValid, PresentedTogether
<1>9. ReportedStateAgrees'
  BY <1>0, <1>2, <1>3 DEF ReportedStateAgrees
<1>10. NeverAheadOfTarget' /\ NotAfterTime(now)' /\ StallAfterLast'
  BY <1>3 DEF NeverAheadOfTarget, NotAfterTime, StallAfterLast
<1> QED BY <1>7, <1>8, <1>9, <1>10 DEF PlayInv

\* Waiting for a candidate, or for its deadline.
LEMMA WaitStep ==
  ASSUME PlayInv, NEW now \in Nat, NotAfterTime(now), active < 0,
         WaitForDeadline(now) \/ WaitForCandidate(now)
  PROVE  PlayInv' /\ NotAfterTime(now)'
<1>1. UNCHANGED <<pending, active, valid, started, lastPresented, lastPresentedAt, stallDuration>>
  BY DEF WaitForDeadline, WaitForCandidate
<1>2. ActiveChainValid' /\ PresentedTogether' /\ NeverAheadOfTarget'
  BY <1>1 DEF PlayInv, ActiveChainValid, PresentedTogether, NeverAheadOfTarget
<1>3. CASE UNCHANGED <<switchState, stallStarted, stallCount>> /\ state' = "buffering"
  BY <1>1, <1>2, <1>3 DEF PlayInv, PlayType, ReportedStateAgrees, NotAfterTime, StallAfterLast
<1>4. CASE started /\ EnterStall(now) /\ switchState' = "waiting_independent"
  <2>1. /\ state' = "stalled"
        /\ stallStarted' \in {stallStarted, now}
        /\ stallCount' \in {stallCount, stallCount + 1}
    BY <1>4 DEF EnterStall
  <2>2. active \in -1 .. Target /\ Target \in Nat
    BY ChainAssumption DEF PlayInv, PlayType, Target
  <2>3. PlayType' /\ NotAfterTime(now)'
    BY <1>1, <1>4, <2>1 DEF PlayInv, PlayType, NotAfterTime
  <2>4. ReportedStateAgrees'
    BY <1>1, <1>4, <2>1, <2>2, NoneAssumption DEF PlayInv, ReportedStateAgrees
  <2>5. StallAfterLast'
    BY <1>1, <1>4, <2>1 DEF PlayInv, StallAfterLast, NotAfterTime, PresentedTogether
  <2> QED BY <1>2, <2>3, <2>4, <2>5 DEF PlayInv
<1> QED BY <1>3, <1>4 DEF WaitForDeadline, WaitForCandidate

\* A unit is due: it is presented, or the player stalls.
LEMMA DueUnitStep ==
  ASSUME PlayInv, NEW now \in Nat, NotAfterTime(now), active >= 0, DueUnit(now)
  PROVE  PlayInv' /\ NotAfterTime(now)'
<1> DEFINE k == NextUnit(pending, lastPresented)
           u == pending[k]
<1>0. /\ Target \in Nat /\ Layers = 0 .. Target /\ TargetLatency \in Nat
      /\ pending \in [Keys -> UnitType] /\ active \in Layers
      /\ started /\ lastPresented \in Nat /\ lastPresentedAt \in Nat
      /\ state = "playing" /\ stallStarted = None
      /\ stallCount \in Nat /\ stallDuration \in Nat
  BY ChainAssumption, LatencyAssumption
     DEF PlayInv, PlayType, PresentedTogether, ReportedStateAgrees, Target, Layers
<1>1. Upcoming(pending, lastPresented) # {}
  BY DEF DueUnit
<1>2. /\ u \in UnitType
      /\ Timestamp(u) \in Nat /\ Timestamp(u) > lastPresented
      /\ u.layers[0] # None => Timestamp(u) = u.layers[0].ts
  BY <1>0, <1>1, NextUnitSpec
<1>3. /\ ActiveAfter(u) \in -1 .. Target
      /\ ValidAfter(u) \in [Layers -> BOOLEAN]
      /\ \A i \in Layers : ValidAfter(u)[i] <=> i <= ActiveAfter(u)
      /\ ActiveAfter(u) >= 0 => CompleteUpTo(u, ActiveAfter(u))
  BY <1>0, <1>2, DecoderAfter DEF PlayInv, PlayType
<1>4. active' = ActiveAfter(u) /\ valid' = ValidAfter(u)
  BY DEF DueUnit
<1>5. ActiveChainValid'
  BY <1>3, <1>4 DEF ActiveChainValid
<1>6. CASE active' < 0
  <2>1. /\ state' = "stalled" /\ stallCount' = stallCount + 1 /\ stallStarted' = now
        /\ switchState' = "waiting_independent"
        /\ pending' = Delete(pending, Passed(pending, lastPresented))
        /\ UNCHANGED <<started, lastPresented, lastPresentedAt, stallDuration>>
    BY <1>0, <1>6 DEF DueUnit, EnterStall
  <2>2. pending' \in [Keys -> UnitType]
    BY <1>0, <2>1, PendingTypes
  <2>3. PlayType'
    BY <1>0, <1>3, <1>4, <2>1, <2>2 DEF PlayInv, PlayType
  <2>4. PresentedTogether' /\ NeverAheadOfTarget'
    BY <1>6, <2>1, <1>0, <1>3, <1>4 DEF PlayInv, PresentedTogether, NeverAheadOfTarget
  <2>5. ReportedStateAgrees' /\ NotAfterTime(now)'
    BY <1>0, <1>3, <1>4, <1>6, <2>1, NoneAssumption DEF ReportedStateAgrees, NotAfterTime, PlayInv
  <2>6. StallAfterLast'
    BY <1>0, <2>1, NoneAssumption DEF StallAfterLast, NotAfterTime
  <2> QED BY <1>5, <2>3, <2>4, <2>5, <2>6 DEF PlayInv
<1>7. CASE ~(active' < 0)
  <2>1. u.layers[0] # None
    BY <1>3, <1>4, <1>7 DEF CompleteUpTo
  <2>2. /\ lastPresented' = Timestamp(u) /\ lastPresentedAt' = now
        /\ started' = TRUE /\ state' = "playing"
        /\ switchState' = IF active' < Target THEN "waiting_independent" ELSE "stable"
        /\ pending' = Delete(pending, Passed(pending, lastPresented'))
        /\ UNCHANGED <<stallStarted, stallCount, stallDuration>>
    BY <1>2, <1>7, <2>1 DEF DueUnit, Present
  <2>3. now >= PresentationDeadline(Timestamp(u))
    BY DEF DueUnit
  <2>4. now >= lastPresentedAt + (Timestamp(u) - lastPresented)
    BY <1>0, <1>2, <2>3, NoneAssumption DEF PresentationDeadline
  <2>5. pending' \in [Keys -> UnitType]
    BY <1>0, <2>2, PendingTypes
  <2>6. PlayType'
    BY <1>0, <1>2, <1>3, <1>4, <2>2, <2>5 DEF PlayInv, PlayType
  <2>7. PresentedTogether'
    BY <1>2, <2>2, NoneAssumption DEF PresentedTogether
  <2>8. NeverAheadOfTarget'
    <3>1. lastPresentedAt >= lastPresented + TargetLatency
      BY <1>0, NoneAssumption DEF PlayInv, NeverAheadOfTarget
    <3>2. lastPresentedAt' >= lastPresented' + TargetLatency
      BY <1>0, <1>2, <2>2, <2>4, <3>1
    <3> QED BY <3>2 DEF NeverAheadOfTarget
  <2>9. ReportedStateAgrees' /\ NotAfterTime(now)' /\ StallAfterLast'
    BY <1>0, <1>3, <1>4, <1>7, <2>2 DEF ReportedStateAgrees, NotAfterTime, StallAfterLast
  <2> QED BY <1>5, <2>6, <2>7, <2>8, <2>9 DEF PlayInv
<1> QED BY <1>6, <1>7

\* advance(now), with a time that is not behind what it already recorded,
\* preserves the invariant and records nothing later than now.
LEMMA AdvanceStep ==
  ASSUME PlayInv, NEW now \in Nat, NotAfterTime(now), Advance(now)
  PROVE  PlayInv' /\ NotAfterTime(now)'
<1>1. CASE active < 0 /\ TryStart(now)
  BY <1>1, StartPlayingStep, WaitStep DEF TryStart
<1>2. CASE active >= 0 /\ NothingDue(now)
  <2>1. pending' \in [Keys -> UnitType]
    BY <1>2, PendingTypes DEF NothingDue, PlayInv, PlayType
  <2> QED BY <1>2, <2>1 DEF NothingDue, playVars, PlayInv, PlayType, ActiveChainValid,
             PresentedTogether, ReportedStateAgrees, NeverAheadOfTarget, NotAfterTime,
             StallAfterLast
<1>3. CASE active >= 0 /\ DueUnit(now)
  BY <1>3, DueUnitStep
<1> QED BY <1>1, <1>2, <1>3 DEF Advance

\* nextAdvanceDeadline is a time or nothing.
LEMMA DeadlineType ==
  ASSUME PlayInv
  PROVE  NextAdvanceDeadline(pending) \in Nat \cup {None}
<1>0. pending \in [Keys -> UnitType] /\ TargetLatency \in Nat
  BY LatencyAssumption DEF PlayInv, PlayType
<1>1. CASE active >= 0 /\ Upcoming(pending, lastPresented) # {}
  <2>1. lastPresented \in Nat /\ lastPresentedAt \in Nat
    BY <1>1 DEF PlayInv, PlayType, PresentedTogether
  <2> DEFINE t == Timestamp(pending[NextUnit(pending, lastPresented)])
  <2>2. t \in Nat /\ t > lastPresented
    BY <1>0, <1>1, <2>1, NextUnitSpec
  <2>3. NextAdvanceDeadline(pending) = PresentationDeadline(t)
    BY <1>1 DEF NextAdvanceDeadline
  <2> HIDE DEF t
  <2> QED BY <2>1, <2>2, <2>3, NoneAssumption DEF PresentationDeadline
<1>2. CASE ~(active >= 0) /\ StartCandidates(pending) # {}
  BY <1>0, <1>2, StartUnitSpec DEF NextAdvanceDeadline, StartDeadline
<1> QED BY <1>1, <1>2 DEF NextAdvanceDeadline

\* A step of the run goroutine that calls advance at a time between the
\* alarm and the clock, or at the clock.
LEMMA RunnerStep ==
  ASSUME IInv, TimerFires \/ WakeUp
  PROVE  \E now \in Nat : now <= clock /\ NotAfterTime(now) /\ Advance(now)
<1>1. clock \in Nat /\ alarm \in Nat \cup {None}
  BY BoundsAssumption DEF IInv, TypeOK
<1>2. CASE TimerFires
  <2>1. PICK at \in alarm .. clock : Advance(at)
    BY <1>2 DEF TimerFires
  <2>2. alarm \in Nat /\ runner = "select"
    BY <1>1, <1>2 DEF TimerFires
  <2>3. at \in Nat /\ at <= clock /\ alarm <= at
    BY <1>1, <2>2
  <2>4. /\ lastPresentedAt # None => lastPresentedAt <= alarm
        /\ stallStarted # None => stallStarted <= alarm
        /\ lastPresentedAt \in Nat \cup {None} /\ stallStarted \in Nat \cup {None}
    BY <2>2, NoneAssumption DEF IInv, TimesInOrder, TypeOK
  <2>5. NotAfterTime(at)
    BY <2>2, <2>3, <2>4 DEF NotAfterTime
  <2> QED BY <2>1, <2>3, <2>5
<1>3. CASE WakeUp
  <2>1. NotAfterTime(clock)
    BY DEF IInv, TimesInOrder, NotAfterTime
  <2> QED BY <1>1, <1>3, <2>1 DEF WakeUp
<1> QED BY <1>2, <1>3

\* The initial state satisfies the invariant.
LEMMA InitInvariant == Init => IInv
<1> SUFFICES ASSUME Init PROVE IInv
  OBVIOUS
<1> USE ChainAssumption, BoundsAssumption, NoneAssumption DEF Init
<1>1. pending \in [Keys -> UnitType]
  BY DEF NoUnit, UnitType
<1>2. TypeOK /\ PlayType
  <2>1. -1 \in -1 .. Target /\ 0 \in 0 .. MaxReceived /\ 0 \in 0 .. MaxTime
    BY DEF Target
  <2>2. valid \in [Layers -> BOOLEAN] /\ notifying \in [Layers -> BOOLEAN]
    OBVIOUS
  <2>3. PlayType
    BY <1>1, <2>1, <2>2 DEF PlayType
  <2>4. TypeOK
    BY <2>1, <2>2, <2>3 DEF PlayType, TypeOK
  <2> QED BY <2>3, <2>4
<1>3. ActiveChainValid /\ PresentedTogether /\ ReportedStateAgrees
      /\ NeverAheadOfTarget /\ StallAfterLast /\ TimesInOrder
  BY DEF ActiveChainValid, PresentedTogether, ReportedStateAgrees,
         NeverAheadOfTarget, StallAfterLast, TimesInOrder, Layers, Target
<1> QED BY <1>2, <1>3 DEF IInv, PlayInv

\* Every step preserves it.
LEMMA StepInvariant == IInv /\ [Next]_vars => IInv'
<1> SUFFICES ASSUME IInv, [Next]_vars PROVE IInv'
  OBVIOUS
<1>0. clock \in Nat /\ MaxTime \in Nat /\ MaxReceived \in Nat
  BY BoundsAssumption DEF IInv, TypeOK
<1> DEFINE SamePlay == UNCHANGED playVars /\ pending' \in [Keys -> UnitType]
<1>1. SamePlay => PlayInv'
  BY DEF IInv, PlayInv, PlayType, playVars, ActiveChainValid, PresentedTogether,
         ReportedStateAgrees, NeverAheadOfTarget, StallAfterLast
<1>2. ASSUME NEW i \in Layers, CallAddObject(i), pending' \in [Keys -> UnitType]
      PROVE  IInv'
  <2>1. PlayInv' /\ TimesInOrder'
    BY <1>1, <1>2 DEF CallAddObject, playVars, IInv, TimesInOrder
  <2>2. TypeOK'
    BY <1>0, <1>2 DEF CallAddObject, playVars, IInv, TypeOK
  <2> QED BY <2>1, <2>2 DEF IInv
<1>3. ASSUME NEW i \in Layers, NEW k \in Keys, NEW c \in Contents[k], AddObject(i, k, c)
      PROVE  IInv'
  <2>1. pending \in [Keys -> UnitType] /\ c \in Content
    BY ContentsAssumption DEF IInv, TypeOK
  <2>2. [pending EXCEPT ![k] = WithLayer(pending[k], i, c)] \in [Keys -> UnitType]
    BY <2>1, PendingTypes
  <2>3. pending' \in [Keys -> UnitType]
    BY <1>3, <2>2, PendingTypes DEF AddObject
  <2> QED BY <1>2, <1>3, <2>3 DEF AddObject
<1>4. ASSUME NEW i \in Layers, DropObject(i) PROVE IInv'
  BY <1>2, <1>4 DEF DropObject, IInv, TypeOK
<1>5. ASSUME NEW i \in Layers, NotifyPlayback(i) PROVE IInv'
  <2>1. PlayInv' /\ TimesInOrder'
    BY <1>1, <1>5 DEF NotifyPlayback, playVars, IInv, TimesInOrder, TypeOK
  <2>2. TypeOK'
    BY <1>5 DEF NotifyPlayback, playVars, IInv, TypeOK
  <2> QED BY <2>1, <2>2 DEF IInv
<1>6. CASE TimerFires \/ WakeUp
  <2>1. PICK now \in Nat : now <= clock /\ NotAfterTime(now) /\ Advance(now)
    BY <1>6, RunnerStep
  <2>2. PlayInv' /\ NotAfterTime(now)'
    BY <2>1, AdvanceStep DEF IInv
  <2>3. /\ runner' = "schedule" /\ clock' = clock
        /\ notifying' = notifying /\ received' = received
        /\ wake' \in {wake, FALSE} /\ alarm' \in {alarm, None}
    BY <1>6 DEF TimerFires, WakeUp
  <2>4. TypeOK'
    BY <2>2, <2>3 DEF PlayInv, PlayType, IInv, TypeOK
  <2>5. TimesInOrder'
    BY <1>0, <2>1, <2>2, <2>3 DEF NotAfterTime, TimesInOrder, PlayInv, PlayType
  <2> QED BY <2>2, <2>4, <2>5 DEF IInv
<1>7. CASE Schedule
  <2>1. alarm' \in Nat \cup {None}
    BY <1>7, DeadlineType DEF IInv, Schedule
  <2>2. pending' \in [Keys -> UnitType]
    BY <1>7, PendingTypes DEF Schedule, IInv, TypeOK
  <2>3. PlayInv'
    BY <1>1, <1>7, <2>2 DEF Schedule
  <2>4. TypeOK'
    BY <1>7, <2>1, <2>2 DEF Schedule, playVars, IInv, TypeOK
  <2>5. TimesInOrder'
    BY <1>7 DEF Schedule, playVars, IInv, TimesInOrder
  <2> QED BY <2>3, <2>4, <2>5 DEF IInv
<1>8. CASE Arm
  <2>1. alarm' \in Nat \cup {None} /\ (alarm' # None => alarm' >= clock)
    BY <1>0, <1>8, NoneAssumption DEF Arm, IInv, TypeOK
  <2>2. PlayInv'
    BY <1>1, <1>8 DEF Arm, IInv, TypeOK
  <2>3. TypeOK'
    BY <1>8, <2>1 DEF Arm, playVars, IInv, TypeOK
  <2>4. TimesInOrder'
    BY <1>0, <1>8, <2>1 DEF Arm, playVars, IInv, TimesInOrder, TypeOK
  <2> QED BY <2>2, <2>3, <2>4 DEF IInv
<1>9. CASE Cancel
  BY <1>1, <1>9 DEF Cancel, playVars, IInv, TypeOK, TimesInOrder
<1>10. CASE Tick
  <2>1. PlayInv'
    BY <1>1, <1>10 DEF Tick, IInv, TypeOK
  <2>2. TypeOK' /\ TimesInOrder'
    BY <1>0, <1>10 DEF Tick, playVars, IInv, TypeOK, TimesInOrder
  <2> QED BY <2>1, <2>2 DEF IInv
<1>11. CASE UNCHANGED vars
  BY <1>1, <1>11 DEF vars, playVars, IInv, TypeOK, TimesInOrder
<1> QED BY <1>3, <1>4, <1>5, <1>6, <1>7, <1>8, <1>9, <1>10, <1>11 DEF Next, Internal

\* The invariant holds in every reachable state.
THEOREM Invariance == Spec => []IInv
  BY InitInvariant, StepInvariant, PTL DEF Spec

-----------------------------------------------------------------------------
(* The theorems about the player *)

\* Type correctness of the player, whatever arrives.
THEOREM TypeCorrect == Spec => []TypeOK
<1>1. IInv => TypeOK
  BY DEF IInv
<1> QED BY <1>1, Invariance, PTL

\* The usable layers are always exactly those up to the active one.
THEOREM DecoderStateConsistent == Spec => []ActiveChainValid
<1>1. IInv => ActiveChainValid
  BY DEF IInv, PlayInv
<1> QED BY <1>1, Invariance, PTL

\* The reported state, stall and switch state follow the decoder.
THEOREM ReportConsistent == Spec => []ReportedStateAgrees
<1>1. IInv => ReportedStateAgrees
  BY DEF IInv, PlayInv
<1> QED BY <1>1, Invariance, PTL

\* No unit is presented ahead of the target latency.
THEOREM LatencyFloor == Spec => []NeverAheadOfTarget
<1>1. IInv => NeverAheadOfTarget
  BY DEF IInv, PlayInv
<1> QED BY <1>1, Invariance, PTL

\* Only the run goroutine presents, from within advance.
LEMMA PresentsInAdvance ==
  ASSUME IInv, [Next]_vars, Presents
  PROVE  \E now \in Nat : NotAfterTime(now) /\ Advance(now)
<1>1. ~UNCHANGED <<lastPresented, lastPresentedAt>>
  BY DEF Presents
<1>2. TimerFires \/ WakeUp
  BY <1>1 DEF Next, Internal, vars, playVars, AddObject, CallAddObject, DropObject,
              NotifyPlayback, Schedule, Arm, Cancel, Tick
<1> QED BY <1>2, RunnerStep

\* What a presenting step of advance does, in one place.
LEMMA PresentingStep ==
  ASSUME PlayInv, NEW now \in Nat, NotAfterTime(now), Advance(now), Presents
  PROVE  \E k \in Units(pending) :
           /\ pending'[k] = NoUnit
           /\ CompleteUpTo(pending[k], active')
           /\ lastPresented' = pending[k].layers[0].ts
           /\ active' > active => Independent(pending[k])
           /\ active >= 0 =>
                /\ lastPresented' > lastPresented
                /\ now >= lastPresentedAt + (lastPresented' - lastPresented)
           /\ lastPresentedAt' = now
<1>0. /\ pending \in [Keys -> UnitType] /\ Target \in Nat /\ Layers = 0 .. Target
      /\ active \in -1 .. Target
  BY ChainAssumption DEF PlayInv, PlayType, Target, Layers
<1>1. CASE active < 0 /\ StartPlaying(now)
  <2> DEFINE k == StartUnit(pending)
  <2>1. /\ k \in Units(pending) /\ Independent(pending[k])
        /\ CompleteUpTo(pending[k], CompletePrefix(pending[k]))
    BY <1>0, <1>1, StartUnitSpec DEF StartPlaying
  <2>2. /\ active' = CompletePrefix(pending[k])
        /\ pending' = Delete(pending, {k})
        /\ lastPresented' = pending[k].layers[0].ts
        /\ lastPresentedAt' = now
    BY <1>1 DEF StartPlaying, Present
  <2> HIDE DEF k
  <2>3. pending'[k] = NoUnit
    BY <2>1, <2>2 DEF Delete, Units
  <2> QED BY <1>0, <1>1, <2>1, <2>2, <2>3
<1>2. CASE active >= 0 /\ DueUnit(now)
  <2> DEFINE k == NextUnit(pending, lastPresented)
  <2>1. lastPresented \in Nat /\ lastPresentedAt \in Nat
    BY <1>2 DEF PlayInv, PlayType, PresentedTogether
  <2>2. /\ k \in Units(pending) /\ pending[k] \in UnitType
        /\ Timestamp(pending[k]) \in Nat
        /\ Timestamp(pending[k]) > lastPresented
        /\ pending[k].layers[0] # None => Timestamp(pending[k]) = pending[k].layers[0].ts
    BY <1>0, <1>2, <2>1, NextUnitSpec DEF DueUnit
  <2>3. /\ ActiveAfter(pending[k]) \in -1 .. Target
        /\ ActiveAfter(pending[k]) >= 0 => CompleteUpTo(pending[k], ActiveAfter(pending[k]))
        /\ ActiveAfter(pending[k]) > active => Independent(pending[k])
    BY <1>0, <1>2, <2>2, DecoderAfter DEF PlayInv, PlayType
  <2>4. active' = ActiveAfter(pending[k]) /\ ~(active' < 0)
    BY <1>2 DEF DueUnit, Presents
  <2>5. CompleteUpTo(pending[k], active') /\ pending[k].layers[0] # None
    BY <1>0, <2>3, <2>4 DEF CompleteUpTo
  <2>6. /\ lastPresented' = pending[k].layers[0].ts
        /\ lastPresentedAt' = now
        /\ pending' = Delete(pending, Passed(pending, lastPresented'))
    BY <1>2, <2>4 DEF DueUnit, Present
  <2>7. now >= PresentationDeadline(Timestamp(pending[k]))
    BY <1>2 DEF DueUnit
  <2> HIDE DEF k
  <2>8. lastPresented' = Timestamp(pending[k]) /\ lastPresented' # None
    BY <2>2, <2>5, <2>6, NoneAssumption
  <2>9. now >= lastPresentedAt + (lastPresented' - lastPresented)
    BY <2>1, <2>2, <2>7, <2>8, NoneAssumption DEF PresentationDeadline
  <2>10. k \in Passed(pending, lastPresented')
    BY <2>2, <2>8 DEF Passed
  <2>11. pending'[k] = NoUnit
    BY <2>2, <2>6, <2>10 DEF Delete, Units
  <2> QED BY <2>2, <2>3, <2>4, <2>5, <2>6, <2>8, <2>9, <2>11
<1>3. CASE UNCHANGED <<lastPresented, lastPresentedAt>>
  BY <1>3 DEF Presents
<1> QED BY <1>1, <1>2, <1>3
        DEF Advance, TryStart, WaitForDeadline, WaitForCandidate, NothingDue, playVars

\* Presentation order and pace while playing.
THEOREM PlaysAtFixedRate == Spec => FixedRate
<1>1. IInv /\ [Next]_vars =>
        [Presents /\ active >= 0 =>
           /\ lastPresented' > lastPresented
           /\ lastPresentedAt' - lastPresentedAt >= lastPresented' - lastPresented]_vars
  <2> SUFFICES ASSUME IInv, [Next]_vars, Presents, active >= 0
               PROVE  /\ lastPresented' > lastPresented
                      /\ lastPresentedAt' - lastPresentedAt >= lastPresented' - lastPresented
    OBVIOUS
  <2>1. PICK now \in Nat : NotAfterTime(now) /\ Advance(now)
    BY PresentsInAdvance
  <2>2. /\ lastPresented' > lastPresented
        /\ now >= lastPresentedAt + (lastPresented' - lastPresented)
        /\ lastPresentedAt' = now
    BY <2>1, PresentingStep DEF IInv
  <2>3. lastPresented \in Nat /\ lastPresentedAt \in Nat
    BY DEF IInv, PlayInv, PlayType, PresentedTogether
  <2>4. PlayInv'
    BY <2>1, AdvanceStep DEF IInv
  <2>5. lastPresented' \in Nat
    BY <2>2, <2>4, NoneAssumption DEF PlayInv, PlayType, PresentedTogether
  <2>6. \A a, x, y \in Nat : now >= a + (y - x) => now - a >= y - x
    OBVIOUS
  <2>7. now - lastPresentedAt >= lastPresented' - lastPresented
    BY <2>2, <2>3, <2>5, <2>6
  <2> QED BY <2>2, <2>7
<1> QED BY <1>1, Invariance, PTL DEF Spec, FixedRate

\* What is presented is complete, and upswitches happen at independent units.
THEOREM NoDeltaUpswitch == Spec => UpswitchOnlyAtIndependent
<1>1. IInv /\ [Next]_vars =>
        [Presents =>
           \E k \in Units(pending) :
             /\ pending'[k] = NoUnit
             /\ CompleteUpTo(pending[k], active')
             /\ lastPresented' = pending[k].layers[0].ts
             /\ active' > active => Independent(pending[k])]_vars
  <2> SUFFICES ASSUME IInv, [Next]_vars, Presents
               PROVE  \E k \in Units(pending) :
                        /\ pending'[k] = NoUnit
                        /\ CompleteUpTo(pending[k], active')
                        /\ lastPresented' = pending[k].layers[0].ts
                        /\ active' > active => Independent(pending[k])
    OBVIOUS
  <2>1. PICK now \in Nat : NotAfterTime(now) /\ Advance(now)
    BY PresentsInAdvance
  <2> QED BY <2>1, PresentingStep DEF IInv
<1> QED BY <1>1, Invariance, PTL DEF Spec, UpswitchOnlyAtIndependent

\* What a step of advance adds to the stall time.
LEMMA ChargedStep ==
  ASSUME PlayInv, NEW now \in Nat, NotAfterTime(now), Advance(now)
  PROVE  IF started /\ active < 0 /\ active' >= 0
           THEN stallDuration' - stallDuration \in 0 .. lastPresentedAt' - lastPresentedAt
           ELSE stallDuration' - stallDuration = 0
<1>0. active \in -1 .. Target /\ Target \in Nat /\ stallDuration \in Nat
  BY ChainAssumption DEF PlayInv, PlayType, Target
<1>1. CASE active < 0 /\ StartPlaying(now)
  <2>1. /\ lastPresentedAt' = now
        /\ stallDuration' = IF stallStarted = None THEN stallDuration
                            ELSE stallDuration + (now - stallStarted)
    BY <1>1 DEF StartPlaying, Present, LeaveStall
  <2>2. active' >= 0
    BY <1>1, StartPlayingStep, <2>1, NoneAssumption, <1>0, StartUnitSpec
       DEF StartPlaying, PlayInv, PlayType, Layers
  <2>3. CASE started
    <3>1. /\ stallStarted \in Nat /\ lastPresentedAt \in Nat
          /\ lastPresentedAt <= stallStarted /\ stallStarted <= now
      BY <1>0, <1>1, <2>3, NoneAssumption
         DEF PlayInv, PlayType, ReportedStateAgrees, PresentedTogether, StallAfterLast, NotAfterTime
    <3>2. stallDuration' - stallDuration = now - stallStarted
      BY <1>0, <2>1, <3>1, NoneAssumption
    <3> QED BY <1>1, <2>1, <2>2, <2>3, <3>1, <3>2
  <2>4. CASE ~started
    <3>1. stallStarted = None
      BY <2>4 DEF PlayInv, ReportedStateAgrees
    <3> QED BY <1>0, <2>1, <2>4, <3>1
  <2> QED BY <2>3, <2>4
<1>2. CASE stallDuration' = stallDuration /\ ~(active < 0 /\ active' >= 0)
  BY <1>0, <1>2
<1>3. CASE active < 0 /\ (WaitForDeadline(now) \/ WaitForCandidate(now))
  BY <1>0, <1>2, <1>3 DEF WaitForDeadline, WaitForCandidate
<1>4. CASE active >= 0 /\ (NothingDue(now) \/ DueUnit(now))
  BY <1>0, <1>2, <1>4 DEF NothingDue, DueUnit, playVars
<1> QED BY <1>1, <1>3, <1>4 DEF Advance, TryStart

\* Only gaps between presentations are counted as stalls.
THEOREM StallTimeInGaps == Spec => StallsWithinGaps
<1>1. IInv /\ [Next]_vars =>
        [LET charged == stallDuration' - stallDuration
         IN  IF started /\ active < 0 /\ active' >= 0
               THEN charged \in 0 .. lastPresentedAt' - lastPresentedAt
               ELSE charged = 0]_vars
  <2> SUFFICES ASSUME IInv, Next
               PROVE  IF started /\ active < 0 /\ active' >= 0
                        THEN stallDuration' - stallDuration \in 0 .. lastPresentedAt' - lastPresentedAt
                        ELSE stallDuration' - stallDuration = 0
    OBVIOUS
  <2>1. CASE TimerFires \/ WakeUp
    BY <2>1, RunnerStep, ChargedStep DEF IInv
  <2>2. CASE UNCHANGED playVars
    <3>1. /\ active \in Int /\ stallDuration \in Nat
          /\ active' = active /\ stallDuration' = stallDuration
      BY <2>2, ChainAssumption DEF IInv, PlayInv, PlayType, Target, playVars
    <3> QED BY <3>1
  <2> QED BY <2>1, <2>2 DEF Next, Internal, AddObject, CallAddObject, DropObject,
             NotifyPlayback, Schedule, Arm, Cancel, Tick
<1> QED BY <1>1, Invariance, PTL DEF Spec, StallsWithinGaps

-----------------------------------------------------------------------------
(* No wake-up is lost *)

\* Deleting what is in the past leaves nextUnit with the same answer.
LEMMA CleanupKeepsNext ==
  ASSUME NEW p \in [Keys -> UnitType], NEW last \in Nat
  PROVE  LET q == Delete(p, Passed(p, last))
         IN  /\ Upcoming(q, last) = Upcoming(p, last)
             /\ \A k \in Upcoming(p, last) : q[k] = p[k]
             /\ Upcoming(p, last) # {} => NextUnit(q, last) = NextUnit(p, last)
<1> DEFINE q == Delete(p, Passed(p, last))
           S == Upcoming(p, last)
<1>0. q \in [Keys -> UnitType]
  BY PendingTypes
<1>1. \A k \in Keys : q[k] = IF k \in Passed(p, last) THEN NoUnit ELSE p[k]
  BY DEF Delete
<1> HIDE DEF q
<1>2. \A k \in S : k \in Keys /\ q[k] = p[k] /\ k \in Units(p)
  BY <1>1 DEF Upcoming, Units
<1>3. \A i \in Layers : NoUnit.layers[i] = None
  BY DEF NoUnit
<1>4. Units(q) = S
  BY <1>1, <1>3 DEF Units, Upcoming, Passed
<1>5. Passed(q, last) = {}
  <2> SUFFICES ASSUME NEW k \in Units(q), last # None, Timestamp(q[k]) <= last PROVE FALSE
    BY DEF Passed
  <2>1. k \in S /\ q[k] = p[k]
    BY <1>2, <1>4
  <2> QED BY <2>1 DEF Upcoming, Passed
<1>6. Upcoming(q, last) = S
  BY <1>4, <1>5 DEF Upcoming
<1>7. ASSUME S # {} PROVE NextUnit(q, last) = NextUnit(p, last)
  <2> DEFINE a == NextUnit(q, last)
             b == NextUnit(p, last)
  <2>1. a \in S /\ NotAfter(q, a, b)
    <3>1. S \subseteq Units(p) /\ b = Earliest(p, S)
      BY DEF Upcoming, NextUnit
    <3>2. b \in S
      BY <1>7, <3>1, EarliestSpec
    <3>3. S \subseteq Units(q) /\ a = Earliest(q, S)
      BY <1>4, <1>6 DEF NextUnit
    <3> HIDE DEF a, b, S
    <3> QED BY <1>0, <1>7, <3>2, <3>3, EarliestSpec
  <2>2. b \in S /\ NotAfter(p, b, a)
    <3>1. S \subseteq Units(p) /\ b = Earliest(p, S)
      BY DEF Upcoming, NextUnit
    <3> HIDE DEF a, b, S
    <3> QED BY <1>7, <2>1, <3>1, EarliestSpec
  <2> HIDE DEF a, b
  <2>3. NotAfter(p, a, b)
    BY <1>2, <2>1, <2>2 DEF NotAfter, Before
  <2>4. /\ Timestamp(p[a]) \in Nat /\ a[1] \in Nat /\ a[2] \in Nat
        /\ Timestamp(p[b]) \in Nat /\ b[1] \in Nat /\ b[2] \in Nat
    <3>1. ASSUME NEW k \in S PROVE Timestamp(p[k]) \in Nat /\ k[1] \in Nat /\ k[2] \in Nat
      <4>1. k \in Keys /\ p[k] \in UnitType /\ \E i \in Layers : p[k].layers[i] # None
        BY <1>2 DEF Units
      <4> QED BY <4>1, TimestampSpec, KeysAssumption
    <3> QED BY <2>1, <2>2, <3>1
  <2>5. a = b
    BY <2>2, <2>3, <2>4 DEF NotAfter, Before
  <2> QED BY <2>5 DEF a, b
<1> QED BY <1>2, <1>6, <1>7 DEF q

\* schedule() deletes only what the deadline does not depend on.
LEMMA ScheduleKeepsDeadline ==
  ASSUME IInv, Schedule
  PROVE  NextAdvanceDeadline(pending)' = NextAdvanceDeadline(pending)
<1>1. UNCHANGED <<active, lastPresented, lastPresentedAt>> /\ pending \in [Keys -> UnitType]
  BY DEF Schedule, playVars, IInv, TypeOK
<1>2. CASE active >= 0
  <2>1. lastPresented \in Nat
    BY <1>2 DEF IInv, PlayInv, PlayType, PresentedTogether
  <2>2. pending' = Delete(pending, Passed(pending, lastPresented))
    BY <1>2 DEF Schedule
  <2> DEFINE S == Upcoming(pending, lastPresented)
             n == NextUnit(pending, lastPresented)
  <2>3. /\ Upcoming(pending', lastPresented) = S
        /\ \A k \in S : pending'[k] = pending[k]
        /\ S # {} => NextUnit(pending', lastPresented) = n
    BY <1>1, <2>1, <2>2, CleanupKeepsNext
  <2>4. S # {} => n \in S
    <3>1. S \subseteq Units(pending)
      BY DEF Upcoming
    <3> QED BY <1>1, <3>1, EarliestSpec DEF NextUnit
  <2>5. S # {} => Timestamp(pending'[NextUnit(pending', lastPresented)]) = Timestamp(pending[n])
    BY <2>3, <2>4
  <2> HIDE DEF S, n
  <2> QED BY <1>1, <1>2, <2>3, <2>5 DEF NextAdvanceDeadline, PresentationDeadline, S, n
<1>3. CASE ~(active >= 0)
  <2>1. pending' = pending
    BY <1>1, <1>3 DEF Schedule, Delete
  <2> QED BY <1>1, <2>1 DEF NextAdvanceDeadline, StartDeadline, PresentationDeadline
<1> QED BY <1>2, <1>3

\* Every step keeps the timer armed for the current deadline.
LEMMA ArmedStep == IInv /\ Armed /\ [Next]_vars => Armed'
<1> SUFFICES ASSUME IInv, Armed, [Next]_vars PROVE Armed'
  OBVIOUS
<1> DEFINE d == NextAdvanceDeadline(pending)
<1>0. clock \in Nat /\ alarm \in Nat \cup {None} /\ d \in Nat \cup {None}
  BY BoundsAssumption, DeadlineType DEF IInv, TypeOK
<1>1. ASSUME NEW i \in Layers, CallAddObject(i) PROVE Armed'
  <2>1. notifying'[i]
    BY <1>1 DEF CallAddObject, IInv, TypeOK
  <2> QED BY <2>1 DEF Armed
<1>2. CASE \E i \in Layers : NotifyPlayback(i)
  BY <1>2 DEF NotifyPlayback, Armed
<1>3. CASE TimerFires \/ WakeUp
  BY <1>3 DEF TimerFires, WakeUp, Armed
<1>4. CASE Schedule
  <2>1. d' = d /\ alarm' = d
    BY <1>4, ScheduleKeepsDeadline DEF Schedule
  <2> HIDE DEF d
  <2>2. d' # None => alarm' # None /\ alarm' <= d'
    BY <1>0, <2>1, NoneAssumption
  <2> QED BY <2>2 DEF Armed, d
<1>5. ASSUME Arm \/ Tick \/ UNCHANGED vars PROVE Armed'
  <2>1. UNCHANGED <<pending, active, lastPresented, lastPresentedAt, wake, notifying>>
    BY <1>5 DEF Arm, Tick, vars, playVars
  <2>2. d' = d
    BY <2>1 DEF NextAdvanceDeadline, PresentationDeadline, StartDeadline
  <2>3. /\ clock' \in {clock, clock + 1}
        /\ runner' \in {"arm", "select"} => runner \in {"arm", "select"}
        /\ alarm' \in {alarm, clock}
        /\ alarm' = None <=> alarm = None
    BY <1>0, <1>5, NoneAssumption DEF Arm, Tick, vars
  <2> HIDE DEF d
  <2>4. Armed <=> ((/\ runner \in {"arm", "select"}
                    /\ ~wake
                    /\ \A i \in Layers : ~notifying[i]
                    /\ d # None)
                     => alarm # None /\ (alarm <= d \/ alarm <= clock))
    BY DEF Armed, d
  <2>5. Armed' <=> ((/\ runner' \in {"arm", "select"}
                     /\ ~wake'
                     /\ \A i \in Layers : ~notifying'[i]
                     /\ d' # None)
                      => alarm' # None /\ (alarm' <= d' \/ alarm' <= clock'))
    BY DEF Armed, d
  <2> QED BY <1>0, <2>1, <2>2, <2>3, <2>4, <2>5
<1>6. CASE Cancel
  BY <1>6 DEF Cancel, Armed
<1> QED BY <1>1, <1>2, <1>3, <1>4, <1>5, <1>6 DEF Next, Internal, AddObject, DropObject

\* Whatever is due, the run goroutine is ready or a reader is about to wake it:
\* the capacity of the wake channel does not lose it.
THEOREM WakeupsNotLost == Spec => []NoLostWakeup
<1>1. Init => Armed
  BY DEF Init, Armed
<1>2. IInv /\ Armed => NoLostWakeup
  <2> SUFFICES ASSUME IInv, Armed, Due, ~RunnerReady, \A i \in Layers : ~notifying[i],
                      runner # "stopped"
               PROVE  FALSE
    BY DEF NoLostWakeup
  <2> DEFINE d == NextAdvanceDeadline(pending)
  <2>1. d # None /\ d <= clock
    BY DEF Due
  <2>2. runner = "select" /\ ~wake /\ ~(alarm # None /\ alarm <= clock)
    BY DEF RunnerReady, IInv, TypeOK
  <2>3. alarm # None /\ (alarm <= d \/ alarm <= clock)
    BY <2>1, <2>2 DEF Armed
  <2>4. clock \in Nat /\ alarm \in Nat /\ d \in Nat
    BY <2>1, <2>3, BoundsAssumption, DeadlineType DEF IInv, TypeOK
  <2> HIDE DEF d
  <2> QED BY <2>1, <2>2, <2>3, <2>4
<1> QED BY <1>1, <1>2, ArmedStep, Invariance, PTL DEF Spec

-----------------------------------------------------------------------------
(* The media *)

\* What the objects of a unit carry.
LEMMA MediaSpec ==
  ASSUME NEW k \in Keys
  PROVE  /\ Media(k) \in Contents[k] /\ Media(k) \in Content
         /\ Media(k).ts \in Nat /\ Media(k) # None
         /\ Media(k).indep <=> k[2] = 0
<1>1. Media(k) \in Contents[k]
  BY MediaAssumption DEF Media
<1>2. Media(k) \in Content
  BY <1>1, ContentsAssumption
<1>3. Media(k).ts \in Nat /\ Media(k) # None
  BY <1>2, NoneAssumption DEF Content
<1>4. Media(k).indep <=> k[2] = 0
  BY <1>1, GroupAssumption
<1> QED BY <1>1, <1>2, <1>3, <1>4

\* Timestamps follow the order of the keys.
LEMMA MediaOrder ==
  ASSUME NEW j \in Keys, NEW k \in Keys,
         j[1] < k[1] \/ (j[1] = k[1] /\ j[2] < k[2])
  PROVE  Media(j).ts < Media(k).ts
  BY MediaSpec, GroupAssumption

\* So a timestamp names a unit.
LEMMA UnitAtSpec ==
  ASSUME NEW k \in Keys
  PROVE  UnitAt(Media(k).ts) = k
<1>1. \A j \in Keys : Media(j).ts = Media(k).ts => j = k
  BY MediaSpec, MediaAssumption
<1> QED BY <1>1 DEF UnitAt

\* A unit between another and its successor in the group is one of the two.
LEMMA Adjacent ==
  ASSUME NEW k \in Keys, k[2] > 0, NEW l \in Keys,
         Media(<<k[1], k[2] - 1>>).ts <= Media(l).ts, Media(l).ts < Media(k).ts
  PROVE  l = <<k[1], k[2] - 1>>
<1> DEFINE j == <<k[1], k[2] - 1>>
<1>1. j \in Keys /\ j[1] = k[1] /\ j[2] = k[2] - 1
  BY GroupAssumption
<1>2. /\ k[1] \in Nat /\ k[2] \in Nat /\ l[1] \in Nat /\ l[2] \in Nat /\ l = <<l[1], l[2]>>
      /\ j[2] \in Nat
  BY <1>1, KeysAssumption
<1>3. Media(j).ts \in Nat /\ Media(k).ts \in Nat /\ Media(l).ts \in Nat
  BY <1>1, MediaSpec
<1>4. ~(l[1] < j[1] \/ (l[1] = j[1] /\ l[2] < j[2]))
  <2> HIDE DEF j
  <2> QED BY <1>1, <1>3, MediaOrder DEF j
<1>5. ~(k[1] < l[1] \/ (k[1] = l[1] /\ k[2] < l[2])) /\ l # k
  BY <1>3, MediaOrder
<1>6. l[1] = k[1] /\ l[2] = k[2] - 1
  <2>1. l[1] = k[1]
    BY <1>1, <1>2, <1>4, <1>5
  <2>2. l[2] >= k[2] - 1 /\ l[2] <= k[2]
    BY <1>1, <1>2, <1>4, <1>5, <2>1
  <2>3. l[2] # k[2]
    <3>1. k = <<k[1], k[2]>>
      BY KeysAssumption
    <3> QED BY <1>2, <1>5, <2>1, <3>1
  <2> QED BY <1>2, <2>1, <2>2, <2>3
<1> QED BY <1>2, <1>6

-----------------------------------------------------------------------------
(* The streams are an instance of the open environment *)

\* Every step of the streams is a step of Playback, or none of its business.
LEMMA StreamStepIsStep == [StreamNext]_allVars => [Next]_vars
<1> SUFFICES ASSUME StreamNext \/ UNCHANGED allVars PROVE Next \/ UNCHANGED vars
  OBVIOUS
<1>1. ASSUME NEW i \in Layers, NEW k \in Keys, Deliver(i, k) PROVE Next
  BY <1>1, MediaSpec DEF Deliver, Next
<1>2. ASSUME NEW i \in Layers, NEW k \in Keys, Reset(i, k[1]) PROVE UNCHANGED vars
  BY <1>2 DEF Reset
<1> QED BY <1>1, <1>2 DEF StreamNext, StreamTick, Next, Internal, allVars

\* The player fed by streams is the player of Playback, so that all that is
\* proved of it for any arrivals holds for these.
THEOREM StreamsRefinePlayback == StreamSpec => Spec
<1>1. StreamInit => Init
  BY DEF StreamInit
<1> QED BY <1>1, StreamStepIsStep, PTL DEF StreamSpec, Spec

-----------------------------------------------------------------------------
(* What the steps do to the buffered units *)

\* The timestamp of a buffered unit is that of its media, whichever layers of
\* it are there.
LEMMA BufferedTimestamp ==
  ASSUME IInv, AsSent, NEW k \in Units(pending)
  PROVE  /\ k \in Keys /\ Timestamp(pending[k]) = Media(k).ts
         /\ pending[k].layers[0] # None => pending[k].layers[0] = Media(k)
<1>1. PICK i \in Layers : k \in Keys /\ pending[k].layers[i] # None
  BY DEF Units
<1>2. pending[k] \in UnitType
  BY <1>1 DEF IInv, TypeOK
<1>3. LowestLayer(pending[k]) \in Layers /\ pending[k].layers[LowestLayer(pending[k])] # None
  BY <1>1, <1>2, LowestLayerSpec
<1>4. 0 \in Layers
  BY ChainAssumption DEF Layers
<1> QED BY <1>1, <1>3, <1>4 DEF AsSent, Timestamp

\* An arrival stores the one object it brings and changes no other, except
\* that it may cost a unit when there is no room.
LEMMA DeliverEffect ==
  ASSUME IInv, AsSent, NEW i \in Layers, NEW k \in Keys, Deliver(i, k)
  PROVE  /\ \A m \in Keys : pending'[m].invalidFrom = NumLayers
         /\ \A m \in Keys, j \in Layers : pending'[m].layers[j] # None =>
              \/ pending'[m].layers[j] = pending[m].layers[j]
              \/ m = k /\ j = i /\ pending'[m].layers[j] = Media(k)
         /\ Cardinality(Units(pending) \cup {k}) <= MaxPendingUnits =>
              \A m \in Keys, j \in Layers :
                pending[m].layers[j] # None \/ (m = k /\ j = i) => pending'[m].layers[j] # None
<1> DEFINE u == WithLayer(pending[k], i, Media(k))
           q == [pending EXCEPT ![k] = u]
<1>1. pending' = TrimPending(q) /\ k \notin delivered[i]
  BY DEF Deliver, AddObject, Awaited
<1>2. pending \in [Keys -> UnitType] /\ Media(k) # None /\ Media(k) \in Content
  BY MediaSpec DEF IInv, TypeOK
<1>3. pending[k].layers[i] = None
  BY <1>1 DEF AsSent
<1>4. u = [pending[k] EXCEPT !.layers[i] = Media(k)]
  BY <1>3 DEF WithLayer
<1>5. /\ u.invalidFrom = pending[k].invalidFrom
      /\ \A j \in Layers : u.layers[j] = IF j = i THEN Media(k) ELSE pending[k].layers[j]
  <2>1. pending[k] \in UnitType
    BY <1>2
  <2> QED BY <1>4, <2>1 DEF UnitType
<1>6. \A m \in Keys : q[m] = IF m = k THEN u ELSE pending[m]
  BY <1>2
<1> HIDE DEF u, q
<1>7. /\ \A m \in Keys : q[m].invalidFrom = NumLayers
      /\ \A m \in Keys, j \in Layers :
           q[m].layers[j] = IF m = k /\ j = i THEN Media(k) ELSE pending[m].layers[j]
  BY <1>5, <1>6 DEF AsSent
<1>8. \A m \in Keys : pending'[m] = q[m] \/ pending'[m] = NoUnit
  <2>1. q \in [Keys -> UnitType]
    BY <1>2, PendingTypes DEF q, u
  <2> QED BY <1>1, <2>1 DEF TrimPending, Delete
<1>9. NoUnit.invalidFrom = NumLayers /\ \A j \in Layers : NoUnit.layers[j] = None
  BY DEF NoUnit
<1>10. ASSUME Cardinality(Units(pending) \cup {k}) <= MaxPendingUnits PROVE pending' = q
  <2>1. Units(q) = Units(pending) \cup {k}
    BY <1>2, <1>7 DEF Units
  <2>2. ~(Cardinality(Units(q)) > MaxPendingUnits)
    <3>1. Units(pending) \cup {k} \subseteq Keys
      BY DEF Units
    <3>2. Cardinality(Units(q)) \in Nat
      BY <2>1, <3>1, KeysAssumption, FS_Subset, FS_CardinalityType
    <3> QED BY <1>10, <2>1, <3>2, BoundsAssumption
  <2> QED BY <1>1, <2>2 DEF TrimPending
<1> QED BY <1>2, <1>7, <1>8, <1>9, <1>10

\* What a call of advance does to what the streams brought: it drops only
\* what playback has passed, moves to a unit whose base layer is there, does
\* not move back, and leaves nothing to restart on that is in the past.
Progress ==
  /\ \A m \in Keys : pending'[m] = pending[m] \/ pending'[m] = NoUnit
  /\ \A m \in Units(pending) : pending'[m] = pending[m] \/ (started' /\ Media(m).ts <= lastPresented')
  /\ \/ started' = started /\ lastPresented' = lastPresented
     \/ started' /\ \E k \in Units(pending) : pending[k].layers[0] # None /\ lastPresented' = Media(k).ts
  /\ started => started' /\ lastPresented' >= lastPresented
  /\ active' < 0 /\ started' =>
       \A k \in Keys : Media(k).indep /\ pending'[k].layers[0] # None => Media(k).ts >= lastPresented'

\* Units later than last are all that is left after nextUnit cleaned up.
LEMMA CleanupEffect ==
  ASSUME IInv, AsSent, NEW last \in Nat
  PROVE  LET q == Delete(pending, Passed(pending, last))
         IN  /\ \A m \in Keys : q[m] = pending[m] \/ q[m] = NoUnit
             /\ \A m \in Units(pending) : q[m] = pending[m] \/ Media(m).ts <= last
             /\ \A m \in Keys, i \in Layers : q[m].layers[i] # None => Media(m).ts > last
<1>1. \A m \in Units(pending) : Timestamp(pending[m]) = Media(m).ts /\ Media(m).ts \in Nat
  BY BufferedTimestamp, MediaSpec
<1>2. last # None /\ \A i \in Layers : NoUnit.layers[i] = None
  BY NoneAssumption DEF NoUnit
<1>3. \A m \in Units(pending) : m \in Passed(pending, last) <=> Media(m).ts <= last
  BY <1>1, <1>2 DEF Passed
<1>4. \A m \in Keys, i \in Layers : pending[m].layers[i] # None => m \in Units(pending)
  BY DEF Units
<1>5. \A m \in Units(pending) : m \in Keys
  BY DEF Units
<1> QED BY <1>1, <1>2, <1>3, <1>4, <1>5 DEF Delete

\* tryStart takes a unit that is not in the past.
LEMMA StartProgress ==
  ASSUME IInv, StreamInv, runner = "select", active < 0, NEW now \in Nat, StartPlaying(now)
  PROVE  Progress
<1> DEFINE k == StartUnit(pending)
<1>0. AsSent /\ pending \in [Keys -> UnitType] /\ StartCandidates(pending) # {}
  BY DEF StreamInv, IInv, TypeOK, StartPlaying
<1>1. /\ k \in Units(pending) /\ Independent(pending[k])
      /\ CompletePrefix(pending[k]) \in Layers
  BY <1>0, StartUnitSpec
<1>2. /\ pending' = Delete(pending, {k})
      /\ active' = CompletePrefix(pending[k])
      /\ started' = TRUE
      /\ lastPresented' = pending[k].layers[0].ts
  BY DEF StartPlaying, Present
<1> HIDE DEF k
<1>3. k \in Keys /\ pending[k].layers[0] # None /\ pending[k].layers[0].indep
  BY <1>1 DEF Units, Independent, CompleteUpTo
<1>4. pending[k].layers[0] = Media(k) /\ Media(k).ts \in Nat
  BY <1>0, <1>1, <1>3, BufferedTimestamp, MediaSpec
<1>5. \A m \in Keys : pending'[m] = IF m = k THEN NoUnit ELSE pending[m]
  BY <1>2 DEF Delete
<1>6. ~(active' < 0)
  BY <1>1, <1>2, ChainAssumption DEF Layers
<1>7. started => Media(k).ts >= lastPresented
  BY <1>3, <1>4 DEF StreamInv, NoOldStart
<1>8. \A m \in Units(pending) : m \in Keys
  BY DEF Units
<1>9. started' /\ lastPresented' = Media(k).ts /\ Media(k).ts <= lastPresented'
  BY <1>2, <1>4
<1>10. \A m \in Units(pending) :
         pending'[m] = pending[m] \/ (started' /\ Media(m).ts <= lastPresented')
  BY <1>5, <1>8, <1>9
<1>11. started => started' /\ lastPresented' >= lastPresented
  BY <1>7, <1>9
<1> QED BY <1>1, <1>3, <1>5, <1>6, <1>9, <1>10, <1>11, Zenon DEF Progress

\* tryStart finds nothing, or nothing that is due.
LEMMA WaitProgress ==
  ASSUME IInv, StreamInv, runner = "select", active < 0,
         NEW now \in Nat, WaitForDeadline(now) \/ WaitForCandidate(now)
  PROVE  Progress
<1>1. UNCHANGED <<pending, active, started, lastPresented>>
  BY DEF WaitForDeadline, WaitForCandidate
<1>2. started => lastPresented \in Nat
  BY DEF IInv, PlayInv, PlayType, PresentedTogether
<1>3. started => \A k \in Keys : Media(k).indep /\ pending[k].layers[0] # None =>
                                   Media(k).ts >= lastPresented
  BY DEF StreamInv, NoOldStart
<1> QED BY <1>1, <1>2, <1>3 DEF Progress

\* The loop of advance moves on to the next unit, or stalls before it.
LEMMA PlayingProgress ==
  ASSUME IInv, StreamInv, active >= 0, NEW now \in Nat, NothingDue(now) \/ DueUnit(now)
  PROVE  Progress
<1>0. /\ AsSent /\ pending \in [Keys -> UnitType]
      /\ started /\ lastPresented \in Nat
  BY DEF StreamInv, IInv, TypeOK, PlayInv, PlayType, PresentedTogether
<1>1. CASE UNCHANGED <<started, lastPresented>> /\
           pending' = Delete(pending, Passed(pending, lastPresented))
  <2>1. /\ \A m \in Keys : pending'[m] = pending[m] \/ pending'[m] = NoUnit
        /\ \A m \in Units(pending) : pending'[m] = pending[m] \/ Media(m).ts <= lastPresented
        /\ \A m \in Keys, i \in Layers : pending'[m].layers[i] # None => Media(m).ts > lastPresented
    BY <1>0, <1>1, CleanupEffect
  <2>2. 0 \in Layers /\ \A m \in Keys : Media(m).ts \in Nat
    BY MediaSpec, ChainAssumption DEF Layers
  <2> QED BY <1>0, <1>1, <2>1, <2>2 DEF Progress
<1>2. CASE DueUnit(now) /\ ~(active' < 0)
  <2> DEFINE k == NextUnit(pending, lastPresented)
             u == pending[k]
  <2>1. /\ k \in Units(pending) /\ u \in UnitType /\ Timestamp(u) > lastPresented
    BY <1>0, <1>2, NextUnitSpec DEF DueUnit
  <2>2. active' = ActiveAfter(u) /\ active \in Layers
    BY <1>2 DEF DueUnit, IInv, TypeOK, Layers, Target
  <2>3. CompleteUpTo(u, active')
    <3>1. ActiveAfter(u) \in -1 .. Target /\ (ActiveAfter(u) >= 0 => CompleteUpTo(u, ActiveAfter(u)))
      BY <2>1, <2>2, DecoderAfter DEF IInv, PlayInv, PlayType
    <3> QED BY <1>2, <2>2, <3>1, ChainAssumption DEF Target
  <2>4. /\ started' = TRUE /\ lastPresented' = u.layers[0].ts
        /\ pending' = Delete(pending, Passed(pending, lastPresented'))
    BY <1>2 DEF DueUnit, Present
  <2> HIDE DEF k
  <2>5. u.layers[0] # None /\ u.layers[0] = Media(k) /\ Timestamp(u) = Media(k).ts /\ k \in Keys
    BY <1>0, <2>1, <2>3, BufferedTimestamp DEF CompleteUpTo
  <2>6. lastPresented' = Media(k).ts /\ lastPresented' \in Nat /\ lastPresented' > lastPresented
    BY <2>1, <2>4, <2>5, MediaSpec
  <2>7. /\ \A m \in Keys : pending'[m] = pending[m] \/ pending'[m] = NoUnit
        /\ \A m \in Units(pending) : pending'[m] = pending[m] \/ Media(m).ts <= lastPresented'
    BY <1>0, <2>4, <2>6, CleanupEffect
  <2> QED BY <1>0, <1>2, <2>1, <2>4, <2>5, <2>6, <2>7 DEF Progress
<1> QED BY <1>1, <1>2 DEF NothingDue, DueUnit, playVars

\* A step of the run goroutine that calls advance.
LEMMA AdvanceProgress ==
  ASSUME IInv, StreamInv, TimerFires \/ WakeUp
  PROVE  Progress
<1>1. PICK now \in Nat : Advance(now)
  BY RunnerStep
<1>2. runner = "select"
  BY DEF TimerFires, WakeUp
<1>3. CASE active < 0 /\ TryStart(now)
  BY <1>2, <1>3, StartProgress, WaitProgress DEF TryStart
<1>4. CASE active >= 0 /\ (NothingDue(now) \/ DueUnit(now))
  BY <1>4, PlayingProgress
<1> QED BY <1>1, <1>3, <1>4 DEF Advance

-----------------------------------------------------------------------------
(* The invariant of the streams *)

\* The initial state satisfies it.
LEMMA StreamInitInvariant == StreamInit => StreamInv
<1> SUFFICES ASSUME StreamInit PROVE StreamInv
  OBVIOUS
<1> USE DEF StreamInit, Init
<1>1. AsSent
  BY DEF AsSent, NoUnit
<1>2. OnTime
  BY MediaSpec, DelayAssumption DEF OnTime
<1>3. delivered \in [Layers -> SUBSET Keys] /\ InStreamOrder
  BY DEF InStreamOrder
<1> QED BY <1>1, <1>2, <1>3 DEF StreamInv, LastIsUnit, NoOldStart

\* An object that arrives after a presentation is no base layer of an
\* independent unit before it: in its own stream it would have come first, and
\* from another group it would be more than MaxDelay late.
LEMMA NoLateStart ==
  ASSUME NotAGroupLate, IInv, StreamInv, started, NEW k \in Keys, Media(k).indep, Awaited(0, k)
  PROVE  Media(k).ts >= lastPresented
<1>0. 0 \in Layers /\ TargetLatency \in Nat /\ MaxDelay \in Nat
  BY ChainAssumption, LatencyAssumption, DelayAssumption DEF Layers
<1>1. PICK l \in delivered[0] : lastPresented = Media(l).ts
  BY DEF StreamInv, LastIsUnit
<1>2. l \in Keys
  BY <1>0 DEF StreamInv
<1>3. Media(k).ts \in Nat /\ Media(l).ts \in Nat /\ k[2] = 0
  BY <1>2, MediaSpec
<1>4. k # l /\ k \notin Predecessors(l)
  BY <1>0, <1>1 DEF Awaited, StreamInv, InStreamOrder
<1>5. /\ k[1] \in Nat /\ k[2] \in Nat /\ l[1] \in Nat /\ l[2] \in Nat
      /\ k = <<k[1], k[2]>> /\ l = <<l[1], l[2]>>
  BY <1>2, KeysAssumption
<1>6. CASE l[1] < k[1]
  BY <1>1, <1>2, <1>3, <1>6, MediaOrder
<1>7. CASE l[1] = k[1]
  BY <1>3, <1>4, <1>5, <1>7 DEF Predecessors
<1>8. CASE k[1] < l[1]
  <2>1. Media(k).ts + MaxDelay < lastPresented + TargetLatency
    BY <1>1, <1>2, <1>8 DEF NotAGroupLate
  <2>2. clock <= Media(k).ts + MaxDelay
    BY <1>0 DEF StreamInv, OnTime
  <2>3. /\ lastPresentedAt \in Nat /\ clock \in Nat
        /\ lastPresented + TargetLatency <= lastPresentedAt /\ lastPresentedAt <= clock
    BY <1>1, <1>3, NoneAssumption, BoundsAssumption
       DEF IInv, TypeOK, PlayInv, PlayType, PresentedTogether, NeverAheadOfTarget, TimesInOrder
  <2> QED BY <1>0, <1>1, <1>3, <2>1, <2>2, <2>3
<1> QED BY <1>5, <1>6, <1>7, <1>8

\* An arrival preserves the invariant.
LEMMA DeliverInvariant ==
  ASSUME NotAGroupLate, IInv, StreamInv, NEW i \in Layers, NEW k \in Keys, Deliver(i, k)
  PROVE  StreamInv'
<1>1. /\ delivered' = [delivered EXCEPT ![i] = @ \cup {k}] /\ dead' = dead
      /\ Awaited(i, k) /\ Predecessors(k) \subseteq delivered[i]
      /\ UNCHANGED <<active, started, lastPresented, lastPresentedAt, runner, clock>>
  BY DEF Deliver, AddObject, CallAddObject, playVars
<1>2. delivered \in [Layers -> SUBSET Keys] /\ AsSent /\ runner # "stopped"
  BY DEF StreamInv
<1>3. delivered' \in [Layers -> SUBSET Keys]
  BY <1>1, <1>2
<1>4. \A j \in Layers : delivered[j] \subseteq delivered'[j] /\ k \in delivered'[i]
  BY <1>1, <1>2
<1>5. /\ \A m \in Keys : pending'[m].invalidFrom = NumLayers
      /\ \A m \in Keys, j \in Layers : pending'[m].layers[j] # None =>
           \/ pending'[m].layers[j] = pending[m].layers[j]
           \/ m = k /\ j = i /\ pending'[m].layers[j] = Media(k)
  BY <1>2, DeliverEffect
<1>6. AsSent'
  BY <1>2, <1>4, <1>5 DEF AsSent
<1>7. InStreamOrder'
  <2>1. \A j \in Layers : \A m \in delivered'[j] : m \in delivered[j] \/ (j = i /\ m = k)
    BY <1>1, <1>2
  <2> QED BY <1>1, <1>4, <2>1 DEF StreamInv, InStreamOrder
<1>8. OnTime'
  BY <1>1, <1>4 DEF StreamInv, OnTime, Awaited
<1>9. LastIsUnit'
  <2>1. 0 \in Layers
    BY ChainAssumption DEF Layers
  <2> QED BY <1>1, <1>4, <2>1 DEF StreamInv, LastIsUnit
<1>10. NoOldStart'
  <2>1. 0 \in Layers
    BY ChainAssumption DEF Layers
  <2> SUFFICES ASSUME started, ~(runner = "schedule" /\ active >= 0),
                      NEW m \in Keys, Media(m).indep, pending'[m].layers[0] # None
               PROVE  Media(m).ts >= lastPresented
    BY <1>1 DEF NoOldStart
  <2>2. CASE pending'[m].layers[0] = pending[m].layers[0]
    BY <2>2 DEF StreamInv, NoOldStart
  <2>3. CASE m = k /\ i = 0
    BY <1>1, <2>3, NoLateStart
  <2> QED BY <1>5, <2>1, <2>2, <2>3
<1> QED BY <1>1, <1>2, <1>3, <1>6, <1>7, <1>8, <1>9, <1>10 DEF StreamInv

\* A call of advance preserves it.
LEMMA AdvanceInvariant ==
  ASSUME IInv, StreamInv, TimerFires \/ WakeUp, UNCHANGED streamVars
  PROVE  StreamInv'
<1>1. Progress
  BY AdvanceProgress
<1>2. runner' = "schedule" /\ clock' = clock /\ delivered' = delivered /\ dead' = dead
  BY DEF TimerFires, WakeUp, streamVars
<1>3. active' \in -1 .. Target /\ Target \in Nat
  <2>1. IInv'
    BY StepInvariant DEF Next, Internal
  <2> QED BY <2>1, ChainAssumption DEF IInv, TypeOK, Target
<1>4. NoUnit.invalidFrom = NumLayers /\ \A j \in Layers : NoUnit.layers[j] = None
  BY DEF NoUnit
<1>5. AsSent'
  BY <1>1, <1>2, <1>4 DEF Progress, StreamInv, AsSent
<1>6. InStreamOrder' /\ OnTime'
  BY <1>2 DEF StreamInv, InStreamOrder, OnTime, Awaited
<1>7. LastIsUnit'
  <2>1. CASE started' = started /\ lastPresented' = lastPresented
    BY <1>2, <2>1 DEF StreamInv, LastIsUnit
  <2>2. CASE \E k \in Units(pending) : pending[k].layers[0] # None /\ lastPresented' = Media(k).ts
    <3>1. PICK k \in Units(pending) : pending[k].layers[0] # None /\ lastPresented' = Media(k).ts
      BY <2>2
    <3>2. 0 \in Layers /\ k \in Keys
      BY ChainAssumption DEF Layers, Units
    <3>3. k \in delivered[0]
      BY <3>1, <3>2 DEF StreamInv, AsSent
    <3> QED BY <1>2, <3>1, <3>3 DEF LastIsUnit
  <2> QED BY <1>1, <2>1, <2>2 DEF Progress
<1>8. NoOldStart'
  <2>1. CASE active' < 0
    BY <1>1, <2>1 DEF Progress, NoOldStart
  <2>2. CASE active' >= 0
    BY <1>2, <2>2 DEF NoOldStart
  <2> QED BY <1>3, <2>1, <2>2
<1> QED BY <1>2, <1>5, <1>6, <1>7, <1>8 DEF StreamInv

\* schedule() preserves it, and establishes its last part after a presentation.
LEMMA ScheduleInvariant ==
  ASSUME IInv, StreamInv, Schedule, UNCHANGED streamVars
  PROVE  StreamInv'
<1>1. /\ runner = "schedule" /\ runner' = "arm" /\ clock' = clock
      /\ delivered' = delivered /\ dead' = dead
      /\ UNCHANGED <<active, started, lastPresented>>
      /\ pending' = Delete(pending, IF active >= 0 THEN Passed(pending, lastPresented) ELSE {})
  BY DEF Schedule, playVars, streamVars
<1>2. \A m \in Keys : pending'[m] = pending[m] \/ pending'[m] = NoUnit
  BY <1>1 DEF Delete
<1>3. NoUnit.invalidFrom = NumLayers /\ \A j \in Layers : NoUnit.layers[j] = None
  BY DEF NoUnit
<1>4. AsSent'
  BY <1>1, <1>2, <1>3 DEF StreamInv, AsSent
<1>5. InStreamOrder' /\ OnTime' /\ LastIsUnit'
  BY <1>1 DEF StreamInv, InStreamOrder, OnTime, Awaited, LastIsUnit
<1>6. NoOldStart'
  <2>0. 0 \in Layers
    BY ChainAssumption DEF Layers
  <2> SUFFICES ASSUME started, NEW m \in Keys, Media(m).indep, pending'[m].layers[0] # None
               PROVE  Media(m).ts >= lastPresented
    BY <1>1 DEF NoOldStart
  <2>1. CASE active >= 0
    <3>1. lastPresented \in Nat
      BY DEF IInv, PlayInv, PlayType, PresentedTogether
    <3>2. pending' = Delete(pending, Passed(pending, lastPresented)) /\ AsSent
      BY <1>1, <2>1 DEF StreamInv
    <3>3. Media(m).ts > lastPresented
      BY <2>0, <3>1, <3>2, CleanupEffect
    <3> QED BY <3>1, <3>3, MediaSpec
  <2>2. CASE ~(active >= 0)
    <3>1. pending[m].layers[0] # None
      BY <1>2, <1>3, <2>0
    <3> QED BY <2>2, <3>1 DEF StreamInv, NoOldStart
  <2> QED BY <2>1, <2>2
<1> QED BY <1>1, <1>4, <1>5, <1>6 DEF StreamInv

\* Every step preserves it.
LEMMA StreamStepInvariant ==
  ASSUME NotAGroupLate, IInv, StreamInv, [StreamNext]_allVars
  PROVE  StreamInv'
<1>1. ASSUME UNCHANGED <<pending, active, started, lastPresented, clock, delivered>>,
             dead \subseteq dead', runner' = runner \/ (runner = "arm" /\ runner' = "select")
      PROVE  StreamInv'
  <2>1. AsSent' /\ InStreamOrder' /\ OnTime' /\ LastIsUnit'
    BY <1>1 DEF StreamInv, AsSent, InStreamOrder, OnTime, Awaited, LastIsUnit
  <2>2. NoOldStart'
    BY <1>1 DEF StreamInv, NoOldStart
  <2> QED BY <1>1, <2>1, <2>2 DEF StreamInv
<1>2. ASSUME NEW i \in Layers, NEW k \in Keys, Reset(i, k[1]) PROVE StreamInv'
  BY <1>1, <1>2 DEF Reset, vars, playVars
<1>3. ASSUME NEW i \in Layers, NotifyPlayback(i), UNCHANGED streamVars PROVE StreamInv'
  BY <1>1, <1>3 DEF NotifyPlayback, playVars, streamVars
<1>4. CASE Arm /\ UNCHANGED streamVars
  BY <1>1, <1>4 DEF Arm, playVars, streamVars
<1>5. CASE StreamTick
  <2>1. /\ clock' = clock + 1 /\ delivered' = delivered /\ dead' = dead
        /\ UNCHANGED <<pending, active, started, lastPresented, runner>>
        /\ \A i \in Layers, k \in Keys : Awaited(i, k) => clock < Media(k).ts + MaxDelay
    BY <1>5 DEF StreamTick, Tick, playVars, streamVars
  <2>2. OnTime'
    <3> SUFFICES ASSUME NEW i \in Layers, NEW k \in Keys, Awaited(i, k)
                 PROVE  clock + 1 <= Media(k).ts + MaxDelay
      BY <2>1 DEF OnTime, Awaited
    <3>1. clock < Media(k).ts + MaxDelay
      BY <2>1
    <3>2. clock \in Nat /\ Media(k).ts \in Nat /\ MaxDelay \in Nat
      BY MediaSpec, DelayAssumption, BoundsAssumption DEF IInv, TypeOK
    <3> QED BY <3>1, <3>2
  <2>3. AsSent' /\ InStreamOrder' /\ LastIsUnit' /\ NoOldStart'
    BY <2>1 DEF StreamInv, AsSent, InStreamOrder, LastIsUnit, NoOldStart
  <2> QED BY <2>1, <2>2, <2>3 DEF StreamInv
<1>6. CASE UNCHANGED allVars
  BY <1>1, <1>6 DEF allVars, vars, playVars, streamVars
<1> QED BY <1>2, <1>3, <1>4, <1>5, <1>6, DeliverInvariant, AdvanceInvariant, ScheduleInvariant
        DEF StreamNext

\* The invariants of the player and of the streams hold in every reachable
\* state, if no stream is a group late.
THEOREM StreamInvariance ==
  ASSUME NotAGroupLate
  PROVE  StreamSpec => [](IInv /\ StreamInv)
<1>1. IInv /\ StreamInv /\ [StreamNext]_allVars => StreamInv'
  BY StreamStepInvariant
<1> QED BY <1>1, StreamInitInvariant, Invariance, StreamsRefinePlayback, PTL DEF StreamSpec

-----------------------------------------------------------------------------
(* The theorems about the streams *)

\* lastPresented changes only in advance.
LEMMA OtherStepsDoNotPresent ==
  ASSUME [StreamNext]_allVars, ~(TimerFires \/ WakeUp)
  PROVE  UNCHANGED <<started, lastPresented, lastPresentedAt, active>>
  BY DEF StreamNext, allVars, vars, playVars, Deliver, AddObject, CallAddObject, Reset,
         NotifyPlayback, Schedule, Arm, StreamTick, Tick

\* Media time never runs back.
LEMMA NoRewindStep ==
  ASSUME IInv, StreamInv, [StreamNext]_allVars, started
  PROVE  started' /\ lastPresented' >= lastPresented
<1>1. lastPresented \in Nat
  BY DEF IInv, PlayInv, PlayType, PresentedTogether
<1>2. CASE TimerFires \/ WakeUp
  BY <1>2, AdvanceProgress DEF Progress
<1>3. CASE ~(TimerFires \/ WakeUp)
  <2>1. UNCHANGED <<started, lastPresented, lastPresentedAt, active>>
    BY <1>3, OtherStepsDoNotPresent
  <2>2. lastPresented >= lastPresented
    BY <1>1
  <2> QED BY <2>1, <2>2
<1> QED BY <1>2, <1>3

\* If no stream is a whole group later than the target latency, playback never
\* moves back in media time, across stalls, restarts and reset streams.
THEOREM NeverRewinds ==
  ASSUME NotAGroupLate
  PROVE  StreamSpec => NoRewind
<1>1. IInv /\ StreamInv /\ [StreamNext]_allVars => [started => lastPresented' >= lastPresented]_allVars
  BY NoRewindStep
<1> QED BY <1>1, StreamInvariance, PTL DEF StreamSpec, NoRewind

\* With room for the next object nothing that arrived is dropped before
\* playback has passed it.
LEMMA NothingLostStep ==
  ASSUME IInv, StreamInv, NothingLost, RoomForNext, [StreamNext]_allVars
  PROVE  NothingLost'
<1>0. delivered \in [Layers -> SUBSET Keys] /\ AsSent
  BY DEF StreamInv
<1>1. started => lastPresented \in Nat /\ started' /\ lastPresented' >= lastPresented
  BY NoRewindStep DEF IInv, PlayInv, PlayType, PresentedTogether
<1>2. ASSUME UNCHANGED <<pending, started, lastPresented, delivered>>
      PROVE  NothingLost'
  BY <1>2 DEF NothingLost
<1>3. ASSUME NEW i \in Layers, NEW k \in Keys, Deliver(i, k) PROVE NothingLost'
  <2>1. /\ delivered' = [delivered EXCEPT ![i] = @ \cup {k}]
        /\ UNCHANGED <<started, lastPresented>> /\ Awaited(i, k)
    BY <1>3 DEF Deliver, AddObject, CallAddObject, playVars
  <2>2. \A m \in Keys, j \in Layers :
          pending[m].layers[j] # None \/ (m = k /\ j = i) => pending'[m].layers[j] # None
    <3>1. Cardinality(Units(pending) \cup {k}) <= MaxPendingUnits
      BY <2>1 DEF RoomForNext
    <3> QED BY <1>0, <1>3, <3>1, DeliverEffect
  <2>3. \A j \in Layers : \A m \in delivered'[j] :
          m \in Keys /\ (m \in delivered[j] \/ (j = i /\ m = k))
    BY <1>0, <2>1
  <2> QED BY <2>1, <2>2, <2>3 DEF NothingLost
<1>4. ASSUME \A m \in Units(pending) :
               pending'[m] = pending[m] \/ (started' /\ Media(m).ts <= lastPresented'),
             delivered' = delivered
      PROVE  NothingLost'
  <2> SUFFICES ASSUME NEW i \in Layers, NEW k \in delivered[i], pending'[k].layers[i] = None
               PROVE  started' /\ Media(k).ts <= lastPresented'
    BY <1>4 DEF NothingLost
  <2>1. k \in Keys /\ Media(k).ts \in Nat
    BY <1>0, MediaSpec
  <2>2. CASE pending[k].layers[i] # None
    BY <1>4, <2>1, <2>2 DEF Units
  <2>3. CASE started /\ Media(k).ts <= lastPresented
    <3>1. \A x, y \in Nat, z \in Nat \cup {None} : x <= y /\ z \in Nat /\ z >= y => x <= z
      OBVIOUS
    <3>2. lastPresented' \in Nat
      <4>1. IInv'
        BY StepInvariant, StreamStepIsStep
      <4> QED BY <1>1, <2>3, <4>1 DEF IInv, PlayInv, PlayType, PresentedTogether
    <3> QED BY <1>1, <2>1, <2>3, <3>2
  <2> QED BY <2>2, <2>3 DEF NothingLost
<1>5. CASE (TimerFires \/ WakeUp) /\ UNCHANGED streamVars
  BY <1>4, <1>5, AdvanceProgress DEF Progress, streamVars
<1>6. CASE Schedule /\ UNCHANGED streamVars
  <2>1. /\ delivered' = delivered /\ UNCHANGED <<started, lastPresented, active>>
        /\ pending' = Delete(pending, IF active >= 0 THEN Passed(pending, lastPresented) ELSE {})
    BY <1>6 DEF Schedule, playVars, streamVars
  <2>2. CASE active >= 0
    <3>1. started /\ lastPresented \in Nat
      BY <2>2 DEF IInv, PlayInv, PlayType, PresentedTogether
    <3>2. \A m \in Units(pending) : pending'[m] = pending[m] \/ Media(m).ts <= lastPresented
      BY <1>0, <2>1, <2>2, <3>1, CleanupEffect
    <3> QED BY <1>4, <2>1, <3>1, <3>2
  <2>3. CASE ~(active >= 0)
    <3>1. \A m \in Units(pending) : pending'[m] = pending[m]
      BY <2>1, <2>3 DEF Delete, Units
    <3> QED BY <1>4, <2>1, <3>1
  <2> QED BY <2>2, <2>3
<1>7. ASSUME NEW i \in Layers, NotifyPlayback(i), UNCHANGED streamVars PROVE NothingLost'
  BY <1>2, <1>7 DEF NotifyPlayback, playVars, streamVars
<1>8. CASE Arm /\ UNCHANGED streamVars
  BY <1>2, <1>8 DEF Arm, playVars, streamVars
<1>9. CASE StreamTick
  BY <1>2, <1>9 DEF StreamTick, Tick, playVars, streamVars
<1>10. ASSUME NEW i \in Layers, NEW k \in Keys, Reset(i, k[1]) PROVE NothingLost'
  BY <1>2, <1>10 DEF Reset, vars, playVars
<1>11. CASE UNCHANGED allVars
  BY <1>2, <1>11 DEF allVars, vars, playVars, streamVars
<1> QED BY <1>3, <1>5, <1>6, <1>7, <1>8, <1>9, <1>10, <1>11 DEF StreamNext

\* Unless the limit of trimPending is reached, an object that arrived stays
\* until the player has passed it.
THEOREM KeptUntilPassed ==
  ASSUME NotAGroupLate
  PROVE  StreamSpec /\ []RoomForNext => []NothingLost
<1>1. StreamInit => NothingLost
  BY DEF StreamInit, NothingLost
<1>2. IInv /\ StreamInv /\ NothingLost /\ RoomForNext /\ [StreamNext]_allVars => NothingLost'
  BY NothingLostStep
<1> QED BY <1>1, <1>2, StreamInvariance, PTL DEF StreamSpec

\* The step of a delta: its predecessor is what was presented last.
LEMMA DeltaOnReference ==
  ASSUME IInv, StreamInv, NothingLost, [StreamNext]_allVars, Presents,
         UnitAt(lastPresented')[2] > 0
  PROVE  /\ active >= 0 /\ active' <= active
         /\ UnitAt(lastPresented) = <<UnitAt(lastPresented')[1], UnitAt(lastPresented')[2] - 1>>
<1>0. /\ pending \in [Keys -> UnitType] /\ Target \in Nat /\ Layers = 0 .. Target
      /\ active \in -1 .. Target /\ AsSent /\ InStreamOrder /\ 0 \in Layers
      /\ delivered \in [Layers -> SUBSET Keys]
  BY ChainAssumption DEF IInv, TypeOK, StreamInv, Target, Layers
<1>1. PICK now \in Nat : Advance(now)
  BY PresentsInAdvance, StreamStepIsStep
<1>2. CASE active < 0 /\ StartPlaying(now)
  <2> DEFINE k == StartUnit(pending)
  <2>1. k \in Units(pending) /\ Independent(pending[k])
    BY <1>0, <1>2, StartUnitSpec DEF StartPlaying
  <2>2. lastPresented' = pending[k].layers[0].ts
    BY <1>2 DEF StartPlaying, Present
  <2> HIDE DEF k
  <2>3. k \in Keys /\ pending[k].layers[0] = Media(k) /\ pending[k].layers[0].indep
    BY <1>0, <2>1, BufferedTimestamp DEF Independent, CompleteUpTo
  <2>4. UnitAt(lastPresented') = k /\ k[2] = 0
    BY <2>2, <2>3, UnitAtSpec, MediaSpec
  <2> QED BY <2>4
<1>3. CASE active >= 0 /\ DueUnit(now)
  <2> DEFINE k == NextUnit(pending, lastPresented)
             u == pending[k]
  <2>1. started /\ lastPresented \in Nat /\ active \in Layers
    BY <1>0, <1>3 DEF IInv, PlayInv, PlayType, PresentedTogether
  <2>2. Upcoming(pending, lastPresented) # {}
    BY <1>3 DEF DueUnit
  <2>3. k \in Units(pending) /\ u \in UnitType /\ Timestamp(u) > lastPresented
    BY <1>0, <2>1, <2>2, NextUnitSpec
  <2>4. \A j \in Upcoming(pending, lastPresented) : NotAfter(pending, k, j)
    <3>1. Upcoming(pending, lastPresented) \subseteq Units(pending)
      BY DEF Upcoming
    <3> QED BY <1>0, <2>2, <3>1, EarliestSpec DEF NextUnit
  <2>5. active' = ActiveAfter(u) /\ ~(active' < 0)
    BY <1>3 DEF DueUnit, Presents
  <2>6. /\ ActiveAfter(u) \in -1 .. Target
        /\ ActiveAfter(u) >= 0 => CompleteUpTo(u, ActiveAfter(u))
        /\ ActiveAfter(u) > active => Independent(u)
    BY <2>1, <2>3, DecoderAfter DEF IInv, PlayInv, PlayType
  <2>7. lastPresented' = u.layers[0].ts
    BY <1>3, <2>5 DEF DueUnit, Present
  <2> HIDE DEF k
  <2>8. u.layers[0] # None
    BY <1>0, <2>5, <2>6 DEF CompleteUpTo
  <2>9. k \in Keys /\ u.layers[0] = Media(k) /\ Timestamp(u) = Media(k).ts
    BY <1>0, <2>3, <2>8, BufferedTimestamp
  <2>10. UnitAt(lastPresented') = k /\ k[2] > 0 /\ k = <<k[1], k[2]>> /\ k[1] \in Nat /\ k[2] \in Nat
    BY <2>7, <2>9, UnitAtSpec, KeysAssumption
  <2>11. ~Independent(u)
    BY <2>9, <2>10, MediaSpec DEF Independent
  <2>12. active' <= active
    BY <1>0, <2>5, <2>6, <2>11
  <2> DEFINE j == <<k[1], k[2] - 1>>
  <2>13. j \in Keys /\ j[1] = k[1] /\ j[2] = k[2] - 1 /\ j[2] < k[2]
    BY <2>9, <2>10, GroupAssumption
  <2> HIDE DEF j
  <2>14. j \in delivered[0]
    <3>1. k \in delivered[0] /\ j \in Predecessors(k)
      BY <1>0, <2>8, <2>9, <2>13 DEF AsSent, Predecessors
    <3> QED BY <1>0, <3>1 DEF InStreamOrder
  <2>15. Media(j).ts \in Nat /\ Media(k).ts \in Nat /\ Media(j).ts < Media(k).ts
    BY <2>9, <2>13, MediaSpec, MediaOrder
  <2>16. Media(j).ts <= lastPresented
    <3> SUFFICES ASSUME Media(j).ts > lastPresented PROVE FALSE
      BY <2>1, <2>15
    <3>1. pending[j].layers[0] # None
      BY <1>0, <2>1, <2>14, <2>15 DEF NothingLost
    <3>2. j \in Units(pending)
      BY <1>0, <2>13, <3>1 DEF Units
    <3>3. Timestamp(pending[j]) = Media(j).ts
      BY <1>0, <3>2, BufferedTimestamp
    <3>4. j \in Upcoming(pending, lastPresented)
      BY <2>1, <2>15, <3>2, <3>3 DEF Upcoming, Passed
    <3>5. NotAfter(pending, k, j)
      BY <2>4, <3>4
    <3> QED BY <2>9, <2>13, <2>15, <3>3, <3>5 DEF NotAfter, Before
  <2>17. PICK l \in Keys : lastPresented = Media(l).ts
    BY <1>0, <2>1 DEF StreamInv, LastIsUnit
  <2>18. Media(j).ts <= Media(l).ts /\ Media(l).ts < Media(k).ts
    BY <2>3, <2>9, <2>16, <2>17, <2>1, <2>15
  <2>19. l = j
    BY <2>9, <2>10, <2>18, Adjacent DEF j
  <2>20. UnitAt(lastPresented) = j
    BY <2>17, <2>19, UnitAtSpec
  <2> QED BY <1>3, <2>10, <2>12, <2>20 DEF j
<1> QED BY <1>1, <1>2, <1>3
        DEF Advance, TryStart, WaitForDeadline, WaitForCandidate, NothingDue, playVars, Presents

\* As long as the limit of trimPending is not reached and no stream is a group
\* late, a delta is played only right after its predecessor, at a layer the
\* predecessor was played at.
THEOREM DeltasOnReference ==
  ASSUME NotAGroupLate
  PROVE  StreamSpec /\ []RoomForNext => ReferenceChain
<1>1. IInv /\ StreamInv /\ NothingLost /\ [StreamNext]_allVars =>
        [Presents /\ UnitAt(lastPresented')[2] > 0 =>
           /\ active >= 0 /\ active' <= active
           /\ UnitAt(lastPresented) =
                <<UnitAt(lastPresented')[1], UnitAt(lastPresented')[2] - 1>>]_allVars
  BY DeltaOnReference
<1> QED BY <1>1, KeptUntilPassed, StreamInvariance, PTL DEF StreamSpec, ReferenceChain

\* A unit that arrived in full and was kept can be played at the target layer.
LEMMA WholeUnit ==
  ASSUME IInv, StreamInv, NothingLost, ~started, NEW k \in Keys,
         \A i \in Layers : k \in delivered[i]
  PROVE  /\ k \in Units(pending)
         /\ Timestamp(pending[k]) = Media(k).ts
         /\ pending[k].layers[0] = Media(k)
         /\ CompleteUpTo(pending[k], 0)
         /\ CompletePrefix(pending[k]) = Target
<1>0. Target \in Nat /\ Layers = 0 .. Target /\ NumLayers = Target + 1 /\ 0 \in Layers
  BY ChainAssumption DEF Target, Layers
<1>1. \A i \in Layers : pending[k].layers[i] # None /\ pending[k].layers[i] = Media(k)
  BY DEF NothingLost, StreamInv, AsSent
<1>2. k \in Units(pending) /\ pending[k].invalidFrom = NumLayers /\ pending[k] \in UnitType
  BY <1>0, <1>1 DEF Units, StreamInv, AsSent, IInv, TypeOK
<1>3. Timestamp(pending[k]) = Media(k).ts
  BY <1>2, BufferedTimestamp DEF StreamInv
<1>4. CompleteUpTo(pending[k], Target) /\ CompleteUpTo(pending[k], 0)
  BY <1>0, <1>1, <1>2 DEF CompleteUpTo
<1>5. CompletePrefix(pending[k]) = Target
  BY <1>0, <1>2, <1>4, CompletePrefixSpec
<1> QED BY <1>0, <1>1, <1>2, <1>3, <1>4, <1>5

\* With the first unit and its buffer there, the first unit is a candidate and
\* its deadline is the one that counts; at that time somebody is awake.
LEMMA FirstUnitStarts ==
  ASSUME BufferEndsOnUnit, IInv, StreamInv, NothingLost, NoLostWakeup
  PROVE  StartsAtTargetLatency
<1> SUFFICES ASSUME NEW k \in Keys, Quiet, ~started,
                    \A j \in Keys : Media(k).ts <= Media(j).ts,
                    \A i \in Layers, j \in Keys :
                      Media(j).ts <= Media(k).ts + MinimalBuffer => j \in delivered[i],
                    clock >= Media(k).ts + TargetLatency
             PROVE  FALSE
  BY DEF StartsAtTargetLatency
<1>0. /\ pending \in [Keys -> UnitType] /\ 0 \in Layers
      /\ MinimalBuffer \in Nat /\ TargetLatency \in Nat /\ clock \in Nat
      /\ \A j \in Keys : Media(j).ts \in Nat
  BY ChainAssumption, LatencyAssumption, BoundsAssumption, MediaSpec DEF IInv, TypeOK, Layers
<1>1. Media(k).indep
  <2>1. CASE k[2] > 0
    <3> DEFINE j == <<k[1], k[2] - 1>>
    <3>1. j \in Keys /\ j[1] = k[1] /\ j[2] < k[2]
      <4>1. j \in Keys /\ k[2] \in Nat
        BY <2>1, GroupAssumption, KeysAssumption
      <4> QED BY <4>1
    <3> HIDE DEF j
    <3>2. Media(j).ts < Media(k).ts
      BY <3>1, MediaOrder
    <3> QED BY <1>0, <3>1, <3>2
  <2>2. k[2] \in Nat
    BY KeysAssumption
  <2> QED BY <2>1, <2>2, MediaSpec
<1>2. ASSUME NEW j \in Keys, Media(j).ts <= Media(k).ts + MinimalBuffer
      PROVE  /\ j \in Units(pending)
             /\ Timestamp(pending[j]) = Media(j).ts
             /\ pending[j].layers[0] = Media(j)
             /\ CompleteUpTo(pending[j], 0)
             /\ CompletePrefix(pending[j]) = Target
  BY <1>2, WholeUnit
<1>3. Media(k).ts <= Media(k).ts + MinimalBuffer
  BY <1>0
<1>4. PICK b \in Keys : Media(b).ts = Media(k).ts + MinimalBuffer
  BY DEF BufferEndsOnUnit
<1>5. b \in BufferedRun(pending, k, Target)
  <2>1. b \in Units(pending) /\ Timestamp(pending[b]) = Media(b).ts
    BY <1>0, <1>2, <1>4
  <2>2. Timestamp(pending[k]) = Media(k).ts
    BY <1>2, <1>3
  <2>3. NotAfter(pending, k, b)
    <3>1. CASE k = b
      BY <3>1 DEF NotAfter
    <3>2. CASE k # b
      <4>1. Media(k).ts # Media(b).ts
        BY <3>2, MediaSpec, MediaAssumption
      <4>2. Media(k).ts < Media(b).ts
        BY <1>0, <4>1
      <4> QED BY <2>1, <2>2, <4>2 DEF NotAfter, Before
    <3> QED BY <3>1, <3>2
  <2>4. ASSUME NEW j \in Units(pending), NotAfter(pending, j, b)
        PROVE  CompletePrefix(pending[j]) >= Target
    <3>1. j \in Keys /\ Timestamp(pending[j]) = Media(j).ts
      BY BufferedTimestamp DEF StreamInv
    <3>2. Media(j).ts <= Media(b).ts
      BY <1>0, <2>1, <2>4, <3>1 DEF NotAfter, Before
    <3>3. CompletePrefix(pending[j]) = Target
      BY <1>2, <1>4, <3>1, <3>2
    <3> QED BY <3>3, ChainAssumption DEF Target
  <2> QED BY <2>1, <2>3, <2>4 DEF BufferedRun
<1>6. k \in StartCandidates(pending)
  <2>1. Independent(pending[k]) /\ k \in Units(pending)
    BY <1>1, <1>2, <1>3 DEF Independent
  <2>2. pending[b].layers[0].ts - pending[k].layers[0].ts >= MinimalBuffer
    <3>1. pending[b].layers[0] = Media(b) /\ pending[k].layers[0] = Media(k)
      BY <1>0, <1>2, <1>3, <1>4
    <3> QED BY <1>0, <1>4, <3>1
  <2>3. HasMinimalBuffer(pending, k, CompletePrefix(pending[k]))
    BY <1>2, <1>3, <1>5, <2>2 DEF HasMinimalBuffer
  <2> QED BY <2>1, <2>3 DEF StartCandidates
<1> DEFINE e == StartUnit(pending)
<1>7. e \in Units(pending) /\ NotAfter(pending, e, k)
  <2>1. StartCandidates(pending) \subseteq Units(pending)
    BY DEF StartCandidates
  <2> QED BY <1>0, <1>6, <2>1, EarliestSpec DEF StartUnit
<1>8. pending[e].layers[0] # None
  BY <1>0, <1>6, StartUnitSpec DEF Independent, CompleteUpTo
<1>9. StartDeadline(pending) = pending[e].layers[0].ts + TargetLatency
  BY DEF StartDeadline
<1> HIDE DEF e
<1>10. /\ e \in Keys /\ pending[e].layers[0] = Media(e)
       /\ Timestamp(pending[e]) = Media(e).ts /\ Timestamp(pending[k]) = Media(k).ts
  BY <1>2, <1>3, <1>7, <1>8, BufferedTimestamp DEF StreamInv
<1>11. Media(e).ts <= Media(k).ts
  BY <1>0, <1>7, <1>10 DEF NotAfter, Before
<1>12. StartDeadline(pending) \in Nat /\ StartDeadline(pending) <= clock
  BY <1>0, <1>9, <1>10, <1>11
<1>13. ~(active >= 0)
  BY DEF IInv, PlayInv, PresentedTogether
<1>14. NextAdvanceDeadline(pending) = StartDeadline(pending)
  BY <1>6, <1>13 DEF NextAdvanceDeadline
<1>15. Due
  BY <1>12, <1>14, NoneAssumption DEF Due
<1> QED BY <1>15 DEF NoLostWakeup, Quiet, StreamInv

\* As long as the limit of trimPending is not reached, playback starts at the
\* target latency when the first unit and its buffer have arrived.
THEOREM StartsOnTime ==
  ASSUME NotAGroupLate, BufferEndsOnUnit
  PROVE  StreamSpec /\ []RoomForNext => []StartsAtTargetLatency
<1>1. IInv /\ StreamInv /\ NothingLost /\ NoLostWakeup => StartsAtTargetLatency
  BY FirstUnitStarts
<1> QED BY <1>1, StreamInvariance, KeptUntilPassed, WakeupsNotLost, StreamsRefinePlayback, PTL

=============================================================================
