------------------------------- MODULE Playback -------------------------------
(***************************************************************************)
(* The simulated player of the subscriber (internal/sub/playback.go).      *)
(*                                                                         *)
(* One reader goroutine per track of a spatial dependency chain hands each *)
(* LOC object to addObject; the run goroutine sleeps in a select on a      *)
(* timer and a wake channel of capacity one and calls advance, which       *)
(* starts, presents, downswitches, upswitches or stalls.  Every operation  *)
(* that touches the shared state holds one mutex and is one atomic step    *)
(* here; what happens outside the mutex (the wake-up of addObject, the gap *)
(* between advance, the reading of the next deadline and the re-arming of  *)
(* the timer) is a step of its own.                                        *)
(*                                                                         *)
(* The readers are an open environment: any object may arrive at any time, *)
(* in any order, more than once, and with contents that disagree.          *)
(* PlaybackStreams closes the system with in-order QUIC streams.           *)
(***************************************************************************)
EXTENDS Integers, FiniteSets

CONSTANTS
  NumLayers,        \* len(tracks): the length of the dependency chain
  Keys,             \* the unit keys <<group, object>> that may arrive
  Contents,         \* Contents[k]: what a layer object of unit k may carry
  MinimalBuffer,    \* minimalBuffer, in clock units
  TargetLatency,    \* targetLatency, in clock units
  MaxPendingUnits,  \* maxPendingUnits (64 in the code)
  MaxReceived,      \* bound: objects handed to addObject in a behaviour
  MaxTime,          \* bound: the last value of the clock
  None              \* nil, a zero time, an absent layer

Layers == 0 .. NumLayers - 1

Target == NumLayers - 1

Content == [ts : Nat, indep : BOOLEAN, size : Nat]

ASSUME ChainAssumption == NumLayers \in Nat \ {0}

ASSUME KeysAssumption == Keys \subseteq Nat \X Nat /\ IsFiniteSet(Keys)

ASSUME ContentsAssumption == Contents \in [Keys -> SUBSET Content]

\* newNativePlayback refuses a target latency that is not above the buffer.
ASSUME LatencyAssumption ==
  MinimalBuffer \in Nat /\ TargetLatency \in Nat /\ MinimalBuffer < TargetLatency

ASSUME BoundsAssumption ==
  MaxPendingUnits \in Nat \ {0} /\ MaxReceived \in Nat /\ MaxTime \in Nat

ASSUME NoneAssumption == None \notin Content /\ None \notin Int

VARIABLES
  pending,          \* unit key -> the layers received; NoUnit when absent
  active,           \* highest layer being played, -1 when none
  valid,            \* layer -> its decoder state is usable
  state,            \* "starting", "buffering", "playing" or "stalled"
  switchState,      \* "stable" or "waiting_independent"
  started,          \* something has been presented
  lastPresented,    \* timestamp of the unit presented last, or None
  lastPresentedAt,  \* when it was presented, or None
  stallStarted,     \* when the current stall began, or None
  stallCount,
  stallDuration,
  wake,             \* the wake channel holds a token
  notifying,        \* reader -> it left addObject and has yet to notify
  runner,           \* where the run goroutine is
  alarm,            \* when the advance timer fires, None when stopped
  received,         \* objects handed to addObject so far
  clock

playVars == <<active, valid, state, switchState, started, lastPresented,
              lastPresentedAt, stallStarted, stallCount, stallDuration>>
vars == <<pending, playVars, wake, notifying, runner, alarm, received, clock>>

-----------------------------------------------------------------------------
(* Units and their order *)

NoUnit == [layers |-> [i \in Layers |-> None], invalidFrom |-> NumLayers]

\* The keys of the pending map.  A unit is created with its first layer.
Units(p) == {k \in Keys : \E i \in Layers : p[k].layers[i] # None}

LowestLayer(u) ==
  CHOOSE i \in Layers :
    /\ u.layers[i] # None
    /\ \A j \in Layers : u.layers[j] # None => i <= j

\* timestamp(): that of the lowest layer received.
Timestamp(u) == u.layers[LowestLayer(u)].ts

\* sortedUnits: by timestamp, then group, then object.
Before(p, j, k) ==
  \/ Timestamp(p[j]) < Timestamp(p[k])
  \/ /\ Timestamp(p[j]) = Timestamp(p[k])
     /\ j[1] < k[1] \/ (j[1] = k[1] /\ j[2] < k[2])

NotAfter(p, j, k) == j = k \/ Before(p, j, k)

\* The first of a set of units in the order of sortedUnits.
Earliest(p, S) == CHOOSE k \in S : \A j \in S : NotAfter(p, k, j)

\* Layers 0 .. i of the unit are present, undisputed and agree with the base.
CompleteUpTo(u, i) ==
  /\ i < u.invalidFrom
  /\ u.layers[0] # None
  /\ \A j \in 0 .. i : /\ u.layers[j] # None
                       /\ u.layers[j].ts = u.layers[0].ts
                       /\ u.layers[j].indep = u.layers[0].indep

\* completePrefix: the highest layer up to which the unit can be decoded.
CompletePrefix(u) ==
  CHOOSE n \in -1 .. Target :
    /\ n >= 0 => CompleteUpTo(u, n)
    /\ \A i \in n + 1 .. Target : ~CompleteUpTo(u, i)

\* The second result of completePrefix.
Independent(u) == CompleteUpTo(u, 0) /\ u.layers[0].indep

\* The units bufferFor walks over: from first on, up to the first one that
\* is not complete to the layer that first would start at.
BufferedRun(p, first, prefix) ==
  {k \in Units(p) :
     /\ NotAfter(p, first, k)
     /\ \A j \in Units(p) :
          NotAfter(p, first, j) /\ NotAfter(p, j, k) => CompletePrefix(p[j]) >= prefix}

\* bufferFor(first, prefix) >= minimalBuffer
HasMinimalBuffer(p, first, prefix) ==
  \E k \in BufferedRun(p, first, prefix) :
    p[k].layers[0].ts - p[first].layers[0].ts >= MinimalBuffer

\* The units tryStart accepts; it takes the earliest of them.
StartCandidates(p) ==
  {k \in Units(p) : /\ Independent(p[k])
                    /\ HasMinimalBuffer(p, k, CompletePrefix(p[k]))}

StartUnit(p) == Earliest(p, StartCandidates(p))

\* Mutant: the minimal buffer taken for the target latency.
StartDeadlineAfterBuffer(p) == p[StartUnit(p)].layers[0].ts + MinimalBuffer

StartDeadline(p) == p[StartUnit(p)].layers[0].ts + TargetLatency

\* Mutant: units that are already in the past are not filtered out.
PassedNothing(p, last) == {}

\* nextUnit deletes the units at or before the one presented last ...
Passed(p, last) == {k \in Units(p) : last # None /\ Timestamp(p[k]) <= last}

Delete(p, S) == [k \in Keys |-> IF k \in S THEN NoUnit ELSE p[k]]

\* ... and returns the first of the others.
Upcoming(p, last) == Units(p) \ Passed(p, last)

NextUnit(p, last) == Earliest(p, Upcoming(p, last))

\* Mutant: every unit at the target latency, late ones in a burst.
DeadlineAtTarget(ts) == ts + TargetLatency

\* presentationDeadline for a unit later than the one presented last.
PresentationDeadline(ts) ==
  IF lastPresented = None THEN ts + TargetLatency
  ELSE IF ts <= lastPresented THEN lastPresentedAt
  ELSE lastPresentedAt + (ts - lastPresented)

\* The value of nextAdvanceDeadline, None for "no deadline".
NextAdvanceDeadline(p) ==
  IF active >= 0
    THEN IF Upcoming(p, lastPresented) = {} THEN None
         ELSE PresentationDeadline(Timestamp(p[NextUnit(p, lastPresented)]))
    ELSE IF StartCandidates(p) = {} THEN None ELSE StartDeadline(p)

-----------------------------------------------------------------------------
Init ==
  /\ pending = [k \in Keys |-> NoUnit]
  /\ active = -1
  /\ valid = [i \in Layers |-> FALSE]
  /\ state = "starting"
  /\ switchState = "stable"
  /\ started = FALSE
  /\ lastPresented = None
  /\ lastPresentedAt = None
  /\ stallStarted = None
  /\ stallCount = 0
  /\ stallDuration = 0
  /\ wake = FALSE
  /\ notifying = [i \in Layers |-> FALSE]
  /\ runner = "schedule"
  /\ alarm = None
  /\ received = 0
  /\ clock = 0

-----------------------------------------------------------------------------
(* The readers *)

\* The unit after layer i arrived with content c: a first copy is stored, a
\* copy that disagrees with the stored one disputes layer i and those above.
WithLayer(u, i, c) ==
  IF u.layers[i] = None THEN [u EXCEPT !.layers[i] = c]
  ELSE IF u.layers[i] # c /\ i < u.invalidFrom THEN [u EXCEPT !.invalidFrom = i]
  ELSE u

\* Mutant: a unit is dropped as soon as the limit is reached.
TrimPendingEarly(p) ==
  IF Cardinality(Units(p)) >= MaxPendingUnits
    THEN Delete(p, {Earliest(p, Units(p))})
    ELSE p

\* trimPending: one object adds at most one unit, so at most one is deleted.
TrimPending(p) ==
  IF Cardinality(Units(p)) > MaxPendingUnits
    THEN Delete(p, {Earliest(p, Units(p))})
    ELSE p

\* What every call of addObject does, whatever it makes of the object.
CallAddObject(i) ==
  /\ ~notifying[i]
  /\ received < MaxReceived
  /\ received' = received + 1
  /\ notifying' = [notifying EXCEPT ![i] = TRUE]
  /\ UNCHANGED <<playVars, wake, runner, alarm, clock>>

AddObject(i, k, c) ==
  /\ CallAddObject(i)
  /\ pending' = TrimPending([pending EXCEPT ![k] = WithLayer(pending[k], i, c)])

\* addObject on an unknown track, a bad frame marking or no timestamp.
DropObject(i) ==
  /\ CallAddObject(i)
  /\ UNCHANGED pending

\* Mutant: a wake channel without a buffer, so that the send is lost unless
\* the run goroutine is waiting for it.
NotifyUnbuffered(i) ==
  /\ notifying[i]
  /\ notifying' = [notifying EXCEPT ![i] = FALSE]
  /\ wake' = (wake \/ runner = "select")
  /\ UNCHANGED <<pending, playVars, runner, alarm, received, clock>>

\* notifyPlayback, after the mutex was released: a full channel is left alone.
NotifyPlayback(i) ==
  /\ notifying[i]
  /\ notifying' = [notifying EXCEPT ![i] = FALSE]
  /\ wake' = TRUE
  /\ UNCHANGED <<pending, playVars, runner, alarm, received, clock>>

-----------------------------------------------------------------------------
(* The steps of advance(now) *)

\* Mutant: the stall starts at the media time where playback stopped.
EnterStallAtMediaTime(now) ==
  IF state = "stalled" THEN UNCHANGED <<state, stallCount, stallStarted>>
  ELSE /\ state' = "stalled"
       /\ stallCount' = stallCount + 1
       /\ stallStarted' = lastPresented

EnterStall(now) ==
  IF state = "stalled" THEN UNCHANGED <<state, stallCount, stallStarted>>
  ELSE /\ state' = "stalled"
       /\ stallCount' = stallCount + 1
       /\ stallStarted' = now

\* Mutant: the stall is closed with the operands of the difference swapped.
LeaveStallSwapped(now) ==
  /\ stallStarted' = None
  /\ stallDuration' = IF stallStarted = None THEN stallDuration
                      ELSE stallDuration + (stallStarted - now)

\* Mutant: the stall is accounted for but not closed.
LeaveStallOpen(now) ==
  /\ UNCHANGED stallStarted
  /\ stallDuration' = IF stallStarted = None THEN stallDuration
                      ELSE stallDuration + (now - stallStarted)

LeaveStall(now) ==
  /\ stallStarted' = None
  /\ stallDuration' = IF stallStarted = None THEN stallDuration
                      ELSE stallDuration + (now - stallStarted)

\* present(unit, now), once active' is settled.
Present(k, now) ==
  /\ lastPresented' = pending[k].layers[0].ts
  /\ lastPresentedAt' = now
  /\ started' = TRUE
  /\ state' = "playing"
  /\ switchState' = IF active' < Target THEN "waiting_independent" ELSE "stable"

\* tryStart with a candidate that is due.
StartPlaying(now) ==
  LET k == StartUnit(pending)
      prefix == CompletePrefix(pending[k])
  IN  /\ StartCandidates(pending) # {}
      /\ now >= StartDeadline(pending)
      /\ valid' = [i \in Layers |-> i <= prefix \/ valid[i]]
      /\ active' = prefix
      /\ LeaveStall(now)
      /\ Present(k, now)
      /\ pending' = Delete(pending, {k})
      /\ UNCHANGED stallCount

\* tryStart with a candidate that is not due yet.
WaitForDeadline(now) ==
  /\ StartCandidates(pending) # {}
  /\ now < StartDeadline(pending)
  /\ state' = "buffering"
  /\ UNCHANGED <<pending, active, valid, switchState, started, lastPresented,
                 lastPresentedAt, stallStarted, stallCount, stallDuration>>

\* tryStart without a candidate.
WaitForCandidate(now) ==
  /\ StartCandidates(pending) = {}
  /\ IF started
       THEN EnterStall(now) /\ switchState' = "waiting_independent"
       ELSE state' = "buffering" /\ UNCHANGED <<stallCount, stallStarted, switchState>>
  /\ UNCHANGED <<pending, active, valid, started, lastPresented,
                 lastPresentedAt, stallDuration>>

TryStart(now) == StartPlaying(now) \/ WaitForDeadline(now) \/ WaitForCandidate(now)

\* Mutant: a downswitch does not clear the layers above the prefix.
ValidAfterKept(u) ==
  [i \in Layers |-> valid[i] \/ (Independent(u) /\ i <= CompletePrefix(u))]

\* The decoder state after the due unit u: layers above its complete prefix
\* become unusable, an independent unit makes those up to it usable.
ValidAfter(u) ==
  LET prefix == CompletePrefix(u)
  IN  [i \in Layers |->
         \/ valid[i] /\ (i <= prefix \/ prefix >= active)
         \/ Independent(u) /\ i <= prefix]

\* Mutant: the complete prefix is played, also when the unit is a delta.
ActiveAfterAny(u) == CompletePrefix(u)

\* The layer to play u at: its prefix when it is independent; otherwise the
\* highest usable layer that is neither above the prefix nor above active.
ActiveAfter(u) ==
  LET prefix == CompletePrefix(u)
      playable == {i \in Layers : i <= prefix /\ i <= active /\ ValidAfter(u)[i]}
  IN  IF Independent(u) THEN prefix
      ELSE IF playable = {} THEN -1
      ELSE CHOOSE i \in playable : \A j \in playable : j <= i

\* The loop of advance finds nothing that is due; nextUnit has cleaned up.
NothingDue(now) ==
  /\ Upcoming(pending, lastPresented) # {} =>
       now < PresentationDeadline(Timestamp(pending[NextUnit(pending, lastPresented)]))
  /\ pending' = Delete(pending, Passed(pending, lastPresented))
  /\ UNCHANGED playVars

\* A unit is due.  If no layer of it is playable the player stalls and the
\* unit stays; otherwise it is presented.  The loop then comes back to
\* nextUnit, which deletes what the presentation made old, and stops there:
\* the deadline of a later unit is after now.
DueUnit(now) ==
  LET k == NextUnit(pending, lastPresented)
  IN  /\ Upcoming(pending, lastPresented) # {}
      /\ now >= PresentationDeadline(Timestamp(pending[k]))
      /\ valid' = ValidAfter(pending[k])
      /\ active' = ActiveAfter(pending[k])
      /\ IF active' < 0
           THEN /\ EnterStall(now)
                /\ switchState' = "waiting_independent"
                /\ pending' = Delete(pending, Passed(pending, lastPresented))
                /\ UNCHANGED <<started, lastPresented, lastPresentedAt, stallDuration>>
           ELSE /\ Present(k, now)
                /\ pending' = Delete(pending, Passed(pending, lastPresented'))
                /\ UNCHANGED <<stallStarted, stallCount, stallDuration>>

Advance(now) ==
  \/ active < 0 /\ TryStart(now)
  \/ active >= 0 /\ (NothingDue(now) \/ DueUnit(now))

-----------------------------------------------------------------------------
(* The run goroutine *)

\* The timer channel delivers the time at which the timer fired, which may
\* lie behind the clock when the select is served.
TimerFires ==
  /\ runner = "select"
  /\ alarm # None
  /\ \E at \in alarm .. clock : Advance(at)
  /\ alarm' = None
  /\ runner' = "schedule"
  /\ UNCHANGED <<wake, notifying, received, clock>>

WakeUp ==
  /\ runner = "select"
  /\ wake
  /\ wake' = FALSE
  /\ Advance(clock)
  /\ runner' = "schedule"
  /\ UNCHANGED <<notifying, alarm, received, clock>>

\* schedule(): the timer is stopped and drained and, under the mutex, the next
\* deadline is read.
Schedule ==
  /\ runner = "schedule"
  /\ alarm' = NextAdvanceDeadline(pending)
  /\ pending' = Delete(pending, IF active >= 0 THEN Passed(pending, lastPresented) ELSE {})
  /\ runner' = "arm"
  /\ UNCHANGED <<playVars, wake, notifying, received, clock>>

\* The rest of schedule(), outside the mutex: the timer is reset to what is
\* left until the deadline, a past one fires at once; then the select is
\* entered.  Objects may arrive before and after.
Arm ==
  /\ runner = "arm"
  /\ alarm' = IF alarm = None \/ alarm >= clock THEN alarm ELSE clock
  /\ runner' = "select"
  /\ UNCHANGED <<pending, playVars, wake, notifying, received, clock>>

\* ctx.Done
Cancel ==
  /\ runner = "select"
  /\ runner' = "stopped"
  /\ alarm' = None
  /\ UNCHANGED <<pending, playVars, wake, notifying, received, clock>>

Tick ==
  /\ clock < MaxTime
  /\ clock' = clock + 1
  /\ UNCHANGED <<pending, playVars, wake, notifying, runner, alarm, received>>

\* Everything but the arrival of objects.
Internal ==
  \/ \E i \in Layers : NotifyPlayback(i)
  \/ TimerFires
  \/ WakeUp
  \/ Schedule
  \/ Arm
  \/ Cancel
  \/ Tick

Next ==
  \/ \E i \in Layers, k \in Keys : \E c \in Contents[k] : AddObject(i, k, c)
  \/ \E i \in Layers : DropObject(i)
  \/ Internal

Spec == Init /\ [][Next]_vars

\* The run goroutine can take a step other than ctx.Done: this is what
\* ENABLED (TimerFires \/ WakeUp \/ Schedule \/ Arm) amounts to, Advance being
\* total.
RunnerReady ==
  \/ runner \in {"schedule", "arm"}
  \/ runner = "select" /\ (wake \/ (alarm # None /\ alarm <= clock))

\* Goroutines that can run do run: the run loop serves its select (its steps
\* are the ones that move runner), a reader that left addObject notifies.
RunFairness ==
  /\ []<>(~RunnerReady) \/ []<><<runner' # runner>>_vars
  /\ WF_vars(\E i \in Layers : NotifyPlayback(i))

FairSpec == Spec /\ RunFairness

-----------------------------------------------------------------------------
(* Properties *)

UnitType == [layers : [Layers -> Content \cup {None}], invalidFrom : 0 .. NumLayers]

TypeOK ==
  /\ pending \in [Keys -> UnitType]
  /\ active \in -1 .. Target
  /\ valid \in [Layers -> BOOLEAN]
  /\ state \in {"starting", "buffering", "playing", "stalled"}
  /\ switchState \in {"stable", "waiting_independent"}
  /\ started \in BOOLEAN
  /\ lastPresented \in Nat \cup {None}
  /\ lastPresentedAt \in Nat \cup {None}
  /\ stallStarted \in Nat \cup {None}
  /\ stallCount \in Nat
  /\ stallDuration \in Nat
  /\ wake \in BOOLEAN
  /\ notifying \in [Layers -> BOOLEAN]
  /\ runner \in {"schedule", "arm", "select", "stopped"}
  /\ alarm \in Nat \cup {None}
  /\ received \in 0 .. MaxReceived
  /\ clock \in 0 .. MaxTime

\* The decoder state that advance keeps in valid and the layer it plays are
\* two records of the same thing: exactly the layers up to active are usable.
\* A downswitch that left a stale flag, or a start that did not set one, would
\* let a later delta unit be played on a layer whose reference is missing.
ActiveChainValid == \A i \in Layers : valid[i] <=> i <= active

\* What has been presented and when are recorded together.
PresentedTogether ==
  /\ started <=> lastPresented # None
  /\ started <=> lastPresentedAt # None
  /\ active >= 0 => started

\* Nothing is recorded ahead of the clock, and a timer that the run goroutine
\* waits for was set after everything that is recorded.
TimesInOrder ==
  /\ lastPresentedAt # None => lastPresentedAt <= clock
  /\ stallStarted # None => stallStarted <= clock
  /\ runner = "select" /\ alarm # None =>
       /\ lastPresentedAt # None => lastPresentedAt <= alarm
       /\ stallStarted # None => stallStarted <= alarm

\* A stall does not begin before the last presentation.
StallAfterLast == stallStarted # None => lastPresentedAt <= stallStarted

\* The state and switch state that snapshot reports follow the decoder: the
\* player says it is playing exactly while a layer is active, it has a stall
\* running exactly while it has started and has none, and it waits for an
\* independent unit exactly while it plays below its target.
ReportedStateAgrees ==
  /\ state = "playing" <=> active >= 0
  /\ stallStarted # None <=> started /\ active < 0
  /\ started => (switchState = "stable" <=> active = Target)

\* presentationDeadline and tryStart together never show a unit ahead of the
\* target latency, however late units, stalls and restarts are mixed.
NeverAheadOfTarget ==
  lastPresented # None => lastPresentedAt >= lastPresented + TargetLatency

\* The step presents a unit at layer active'.
Presents == <<lastPresented, lastPresentedAt>>' # <<lastPresented, lastPresentedAt>>

\* What advance presents is a unit that is complete up to the layer it plays
\* it at, and playing at a higher layer than before takes an independent unit:
\* a complete delta never upswitches.
UpswitchOnlyAtIndependent ==
  [][Presents =>
       \E k \in Units(pending) :
         /\ pending'[k] = NoUnit
         /\ CompleteUpTo(pending[k], active')
         /\ lastPresented' = pending[k].layers[0].ts
         /\ active' > active => Independent(pending[k])]_vars

\* While it plays, the player moves forward in media time at the fixed rate
\* one: two presentations are at least as far apart as their timestamps, also
\* when units were late and a timer value lies behind the clock.
FixedRate ==
  [][Presents /\ active >= 0 =>
       /\ lastPresented' > lastPresented
       /\ lastPresentedAt' - lastPresentedAt >= lastPresented' - lastPresented]_vars

\* The stall time that snapshot reports grows only when playback restarts, and
\* then by no more than the time since the last presentation: whatever order
\* stalls, lost candidates and lagging timer values come in, no time in which
\* the player was playing is counted and none is counted backwards.
StallsWithinGaps ==
  [][LET charged == stallDuration' - stallDuration
     IN  IF started /\ active < 0 /\ active' >= 0
           THEN charged \in 0 .. lastPresentedAt' - lastPresentedAt
           ELSE charged = 0]_vars

\* Something can be presented now: its deadline has passed.
Due ==
  LET deadline == NextAdvanceDeadline(pending)
  IN  deadline # None /\ deadline <= clock

\* What is due does not stay due: the player presents it, stalls, or another
\* arrival changes what is due, unless the run goroutine was cancelled.
DueIsServed == []<>(~Due \/ runner = "stopped")

\* What makes that so: no wake-up is lost.  Whatever is due, somebody is about
\* to act on it: the run goroutine, or a reader that has yet to notify it.
NoLostWakeup ==
  Due => RunnerReady \/ (\E i \in Layers : notifying[i]) \/ runner = "stopped"

\* The reason: between schedule() and the next object the timer is set to the
\* current deadline, or to the time schedule() ran at if that is later.
Armed ==
  LET deadline == NextAdvanceDeadline(pending)
  IN  (/\ runner \in {"arm", "select"}
       /\ ~wake
       /\ \A i \in Layers : ~notifying[i]
       /\ deadline # None)
        => alarm # None /\ (alarm <= deadline \/ alarm <= clock)

=============================================================================
