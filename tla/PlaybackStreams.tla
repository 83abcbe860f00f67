--------------------------- MODULE PlaybackStreams ---------------------------
(***************************************************************************)
(* The player of Playback fed the way the transport feeds it.  Every group *)
(* of every track is one subgroup stream: its objects arrive in order and  *)
(* once, not before the publisher wrote them and, while the stream lives,  *)
(* not later than MaxDelay after that; a stream may be reset, which loses  *)
(* the rest of it.  Streams of different tracks and of different groups    *)
(* overtake each other.                                                    *)
(***************************************************************************)
EXTENDS Playback

CONSTANTS
  MaxDelay,    \* bound: the longest transfer of an object, in clock units
  Prompt,      \* goroutines are served within the clock unit they are ready in
  MaxResets    \* bound: streams that may be reset in a behaviour

ASSUME DelayAssumption == MaxDelay \in Nat /\ Prompt \in BOOLEAN /\ MaxResets \in Nat

\* Every layer of a unit carries the same marking and its own timestamp.
ASSUME MediaAssumption ==
  \A k \in Keys :
    /\ Contents[k] # {}
    /\ \A c, d \in Contents[k] : c = d
    /\ \A j \in Keys \ {k} : \A c \in Contents[k], d \in Contents[j] : c.ts # d.ts

\* PublishLOCTrack counts samples and objects up, and the loader accepts only
\* chains whose groups are single GOPs: a group is led by its independent unit,
\* has no gaps, and timestamps follow the order of the keys.
ASSUME GroupAssumption ==
  /\ \A k \in Keys : \A c \in Contents[k] : c.indep <=> k[2] = 0
  /\ \A k \in Keys : k[2] > 0 => <<k[1], k[2] - 1>> \in Keys
  /\ \A j, k \in Keys : \A c \in Contents[j], d \in Contents[k] :
       j[1] < k[1] \/ (j[1] = k[1] /\ j[2] < k[2]) => c.ts < d.ts

VARIABLES
  delivered,   \* layer -> the keys of its objects handed to the reader
  dead         \* the streams <<layer, group>> that were reset

streamVars == <<delivered, dead>>
allVars == <<vars, streamVars>>

\* What the objects of unit k carry.
Media(k) == CHOOSE c \in Contents[k] : TRUE

Predecessors(k) == {j \in Keys : j[1] = k[1] /\ j[2] < k[2]}

\* Object k of layer i is still to come.
Awaited(i, k) == k \notin delivered[i] /\ <<i, k[1]>> \notin dead

StreamInit ==
  /\ Init
  /\ delivered = [i \in Layers |-> {}]
  /\ dead = {}

\* The reader of track i gets the next object of a stream.
Deliver(i, k) ==
  /\ Awaited(i, k)
  /\ Predecessors(k) \subseteq delivered[i]
  /\ clock >= Media(k).ts
  /\ AddObject(i, k, Media(k))
  /\ delivered' = [delivered EXCEPT ![i] = @ \cup {k}]
  /\ UNCHANGED dead

Reset(i, g) ==
  /\ Cardinality(dead) < MaxResets
  /\ \E k \in Keys : k[1] = g /\ Awaited(i, k)
  /\ dead' = dead \cup {<<i, g>>}
  /\ UNCHANGED <<vars, delivered>>

\* Time does not pass an object that must have arrived by now nor, if Prompt,
\* a goroutine that is ready to run.
StreamTick ==
  /\ Prompt => ~RunnerReady /\ \A i \in Layers : ~notifying[i]
  /\ \A i \in Layers, k \in Keys : Awaited(i, k) => clock < Media(k).ts + MaxDelay
  /\ Tick
  /\ UNCHANGED streamVars

StreamNext ==
  \/ \E i \in Layers, k \in Keys : Deliver(i, k)
  \/ \E i \in Layers, k \in Keys : Reset(i, k[1])
  \/ \E i \in Layers : NotifyPlayback(i) /\ UNCHANGED streamVars
  \/ TimerFires /\ UNCHANGED streamVars
  \/ WakeUp /\ UNCHANGED streamVars
  \/ Schedule /\ UNCHANGED streamVars
  \/ Arm /\ UNCHANGED streamVars
  \/ StreamTick

StreamSpec == StreamInit /\ [][StreamNext]_allVars

\* Besides the goroutines, time passes and live streams make progress.
StreamFairness ==
  /\ []<>(~RunnerReady) \/ []<><<runner' # runner>>_allVars
  /\ WF_allVars(\E i \in Layers : NotifyPlayback(i) /\ UNCHANGED streamVars)
  /\ WF_allVars(\E i \in Layers, k \in Keys : Deliver(i, k))
  /\ WF_allVars(StreamTick)

FairStreamSpec == StreamSpec /\ StreamFairness

-----------------------------------------------------------------------------
\* The key of the unit whose timestamp this is.
UnitAt(ts) == CHOOSE k \in Keys : Media(k).ts = ts

\* A delta unit is played only on top of the unit it refers to: the one that
\* was presented immediately before it is its predecessor in the group, and it
\* was presented at no lower a layer.
ReferenceChain ==
  [][Presents /\ UnitAt(lastPresented')[2] > 0 =>
       /\ active >= 0 /\ active' <= active
       /\ UnitAt(lastPresented) = <<UnitAt(lastPresented')[1], UnitAt(lastPresented')[2] - 1>>]_allVars

\* Playback never moves back in media time, across stalls and restarts too.
NoRewind == [][started => lastPresented' >= lastPresented]_allVars

\* A reset stream, late layers and stalls do not stop playback for good: the
\* independent unit of the last group, or the unit after it, is presented unless
\* that group itself was cut.
LastStart ==
  CHOOSE k \in Keys :
    /\ Media(k).indep
    /\ \A j \in Keys : Media(j).indep => Media(j).ts <= Media(k).ts

ReachesLastGroup ==
  <>(\/ started /\ lastPresented >= Media(LastStart).ts
     \/ \E i \in Layers : <<i, LastStart[1]>> \in dead)

\* The goroutines have nothing left to do at this time.
Quiet == ~RunnerReady /\ \A i \in Layers : ~notifying[i]

\* The first unit is presented as soon as it has reached the target latency and
\* it and the minimal buffer behind it have arrived in full: nothing that was
\* buffered for it is given up before.
StartsAtTargetLatency ==
  \A k \in Keys :
    (/\ Quiet
     /\ \A j \in Keys : Media(k).ts <= Media(j).ts
     /\ \A i \in Layers, j \in Keys :
          Media(j).ts <= Media(k).ts + MinimalBuffer => j \in delivered[i]
     /\ clock >= Media(k).ts + TargetLatency)
      => started

-----------------------------------------------------------------------------
(* What the proofs assume of the transport, and the inductive invariant *)

\* No object of an independent unit is later than the target latency after a
\* later group: otherwise the player may restart on a group it has passed.
NotAGroupLate ==
  \A j, k \in Keys :
    Media(j).indep /\ j[1] < k[1] => Media(j).ts + MaxDelay < Media(k).ts + TargetLatency

\* The minimal buffer ends on a unit: it is full when that unit has arrived.
BufferEndsOnUnit ==
  \A k \in Keys :
    (\A j \in Keys : Media(k).ts <= Media(j).ts) =>
      \E j \in Keys : Media(j).ts = Media(k).ts + MinimalBuffer

\* The next object, whichever it is, does not exceed the limit of trimPending.
RoomForNext ==
  \A i \in Layers, k \in Keys :
    Awaited(i, k) => Cardinality(Units(pending) \cup {k}) <= MaxPendingUnits

\* A buffered layer is the object its stream delivered, and none is disputed.
AsSent ==
  \A k \in Keys :
    /\ pending[k].invalidFrom = NumLayers
    /\ \A i \in Layers : pending[k].layers[i] # None =>
         pending[k].layers[i] = Media(k) /\ k \in delivered[i]

\* Within a stream nothing is overtaken.
InStreamOrder == \A i \in Layers : \A k \in delivered[i] : Predecessors(k) \subseteq delivered[i]

\* What is still to come is not later than MaxDelay.
OnTime == \A i \in Layers, k \in Keys : Awaited(i, k) => clock <= Media(k).ts + MaxDelay

\* The timestamp presented last is that of a unit whose base layer arrived.
LastIsUnit == started => \E k \in delivered[0] : lastPresented = Media(k).ts

\* There is no independent unit to restart on before the last presentation,
\* once schedule() has cleaned up after it.
NoOldStart ==
  started => \/ runner = "schedule" /\ active >= 0
             \/ \A k \in Keys : Media(k).indep /\ pending[k].layers[0] # None =>
                                 Media(k).ts >= lastPresented

StreamInv ==
  /\ delivered \in [Layers -> SUBSET Keys]
  /\ runner # "stopped"
  /\ AsSent
  /\ InStreamOrder
  /\ OnTime
  /\ LastIsUnit
  /\ NoOldStart

\* A delivered object is buffered until playback has passed it, unless the
\* limit was reached.
NothingLost ==
  \A i \in Layers : \A k \in delivered[i] :
    pending[k].layers[i] # None \/ (started /\ Media(k).ts <= lastPresented)

=============================================================================
