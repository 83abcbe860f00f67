------------------------------- MODULE LiveTrack -------------------------------
(***************************************************************************)
(* What a live track promises its subscriber, whatever the packaging: the  *)
(* subscriber joins near the live edge and never gets media from before    *)
(* it joined; from there it gets every sample once and in order, none      *)
(* before the clock has reached it; and the track may end at any time.     *)
(* from is the sample it joined at; the object it got last holds samples   *)
(* got[1] .. got[2] - 1.                                                   *)
(***************************************************************************)
EXTENDS Naturals

CONSTANTS
  MsPerSecond,    \* clock units per second
  Tracks,         \* records with at least timeScale and sampleDur
  Lead,           \* track -> how far ahead of the clock it may start
  Complete        \* track -> whether a sample is sent when it has ended, not when it starts

VARIABLES track, now, phase, from, got

liveVars == <<track, now, phase, from, got>>

Init ==
  /\ track \in Tracks /\ now \in Nat
  /\ phase = "idle" /\ from = 0 /\ got = <<0, 0>>

Clock == now' >= now /\ UNCHANGED <<track, phase, from, got>>

Join ==
  /\ phase = "idle" /\ phase' = "live"
  /\ from' \in Nat /\ got' = <<from', from'>>
  /\ (from' * track.sampleDur + 1) * MsPerSecond > now * track.timeScale
  /\ from' * track.sampleDur * MsPerSecond <= now * track.timeScale + Lead[track]
  /\ UNCHANGED <<track, now>>

\* The clock has reached instant n of the track, to the unit it is read in.
Reached(n) == n * track.sampleDur * MsPerSecond <= (now + 1) * track.timeScale

Release ==
  /\ phase = "live"
  /\ got' \in Nat \X Nat
  /\ got'[1] = got[2] /\ got'[2] > got'[1]
  /\ Reached(IF Complete[track] THEN got'[2] ELSE got'[1])
  /\ UNCHANGED <<track, now, phase, from>>

Leave ==
  /\ phase = "live" /\ phase' = "over"
  /\ UNCHANGED <<track, now, from, got>>

Next == Clock \/ Join \/ Release \/ Leave

Spec == Init /\ [][Next]_liveVars
================================================================================
