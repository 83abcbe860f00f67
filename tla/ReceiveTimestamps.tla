--------------------------- MODULE ReceiveTimestamps ---------------------------
(***************************************************************************)
(* The arrival times that the forked QUIC stack reports in its             *)
(* acknowledgements (deps/quic-go): the packet history and the ring of     *)
(* arrival times of appDataReceivedPacketTracker, its rules for when an    *)
(* ACK is due, PrepareReceiveTimestamps, Truncate, and the encoding as     *)
(* unsigned differences from the highest packet number down.               *)
(*                                                                         *)
(* Packets arrive in any order, are lost and arrive twice; one that could  *)
(* not be decrypted at once is handled later, with its own arrival time.   *)
(* The history is the set of packet numbers in its ranges.  A byte budget  *)
(* is the number of timestamps or ranges that fit into it.                 *)
(***************************************************************************)
EXTENDS Integers, SequencesExt

CONSTANTS
  MaxPacket,        \* bound: the highest packet number
  MaxArrivals,      \* bound: how many packets arrive
  MaxTime,          \* bound: the last value of the clock
  MaxLate,          \* bound: how long a packet waits for its keys
  MaxAckDelay,      \* protocol.MaxAckDelay
  MaxNumAckRanges,  \* 64 in the code
  RingSize,         \* 256 in the code
  PeerLimits,       \* values of the peer's max_receive_timestamps
  Scale,            \* 2^receive_timestamps_exponent
  Word              \* 2^64 in the code

ASSUME TimestampAssumption ==
  /\ {MaxPacket, MaxArrivals, MaxTime, MaxLate} \subseteq Nat
  /\ {MaxAckDelay, MaxNumAckRanges, RingSize, Scale} \subseteq Nat \ {0}
  /\ PeerLimits \subseteq Nat
  /\ Word \in Nat /\ Word % 4 = 0 /\ Word > 8 * (MaxTime + 1) /\ Word > 8 * (MaxPacket + 1)

VARIABLES
  clock,           \* monotime.Now()
  limit,           \* timestampLimit; 0 before the peer asked for timestamps
  history,         \* packetHistory.ranges, as a set
  deletedBelow,    \* packetHistory.deletedBelow and ignoreBelow; -1 initially
  ring, cursor, count,   \* timestamps, timestampCursor, timestampCount
  largest,         \* largestObserved
  acksSent,        \* the largest packet of each ACK that the peer may confirm
  lastAck,         \* what lastAck acknowledges; {} when there is none
  hasNewAck, ackQueued, alarm, sinceLastAck,
  arrivals,        \* history: packet number and time of every arrival
  sent             \* history: the frame that the last step sent

ackVars == <<lastAck, hasNewAck, ackQueued, alarm, sinceLastAck>>
ringVars == <<ring, cursor, count>>
vars == <<clock, limit, history, deletedBelow, ringVars, largest, acksSent, ackVars, arrivals, sent>>

NoStamp == [packet |-> 0, micros |-> 0]
NoFrame == [acked |-> {}, times |-> <<>>, whole |-> TRUE]

Init ==
  /\ clock = 0 /\ limit = 0
  /\ history = {} /\ deletedBelow = -1
  /\ ring = [i \in 0..(RingSize - 1) |-> NoStamp] /\ cursor = 0 /\ count = 0
  /\ largest = 0 /\ lastAck = {} /\ acksSent = {}
  /\ hasNewAck = FALSE /\ ackQueued = FALSE /\ alarm = 0 /\ sinceLastAck = 0
  /\ arrivals = <<>> /\ sent = NoFrame

-------------------------------------------------------------------------------
(***************************************************************************)
(* Receiving.                                                              *)
(***************************************************************************)

\* enableReceiveTimestamps, when the peer's transport parameters are applied.
Enable ==
  /\ limit = 0 /\ arrivals = <<>>
  /\ \E asked \in PeerLimits : limit' = Min({asked, RingSize})
  /\ UNCHANGED <<clock, history, deletedBelow, ringVars, largest, acksSent, ackVars, arrivals, sent>>

\* The ranges of a set of packet numbers, and its n highest ranges.
RangeStarts(s) == {p \in s : p - 1 \notin s}
HighestRanges(s, n) == {p \in s : Cardinality({q \in RangeStarts(s) : q > p}) < n}
RangeStart(s, p) == Max({q \in RangeStarts(s) : q <= p})

\* A packet of a range that was deleted for their number may come again.
IsPotentiallyDuplicate(p) == p < deletedBelow \/ p \in history

\* isMissing and hasNewMissingPackets, against the history after the packet.
IsMissing(p) == lastAck # {} /\ p >= deletedBelow' /\ p < Max(lastAck) /\ p \notin lastAck
HighestMissingUpTo(p) ==
  IF history' = {} \/ p < deletedBelow' THEN -1
  ELSE LET q == Min({Max(history'), p})
           gap == IF q \in history' THEN RangeStart(history', q) - 1 ELSE q
       IN  IF q \in history' /\ gap < deletedBelow' THEN -1 ELSE gap
HasNewMissingPackets ==
  /\ lastAck # {} /\ largest' >= 1
  /\ HighestMissingUpTo(largest' - 1) # -1
  /\ HighestMissingUpTo(largest' - 1) >= Max(lastAck)

\* The ring.
Stamp(p, t) == [packet |-> p, micros |-> t \div Scale]
RecordTimestamp(p, t) ==
  IF limit = 0 THEN UNCHANGED ringVars
  ELSE /\ ring' = [ring EXCEPT ![cursor] = Stamp(p, t)]
       /\ cursor' = (cursor + 1) % limit
       /\ count' = Min({count + 1, limit})

\* An ACK is queued for a packet reported missing, for every second packet, for a
\* new gap and for a congestion mark; else a timer is set.
ScheduleAckQuietly(p, t, ce) ==
  /\ hasNewAck' = TRUE /\ sinceLastAck' = sinceLastAck + 1
  /\ ackQueued' = (ackQueued \/ IsMissing(p) \/ sinceLastAck' >= 2 \/ ce)
  /\ UNCHANGED alarm
ScheduleAck(p, t, ce) ==
  /\ hasNewAck' = TRUE
  /\ sinceLastAck' = sinceLastAck + 1
  /\ ackQueued' = (\/ ackQueued \/ IsMissing(p) \/ sinceLastAck' >= 2
                   \/ HasNewMissingPackets \/ ce)
  /\ alarm' = CASE ackQueued -> alarm [] ~ackQueued /\ ackQueued' -> 0 [] OTHER -> t + MaxAckDelay

ReceivedPacket(p, t, ackEliciting, ce) ==
  /\ RecordTimestamp(p, t)
  /\ largest' = Max({largest, p})
  /\ IF ackEliciting THEN ScheduleAck(p, t, ce)
     ELSE UNCHANGED <<hasNewAck, ackQueued, alarm, sinceLastAck>>

\* IgnoreBelow and DeleteBelow, then the packet and the limit on the ranges.
Ignored(below) == IF below > Max({0, deletedBelow}) THEN below ELSE deletedBelow
Remembered(below, p) == HighestRanges({q \in history : q >= below} \cup {p}, MaxNumAckRanges)

\* The frames of a packet are handled before the packet counts as received.  If
\* one of them confirms an ACK, what that ACK acknowledged is forgotten; the peer
\* sent such a packet after all that it had acknowledged.
Receive ==
  /\ Len(arrivals) < MaxArrivals /\ clock + MaxAckDelay <= MaxTime
  /\ \E p \in 0..MaxPacket, t \in Max({0, clock - MaxLate})..clock,
        kind \in {[ackEliciting |-> FALSE, ce |-> FALSE]} \cup [ackEliciting : {TRUE}, ce : BOOLEAN],
        confirmed \in acksSent \cup {-1} :
       /\ p > confirmed /\ ~IsPotentiallyDuplicate(p)
       /\ deletedBelow' = Ignored(confirmed + 1)
       /\ history' = Remembered(deletedBelow', p)
       /\ ReceivedPacket(p, t, kind.ackEliciting, kind.ce)
       /\ acksSent' = {a \in acksSent : a > confirmed}
       /\ arrivals' = Append(arrivals, <<p, t>>)
  /\ sent' = NoFrame
  /\ UNCHANGED <<clock, limit, lastAck>>

-------------------------------------------------------------------------------
(***************************************************************************)
(* Acknowledging.                                                          *)
(***************************************************************************)

\* PrepareReceiveTimestamps: sorted by packet number, the highest first; without
\* packets the frame does not acknowledge, a second arrival of a packet, and
\* packets that arrived after one with a higher number.  The sort does not say
\* which of two arrivals of a packet comes first.
Descending(stamps) ==
  {s \in SetToSeqs(stamps) : \A i, j \in DOMAIN s : i < j => s[i].packet >= s[j].packet}
KeptTwice(acked, out, x) ==
  x.packet \in acked /\ (out # <<>> => x.micros <= Last(out).micros)
KeptIfEarlier(acked, out, x) ==
  x.packet \in acked /\ (out # <<>> => x.packet # Last(out).packet /\ x.micros < Last(out).micros)
Kept(acked, out, x) ==
  /\ x.packet \in acked
  /\ out # <<>> => x.packet # Last(out).packet /\ x.micros <= Last(out).micros
PrepareReceiveTimestamps(acked, sorted) ==
  LET out[n \in 0..Len(sorted)] ==
        IF n = 0 THEN <<>>
        ELSE LET done == out[n - 1]
             IN  IF Kept(acked, done, sorted[n]) THEN Append(done, sorted[n]) ELSE done
  IN  out[Len(sorted)]

\* GetAckFrame, and Truncate to what the packet has room for: timestamps are
\* dropped from the end, ranges only when no timestamp is left.
Due == ackQueued \/ (alarm # 0 /\ alarm <= clock)
GetAckFrame(onlyIfQueued) ==
  /\ hasNewAck /\ (onlyIfQueued => Due)
  /\ \E sorted \in Descending({ring[i] : i \in 0..(count - 1)}) :
       LET times == IF limit > 0 THEN PrepareReceiveTimestamps(history, sorted) ELSE <<>>
       IN  \E room \in 0..Len(times), ranges \in 1..Cardinality(RangeStarts(history)) :
             /\ room > 0 => ranges = Cardinality(RangeStarts(history))
             /\ lastAck' = HighestRanges(history, ranges)
             /\ sent' = [acked |-> lastAck', times |-> SubSeq(times, 1, room),
                         whole |-> room = Len(times)]
             /\ acksSent' = acksSent \cup {Max(lastAck')}
  /\ hasNewAck' = FALSE /\ ackQueued' = FALSE /\ alarm' = 0 /\ sinceLastAck' = 0
  /\ UNCHANGED <<clock, limit, history, deletedBelow, ringVars, largest, arrivals>>

Tick ==
  /\ clock < MaxTime /\ clock' = clock + 1
  /\ sent' = NoFrame
  /\ UNCHANGED <<limit, history, deletedBelow, ringVars, largest, acksSent, ackVars, arrivals>>

\* appendReceiveTimestamps: the times as differences, in unsigned arithmetic, in
\* runs of consecutive packet numbers with the gap in front of each.  An entry is
\* one time, with whether a run starts at it.
Difference(a, b) == (a - b) % Word
StartsRun(times, i) == i = 1 \/ times[i - 1].packet - times[i].packet # 1
Gap(times, i) ==
  IF i > 1 /\ StartsRun(times, i) THEN Difference(times[i - 1].packet, times[i].packet + 2) ELSE 0
Delta(times, i) ==
  Difference(IF i = 1 THEN 2 * times[1].micros ELSE times[i - 1].micros, times[i].micros)
Encoded(times) ==
  [packet |-> times[1].packet, micros |-> times[1].micros,
   entries |-> [i \in DOMAIN times |->
                  [starts |-> StartsRun(times, i), gap |-> Gap(times, i), delta |-> Delta(times, i)]]]

\* What the peer makes of it, entry by entry.
Decoded(w) ==
  LET got[n \in 1..Len(w.entries)] ==
        LET e == w.entries[n]
        IN  IF n = 1 THEN [packet |-> w.packet, micros |-> 2 * w.micros - e.delta]
            ELSE [packet |-> got[n - 1].packet - (IF e.starts THEN e.gap + 2 ELSE 1),
                  micros |-> got[n - 1].micros - e.delta]
  IN  {got[n] : n \in 1..Len(w.entries)}

Next ==
  \/ Enable \/ Receive \/ Tick
  \/ GetAckFrame(TRUE) \/ GetAckFrame(FALSE)

Spec == Init /\ [][Next]_vars

\* The connection's loop wakes up when an ACK is due, and time passes.
FairSpec == Spec /\ WF_vars(GetAckFrame(TRUE)) /\ WF_vars(Tick)

-------------------------------------------------------------------------------
\* "Omit ... rather than falsifying delay": the peer reads from the frame, for
\* packets that the frame acknowledges and no others, a time at which the packet
\* arrived.  A difference that wraps around, of times or packet numbers, would
\* break it.
ReportsAreArrivals ==
  sent.times # <<>> =>
    \A x \in Decoded(Encoded(sent.times)) :
      /\ x.packet \in sent.acked
      /\ \E k \in DOMAIN arrivals : x = Stamp(arrivals[k][1], arrivals[k][2])

\* Nothing else is left out: a frame with room reports, of the latest arrivals, as
\* many as the peer asked for and whatever kind of packet they were, every one that
\* it acknowledges, unless a packet with a higher number that it reports arrived
\* before it.
OmittedOnlyIfOvertaken ==
  sent # NoFrame /\ sent.whole =>
    \A k \in DOMAIN arrivals :
      LET x == Stamp(arrivals[k][1], arrivals[k][2])
      IN  k > Len(arrivals) - limit /\ x.packet \in sent.acked =>
            \E i \in DOMAIN sent.times :
              LET r == sent.times[i]
              IN  r.packet = x.packet \/ (r.packet > x.packet /\ r.micros < x.micros)

\* When an ACK-eliciting packet is waiting, every packet in the history, that one
\* included, gets into a frame, at the latest when the timer expires.  What may come
\* in between is always at the low end: the limit on the ranges and the peer's
\* confirmation of an ACK drop the lowest packets from the history, a packet without
\* room drops the lowest ranges from the frame.  Such a packet is never acknowledged
\* if it was late enough (packet 0 after packet 2, with room for one range).
EventuallyAcked ==
  \A p \in 0..MaxPacket :
    (hasNewAck /\ p \in history) ~>
      \/ p \in sent.acked
      \/ sent # NoFrame /\ \A q \in sent.acked : p < q
      \/ \A q \in history : p < q
================================================================================
