--------------------------- MODULE TimestampsProofs ---------------------------
(***************************************************************************)
(* Proofs about ReceiveTimestamps, for every number of packets, every size *)
(* of the ring, every limit the peer asks for and every order of arrival.  *)
(***************************************************************************)
EXTENDS ReceiveTimestamps, LoopLemmas

-----------------------------------------------------------------------------
(* uint64 differences *)

\* A difference that is not negative and below the word does not wrap around.
LEMMA NoWrap ==
  ASSUME NEW a \in Int, NEW b \in Int, Word \in Nat, b <= a, a - b < Word
  PROVE  Difference(a, b) = a - b
<1> DEFINE d == a - b
<1>1. d \in Nat /\ d < Word /\ Word \in Nat \ {0}
  OBVIOUS
<1> HIDE DEF d
<1>2. d % Word = d
  BY <1>1
<1> QED BY <1>2 DEF Difference, d

-----------------------------------------------------------------------------
(* PrepareReceiveTimestamps *)

IsDescending(s) == \A i, j \in DOMAIN s : i < j => s[i].packet >= s[j].packet

\* What the loop over the sorted timestamps has put together.
Collected(acked, sorted) ==
  CHOOSE out : out = [n \in 0..Len(sorted) |->
                        IF n = 0 THEN <<>>
                        ELSE IF Kept(acked, out[n - 1], sorted[n])
                             THEN Append(out[n - 1], sorted[n]) ELSE out[n - 1]]

Collects(out, acked, sorted, b) ==
  out = [n \in 0..b |->
           IF n = 0 THEN <<>>
           ELSE IF Kept(acked, out[n - 1], sorted[n])
                THEN Append(out[n - 1], sorted[n]) ELSE out[n - 1]]

\* The loop is well-defined.
LEMMA CollectedDef ==
  ASSUME NEW acked, NEW T, NEW sorted \in Seq(T)
  PROVE  Collects(Collected(acked, sorted), acked, sorted, Len(sorted))
<1> DEFINE S == {b \in Nat : \E out : Collects(out, acked, sorted, b)}
           N == Len(sorted)
<1>0. N \in Nat
  OBVIOUS
<1>1. 0 \in S
  <2> DEFINE out == [n \in 0..0 |-> <<>>]
  <2>1. Collects(out, acked, sorted, 0)
    BY DEF Collects
  <2> QED BY <2>1
<1>2. \A b \in 0 .. N - 1 : b \in S => b + 1 \in S
  <2> SUFFICES ASSUME NEW b \in 0 .. N - 1, NEW g, Collects(g, acked, sorted, b)
               PROVE  \E out : Collects(out, acked, sorted, b + 1)
    BY <1>0
  <2> DEFINE new == IF Kept(acked, g[b], sorted[b + 1])
                    THEN Append(g[b], sorted[b + 1]) ELSE g[b]
             out == [n \in 0 .. b + 1 |-> IF n = b + 1 THEN new ELSE g[n]]
  <2>0. b \in Nat /\ 0 .. b + 1 = (0 .. b) \cup {b + 1} /\ b + 1 \notin 0 .. b
    BY <1>0
  <2>1. \A n \in 0 .. b : out[n] = g[n]
    BY <2>0
  <2>2. \A n \in 0 .. b : g[n] = IF n = 0 THEN <<>>
                               ELSE IF Kept(acked, g[n - 1], sorted[n])
                                    THEN Append(g[n - 1], sorted[n]) ELSE g[n - 1]
    BY DEF Collects
  <2>3. \A n \in 0 .. b + 1 : n # 0 => out[n - 1] = g[n - 1]
    BY <2>0, <2>1
  <2>4. out[b + 1] = new /\ b + 1 # 0 /\ (b + 1) - 1 = b
    BY <2>0
  <2>5. \A n \in 0 .. b + 1 : out[n] = IF n = 0 THEN <<>>
                               ELSE IF Kept(acked, out[n - 1], sorted[n])
                                    THEN Append(out[n - 1], sorted[n]) ELSE out[n - 1]
    <3> TAKE n \in 0 .. b + 1
    <3>1. CASE n = b + 1
      BY <3>1, <2>3, <2>4
    <3>2. CASE n \in 0 .. b
      BY <3>2, <2>0, <2>1, <2>2, <2>3
    <3> QED BY <3>1, <3>2, <2>0
  <2>6. out = [n \in 0 .. b + 1 |-> out[n]]
    OBVIOUS
  <2> HIDE DEF out, new
  <2>7. Collects(out, acked, sorted, b + 1)
    BY <2>5, <2>6 DEF Collects
  <2> QED BY <2>7
<1>3. N \in S
  <2> HIDE DEF S
  <2>1. \A n \in 0 .. N : n \in S
    BY <1>0, <1>1, <1>2, LoopInduction, Zenon
  <2> QED BY <2>1, <1>0
<1>4. \E out : Collects(out, acked, sorted, N)
  BY <1>3
<1> QED BY <1>4, Zenon DEF Collected, Collects

LEMMA CollectedSteps ==
  ASSUME NEW acked, NEW T, NEW sorted \in Seq(T), NEW out, out = Collected(acked, sorted)
  PROVE  /\ out[0] = <<>>
         /\ \A n \in 0 .. Len(sorted) - 1 :
              out[n + 1] = IF Kept(acked, out[n], sorted[n + 1])
                           THEN Append(out[n], sorted[n + 1]) ELSE out[n]
         /\ PrepareReceiveTimestamps(acked, sorted) = out[Len(sorted)]
<1>0. Len(sorted) \in Nat
  OBVIOUS
<1>1. out = [n \in 0..Len(sorted) |->
               IF n = 0 THEN <<>>
               ELSE IF Kept(acked, out[n - 1], sorted[n])
                    THEN Append(out[n - 1], sorted[n]) ELSE out[n - 1]]
  BY CollectedDef DEF Collects
<1>2. out[0] = <<>>
  BY <1>0, <1>1
<1>3. ASSUME NEW n \in 0 .. Len(sorted) - 1
      PROVE  out[n + 1] = IF Kept(acked, out[n], sorted[n + 1])
                          THEN Append(out[n], sorted[n + 1]) ELSE out[n]
  <2>1. n + 1 \in 0 .. Len(sorted) /\ n + 1 # 0 /\ (n + 1) - 1 = n
    BY <1>0
  <2>2. out[n + 1] = IF Kept(acked, out[(n + 1) - 1], sorted[n + 1])
                     THEN Append(out[(n + 1) - 1], sorted[n + 1]) ELSE out[(n + 1) - 1]
    BY <1>1, <2>1
  <2> QED BY <2>1, <2>2
<1>4. PrepareReceiveTimestamps(acked, sorted) = out[Len(sorted)]
  BY Zenon DEF PrepareReceiveTimestamps, Collected
<1> QED BY <1>2, <1>3, <1>4

\* What holds of the timestamps collected from the first n: they are among them and
\* acknowledged, packet numbers fall and times do not rise, and each acknowledged
\* one of the first n is there or was overtaken by one that is.
CollectedOK(out, acked, sorted, n) ==
  /\ out \in Seq(ToSet(sorted))
  /\ \A i \in DOMAIN out : /\ out[i].packet \in acked
                           /\ \E j \in 1..n : out[i] = sorted[j]
  /\ \A i, j \in DOMAIN out :
       i < j => out[i].packet > out[j].packet /\ out[i].micros >= out[j].micros
  /\ \A m \in 1..n : sorted[m].packet \in acked =>
       \E i \in DOMAIN out : \/ out[i].packet = sorted[m].packet
                             \/ /\ out[i].packet > sorted[m].packet
                                /\ out[i].micros < sorted[m].micros

Stamps == [packet : Nat, micros : Nat]

LEMMA CollectedStep ==
  ASSUME NEW acked, NEW sorted \in Seq(Stamps), IsDescending(sorted),
         NEW n \in 0 .. Len(sorted) - 1,
         NEW out, CollectedOK(out, acked, sorted, n), NEW new,
         new = IF Kept(acked, out, sorted[n + 1]) THEN Append(out, sorted[n + 1]) ELSE out
  PROVE  CollectedOK(new, acked, sorted, n + 1)
<1> DEFINE x == sorted[n + 1]
<1>0. /\ n \in Nat /\ n + 1 \in 1 .. Len(sorted) /\ DOMAIN sorted = 1 .. Len(sorted)
      /\ x \in Stamps /\ x \in ToSet(sorted)
  BY DEF ToSet
<1>1. /\ out \in Seq(ToSet(sorted)) /\ DOMAIN out = 1 .. Len(out) /\ Len(out) \in Nat
      /\ \A i \in DOMAIN out : out[i] \in Stamps
  <2>1. ToSet(sorted) \subseteq Stamps
    BY DEF ToSet
  <2> QED BY <2>1 DEF CollectedOK
<1>2. \A i \in DOMAIN out : out[i].packet >= x.packet
  <2> TAKE i \in DOMAIN out
  <2>1. PICK j \in 1..n : out[i] = sorted[j]
    BY DEF CollectedOK
  <2>2. j \in DOMAIN sorted /\ n + 1 \in DOMAIN sorted /\ j < n + 1
    BY <1>0
  <2> QED BY <2>1, <2>2 DEF IsDescending
<1>3. CASE ~Kept(acked, out, x)
  <2>1. new = out
    BY <1>3
  <2>2. x.packet \in acked =>
          \E i \in DOMAIN out : \/ out[i].packet = x.packet
                                \/ out[i].packet > x.packet /\ out[i].micros < x.micros
    <3> SUFFICES ASSUME x.packet \in acked
                 PROVE  \E i \in DOMAIN out : \/ out[i].packet = x.packet
                                              \/ out[i].packet > x.packet /\ out[i].micros < x.micros
      OBVIOUS
    <3>1. out # <<>> /\ (x.packet = Last(out).packet \/ ~(x.micros <= Last(out).micros))
      BY <1>3 DEF Kept
    <3>2. Len(out) \in DOMAIN out /\ Last(out) = out[Len(out)]
      BY <1>1, <3>1 DEF Last
    <3>3. out[Len(out)] \in Stamps /\ out[Len(out)].packet >= x.packet
      BY <1>1, <1>2, <3>2
    <3>4. \/ out[Len(out)].packet = x.packet
          \/ out[Len(out)].packet > x.packet /\ out[Len(out)].micros < x.micros
      BY <1>0, <3>1, <3>2, <3>3 DEF Stamps
    <3> QED BY <3>2, <3>4
  <2>3. \A m \in 1 .. n + 1 : m \in 1..n \/ m = n + 1
    BY <1>0
  <2>4. \A i \in DOMAIN out : \E j \in 1 .. n + 1 : out[i] = sorted[j]
    BY <1>0 DEF CollectedOK
  <2>5. \A m \in 1 .. n + 1 : sorted[m].packet \in acked =>
       \E i \in DOMAIN out : \/ out[i].packet = sorted[m].packet
                             \/ /\ out[i].packet > sorted[m].packet
                                /\ out[i].micros < sorted[m].micros
    BY <2>2, <2>3 DEF CollectedOK
  <2> QED BY <2>1, <2>4, <2>5 DEF CollectedOK
<1>4. CASE Kept(acked, out, x)
  <2>1. new = Append(out, x)
    BY <1>4
  <2> DEFINE l == Len(out)
  <2>2. /\ new \in Seq(ToSet(sorted)) /\ DOMAIN new = 1 .. l + 1 /\ l \in Nat
        /\ new[l + 1] = x /\ \A i \in 1..l : new[i] = out[i]
    BY <1>0, <1>1, <2>1
  <2>3. x.packet \in acked
    BY <1>4 DEF Kept
  <2>4. ASSUME NEW i \in 1..l PROVE out[i].packet > x.packet /\ out[i].micros >= x.micros
    <3>1. out # <<>> /\ x.packet # Last(out).packet /\ x.micros <= Last(out).micros
      BY <1>1, <1>4, <2>4 DEF Kept
    <3>2. l \in DOMAIN out /\ Last(out) = out[l]
      BY <1>1, <3>1 DEF Last
    <3>3. out[l] \in Stamps /\ out[i] \in Stamps /\ out[l].packet >= x.packet
      BY <1>1, <1>2, <2>4, <3>2
    <3>4. out[l].packet > x.packet /\ out[l].micros >= x.micros
      BY <1>0, <3>1, <3>2, <3>3 DEF Stamps
    <3>5. i = l \/ (out[i].packet > out[l].packet /\ out[i].micros >= out[l].micros)
      <4>1. i \in DOMAIN out /\ (i = l \/ i < l)
        BY <1>1, <2>2
      <4> QED BY <3>2, <4>1 DEF CollectedOK
    <3> QED BY <1>0, <3>3, <3>4, <3>5, SMTT(40) DEF Stamps
  <2>5. \A i, j \in DOMAIN new :
           i < j => new[i].packet > new[j].packet /\ new[i].micros >= new[j].micros
    <3> TAKE i, j \in DOMAIN new
    <3> HAVE i < j
    <3>1. i \in 1..l /\ (j \in 1..l \/ j = l + 1)
      BY <2>2
    <3>2. CASE j \in 1..l
      <4>1. i \in DOMAIN out /\ j \in DOMAIN out /\ new[i] = out[i] /\ new[j] = out[j]
        BY <1>1, <2>2, <3>1, <3>2
      <4> QED BY <4>1 DEF CollectedOK
    <3>3. CASE j = l + 1
      BY <2>2, <2>4, <3>1, <3>3
    <3> QED BY <3>1, <3>2, <3>3
  <2>6. \A i \in DOMAIN new : /\ new[i].packet \in acked
                              /\ \E j \in 1 .. n + 1 : new[i] = sorted[j]
    <3> TAKE i \in DOMAIN new
    <3>1. CASE i \in 1..l
      <4>1. new[i] = out[i] /\ i \in DOMAIN out
        BY <1>1, <2>2, <3>1
      <4>2. PICK j \in 1..n : out[i] = sorted[j]
        BY <4>1 DEF CollectedOK
      <4>3. j \in 1 .. n + 1
        BY <1>0
      <4> QED BY <4>1, <4>2, <4>3 DEF CollectedOK
    <3>2. CASE i = l + 1
      BY <1>0, <2>2, <2>3, <3>2
    <3> QED BY <2>2, <3>1, <3>2
  <2>7. \A m \in 1 .. n + 1 : sorted[m].packet \in acked =>
       \E i \in DOMAIN new : \/ new[i].packet = sorted[m].packet
                             \/ /\ new[i].packet > sorted[m].packet
                                /\ new[i].micros < sorted[m].micros
    <3> TAKE m \in 1 .. n + 1
    <3> HAVE sorted[m].packet \in acked
    <3>1. CASE m = n + 1
      BY <2>2, <3>1
    <3>2. CASE m \in 1..n
      <4>1. PICK i \in DOMAIN out : \/ out[i].packet = sorted[m].packet
                                    \/ /\ out[i].packet > sorted[m].packet
                                       /\ out[i].micros < sorted[m].micros
        BY <3>2 DEF CollectedOK
      <4>2. i \in DOMAIN new /\ new[i] = out[i]
        BY <1>1, <2>2
      <4> QED BY <4>1, <4>2
    <3> QED BY <1>0, <3>1, <3>2
  <2> QED BY <2>2, <2>5, <2>6, <2>7 DEF CollectedOK
<1> QED BY <1>3, <1>4

LEMMA PreparedOK ==
  ASSUME NEW acked, NEW sorted \in Seq(Stamps), IsDescending(sorted)
  PROVE  CollectedOK(PrepareReceiveTimestamps(acked, sorted), acked, sorted, Len(sorted))
<1> DEFINE out == Collected(acked, sorted)
           N == Len(sorted)
           S == {n \in 0..N : CollectedOK(out[n], acked, sorted, n)}
<1>0. N \in Nat
  OBVIOUS
<1>1. /\ out[0] = <<>>
      /\ \A n \in 0 .. N - 1 :
           out[n + 1] = IF Kept(acked, out[n], sorted[n + 1])
                        THEN Append(out[n], sorted[n + 1]) ELSE out[n]
      /\ PrepareReceiveTimestamps(acked, sorted) = out[N]
  BY CollectedSteps
<1> HIDE DEF out
<1>2. 0 \in S
  <2>1. CollectedOK(<<>>, acked, sorted, 0)
    BY DEF CollectedOK
  <2> QED BY <1>0, <1>1, <2>1
<1>3. \A n \in 0 .. N - 1 : n \in S => n + 1 \in S
  <2> TAKE n \in 0 .. N - 1
  <2> HAVE n \in S
  <2>1. CollectedOK(out[n + 1], acked, sorted, n + 1)
    BY <1>1, CollectedStep
  <2> QED BY <1>0, <2>1
<1>4. \A n \in 0..N : n \in S
  <2> HIDE DEF S
  <2> QED BY <1>0, <1>2, <1>3, LoopInduction, Zenon
<1> QED BY <1>0, <1>1, <1>4

-----------------------------------------------------------------------------
(* The encoding *)

\* Timestamps as a frame carries them, with room for their differences in a word.
Encodable(times) ==
  /\ times \in Seq(Stamps) /\ times # <<>>
  /\ \A i, j \in DOMAIN times :
       i < j => times[i].packet > times[j].packet /\ times[i].micros >= times[j].micros
  /\ \A i \in DOMAIN times : times[i].packet <= MaxPacket /\ times[i].micros <= MaxTime

\* What the peer has read after n entries.
ReadEntries(w) ==
  CHOOSE got : got = [n \in 1..Len(w.entries) |->
        IF n = 1 THEN [packet |-> w.packet, micros |-> 2 * w.micros - w.entries[n].delta]
        ELSE [packet |-> got[n - 1].packet
                           - (IF w.entries[n].starts THEN w.entries[n].gap + 2 ELSE 1),
              micros |-> got[n - 1].micros - w.entries[n].delta]]

Reads(got, w) ==
  got = [n \in 1..Len(w.entries) |->
        IF n = 1 THEN [packet |-> w.packet, micros |-> 2 * w.micros - w.entries[n].delta]
        ELSE [packet |-> got[n - 1].packet
                           - (IF w.entries[n].starts THEN w.entries[n].gap + 2 ELSE 1),
              micros |-> got[n - 1].micros - w.entries[n].delta]]

\* The word is large enough for the differences that occur.
LEMMA WordIsLarge == Word \in Nat /\ 2 * MaxTime < Word /\ MaxPacket < Word
<1>1. MaxTime \in Nat /\ MaxPacket \in Nat /\ Word \in Nat
  BY TimestampAssumption
<1>2. Word > 8 * (MaxTime + 1) /\ Word > 8 * (MaxPacket + 1)
  BY TimestampAssumption
<1> QED BY <1>1, <1>2

\* One entry and the timestamp before it give the timestamp of the entry.
LEMMA EntryReadBack ==
  ASSUME NEW times, Encodable(times), NEW n \in 1..Len(times)
  PROVE  LET e == Encoded(times).entries[n]
         IN  times[n] = IF n = 1 THEN [packet |-> times[1].packet, micros |-> 2 * times[1].micros - e.delta]
                        ELSE [packet |-> times[n - 1].packet - (IF e.starts THEN e.gap + 2 ELSE 1),
                              micros |-> times[n - 1].micros - e.delta]
<1> DEFINE e == Encoded(times).entries[n]
<1>0. /\ DOMAIN times = 1..Len(times) /\ Len(times) \in Nat
      /\ e.starts = StartsRun(times, n) /\ e.gap = Gap(times, n) /\ e.delta = Delta(times, n)
  BY DEF Encodable, Encoded
<1>1. /\ times[n] \in Stamps /\ times[1] \in Stamps
      /\ times[n].micros <= MaxTime /\ times[1].micros <= MaxTime
      /\ times[n].packet <= MaxPacket
  BY <1>0 DEF Encodable
<1>2. times[n] = [packet |-> times[n].packet, micros |-> times[n].micros]
  BY <1>1 DEF Stamps
<1>3. MaxTime \in Nat /\ MaxPacket \in Nat
  BY TimestampAssumption
<1>4. CASE n = 1
  <2>1. times[1].micros \in Nat
    BY <1>1 DEF Stamps
  <2>2. e.delta = 2 * times[1].micros - times[1].micros
    BY <1>0, <1>1, <1>3, <1>4, <2>1, NoWrap, WordIsLarge DEF Delta
  <2>3. 2 * times[1].micros - e.delta = times[1].micros
    BY <2>1, <2>2
  <2> QED BY <1>2, <1>4, <2>3
<1>5. CASE n # 1
  <2> DEFINE p == times[n - 1]
             x == times[n]
  <2>1. n - 1 \in DOMAIN times /\ n \in DOMAIN times /\ n - 1 < n /\ n > 1
    BY <1>0, <1>5
  <2>2. /\ p \in Stamps /\ p.micros <= MaxTime /\ p.packet <= MaxPacket
        /\ p.packet > x.packet /\ p.micros >= x.micros
    BY <2>1 DEF Encodable
  <2>3. p.packet \in Nat /\ p.micros \in Nat /\ x.packet \in Nat /\ x.micros \in Nat
    BY <1>1, <2>2 DEF Stamps
  <2>4. e.delta = p.micros - x.micros
    <3>1. e.delta = Difference(p.micros, x.micros)
      BY <1>0, <1>5 DEF Delta
    <3> HIDE DEF p, x
    <3>2. p.micros - x.micros < Word
      BY <1>3, <2>2, <2>3, WordIsLarge
    <3> QED BY <2>2, <2>3, <3>1, <3>2, NoWrap, WordIsLarge
  <2>5. e.starts <=> p.packet - x.packet # 1
    BY <1>0, <1>5 DEF StartsRun
  <2>6. e.starts => e.gap = p.packet - (x.packet + 2)
    <3> HAVE e.starts
    <3>1. e.gap = Difference(p.packet, x.packet + 2)
      BY <1>0, <2>1 DEF Gap
    <3> HIDE DEF p, x
    <3>2. x.packet + 2 <= p.packet /\ p.packet - (x.packet + 2) < Word
      BY <1>3, <2>2, <2>3, <2>5, WordIsLarge, SMTT(40)
    <3> QED BY <2>3, <3>1, <3>2, NoWrap, WordIsLarge
  <2>7. p.micros - e.delta = x.micros
    BY <2>3, <2>4
  <2>8. p.packet - (IF e.starts THEN e.gap + 2 ELSE 1) = x.packet
    <3>1. CASE e.starts
      BY <2>3, <2>6, <3>1, SMTT(40)
    <3>2. CASE ~e.starts
      BY <2>3, <2>5, <3>2
    <3> QED BY <3>1, <3>2
  <2> QED BY <1>2, <1>5, <2>7, <2>8
<1> QED BY <1>4, <1>5

\* The peer reads what was encoded.
LEMMA ReadBack ==
  ASSUME NEW times, Encodable(times)
  PROVE  Decoded(Encoded(times)) = ToSet(times)
<1> DEFINE w == Encoded(times)
           N == Len(times)
           got == ReadEntries(w)
<1>0. /\ DOMAIN times = 1..N /\ N \in Nat \ {0}
      /\ DOMAIN w.entries = 1..N /\ Len(w.entries) = N
      /\ w.packet = times[1].packet /\ w.micros = times[1].micros
  BY DEF Encodable, Encoded
<1>1. Reads(times, w)
  <2>1. times = [n \in 1..N |-> times[n]]
    BY <1>0 DEF Encodable
  <2>2. \A n \in 1..N : times[n] =
          IF n = 1 THEN [packet |-> w.packet, micros |-> 2 * w.micros - w.entries[n].delta]
          ELSE [packet |-> times[n - 1].packet
                             - (IF w.entries[n].starts THEN w.entries[n].gap + 2 ELSE 1),
                micros |-> times[n - 1].micros - w.entries[n].delta]
    <3> TAKE n \in 1..N
    <3> QED BY <1>0, EntryReadBack
  <2> HIDE DEF w, N
  <2> QED BY <1>0, <2>1, <2>2 DEF Reads
<1>2. Reads(got, w)
  BY <1>1, Zenon DEF ReadEntries, Reads
<1>3. \A n \in 1..N : got[n] =
        IF n = 1 THEN [packet |-> w.packet, micros |-> 2 * w.micros - w.entries[n].delta]
        ELSE [packet |-> got[n - 1].packet
                           - (IF w.entries[n].starts THEN w.entries[n].gap + 2 ELSE 1),
              micros |-> got[n - 1].micros - w.entries[n].delta]
  <2> HIDE DEF got, w, N
  <2> QED BY <1>0, <1>2 DEF Reads
<1>4. \A n \in 1..N : got[n] = times[n]
  <2> DEFINE S == {n \in 0 .. N - 1 : got[n + 1] = times[n + 1]}
  <2> HIDE DEF got
  <2>1. 0 \in S
    <3>0. 1 \in 1..N
      BY <1>0
    <3>1. times[1] = [packet |-> times[1].packet, micros |-> 2 * times[1].micros - w.entries[1].delta]
      BY <3>0, EntryReadBack
    <3> HIDE DEF w
    <3>2. got[1] = [packet |-> w.packet, micros |-> 2 * w.micros - w.entries[1].delta]
      BY <1>3, <3>0
    <3> QED BY <1>0, <3>1, <3>2
  <2>2. \A n \in 0 .. (N - 1) - 1 : n \in S => n + 1 \in S
    <3> TAKE n \in 0 .. (N - 1) - 1
    <3> HAVE n \in S
    <3> DEFINE k == n + 2
    <3>1. k \in 1..N /\ k # 1 /\ k - 1 = n + 1 /\ (n + 1) + 1 = k /\ n + 1 \in 0 .. N - 1
      BY <1>0
    <3>2. got[k] = [packet |-> got[k - 1].packet
                             - (IF w.entries[k].starts THEN w.entries[k].gap + 2 ELSE 1),
                micros |-> got[k - 1].micros - w.entries[k].delta]
      BY <1>3, <3>1
    <3>3. times[k] = [packet |-> times[k - 1].packet
                             - (IF w.entries[k].starts THEN w.entries[k].gap + 2 ELSE 1),
                micros |-> times[k - 1].micros - w.entries[k].delta]
      BY <1>0, <3>1, EntryReadBack
    <3>4. got[k - 1] = times[k - 1]
      BY <3>1
    <3>5. got[k] = times[k]
      BY <3>2, <3>3, <3>4
    <3> QED BY <3>1, <3>5
  <2>3. N - 1 \in Nat
    BY <1>0
  <2>4. \A n \in 0 .. N - 1 : n \in S
    <3> HIDE DEF S
    <3> QED BY <2>1, <2>2, <2>3, LoopInduction, Zenon
  <2> TAKE n \in 1..N
  <2>5. n - 1 \in 0 .. N - 1 /\ (n - 1) + 1 = n
    BY <1>0
  <2> QED BY <2>4, <2>5
<1>5. Decoded(w) = {got[n] : n \in 1..Len(w.entries)}
  BY Zenon DEF Decoded, ReadEntries
<1> HIDE DEF got, w
<1> QED BY <1>0, <1>4, <1>5 DEF ToSet, w

-----------------------------------------------------------------------------
(* Sorting and the ranges of the history *)

\* Every packet number of a set lies in a range, and the ranges are never more than
\* as many: all of its ranges are the set.
LEMMA AllRanges ==
  ASSUME NEW s, s \subseteq Nat, IsFiniteSet(s)
  PROVE  HighestRanges(s, Cardinality(RangeStarts(s))) = s
<1> SUFFICES ASSUME NEW p \in s
             PROVE  Cardinality({q \in RangeStarts(s) : q > p}) < Cardinality(RangeStarts(s))
  BY DEF HighestRanges
<1> DEFINE above == {q \in RangeStarts(s) : q > p}
           run == {m \in 0..p : \A k \in m..p : k \in s}
<1>1. p \in Nat /\ p \in run /\ run \subseteq Nat
  OBVIOUS
<1>2. PICK m \in run : \A n \in run : m <= n
  <2> HIDE DEF run
  <2> QED BY <1>1, LeastNatural
<1>3. m \in Nat /\ m <= p /\ m \in s
  BY <1>1, <1>2
<1>4. m - 1 \notin s
  <2> SUFFICES ASSUME m - 1 \in s PROVE FALSE
    OBVIOUS
  <2>1. m - 1 \in 0..p /\ \A k \in m - 1 .. p : k = m - 1 \/ k \in m..p
    BY <1>3
  <2>2. m - 1 \in run
    BY <1>2, <2>1
  <2> QED BY <1>2, <1>3, <2>2
<1>5. m \in RangeStarts(s) /\ m \notin above
  BY <1>1, <1>3, <1>4 DEF RangeStarts
<1>6. RangeStarts(s) \in SUBSET s
  BY DEF RangeStarts
<1>7. IsFiniteSet(RangeStarts(s))
  BY <1>6, FS_Subset
<1>8. above \in SUBSET RangeStarts(s) /\ above # RangeStarts(s)
  BY <1>5
<1> HIDE DEF above
<1>9. /\ IsFiniteSet(above) /\ Cardinality(above) <= Cardinality(RangeStarts(s))
      /\ Cardinality(above) # Cardinality(RangeStarts(s))
  BY <1>7, <1>8, FS_Subset
<1>10. Cardinality(above) \in Nat /\ Cardinality(RangeStarts(s)) \in Nat
  BY <1>7, <1>9, FS_CardinalityType
<1> QED BY <1>9, <1>10 DEF above

-----------------------------------------------------------------------------
(* The invariant *)

\* The position in the ring of the timestamp that was recorded d arrivals ago.
Position(d) == IF cursor - 1 - d >= 0 THEN cursor - 1 - d ELSE cursor - 1 - d + limit

Arrival(k) == Stamp(arrivals[k][1], arrivals[k][2])

\* The types of what the frames are made of.
TypeOK ==
  /\ clock \in 0..MaxTime
  /\ limit \in 0..RingSize
  /\ history \subseteq 0..MaxPacket
  /\ ring \in [0..(RingSize - 1) -> Stamps]
  /\ cursor \in Nat /\ count \in Nat
  /\ arrivals \in Seq((0..MaxPacket) \X (0..MaxTime))

\* The ring holds the latest arrivals, as many as the peer asked for, and where
\* each one stands follows from the cursor.
RingHoldsLatest ==
  /\ count = IF Len(arrivals) <= limit THEN Len(arrivals) ELSE limit
  /\ IF limit = 0 THEN cursor = 0 ELSE cursor < limit
  /\ count < limit => cursor = count
  /\ \A d \in 0..(count - 1) : ring[Position(d)] = Arrival(Len(arrivals) - d)

\* What a frame carries can be encoded, and comes from arrivals that it acknowledges.
FrameOK ==
  /\ sent.times # <<>> => Encodable(sent.times)
  /\ \A i \in DOMAIN sent.times :
       /\ sent.times[i].packet \in sent.acked
       /\ \E k \in DOMAIN arrivals : sent.times[i] = Arrival(k)

IInv == TypeOK /\ RingHoldsLatest /\ FrameOK /\ OmittedOnlyIfOvertaken

\* Types of an arrival.
LEMMA ArrivalType ==
  ASSUME TypeOK, NEW k \in DOMAIN arrivals
  PROVE  /\ Arrival(k) \in Stamps
         /\ Arrival(k).packet <= MaxPacket /\ Arrival(k).micros <= MaxTime
<1>1. MaxPacket \in Nat /\ MaxTime \in Nat /\ Scale \in Nat \ {0}
  BY TimestampAssumption
<1>2. arrivals[k] \in (0..MaxPacket) \X (0..MaxTime)
  BY DEF TypeOK
<1> DEFINE p == arrivals[k][1]
           t == arrivals[k][2]
<1>3. p \in 0..MaxPacket /\ t \in 0..MaxTime
  BY <1>2
<1> HIDE DEF p, t
<1>4. t \div Scale \in Nat /\ t \div Scale <= t
  BY <1>1, <1>3
<1>5. Stamp(p, t) = [packet |-> p, micros |-> t \div Scale]
  BY DEF Stamp
<1>6. /\ Stamp(p, t) \in Stamps
      /\ Stamp(p, t).packet <= MaxPacket /\ Stamp(p, t).micros <= MaxTime
  BY <1>1, <1>3, <1>4, <1>5 DEF Stamps
<1> QED BY <1>6 DEF Arrival, p, t

\* The ring's timestamps are the latest arrivals, and no others.
LEMMA RingContents ==
  ASSUME TypeOK, RingHoldsLatest, limit > 0
  PROVE  /\ \A j \in 0..(count - 1) : \E k \in DOMAIN arrivals : ring[j] = Arrival(k)
         /\ \A k \in DOMAIN arrivals : k > Len(arrivals) - limit =>
              \E j \in 0..(count - 1) : ring[j] = Arrival(k)
<1>0. /\ limit \in Nat /\ cursor \in Nat /\ cursor < limit /\ Len(arrivals) \in Nat
      /\ DOMAIN arrivals = 1..Len(arrivals) /\ count \in Nat
      /\ count <= limit /\ count <= Len(arrivals)
      /\ count = limit \/ (cursor = count /\ count = Len(arrivals))
      /\ Len(arrivals) <= limit => count = Len(arrivals)
  <2>1. RingSize \in Nat
    BY TimestampAssumption
  <2>2. limit \in Nat /\ cursor \in Nat /\ count \in Nat
    BY <2>1 DEF TypeOK
  <2>3. Len(arrivals) \in Nat /\ DOMAIN arrivals = 1..Len(arrivals)
    BY DEF TypeOK
  <2>4. cursor < limit
    BY <2>2 DEF RingHoldsLatest
  <2> DEFINE l == Len(arrivals)
  <2>5. count = (IF l <= limit THEN l ELSE limit) /\ (count < limit => cursor = count)
    BY DEF RingHoldsLatest
  <2> HIDE DEF l
  <2>6. l \in Nat
    BY <2>3 DEF l
  <2>7. /\ count <= limit /\ count <= l
        /\ count = limit \/ (cursor = count /\ count = l)
        /\ l <= limit => count = l
    BY <2>2, <2>5, <2>6
  <2> QED BY <2>2, <2>3, <2>4, <2>7 DEF l
<1> DEFINE l == Len(arrivals)
           At(d) == IF cursor - 1 - d >= 0 THEN cursor - 1 - d ELSE cursor - 1 - d + limit
<1>3. \A d : Position(d) = At(d)
  BY DEF Position
<1>4. \A d \in 0..(count - 1) : ring[At(d)] = Arrival(l - d)
  BY <1>3 DEF RingHoldsLatest
<1>5. /\ limit \in Nat /\ cursor \in Nat /\ cursor < limit /\ l \in Nat
      /\ DOMAIN arrivals = 1..l /\ count \in Nat /\ count <= limit /\ count <= l
      /\ count = limit \/ (cursor = count /\ count = l)
  BY <1>0
<1> HIDE DEF l
<1>1. ASSUME NEW j \in 0..(count - 1)
      PROVE  \E k \in DOMAIN arrivals : ring[j] = Arrival(k)
  <2> DEFINE d == IF j < cursor THEN cursor - 1 - j ELSE cursor - 1 - j + limit
  <2>1. d \in 0..(count - 1) /\ At(d) = j
    BY <1>5
  <2>2. l - d \in DOMAIN arrivals
    BY <1>5, <2>1
  <2> HIDE DEF d, At
  <2>3. ring[At(d)] = Arrival(l - d)
    BY <1>4, <2>1
  <2> QED BY <2>1, <2>2, <2>3
<1>2. ASSUME NEW k \in DOMAIN arrivals, k > Len(arrivals) - limit
      PROVE  \E j \in 0..(count - 1) : ring[j] = Arrival(k)
  <2> DEFINE d == l - k
  <2>0. k \in 1..l /\ k > l - limit
    BY <1>2, <1>5 DEF l
  <2>1. d \in 0..(count - 1) /\ l - d = k
    BY <1>5, <2>0
  <2>2. At(d) \in 0..(count - 1)
    BY <1>5, <2>1
  <2> HIDE DEF d, At
  <2>3. ring[At(d)] = Arrival(l - d)
    BY <1>4, <2>1
  <2> QED BY <2>1, <2>2, <2>3
<1> QED BY <1>1, <1>2

-----------------------------------------------------------------------------
(* Every step keeps the invariant *)

LEMMA InitInvariant == Init => IInv
<1> HAVE Init
<1>1. RingSize \in Nat /\ MaxTime \in Nat /\ MaxPacket \in Nat
  BY TimestampAssumption
<1>2. NoStamp \in Stamps
  BY DEF NoStamp, Stamps
<1>3. TypeOK
  BY <1>1, <1>2 DEF Init, TypeOK
<1>4. Len(arrivals) = 0 /\ limit = 0 /\ cursor = 0 /\ count = 0 /\ DOMAIN arrivals = {}
  BY DEF Init
<1>5. RingHoldsLatest
  BY <1>4 DEF RingHoldsLatest
<1>6. sent.times = <<>>
  BY DEF Init, NoFrame
<1>7. FrameOK
  BY <1>6 DEF FrameOK
<1>8. OmittedOnlyIfOvertaken
  BY <1>4 DEF OmittedOnlyIfOvertaken
<1> QED BY <1>3, <1>5, <1>7, <1>8 DEF IInv

\* A step that sends no frame.
LEMMA NoFrameOK ==
  ASSUME sent' = NoFrame
  PROVE  FrameOK' /\ OmittedOnlyIfOvertaken'
<1>1. sent'.times = <<>>
  BY DEF NoFrame
<1>2. FrameOK'
  BY <1>1 DEF FrameOK
<1>3. OmittedOnlyIfOvertaken'
  BY DEF OmittedOnlyIfOvertaken
<1> QED BY <1>2, <1>3

\* enableReceiveTimestamps.
LEMMA EnableStep ==
  ASSUME IInv, Enable
  PROVE  IInv'
<1>1. /\ limit = 0 /\ arrivals = <<>> /\ arrivals' = arrivals /\ ring' = ring /\ cursor' = cursor
      /\ count' = count /\ sent' = sent /\ clock' = clock /\ history' = history
  BY DEF Enable, ringVars
<1>2. limit' \in 0..RingSize
  <2>1. PICK asked \in PeerLimits : limit' = Min({asked, RingSize})
    BY DEF Enable
  <2>2. asked \in Nat /\ RingSize \in Nat
    BY TimestampAssumption
  <2> QED BY <2>1, <2>2, MinOfTwo
<1>3. TypeOK'
  BY <1>1, <1>2 DEF IInv, TypeOK
<1>4. Len(arrivals) = 0 /\ count = 0 /\ cursor = 0 /\ limit' \in Nat
  BY <1>1, <1>2, TimestampAssumption DEF IInv, RingHoldsLatest
<1>5. RingHoldsLatest'
  BY <1>1, <1>4 DEF RingHoldsLatest
<1>6. FrameOK'
  BY <1>1 DEF IInv, FrameOK, Arrival
<1>7. OmittedOnlyIfOvertaken'
  BY <1>1 DEF OmittedOnlyIfOvertaken
<1> QED BY <1>3, <1>5, <1>6, <1>7 DEF IInv

\* The ring after an arrival.
LEMMA RecordStep ==
  ASSUME TypeOK, RingHoldsLatest, NEW p \in 0..MaxPacket, NEW t \in 0..MaxTime,
         RecordTimestamp(p, t), arrivals' = Append(arrivals, <<p, t>>), limit' = limit
  PROVE  /\ ring' \in [0..(RingSize - 1) -> Stamps] /\ cursor' \in Nat /\ count' \in Nat
         /\ RingHoldsLatest'
<1>l. PICK l : l = Len(arrivals)
  OBVIOUS
<1>0. /\ limit \in 0..RingSize /\ RingSize \in Nat \ {0} /\ cursor \in Nat /\ count \in Nat
      /\ l \in Nat /\ DOMAIN arrivals = 1..l
      /\ count = (IF l <= limit THEN l ELSE limit)
      /\ limit = 0 => cursor = 0
      /\ limit # 0 => cursor < limit
      /\ count < limit => cursor = count
  <2>1. RingSize \in Nat \ {0}
    BY TimestampAssumption
  <2>2. /\ limit \in 0..RingSize /\ cursor \in Nat /\ count \in Nat
        /\ Len(arrivals) \in Nat /\ DOMAIN arrivals = 1..Len(arrivals)
    BY DEF TypeOK
  <2> QED BY <1>l, <2>1, <2>2 DEF RingHoldsLatest
<1>1. /\ Len(arrivals') = l + 1 /\ arrivals'[l + 1] = <<p, t>>
      /\ \A k \in 1..l : arrivals'[k] = arrivals[k]
  BY <1>l DEF TypeOK
<1>2. Stamp(p, t) \in Stamps
  <2>1. p \in Nat /\ t \in Nat /\ Scale \in Nat \ {0}
    BY TimestampAssumption
  <2>2. t \div Scale \in Nat
    BY <2>1
  <2> QED BY <2>1, <2>2 DEF Stamp, Stamps
<1>3. Arrival(l + 1)' = Stamp(p, t)
  BY <1>1 DEF Arrival
<1>4. ASSUME NEW k \in 1..l PROVE Arrival(k)' = Arrival(k)
  BY <1>1, <1>4 DEF Arrival
<1>5. CASE limit = 0
  <2>1. ring' = ring /\ cursor' = cursor /\ count' = count
    BY <1>5 DEF RecordTimestamp, ringVars
  <2>2. count = 0 /\ cursor = 0
    BY <1>0, <1>5
  <2>3. count' = IF l + 1 <= limit THEN l + 1 ELSE limit
    BY <1>0, <1>5, <2>1, <2>2
  <2>4. RingHoldsLatest'
    BY <1>1, <1>5, <2>1, <2>2, <2>3 DEF RingHoldsLatest
  <2> QED BY <1>0, <2>1, <2>4 DEF TypeOK
<1>6. CASE limit # 0
  <2>1. /\ ring' = [ring EXCEPT ![cursor] = Stamp(p, t)]
        /\ cursor' = (cursor + 1) % limit
        /\ count' = Min({count + 1, limit})
    BY <1>6 DEF RecordTimestamp
  <2>2. limit \in Nat \ {0} /\ cursor < limit /\ cursor \in 0..(RingSize - 1)
    BY <1>0, <1>6
  <2>3. cursor' = IF cursor + 1 = limit THEN 0 ELSE cursor + 1
    <3>1. CASE cursor + 1 = limit
      BY <2>1, <2>2, <3>1
    <3>2. CASE cursor + 1 < limit
      BY <1>0, <2>1, <2>2, <3>2, SMTT(40)
    <3> QED BY <1>0, <2>2, <3>1, <3>2
  <2>4. count' = IF count + 1 <= limit THEN count + 1 ELSE limit
    BY <1>0, <2>1, <2>2, MinOfTwo
  <2>5. /\ ring' \in [0..(RingSize - 1) -> Stamps] /\ ring'[cursor] = Stamp(p, t)
        /\ \A i \in 0..(RingSize - 1) : i # cursor => ring'[i] = ring[i]
    BY <1>2, <2>1, <2>2 DEF TypeOK
  <2> DEFINE At(d) == IF cursor - 1 - d >= 0 THEN cursor - 1 - d ELSE cursor - 1 - d + limit
             New(d) == IF cursor' - 1 - d >= 0 THEN cursor' - 1 - d ELSE cursor' - 1 - d + limit
  <2>6. /\ \A d : Position(d) = At(d)
        /\ \A d : Position(d)' = New(d)
    BY DEF Position
  <2>7. \A d \in 0..(count - 1) : ring[At(d)] = Arrival(l - d)
    BY <1>l, <2>6 DEF RingHoldsLatest
  <2>8. /\ count' = (IF l + 1 <= limit THEN l + 1 ELSE limit)
        /\ cursor' < limit /\ cursor' \in Nat /\ count' \in Nat
        /\ count' < limit => cursor' = count'
    <3> QED BY <1>0, <2>2, <2>3, <2>4
  <2>9. ASSUME NEW d \in 0..(count' - 1)
        PROVE  ring'[New(d)] = Arrival((l + 1) - d)'
    <3>1. CASE d = 0
      <4>1. New(0) = cursor
        BY <2>2, <2>3, <1>0
      <4>2. (l + 1) - 0 = l + 1
        BY <1>0
      <4> QED BY <1>3, <2>5, <3>1, <4>1, <4>2
    <3>2. CASE d # 0
      <4>1. d - 1 \in 0..(count - 1) /\ d < limit
        BY <1>0, <2>2, <2>4, <3>2
      <4>2. New(d) = At(d - 1)
        BY <1>0, <2>2, <2>3, <2>8, <3>2, <4>1
      <4>3. At(d - 1) \in 0..(RingSize - 1) /\ At(d - 1) # cursor
        BY <1>0, <2>2, <3>2, <4>1
      <4>4. l - (d - 1) = (l + 1) - d /\ l - (d - 1) \in 1..l
        BY <1>0, <4>1
      <4> HIDE DEF At, New
      <4>5. ring'[New(d)] = ring[At(d - 1)]
        BY <2>5, <4>2, <4>3
      <4>6. ring[At(d - 1)] = Arrival(l - (d - 1))
        BY <2>7, <4>1
      <4>7. Arrival(l - (d - 1))' = Arrival(l - (d - 1))
        BY <1>4, <4>4
      <4> QED BY <4>4, <4>5, <4>6, <4>7
    <3> QED BY <3>1, <3>2
  <2>10. \A d \in 0..(count' - 1) : ring'[Position(d)'] = Arrival((l + 1) - d)'
    <3> HIDE DEF New
    <3> QED BY <2>6, <2>9
  <2>11. RingHoldsLatest'
    <3> QED BY <1>1, <1>6, <2>8, <2>10 DEF RingHoldsLatest
  <2> QED BY <2>5, <2>8, <2>11
<1> QED BY <1>5, <1>6

\* A packet arrives.
LEMMA ReceiveStep ==
  ASSUME IInv, Receive
  PROVE  IInv'
<1>1. PICK p \in 0..MaxPacket, t \in Max({0, clock - MaxLate})..clock,
           kind \in {[ackEliciting |-> FALSE, ce |-> FALSE]} \cup [ackEliciting : {TRUE}, ce : BOOLEAN],
           confirmed \in acksSent \cup {-1} :
             /\ history' = Remembered(deletedBelow', p)
             /\ ReceivedPacket(p, t, kind.ackEliciting, kind.ce)
             /\ arrivals' = Append(arrivals, <<p, t>>)
  BY DEF Receive
<1>2. sent' = NoFrame /\ clock' = clock /\ limit' = limit
  BY DEF Receive
<1>3. RecordTimestamp(p, t)
  BY <1>1 DEF ReceivedPacket
<1>4. clock \in 0..MaxTime /\ MaxTime \in Nat /\ MaxPacket \in Nat /\ MaxLate \in Nat
  BY TimestampAssumption DEF IInv, TypeOK
<1>5. t \in 0..MaxTime
  <2>1. 0 \in Int /\ clock - MaxLate \in Int
    BY <1>4
  <2>2. Max({0, clock - MaxLate}) \in Nat
    BY <2>1, MaxOfTwo
  <2> QED BY <1>4, <2>2
<1>6. /\ ring' \in [0..(RingSize - 1) -> Stamps] /\ cursor' \in Nat /\ count' \in Nat
      /\ RingHoldsLatest'
  BY <1>1, <1>2, <1>3, <1>5, RecordStep DEF IInv
<1>7. history' \subseteq 0..MaxPacket
  BY <1>1 DEF IInv, TypeOK, Remembered, HighestRanges
<1>8. arrivals' \in Seq((0..MaxPacket) \X (0..MaxTime))
  BY <1>1, <1>5 DEF IInv, TypeOK
<1>9. TypeOK'
  BY <1>2, <1>6, <1>7, <1>8 DEF IInv, TypeOK
<1> QED BY <1>2, <1>6, <1>9, NoFrameOK DEF IInv

\* What PrepareReceiveTimestamps makes of the ring.
LEMMA PreparedFromRing ==
  ASSUME TypeOK, RingHoldsLatest, limit > 0,
         NEW sorted \in Descending({ring[i] : i \in 0..(count - 1)}),
         NEW times, times = PrepareReceiveTimestamps(history, sorted)
  PROVE  /\ times \in Seq(Stamps)
         /\ times # <<>> => Encodable(times)
         /\ \A i \in DOMAIN times :
              times[i].packet \in history /\ \E k \in DOMAIN arrivals : times[i] = Arrival(k)
         /\ \A k \in DOMAIN arrivals :
              k > Len(arrivals) - limit /\ Arrival(k).packet \in history =>
                \E i \in DOMAIN times : \/ times[i].packet = Arrival(k).packet
                                        \/ /\ times[i].packet > Arrival(k).packet
                                           /\ times[i].micros < Arrival(k).micros
<1> DEFINE R == {ring[i] : i \in 0..(count - 1)}
<1>1. IsFiniteSet(R)
  <2> DEFINE f == [i \in 0..(count - 1) |-> ring[i]]
  <2>1. f \in Surjection(0..(count - 1), R)
    BY DEF Surjection
  <2>2. IsFiniteSet(0..(count - 1))
    <3>1. count - 1 \in Int /\ 0 \in Int
      BY DEF TypeOK
    <3> QED BY <3>1, FS_Interval
  <2> HIDE DEF f, R
  <2> QED BY <2>1, <2>2, FS_Surjection
<1>2. sorted \in Seq(R) /\ ToSet(sorted) = R /\ DOMAIN sorted = 1..Len(sorted) /\ IsDescending(sorted)
  <2> HIDE DEF R
  <2>1. sorted \in SetToSeqs(R) /\ IsDescending(sorted)
    BY DEF Descending, IsDescending, R
  <2> QED BY <1>1, <2>1, SeqsOfSet
<1>3. /\ \A x \in R : \E k \in DOMAIN arrivals : x = Arrival(k)
      /\ \A k \in DOMAIN arrivals : k > Len(arrivals) - limit => Arrival(k) \in R
  BY RingContents
<1> HIDE DEF R
<1>4. /\ R \subseteq Stamps
      /\ \A x \in R : x.packet <= MaxPacket /\ x.micros <= MaxTime
  BY <1>3, ArrivalType
<1>5. sorted \in Seq(Stamps)
  BY <1>2, <1>4
<1>6. CollectedOK(times, history, sorted, Len(sorted))
  BY <1>2, <1>5, PreparedOK
<1>7. times \in Seq(R) /\ \A i \in DOMAIN times : times[i] \in R /\ times[i].packet \in history
  BY <1>2, <1>6 DEF CollectedOK
<1>8. times \in Seq(Stamps)
  BY <1>4, <1>7
<1>9. times # <<>> => Encodable(times)
  <2>1. \A i, j \in DOMAIN times :
          i < j => times[i].packet > times[j].packet /\ times[i].micros >= times[j].micros
    BY <1>6 DEF CollectedOK
  <2> QED BY <1>4, <1>7, <1>8, <2>1 DEF Encodable
<1>10. ASSUME NEW k \in DOMAIN arrivals, k > Len(arrivals) - limit, Arrival(k).packet \in history
       PROVE  \E i \in DOMAIN times : \/ times[i].packet = Arrival(k).packet
                                      \/ /\ times[i].packet > Arrival(k).packet
                                         /\ times[i].micros < Arrival(k).micros
  <2>1. Arrival(k) \in ToSet(sorted)
    BY <1>2, <1>3, <1>10
  <2>2. PICK m \in 1..Len(sorted) : sorted[m] = Arrival(k)
    BY <1>2, <2>1 DEF ToSet
  <2>3. sorted[m].packet \in history
    BY <1>10, <2>2
  <2> QED BY <1>6, <2>2, <2>3 DEF CollectedOK
<1> QED BY <1>3, <1>7, <1>8, <1>9, <1>10

\* A frame is sent.
LEMMA GetAckFrameStep ==
  ASSUME IInv, NEW onlyIfQueued, GetAckFrame(onlyIfQueued)
  PROVE  IInv'
<1>1. PICK sorted \in Descending({ring[i] : i \in 0..(count - 1)}) :
        LET times == IF limit > 0 THEN PrepareReceiveTimestamps(history, sorted) ELSE <<>>
        IN  \E room \in 0..Len(times), ranges \in 1..Cardinality(RangeStarts(history)) :
             /\ room > 0 => ranges = Cardinality(RangeStarts(history))
             /\ lastAck' = HighestRanges(history, ranges)
             /\ sent' = [acked |-> lastAck', times |-> SubSeq(times, 1, room),
                         whole |-> room = Len(times)]
  BY ZenonT(60) DEF GetAckFrame
<1>2. PICK times : times = IF limit > 0 THEN PrepareReceiveTimestamps(history, sorted) ELSE <<>>
  OBVIOUS
<1>3. PICK room \in 0..Len(times), ranges \in 1..Cardinality(RangeStarts(history)) :
        /\ room > 0 => ranges = Cardinality(RangeStarts(history))
        /\ lastAck' = HighestRanges(history, ranges)
        /\ sent' = [acked |-> lastAck', times |-> SubSeq(times, 1, room),
                    whole |-> room = Len(times)]
  BY <1>1, <1>2
<1>4. /\ clock' = clock /\ limit' = limit /\ history' = history /\ ring' = ring
      /\ cursor' = cursor /\ count' = count /\ arrivals' = arrivals
  BY DEF GetAckFrame, ringVars
<1>5. TypeOK' /\ RingHoldsLatest'
  BY <1>4 DEF IInv, TypeOK, RingHoldsLatest, Position, Arrival
<1>6. /\ times \in Seq(Stamps)
      /\ times # <<>> => Encodable(times)
      /\ \A i \in DOMAIN times :
           times[i].packet \in history /\ \E k \in DOMAIN arrivals : times[i] = Arrival(k)
      /\ \A k \in DOMAIN arrivals :
           k > Len(arrivals) - limit /\ Arrival(k).packet \in history =>
             \E i \in DOMAIN times : \/ times[i].packet = Arrival(k).packet
                                     \/ /\ times[i].packet > Arrival(k).packet
                                        /\ times[i].micros < Arrival(k).micros
  <2>1. CASE limit > 0
    BY <1>2, <2>1, PreparedFromRing DEF IInv
  <2>2. CASE ~(limit > 0)
    <3>1. times = <<>> /\ limit = 0
      BY <1>2, <2>2, TimestampAssumption DEF IInv, TypeOK
    <3>2. \A k \in DOMAIN arrivals : ~(k > Len(arrivals) - limit)
      BY <3>1 DEF IInv, TypeOK
    <3> QED BY <3>1, <3>2
  <2> QED BY <2>1, <2>2
<1>t. PICK st : st = sent'.times
  OBVIOUS
<1>7. /\ DOMAIN times = 1..Len(times) /\ Len(times) \in Nat /\ room \in Nat /\ room <= Len(times)
      /\ st \in Seq(Stamps) /\ DOMAIN st = 1..room /\ (st # <<>> => room > 0)
      /\ \A i \in 1..room : st[i] = times[i] /\ i \in DOMAIN times
      /\ sent'.acked = lastAck' /\ (sent'.whole <=> room = Len(times))
  <2>1. DOMAIN times = 1..Len(times) /\ Len(times) \in Nat /\ room \in Nat /\ room <= Len(times)
    BY <1>6
  <2> DEFINE sub == SubSeq(times, 1, room)
  <2>2. /\ sub \in Seq(Stamps) /\ DOMAIN sub = 1..room
        /\ \A i \in 1..room : sub[i] = times[i] /\ i \in DOMAIN times
        /\ (sub # <<>> => room > 0)
    BY <1>6, <2>1
  <2>3. st = sub /\ sent'.acked = lastAck' /\ sent'.whole = (room = Len(times))
    BY <1>3, <1>t
  <2> HIDE DEF sub
  <2> QED BY <2>1, <2>2, <2>3
<1>8. lastAck' \subseteq history /\ (room > 0 => lastAck' = history)
  <2>1. history \subseteq Nat /\ IsFiniteSet(history)
    <3>1. history \in SUBSET (0..MaxPacket) /\ 0 \in Int /\ MaxPacket \in Int
      BY TimestampAssumption DEF IInv, TypeOK
    <3>2. IsFiniteSet(0..MaxPacket)
      BY <3>1, FS_Interval
    <3>3. IsFiniteSet(history)
      BY <3>1, <3>2, FS_Subset
    <3>4. history \subseteq Nat
      BY <3>1
    <3> QED BY <3>3, <3>4
  <2>2. room > 0 => lastAck' = history
    BY <1>3, <2>1, AllRanges
  <2>3. lastAck' \subseteq history
    BY <1>3 DEF HighestRanges
  <2> QED BY <2>2, <2>3
<1>9. FrameOK'
  <2>1. st # <<>> => Encodable(st)
    <3> HAVE st # <<>>
    <3>0. room > 0 /\ 1 \in 1..room /\ 1 \in DOMAIN times
      <4>1. room > 0 /\ room \in Nat
        BY <1>7
      <4>2. 1 \in 1..room
        BY <4>1
      <4> QED BY <1>7, <4>1, <4>2
    <3>1. times # <<>> /\ Encodable(times)
      BY <1>6, <3>0
    <3>2. \A i, j \in 1..room : i < j =>
            times[i].packet > times[j].packet /\ times[i].micros >= times[j].micros
      BY <1>7, <3>1 DEF Encodable
    <3>3. \A i \in 1..room : times[i].packet <= MaxPacket /\ times[i].micros <= MaxTime
      BY <1>7, <3>1 DEF Encodable
    <3>4. \A i, j \in DOMAIN st :
            i < j => st[i].packet > st[j].packet /\ st[i].micros >= st[j].micros
      BY <1>7, <3>2
    <3>5. \A i \in DOMAIN st : st[i].packet <= MaxPacket /\ st[i].micros <= MaxTime
      BY <1>7, <3>3
    <3> QED BY <1>7, <3>4, <3>5 DEF Encodable
  <2>2. \A i \in DOMAIN st :
          /\ st[i].packet \in sent'.acked
          /\ \E k \in DOMAIN arrivals : st[i] = Arrival(k)
    <3> TAKE i \in DOMAIN st
    <3>0. i \in 1..room /\ room \in Nat
      BY <1>7
    <3>1. i \in 1..room /\ room > 0
      BY <3>0
    <3> QED BY <1>6, <1>7, <1>8, <3>1
  <2>3. \A k : Arrival(k)' = Arrival(k)
    BY <1>4 DEF Arrival
  <2>4. \A i \in DOMAIN st : \E k \in DOMAIN arrivals' : st[i] = Arrival(k)'
    BY <1>4, <2>2, <2>3
  <2>5. Encodable(sent.times)' <=> Encodable(st)
    BY <1>t DEF Encodable
  <2> QED BY <1>t, <2>1, <2>2, <2>4, <2>5 DEF FrameOK
<1>10. OmittedOnlyIfOvertaken'
  <2> SUFFICES ASSUME sent'.whole, NEW k \in DOMAIN arrivals, k > Len(arrivals) - limit,
                      Arrival(k).packet \in sent'.acked
               PROVE  \E i \in DOMAIN st :
                        \/ st[i].packet = Arrival(k).packet
                        \/ /\ st[i].packet > Arrival(k).packet
                           /\ st[i].micros < Arrival(k).micros
    BY <1>4, <1>t DEF OmittedOnlyIfOvertaken, Arrival
  <2>1. Arrival(k).packet \in history
    BY <1>7, <1>8
  <2>2. PICK i \in DOMAIN times : \/ times[i].packet = Arrival(k).packet
                                  \/ /\ times[i].packet > Arrival(k).packet
                                     /\ times[i].micros < Arrival(k).micros
    BY <1>6, <2>1
  <2>3. i \in 1..room
    BY <1>7
  <2> QED BY <1>7, <2>2, <2>3
<1> QED BY <1>5, <1>9, <1>10 DEF IInv

LEMMA StepInvariant == IInv /\ [Next]_vars => IInv'
<1> SUFFICES ASSUME IInv, [Next]_vars PROVE IInv'
  OBVIOUS
<1>1. CASE Enable
  BY <1>1, EnableStep
<1>2. CASE Receive
  BY <1>2, ReceiveStep
<1>3. CASE Tick
  <2>1. /\ sent' = NoFrame /\ clock' = clock + 1 /\ clock < MaxTime
        /\ limit' = limit /\ history' = history /\ ring' = ring
        /\ cursor' = cursor /\ count' = count /\ arrivals' = arrivals
    BY <1>3 DEF Tick, ringVars
  <2>2. clock' \in 0..MaxTime
    BY <2>1, TimestampAssumption DEF IInv, TypeOK
  <2>3. TypeOK' /\ RingHoldsLatest'
    BY <2>1, <2>2 DEF IInv, TypeOK, RingHoldsLatest, Position, Arrival
  <2> QED BY <2>1, <2>3, NoFrameOK DEF IInv
<1>4. CASE GetAckFrame(TRUE)
  BY <1>4, GetAckFrameStep
<1>5. CASE GetAckFrame(FALSE)
  BY <1>5, GetAckFrameStep
<1>6. CASE UNCHANGED vars
  <2>1. /\ clock' = clock /\ limit' = limit /\ history' = history /\ ring' = ring /\ sent' = sent
        /\ cursor' = cursor /\ count' = count /\ arrivals' = arrivals
    BY <1>6 DEF vars, ringVars
  <2>2. TypeOK' /\ RingHoldsLatest'
    BY <2>1 DEF IInv, TypeOK, RingHoldsLatest, Position, Arrival
  <2>3. FrameOK'
    BY <2>1 DEF IInv, FrameOK, Arrival
  <2>4. OmittedOnlyIfOvertaken'
    BY <2>1 DEF IInv, OmittedOnlyIfOvertaken
  <2> QED BY <2>2, <2>3, <2>4 DEF IInv
<1> QED BY <1>1, <1>2, <1>3, <1>4, <1>5, <1>6 DEF Next

-----------------------------------------------------------------------------
(* The theorems *)

\* In every reachable state the ring of arrival times holds the latest arrivals, and
\* the last frame reports arrivals.
THEOREM Invariance == Spec => []IInv
<1>1. Init => IInv
  BY InitInvariant
<1>2. IInv /\ [Next]_vars => IInv'
  BY StepInvariant
<1> QED BY <1>1, <1>2, PTL DEF Spec

\* The variables keep their types: the ring is never written outside its bounds
\* (ReceivedPacket of received_packet_tracker.go).
THEOREM TypeCorrect == Spec => []TypeOK
<1>1. IInv => TypeOK
  BY DEF IInv
<1> QED BY <1>1, Invariance, PTL

\* What the peer decodes from an ACK_RECEIVE_TIMESTAMPS frame are arrival times of
\* packets that the frame acknowledges: no difference of times or packet numbers
\* wraps around in appendReceiveTimestamps, in whatever order packets arrive.
THEOREM ReportsAreTrue == Spec => []ReportsAreArrivals
<1>1. IInv => ReportsAreArrivals
  <2> SUFFICES ASSUME IInv, sent.times # <<>>, NEW x \in Decoded(Encoded(sent.times))
               PROVE  /\ x.packet \in sent.acked
                      /\ \E k \in DOMAIN arrivals : x = Stamp(arrivals[k][1], arrivals[k][2])
    BY DEF ReportsAreArrivals
  <2>1. x \in ToSet(sent.times)
    BY ReadBack DEF IInv, FrameOK
  <2> QED BY <2>1 DEF IInv, FrameOK, ToSet, Arrival
<1> QED BY <1>1, Invariance, PTL

\* A frame that was not cut reports every one of the latest arrivals that it
\* acknowledges, unless one with a higher number came before it: the ring forgets
\* only what the peer did not ask for, and PrepareReceiveTimestamps drops only what
\* cannot be encoded.
THEOREM NothingElseOmitted == Spec => []OmittedOnlyIfOvertaken
<1>1. IInv => OmittedOnlyIfOvertaken
  BY DEF IInv
<1> QED BY <1>1, Invariance, PTL
=============================================================================
