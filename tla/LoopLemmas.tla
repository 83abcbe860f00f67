------------------------------ MODULE LoopLemmas ------------------------------
(***************************************************************************)
(* What the proofs of several components need: arithmetic, induction over  *)
(* the steps of a loop, and sequences put together in a loop.              *)
(***************************************************************************)
EXTENDS SequencesExt, FiniteSetTheorems, WellFoundedInduction, TLAPS

-----------------------------------------------------------------------------
(* Arithmetic *)

\* Multiplication is monotone.
LEMMA MulMono ==
  ASSUME NEW a \in Nat, NEW b \in Nat, NEW c \in Nat, a <= b
  PROVE  a * c <= b * c
  <1>1. PICK d \in Nat : b = a + d
    <2>1. b - a \in Nat /\ b = a + (b - a)
      OBVIOUS
    <2> QED BY <2>1
  <1>2. b * c = a * c + d * c /\ d * c \in Nat /\ a * c \in Nat
    BY <1>1
  <1> QED BY <1>2

\* What integer division computes.
LEMMA DivSpec ==
  ASSUME NEW a \in Nat, NEW b \in Nat \ {0}
  PROVE  /\ a \div b \in Nat
         /\ a % b \in 0 .. b - 1
         /\ a = (a \div b) * b + (a % b)
  <1>1. a \div b \in Nat
    OBVIOUS
  <1>2. a % b \in 0 .. b - 1
    OBVIOUS
  <1>3. a = b * (a \div b) + (a % b)
    OBVIOUS
  <1> QED BY <1>1, <1>2, <1>3

\* A product that bounds another from above bounds the factor.
LEMMA MulCancel ==
  ASSUME NEW a \in Nat, NEW b \in Nat, NEW c \in Nat \ {0}, a * c <= b * c
  PROVE  a <= b
  <1>1. SUFFICES ASSUME b + 1 <= a PROVE FALSE
    OBVIOUS
  <1>2. (b + 1) * c <= a * c
    BY <1>1, MulMono
  <1>3. (b + 1) * c = b * c + c
    OBVIOUS
  <1>4. a * c \in Nat /\ b * c \in Nat
    OBVIOUS
  <1> QED BY <1>2, <1>3, <1>4

\* Dividing a product by a factor.
LEMMA DivOfProduct ==
  ASSUME NEW a \in Nat, NEW b \in Nat \ {0}
  PROVE  (a * b) \div b = a
  <1> DEFINE q == (a * b) \div b  r == (a * b) % b
  <1>0. a * b \in Nat
    OBVIOUS
  <1>1. q \in Nat /\ r \in 0 .. b - 1 /\ a * b = q * b + r
    BY <1>0, DivSpec
  <1> HIDE DEF q, r
  <1>2. (q + 1) * b = q * b + b /\ q * b \in Nat
    BY <1>1
  <1>3. q <= a
    BY <1>0, <1>1, <1>2, MulCancel
  <1>4. ASSUME q + 1 <= a PROVE FALSE
    <2>1. (q + 1) * b <= a * b
      BY <1>1, <1>4, MulMono
    <2> QED BY <1>0, <1>1, <1>2, <2>1
  <1> QED BY <1>1, <1>3, <1>4 DEF q

\* Division, as bounds on the product.
LEMMA DivBounds ==
  ASSUME NEW a \in Nat, NEW b \in Nat \ {0}
  PROVE  /\ a \div b \in Nat
         /\ (a \div b) * b <= a
         /\ a < (a \div b + 1) * b
  <1> DEFINE q == a \div b
  <1>1. q \in Nat /\ a % b \in 0 .. b - 1 /\ a = q * b + (a % b)
    BY DivSpec
  <1> HIDE DEF q
  <1>2. q * b \in Nat /\ (q + 1) * b = q * b + b
    BY <1>1
  <1>3. q * b <= a /\ a < (q + 1) * b
    BY <1>1, <1>2
  <1> QED BY <1>1, <1>3 DEF q

\* Output sample nr of a loop of L, in samples of sd: w turns lie before it, the
\* current one begins with sample c, and what the loop holds reaches as far.
LEMMA TurnBounds ==
  ASSUME NEW sd \in Nat \ {0}, NEW L \in Nat \ {0}, NEW N \in Nat, L <= N * sd, NEW nr \in Nat,
         NEW w, w = (nr * sd) \div L, NEW c \in Nat, w * L <= c * sd, c * sd < w * L + sd
  PROVE  /\ w \in Nat /\ w * L <= nr * sd /\ nr * sd < (w + 1) * L
         /\ c <= nr /\ nr - c < N
         /\ (nr * sd - c * sd) \div sd = nr - c
  <1>1. nr * sd \in Nat /\ c * sd \in Nat /\ N * sd \in Nat
    OBVIOUS
  <1>2. w \in Nat /\ w * L <= nr * sd /\ nr * sd < (w + 1) * L
    BY <1>1, DivBounds
  <1>3. w * L \in Nat /\ (w + 1) * L = w * L + L
    BY <1>2
  <1>4. c <= nr
    <2>1. SUFFICES ASSUME nr + 1 <= c PROVE FALSE
      OBVIOUS
    <2>2. (nr + 1) * sd <= c * sd
      BY <2>1, MulMono
    <2>3. (nr + 1) * sd = nr * sd + sd
      OBVIOUS
    <2> QED BY <1>1, <1>2, <1>3, <2>2, <2>3
  <1>5. (nr * sd - c * sd) \div sd = nr - c
    <2>1. nr * sd - c * sd = (nr - c) * sd /\ nr - c \in Nat
      BY <1>4
    <2> QED BY <2>1, DivOfProduct
  <1>6. nr - c < N
    <2>1. SUFFICES ASSUME c + N <= nr PROVE FALSE
      OBVIOUS
    <2>2. (c + N) * sd <= nr * sd
      BY <2>1, MulMono
    <2>3. (c + N) * sd = c * sd + N * sd
      OBVIOUS
    <2> QED BY <1>1, <1>2, <1>3, <2>2, <2>3
  <1> QED BY <1>2, <1>4, <1>5, <1>6

-----------------------------------------------------------------------------
(* Induction *)

\* Every non-empty set of naturals has a least element.
LEMMA LeastNatural ==
  ASSUME NEW S, S \subseteq Nat, S # {}
  PROVE  \E m \in S : \A n \in S : m <= n
<1>1. IsWellFoundedOn(OpToRel(<, Nat), Nat)
  BY NatLessThanWellFounded, Zenon
<1>2. PICK m \in S : \A n \in S : ~(<<n, m>> \in OpToRel(<, Nat))
  BY <1>1, WFMin, Zenon
<1>3. \A n \in S : m <= n
  <2> TAKE n \in S
  <2>1. m \in Nat /\ n \in Nat
    OBVIOUS
  <2>2. ~(n < m)
    BY <1>2, <2>1 DEF OpToRel
  <2> QED BY <2>1, <2>2
<1> QED BY <1>3

\* Every set of naturals with an upper bound that has an element has a
\* greatest one.
LEMMA GreatestNatural ==
  ASSUME NEW b \in Nat, NEW S, S \subseteq 0 .. b, S # {}
  PROVE  \E m \in S : \A n \in S : n <= m
<1> DEFINE T == {b - n : n \in S}
<1>1. T \subseteq Nat /\ T # {}
  <2>1. \A n \in S : b - n \in Nat
    OBVIOUS
  <2>2. \E n \in S : b - n \in T
    OBVIOUS
  <2> QED BY <2>1, <2>2
<1>2. PICK t \in T : \A x \in T : t <= x
  BY <1>1, LeastNatural, Zenon
<1>3. PICK m \in S : t = b - m
  OBVIOUS
<1>4. \A n \in S : n <= m
  <2> TAKE n \in S
  <2>1. b - n \in T
    OBVIOUS
  <2> QED BY <1>2, <1>3, <2>1
<1> QED BY <1>4

\* The least and the greatest element.
LEMMA MinIn ==
  ASSUME NEW S, S \subseteq Nat, S # {}
  PROVE  Min(S) \in S /\ \A n \in S : Min(S) <= n
<1>1. \E m \in S : \A n \in S : m <= n
  BY LeastNatural
<1> QED BY <1>1 DEF Min

LEMMA MaxIn ==
  ASSUME NEW b \in Nat, NEW S, S \subseteq 0 .. b, S # {}
  PROVE  Max(S) \in S /\ \A n \in S : n <= Max(S)
<1>1. \E m \in S : \A n \in S : n <= m
  BY GreatestNatural
<1>2. \E m \in S : \A n \in S : m >= n
  <2>1. PICK m \in S : \A n \in S : n <= m
    BY <1>1
  <2>2. \A n \in S : m >= n
    BY <2>1
  <2> QED BY <2>2
<1>3. Max(S) \in S /\ \A n \in S : Max(S) >= n
  BY <1>2 DEF Max
<1> QED BY <1>3

\* Induction over the steps of a loop: a set that contains 0, and n + 1 whenever it
\* contains n, up to b, contains 0 .. b.
LEMMA LoopInduction ==
  ASSUME NEW b \in Nat, NEW S, 0 \in S,
         \A n \in 0 .. b - 1 : n \in S => n + 1 \in S
  PROVE  \A n \in 0 .. b : n \in S
<1> SUFFICES ASSUME (0 .. b) \ S # {} PROVE FALSE
  OBVIOUS
<1> DEFINE T == (0 .. b) \ S
<1>1. T \subseteq Nat /\ T # {}
  OBVIOUS
<1>2. PICK m \in T : \A n \in T : m <= n
  BY <1>1, LeastNatural, Zenon
<1>3. m \in 1 .. b
  BY <1>2
<1>4. m - 1 \in 0 .. b - 1 /\ m - 1 \notin T
  BY <1>2, <1>3
<1>5. m - 1 \in S
  BY <1>4
<1>6. (m - 1) + 1 \in S
  BY <1>4, <1>5
<1> QED BY <1>2, <1>3, <1>6

\* Max and Min of two numbers.
LEMMA MaxOfTwo ==
  ASSUME NEW a \in Int, NEW b \in Int
  PROVE  Max({a, b}) = IF a >= b THEN a ELSE b
<1>1. \E x \in {a, b} : \A y \in {a, b} : x >= y
  OBVIOUS
<1>2. Max({a, b}) \in {a, b} /\ \A y \in {a, b} : Max({a, b}) >= y
  BY <1>1 DEF Max
<1> QED BY <1>2

LEMMA MinOfTwo ==
  ASSUME NEW a \in Int, NEW b \in Int
  PROVE  Min({a, b}) = IF a <= b THEN a ELSE b
<1>1. \E x \in {a, b} : \A y \in {a, b} : x <= y
  OBVIOUS
<1>2. Min({a, b}) \in {a, b} /\ \A y \in {a, b} : Min({a, b}) <= y
  BY <1>1 DEF Min
<1> QED BY <1>2

-----------------------------------------------------------------------------
(* Sequences put together in a loop *)

\* What FlattenSeq has put together of the first b sequences.
IsFlat(f, seqs, b) ==
  f = [i \in 1 .. b |-> IF i = 1 THEN seqs[i] ELSE f[i - 1] \o seqs[i]]

\* The loop of FlattenSeq is well-defined.
LEMMA FlatDef ==
  ASSUME NEW seqs, Len(seqs) \in Nat \ {0}
  PROVE  \E f : IsFlat(f, seqs, Len(seqs)) /\ FlattenSeq(seqs) = f[Len(seqs)]
<1> DEFINE S == {b \in Nat : b # 0 => \E f : IsFlat(f, seqs, b)}
           N == Len(seqs)
<1>0. N \in Nat /\ N # 0
  OBVIOUS
<1>1. 0 \in S
  OBVIOUS
<1>2. \A b \in 0 .. N - 1 : b \in S => b + 1 \in S
  <2> SUFFICES ASSUME NEW b \in 0 .. N - 1, b # 0 => \E f : IsFlat(f, seqs, b)
               PROVE  \E f : IsFlat(f, seqs, b + 1)
    BY <1>0
  <2>1. CASE b = 0
    <3> DEFINE f == [i \in 1 .. 1 |-> seqs[1]]
    <3>2. \A i \in 1 .. 1 : i = 1
      OBVIOUS
    <3>3. [i \in 1 .. 1 |-> IF i = 1 THEN seqs[i] ELSE f[i - 1] \o seqs[i]] = [i \in 1 .. 1 |-> seqs[1]]
      BY <3>2, Zenon
    <3>1. IsFlat(f, seqs, 1)
      BY <3>3, Zenon DEF IsFlat
    <3> QED BY <2>1, <3>1
  <2>2. CASE b # 0
    <3> PICK g : IsFlat(g, seqs, b)
      BY <2>2
    <3> DEFINE new == g[b] \o seqs[b + 1]
               f == [i \in 1 .. b + 1 |-> IF i = b + 1 THEN new ELSE g[i]]
    <3>0. b \in Nat \ {0} /\ 1 .. b + 1 = (1 .. b) \cup {b + 1} /\ b + 1 \notin 1 .. b
      BY <1>0, <2>2
    <3>1. \A i \in 1 .. b : f[i] = g[i]
      BY <3>0
    <3>2. \A i \in 1 .. b : g[i] = IF i = 1 THEN seqs[i] ELSE g[i - 1] \o seqs[i]
      BY DEF IsFlat
    <3>3. \A i \in 1 .. b + 1 : i # 1 => f[i - 1] = g[i - 1]
      BY <3>0, <3>1
    <3>4. f[b + 1] = new /\ b + 1 # 1 /\ (b + 1) - 1 = b
      <4>1. b + 1 \in 1 .. b + 1 /\ b + 1 # 1 /\ (b + 1) - 1 = b
        BY <3>0
      <4> HIDE DEF new
      <4> QED BY <4>1
    <3>5. \A i \in 1 .. b + 1 : f[i] = IF i = 1 THEN seqs[i] ELSE f[i - 1] \o seqs[i]
      <4> TAKE i \in 1 .. b + 1
      <4>1. CASE i = b + 1
        BY <4>1, <3>3, <3>4
      <4>2. CASE i \in 1 .. b
        BY <4>2, <3>0, <3>1, <3>2, <3>3
      <4> QED BY <4>1, <4>2, <3>0
    <3>6. f = [i \in 1 .. b + 1 |-> f[i]]
      OBVIOUS
    <3> HIDE DEF f, new
    <3>7. IsFlat(f, seqs, b + 1)
      BY <3>5, <3>6 DEF IsFlat
    <3> QED BY <3>7
  <2> QED BY <2>1, <2>2
<1>3. N \in S
  <2> HIDE DEF S
  <2>1. \A n \in 0 .. N : n \in S
    BY <1>0, <1>1, <1>2, LoopInduction, Zenon
  <2> QED BY <2>1, <1>0
<1>4. \E f : IsFlat(f, seqs, N)
  BY <1>0, <1>3
<1> DEFINE F == CHOOSE f : f = [i \in 1 .. Len(seqs) |-> IF i = 1 THEN seqs[i] ELSE f[i - 1] \o seqs[i]]
<1>5. IsFlat(F, seqs, N)
  BY <1>4, Zenon DEF IsFlat
<1>6. FlattenSeq(seqs) = F[N]
  BY <1>0, Zenon DEF FlattenSeq
<1> HIDE DEF F
<1> QED BY <1>5, <1>6

\* Every place of F holds one place of one of the first m sequences, and every
\* such place is held once: b and p are the sequence and the place in it.
Placed(F, seqs, m, b, p) ==
  /\ \A k \in 1 .. Len(F) :
       b[k] \in 1 .. m /\ p[k] \in 1 .. Len(seqs[b[k]]) /\ F[k] = seqs[b[k]][p[k]]
  /\ \A k, l \in 1 .. Len(F) : b[k] = b[l] /\ p[k] = p[l] => k = l
  /\ \A i \in 1 .. m : \A j \in 1 .. Len(seqs[i]) : \E k \in 1 .. Len(F) : b[k] = i /\ p[k] = j

\* One more sequence.
LEMMA PlacedStep ==
  ASSUME NEW T, NEW seqs \in Seq(Seq(T)), NEW m \in 0 .. Len(seqs) - 1, NEW F \in Seq(T),
         NEW b, NEW p, Placed(F, seqs, m, b, p)
  PROVE  /\ F \o seqs[m + 1] \in Seq(T)
         /\ \E c, q : Placed(F \o seqs[m + 1], seqs, m + 1, c, q)
<1> DEFINE s == seqs[m + 1]  G == F \o s  n == Len(F)  r == Len(s)
           c == [k \in 1 .. n + r |-> IF k <= n THEN b[k] ELSE m + 1]
           q == [k \in 1 .. n + r |-> IF k <= n THEN p[k] ELSE k - n]
<1>0. m \in Nat /\ m + 1 \in 1 .. Len(seqs)
  OBVIOUS
<1>1. s \in Seq(T)
  BY <1>0
<1> HIDE DEF s
<1>2. /\ n \in Nat /\ r \in Nat /\ G \in Seq(T) /\ Len(G) = n + r
      /\ \A k \in 1 .. n + r : G[k] = IF k <= n THEN F[k] ELSE s[k - n]
  BY <1>1
<1>3. /\ \A k \in 1 .. n : b[k] \in 1 .. m /\ p[k] \in 1 .. Len(seqs[b[k]]) /\ F[k] = seqs[b[k]][p[k]]
      /\ \A k, l \in 1 .. n : b[k] = b[l] /\ p[k] = p[l] => k = l
      /\ \A i \in 1 .. m : \A j \in 1 .. Len(seqs[i]) : \E k \in 1 .. n : b[k] = i /\ p[k] = j
  BY DEF Placed
<1>4. r = Len(seqs[m + 1]) /\ s = seqs[m + 1]
  BY DEF s
<1> HIDE DEF n, r, G
<1>5. \A k \in 1 .. n : k \in 1 .. n + r /\ c[k] = b[k] /\ q[k] = p[k] /\ G[k] = F[k]
  BY <1>2
<1>6. \A k \in n + 1 .. n + r :
        k \in 1 .. n + r /\ c[k] = m + 1 /\ q[k] = k - n /\ k - n \in 1 .. r /\ G[k] = s[k - n]
  BY <1>2
<1>7. \A k \in 1 .. n + r : k \in 1 .. n \/ k \in n + 1 .. n + r
  BY <1>2
<1> HIDE DEF c, q
<1>8. ASSUME NEW k \in 1 .. n + r
      PROVE  c[k] \in 1 .. m + 1 /\ q[k] \in 1 .. Len(seqs[c[k]]) /\ G[k] = seqs[c[k]][q[k]]
  <2>1. CASE k \in 1 .. n
    <3>1. b[k] \in 1 .. m /\ b[k] \in 1 .. m + 1
      BY <2>1, <1>0, <1>3
    <3> QED BY <2>1, <3>1, <1>3, <1>5
  <2>2. CASE k \in n + 1 .. n + r
    BY <2>2, <1>0, <1>4, <1>6
  <2> QED BY <2>1, <2>2, <1>7
<1>9. ASSUME NEW k \in 1 .. n + r, NEW l \in 1 .. n + r, c[k] = c[l], q[k] = q[l]
      PROVE  k = l
  <2>1. CASE k \in 1 .. n /\ l \in 1 .. n
    BY <2>1, <1>3, <1>5, <1>9
  <2>2. CASE k \in n + 1 .. n + r /\ l \in n + 1 .. n + r
    BY <2>2, <1>2, <1>6, <1>9
  <2>3. CASE k \in 1 .. n /\ l \in n + 1 .. n + r
    <3>1. c[k] \in 1 .. m /\ c[l] = m + 1
      BY <2>3, <1>3, <1>5, <1>6
    <3> QED BY <3>1, <1>0, <1>9
  <2>4. CASE l \in 1 .. n /\ k \in n + 1 .. n + r
    <3>1. c[l] \in 1 .. m /\ c[k] = m + 1
      BY <2>4, <1>3, <1>5, <1>6
    <3> QED BY <3>1, <1>0, <1>9
  <2> QED BY <2>1, <2>2, <2>3, <2>4, <1>7
<1>10. ASSUME NEW i \in 1 .. m + 1, NEW j \in 1 .. Len(seqs[i])
       PROVE  \E k \in 1 .. n + r : c[k] = i /\ q[k] = j
  <2>1. CASE i \in 1 .. m
    <3>1. PICK k \in 1 .. n : b[k] = i /\ p[k] = j
      BY <2>1, <1>3
    <3> QED BY <3>1, <1>5
  <2>2. CASE i = m + 1
    <3>1. j \in 1 .. r
      BY <2>2, <1>4
    <3>2. n + j \in n + 1 .. n + r /\ (n + j) - n = j
      BY <3>1, <1>2
    <3> QED BY <2>2, <3>2, <1>6
  <2> QED BY <2>1, <2>2, <1>0
<1>11. Placed(G, seqs, m + 1, c, q)
  BY <1>2, <1>8, <1>9, <1>10 DEF Placed
<1> QED BY <1>2, <1>11 DEF G, s

\* What FlattenSeq returns: a sequence that holds every place of every sequence once.
LEMMA FlattenPlaces ==
  ASSUME NEW T, NEW seqs \in Seq(Seq(T))
  PROVE  /\ FlattenSeq(seqs) \in Seq(T)
         /\ \E b, p : Placed(FlattenSeq(seqs), seqs, Len(seqs), b, p)
<1> DEFINE N == Len(seqs)
<1>0. N \in Nat
  OBVIOUS
<1>1. CASE N = 0
  <2>1. seqs = <<>> /\ FlattenSeq(seqs) = seqs
    BY <1>1 DEF FlattenSeq
  <2>2. <<>> \in Seq(T) /\ Placed(<<>>, seqs, 0, <<>>, <<>>)
    BY DEF Placed
  <2> QED BY <1>1, <2>1, <2>2
<1>2. CASE N # 0
  <2>1. PICK f : IsFlat(f, seqs, N) /\ FlattenSeq(seqs) = f[N]
    BY <1>0, <1>2, FlatDef
  <2>2. f[1] = seqs[1] /\ \A i \in 1 .. N - 1 : f[i + 1] = f[i] \o seqs[i + 1]
    <3>0. f = [i \in 1 .. N |-> IF i = 1 THEN seqs[i] ELSE f[i - 1] \o seqs[i]]
      BY <2>1, Zenon DEF IsFlat
    <3>1. f[1] = seqs[1]
      <4>1. 1 \in 1 .. N
        BY <1>0, <1>2
      <4> QED BY <3>0, <4>1, Zenon
    <3>2. ASSUME NEW i \in 1 .. N - 1 PROVE f[i + 1] = f[i] \o seqs[i + 1]
      <4>1. i + 1 \in 1 .. N /\ i + 1 # 1 /\ (i + 1) - 1 = i
        BY <1>0
      <4>2. f[i + 1] = IF i + 1 = 1 THEN seqs[i + 1] ELSE f[(i + 1) - 1] \o seqs[i + 1]
        BY <3>0, <4>1
      <4> QED BY <4>1, <4>2
    <3> QED BY <3>1, <3>2
  <2> DEFINE At(n) == f[n] \in Seq(T) /\ \E b, p : Placed(f[n], seqs, n, b, p)
             S == {n \in Nat : n # 0 => At(n)}
  <2>3. 0 \in S
    OBVIOUS
  <2>4. \A n \in 0 .. N - 1 : n \in S => n + 1 \in S
    <3> SUFFICES ASSUME NEW n \in 0 .. N - 1, n # 0 => At(n)
                 PROVE  At(n + 1)
      <4> HIDE DEF At
      <4> QED BY <1>0
    <3>1. CASE n = 0
      <4>1. <<>> \in Seq(T) /\ Placed(<<>>, seqs, 0, <<>>, <<>>)
        BY DEF Placed
      <4>2. <<>> \o seqs[0 + 1] \in Seq(T) /\ \E b, p : Placed(<<>> \o seqs[0 + 1], seqs, 0 + 1, b, p)
        <5>1. 0 \in 0 .. Len(seqs) - 1
          BY <1>0, <1>2
        <5> QED BY <4>1, <5>1, PlacedStep, Zenon
      <4>3. <<>> \o seqs[1] = seqs[1]
        <5>1. seqs[1] \in Seq(T)
          BY <1>0, <1>2
        <5> QED BY <5>1
      <4> QED BY <3>1, <4>2, <4>3, <2>2
    <3>2. CASE n # 0
      <4>1. f[n] \in Seq(T) /\ \E b, p : Placed(f[n], seqs, n, b, p)
        BY <3>2
      <4>2. f[n] \o seqs[n + 1] \in Seq(T) /\ \E b, p : Placed(f[n] \o seqs[n + 1], seqs, n + 1, b, p)
        BY <4>1, PlacedStep
      <4>3. f[n + 1] = f[n] \o seqs[n + 1]
        <5>1. n \in 1 .. N - 1
          BY <1>0, <3>2
        <5> QED BY <5>1, <2>2
      <4> QED BY <4>2, <4>3
    <3> QED BY <3>1, <3>2
  <2>5. N \in S
    <3> HIDE DEF S
    <3>1. \A n \in 0 .. N : n \in S
      BY <1>0, <2>3, <2>4, LoopInduction, Zenon
    <3> QED BY <3>1, <1>0
  <2> QED BY <1>2, <2>1, <2>5
<1> QED BY <1>1, <1>2

\* The sequences of a finite set have exactly its elements, each once.
LEMMA SeqsOfSet ==
  ASSUME NEW S, IsFiniteSet(S), NEW s \in SetToSeqs(S)
  PROVE  /\ s \in Seq(S) /\ ToSet(s) = S /\ DOMAIN s = 1..Len(s)
         /\ Len(s) = Cardinality(S)
         /\ \A i, j \in DOMAIN s : s[i] = s[j] => i = j
<1> DEFINE n == Cardinality(S)
<1>1. n \in Nat /\ IsFiniteSet(1..n) /\ Cardinality(1..n) = n
  BY FS_CardinalityType, FS_Interval
<1>2. s \in [1..n -> S] /\ \A i, j \in 1..n : i # j => s[i] # s[j]
  BY DEF SetToSeqs
<1>3. s \in Seq(S) /\ Len(s) = n /\ DOMAIN s = 1..n
  BY <1>1, <1>2
<1>4. s \in Injection(1..n, S)
  BY <1>2, Zenon DEF Injection, IsInjective
<1>5. s \in Surjection(1..n, S)
  BY <1>1, <1>4, FS_Injection
<1>6. \A x \in S : \E i \in 1..n : s[i] = x
  BY <1>5, Zenon DEF Surjection
<1>7. \A i, j \in DOMAIN s : s[i] = s[j] => i = j
  BY <1>2, <1>3
<1> QED BY <1>2, <1>3, <1>6, <1>7 DEF ToSet

\* A function on 1 .. n is a sequence.
LEMMA Tuple ==
  ASSUME NEW T, NEW n \in Nat, NEW f \in [1 .. n -> T]
  PROVE  f \in Seq(T) /\ Len(f) = n
  OBVIOUS

=============================================================================
