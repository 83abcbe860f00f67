--------------------------- MODULE DependencyProofs ---------------------------
(***************************************************************************)
(* Proofs about DependencyOrder, for every catalog: any finite number of   *)
(* tracks with any lists of dependencies.                                  *)
(***************************************************************************)
EXTENDS DependencyOrder, LoopLemmas, FiniteSetTheorems

(***************************************************************************)
(* The reference.                                                          *)
(***************************************************************************)

\* Closure(S) contains S and the dependencies of its members.
LEMMA ClosureContains ==
  ASSUME NEW S \in SUBSET Names
  PROVE  S \subseteq Closure(S)
  BY DEF Closure

LEMMA ClosureClosed ==
  ASSUME NEW S, NEW a \in Closure(S), NEW b \in Names, Edge(a, b)
  PROVE  b \in Closure(S)
  BY DEF Closure, Closed

\* It is in every other such set.
LEMMA ClosureLeast ==
  ASSUME NEW S, NEW T \in SUBSET Names, S \subseteq T, Closed(T)
  PROVE  Closure(S) \subseteq T
  BY DEF Closure

LEMMA ClosureKept ==
  ASSUME deps' = deps, NEW S
  PROVE  Closure(S)' = Closure(S)
  BY Zenon DEF Closure, Closed, Edge

(***************************************************************************)
(* The inductive invariant.                                                *)
(***************************************************************************)

Frames == [name : Listed, next : Nat \ {0}]

TypeOK ==
  /\ deps \in [Listed -> Seq(Names)]
  /\ \A a \in Listed : Len(deps[a]) <= MaxDeps
  /\ root \in Names
  /\ pc \in {"walk", "ordered", "failed"}
  /\ stack \in Seq(Frames)
  /\ visiting \subseteq Listed /\ visited \subseteq Listed /\ ordered \in Seq(Listed)
  /\ calls \in Nat

\* The active calls: each is for the dependency its caller is at, which makes the
\* stack a path of dependencies, and what a call has passed is done.
Active ==
  /\ visiting = {stack[i].name : i \in 1 .. Len(stack)}
  /\ \A i, j \in 1 .. Len(stack) : stack[i].name = stack[j].name => i = j
  /\ stack # <<>> => stack[1].name = root
  /\ \A i \in 1 .. Len(stack) : stack[i].next <= Len(deps[stack[i].name]) + 1
  /\ \A i \in 1 .. Len(stack) - 1 :
       /\ stack[i].next <= Len(deps[stack[i].name])
       /\ deps[stack[i].name][stack[i].next] = stack[i + 1].name
Path ==
  \A i, j \in 1 .. Len(stack) :
    i < j => stack[j].name \in Closure(Range(deps[stack[i].name]))
Passed ==
  \A i \in 1 .. Len(stack) : \A k \in 1 .. stack[i].next - 1 : deps[stack[i].name][k] \in visited

\* The tracks that are done, in their order.
Sorted ==
  /\ visited = {ordered[i] : i \in 1 .. Len(ordered)}
  /\ \A i, j \in 1 .. Len(ordered) : ordered[i] = ordered[j] => i = j
  /\ \A i \in 1 .. Len(ordered) : \A b \in Names :
       Edge(ordered[i], b) => \E j \in 1 .. i - 1 : ordered[j] = b
  /\ visited \cap visiting = {}
Reached == visited \cup visiting \subseteq Needed

\* How the walk starts and ends.
Ends ==
  /\ pc = "walk" /\ stack = <<>> => visited = {} /\ calls = 0
  /\ pc = "ordered" => stack = <<>> /\ ordered # <<>> /\ ordered[Len(ordered)] = root
  /\ pc = "failed" => Cyclic \/ Needed \cap Missing # {}

\* The dependencies that have been looked at, by track and place.
Places == Listed \X (1 .. MaxDeps)
Looked ==
  {x \in Places :
     \/ x[1] \in visited /\ x[2] <= Len(deps[x[1]])
     \/ \E i \in 1 .. Len(stack) :
          /\ x[1] = stack[i].name
          /\ x[2] < stack[i].next \/ (i < Len(stack) /\ x[2] = stack[i].next)}
Counted ==
  /\ pc # "failed" => calls <= 1 + Cardinality(Looked)
  /\ calls <= 1 + MaxDeps * Cardinality(Listed)

IInv == TypeOK /\ Active /\ Path /\ Passed /\ Sorted /\ Reached /\ Ends /\ Counted

\* The invariant gives the property: the tracks that are done are closed under
\* dependencies, and so are the ones before any of them.
LEMMA InvariantOrders ==
  IInv => OrdersDependencies
  <1> SUFFICES ASSUME IInv PROVE OrdersDependencies
    OBVIOUS
  <1>0. /\ TypeOK /\ Sorted /\ Reached /\ Ends /\ Counted
        /\ DOMAIN ordered = 1 .. Len(ordered) /\ Len(ordered) \in Nat
        /\ visited \subseteq Names /\ Listed \cap Missing = {}
    BY NamesAssumption DEF IInv, TypeOK, Names
  <1>1. calls <= 1 + MaxDeps * Cardinality(Listed)
    BY <1>0 DEF Counted
  <1>2. pc = "failed" => Cyclic \/ Needed \cap Missing # {}
    BY <1>0 DEF Ends
  <1>3. ASSUME pc = "ordered"
        PROVE  /\ ~Cyclic /\ Needed \cap Missing = {}
               /\ Range(ordered) = Needed /\ IsInjective(ordered) /\ Last(ordered) = root
               /\ \A i, j \in DOMAIN ordered : Edge(ordered[i], ordered[j]) => j < i
    <2>1. stack = <<>> /\ ordered # <<>> /\ ordered[Len(ordered)] = root
      BY <1>0, <1>3 DEF Ends
    <2>2. Range(ordered) = visited
      BY <1>0 DEF Sorted, Range
    <2>3. Closed(visited)
      <3> SUFFICES ASSUME NEW a \in visited, NEW b \in Names, Edge(a, b) PROVE b \in visited
        BY DEF Closed
      <3>1. PICK i \in 1 .. Len(ordered) : ordered[i] = a
        BY <1>0 DEF Sorted
      <3>2. PICK j \in 1 .. i - 1 : ordered[j] = b
        BY <1>0, <3>1 DEF Sorted
      <3>3. j \in 1 .. Len(ordered)
        BY <1>0, <3>1, <3>2
      <3> QED BY <1>0, <3>2, <3>3 DEF Sorted
    <2>4. root \in visited
      <3>1. Len(ordered) \in 1 .. Len(ordered)
        BY <1>0, <2>1 DEF TypeOK
      <3> QED BY <1>0, <2>1, <3>1 DEF Sorted
    <2>5. Needed \subseteq visited
      BY <1>0, <2>3, <2>4, ClosureLeast DEF Needed
    <2>6. Needed = visited
      BY <1>0, <2>5 DEF Reached
    <2>7. Needed \cap Missing = {}
      BY <1>0, <2>6 DEF TypeOK
    <2>8. ASSUME NEW a \in Needed \cap Listed, a \in Closure(Range(deps[a])) PROVE FALSE
      <3>1. PICK i \in 1 .. Len(ordered) : ordered[i] = a
        BY <1>0, <2>6 DEF Sorted
      <3> DEFINE T == {ordered[j] : j \in 1 .. i - 1}
      <3>2. \A j \in 1 .. i - 1 : j \in 1 .. Len(ordered) /\ j \in Nat /\ j < i
        BY <1>0, <3>1
      <3>3. T \subseteq Names
        BY <1>0, <3>2 DEF Sorted
      <3>4. Range(deps[a]) \subseteq T
        <4> SUFFICES ASSUME NEW b \in Range(deps[a]) PROVE b \in T
          OBVIOUS
        <4>1. deps[a] \in Seq(Names)
          BY <1>0, <2>8 DEF TypeOK
        <4>2. b \in Names
          BY <4>1 DEF Range
        <4>3. Edge(ordered[i], b)
          BY <2>8, <3>1 DEF Edge
        <4> QED BY <1>0, <4>2, <4>3 DEF Sorted
      <3>5. Closed(T)
        <4> SUFFICES ASSUME NEW j \in 1 .. i - 1, NEW b \in Names, Edge(ordered[j], b) PROVE b \in T
          BY DEF Closed
        <4>1. PICK k \in 1 .. j - 1 : ordered[k] = b
          BY <1>0, <3>2 DEF Sorted
        <4>2. k \in 1 .. i - 1
          BY <3>1, <4>1
        <4> QED BY <4>1, <4>2
      <3>6. a \in T
        BY <2>8, <3>3, <3>4, <3>5, ClosureLeast
      <3>7. PICK j \in 1 .. i - 1 : ordered[j] = a
        BY <3>6
      <3>8. j = i
        BY <1>0, <3>1, <3>2, <3>7 DEF Sorted
      <3> QED BY <3>2, <3>7, <3>8
    <2>9. IsInjective(ordered)
      BY <1>0 DEF Sorted, IsInjective
    <2>10. Last(ordered) = root
      BY <2>1 DEF Last
    <2>11. ASSUME NEW i \in DOMAIN ordered, NEW j \in DOMAIN ordered, Edge(ordered[i], ordered[j])
           PROVE  j < i
      <3>1. ordered[j] \in Names
        BY <1>0 DEF Sorted
      <3>2. PICK k \in 1 .. i - 1 : ordered[k] = ordered[j]
        BY <1>0, <2>11, <3>1 DEF Sorted
      <3>3. k \in 1 .. Len(ordered) /\ k < i
        BY <1>0, <3>2
      <3>4. k = j
        BY <1>0, <3>2, <3>3 DEF Sorted
      <3> QED BY <3>3, <3>4
    <2> QED BY <2>2, <2>6, <2>7, <2>8, <2>9, <2>10, <2>11 DEF Cyclic
  <1> QED BY <1>1, <1>2, <1>3 DEF OrdersDependencies

\* There are at most MaxDeps places for every track.
LEMMA PlacesBound ==
  ASSUME NEW Y \in SUBSET Places
  PROVE  /\ IsFiniteSet(Y) /\ Cardinality(Y) \in Nat
         /\ Cardinality(Y) <= MaxDeps * Cardinality(Listed)
  <1>1. MaxDeps \in Nat /\ IsFiniteSet(Listed) /\ Cardinality(Listed) \in Nat
    BY NamesAssumption, FS_CardinalityType
  <1>2. IsFiniteSet(1 .. MaxDeps) /\ Cardinality(1 .. MaxDeps) = MaxDeps
    BY <1>1, FS_Interval
  <1>3. IsFiniteSet(Places) /\ Cardinality(Places) = Cardinality(Listed) * MaxDeps
    BY <1>1, <1>2, FS_Product DEF Places
  <1>4. IsFiniteSet(Y) /\ Cardinality(Y) <= Cardinality(Places)
    BY <1>3, FS_Subset
  <1>5. Cardinality(Y) \in Nat
    BY <1>4, FS_CardinalityType
  <1>6. Cardinality(Listed) * MaxDeps = MaxDeps * Cardinality(Listed)
    BY <1>1
  <1> QED BY <1>3, <1>4, <1>5, <1>6

LEMMA LookedPlaces == Looked \in SUBSET Places
  BY DEF Looked

\* Looking at one more place counts.
LEMMA OneMore ==
  ASSUME NEW Y \in SUBSET Places, NEW Z \in SUBSET Places, NEW x \in Z,
         x \notin Y, Y \subseteq Z
  PROVE  Cardinality(Y) + 1 <= Cardinality(Z)
  <1>1. IsFiniteSet(Y) /\ IsFiniteSet(Z)
    BY PlacesBound
  <1>2. Cardinality(Y \cup {x}) = Cardinality(Y) + 1
    BY <1>1, FS_AddElement
  <1>3. Cardinality(Y \cup {x}) <= Cardinality(Z)
    <2>1. Y \cup {x} \in SUBSET Z
      OBVIOUS
    <2> QED BY <1>1, <2>1, FS_Subset
  <1> QED BY <1>2, <1>3

LEMMA InitInvariant ==
  Init => IInv
  <1> SUFFICES ASSUME Init PROVE IInv
    OBVIOUS
  <1>0. MaxDeps \in Nat /\ Cardinality(Listed) \in Nat
    BY NamesAssumption, FS_CardinalityType
  <1>1. \A a \in Listed : deps[a] \in Seq(Names) /\ Len(deps[a]) <= MaxDeps
    <2> TAKE a \in Listed
    <2>1. PICK n \in 0 .. MaxDeps : deps[a] \in [1 .. n -> Names]
      BY DEF Init
    <2>2. n \in Nat /\ n <= MaxDeps
      BY <1>0, <2>1
    <2>3. deps[a] \in Seq(Names) /\ Len(deps[a]) = n
      BY <2>1, <2>2, Tuple
    <2> QED BY <2>2, <2>3
  <1>2. TypeOK
    <2>1. deps \in [Listed -> Seq(Names)]
      <3>1. deps = [a \in Listed |-> deps[a]]
        BY DEF Init
      <3> QED BY <1>1, <3>1
    <2> QED BY <1>1, <2>1 DEF Init, TypeOK
  <1>3. Active /\ Path /\ Passed /\ Sorted /\ Reached /\ Ends
    BY DEF Init, Active, Path, Passed, Sorted, Reached, Ends
  <1>4. calls <= 1 + Cardinality(Looked)
    <2>2. Cardinality(Looked) \in Nat
      BY LookedPlaces, PlacesBound
    <2> QED BY <2>2 DEF Init
  <1>5. calls <= 1 + MaxDeps * Cardinality(Listed)
    <2>1. MaxDeps * Cardinality(Listed) \in Nat
      BY <1>0
    <2> QED BY <2>1 DEF Init
  <1> QED BY <1>2, <1>3, <1>4, <1>5 DEF IInv, Counted

(***************************************************************************)
(* The steps.                                                              *)
(***************************************************************************)

\* The innermost call and the dependency it is at.
LEMMA CallFacts ==
  ASSUME IInv, Calling, stack # <<>>
  PROVE  LET n == Len(stack)
             f == stack[Len(stack)]
         IN  /\ n \in Nat \ {0} /\ n \in 1 .. Len(stack)
             /\ f.name \in Listed /\ f.next \in Nat \ {0} /\ f.next \in 1 .. Len(deps[f.name])
             /\ Last(stack) = f /\ Called = deps[f.name][f.next]
             /\ Called \in Names /\ Called \in Range(deps[f.name]) /\ Edge(f.name, Called)
             /\ f.name \in visiting /\ f.name \notin visited
             /\ <<f.name, f.next>> \in Places /\ <<f.name, f.next>> \notin Looked
  <1> DEFINE n == Len(stack)
             f == stack[n]
             x == <<f.name, f.next>>
  <1>1. n \in Nat \ {0} /\ n \in 1 .. Len(stack) /\ f \in Frames
    BY DEF IInv, TypeOK
  <1>2. Last(stack) = f /\ Called = deps[f.name][f.next] /\ f.next <= Len(deps[f.name])
    BY DEF Last, Called, Calling
  <1>3. f.name \in Listed /\ f.next \in Nat \ {0}
    BY <1>1 DEF Frames
  <1>4. deps[f.name] \in Seq(Names) /\ Len(deps[f.name]) <= MaxDeps /\ Len(deps[f.name]) \in Nat
    BY <1>3 DEF IInv, TypeOK
  <1> HIDE DEF f
  <1>5. f.next \in 1 .. Len(deps[f.name])
    BY <1>2, <1>3, <1>4
  <1>6. Called \in Names /\ Called \in Range(deps[f.name])
    BY <1>2, <1>4, <1>5 DEF Range
  <1>7. f.name \in visiting /\ f.name \notin visited
    BY <1>1 DEF IInv, Active, Sorted, f
  <1>8. x \in Places
    BY <1>3, <1>4, <1>5, NamesAssumption DEF Places
  <1>9. ASSUME x \in Looked PROVE FALSE
    <2>1. x[1] = f.name /\ x[2] = f.next
      OBVIOUS
    <2>2. PICK i \in 1 .. Len(stack) :
            /\ f.name = stack[i].name
            /\ f.next < stack[i].next \/ (i < Len(stack) /\ f.next = stack[i].next)
      BY <1>7, <1>9, <2>1 DEF Looked
    <2>3. i = n
      BY <1>1, <2>2 DEF IInv, Active, f
    <2> QED BY <1>1, <1>3, <2>2, <2>3 DEF f
  <1> QED BY <1>1, <1>2, <1>3, <1>5, <1>6, <1>7, <1>8, <1>9 DEF Edge, f

\* Visit is called only for tracks that are needed.
LEMMA CalledNeeded ==
  ASSUME IInv, Calling
  PROVE  Called \in Needed
  <1>1. {root} \in SUBSET Names
    BY DEF IInv, TypeOK
  <1>2. CASE stack = <<>>
    BY <1>1, <1>2, ClosureContains DEF Called, Needed
  <1>3. CASE stack # <<>>
    <2> DEFINE f == stack[Len(stack)]
    <2>1. f.name \in visiting /\ Called \in Names /\ Edge(f.name, Called)
      BY <1>3, CallFacts
    <2>2. f.name \in Needed
      BY <2>1 DEF IInv, Reached
    <2> QED BY <2>1, <2>2, ClosureClosed DEF Needed
  <1> QED BY <1>2, <1>3

LEMMA ReferenceKept ==
  ASSUME deps' = deps, root' = root
  PROVE  /\ Needed' = Needed /\ (Cyclic' <=> Cyclic)
         /\ \A a, b : Edge(a, b)' <=> Edge(a, b)
         /\ \A a : Closure(Range(deps[a]))' = Closure(Range(deps[a]))
  <1>1. Needed' = Needed
    <2>1. Closure({root})' = Closure({root})
      BY Zenon DEF Closure, Closed, Edge
    <2> QED BY <2>1, Zenon DEF Needed
  <1>2. \A a : Closure(Range(deps[a]))' = Closure(Range(deps[a]))
    BY Zenon DEF Closure, Closed, Edge
  <1>3. Cyclic' <=> Cyclic
    BY <1>1, <1>2, Zenon DEF Cyclic
  <1>4. \A a, b : Edge(a, b)' <=> Edge(a, b)
    BY Zenon DEF Edge
  <1> QED BY <1>1, <1>2, <1>3, <1>4

\* An active call that is called again closes a cycle.
LEMMA FailStep ==
  ASSUME IInv, VisitFails
  PROVE  IInv'
  <1>0. /\ deps' = deps /\ root' = root /\ stack' = stack /\ pc' = "failed"
        /\ visiting' = visiting /\ visited' = visited /\ ordered' = ordered
        /\ calls' = calls + 1 /\ Calling /\ Refused(Called) /\ calls \in Nat /\ pc # "failed"
    BY DEF VisitFails, IInv, TypeOK, marks, Calling
  <1>1. /\ Needed' = Needed /\ (Cyclic' <=> Cyclic)
        /\ \A a, b : Edge(a, b)' <=> Edge(a, b)
        /\ \A a : Closure(Range(deps[a]))' = Closure(Range(deps[a]))
    BY <1>0, ReferenceKept
  <1>2. TypeOK' /\ Active' /\ Passed'
    BY <1>0 DEF IInv, TypeOK, Active, Passed
  <1>3. Path'
    BY <1>0, <1>1 DEF IInv, Path
  <1>4. Sorted'
    BY <1>0, <1>1 DEF IInv, Sorted
  <1>5. Reached'
    BY <1>0, <1>1 DEF IInv, Reached
  <1>6. Called \in Needed
    BY <1>0, CalledNeeded
  <1>7. Cyclic \/ Needed \cap Missing # {}
    <2>1. CASE Called \notin Listed
      <3>1. Called \in Names
        BY <1>6 DEF Needed, Closure
      <3> QED BY <1>6, <2>1, <3>1 DEF Names
    <2>2. CASE Called \in Listed /\ Called \in visiting
      <3> DEFINE n == Len(stack)
                 f == stack[n]
      <3>1. PICK i \in 1 .. Len(stack) : stack[i].name = Called
        BY <2>2 DEF IInv, Active
      <3>2. stack # <<>>
        BY <3>1
      <3>3. /\ n \in Nat \ {0} /\ n \in 1 .. Len(stack) /\ f.name \in Listed
            /\ Called \in Names /\ Called \in Range(deps[f.name]) /\ Edge(f.name, Called)
        BY <1>0, <3>2, CallFacts
      <3> DEFINE C == Closure(Range(deps[Called]))
      <3>4. CASE i = n
        <4>1. Range(deps[Called]) \in SUBSET Names
          <5>1. deps[Called] \in Seq(Names)
            BY <2>2 DEF IInv, TypeOK
          <5> QED BY <5>1 DEF Range
        <4>2. Called \in Range(deps[Called])
          BY <3>1, <3>3, <3>4
        <4>3. Called \in C
          BY <4>1, <4>2, ClosureContains
        <4> QED BY <1>6, <2>2, <4>3 DEF Cyclic
      <3>5. CASE i # n
        <4>1. i < n
          BY <3>3, <3>5
        <4>2. f.name \in C
          BY <3>1, <3>3, <4>1 DEF IInv, Path
        <4>3. Called \in C
          BY <3>3, <4>2, ClosureClosed
        <4> QED BY <1>6, <2>2, <4>3 DEF Cyclic
      <3> QED BY <3>4, <3>5
    <2> QED BY <1>0, <2>1, <2>2 DEF Refused
  <1>8. Ends'
    BY <1>0, <1>1, <1>7 DEF Ends
  <1>9. calls + 1 <= 1 + MaxDeps * Cardinality(Listed)
    <2>1. CASE stack = <<>>
      <3>1. calls = 0 /\ MaxDeps * Cardinality(Listed) \in Nat
        BY <1>0, <2>1, NamesAssumption, FS_CardinalityType DEF IInv, Ends, Calling
      <3> QED BY <3>1
    <2>2. CASE stack # <<>>
      <3> DEFINE x == <<stack[Len(stack)].name, stack[Len(stack)].next>>
                 Z == Looked \cup {x}
      <3>1. x \in Places /\ x \notin Looked
        BY <1>0, <2>2, CallFacts
      <3> HIDE DEF x
      <3>2. Looked \in SUBSET Places /\ Z \in SUBSET Places /\ x \in Z /\ Looked \subseteq Z
        BY <3>1, LookedPlaces
      <3> HIDE DEF Z
      <3>3. Cardinality(Looked) + 1 <= Cardinality(Z)
        BY <3>1, <3>2, OneMore
      <3>4. /\ Cardinality(Z) \in Nat /\ Cardinality(Looked) \in Nat
            /\ Cardinality(Z) <= MaxDeps * Cardinality(Listed)
        BY <3>2, PlacesBound
      <3>5. calls <= 1 + Cardinality(Looked)
        BY <1>0 DEF IInv, Counted
      <3>6. MaxDeps * Cardinality(Listed) \in Nat
        BY NamesAssumption, FS_CardinalityType
      <3> QED BY <1>0, <3>3, <3>4, <3>5, <3>6
    <2> QED BY <2>1, <2>2
  <1>10. Counted'
    BY <1>0, <1>9 DEF Counted
  <1> QED BY <1>2, <1>3, <1>4, <1>5, <1>8, <1>10 DEF IInv

\* A call that adds the place it was made from to the places looked at is paid for.
LEMMA CountStep ==
  ASSUME IInv, Calling, stack # <<>>, calls' = calls + 1, Looked \subseteq Looked',
         <<stack[Len(stack)].name, stack[Len(stack)].next>> \in Looked'
  PROVE  Counted'
  <1> DEFINE x == <<stack[Len(stack)].name, stack[Len(stack)].next>>
  <1>1. x \notin Looked
    BY CallFacts
  <1>2. Looked \in SUBSET Places /\ Looked' \in SUBSET Places
    BY DEF Looked
  <1>3. Cardinality(Looked) + 1 <= Cardinality(Looked')
    <2> DEFINE Z == Looked'
    <2>1. Z \in SUBSET Places /\ x \in Z /\ Looked \subseteq Z
      BY <1>2
    <2> HIDE DEF Z, x
    <2>2. Cardinality(Looked) + 1 <= Cardinality(Z)
      BY <1>1, <1>2, <2>1, OneMore
    <2> QED BY <2>2 DEF Z
  <1>4. /\ Cardinality(Looked') \in Nat /\ Cardinality(Looked) \in Nat
        /\ Cardinality(Looked') <= MaxDeps * Cardinality(Listed)
    BY <1>2, PlacesBound
  <1>5. calls <= 1 + Cardinality(Looked) /\ calls \in Nat
    BY DEF IInv, Counted, Calling, TypeOK
  <1>6. MaxDeps * Cardinality(Listed) \in Nat
    BY NamesAssumption, FS_CardinalityType
  <1>7. calls' <= 1 + Cardinality(Looked') /\ calls' <= 1 + MaxDeps * Cardinality(Listed)
    BY <1>3, <1>4, <1>5, <1>6
  <1>8. Cardinality(Looked)' = Cardinality(Looked') /\ (MaxDeps * Cardinality(Listed))' = MaxDeps * Cardinality(Listed)
    OBVIOUS
  <1> QED BY <1>7, <1>8 DEF Counted

\* The caller of a track that is done goes on.
LEMMA DoneStep ==
  ASSUME IInv, VisitDone
  PROVE  IInv'
  <1> DEFINE n == Len(stack)
             f == stack[n]
  <1>1. /\ deps' = deps /\ root' = root /\ calls' = calls + 1 /\ Calling
        /\ visiting' = visiting /\ visited' = visited /\ ordered' = ordered
        /\ Called \in visited
    BY DEF VisitDone, marks, Done
  <1>2. stack # <<>>
    BY <1>1 DEF IInv, Ends, Calling
  <1>3. pc' = pc /\ pc = "walk" /\ stack' = [stack EXCEPT ![n].next = @ + 1]
    BY <1>1, <1>2 DEF VisitDone, ReturnTo, Calling
  <1>4. /\ n \in Nat \ {0} /\ n \in 1 .. Len(stack) /\ f.name \in Listed
        /\ f.next \in Nat \ {0} /\ f.next \in 1 .. Len(deps[f.name])
        /\ Called = deps[f.name][f.next] /\ <<f.name, f.next>> \in Places
    BY <1>1, <1>2, CallFacts
  <1>5. stack \in Seq(Frames)
    BY DEF IInv, TypeOK
  <1>6. /\ stack' \in Seq(Frames) /\ Len(stack') = n
        /\ \A i \in 1 .. n : stack'[i].name = stack[i].name
        /\ \A i \in 1 .. n : i # n => stack'[i].next = stack[i].next
        /\ stack'[n].next = f.next + 1
    <2>1. \A i \in 1 .. n : stack[i] \in Frames
      BY <1>5
    <2>2. [f EXCEPT !.next = @ + 1] \in Frames
      BY <1>4, <2>1 DEF Frames
    <2> QED BY <1>3, <1>4, <1>5, <2>1, <2>2 DEF Frames
  <1>7. /\ Needed' = Needed /\ (Cyclic' <=> Cyclic)
        /\ \A a, b : Edge(a, b)' <=> Edge(a, b)
        /\ \A a : Closure(Range(deps[a]))' = Closure(Range(deps[a]))
    BY <1>1, ReferenceKept
  <1>8. TypeOK'
    BY <1>1, <1>3, <1>6 DEF IInv, TypeOK
  <1>9. Active'
    <2>1. visiting' = {stack'[i].name : i \in 1 .. Len(stack')}
      BY <1>1, <1>6 DEF IInv, Active
    <2>2. \A i, j \in 1 .. Len(stack') : stack'[i].name = stack'[j].name => i = j
      BY <1>6 DEF IInv, Active
    <2>3. stack'[1].name = root'
      BY <1>1, <1>2, <1>4, <1>6 DEF IInv, Active
    <2>4. \A i \in 1 .. Len(stack') : stack'[i].next <= Len(deps'[stack'[i].name]) + 1
      <3> TAKE i \in 1 .. Len(stack')
      <3>1. CASE i # n
        BY <1>1, <1>6, <3>1 DEF IInv, Active
      <3>2. CASE i = n
        <4>1. Len(deps[f.name]) \in Nat
          BY <1>4 DEF IInv, TypeOK
        <4>2. stack'[i].next = f.next + 1 /\ stack'[i].name = f.name
          BY <1>4, <1>6, <3>2
        <4> HIDE DEF f
        <4> QED BY <1>1, <1>4, <4>1, <4>2
      <3> QED BY <3>1, <3>2
    <2>5. \A i \in 1 .. Len(stack') - 1 :
            /\ stack'[i].next <= Len(deps'[stack'[i].name])
            /\ deps'[stack'[i].name][stack'[i].next] = stack'[i + 1].name
      <3> TAKE i \in 1 .. Len(stack') - 1
      <3>1. i \in 1 .. n - 1 /\ i \in 1 .. n /\ i # n /\ i + 1 \in 1 .. n
        BY <1>4, <1>6
      <3> QED BY <1>1, <1>6, <3>1 DEF IInv, Active
    <2> QED BY <2>1, <2>2, <2>3, <2>4, <2>5 DEF Active
  <1>10. Path'
    BY <1>1, <1>6, <1>7 DEF IInv, Path
  <1>11. Passed'
    <2> SUFFICES ASSUME NEW i \in 1 .. Len(stack'), NEW k \in 1 .. stack'[i].next - 1
                 PROVE  deps'[stack'[i].name][k] \in visited'
      BY DEF Passed
    <2>1. CASE i # n
      BY <1>1, <1>6, <2>1 DEF IInv, Passed
    <2>2. CASE i = n /\ k = f.next
      BY <1>1, <1>4, <1>6, <2>2
    <2>3. CASE i = n /\ k # f.next
      <3>1. k \in 1 .. stack[n].next - 1
        BY <1>4, <1>6, <2>3
      <3> QED BY <1>1, <1>4, <1>6, <2>3, <3>1 DEF IInv, Passed
    <2> QED BY <2>1, <2>2, <2>3
  <1>12. Sorted' /\ Reached'
    BY <1>1, <1>7 DEF IInv, Sorted, Reached
  <1>13. Ends'
    BY <1>3, <1>4, <1>6 DEF Ends
  <1>14. Counted'
    <2>1. ASSUME NEW x \in Looked PROVE x \in Looked'
      <3>1. CASE x[1] \in visited /\ x[2] <= Len(deps[x[1]])
        BY <1>1, <2>1, <3>1 DEF Looked
      <3>2. CASE \E i \in 1 .. Len(stack) :
                   /\ x[1] = stack[i].name
                   /\ x[2] < stack[i].next \/ (i < Len(stack) /\ x[2] = stack[i].next)
        <4>1. PICK i \in 1 .. Len(stack) :
                   /\ x[1] = stack[i].name
                   /\ x[2] < stack[i].next \/ (i < Len(stack) /\ x[2] = stack[i].next)
          BY <3>2
        <4>2. x \in Places /\ x[2] \in Nat
          BY <2>1 DEF Looked, Places
        <4>3. i \in 1 .. Len(stack') /\ x[1] = stack'[i].name
              /\ (x[2] < stack'[i].next \/ (i < Len(stack') /\ x[2] = stack'[i].next))
          BY <1>4, <1>6, <4>1, <4>2
        <4> QED BY <4>2, <4>3 DEF Looked
      <3> QED BY <2>1, <3>1, <3>2 DEF Looked
    <2>2. <<f.name, f.next>> \in Looked'
      <3> DEFINE x == <<f.name, f.next>>
      <3>1. x \in Places /\ x[1] = f.name /\ x[2] = f.next
        BY <1>4
      <3> HIDE DEF x
      <3>2. n \in 1 .. Len(stack') /\ x[1] = stack'[n].name /\ x[2] < stack'[n].next
        BY <1>4, <1>6, <3>1
      <3>3. x \in Looked'
        BY <3>1, <3>2 DEF Looked
      <3> QED BY <3>3 DEF x
    <2> QED BY <1>1, <1>2, <2>1, <2>2, CountStep
  <1> QED BY <1>8, <1>9, <1>10, <1>11, <1>12, <1>13, <1>14 DEF IInv

\* A new call: the path grows by a dependency of its last track.
LEMMA BeginStep ==
  ASSUME IInv, VisitBegins
  PROVE  IInv'
  <1> DEFINE n == Len(stack)
             new == [name |-> Called, next |-> 1]
  <1>1. /\ deps' = deps /\ root' = root /\ calls' = calls + 1 /\ Calling /\ pc' = pc /\ pc = "walk"
        /\ visiting' = visiting \cup {Called} /\ visited' = visited /\ ordered' = ordered
        /\ stack' = Append(stack, new)
        /\ Called \notin visited /\ Called \notin visiting /\ Called \in Listed
    BY DEF VisitBegins, Done, Refused, Calling
  <1>2. stack \in Seq(Frames) /\ n \in Nat /\ new \in Frames /\ new.name = Called /\ new.next = 1
    BY <1>1 DEF IInv, TypeOK, Frames
  <1> HIDE DEF new
  <1>3. /\ stack' \in Seq(Frames) /\ Len(stack') = n + 1 /\ stack' # <<>>
        /\ \A i \in 1 .. n : stack'[i] = stack[i]
        /\ stack'[n + 1].name = Called /\ stack'[n + 1].next = 1
    BY <1>1, <1>2
  <1>4. \A i \in 1 .. n + 1 : i \in 1 .. n \/ i = n + 1
    BY <1>2
  <1>5. \A i \in 1 .. n : stack[i].name \in visiting /\ stack[i].name # Called
    BY <1>1 DEF IInv, Active
  <1>6. /\ Needed' = Needed /\ (Cyclic' <=> Cyclic)
        /\ \A a, b : Edge(a, b)' <=> Edge(a, b)
        /\ \A a : Closure(Range(deps[a]))' = Closure(Range(deps[a]))
    BY <1>1, ReferenceKept
  <1>7. stack # <<>> =>
          /\ n \in 1 .. n /\ n # 0 /\ stack[n].name \in Listed
          /\ stack[n].next <= Len(deps[stack[n].name])
          /\ Called = deps[stack[n].name][stack[n].next]
          /\ Called \in Names /\ Called \in Range(deps[stack[n].name]) /\ Edge(stack[n].name, Called)
          /\ <<stack[n].name, stack[n].next>> \in Places
    <2> SUFFICES ASSUME stack # <<>>
                 PROVE  /\ n \in 1 .. n /\ n # 0 /\ stack[n].name \in Listed
                        /\ stack[n].next <= Len(deps[stack[n].name])
                        /\ Called = deps[stack[n].name][stack[n].next]
                        /\ Called \in Names /\ Called \in Range(deps[stack[n].name])
                        /\ Edge(stack[n].name, Called)
                        /\ <<stack[n].name, stack[n].next>> \in Places
      OBVIOUS
    <2> QED BY <1>1, CallFacts
  <1>8. TypeOK'
    BY <1>1, <1>3 DEF IInv, TypeOK
  <1>9. Active'
    <2>1. visiting' = {stack'[i].name : i \in 1 .. Len(stack')}
      <3>1. \A x \in visiting' : \E i \in 1 .. n + 1 : x = stack'[i].name
        <4> TAKE x \in visiting'
        <4>1. CASE x = Called
          <5>1. n + 1 \in 1 .. n + 1
            BY <1>2
          <5> QED BY <1>3, <4>1, <5>1
        <4>2. CASE x \in visiting
          <5>1. PICK i \in 1 .. n : x = stack[i].name
            BY <4>2 DEF IInv, Active
          <5>2. i \in 1 .. n + 1
            BY <1>2
          <5> QED BY <1>3, <5>1, <5>2
        <4> QED BY <1>1, <4>1, <4>2
      <3>2. \A i \in 1 .. n + 1 : stack'[i].name \in visiting'
        BY <1>1, <1>3, <1>4, <1>5
      <3> QED BY <1>3, <3>1, <3>2
    <2>2. \A i, j \in 1 .. Len(stack') : stack'[i].name = stack'[j].name => i = j
      BY <1>3, <1>4, <1>5 DEF IInv, Active
    <2>3. stack'[1].name = root'
      <3>1. CASE n = 0
        <4>1. stack = <<>>
          BY <1>2, <3>1
        <4> QED BY <1>1, <1>3, <3>1, <4>1 DEF Called
      <3>2. CASE n # 0
        <4>1. 1 \in 1 .. n /\ stack # <<>>
          BY <1>2, <3>2
        <4> QED BY <1>1, <1>3, <4>1 DEF IInv, Active
      <3> QED BY <3>1, <3>2
    <2>4. \A i \in 1 .. Len(stack') : stack'[i].next <= Len(deps'[stack'[i].name]) + 1
      <3> TAKE i \in 1 .. Len(stack')
      <3>1. CASE i \in 1 .. n
        BY <1>1, <1>3, <3>1 DEF IInv, Active
      <3>2. CASE i = n + 1
        <4>1. deps[Called] \in Seq(Names)
          BY <1>1 DEF IInv, TypeOK
        <4>2. Len(deps[Called]) \in Nat
          BY <4>1
        <4> QED BY <1>1, <1>3, <3>2, <4>2
      <3> QED BY <1>3, <1>4, <3>1, <3>2
    <2>5. \A i \in 1 .. Len(stack') - 1 :
            /\ stack'[i].next <= Len(deps'[stack'[i].name])
            /\ deps'[stack'[i].name][stack'[i].next] = stack'[i + 1].name
      <3> TAKE i \in 1 .. Len(stack') - 1
      <3>1. i \in 1 .. n
        BY <1>2, <1>3
      <3>2. stack # <<>>
        BY <3>1
      <3>3. CASE i = n
        BY <1>1, <1>3, <1>7, <3>1, <3>2, <3>3
      <3>4. CASE i # n
        <4>1. i \in 1 .. n - 1 /\ i + 1 \in 1 .. n
          BY <1>2, <3>1, <3>4
        <4> QED BY <1>1, <1>3, <3>1, <4>1 DEF IInv, Active
      <3> QED BY <3>3, <3>4
    <2> QED BY <1>3, <2>1, <2>2, <2>3, <2>4, <2>5 DEF Active
  <1>10. Path'
    <2> SUFFICES ASSUME NEW i \in 1 .. Len(stack'), NEW j \in 1 .. Len(stack'), i < j
                 PROVE  stack'[j].name \in Closure(Range(deps[stack'[i].name]))
      BY <1>1, <1>6 DEF Path
    <2>1. i \in 1 .. n
      BY <1>2, <1>3
    <2>2. CASE j \in 1 .. n
      BY <1>3, <2>1, <2>2 DEF IInv, Path
    <2>3. CASE j = n + 1
      <3> DEFINE C == Closure(Range(deps[stack[i].name]))
      <3>0. stack # <<>>
        BY <2>1
      <3>1. CASE i = n
        <4>1. deps[stack[n].name] \in Seq(Names)
          BY <1>7, <3>0 DEF IInv, TypeOK
        <4>2. Range(deps[stack[n].name]) \in SUBSET Names
          BY <4>1 DEF Range
        <4>3. Called \in C
          BY <1>7, <3>0, <3>1, <4>2, ClosureContains
        <4> QED BY <1>3, <2>1, <2>3, <4>3
      <3>2. CASE i # n
        <4>1. i < n
          BY <1>2, <2>1, <3>2
        <4>2. stack[n].name \in C
          BY <1>7, <2>1, <3>0, <4>1 DEF IInv, Path
        <4>3. Called \in C
          BY <1>7, <3>0, <4>2, ClosureClosed
        <4> QED BY <1>3, <2>1, <2>3, <4>3
      <3> QED BY <3>1, <3>2
    <2> QED BY <1>3, <1>4, <2>2, <2>3
  <1>11. Passed'
    <2> SUFFICES ASSUME NEW i \in 1 .. Len(stack'), NEW k \in 1 .. stack'[i].next - 1
                 PROVE  deps'[stack'[i].name][k] \in visited'
      BY DEF Passed
    <2>1. CASE i \in 1 .. n
      BY <1>1, <1>3, <2>1 DEF IInv, Passed
    <2>2. CASE i = n + 1
      BY <1>3, <2>2
    <2> QED BY <1>3, <1>4, <2>1, <2>2
  <1>12. Sorted'
    BY <1>1, <1>6 DEF IInv, Sorted
  <1>13. Reached'
    <2>1. Called \in Needed
      BY <1>1, CalledNeeded
    <2> QED BY <1>1, <1>6, <2>1 DEF IInv, Reached
  <1>14. Ends'
    BY <1>1, <1>3 DEF Ends
  <1>15. Counted'
    <2>1. ASSUME NEW x \in Looked PROVE x \in Looked'
      <3>1. CASE x[1] \in visited /\ x[2] <= Len(deps[x[1]])
        BY <1>1, <2>1, <3>1 DEF Looked
      <3>2. CASE \E i \in 1 .. Len(stack) :
                   /\ x[1] = stack[i].name
                   /\ x[2] < stack[i].next \/ (i < Len(stack) /\ x[2] = stack[i].next)
        <4>1. PICK i \in 1 .. Len(stack) :
                   /\ x[1] = stack[i].name
                   /\ x[2] < stack[i].next \/ (i < Len(stack) /\ x[2] = stack[i].next)
          BY <3>2
        <4>2. x \in Places
          BY <2>1 DEF Looked
        <4>3. i \in 1 .. Len(stack') /\ x[1] = stack'[i].name
              /\ (x[2] < stack'[i].next \/ (i < Len(stack') /\ x[2] = stack'[i].next))
          BY <1>2, <1>3, <4>1
        <4> QED BY <4>2, <4>3 DEF Looked
      <3> QED BY <2>1, <3>1, <3>2 DEF Looked
    <2>2. CASE stack = <<>>
      <3>1. calls = 0
        BY <1>1, <2>2 DEF IInv, Ends
      <3>2. Looked' \in SUBSET Places
        BY DEF Looked
      <3>3. Cardinality(Looked') \in Nat
        BY <3>2, PlacesBound
      <3>4. MaxDeps * Cardinality(Listed) \in Nat
        BY NamesAssumption, FS_CardinalityType
      <3>5. calls' <= 1 + Cardinality(Looked') /\ calls' <= 1 + MaxDeps * Cardinality(Listed)
        BY <1>1, <3>1, <3>3, <3>4
      <3> QED BY <3>5 DEF Counted
    <2>3. CASE stack # <<>>
      <3> DEFINE x == <<stack[n].name, stack[n].next>>
      <3>1. x \in Places /\ x[1] = stack[n].name /\ x[2] = stack[n].next /\ n \in 1 .. n
        BY <1>7, <2>3
      <3> HIDE DEF x
      <3>2. n \in 1 .. Len(stack') /\ n < Len(stack')
        BY <1>2, <1>3, <3>1
      <3>3. x[1] = stack'[n].name /\ x[2] = stack'[n].next
        BY <1>3, <3>1
      <3>4. x \in Looked'
        BY <3>1, <3>2, <3>3 DEF Looked
      <3>5. <<stack[Len(stack)].name, stack[Len(stack)].next>> \in Looked'
        BY <3>4 DEF x
      <3> QED BY <1>1, <2>1, <2>3, <3>5, CountStep
    <2> QED BY <2>2, <2>3
  <1> QED BY <1>8, <1>9, <1>10, <1>11, <1>12, <1>13, <1>14, <1>15 DEF IInv

\* The innermost call ends: its track is the dependency its caller is at.
LEMMA EndStep ==
  ASSUME IInv, VisitEnds
  PROVE  IInv'
  <1> DEFINE n == Len(stack)
             f == stack[n]
             a == f.name
             m == n - 1
  <1>1. /\ deps' = deps /\ root' = root /\ calls' = calls /\ pc = "walk" /\ stack # <<>>
        /\ Last(stack) = f /\ ~(f.next <= Len(deps[a]))
        /\ visiting' = visiting \ {a} /\ visited' = visited \cup {a} /\ ordered' = Append(ordered, a)
        /\ ReturnTo(Front(stack))
    BY DEF VisitEnds, Calling, Last
  <1>2. /\ stack \in Seq(Frames) /\ n \in Nat \ {0} /\ n \in 1 .. n /\ f \in Frames /\ m \in Nat
        /\ \A i \in 1 .. n : stack[i] \in Frames
    BY <1>1 DEF IInv, TypeOK
  <1>3. /\ a \in Listed /\ f.next \in Nat \ {0} /\ deps[a] \in Seq(Names)
        /\ Len(deps[a]) \in Nat /\ Len(deps[a]) <= MaxDeps
    <2>1. a \in Listed /\ f.next \in Nat \ {0}
      BY <1>2 DEF Frames
    <2> HIDE DEF f, a
    <2>2. deps[a] \in Seq(Names) /\ Len(deps[a]) <= MaxDeps
      BY <2>1 DEF IInv, TypeOK
    <2> QED BY <2>1, <2>2
  <1>4. f.next = Len(deps[a]) + 1
    <2>1. f.next <= Len(deps[a]) + 1
      BY <1>2 DEF IInv, Active
    <2> HIDE DEF f, a
    <2> QED BY <1>1, <1>3, <2>1
  <1>5. a \in visiting /\ a \notin visited
    BY <1>2 DEF IInv, Active, Sorted
  <1>6. /\ Front(stack) \in Seq(Frames) /\ Len(Front(stack)) = m
        /\ \A i \in 1 .. m : Front(stack)[i] = stack[i]
    <2>1. Front(stack) = SubSeq(stack, 1, m)
      BY DEF Front
    <2>2. m <= Len(stack) /\ n = Len(stack)
      BY <1>2
    <2> HIDE DEF n, m, f, a
    <2>3. /\ SubSeq(stack, 1, m) \in Seq(Frames) /\ Len(SubSeq(stack, 1, m)) = m
          /\ \A i \in 1 .. m : SubSeq(stack, 1, m)[i] = stack[i]
      BY <1>2, <2>2
    <2> QED BY <2>1, <2>3
  <1>7. \A i \in 1 .. m : i \in 1 .. n /\ i # n /\ i \in Nat
    BY <1>2
  <1>8. /\ stack' \in Seq(Frames) /\ Len(stack') = m
        /\ \A i \in 1 .. m : stack'[i].name = stack[i].name
        /\ \A i \in 1 .. m : i # m => stack'[i].next = stack[i].next
        /\ \A i \in 1 .. m : i = m => stack'[i].next = stack[i].next + 1
        /\ pc' = IF m = 0 THEN "ordered" ELSE "walk"
    <2> DEFINE F == Front(stack)
    <2> HIDE DEF F, m, n
    <2>1. CASE m = 0
      <3>1. F = <<>>
        BY <1>6, <2>1 DEF F
      <3>2. stack' = <<>> /\ pc' = "ordered"
        BY <1>1, <3>1 DEF ReturnTo, F
      <3> QED BY <2>1, <3>2
    <2>2. CASE m # 0
      <3>1. F # <<>> /\ m \in 1 .. m
        BY <1>2, <1>6, <2>2 DEF F
      <3>2. stack' = [F EXCEPT ![m].next = @ + 1] /\ pc' = "walk"
        BY <1>1, <1>6, <3>1 DEF ReturnTo, F
      <3>3. F \in Seq(Frames) /\ Len(F) = m /\ \A i \in 1 .. m : F[i] \in Frames /\ F[i] = stack[i]
        BY <1>6 DEF F
      <3>4. [F[m] EXCEPT !.next = @ + 1] \in Frames
        BY <3>1, <3>3 DEF Frames
      <3>5. /\ stack' \in Seq(Frames) /\ Len(stack') = m
            /\ \A i \in 1 .. m : i # m => stack'[i] = F[i]
            /\ stack'[m] = [F[m] EXCEPT !.next = @ + 1]
        BY <3>1, <3>2, <3>3, <3>4
      <3>6. stack'[m].name = F[m].name /\ stack'[m].next = F[m].next + 1
        BY <3>1, <3>3, <3>5 DEF Frames
      <3> QED BY <2>2, <3>1, <3>2, <3>3, <3>5, <3>6
    <2> QED BY <2>1, <2>2
  <1>9. /\ Needed' = Needed /\ (Cyclic' <=> Cyclic)
        /\ \A x, b : Edge(x, b)' <=> Edge(x, b)
        /\ \A x : Closure(Range(deps[x]))' = Closure(Range(deps[x]))
    BY <1>1, ReferenceKept
  <1>10. \A i \in 1 .. m : i = m =>
           stack[i].next <= Len(deps[stack[i].name]) /\ deps[stack[i].name][stack[i].next] = a
    <2> TAKE i \in 1 .. m
    <2>1. i = m => i + 1 = n
      BY <1>2
    <2> QED BY <1>2, <2>1 DEF IInv, Active
  <1>11. ordered \in Seq(Listed) /\ Len(ordered) \in Nat
    BY DEF IInv, TypeOK
  <1>12. /\ ordered' \in Seq(Listed) /\ Len(ordered') = Len(ordered) + 1
         /\ \A i \in 1 .. Len(ordered) : ordered'[i] = ordered[i]
         /\ ordered'[Len(ordered) + 1] = a
    BY <1>1, <1>3, <1>11
  <1> HIDE DEF a, f, m, n
  <1>13. TypeOK'
    <2>1. pc' \in {"walk", "ordered", "failed"}
      BY <1>8
    <2> QED BY <1>1, <1>3, <1>8, <1>12, <2>1 DEF IInv, TypeOK
  <1>14. Active'
    <2>1. visiting' = {stack'[i].name : i \in 1 .. Len(stack')}
      <3>1. \A x \in visiting' : \E i \in 1 .. m : x = stack'[i].name
        <4> TAKE x \in visiting'
        <4>1. PICK i \in 1 .. n : x = stack[i].name
          BY <1>1 DEF IInv, Active, n
        <4>2. i # n
          BY <1>1, <4>1 DEF a, f
        <4>3. i \in 1 .. m
          BY <1>2, <4>1, <4>2 DEF m
        <4> QED BY <1>8, <4>1, <4>3
      <3>2. \A i \in 1 .. m : stack'[i].name \in visiting'
        <4> TAKE i \in 1 .. m
        <4>1. stack[i].name \in visiting
          BY <1>7 DEF IInv, Active, n
        <4>2. stack[i].name # a
          BY <1>2, <1>7 DEF IInv, Active, n, a, f
        <4> QED BY <1>1, <1>8, <4>1, <4>2
      <3> QED BY <1>8, <3>1, <3>2
    <2>2. \A i, j \in 1 .. Len(stack') : stack'[i].name = stack'[j].name => i = j
      BY <1>7, <1>8 DEF IInv, Active, n
    <2>3. stack' # <<>> => stack'[1].name = root'
      <3> SUFFICES ASSUME stack' # <<>> PROVE stack'[1].name = root'
        OBVIOUS
      <3>1. 1 \in 1 .. m
        BY <1>2, <1>8
      <3> QED BY <1>1, <1>8, <3>1 DEF IInv, Active
    <2>4. \A i \in 1 .. Len(stack') : stack'[i].next <= Len(deps'[stack'[i].name]) + 1
      <3> TAKE i \in 1 .. Len(stack')
      <3>1. i \in 1 .. m /\ i \in 1 .. Len(stack)
        BY <1>7, <1>8 DEF n
      <3>2. CASE i # m
        BY <1>1, <1>8, <3>1, <3>2 DEF IInv, Active
      <3>3. CASE i = m
        <4>1. stack[i] \in Frames
          BY <1>2, <1>7, <3>1
        <4>2. stack[i].next \in Nat /\ stack[i].name \in Listed
          BY <4>1 DEF Frames
        <4>3. deps[stack[i].name] \in Seq(Names)
          BY <4>2 DEF IInv, TypeOK
        <4>4. Len(deps[stack[i].name]) \in Nat
          BY <4>3
        <4>5. stack[i].next <= Len(deps[stack[i].name])
          BY <1>10, <3>1, <3>3
        <4>6. stack'[i].next = stack[i].next + 1 /\ stack'[i].name = stack[i].name
          BY <1>8, <3>1, <3>3
        <4> QED BY <1>1, <4>2, <4>4, <4>5, <4>6
      <3> QED BY <3>2, <3>3
    <2>5. \A i \in 1 .. Len(stack') - 1 :
            /\ stack'[i].next <= Len(deps'[stack'[i].name])
            /\ deps'[stack'[i].name][stack'[i].next] = stack'[i + 1].name
      <3> TAKE i \in 1 .. Len(stack') - 1
      <3>1. i \in 1 .. m /\ i # m /\ i + 1 \in 1 .. m /\ i \in 1 .. Len(stack) - 1
        BY <1>2, <1>8 DEF m, n
      <3> QED BY <1>1, <1>8, <3>1 DEF IInv, Active
    <2> QED BY <2>1, <2>2, <2>3, <2>4, <2>5 DEF Active
  <1>15. Path'
    <2> SUFFICES ASSUME NEW i \in 1 .. Len(stack'), NEW j \in 1 .. Len(stack'), i < j
                 PROVE  stack'[j].name \in Closure(Range(deps[stack'[i].name]))
      BY <1>1, <1>9 DEF Path
    <2>1. i \in 1 .. Len(stack) /\ j \in 1 .. Len(stack) /\ i \in 1 .. m /\ j \in 1 .. m
      BY <1>7, <1>8 DEF n
    <2> QED BY <1>8, <2>1 DEF IInv, Path
  <1>16. Passed'
    <2> SUFFICES ASSUME NEW i \in 1 .. Len(stack'), NEW k \in 1 .. stack'[i].next - 1
                 PROVE  deps'[stack'[i].name][k] \in visited'
      BY DEF Passed
    <2>1. i \in 1 .. Len(stack) /\ i \in 1 .. m
      BY <1>7, <1>8 DEF n
    <2>2. CASE k \in 1 .. stack[i].next - 1
      BY <1>1, <1>8, <2>1, <2>2 DEF IInv, Passed
    <2>3. CASE k \notin 1 .. stack[i].next - 1
      <3>1. stack[i] \in Frames
        BY <1>2, <1>7, <2>1
      <3>2. stack[i].next \in Nat \ {0}
        BY <3>1 DEF Frames
      <3>3. i = m /\ k = stack[i].next
        BY <1>8, <2>1, <2>3, <3>2
      <3> QED BY <1>1, <1>8, <1>10, <2>1, <3>3
    <2> QED BY <2>2, <2>3
  <1>17. Sorted'
    <2>0. \A i \in 1 .. Len(ordered') : i \in 1 .. Len(ordered) \/ i = Len(ordered) + 1
      BY <1>11, <1>12
    <2>1. visited' = {ordered'[i] : i \in 1 .. Len(ordered')}
      <3>1. \A x \in visited' : \E i \in 1 .. Len(ordered') : x = ordered'[i]
        <4> TAKE x \in visited'
        <4>1. CASE x = a
          <5>1. Len(ordered) + 1 \in 1 .. Len(ordered')
            BY <1>11, <1>12
          <5> QED BY <1>12, <4>1, <5>1
        <4>2. CASE x \in visited
          <5>1. PICK i \in 1 .. Len(ordered) : x = ordered[i]
            BY <4>2 DEF IInv, Sorted
          <5>2. i \in 1 .. Len(ordered')
            BY <1>11, <1>12, <5>1
          <5> QED BY <1>12, <5>1, <5>2
        <4> QED BY <1>1, <4>1, <4>2
      <3>2. \A i \in 1 .. Len(ordered') : ordered'[i] \in visited'
        <4> TAKE i \in 1 .. Len(ordered')
        <4>1. CASE i \in 1 .. Len(ordered)
          BY <1>1, <1>12, <4>1 DEF IInv, Sorted
        <4>2. CASE i = Len(ordered) + 1
          BY <1>1, <1>12, <4>2
        <4> QED BY <2>0, <4>1, <4>2
      <3> QED BY <3>1, <3>2
    <2>2. \A i \in 1 .. Len(ordered) : ordered[i] # a
      BY <1>5 DEF IInv, Sorted
    <2>3. \A i, j \in 1 .. Len(ordered') : ordered'[i] = ordered'[j] => i = j
      BY <1>12, <2>0, <2>2 DEF IInv, Sorted
    <2>4. ASSUME NEW i \in 1 .. Len(ordered'), NEW b \in Names, Edge(ordered'[i], b)
          PROVE  \E j \in 1 .. i - 1 : ordered'[j] = b
      <3>1. CASE i \in 1 .. Len(ordered)
        <4>1. PICK j \in 1 .. i - 1 : ordered[j] = b
          BY <1>12, <2>4, <3>1 DEF IInv, Sorted
        <4>2. j \in 1 .. Len(ordered)
          BY <1>11, <3>1, <4>1
        <4> QED BY <1>12, <4>1, <4>2
      <3>2. CASE i = Len(ordered) + 1
        <4>1. b \in Range(deps[a])
          BY <1>12, <2>4, <3>2 DEF Edge
        <4>2. PICK k \in 1 .. Len(deps[a]) : deps[a][k] = b
          BY <1>3, <4>1 DEF Range
        <4>3. k \in 1 .. f.next - 1
          BY <1>3, <1>4, <4>2
        <4>4. b \in visited
          BY <1>2, <4>2, <4>3 DEF IInv, Passed, a, f, n
        <4>5. PICK j \in 1 .. Len(ordered) : ordered[j] = b
          BY <4>4 DEF IInv, Sorted
        <4>6. j \in 1 .. i - 1
          BY <1>11, <3>2, <4>5
        <4> QED BY <1>12, <4>5, <4>6
      <3> QED BY <2>0, <3>1, <3>2
    <2>5. visited' \cap visiting' = {}
      BY <1>1 DEF IInv, Sorted
    <2> QED BY <1>9, <2>1, <2>3, <2>4, <2>5 DEF Sorted
  <1>18. Reached'
    BY <1>1, <1>5, <1>9 DEF IInv, Reached
  <1>19. Ends'
    <2>1. CASE m = 0
      <3>1. n = 1 /\ pc' = "ordered" /\ stack' = <<>>
        BY <1>2, <1>8, <2>1 DEF m
      <3>2. a = root
        BY <1>1, <3>1 DEF IInv, Active, a, f
      <3>3. ordered' # <<>> /\ ordered'[Len(ordered')] = root'
        BY <1>1, <1>11, <1>12, <3>2
      <3> QED BY <3>1, <3>3 DEF Ends
    <2>2. CASE m # 0
      <3>1. pc' = "walk" /\ stack' # <<>>
        BY <1>2, <1>8, <2>2
      <3> QED BY <3>1 DEF Ends
    <2> QED BY <2>1, <2>2
  <1>20. Counted'
    <2>1. ASSUME NEW x \in Looked PROVE x \in Looked'
      <3>0. x \in Places /\ x[2] \in Nat
        BY <2>1 DEF Looked, Places
      <3>1. CASE x[1] \in visited /\ x[2] <= Len(deps[x[1]])
        BY <1>1, <3>0, <3>1 DEF Looked
      <3>2. CASE \E i \in 1 .. Len(stack) :
                   /\ x[1] = stack[i].name
                   /\ x[2] < stack[i].next \/ (i < Len(stack) /\ x[2] = stack[i].next)
        <4>1. PICK i \in 1 .. n :
                   /\ x[1] = stack[i].name
                   /\ x[2] < stack[i].next \/ (i < n /\ x[2] = stack[i].next)
          BY <3>2 DEF n
        <4>2. CASE i = n
          <5>1. x[1] = a /\ x[2] < f.next
            BY <1>2, <4>1, <4>2 DEF a, f
          <5>2. x[2] <= Len(deps[a])
            BY <1>3, <1>4, <3>0, <5>1
          <5> QED BY <1>1, <3>0, <5>1, <5>2 DEF Looked
        <4>3. CASE i # n
          <5>1. i \in 1 .. m
            BY <1>2, <4>1, <4>3 DEF m
          <5>2. stack[i].next \in Nat
            BY <1>2, <4>1 DEF Frames
          <5>3. i \in 1 .. Len(stack') /\ x[1] = stack'[i].name
            BY <1>8, <4>1, <5>1
          <5>4. x[2] < stack'[i].next \/ (i < Len(stack') /\ x[2] = stack'[i].next)
            <6>1. CASE i = m
              <7>1. stack'[i].next = stack[i].next + 1
                BY <1>8, <5>1, <6>1
              <7> QED BY <3>0, <4>1, <5>2, <7>1
            <6>2. CASE i # m
              <7>1. stack'[i].next = stack[i].next
                BY <1>8, <5>1, <6>2
              <7>2. i < Len(stack')
                BY <1>2, <1>8, <5>1, <6>2
              <7> QED BY <4>1, <7>1, <7>2
            <6> QED BY <6>1, <6>2
          <5> QED BY <3>0, <5>3, <5>4 DEF Looked
        <4> QED BY <4>2, <4>3
      <3> QED BY <2>1, <3>1, <3>2 DEF Looked
    <2>2. Looked \in SUBSET Places /\ Looked' \in SUBSET Places
      BY DEF Looked
    <2>3. IsFiniteSet(Looked') /\ Cardinality(Looked) \in Nat /\ Cardinality(Looked') \in Nat
      BY <2>2, PlacesBound
    <2>4. Cardinality(Looked) <= Cardinality(Looked')
      <3>1. Looked \in SUBSET Looked'
        BY <2>1
      <3> QED BY <2>3, <3>1, FS_Subset
    <2>5. calls <= 1 + Cardinality(Looked) /\ calls \in Nat
      BY <1>1 DEF IInv, Counted, TypeOK
    <2>6. calls' <= 1 + Cardinality(Looked')
      BY <1>1, <2>3, <2>4, <2>5
    <2> QED BY <1>1, <2>6 DEF IInv, Counted
  <1> QED BY <1>13, <1>14, <1>15, <1>16, <1>17, <1>18, <1>19, <1>20 DEF IInv

LEMMA StutterStep ==
  ASSUME IInv, UNCHANGED vars
  PROVE  IInv'
  <1>0. /\ deps' = deps /\ root' = root /\ pc' = pc /\ stack' = stack /\ calls' = calls
        /\ visiting' = visiting /\ visited' = visited /\ ordered' = ordered
    BY DEF vars, marks
  <1>1. /\ Needed' = Needed /\ (Cyclic' <=> Cyclic)
        /\ \A a, b : Edge(a, b)' <=> Edge(a, b)
        /\ \A a : Closure(Range(deps[a]))' = Closure(Range(deps[a]))
    BY <1>0, ReferenceKept
  <1>2. TypeOK' /\ Active' /\ Passed'
    BY <1>0 DEF IInv, TypeOK, Active, Passed
  <1>3. Path' /\ Reached' /\ Ends'
    BY <1>0, <1>1 DEF IInv, Path, Reached, Ends
  <1>4. Sorted'
    BY <1>0, <1>1 DEF IInv, Sorted
  <1>5. Counted'
    <2>1. Looked' = Looked
      BY <1>0 DEF Looked
    <2> QED BY <1>0, <2>1 DEF IInv, Counted
  <1> QED BY <1>2, <1>3, <1>4, <1>5 DEF IInv

\* The marks of dependencyOrder, the order it has built and its active calls agree
\* at every call and return.
THEOREM Invariance == Spec => []IInv
  <1>1. IInv /\ [Next]_vars => IInv'
    <2> SUFFICES ASSUME IInv, [Next]_vars PROVE IInv'
      OBVIOUS
    <2>1. CASE VisitDone
      BY <2>1, DoneStep
    <2>2. CASE VisitFails
      BY <2>2, FailStep
    <2>3. CASE VisitBegins
      BY <2>3, BeginStep
    <2>4. CASE VisitEnds
      BY <2>4, EndStep
    <2>5. CASE UNCHANGED vars
      BY <2>5, StutterStep
    <2> QED BY <2>1, <2>2, <2>3, <2>4, <2>5 DEF Next, Returned
  <1> QED BY InitInvariant, <1>1, PTL DEF Spec

\* dependencyOrder, for every catalog: it fails exactly on tracks that are missing or
\* depend on themselves, else returns what is needed in order, and looks at each
\* dependency at most once.
THEOREM WalkOrders == Spec => []OrdersDependencies
  BY Invariance, InvariantOrders, PTL

=============================================================================
