---------------------------- MODULE DependencyOrder ----------------------------
(***************************************************************************)
(* dependencyOrder (internal/sub/sub.go): the tracks a subscriber needs    *)
(* for a video track, in the order in which handle subscribes to them and  *)
(* in which the playback simulation numbers its layers.  A depth-first     *)
(* walk with the two marks of the code; the walk fails on a cycle and on a *)
(* name the catalog does not list.  The recursion of visit is a stack of   *)
(* calls, and an action is what a call does before it makes or returns to  *)
(* another one.                                                            *)
(***************************************************************************)
EXTENDS Naturals, SequencesExt

CONSTANTS
  Listed,        \* the tracks of the catalog
  Missing,       \* names that only occur as dependencies
  MaxDeps        \* bound: the longest list of dependencies of a track

ASSUME NamesAssumption ==
  Listed \cap Missing = {} /\ IsFiniteSet(Listed) /\ MaxDeps \in Nat

VARIABLES
  deps,          \* track -> its dependencies, as the catalog orders them
  root,          \* the selected track
  pc,            \* "walk", or how dependencyOrder returned: "ordered" or "failed"
  stack,         \* the active calls of visit: the track and the dependency it is at
  visiting, visited, ordered,
  calls          \* history: how often visit was called

marks == <<visiting, visited, ordered>>
vars == <<deps, root, pc, stack, marks, calls>>

Names == Listed \cup Missing

Init ==
  /\ deps \in [Listed -> UNION {[1..n -> Names] : n \in 0..MaxDeps}]
  /\ root \in Names
  /\ pc = "walk" /\ stack = <<>>
  /\ visiting = {} /\ visited = {} /\ ordered = <<>>
  /\ calls = 0

\* The track that visit is called for: the selected one, or the next dependency of
\* the innermost call.
Calling == pc = "walk" /\ (stack # <<>> => Last(stack).next <= Len(deps[Last(stack).name]))
Called == IF stack = <<>> THEN root ELSE deps[Last(stack).name][Last(stack).next]

\* The caller goes on with its next dependency; without a caller the walk is over.
ReturnTo(callers) ==
  /\ stack' = IF callers = <<>> THEN callers ELSE [callers EXCEPT ![Len(callers)].next = @ + 1]
  /\ pc' = IF callers = <<>> THEN "ordered" ELSE pc

\* The early returns of visit, in this order: nothing to do for a track that is
\* done, an error for one whose dependencies are being walked (a cycle) and for
\* one that is not in the catalog.
DoneOrBegun(name) == name \in visited \cup visiting
Done(name) == name \in visited
Refused(name) == name \in visiting \/ name \notin Listed

VisitDone ==
  /\ Calling /\ Done(Called)
  /\ calls' = calls + 1
  /\ ReturnTo(stack)
  /\ UNCHANGED <<deps, root, marks>>

\* Every caller returns the error at once.
VisitFails ==
  /\ Calling /\ ~Done(Called) /\ Refused(Called)
  /\ calls' = calls + 1
  /\ pc' = "failed"
  /\ UNCHANGED <<deps, root, stack, marks>>

VisitBegins ==
  /\ Calling /\ ~Done(Called) /\ ~Refused(Called)
  /\ calls' = calls + 1
  /\ visiting' = visiting \cup {Called}
  /\ stack' = Append(stack, [name |-> Called, next |-> 1])
  /\ UNCHANGED <<deps, root, pc, visited, ordered>>

VisitEnds ==
  /\ pc = "walk" /\ ~Calling
  /\ LET name == Last(stack).name
     IN  /\ visiting' = visiting \ {name}
         /\ visited' = visited \cup {name}
         /\ ordered' = Append(ordered, name)
  /\ ReturnTo(Front(stack))
  /\ UNCHANGED <<deps, root, calls>>

Returned == pc # "walk" /\ UNCHANGED vars

Next == VisitDone \/ VisitFails \/ VisitBegins \/ VisitEnds \/ Returned

Spec == Init /\ [][Next]_vars

-------------------------------------------------------------------------------
\* The reference: what follows from a set of names along dependencies is the
\* smallest set that contains it and the dependencies of its members.
Edge(a, b) == a \in Listed /\ b \in Range(deps[a])
Closed(T) == \A a \in T, b \in Names : Edge(a, b) => b \in T
Closure(S) == {x \in Names : \A T \in SUBSET Names : S \subseteq T /\ Closed(T) => x \in T}

Needed == Closure({root})
Cyclic == \E a \in Needed \cap Listed : a \in Closure(Range(deps[a]))

\* dependencyOrder fails exactly when a track it would need is not in the
\* catalog or depends on itself.  Else it returns every track needed, once, each
\* behind its dependencies and the selected track last.  It looks at no dependency
\* of a track twice, so it ends after as many calls, on cycles and where chains
\* share tracks too.
OrdersDependencies ==
  /\ calls <= 1 + MaxDeps * Cardinality(Listed)
  /\ pc = "failed" => Cyclic \/ Needed \cap Missing # {}
  /\ pc = "ordered" =>
       /\ ~Cyclic /\ Needed \cap Missing = {}
       /\ Range(ordered) = Needed /\ IsInjective(ordered) /\ Last(ordered) = root
       /\ \A i, j \in DOMAIN ordered : Edge(ordered[i], ordered[j]) => j < i
================================================================================
