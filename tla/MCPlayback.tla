------------------------------ MODULE MCPlayback ------------------------------
(* Instances of Playback for TLC: two groups of an independent unit and a    *)
(* delta, timestamps one clock unit apart.                                   *)
EXTENDS Playback

\* Object o of group g is due at 2 * (g - 1) + o.
MCKeys == {<<g, o>> : g \in 1 .. 2, o \in 0 .. 1}

MCContent(k) == [ts |-> 2 * (k[1] - 1) + k[2], indep |-> k[2] = 0, size |-> 1]

\* The delta of the first group may arrive with two different sizes.
MCContents ==
  [k \in MCKeys |->
     {MCContent(k)} \cup (IF k = <<1, 1>> THEN {[MCContent(k) EXCEPT !.size = 2]} ELSE {})]

=============================================================================
