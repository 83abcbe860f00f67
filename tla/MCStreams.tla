------------------------------ MODULE MCStreams ------------------------------
(* Instances of PlaybackStreams for TLC: groups of GroupLen units, one clock *)
(* unit apart, each led by an independent unit.                              *)
EXTENDS PlaybackStreams

CONSTANTS NumGroups, GroupLen

MCKeys == {<<g, o>> : g \in 1 .. NumGroups, o \in 0 .. GroupLen - 1}

MCContents ==
  [k \in MCKeys |->
     {[ts |-> GroupLen * (k[1] - 1) + k[2], indep |-> k[2] = 0, size |-> 1]}]

=============================================================================
