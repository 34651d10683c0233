------------------------------ MODULE MCEngine ------------------------------
(* Values of the constants of Engine for its runs.                         *)
EXTENDS Engine, TLC

CONSTANTS a, b, rec, video, sound, s1, s2

Tracks == (video :> {"key", "delta"} @@ sound :> {"audio"})
Picture == (video :> {"key", "delta"})
Sizes == [key |-> 2, delta |-> 1, audio |-> 1]
Symmetry == Permutations({a, b}) \cup Permutations({s1, s2})
=============================================================================
