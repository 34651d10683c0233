---------------------------- MODULE MCPlayback ----------------------------
\* Playback for TLC: TVs are interchangeable, and so are the callers of Stop.
EXTENDS Playback, TLC

Symmetry == {p @@ q : p \in Permutations(Receivers), q \in Permutations(Stoppers)}
=============================================================================
