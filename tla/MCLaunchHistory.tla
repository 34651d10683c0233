-------------------------- MODULE MCLaunchHistory --------------------------
\* LaunchHistory for TLC: explicit launches are interchangeable.
EXTENDS LaunchHistory, TLC

Symmetry == Permutations(Slots)
=============================================================================
