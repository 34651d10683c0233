---------------------------- MODULE MCLaunches ----------------------------
\* Launches for TLC: callers are interchangeable.
EXTENDS Launches, TLC

Symmetry == Permutations(Callers)
=============================================================================
