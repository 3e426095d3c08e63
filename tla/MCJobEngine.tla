---------------------------- MODULE MCJobEngine ----------------------------
(* Instances of JobEngine for TLC: the constants are given in the cfg files. *)
EXTENDS JobEngine, TLC

CONSTANTS j1, t1, t2, w1, w2

\* Tuples are interchangeable, and so are slots.
Symmetry == Permutations(Tuples) \cup Permutations(Workers)
=============================================================================
