---------------------------- MODULE MCJobPolling ----------------------------
(* Instances of JobPolling for TLC. *)
EXTENDS JobPolling, TLC

CONSTANTS j1, t1, t2, w1, w2

\* Tuples are interchangeable, and so are slots.
Symmetry == Permutations(Tuples) \cup Permutations(Workers)
=============================================================================
