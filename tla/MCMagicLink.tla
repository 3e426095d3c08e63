---------------------------- MODULE MCMagicLink ----------------------------
(* Instances of MagicLink for TLC. *)
EXTENDS MagicLink, TLC

CONSTANTS a, b, r1, r2, r3, r4, c1, c2

\* Requests are interchangeable, and so are callbacks.
Symmetry == Permutations(Requests) \cup Permutations(Callbacks)
=============================================================================
