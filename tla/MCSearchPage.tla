---------------------------- MODULE MCSearchPage ----------------------------
(* Instances of SearchPage for TLC. *)
EXTENDS SearchPage

CONSTANTS p, q
=============================================================================
