----------------------------- MODULE MCFareWork -----------------------------
(* Instance of FareWork for TLC: more callers than units. *)
EXTENDS FareWork

CONSTANTS c1, c2, c3, k1
=============================================================================
