------------------------- MODULE MCTupleGeneration -------------------------
(* Instance of TupleGeneration for TLC: six locations around the globe, four  *)
(* airport codes, every graph over five of their routes.                      *)
EXTENDS TupleGeneration

CONSTANTS A, B, C, H

At(code, location) == [iata |-> code, at |-> location]

\* A plain file; a code listed twice, near and far; locations off the map.
MCAirportLists ==
    {<<At(A, 0), At(B, 3), At(C, 5), At(H, 2)>>,
     <<At(A, 3), At(A, 4), At(B, 0), At(C, 1), At(B, 0)>>,
     <<At(A, -1), At(B, 6), At(C, 0), At(H, 5), At(A, 3)>>}

MCGraphs == SUBSET {<<A, B>>, <<B, C>>, <<A, H>>, <<H, C>>, <<C, A>>}

MCHubLists == {{}, {H}, {B, H}}

\* Off the map, in the middle, and on both sides of the antimeridian; the
\* smallest and largest radius and one beyond; one day, three, none, no date.
MCRequests ==
    [origin : {-1, 0, 3, 5}, originR : {0, 1, 3}, dest : {0, 5}, destR : {1, 2, 4},
     from : {1, BadDate}, to : {0, 1, 3}]
=============================================================================
