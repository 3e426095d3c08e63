-------------------------- MODULE TupleGeneration --------------------------
(***************************************************************************)
(* Service.GenerateTuples and the limit Submit puts on it: from two        *)
(* circles, the airport list, the route graph and the hubs to the (origin, *)
(* destination, date) rows of a job, one turn of a loop at a time.         *)
(*                                                                         *)
(* A location is a number on a great circle of Circumference units, which  *)
(* closes on itself as longitude does at 180 degrees; distances along it   *)
(* are what HaversineDistanceKM gives.  Dates are numbers of days.  Of an  *)
(* airport that has been kept only the code is read again.                 *)
(***************************************************************************)
EXTENDS Integers, Sequences, SequencesExt, FiniteSets

CONSTANTS
    Circumference,  \* locations 0 .. Circumference - 1 are valid, others not
    MaxRadius,      \* the largest radius validateRequest accepts
    MaxPairs,       \* Service.maxPairs
    Codes,          \* IATA codes
    AirportLists,   \* airport files: sequences of [iata, at]
    Graphs,         \* route files: sets of <<from, to>>
    HubLists,       \* Service.hubs, as a set
    Requests        \* request bodies

ASSUME TupleConstantsOK ==
    /\ Circumference \in Nat \ {0} /\ MaxRadius \in Nat /\ MaxPairs \in Nat
    /\ AirportLists \subseteq Seq([iata : Codes, at : Int])
    /\ Graphs \subseteq SUBSET (Codes \X Codes)
    /\ Requests \subseteq [origin : Int, originR : Int, dest : Int, destR : Int,
                           from : Int, to : Int]

VARIABLES
    input,         \* the request and the reference data
    at,            \* the loop Submit is in, or its outcome
    i, k,          \* that loop's index, and the inner one of GenerateAllPairs
    origins,       \* the codes kept in the first circle
    destinations,  \* and in the second
    pairs,         \* their pairs
    routed,        \* the pairs with a route
    rows           \* the tuples

vars == <<input, at, i, k, origins, destinations, pairs, routed, rows>>

-----------------------------------------------------------------------------
(* geo *)

ValidPoint(x) == x \in 0 .. Circumference - 1

Abs(n) == IF n < 0 THEN -n ELSE n

\* The shorter way round.
Distance(x, y) ==
    LET d == Abs(x - y) IN IF d <= Circumference - d THEN d ELSE Circumference - d

Inside(center, radius, a) ==
    radius > 0 /\ ValidPoint(a.at) /\ Distance(center, a.at) <= radius

\* Mutant: airports listed twice are kept twice.
Keep_NoSeen(kept, center, radius, a) ==
    IF Inside(center, radius, a) THEN Append(kept, a.iata) ELSE kept

\* The codes kept are those the map seen holds.
Keep(kept, center, radius, a) ==
    IF Inside(center, radius, a) /\ a.iata \notin ToSet(kept)
    THEN Append(kept, a.iata) ELSE kept

-----------------------------------------------------------------------------
(* routes *)

\* A route in either direction.
Linked(graph, a, b) == <<a, b>> \in graph \/ <<b, a>> \in graph

\* Mutant: the first leg in the direction of travel only.
ReachableViaHub_Directed(from, to, graph, hubs) ==
    \E h \in hubs \ {from, to} : <<from, h>> \in graph /\ Linked(graph, h, to)

ReachableViaHub(from, to, graph, hubs) ==
    \E h \in hubs \ {from, to} : Linked(graph, from, h) /\ Linked(graph, h, to)

Routed(pair, graph, hubs) ==
    \/ Linked(graph, pair[1], pair[2])
    \/ ReachableViaHub(pair[1], pair[2], graph, hubs)

-----------------------------------------------------------------------------
(* jobengine *)

\* A date that is not a date is BadDate.
BadDate == -1

ValidRequest(req) ==
    /\ ValidPoint(req.origin) /\ ValidPoint(req.dest)
    /\ req.originR \in 1 .. MaxRadius /\ req.destR \in 1 .. MaxRadius
    /\ req.from # BadDate /\ req.to # BadDate

\* from .. to, both included.
ExpandDateRange(from, to) == [d \in 1 .. to - from + 1 |-> from + d - 1]

\* Mutant: one row too many is let through.
TooMany_OffByOne(list) == Len(list) > MaxPairs + 1

TooMany(list) == Len(list) > MaxPairs

-----------------------------------------------------------------------------
(* The steps *)

Init ==
    /\ input \in [req : Requests, airports : AirportLists, graph : Graphs, hubs : HubLists]
    /\ at = "validate" /\ i = 1 /\ k = 1
    /\ origins = <<>> /\ destinations = <<>>
    /\ pairs = <<>> /\ routed = <<>> /\ rows = <<>>

ValidateRequest ==
    /\ at = "validate"
    /\ at' = IF ValidRequest(input.req) THEN "origins" ELSE "invalid_input"
    /\ UNCHANGED <<input, i, k, origins, destinations, pairs, routed, rows>>

\* ResolveAirports, once for each circle: the airports within it in file order,
\* the first row of each code that lies in it.
ResolveOrigins ==
    /\ at = "origins" /\ i <= Len(input.airports)
    /\ origins' = Keep(origins, input.req.origin, input.req.originR, input.airports[i])
    /\ i' = i + 1
    /\ UNCHANGED <<input, at, k, destinations, pairs, routed, rows>>

ResolveDestinations ==
    /\ at = "destinations" /\ i <= Len(input.airports)
    /\ destinations' = Keep(destinations, input.req.dest, input.req.destR, input.airports[i])
    /\ i' = i + 1
    /\ UNCHANGED <<input, at, k, origins, pairs, routed, rows>>

GenerateAllPairs ==
    /\ at = "pairs" /\ i <= Len(origins) /\ k <= Len(destinations)
    /\ pairs' = IF origins[i] = destinations[k] THEN pairs
                ELSE Append(pairs, <<origins[i], destinations[k]>>)
    /\ k' = k + 1
    /\ UNCHANGED <<input, at, i, origins, destinations, routed, rows>>

NextOrigin ==
    /\ at = "pairs" /\ i <= Len(origins) /\ k > Len(destinations)
    /\ i' = i + 1 /\ k' = 1
    /\ UNCHANGED <<input, at, origins, destinations, pairs, routed, rows>>

FilterByRoutesWithHubs ==
    /\ at = "routes" /\ i <= Len(pairs)
    /\ routed' = IF Routed(pairs[i], input.graph, input.hubs) THEN Append(routed, pairs[i])
                 ELSE routed
    /\ i' = i + 1
    /\ UNCHANGED <<input, at, k, origins, destinations, pairs, rows>>

\* A row for each day of a pair.
GenerateTuples ==
    /\ at = "rows" /\ i <= Len(routed)
    /\ LET dates == ExpandDateRange(input.req.from, input.req.to) IN
       rows' = rows \o [d \in DOMAIN dates |-> <<routed[i][1], routed[i][2], dates[d]>>]
    /\ i' = i + 1
    /\ UNCHANGED <<input, at, k, origins, destinations, pairs, routed>>

\* A loop that has been through its list gives way to the next; the dates come
\* after the routes, the limit after the rows.
EndLoop ==
    /\ \/ at = "origins" /\ i > Len(input.airports) /\ at' = "destinations"
       \/ at = "destinations" /\ i > Len(input.airports) /\ at' = "pairs"
       \/ at = "pairs" /\ i > Len(origins) /\ at' = "routes"
       \/ /\ at = "routes" /\ i > Len(pairs)
          /\ at' = IF input.req.to < input.req.from THEN "to_before_from" ELSE "rows"
       \/ /\ at = "rows" /\ i > Len(routed)
          /\ at' = IF TooMany(rows) THEN "too_many_pairs" ELSE "accepted"
    /\ i' = 1
    /\ UNCHANGED <<input, k, origins, destinations, pairs, routed, rows>>

Next ==
    \/ ValidateRequest \/ ResolveOrigins \/ ResolveDestinations
    \/ GenerateAllPairs \/ NextOrigin \/ FilterByRoutesWithHubs \/ GenerateTuples
    \/ EndLoop

Spec == Init /\ [][Next]_vars

-----------------------------------------------------------------------------
(* Properties *)

Accepted == at = "accepted"
RowSet == ToSet(rows)

\* The codes of the valid airports within a circle, by angle and not by file:
\* those some row puts within radius steps of the centre, either way round.
Reference(center, radius) ==
    {input.airports[x].iata : x \in {y \in DOMAIN input.airports :
        \E steps \in 0 .. radius :
            input.airports[y].at \in {(center + steps) % Circumference,
                                      (center - steps) % Circumference}}}

\* The airports one can fly to from a, either way along each route.
Neighbours(a) == {r[2] : r \in {s \in input.graph : s[1] = a}}
                 \cup {r[1] : r \in {s \in input.graph : s[2] = a}}

\* Each pair of different airports of the two circles that is one flight or one
\* hub apart, on each day.
ReferenceRows ==
    {row \in Reference(input.req.origin, input.req.originR)
             \X Reference(input.req.dest, input.req.destR)
             \X (input.req.from .. input.req.to) :
        /\ row[1] # row[2]
        /\ \/ row[2] \in Neighbours(row[1])
           \/ (Neighbours(row[1]) \cap Neighbours(row[2]) \cap input.hubs)
                \ {row[1], row[2]} # {}}

\* A job has exactly the rows its request asks for.
RowsExact == Accepted => RowSet = ReferenceRows

\* No row twice, though the circles may overlap and the airport file repeat a
\* code: the table has no unique key that would refuse it.
RowsDistinct == Accepted => Cardinality(RowSet) = Len(rows)

\* A valid request is refused for its size exactly when it asks for more than
\* maxPairs rows.
LimitExact ==
    at \in {"accepted", "too_many_pairs"} =>
        (at = "too_many_pairs" <=> Cardinality(ReferenceRows) > MaxPairs)
=============================================================================
