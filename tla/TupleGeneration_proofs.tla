----------------------- MODULE TupleGeneration_proofs -----------------------
(***************************************************************************)
(* The rows of a job, for every airport file, route graph, hub list,       *)
(* request and limit: what the loops of GenerateTuples have built at each  *)
(* turn, and that its end is the reference definition of the rows.         *)
(***************************************************************************)
EXTENDS TupleGeneration, FiniteSetTheorems, SequenceTheorems, TLAPS

-----------------------------------------------------------------------------
(* The invariant *)

Ends == {"accepted", "too_many_pairs"}
AfterRoutes == {"rows"} \cup Ends
AfterPairs == {"routes"} \cup AfterRoutes
AfterDestinations == {"pairs"} \cup AfterPairs
AfterOrigins == {"destinations"} \cup AfterDestinations
Refused == {"invalid_input", "to_before_from"}
Places == {"validate", "origins"} \cup AfterOrigins \cup Refused

Types ==
    /\ input \in [req : Requests, airports : AirportLists, graph : Graphs, hubs : HubLists]
    /\ at \in Places /\ i \in Nat \ {0} /\ k \in Nat \ {0}
    /\ origins \in Seq(Codes) /\ destinations \in Seq(Codes)
    /\ pairs \in Seq(Codes \X Codes) /\ routed \in Seq(Codes \X Codes)
    /\ rows \in Seq(Codes \X Codes \X Int)

\* A loop starts at the first element, with nothing built.
Fresh ==
    /\ at = "validate" => i = 1 /\ origins = <<>>
    /\ at \in {"validate", "origins"} => destinations = <<>>
    /\ at \in {"validate", "origins", "destinations"} => pairs = <<>> /\ k = 1
    /\ at \notin AfterPairs \cup Refused => routed = <<>>
    /\ at \notin AfterRoutes \cup Refused => rows = <<>>

Valid == at \in {"origins"} \cup AfterOrigins => ValidRequest(input.req)

\* The codes of the first n airports that lie within a circle.
Near(airports, center, radius, n) ==
    {c \in Codes : \E x \in 1 .. n : Inside(center, radius, airports[x]) /\ airports[x].iata = c}

Circle(loop, after, kept, center, radius) ==
    /\ IsInjective(kept)
    /\ at = loop => /\ i <= Len(input.airports) + 1
                    /\ ToSet(kept) = Near(input.airports, center, radius, i - 1)
    /\ at \in after => ToSet(kept) = Near(input.airports, center, radius, Len(input.airports))

OriginsInv == Circle("origins", AfterOrigins, origins, input.req.origin, input.req.originR)
DestinationsInv ==
    Circle("destinations", AfterDestinations, destinations, input.req.dest, input.req.destR)

\* The pairs of the first from the elements before x of one list and all of the
\* other, and from element x and those before y.
PairsBefore(from, to, x, y) ==
    {p \in Codes \X Codes :
        /\ p[1] # p[2]
        /\ \E a \in 1 .. Len(from), b \in 1 .. Len(to) :
            /\ a < x \/ (a = x /\ b < y)
            /\ p[1] = from[a] /\ p[2] = to[b]}

PairsInv ==
    /\ IsInjective(pairs)
    /\ at = "pairs" => /\ i <= Len(origins) + 1 /\ k <= Len(destinations) + 1
                       /\ ToSet(pairs) = PairsBefore(origins, destinations, i, k)
    /\ at \in AfterPairs =>
            ToSet(pairs) = PairsBefore(origins, destinations, Len(origins) + 1, 1)

\* Those of the first n pairs that have a route.
RoutedBefore(list, graph, hubs, n) ==
    {p \in Codes \X Codes : \E x \in 1 .. n : list[x] = p /\ Routed(p, graph, hubs)}

RoutedInv ==
    /\ IsInjective(routed)
    /\ at = "routes" => /\ i <= Len(pairs) + 1
                        /\ ToSet(routed) = RoutedBefore(pairs, input.graph, input.hubs, i - 1)
    /\ at \in AfterRoutes =>
            ToSet(routed) = RoutedBefore(pairs, input.graph, input.hubs, Len(pairs))

\* The first n pairs on each day.
RowsBefore(list, from, to, n) ==
    {row \in Codes \X Codes \X (from .. to) : \E x \in 1 .. n : list[x] = <<row[1], row[2]>>}

RowsInv ==
    /\ IsInjective(rows)
    /\ at \in AfterRoutes => input.req.from <= input.req.to
    /\ at = "rows" => /\ i <= Len(routed) + 1
                      /\ ToSet(rows) = RowsBefore(routed, input.req.from, input.req.to, i - 1)
    /\ at \in Ends => ToSet(rows) = RowsBefore(routed, input.req.from, input.req.to, Len(routed))
    /\ at = "accepted" => ~TooMany(rows)
    /\ at = "too_many_pairs" => TooMany(rows)

IInv ==
    /\ Types /\ Fresh /\ Valid
    /\ OriginsInv /\ DestinationsInv /\ PairsInv /\ RoutedInv /\ RowsInv
-----------------------------------------------------------------------------
(* Lists without repetition *)

\* An element that is not in the list may join it.
LEMMA AppendSet ==
    ASSUME NEW S, NEW s \in Seq(S), NEW e \in S, IsInjective(s), e \notin ToSet(s)
    PROVE  /\ Append(s, e) \in Seq(S) /\ IsInjective(Append(s, e))
           /\ ToSet(Append(s, e)) = ToSet(s) \cup {e}
<1> DEFINE t == Append(s, e)
<1>1. /\ t \in Seq(S) /\ Len(t) = Len(s) + 1 /\ t[Len(s) + 1] = e
      /\ \A x \in 1 .. Len(s) : t[x] = s[x]
  BY AppendProperties
<1>2. /\ Len(s) \in Nat /\ DOMAIN s = 1 .. Len(s) /\ DOMAIN t = 1 .. Len(s) + 1
  BY <1>1
<1> HIDE DEF t
<1>3. IsInjective(t)
  BY <1>1, <1>2 DEF IsInjective, ToSet
<1>4. ToSet(t) = ToSet(s) \cup {e}
  BY <1>1, <1>2 DEF ToSet
<1>5. QED
  BY <1>1, <1>3, <1>4 DEF t

\* So may a list that shares nothing with it.
LEMMA ConcatSet ==
    ASSUME NEW S, NEW s \in Seq(S), NEW t \in Seq(S), IsInjective(s), IsInjective(t),
           \A e \in ToSet(s) : e \notin ToSet(t)
    PROVE  /\ s \o t \in Seq(S) /\ IsInjective(s \o t)
           /\ ToSet(s \o t) = ToSet(s) \cup ToSet(t)
<1> DEFINE u == s \o t
<1>1. /\ u \in Seq(S) /\ Len(u) = Len(s) + Len(t)
      /\ \A x \in 1 .. Len(s) + Len(t) : u[x] = IF x <= Len(s) THEN s[x] ELSE t[x - Len(s)]
  BY ConcatProperties
<1>2. /\ Len(s) \in Nat /\ Len(t) \in Nat /\ DOMAIN s = 1 .. Len(s) /\ DOMAIN t = 1 .. Len(t)
      /\ DOMAIN u = 1 .. Len(s) + Len(t)
  BY <1>1
<1> HIDE DEF u
<1>3. /\ \A x \in 1 .. Len(s) : u[x] = s[x]
      /\ \A x \in 1 .. Len(t) : u[x + Len(s)] = t[x]
  <2>1. ASSUME NEW x \in 1 .. Len(t) PROVE u[x + Len(s)] = t[x]
    <3>1. /\ x + Len(s) \in 1 .. Len(s) + Len(t) /\ ~(x + Len(s) <= Len(s))
          /\ x + Len(s) - Len(s) = x
      BY <1>2
    <3>2. QED
      BY <3>1, <1>1
  <2>2. QED
    BY <2>1, <1>1, <1>2
<1>4. \A x \in DOMAIN u : \/ x \in DOMAIN s /\ u[x] = s[x]
                          \/ x - Len(s) \in DOMAIN t /\ u[x] = t[x - Len(s)]
  BY <1>1, <1>2
<1>5. \A x \in DOMAIN s, y \in DOMAIN t : s[x] # t[y]
  BY DEF ToSet
<1>6. IsInjective(u)
  <2>1. SUFFICES ASSUME NEW x \in DOMAIN u, NEW y \in DOMAIN u, u[x] = u[y]
                 PROVE  x = y
    BY DEF IsInjective
  <2>2. x \in Int /\ y \in Int /\ Len(s) \in Int
    BY <1>2
  <2>3. CASE x \in DOMAIN s /\ u[x] = s[x]
    BY <2>1, <2>3, <1>4, <1>5 DEF IsInjective
  <2>4. CASE x - Len(s) \in DOMAIN t /\ u[x] = t[x - Len(s)]
    <3>1. y - Len(s) \in DOMAIN t /\ u[y] = t[y - Len(s)]
      BY <2>1, <2>4, <1>4, <1>5
    <3>2. x - Len(s) = y - Len(s)
      BY <3>1, <2>1, <2>4 DEF IsInjective
    <3>3. QED
      BY <3>2, <2>2
  <2>5. QED
    BY <2>3, <2>4, <1>4
<1>7. ToSet(u) = ToSet(s) \cup ToSet(t)
  <2>1. ASSUME NEW e \in ToSet(s) \cup ToSet(t) PROVE e \in ToSet(u)
    <3>1. CASE e \in ToSet(s)
      BY <3>1, <1>2, <1>3 DEF ToSet
    <3>2. CASE e \in ToSet(t)
      <4>1. PICK x \in 1 .. Len(t) : e = t[x]
        BY <3>2, <1>2 DEF ToSet
      <4>2. x + Len(s) \in DOMAIN u
        BY <1>2
      <4>3. QED
        BY <4>1, <4>2, <1>3 DEF ToSet
    <3>3. QED
      BY <2>1, <3>1, <3>2
  <2>2. ToSet(u) \subseteq ToSet(s) \cup ToSet(t)
    BY <1>4 DEF ToSet
  <2>3. QED
    BY <2>1, <2>2
<1>8. QED
  BY <1>1, <1>6, <1>7 DEF u

\* A list without repetition has as many elements as places.
LEMMA CountSet ==
    ASSUME NEW S, NEW s \in Seq(S), IsInjective(s)
    PROVE  Cardinality(ToSet(s)) = Len(s)
<1>1. Len(s) \in Nat /\ DOMAIN s = 1 .. Len(s) /\ s \in [1 .. Len(s) -> ToSet(s)]
  BY DEF ToSet
<1>2. s \in Bijection(1 .. Len(s), ToSet(s))
  BY <1>1 DEF Bijection, Injection, Surjection, IsInjective, ToSet
<1>3. ExistsBijection(1 .. Len(s), ToSet(s))
  BY <1>2 DEF ExistsBijection
<1>4. QED
  BY <1>1, <1>3, FS_CountingElements
-----------------------------------------------------------------------------
(* Circles *)

\* On a circle, counting a few steps up or down is one addition or subtraction
\* away from % having nothing to do.
LEMMA Modulo ==
    ASSUME NEW C \in Nat \ {0}, NEW x \in Int
    PROVE  /\ x \in 0 .. C - 1 => x % C = x
           /\ x \in 0 .. C - 1 => (x + C) % C = x
           /\ x \in 0 .. C - 1 => (x - C) % C = x
           /\ x % C \in 0 .. C - 1
<1>1. x \in 0 .. C - 1 => x % C = x
  OBVIOUS
<1>2. x \in 0 .. C - 1 => (x + C) % C = x
  OBVIOUS
<1>3. x \in 0 .. C - 1 => (x - C) % C = x
  OBVIOUS
<1>4. x % C \in 0 .. C - 1
  OBVIOUS
<1>5. QED
  BY <1>1, <1>2, <1>3, <1>4

\* The distance is at most the way there in either direction, and one of them.
LEMMA DistanceWays ==
    ASSUME NEW x \in 0 .. Circumference - 1, NEW y \in 0 .. Circumference - 1
    PROVE  LET up == IF y >= x THEN y - x ELSE y - x + Circumference
               down == IF x >= y THEN x - y ELSE x - y + Circumference
           IN  /\ up \in 0 .. Circumference - 1 /\ down \in 0 .. Circumference - 1
               /\ Distance(x, y) = IF up <= down THEN up ELSE down
               /\ (x + up) % Circumference = y
               /\ (x - down) % Circumference = y
<1> DEFINE up == IF y >= x THEN y - x ELSE y - x + Circumference
           down == IF x >= y THEN x - y ELSE x - y + Circumference
<1>1. Circumference \in Nat \ {0} /\ Circumference \in Int /\ x \in Int /\ y \in Int
  BY TupleConstantsOK
<1>2. up \in 0 .. Circumference - 1 /\ down \in 0 .. Circumference - 1
  BY <1>1
<1>3. Distance(x, y) = IF up <= down THEN up ELSE down
  BY <1>1 DEF Distance, Abs
<1>4. x + up = y \/ x + up = y + Circumference
  BY <1>1
<1>5. x - down = y \/ x - down = y - Circumference
  BY <1>1
<1>6. (x + up) % Circumference = y
  BY <1>1, <1>4, Modulo
<1>7. (x - down) % Circumference = y
  BY <1>1, <1>5, Modulo
<1>8. QED
  BY <1>2, <1>3, <1>6, <1>7

\* An airport is inside a circle exactly when some number of steps up to the
\* radius, one way round or the other, leads to it.
LEMMA InsideByAngle ==
    ASSUME NEW center \in 0 .. Circumference - 1, NEW radius \in Nat \ {0},
           NEW a, a.at \in Int
    PROVE  Inside(center, radius, a) <=>
           \E steps \in 0 .. radius : a.at \in {(center + steps) % Circumference,
                                                (center - steps) % Circumference}
<1> DEFINE y == a.at
           up == IF y >= center THEN y - center ELSE y - center + Circumference
           down == IF center >= y THEN center - y ELSE center - y + Circumference
<1>1. Circumference \in Nat \ {0} /\ Circumference \in Int /\ center \in Int /\ y \in Int
      /\ radius \in Int
  BY TupleConstantsOK
<1>2. ASSUME Inside(center, radius, a)
      PROVE  \E steps \in 0 .. radius : a.at \in {(center + steps) % Circumference,
                                                  (center - steps) % Circumference}
  <2>1. y \in 0 .. Circumference - 1 /\ Distance(center, y) <= radius
    BY <1>2 DEF Inside, ValidPoint
  <2>2. /\ up \in 0 .. Circumference - 1 /\ down \in 0 .. Circumference - 1
        /\ Distance(center, y) = IF up <= down THEN up ELSE down
        /\ (center + up) % Circumference = y
        /\ (center - down) % Circumference = y
    BY <2>1, DistanceWays
  <2> HIDE DEF up, down
  <2>3. CASE up <= down
    <3>1. up \in 0 .. radius
      BY <1>1, <2>1, <2>2, <2>3
    <3>2. QED
      BY <3>1, <2>2
  <2>4. CASE ~(up <= down)
    <3>1. down \in 0 .. radius
      BY <1>1, <2>1, <2>2, <2>4
    <3>2. QED
      BY <3>1, <2>2
  <2>5. QED
    BY <2>3, <2>4
<1>3. ASSUME NEW steps \in 0 .. radius,
             a.at \in {(center + steps) % Circumference, (center - steps) % Circumference}
      PROVE  Inside(center, radius, a)
  <2>1. steps \in Int /\ center + steps \in Int /\ center - steps \in Int
    BY <1>1
  <2>2. y \in 0 .. Circumference - 1
    BY <1>1, <1>3, <2>1, Modulo
  <2>3. /\ up \in 0 .. Circumference - 1 /\ down \in 0 .. Circumference - 1
        /\ Distance(center, y) = IF up <= down THEN up ELSE down
    BY <2>2, DistanceWays
  <2>4. Distance(center, y) <= steps
    <3>1. CASE steps >= Circumference
      BY <3>1, <2>3, <2>1, <1>1
    <3>2. CASE ~(steps >= Circumference) /\ a.at = (center + steps) % Circumference
      <4>1. CASE center + steps < Circumference
        <5>1. y = center + steps
          <6> DEFINE n == center + steps
          <6>1. n \in Int /\ n \in 0 .. Circumference - 1
            BY <1>1, <2>1, <3>2, <4>1
          <6> HIDE DEF n
          <6>2. n % Circumference = n
            BY <1>1, <6>1, Modulo
          <6>3. QED
            BY <3>2, <6>2 DEF n
        <5>2. QED
          BY <5>1, <1>1, <2>1, <2>3
      <4>2. CASE ~(center + steps < Circumference)
        <5>1. center + steps - Circumference \in 0 .. Circumference - 1
          BY <1>1, <2>1, <3>2, <4>2
        <5>2. y = center + steps - Circumference
          <6> DEFINE n == center + steps - Circumference
          <6>1. n \in Int /\ center + steps = n + Circumference
            BY <1>1, <2>1
          <6> HIDE DEF n
          <6>2. (n + Circumference) % Circumference = n
            BY <1>1, <5>1, <6>1, Modulo DEF n
          <6>3. QED
            BY <3>2, <6>1, <6>2 DEF n
        <5>3. QED
          BY <5>2, <1>1, <2>1, <2>3, <3>2
      <4>3. QED
        BY <4>1, <4>2
    <3>3. CASE ~(steps >= Circumference) /\ a.at = (center - steps) % Circumference
      <4>1. CASE center - steps >= 0
        <5>1. y = center - steps
          <6> DEFINE n == center - steps
          <6>1. n \in Int /\ n \in 0 .. Circumference - 1
            BY <1>1, <2>1, <3>3, <4>1
          <6> HIDE DEF n
          <6>2. n % Circumference = n
            BY <1>1, <6>1, Modulo
          <6>3. QED
            BY <3>3, <6>2 DEF n
        <5>2. QED
          BY <5>1, <1>1, <2>1, <2>3
      <4>2. CASE ~(center - steps >= 0)
        <5>1. center - steps + Circumference \in 0 .. Circumference - 1
          BY <1>1, <2>1, <3>3, <4>2
        <5>2. y = center - steps + Circumference
          <6> DEFINE n == center - steps + Circumference
          <6>1. n \in Int /\ center - steps = n - Circumference
            BY <1>1, <2>1
          <6> HIDE DEF n
          <6>2. (n - Circumference) % Circumference = n
            BY <1>1, <5>1, <6>1, Modulo DEF n
          <6>3. QED
            BY <3>3, <6>1, <6>2 DEF n
        <5>3. QED
          BY <5>2, <1>1, <2>1, <2>3, <3>3
      <4>3. QED
        BY <4>1, <4>2
    <3>4. QED
      BY <1>3, <3>1, <3>2, <3>3
  <2>5. QED
    BY <1>1, <2>1, <2>2, <2>3, <2>4 DEF Inside, ValidPoint
<1>4. QED
  BY <1>2, <1>3

-----------------------------------------------------------------------------
(* One turn of each loop *)

LEMMA KeepTurn ==
    ASSUME NEW airports \in Seq([iata : Codes, at : Int]), NEW center, NEW radius,
           NEW n \in 1 .. Len(airports), NEW kept \in Seq(Codes), IsInjective(kept),
           ToSet(kept) = Near(airports, center, radius, n - 1)
    PROVE  /\ Keep(kept, center, radius, airports[n]) \in Seq(Codes)
           /\ IsInjective(Keep(kept, center, radius, airports[n]))
           /\ ToSet(Keep(kept, center, radius, airports[n])) = Near(airports, center, radius, n)
<1> DEFINE a == airports[n]
           c == a.iata
           next == Keep(kept, center, radius, a)
<1>1. c \in Codes
  <2>1. a \in [iata : Codes, at : Int]
    BY ElementOfSeq
  <2>2. QED
    BY <2>1
<1>2. n \in Int /\ 1 .. n = (1 .. n - 1) \cup {n}
  OBVIOUS
<1>3. Near(airports, center, radius, n) =
        Near(airports, center, radius, n - 1)
            \cup (IF Inside(center, radius, a) THEN {c} ELSE {})
  BY <1>1, <1>2 DEF Near
<1>4. CASE Inside(center, radius, a) /\ c \notin ToSet(kept)
  <2>1. next = Append(kept, c)
    BY <1>4 DEF Keep
  <2>2. QED
    BY <2>1, <1>1, <1>3, <1>4, AppendSet
<1>5. CASE ~(Inside(center, radius, a) /\ c \notin ToSet(kept))
  <2>1. next = kept
    BY <1>5 DEF Keep
  <2>2. QED
    BY <2>1, <1>3, <1>5
<1>6. QED
  BY <1>4, <1>5

\* What the bodies of the loops over the pairs build.
WithPair(list, a, b) == IF a = b THEN list ELSE Append(list, <<a, b>>)
WithRouted(list, p, graph, hubs) == IF Routed(p, graph, hubs) THEN Append(list, p) ELSE list
Days(p, dates) == [d \in DOMAIN dates |-> <<p[1], p[2], dates[d]>>]

LEMMA PairTurn ==
    ASSUME NEW from \in Seq(Codes), NEW to \in Seq(Codes), IsInjective(from), IsInjective(to),
           NEW x \in 1 .. Len(from), NEW y \in 1 .. Len(to),
           NEW list \in Seq(Codes \X Codes), IsInjective(list),
           ToSet(list) = PairsBefore(from, to, x, y)
    PROVE  /\ WithPair(list, from[x], to[y]) \in Seq(Codes \X Codes)
           /\ IsInjective(WithPair(list, from[x], to[y]))
           /\ ToSet(WithPair(list, from[x], to[y])) = PairsBefore(from, to, x, y + 1)
<1>1. /\ from[x] \in Codes /\ to[y] \in Codes /\ x \in Int /\ y \in Int
      /\ DOMAIN from = 1 .. Len(from) /\ DOMAIN to = 1 .. Len(to)
  BY ElementOfSeq
<1> DEFINE p == <<from[x], to[y]>>
           next == WithPair(list, from[x], to[y])
<1>2. p \in Codes \X Codes /\ p[1] = from[x] /\ p[2] = to[y]
  BY <1>1
<1>3. PairsBefore(from, to, x, y + 1) =
        PairsBefore(from, to, x, y) \cup (IF from[x] = to[y] THEN {} ELSE {p})
  <2>1. ASSUME NEW q \in PairsBefore(from, to, x, y + 1), q \notin PairsBefore(from, to, x, y)
        PROVE  q = p /\ from[x] # to[y]
    <3>1. /\ q \in Codes \X Codes /\ q[1] # q[2]
          /\ \E a \in 1 .. Len(from), b \in 1 .. Len(to) :
                /\ a < x \/ (a = x /\ b < y + 1)
                /\ q[1] = from[a] /\ q[2] = to[b]
      BY DEF PairsBefore
    <3>2. PICK a \in 1 .. Len(from), b \in 1 .. Len(to) :
                /\ a < x \/ (a = x /\ b < y + 1)
                /\ q[1] = from[a] /\ q[2] = to[b]
      BY <3>1
    <3>3. ~(a < x \/ (a = x /\ b < y))
      BY <2>1, <3>1, <3>2 DEF PairsBefore
    <3>4. a = x /\ b = y
      BY <1>1, <3>2, <3>3
    <3>5. QED
      BY <1>2, <3>1, <3>2, <3>4
  <2>2. PairsBefore(from, to, x, y) \subseteq PairsBefore(from, to, x, y + 1)
    BY <1>1 DEF PairsBefore
  <2>3. from[x] # to[y] => p \in PairsBefore(from, to, x, y + 1)
    BY <1>1, <1>2 DEF PairsBefore
  <2>4. QED
    BY <2>1, <2>2, <2>3
<1>4. CASE from[x] = to[y]
  <2>1. next = list
    BY <1>4 DEF WithPair
  <2>2. QED
    BY <2>1, <1>3, <1>4
<1>5. CASE from[x] # to[y]
  <2>1. p \notin PairsBefore(from, to, x, y)
    <3>1. SUFFICES ASSUME p \in PairsBefore(from, to, x, y) PROVE FALSE
      OBVIOUS
    <3>2. PICK a \in 1 .. Len(from), b \in 1 .. Len(to) :
            /\ a < x \/ (a = x /\ b < y)
            /\ p[1] = from[a] /\ p[2] = to[b]
      BY <3>1 DEF PairsBefore
    <3>3. a = x /\ b = y
      BY <1>1, <1>2, <3>2 DEF IsInjective
    <3>4. QED
      BY <1>1, <3>2, <3>3
  <2>2. next = Append(list, p)
    BY <1>5 DEF WithPair
  <2> HIDE DEF p, next
  <2>3. /\ Append(list, p) \in Seq(Codes \X Codes) /\ IsInjective(Append(list, p))
        /\ ToSet(Append(list, p)) = ToSet(list) \cup {p}
    BY <2>1, <1>2, AppendSet
  <2>4. QED
    BY <2>2, <2>3, <1>3, <1>5 DEF next
<1>6. QED
  BY <1>4, <1>5

\* Past the last destination comes the next origin.
LEMMA PairRow ==
    ASSUME NEW from \in Seq(Codes), NEW to \in Seq(Codes), NEW x \in Nat
    PROVE  PairsBefore(from, to, x, Len(to) + 1) = PairsBefore(from, to, x + 1, 1)
<1>1. Len(to) \in Nat /\ Len(from) \in Nat
  OBVIOUS
<1>2. ASSUME NEW a \in 1 .. Len(from), NEW b \in 1 .. Len(to)
      PROVE  (a < x \/ (a = x /\ b < Len(to) + 1)) <=> (a < x + 1 \/ (a = x + 1 /\ b < 1))
  BY <1>1
<1>3. QED
  BY <1>2 DEF PairsBefore

LEMMA RouteTurn ==
    ASSUME NEW list \in Seq(Codes \X Codes), IsInjective(list), NEW graph, NEW hubs,
           NEW n \in 1 .. Len(list), NEW kept \in Seq(Codes \X Codes), IsInjective(kept),
           ToSet(kept) = RoutedBefore(list, graph, hubs, n - 1)
    PROVE  /\ WithRouted(kept, list[n], graph, hubs) \in Seq(Codes \X Codes)
           /\ IsInjective(WithRouted(kept, list[n], graph, hubs))
           /\ ToSet(WithRouted(kept, list[n], graph, hubs)) = RoutedBefore(list, graph, hubs, n)
<1>1. list[n] \in Codes \X Codes
  BY ElementOfSeq
<1>2. n \in Int /\ 1 .. n = (1 .. n - 1) \cup {n} /\ n \notin 1 .. n - 1
      /\ 1 .. n - 1 \subseteq DOMAIN list /\ n \in DOMAIN list
  OBVIOUS
<1>3. RoutedBefore(list, graph, hubs, n) =
        RoutedBefore(list, graph, hubs, n - 1)
            \cup (IF Routed(list[n], graph, hubs) THEN {list[n]} ELSE {})
  BY <1>1, <1>2 DEF RoutedBefore
<1>4. list[n] \notin RoutedBefore(list, graph, hubs, n - 1)
  BY <1>2 DEF RoutedBefore, IsInjective
<1>5. CASE Routed(list[n], graph, hubs)
  BY <1>1, <1>3, <1>4, <1>5, AppendSet DEF WithRouted
<1>6. CASE ~Routed(list[n], graph, hubs)
  BY <1>3, <1>6 DEF WithRouted
<1>7. QED
  BY <1>5, <1>6

LEMMA RowTurn ==
    ASSUME NEW list \in Seq(Codes \X Codes), IsInjective(list),
           NEW from \in Int, NEW to \in Int, from <= to,
           NEW n \in 1 .. Len(list), NEW built \in Seq(Codes \X Codes \X Int),
           IsInjective(built), ToSet(built) = RowsBefore(list, from, to, n - 1)
    PROVE  LET days == Days(list[n], ExpandDateRange(from, to))
           IN  /\ built \o days \in Seq(Codes \X Codes \X Int) /\ IsInjective(built \o days)
               /\ ToSet(built \o days) = RowsBefore(list, from, to, n)
<1> DEFINE len == to - from + 1
           days == Days(list[n], ExpandDateRange(from, to))
<1>1. /\ list[n] \in Codes \X Codes /\ list[n][1] \in Codes /\ list[n][2] \in Codes
      /\ list[n] = <<list[n][1], list[n][2]>>
  <2>1. list[n] \in Codes \X Codes
    BY ElementOfSeq
  <2>2. QED
    BY <2>1
<1>2. /\ len \in Nat /\ n \in Int /\ 1 .. n = (1 .. n - 1) \cup {n} /\ n \notin 1 .. n - 1
      /\ 1 .. n - 1 \subseteq DOMAIN list /\ n \in DOMAIN list
  OBVIOUS
<1>3. days = [d \in 1 .. len |-> <<list[n][1], list[n][2], from + d - 1>>]
  BY DEF ExpandDateRange, Days
<1> HIDE DEF days
<1>4. DOMAIN days = 1 .. len /\ \A d \in 1 .. len : days[d] = <<list[n][1], list[n][2], from + d - 1>>
  BY <1>3
<1>5. \A d \in 1 .. len : from + d - 1 \in from .. to
  BY <1>2
<1>6. days \in Seq(Codes \X Codes \X Int)
  BY <1>1, <1>2, <1>3
<1>7. IsInjective(days)
  BY <1>2, <1>4 DEF IsInjective
<1>8. ToSet(days) = {row \in Codes \X Codes \X (from .. to) : list[n] = <<row[1], row[2]>>}
  <2>1. ASSUME NEW row \in Codes \X Codes \X (from .. to), list[n] = <<row[1], row[2]>>
        PROVE  row \in ToSet(days)
    <3>1. row = <<list[n][1], list[n][2], row[3]>> /\ row[3] \in from .. to
      BY <2>1
    <3>2. row[3] - from + 1 \in 1 .. len /\ from + (row[3] - from + 1) - 1 = row[3]
      BY <3>1
    <3>3. days[row[3] - from + 1] = row
      BY <3>1, <3>2, <1>4
    <3>4. QED
      BY <3>2, <3>3, <1>4 DEF ToSet
  <2>2. ASSUME NEW d \in 1 .. len
        PROVE  days[d] \in {row \in Codes \X Codes \X (from .. to) : list[n] = <<row[1], row[2]>>}
    <3>1. days[d] = <<list[n][1], list[n][2], from + d - 1>> /\ from + d - 1 \in from .. to
      BY <1>4, <1>5
    <3>2. QED
      BY <3>1, <1>1
  <2>3. ASSUME NEW row \in ToSet(days)
        PROVE  row \in {r \in Codes \X Codes \X (from .. to) : list[n] = <<r[1], r[2]>>}
    BY <2>2, <1>4 DEF ToSet
  <2>4. QED
    BY <2>1, <2>3
<1>9. RowsBefore(list, from, to, n) = RowsBefore(list, from, to, n - 1) \cup ToSet(days)
  BY <1>2, <1>8 DEF RowsBefore
<1>10. \A row \in ToSet(built) : row \notin ToSet(days)
  <2>1. SUFFICES ASSUME NEW row \in ToSet(built), row \in ToSet(days) PROVE FALSE
    OBVIOUS
  <2>2. PICK x \in 1 .. n - 1 : list[x] = <<row[1], row[2]>>
    BY <2>1 DEF RowsBefore
  <2>3. list[n] = <<row[1], row[2]>>
    BY <2>1, <1>8
  <2>4. QED
    BY <2>2, <2>3, <1>2 DEF IsInjective
<1>11. /\ built \o days \in Seq(Codes \X Codes \X Int) /\ IsInjective(built \o days)
       /\ ToSet(built \o days) = ToSet(built) \cup ToSet(days)
  <2> DEFINE S == Codes \X Codes \X Int
  <2>1. built \in Seq(S) /\ days \in Seq(S)
    BY <1>6
  <2> HIDE DEF S
  <2>2. \A s, t \in Seq(S) :
            /\ IsInjective(s) /\ IsInjective(t) /\ \A e \in ToSet(s) : e \notin ToSet(t)
            => /\ s \o t \in Seq(S) /\ IsInjective(s \o t)
               /\ ToSet(s \o t) = ToSet(s) \cup ToSet(t)
    BY ConcatSet
  <2>3. QED
    BY <2>1, <2>2, <1>7, <1>10, Zenon DEF S
<1>12. QED
  BY <1>9, <1>11 DEF days

-----------------------------------------------------------------------------
(* The invariant *)

LEMMA InputTypes ==
    ASSUME Types
    PROVE  /\ input.airports \in Seq([iata : Codes, at : Int])
           /\ input.graph \in SUBSET (Codes \X Codes)
           /\ input.req.origin \in Int /\ input.req.originR \in Int
           /\ input.req.dest \in Int /\ input.req.destR \in Int
           /\ input.req.from \in Int /\ input.req.to \in Int
<1>1. input.airports \in AirportLists /\ input.graph \in Graphs /\ input.req \in Requests
  BY DEF Types
<1>2. input.req \in [origin : Int, originR : Int, dest : Int, destR : Int, from : Int, to : Int]
  BY <1>1, TupleConstantsOK
<1>3. QED
  BY <1>1, <1>2, TupleConstantsOK

LEMMA InitInv == ASSUME Init PROVE IInv
<1>1. Types
  BY DEF Init, Types, Places
<1>2. Fresh /\ Valid
  BY DEF Init, Fresh, Valid, AfterOrigins, AfterDestinations, AfterPairs, AfterRoutes, Ends
<1>3. IsInjective(<<>>)
  BY DEF IsInjective
<1>4. OriginsInv /\ DestinationsInv
  BY <1>3 DEF Init, OriginsInv, DestinationsInv, Circle, AfterOrigins, AfterDestinations,
              AfterPairs, AfterRoutes, Ends
<1>5. PairsInv /\ RoutedInv /\ RowsInv
  BY <1>3 DEF Init, PairsInv, RoutedInv, RowsInv, AfterPairs, AfterRoutes, Ends
<1>6. QED
  BY <1>1, <1>2, <1>4, <1>5 DEF IInv

LEMMA ValidateRequestInv == ASSUME IInv, ValidateRequest PROVE IInv'
<1> USE DEF IInv
<1>2. Types'
  BY DEF ValidateRequest, Types, Places, AfterOrigins, Refused
<1>3. Fresh'
  BY DEF ValidateRequest, Fresh, Places, Refused, AfterOrigins, AfterDestinations, AfterPairs, AfterRoutes, Ends
<1>4. Valid'
  BY DEF ValidateRequest, Valid, Places, Refused, AfterOrigins, AfterDestinations, AfterPairs, AfterRoutes, Ends
<1>5. OriginsInv'
  <2>1. ToSet(<<>>) = {} /\ \A c, r : Near(input.airports, c, r, 0) = {}
    BY DEF ToSet, Near
  <2>2. at = "validate" /\ i' = 1 /\ origins' = <<>> /\ IsInjective(origins') /\ input' = input
    BY DEF ValidateRequest, Fresh, OriginsInv, Circle
  <2>3. at' \in {"origins", "invalid_input"}
    BY DEF ValidateRequest
  <2>4. i' - 1 = 0 /\ i' <= Len(input.airports) + 1
    BY <2>2, InputTypes
  <2>5. ToSet(origins') = Near(input.airports, input.req.origin, input.req.originR, i' - 1)
    BY <2>1, <2>2, <2>4
  <2>6. QED
    BY <2>2, <2>3, <2>4, <2>5 DEF OriginsInv, Circle, Places, Refused, AfterOrigins, AfterDestinations, AfterPairs, AfterRoutes, Ends
<1>6. DestinationsInv'
  BY DEF ValidateRequest, DestinationsInv, Circle, Places, Refused, AfterOrigins, AfterDestinations, AfterPairs, AfterRoutes, Ends
<1>7. PairsInv'
  BY DEF ValidateRequest, PairsInv, Places, Refused, AfterOrigins, AfterDestinations, AfterPairs, AfterRoutes, Ends
<1>8. RoutedInv'
  BY DEF ValidateRequest, RoutedInv, Places, Refused, AfterOrigins, AfterDestinations, AfterPairs, AfterRoutes, Ends
<1>9. RowsInv'
  BY DEF ValidateRequest, RowsInv, Places, Refused, AfterOrigins, AfterDestinations, AfterPairs, AfterRoutes, Ends
<1>10. QED
  BY <1>2, <1>3, <1>4, <1>5, <1>6, <1>7, <1>8, <1>9

LEMMA ResolveOriginsInv == ASSUME IInv, ResolveOrigins PROVE IInv'
<1> USE DEF IInv
<1>1. /\ origins' \in Seq(Codes) /\ IsInjective(origins')
      /\ ToSet(origins') = Near(input.airports, input.req.origin, input.req.originR, i)
  <2>1. /\ input.airports \in Seq([iata : Codes, at : Int]) /\ i \in 1 .. Len(input.airports)
        /\ origins \in Seq(Codes) /\ IsInjective(origins)
        /\ ToSet(origins) = Near(input.airports, input.req.origin, input.req.originR, i - 1)
    BY InputTypes DEF ResolveOrigins, Types, OriginsInv, Circle
  <2>2. origins' = Keep(origins, input.req.origin, input.req.originR, input.airports[i])
    BY DEF ResolveOrigins
  <2>3. QED
    BY <2>1, <2>2, KeepTurn
<1>2. Types'
  BY <1>1 DEF ResolveOrigins, Types
<1>3. Fresh'
  BY DEF ResolveOrigins, Fresh, Places, Refused, AfterOrigins, AfterDestinations, AfterPairs, AfterRoutes, Ends
<1>4. Valid'
  BY DEF ResolveOrigins, Valid, Places, Refused, AfterOrigins, AfterDestinations, AfterPairs, AfterRoutes, Ends
<1>5. OriginsInv'
  BY <1>1, InputTypes DEF ResolveOrigins, Types, OriginsInv, Circle, Places, Refused, AfterOrigins, AfterDestinations, AfterPairs, AfterRoutes, Ends
<1>6. DestinationsInv'
  BY DEF ResolveOrigins, DestinationsInv, Circle, Places, Refused, AfterOrigins, AfterDestinations, AfterPairs, AfterRoutes, Ends
<1>7. PairsInv'
  BY DEF ResolveOrigins, PairsInv, Places, Refused, AfterOrigins, AfterDestinations, AfterPairs, AfterRoutes, Ends
<1>8. RoutedInv'
  BY DEF ResolveOrigins, RoutedInv, Places, Refused, AfterOrigins, AfterDestinations, AfterPairs, AfterRoutes, Ends
<1>9. RowsInv'
  BY DEF ResolveOrigins, RowsInv, Places, Refused, AfterOrigins, AfterDestinations, AfterPairs, AfterRoutes, Ends
<1>10. QED
  BY <1>2, <1>3, <1>4, <1>5, <1>6, <1>7, <1>8, <1>9

LEMMA ResolveDestinationsInv == ASSUME IInv, ResolveDestinations PROVE IInv'
<1> USE DEF IInv
<1>1. /\ destinations' \in Seq(Codes) /\ IsInjective(destinations')
      /\ ToSet(destinations') = Near(input.airports, input.req.dest, input.req.destR, i)
  <2>1. /\ input.airports \in Seq([iata : Codes, at : Int]) /\ i \in 1 .. Len(input.airports)
        /\ destinations \in Seq(Codes) /\ IsInjective(destinations)
        /\ ToSet(destinations) = Near(input.airports, input.req.dest, input.req.destR, i - 1)
    BY InputTypes DEF ResolveDestinations, Types, DestinationsInv, Circle
  <2>2. destinations' = Keep(destinations, input.req.dest, input.req.destR, input.airports[i])
    BY DEF ResolveDestinations
  <2>3. QED
    BY <2>1, <2>2, KeepTurn
<1>2. Types'
  BY <1>1 DEF ResolveDestinations, Types
<1>3. Fresh'
  BY DEF ResolveDestinations, Fresh, Places, Refused, AfterOrigins, AfterDestinations, AfterPairs, AfterRoutes, Ends
<1>4. Valid'
  BY DEF ResolveDestinations, Valid, Places, Refused, AfterOrigins, AfterDestinations, AfterPairs, AfterRoutes, Ends
<1>5. OriginsInv'
  BY DEF ResolveDestinations, OriginsInv, Circle, Places, Refused, AfterOrigins, AfterDestinations, AfterPairs, AfterRoutes, Ends
<1>6. DestinationsInv'
  BY <1>1, InputTypes DEF ResolveDestinations, Types, DestinationsInv, Circle, Places, Refused, AfterOrigins, AfterDestinations, AfterPairs, AfterRoutes, Ends
<1>7. PairsInv'
  BY DEF ResolveDestinations, PairsInv, Places, Refused, AfterOrigins, AfterDestinations, AfterPairs, AfterRoutes, Ends
<1>8. RoutedInv'
  BY DEF ResolveDestinations, RoutedInv, Places, Refused, AfterOrigins, AfterDestinations, AfterPairs, AfterRoutes, Ends
<1>9. RowsInv'
  BY DEF ResolveDestinations, RowsInv, Places, Refused, AfterOrigins, AfterDestinations, AfterPairs, AfterRoutes, Ends
<1>10. QED
  BY <1>2, <1>3, <1>4, <1>5, <1>6, <1>7, <1>8, <1>9

LEMMA GenerateAllPairsInv == ASSUME IInv, GenerateAllPairs PROVE IInv'
<1> USE DEF IInv
<1>1. /\ pairs' \in Seq(Codes \X Codes) /\ IsInjective(pairs')
      /\ ToSet(pairs') = PairsBefore(origins, destinations, i, k + 1)
  <2>1. /\ origins \in Seq(Codes) /\ destinations \in Seq(Codes)
        /\ IsInjective(origins) /\ IsInjective(destinations)
        /\ i \in 1 .. Len(origins) /\ k \in 1 .. Len(destinations)
        /\ pairs \in Seq(Codes \X Codes) /\ IsInjective(pairs)
        /\ ToSet(pairs) = PairsBefore(origins, destinations, i, k)
    BY DEF GenerateAllPairs, Types, OriginsInv, DestinationsInv, Circle, PairsInv
  <2>2. pairs' = WithPair(pairs, origins[i], destinations[k])
    BY DEF GenerateAllPairs, WithPair
  <2>3. QED
    BY <2>1, <2>2, PairTurn
<1>2. Types'
  BY <1>1 DEF GenerateAllPairs, Types
<1>3. Fresh'
  BY DEF GenerateAllPairs, Fresh, Places, Refused, AfterOrigins, AfterDestinations, AfterPairs, AfterRoutes, Ends
<1>4. Valid'
  BY DEF GenerateAllPairs, Valid, Places, Refused, AfterOrigins, AfterDestinations, AfterPairs, AfterRoutes, Ends
<1>5. OriginsInv'
  BY DEF GenerateAllPairs, OriginsInv, Circle, Places, Refused, AfterOrigins, AfterDestinations, AfterPairs, AfterRoutes, Ends
<1>6. DestinationsInv'
  BY DEF GenerateAllPairs, DestinationsInv, Circle, Places, Refused, AfterOrigins, AfterDestinations, AfterPairs, AfterRoutes, Ends
<1>7. PairsInv'
  BY <1>1 DEF GenerateAllPairs, Types, PairsInv, Places, Refused, AfterOrigins, AfterDestinations, AfterPairs, AfterRoutes, Ends
<1>8. RoutedInv'
  BY DEF GenerateAllPairs, RoutedInv, Places, Refused, AfterOrigins, AfterDestinations, AfterPairs, AfterRoutes, Ends
<1>9. RowsInv'
  BY DEF GenerateAllPairs, RowsInv, Places, Refused, AfterOrigins, AfterDestinations, AfterPairs, AfterRoutes, Ends
<1>10. QED
  BY <1>2, <1>3, <1>4, <1>5, <1>6, <1>7, <1>8, <1>9

LEMMA NextOriginInv == ASSUME IInv, NextOrigin PROVE IInv'
<1> USE DEF IInv
<1>2. Types'
  BY DEF NextOrigin, Types
<1>3. Fresh'
  BY DEF NextOrigin, Fresh, Places, Refused, AfterOrigins, AfterDestinations, AfterPairs, AfterRoutes, Ends
<1>4. Valid'
  BY DEF NextOrigin, Valid, Places, Refused, AfterOrigins, AfterDestinations, AfterPairs, AfterRoutes, Ends
<1>5. OriginsInv'
  BY DEF NextOrigin, OriginsInv, Circle, Places, Refused, AfterOrigins, AfterDestinations, AfterPairs, AfterRoutes, Ends
<1>6. DestinationsInv'
  BY DEF NextOrigin, DestinationsInv, Circle, Places, Refused, AfterOrigins, AfterDestinations, AfterPairs, AfterRoutes, Ends
<1>7. PairsInv'
  <2>1. k = Len(destinations) + 1
    <3>1. /\ k \in Nat /\ Len(destinations) \in Nat /\ k > Len(destinations)
          /\ k <= Len(destinations) + 1
      BY DEF NextOrigin, Types, PairsInv
    <3>2. QED
      BY <3>1
  <2>2. PairsBefore(origins, destinations, i, k) = PairsBefore(origins, destinations, i + 1, 1)
    BY <2>1, PairRow DEF Types
  <2>3. QED
    BY <2>2 DEF NextOrigin, Types, PairsInv, Places, Refused, AfterOrigins, AfterDestinations, AfterPairs, AfterRoutes, Ends
<1>8. RoutedInv'
  BY DEF NextOrigin, RoutedInv, Places, Refused, AfterOrigins, AfterDestinations, AfterPairs, AfterRoutes, Ends
<1>9. RowsInv'
  BY DEF NextOrigin, RowsInv, Places, Refused, AfterOrigins, AfterDestinations, AfterPairs, AfterRoutes, Ends
<1>10. QED
  BY <1>2, <1>3, <1>4, <1>5, <1>6, <1>7, <1>8, <1>9

LEMMA FilterByRoutesWithHubsInv == ASSUME IInv, FilterByRoutesWithHubs PROVE IInv'
<1> USE DEF IInv
<1>1. /\ routed' \in Seq(Codes \X Codes) /\ IsInjective(routed')
      /\ ToSet(routed') = RoutedBefore(pairs, input.graph, input.hubs, i)
  <2>1. /\ pairs \in Seq(Codes \X Codes) /\ IsInjective(pairs) /\ i \in 1 .. Len(pairs)
        /\ routed \in Seq(Codes \X Codes) /\ IsInjective(routed)
        /\ ToSet(routed) = RoutedBefore(pairs, input.graph, input.hubs, i - 1)
    BY DEF FilterByRoutesWithHubs, Types, PairsInv, RoutedInv
  <2>2. routed' = WithRouted(routed, pairs[i], input.graph, input.hubs)
    BY DEF FilterByRoutesWithHubs, WithRouted
  <2>3. QED
    BY <2>1, <2>2, RouteTurn
<1>2. Types'
  BY <1>1 DEF FilterByRoutesWithHubs, Types
<1>3. Fresh'
  BY DEF FilterByRoutesWithHubs, Fresh, Places, Refused, AfterOrigins, AfterDestinations, AfterPairs, AfterRoutes, Ends
<1>4. Valid'
  BY DEF FilterByRoutesWithHubs, Valid, Places, Refused, AfterOrigins, AfterDestinations, AfterPairs, AfterRoutes, Ends
<1>5. OriginsInv'
  BY DEF FilterByRoutesWithHubs, OriginsInv, Circle, Places, Refused, AfterOrigins, AfterDestinations, AfterPairs, AfterRoutes, Ends
<1>6. DestinationsInv'
  BY DEF FilterByRoutesWithHubs, DestinationsInv, Circle, Places, Refused, AfterOrigins, AfterDestinations, AfterPairs, AfterRoutes, Ends
<1>7. PairsInv'
  BY DEF FilterByRoutesWithHubs, PairsInv, Places, Refused, AfterOrigins, AfterDestinations, AfterPairs, AfterRoutes, Ends
<1>8. RoutedInv'
  BY <1>1 DEF FilterByRoutesWithHubs, Types, RoutedInv, Places, Refused, AfterOrigins, AfterDestinations, AfterPairs, AfterRoutes, Ends
<1>9. RowsInv'
  BY DEF FilterByRoutesWithHubs, RowsInv, Places, Refused, AfterOrigins, AfterDestinations, AfterPairs, AfterRoutes, Ends
<1>10. QED
  BY <1>2, <1>3, <1>4, <1>5, <1>6, <1>7, <1>8, <1>9

LEMMA GenerateTuplesInv == ASSUME IInv, GenerateTuples PROVE IInv'
<1> USE DEF IInv
<1>1. /\ rows' \in Seq(Codes \X Codes \X Int) /\ IsInjective(rows')
      /\ ToSet(rows') = RowsBefore(routed, input.req.from, input.req.to, i)
  <2> DEFINE days == Days(routed[i], ExpandDateRange(input.req.from, input.req.to))
  <2>1. /\ routed \in Seq(Codes \X Codes) /\ IsInjective(routed) /\ i \in 1 .. Len(routed)
        /\ input.req.from \in Int /\ input.req.to \in Int /\ input.req.from <= input.req.to
        /\ rows \in Seq(Codes \X Codes \X Int) /\ IsInjective(rows)
        /\ ToSet(rows) = RowsBefore(routed, input.req.from, input.req.to, i - 1)
    BY InputTypes DEF GenerateTuples, Types, RoutedInv, RowsInv, AfterRoutes
  <2>2. rows' = rows \o days
    BY DEF GenerateTuples, Days
  <2>3. /\ rows \o days \in Seq(Codes \X Codes \X Int) /\ IsInjective(rows \o days)
        /\ ToSet(rows \o days) = RowsBefore(routed, input.req.from, input.req.to, i)
    BY <2>1, RowTurn
  <2>4. QED
    BY <2>2, <2>3
<1>2. Types'
  BY <1>1 DEF GenerateTuples, Types
<1>3. Fresh'
  BY DEF GenerateTuples, Fresh, Places, Refused, AfterOrigins, AfterDestinations, AfterPairs, AfterRoutes, Ends
<1>4. Valid'
  BY DEF GenerateTuples, Valid, Places, Refused, AfterOrigins, AfterDestinations, AfterPairs, AfterRoutes, Ends
<1>5. OriginsInv'
  BY DEF GenerateTuples, OriginsInv, Circle, Places, Refused, AfterOrigins, AfterDestinations, AfterPairs, AfterRoutes, Ends
<1>6. DestinationsInv'
  BY DEF GenerateTuples, DestinationsInv, Circle, Places, Refused, AfterOrigins, AfterDestinations, AfterPairs, AfterRoutes, Ends
<1>7. PairsInv'
  BY DEF GenerateTuples, PairsInv, Places, Refused, AfterOrigins, AfterDestinations, AfterPairs, AfterRoutes, Ends
<1>8. RoutedInv'
  BY DEF GenerateTuples, RoutedInv, Places, Refused, AfterOrigins, AfterDestinations, AfterPairs, AfterRoutes, Ends
<1>9. RowsInv'
  BY <1>1 DEF GenerateTuples, Types, RowsInv, Places, Refused, AfterOrigins, AfterDestinations, AfterPairs, AfterRoutes, Ends
<1>10. QED
  BY <1>2, <1>3, <1>4, <1>5, <1>6, <1>7, <1>8, <1>9

\* The end of a loop: what it has built for all its elements is what the next
\* one, or the reply, may rely on.
LEMMA EndLoopInv == ASSUME IInv, EndLoop PROVE IInv'
<1> USE DEF IInv
<1>1. /\ UNCHANGED <<input, k, origins, destinations, pairs, routed, rows>> /\ i' = 1
      /\ i \in Nat /\ Len(input.airports) \in Nat /\ Len(origins) \in Nat
      /\ Len(destinations) \in Nat /\ Len(pairs) \in Nat /\ Len(routed) \in Nat
  BY InputTypes DEF EndLoop, Types
<1>2. \/ /\ at = "origins" /\ at' = "destinations"
         /\ i - 1 = Len(input.airports)
      \/ /\ at = "destinations" /\ at' = "pairs"
         /\ i - 1 = Len(input.airports)
      \/ /\ at = "pairs" /\ at' = "routes"
         /\ i = Len(origins) + 1
      \/ /\ at = "routes" /\ at' = "to_before_from"
         /\ i - 1 = Len(pairs)
      \/ /\ at = "routes" /\ at' = "rows" /\ input.req.from <= input.req.to
         /\ i - 1 = Len(pairs)
      \/ /\ at = "rows" /\ at' = "too_many_pairs" /\ TooMany(rows)
         /\ i - 1 = Len(routed)
      \/ /\ at = "rows" /\ at' = "accepted" /\ ~TooMany(rows)
         /\ i - 1 = Len(routed)
  <2>1. CASE at = "origins" /\ i > Len(input.airports) /\ at' = "destinations"
    BY <2>1, <1>1 DEF OriginsInv, Circle
  <2>2. CASE at = "destinations" /\ i > Len(input.airports) /\ at' = "pairs"
    BY <2>2, <1>1 DEF DestinationsInv, Circle
  <2>3. CASE at = "pairs" /\ i > Len(origins) /\ at' = "routes"
    BY <2>3, <1>1 DEF PairsInv
  <2>4. CASE /\ at = "routes" /\ i > Len(pairs)
             /\ at' = IF input.req.to < input.req.from THEN "to_before_from" ELSE "rows"
    BY <2>4, <1>1, InputTypes DEF RoutedInv
  <2>5. CASE /\ at = "rows" /\ i > Len(routed)
             /\ at' = IF TooMany(rows) THEN "too_many_pairs" ELSE "accepted"
    BY <2>5, <1>1 DEF RowsInv
  <2>6. QED
    BY <2>1, <2>2, <2>3, <2>4, <2>5 DEF EndLoop
<1>3. i' - 1 = 0 /\ \A n \in Nat : i' <= n + 1
  BY <1>1
<1>4. ToSet(<<>>) = {}
  BY DEF ToSet
<1>5. Types'
  BY <1>1, <1>2 DEF Types, Places, Refused, AfterOrigins, AfterDestinations, AfterPairs, AfterRoutes, Ends
<1>6. Fresh'
  BY <1>1, <1>2 DEF Fresh, Places, Refused, AfterOrigins, AfterDestinations, AfterPairs, AfterRoutes, Ends
<1>7. Valid'
  BY <1>1, <1>2 DEF Valid, Places, Refused, AfterOrigins, AfterDestinations, AfterPairs, AfterRoutes, Ends
<1>8. OriginsInv'
  BY <1>1, <1>2 DEF OriginsInv, Circle, Places, Refused, AfterOrigins, AfterDestinations, AfterPairs, AfterRoutes, Ends
<1>9. DestinationsInv'
  <2>1. Near(input.airports, input.req.dest, input.req.destR, 0) = {}
    BY DEF Near
  <2>2. at = "origins" => ToSet(destinations) = {}
    BY <1>4 DEF Fresh
  <2>3. QED
    BY <1>1, <1>2, <1>3, <2>1, <2>2 DEF DestinationsInv, Circle, Places, Refused, AfterOrigins, AfterDestinations, AfterPairs, AfterRoutes, Ends
<1>10. PairsInv'
  <2>1. PairsBefore(origins, destinations, 1, 1) = {}
    BY DEF PairsBefore
  <2>2. at = "destinations" => ToSet(pairs) = {} /\ k = 1
    BY <1>4 DEF Fresh
  <2>3. PairsBefore(origins, destinations, Len(origins) + 1, k) =
            PairsBefore(origins, destinations, Len(origins) + 1, 1)
    BY <1>1 DEF PairsBefore
  <2>4. QED
    BY <1>1, <1>2, <1>3, <2>1, <2>2, <2>3 DEF PairsInv, Places, Refused, AfterOrigins, AfterDestinations, AfterPairs, AfterRoutes, Ends
<1>11. RoutedInv'
  <2>1. RoutedBefore(pairs, input.graph, input.hubs, 0) = {}
    BY DEF RoutedBefore
  <2>2. at = "pairs" => ToSet(routed) = {}
    BY <1>4 DEF Fresh, Places, Refused, AfterOrigins, AfterDestinations, AfterPairs, AfterRoutes, Ends
  <2>3. QED
    BY <1>1, <1>2, <1>3, <2>1, <2>2 DEF RoutedInv, Places, Refused, AfterOrigins, AfterDestinations, AfterPairs, AfterRoutes, Ends
<1>12. RowsInv'
  <2>1. RowsBefore(routed, input.req.from, input.req.to, 0) = {}
    BY DEF RowsBefore
  <2>2. at = "routes" => ToSet(rows) = {}
    BY <1>4 DEF Fresh, Places, Refused, AfterOrigins, AfterDestinations, AfterPairs, AfterRoutes, Ends
  <2>3. QED
    BY <1>1, <1>2, <1>3, <2>1, <2>2 DEF RowsInv, TooMany, Places, Refused, AfterOrigins, AfterDestinations, AfterPairs, AfterRoutes, Ends
<1>13. QED
  BY <1>5, <1>6, <1>7, <1>8, <1>9, <1>10, <1>11, <1>12

LEMMA StepInv == ASSUME IInv, [Next]_vars PROVE IInv'
<1>1. CASE UNCHANGED vars
  <2>1. /\ UNCHANGED <<input, at, i, k>> /\ UNCHANGED <<origins, destinations>>
        /\ UNCHANGED <<pairs, routed, rows>>
    BY <1>1 DEF vars
  <2>2. Types' /\ Fresh' /\ Valid'
    BY <2>1 DEF IInv, Types, Fresh, Valid
  <2>3. OriginsInv' /\ DestinationsInv'
    BY <2>1 DEF IInv, OriginsInv, DestinationsInv, Circle
  <2>4. PairsInv' /\ RoutedInv' /\ RowsInv'
    BY <2>1 DEF IInv, PairsInv, RoutedInv, RowsInv, TooMany
  <2>5. QED
    BY <2>2, <2>3, <2>4 DEF IInv
<1>2. QED
  BY <1>1, ValidateRequestInv, ResolveOriginsInv, ResolveDestinationsInv, GenerateAllPairsInv,
     NextOriginInv, FilterByRoutesWithHubsInv, GenerateTuplesInv, EndLoopInv DEF Next

LEMMA Invariant == Spec => []IInv
BY InitInv, StepInv, PTL DEF Spec

-----------------------------------------------------------------------------
(* The loops and the reference definition *)

\* The codes within distance are the codes at some angle.
LEMMA CircleReference ==
    ASSUME Types, NEW center \in 0 .. Circumference - 1, NEW radius \in 1 .. MaxRadius
    PROVE  Near(input.airports, center, radius, Len(input.airports)) = Reference(center, radius)
<1> DEFINE airports == input.airports
           Angle(x) == \E steps \in 0 .. radius :
                            airports[x].at \in {(center + steps) % Circumference,
                                                (center - steps) % Circumference}
<1>1. airports \in Seq([iata : Codes, at : Int]) /\ DOMAIN airports = 1 .. Len(airports)
  BY InputTypes
<1>2. radius \in Nat \ {0}
  BY TupleConstantsOK
<1>3. ASSUME NEW x \in 1 .. Len(airports)
      PROVE  airports[x].iata \in Codes /\ (Inside(center, radius, airports[x]) <=> Angle(x))
  <2>1. airports[x] \in [iata : Codes, at : Int]
    BY <1>1, ElementOfSeq
  <2>2. airports[x].iata \in Codes /\ airports[x].at \in Int
    BY <2>1
  <2>3. QED
    BY <2>2, <1>2, InsideByAngle
<1>4. Reference(center, radius) = {airports[x].iata : x \in {y \in 1 .. Len(airports) : Angle(y)}}
  BY <1>1 DEF Reference
<1> HIDE DEF Angle, airports
<1>5. Near(airports, center, radius, Len(airports)) =
        {airports[x].iata : x \in {y \in 1 .. Len(airports) : Angle(y)}}
  BY <1>3 DEF Near
<1>6. QED
  BY <1>4, <1>5 DEF airports

LEMMA LinkedNeighbours ==
    ASSUME input.graph \in SUBSET (Codes \X Codes), NEW a, NEW b
    PROVE  Linked(input.graph, a, b) <=> b \in Neighbours(a)
<1>1. ASSUME Linked(input.graph, a, b) PROVE b \in Neighbours(a)
  <2>1. CASE <<a, b>> \in input.graph
    BY <2>1 DEF Neighbours
  <2>2. CASE <<b, a>> \in input.graph
    BY <2>2 DEF Neighbours
  <2>3. QED
    BY <1>1, <2>1, <2>2 DEF Linked
<1>2. ASSUME b \in Neighbours(a) PROVE Linked(input.graph, a, b)
  <2>1. PICK r \in input.graph : r = <<a, b>> \/ r = <<b, a>>
    <3>1. PICK r \in input.graph : \/ r[1] = a /\ r[2] = b
                                   \/ r[2] = a /\ r[1] = b
      BY <1>2 DEF Neighbours
    <3>2. r = <<r[1], r[2]>>
      OBVIOUS
    <3>3. QED
      BY <3>1, <3>2
  <2>2. QED
    BY <2>1 DEF Linked
<1>3. QED
  BY <1>1, <1>2

\* A pair is kept exactly when its ends are neighbours or share a hub.
LEMMA RoutedNeighbours ==
    ASSUME input.graph \in SUBSET (Codes \X Codes), NEW p
    PROVE  Routed(p, input.graph, input.hubs) <=>
            \/ p[2] \in Neighbours(p[1])
            \/ (Neighbours(p[1]) \cap Neighbours(p[2]) \cap input.hubs) \ {p[1], p[2]} # {}
<1>1. ASSUME NEW h
      PROVE  /\ Linked(input.graph, p[1], h) <=> h \in Neighbours(p[1])
             /\ Linked(input.graph, h, p[2]) <=> h \in Neighbours(p[2])
  <2>1. Linked(input.graph, h, p[2]) <=> Linked(input.graph, p[2], h)
    BY DEF Linked
  <2>2. QED
    BY <2>1, LinkedNeighbours
<1>2. ReachableViaHub(p[1], p[2], input.graph, input.hubs) <=>
        (Neighbours(p[1]) \cap Neighbours(p[2]) \cap input.hubs) \ {p[1], p[2]} # {}
  BY <1>1 DEF ReachableViaHub
<1>3. QED
  BY <1>1, <1>2 DEF Routed

\* What the rows are once every loop has ended.
LEMMA RowsReference ==
    ASSUME IInv, at \in Ends
    PROVE  ToSet(rows) = ReferenceRows
<1> USE DEF IInv
<1> DEFINE O == Reference(input.req.origin, input.req.originR)
           D == Reference(input.req.dest, input.req.destR)
           days == input.req.from .. input.req.to
           OK(p) == \/ p[2] \in Neighbours(p[1])
                    \/ (Neighbours(p[1]) \cap Neighbours(p[2]) \cap input.hubs)
                            \ {p[1], p[2]} # {}
<1>1. /\ input.req.origin \in 0 .. Circumference - 1 /\ input.req.dest \in 0 .. Circumference - 1
      /\ input.req.originR \in 1 .. MaxRadius /\ input.req.destR \in 1 .. MaxRadius
  BY DEF Valid, ValidRequest, ValidPoint, AfterOrigins, AfterDestinations, AfterPairs,
         AfterRoutes, Ends
<1>2. ToSet(origins) = O
  BY <1>1, CircleReference DEF OriginsInv, Circle, AfterOrigins, AfterDestinations, AfterPairs,
         AfterRoutes, Ends
<1>3. ToSet(destinations) = D
  BY <1>1, CircleReference DEF DestinationsInv, Circle, AfterDestinations, AfterPairs,
         AfterRoutes, Ends
<1>4. O \subseteq Codes /\ D \subseteq Codes
  BY <1>2, <1>3 DEF Types, ToSet
<1> HIDE DEF O, D
<1>5. ToSet(pairs) = {p \in O \X D : p[1] # p[2]}
  <2>1. ToSet(pairs) = PairsBefore(origins, destinations, Len(origins) + 1, 1)
    BY DEF PairsInv, AfterPairs, AfterRoutes, Ends
  <2>2. /\ Len(origins) \in Nat /\ DOMAIN origins = 1 .. Len(origins)
        /\ DOMAIN destinations = 1 .. Len(destinations)
    BY DEF Types
  <2>3. \A c : c \in O <=> \E x \in 1 .. Len(origins) : c = origins[x]
    BY <1>2, <2>2 DEF ToSet
  <2>4. \A c : c \in D <=> \E x \in 1 .. Len(destinations) : c = destinations[x]
    BY <1>3, <2>2 DEF ToSet
  <2>5. \A x \in 1 .. Len(origins) : x < Len(origins) + 1
    BY <2>2
  <2>6. \A p \in Codes \X Codes :
            p \in PairsBefore(origins, destinations, Len(origins) + 1, 1) <=>
                p[1] # p[2] /\ p[1] \in O /\ p[2] \in D
    BY <2>3, <2>4, <2>5 DEF PairsBefore
  <2>7. QED
    BY <1>4, <2>1, <2>6 DEF PairsBefore
<1>6. ToSet(routed) = {p \in O \X D : p[1] # p[2] /\ OK(p)}
  <2>1. ToSet(routed) = RoutedBefore(pairs, input.graph, input.hubs, Len(pairs))
    BY DEF RoutedInv, AfterRoutes, Ends
  <2>2. DOMAIN pairs = 1 .. Len(pairs) /\ ToSet(pairs) \subseteq Codes \X Codes
    BY DEF Types, ToSet
  <2>3. \A p : Routed(p, input.graph, input.hubs) <=> OK(p)
    BY InputTypes, RoutedNeighbours
  <2> HIDE DEF OK
  <2>4. RoutedBefore(pairs, input.graph, input.hubs, Len(pairs)) = {p \in ToSet(pairs) : OK(p)}
    BY <2>2, <2>3 DEF RoutedBefore, ToSet
  <2>5. QED
    BY <1>5, <2>1, <2>4
<1>7. ToSet(rows) = {row \in O \X D \X days : <<row[1], row[2]>> \in ToSet(routed)}
  <2>1. ToSet(rows) = RowsBefore(routed, input.req.from, input.req.to, Len(routed))
    BY DEF RowsInv
  <2>2. DOMAIN routed = 1 .. Len(routed)
    BY DEF Types
  <2>3. \A row : <<row[1], row[2]>> \in ToSet(routed) <=>
                    \E x \in 1 .. Len(routed) : routed[x] = <<row[1], row[2]>>
    BY <2>2 DEF ToSet
  <2>4. \A row : <<row[1], row[2]>> \in ToSet(routed) => row[1] \in O /\ row[2] \in D
    BY <1>6
  <2>5. QED
    BY <1>4, <2>1, <2>3, <2>4 DEF RowsBefore
<1>8. \A row \in O \X D \X days :
            <<row[1], row[2]>> \in ToSet(routed) <=> row[1] # row[2] /\ OK(row)
  BY <1>6
<1>9. ReferenceRows = {row \in O \X D \X days : row[1] # row[2] /\ OK(row)}
  BY DEF ReferenceRows, O, D
<1> HIDE DEF OK
<1>10. QED
  BY <1>7, <1>8, <1>9

-----------------------------------------------------------------------------
(* Theorems *)

\* A job that Submit lets through has exactly the rows its request asks for, as
\* the reference definition states them: for every airport file, route graph,
\* hub list, request and limit.
THEOREM RowsAreExact == Spec => []RowsExact
<1>1. IInv => RowsExact
  BY RowsReference DEF RowsExact, Accepted, RowSet, Ends
<1>2. QED
  BY <1>1, Invariant, PTL

\* Those rows are all different, whatever the file repeats and however the
\* circles overlap: search_job_results needs no key that would refuse a second.
THEOREM RowsAreDistinct == Spec => []RowsDistinct
<1>1. IInv => RowsDistinct
  BY CountSet DEF IInv, Types, RowsInv, RowsDistinct, RowSet
<1>2. QED
  BY <1>1, Invariant, PTL

\* The limit refuses a request exactly when the rows it asks for are more than
\* maxPairs, and never because of a row counted twice.
THEOREM LimitIsExact == Spec => []LimitExact
<1>1. IInv => LimitExact
  <2>1. SUFFICES ASSUME IInv, at \in Ends
                 PROVE  at = "too_many_pairs" <=> Cardinality(ReferenceRows) > MaxPairs
    BY DEF LimitExact, Ends
  <2>2. Cardinality(ToSet(rows)) = Len(rows)
    BY <2>1, CountSet DEF IInv, Types, RowsInv
  <2>3. Cardinality(ReferenceRows) = Len(rows)
    BY <2>1, <2>2, RowsReference
  <2>4. at = "too_many_pairs" <=> Len(rows) > MaxPairs
    BY <2>1 DEF IInv, RowsInv, TooMany, Ends
  <2>5. QED
    BY <2>3, <2>4
<1>2. QED
  BY <1>1, Invariant, PTL
=============================================================================
