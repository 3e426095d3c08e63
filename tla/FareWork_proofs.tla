-------------------------- MODULE FareWork_proofs --------------------------
(***************************************************************************)
(* Proofs about RateLimiter, for any number of callers and any limits, and *)
(* about FareWork, which composes it with the fare provider, for any keys. *)
(***************************************************************************)
EXTENDS FareWork, FiniteSetTheorems, TLAPS

-----------------------------------------------------------------------------
(* The limiter *)

\* The counter is exact between the two halves of Wait and of Release, and no
\* unit is lost or made up.
IInv ==
    /\ TypeOK
    /\ inflight = Cardinality(Counted)
    /\ UnitsAccounted

\* Callers are finitely many, so both sets can be counted, and a caller that is
\* counted owns a unit.
LEMMA Counting ==
    /\ IsFiniteSet(Owners) /\ Cardinality(Owners) \in Nat
    /\ IsFiniteSet(Counted) /\ Cardinality(Counted) \in Nat
    /\ Cardinality(Counted) <= Cardinality(Owners)
<1>1. Owners \subseteq Callers /\ Counted \subseteq Owners
  BY DEF Owners, Counted
<1>2. IsFiniteSet(Owners)
  BY <1>1, LimitsOK, FS_Subset
<1>3. IsFiniteSet(Counted) /\ Cardinality(Counted) <= Cardinality(Owners)
  BY <1>1, <1>2, FS_Subset
<1> QED BY <1>2, <1>3, FS_CardinalityType

\* InFlight never exceeds the units that are taken.
LEMMA Bounded == IInv => InFlightBounded
<1> SUFFICES ASSUME IInv PROVE InFlightBounded OBVIOUS
<1>1. Cardinality(Counted) <= Cardinality(Owners) /\ Cardinality(Owners) \in Nat
      /\ Cardinality(Counted) \in Nat
  BY Counting
<1>2. /\ inflight = Cardinality(Counted)
      /\ free + Cardinality(Owners) = MaxConcurrent
      /\ free \in Nat
  BY LimitsOK DEF IInv, UnitsAccounted, TypeOK
<1> QED BY <1>1, <1>2, LimitsOK DEF InFlightBounded

\* A step that leaves both sets and both numbers alone.
LEMMA SameSets ==
    ASSUME IInv, TypeOK', Owners' = Owners, Counted' = Counted, UNCHANGED <<free, inflight>>
    PROVE  IInv'
BY DEF IInv, UnitsAccounted

\* Every step of every caller preserves the invariant.
LEMMA StepInv == IInv /\ [Next]_vars => IInv'
<1> SUFFICES ASSUME IInv, [Next]_vars PROVE IInv' OBVIOUS
<1>0. TypeOK
  BY DEF IInv
<1>1. CASE UNCHANGED vars
  <2>1. TypeOK' /\ Owners' = Owners /\ Counted' = Counted
    BY <1>0, <1>1 DEF vars, TypeOK, Owners, Counted
  <2> QED BY <1>1, <2>1, SameSets DEF vars
<1>2. CASE Refill
  <2>1. TypeOK' /\ Owners' = Owners /\ Counted' = Counted
    BY <1>0, <1>2, LimitsOK DEF Refill, TypeOK, Owners, Counted
  <2> QED BY <1>2, <2>1, SameSets DEF Refill
<1>3. ASSUME NEW c \in Callers, Start(c) \/ Cancel(c) \/ TakeToken(c) \/ WaitError(c) \/ TooLate(c)
      PROVE  IInv'
  <2>1. TypeOK'
    BY <1>0, <1>3, LimitsOK
    DEF Start, Cancel, TakeToken, WaitError, TooLate, Return, At, Go, TypeOK, PC
  <2>2. Owners' = Owners /\ Counted' = Counted
    BY <1>0, <1>3
    DEF Start, Cancel, TakeToken, WaitError, TooLate, Return, At, Go, TypeOK, Owners, Counted
  <2>3. UNCHANGED <<free, inflight>>
    BY <1>3 DEF Start, Cancel, TakeToken, WaitError, TooLate
  <2> QED BY <2>1, <2>2, <2>3, SameSets
<1>4. ASSUME NEW c \in Callers, Acquire(c) PROVE IInv'
  <2>1. c \notin Owners /\ Owners' = Owners \cup {c} /\ Counted' = Counted
    BY <1>0, <1>4 DEF Acquire, At, Go, TypeOK, Owners, Counted
  <2>2. Cardinality(Owners') = Cardinality(Owners) + 1
    BY <2>1, Counting, FS_AddElement
  <2>3. TypeOK'
    BY <1>0, <1>4, LimitsOK DEF Acquire, At, Go, TypeOK, PC
  <2>4. UnitsAccounted'
    BY <1>0, <1>4, <2>2, Counting, LimitsOK DEF Acquire, IInv, UnitsAccounted, TypeOK
  <2> QED BY <1>4, <2>1, <2>3, <2>4 DEF Acquire, IInv
<1>5. ASSUME NEW c \in Callers, CountUp(c) PROVE IInv'
  <2>1. c \notin Counted /\ Counted' = Counted \cup {c} /\ Owners' = Owners
    BY <1>0, <1>5 DEF CountUp, At, Go, TypeOK, Owners, Counted
  <2>2. Cardinality(Counted') = Cardinality(Counted) + 1
    BY <2>1, Counting, FS_AddElement
  <2>3. TypeOK'
    BY <1>0, <1>5 DEF CountUp, At, Go, TypeOK, PC
  <2> QED BY <1>5, <2>1, <2>2, <2>3 DEF CountUp, IInv, UnitsAccounted
<1>6. ASSUME NEW c \in Callers, CountDown(c) PROVE IInv'
  <2>1. c \in Counted /\ Counted' = Counted \ {c} /\ Owners' = Owners
    BY <1>0, <1>6 DEF CountDown, At, Go, TypeOK, Owners, Counted
  <2>2. Cardinality(Counted') = Cardinality(Counted) - 1 /\ Cardinality(Counted') \in Nat
    <3>1. IsFiniteSet(Counted \ {c}) /\ Cardinality(Counted \ {c}) = Cardinality(Counted) - 1
      BY <2>1, Counting, FS_RemoveElement
    <3> QED BY <2>1, <3>1, FS_CardinalityType
  <2>3. inflight' = inflight - 1 /\ inflight' \in Nat
    BY <1>6, <2>2 DEF CountDown, IInv
  <2>4. TypeOK'
    BY <1>0, <1>6, <2>3 DEF CountDown, At, Go, TypeOK, PC
  <2> QED BY <1>6, <2>1, <2>2, <2>3, <2>4 DEF CountDown, IInv, UnitsAccounted
<1>7. ASSUME NEW c \in Callers, SemRelease(c) PROVE IInv'
  <2>1. c \in Owners /\ Owners' = Owners \ {c} /\ Counted' = Counted
    BY <1>0, <1>7 DEF SemRelease, Return, At, Go, TypeOK, Owners, Counted
  <2>2. Cardinality(Owners') = Cardinality(Owners) - 1 /\ Cardinality(Owners') \in Nat
    <3>1. IsFiniteSet(Owners \ {c}) /\ Cardinality(Owners \ {c}) = Cardinality(Owners) - 1
      BY <2>1, Counting, FS_RemoveElement
    <3> QED BY <2>1, <3>1, FS_CardinalityType
  <2>3. UnitsAccounted'
    BY <1>0, <1>7, <2>2, Counting, LimitsOK DEF SemRelease, IInv, UnitsAccounted, TypeOK
  <2>4. free' \in 0 .. MaxConcurrent
    BY <1>0, <1>7, <2>2, <2>3, LimitsOK DEF SemRelease, UnitsAccounted, TypeOK
  <2>5. TypeOK'
    BY <1>0, <1>7, <2>4 DEF SemRelease, Return, At, Go, TypeOK, PC
  <2> QED BY <1>7, <2>1, <2>3, <2>5 DEF SemRelease, IInv
<1> QED BY <1>1, <1>2, <1>3, <1>4, <1>5, <1>6, <1>7 DEF Next, Wait, Release

\* Nobody waits, nothing is counted and all units are free at the start.
LEMMA InitInv == Init => IInv
<1> SUFFICES ASSUME Init PROVE IInv OBVIOUS
<1>1. Owners = {} /\ Counted = {}
  BY DEF Init, Owners, Counted
<1>2. TypeOK
  BY LimitsOK DEF Init, TypeOK, PC
<1> QED BY <1>1, <1>2, FS_EmptySet, LimitsOK DEF Init, IInv, UnitsAccounted

\* For any number of callers and any limits, InFlight is at most MaxConcurrent
\* at every instant: the order of the two halves of Release is what makes it so.
THEOREM InFlightIsBounded == Spec => []InFlightBounded
<1>1. Spec => []IInv
  BY InitInv, StepInv, PTL DEF Spec
<1> QED BY <1>1, Bounded, PTL

\* Wait and Release neither leak nor invent units of the semaphore.
THEOREM UnitsAreAccounted == Spec => []UnitsAccounted
<1>1. Spec => []IInv
  BY InitInv, StepInv, PTL DEF Spec
<1>2. IInv => UnitsAccounted BY DEF IInv
<1> QED BY <1>1, <1>2, PTL

-----------------------------------------------------------------------------
(* The limiter inside the composition *)

\* Whatever Work does is a step of the limiter, or does not touch it.
LEMMA LimiterStep == [WorkNext]_workVars => [Next]_vars
<1> SUFFICES ASSUME [WorkNext]_workVars PROVE [Next]_vars OBVIOUS
<1>1. CASE UNCHANGED workVars
  BY <1>1 DEF workVars
<1>2. ASSUME NEW c \in Callers, Limit(c) PROVE Next
  BY <1>2 DEF Limit, Next
<1>3. ASSUME NEW c \in Callers, Search(c) \/ Record(c) PROVE UNCHANGED vars
  BY <1>3 DEF Search, Record
<1>4. ASSUME NEW c \in Callers, Leave(c) PROVE Next
  BY <1>4 DEF Leave, Next
<1>5. ASSUME NEW k \in Keys, F!Expire(k) /\ UNCHANGED <<vars, row>> PROVE UNCHANGED vars
  BY <1>5
<1>6. CASE Refill
  BY <1>6 DEF Next
<1> QED BY <1>1, <1>2, <1>3, <1>4, <1>5, <1>6 DEF WorkNext

\* The composition implements the limiter: what is proved of RateLimiter holds of
\* it inside FareWorker.Work.
THEOREM WorkUsesTheLimiter == WorkSpec => Spec
<1>1. WorkInit => Init
  BY DEF WorkInit
<1> QED BY <1>1, LimiterStep, PTL DEF WorkSpec, Spec

-----------------------------------------------------------------------------
(* The inductive invariant *)

\* A search is under way only between CountUp and the end of Work.
Inside(c) == F!SearchAt(c, "idle") \/ (At(c, "searching") /\ row[c] = "open")

\* A list on its way to the cache or to the row is the provider's word about the
\* key, unless the context is over, and then it goes nowhere.
Answered(c) ==
    /\ ~F!SearchAt(c, "idle") => search[c].key \in Keys
    /\ \/ F!SearchAt(c, "set")
       \/ F!SearchAt(c, "done") /\ search[c].err = "none"
       => c \in canceled \/ F!Backed(search[c].key, search[c].list)
    /\ F!SearchAt(c, "done") /\ search[c].err = "canceled" => c \in canceled
    /\ IF F!SearchAt(c, "done") THEN search[c].err \notin {"some", "empty"}
                                 ELSE search[c].err = "none"

Rows == {"open", "complete", "dead_letter", "retried"}

WInv ==
    /\ WorkTypeOK
    /\ \A c \in Callers : Inside(c) /\ Answered(c)
    /\ CacheBacked

\* One key, or one search, of a well-typed state.
LEMMA Typed ==
    ASSUME F!SearchTypeOK, NEW c \in Callers
    PROVE  /\ search[c].key \in Keys \cup {None}
           /\ search[c].list \in F!Lists
           /\ search[c].err \in {"none", "undecodable"} \cup F!Replies(TRUE) \cup F!Replies(FALSE)
           /\ search[c].pc \in {"idle", "get", "exact", "month", "set", "done"}
BY DEF F!SearchTypeOK

LEMMA ListTypes ==
    /\ F!NoList \in F!Lists
    /\ \A k \in Keys, d \in {"unasked", "some", "empty"},
          m \in {"unasked", "some", "empty", "down", "cut"} : F!List(k, d, m) \in F!Lists
BY DEF F!NoList, F!List, F!Lists

-----------------------------------------------------------------------------
(* The steps of a search *)

\* What holds of the other callers and of the keys is not the business of a step
\* that changes the search of c and nothing else.
LEMMA OneSearch ==
    ASSUME WInv, NEW c \in Callers, UNCHANGED <<vars, row, cache>>,
           NEW s, search' = [search EXCEPT ![c] = s], F!SearchTypeOK',
           Inside(c)', Answered(c)'
    PROVE  WInv'
<1>1. WorkTypeOK'
  BY DEF WInv, WorkTypeOK, TypeOK, vars
<1>2. \A d \in Callers : Inside(d)' /\ Answered(d)'
  <2> TAKE d \in Callers
  <2>1. CASE d = c BY <2>1
  <2>2. CASE d # c
    <3>1. search'[d] = search[d]
      BY <2>2 DEF WInv, WorkTypeOK, F!SearchTypeOK
    <3> QED BY <3>1 DEF WInv, Inside, Answered, F!SearchAt, At, vars
  <2> QED BY <2>1, <2>2
<1>3. CacheBacked'
  BY DEF WInv, CacheBacked
<1> QED BY <1>1, <1>2, <1>3 DEF WInv

Errors   == {"none", "undecodable"} \cup F!Replies(TRUE) \cup F!Replies(FALSE)
Searches == [pc : {"idle", "get", "exact", "month", "set", "done"}, key : Keys \cup {None},
             list : F!Lists, err : Errors]

\* A search record that may replace that of a caller.
Fits(c, s) ==
    /\ s \in Searches /\ s.pc # "idle" /\ s.key \in Keys
    /\ s.pc = "set" \/ (s.pc = "done" /\ s.err = "none")
       => c \in canceled \/ F!Backed(s.key, s.list)
    /\ s.pc = "done" /\ s.err = "canceled" => c \in canceled
    /\ IF s.pc = "done" THEN s.err \notin {"some", "empty"} ELSE s.err = "none"

LEMMA Fitting ==
    ASSUME WInv, NEW c \in Callers, At(c, "searching"), row[c] = "open",
           UNCHANGED <<vars, row, cache>>,
           NEW s, Fits(c, s), search' = [search EXCEPT ![c] = s]
    PROVE  WInv'
<1>1. search \in [Callers -> Searches] /\ s \in Searches
  BY DEF WInv, WorkTypeOK, F!SearchTypeOK, Searches, Errors, Fits
<1>2. search'[c] = s /\ search' \in [Callers -> Searches]
  BY <1>1
<1>3. F!SearchTypeOK'
  BY <1>2 DEF WInv, WorkTypeOK, F!SearchTypeOK, Searches, Errors, F!Lists, F!Replies
<1>4. Inside(c)' /\ Answered(c)'
  BY <1>2 DEF Inside, Answered, F!SearchAt, At, vars, Fits, F!Backed
<1> QED BY <1>3, <1>4, OneSearch

\* Begin.
LEMMA BeginStep ==
    ASSUME WInv, NEW c \in Callers, At(c, "searching"), row[c] = "open",
           UNCHANGED <<vars, row>>, F!Begin(c)
    PROVE  WInv'
<1>1. PICK k \in Keys :
        search' = [search EXCEPT ![c] = [F!Idle EXCEPT !.pc = "get", !.key = k]]
  BY DEF F!Begin
<1> DEFINE s == [F!Idle EXCEPT !.pc = "get", !.key = k]
<1>2. F!Idle \in Searches /\ F!Idle.err = "none"
  BY ListTypes DEF F!Idle, Searches, Errors
<1>3. s \in Searches /\ s.pc = "get" /\ s.key = k /\ s.err = "none"
  BY <1>2 DEF Searches
<1>4. Fits(c, s)
  BY <1>3 DEF Fits
<1> QED BY <1>1, <1>4, Fitting DEF F!Begin

\* A step that only moves the search on, or fails, or returns what it has.
LEMMA GotoStep ==
    ASSUME WInv, NEW c \in Callers, At(c, "searching"), row[c] = "open",
           UNCHANGED <<vars, row, cache>>, ~F!SearchAt(c, "idle"),
           ~F!SearchAt(c, "done"),
           NEW p \in {"exact", "month"}, F!Goto(c, p)
    PROVE  WInv'
<1> DEFINE s == [search[c] EXCEPT !.pc = p]
<1>1. search[c] \in Searches /\ search[c].key \in Keys /\ search[c].err = "none"
  BY DEF WInv, WorkTypeOK, F!SearchTypeOK, Searches, Errors, Answered
<1>2. s \in Searches /\ s.pc = p /\ s.key = search[c].key /\ s.err = "none"
  BY <1>1 DEF Searches
<1>3. Fits(c, s)
  BY <1>1, <1>2 DEF Fits
<1>4. search' = [search EXCEPT ![c] = s]
  BY DEF F!Goto
<1> QED BY <1>3, <1>4, Fitting

LEMMA ReturnStep ==
    ASSUME WInv, NEW c \in Callers, At(c, "searching"), row[c] = "open",
           UNCHANGED <<vars, row, cache>>, ~F!SearchAt(c, "idle"),
           NEW l \in F!Lists, NEW e \in Errors \ {"some", "empty"}, F!Return(c, l, e),
           e = "none" => F!Backed(search[c].key, l),
           e = "canceled" => c \in canceled
    PROVE  WInv'
<1> DEFINE s == [search[c] EXCEPT !.pc = "done", !.list = l, !.err = e]
<1>1. search[c] \in Searches /\ search[c].key \in Keys
  BY DEF WInv, WorkTypeOK, F!SearchTypeOK, Searches, Errors, Answered
<1>2. /\ s \in Searches /\ s.pc = "done" /\ s.key = search[c].key
      /\ s.list = l /\ s.err = e
  BY <1>1 DEF Searches
<1>3. Fits(c, s)
  BY <1>1, <1>2 DEF Fits
<1>4. search' = [search EXCEPT ![c] = s]
  BY DEF F!Return
<1> QED BY <1>3, <1>4, Fitting

\* A reply that becomes a list: backed, or the context is over.
LEMMA FetchedStep ==
    ASSUME WInv, NEW c \in Callers, At(c, "searching"), row[c] = "open",
           UNCHANGED <<vars, row, cache>>, ~F!SearchAt(c, "idle"),
           ~F!SearchAt(c, "done"),
           NEW d \in {"some", "empty"}, NEW m \in {"unasked", "some", "empty", "down", "cut"},
           F!Fetched(c, d, m),
           d = "empty" => m \in {"some", "empty", "down"} \/ c \in canceled
    PROVE  WInv'
<1> DEFINE l == F!List(search[c].key, d, m)
           s == [search[c] EXCEPT !.pc = "set", !.list = l]
<1>1. search[c] \in Searches /\ search[c].key \in Keys /\ search[c].err = "none"
  BY DEF WInv, WorkTypeOK, F!SearchTypeOK, Searches, Errors, Answered
<1>2. l \in F!Lists /\ (c \in canceled \/ F!Backed(search[c].key, l))
  BY <1>1, ListTypes DEF F!List, F!Backed
<1>3. /\ s \in Searches /\ s.pc = "set" /\ s.key = search[c].key /\ s.list = l
      /\ s.err = "none"
  BY <1>1, <1>2 DEF Searches
<1>4. Fits(c, s)
  BY <1>1, <1>2, <1>3 DEF Fits
<1>5. search' = [search EXCEPT ![c] = s]
  BY DEF F!Fetched
<1> QED BY <1>4, <1>5, Fitting

\* CacheGet: a hit is the provider's word about the key, by CacheBacked.
LEMMA CacheGetStep ==
    ASSUME WInv, NEW c \in Callers, At(c, "searching"), row[c] = "open",
           UNCHANGED <<vars, row>>, F!CacheGet(c, Live(c))
    PROVE  WInv'
<1> DEFINE entry == cache[search[c].key]
<1>1. /\ UNCHANGED cache /\ search[c].key \in Keys
      /\ ~F!SearchAt(c, "idle") /\ ~F!SearchAt(c, "done")
  BY DEF F!CacheGet, F!SearchAt, WInv, Answered
<1>2. entry \in F!Lists /\ (entry # F!NoList => F!Backed(search[c].key, entry))
  BY <1>1 DEF WInv, WorkTypeOK, F!SearchTypeOK, CacheBacked
<1>3. CASE entry # F!NoList /\ F!Return(c, entry, "none")
  <2>1. "none" \in Errors \ {"some", "empty"} /\ F!Backed(search[c].key, entry)
    BY <1>2, <1>3 DEF Errors
  <2> HIDE DEF entry
  <2> QED BY <1>1, <1>2, <1>3, <2>1, ReturnStep
<1>4. CASE F!Return(c, F!NoList, "undecodable")
  BY <1>1, <1>4, ListTypes, ReturnStep DEF Errors
<1>5. CASE F!Goto(c, "exact")
  BY <1>1, <1>5, GotoStep
<1> QED BY <1>3, <1>4, <1>5 DEF F!CacheGet

\* An error of the provider; the error of a context only when that is over.
LEMMA FailedStep ==
    ASSUME WInv, NEW c \in Callers, At(c, "searching"), row[c] = "open",
           UNCHANGED <<vars, row, cache>>, ~F!SearchAt(c, "idle"),
           NEW a \in F!Replies(Live(c)) \ {"some", "empty"}, F!Return(c, F!NoList, a)
    PROVE  WInv'
<1>1. a \in Errors \ {"some", "empty"} /\ a # "none" /\ (a = "canceled" => c \in canceled)
  BY DEF F!Replies, Errors, Live
<1> QED BY <1>1, ListTypes, ReturnStep

LEMMA SearchExactStep ==
    ASSUME WInv, NEW c \in Callers, At(c, "searching"), row[c] = "open",
           UNCHANGED <<vars, row>>, F!SearchExact(c, Live(c))
    PROVE  WInv'
<1>1. UNCHANGED cache /\ ~F!SearchAt(c, "idle") /\ ~F!SearchAt(c, "done")
  BY DEF F!SearchExact, F!SearchAt
<1>2. PICK a \in F!Replies(Live(c)) :
        \/ a = "some" /\ F!Fetched(c, a, "unasked")
        \/ a = "empty" /\ F!Goto(c, "month")
        \/ a \notin {"some", "empty"} /\ F!Return(c, F!NoList, a)
  BY DEF F!SearchExact
<1>3. CASE a = "some" /\ F!Fetched(c, a, "unasked")
  BY <1>1, <1>3, FetchedStep
<1>4. CASE a = "empty" /\ F!Goto(c, "month")
  BY <1>1, <1>4, GotoStep
<1>5. CASE a \notin {"some", "empty"} /\ F!Return(c, F!NoList, a)
  BY <1>1, <1>5, FailedStep
<1> QED BY <1>2, <1>3, <1>4, <1>5

\* The month: a body that was cut short is taken for an outage, but then the
\* context is over.
LEMMA SearchMonthStep ==
    ASSUME WInv, NEW c \in Callers, At(c, "searching"), row[c] = "open",
           UNCHANGED <<vars, row>>, F!SearchMonth(c, Live(c))
    PROVE  WInv'
<1>1. UNCHANGED cache /\ ~F!SearchAt(c, "idle") /\ ~F!SearchAt(c, "done")
  BY DEF F!SearchMonth, F!SearchAt
<1>2. PICK a \in F!Replies(Live(c)) :
        \/ a \in {"some", "empty", "down", "cut"} /\ F!Fetched(c, "empty", a)
        \/ /\ a \in {"auth", "invalid", "rate_limited", "canceled"}
           /\ F!Return(c, F!NoList, a)
  BY DEF F!SearchMonth
<1>3. CASE a \in {"some", "empty", "down", "cut"} /\ F!Fetched(c, "empty", a)
  <2>1. a \in {"some", "empty", "down"} \/ c \in canceled
    BY <1>2, <1>3 DEF F!Replies, Live
  <2> QED BY <1>1, <1>3, <2>1, FetchedStep
<1>4. CASE a \in {"auth", "invalid", "rate_limited", "canceled"} /\ F!Return(c, F!NoList, a)
  BY <1>1, <1>4, FailedStep
<1> QED BY <1>2, <1>3, <1>4

\* CacheSet: what is written is backed, for a dead context writes nothing.
LEMMA CacheSetStep ==
    ASSUME WInv, NEW c \in Callers, At(c, "searching"), row[c] = "open",
           UNCHANGED <<vars, row>>, F!CacheSet(c, Live(c))
    PROVE  WInv'
<1> DEFINE k == search[c].key
           l == search[c].list
<1>1. F!SearchAt(c, "set") /\ k \in Keys /\ l \in F!Lists /\ F!Goto(c, "done")
  BY DEF F!CacheSet, F!SearchAt, WInv, Answered, WorkTypeOK, F!SearchTypeOK
<1>2. search \in [Callers -> Searches] /\ cache \in [Keys -> F!Lists]
  BY DEF WInv, WorkTypeOK, F!SearchTypeOK, Searches, Errors
<1>3. CacheBacked' /\ cache' \in [Keys -> F!Lists]
  <2>1. CASE Live(c) /\ cache' = [cache EXCEPT ![k] = l]
    <3>1. F!Backed(k, l)
      BY <1>1, <2>1 DEF WInv, Answered, Live
    <3> QED BY <1>1, <1>2, <2>1, <3>1 DEF WInv, CacheBacked, F!Backed
  <2>2. CASE UNCHANGED cache
    BY <1>2, <2>2 DEF WInv, CacheBacked
  <2> QED BY <2>1, <2>2 DEF F!CacheSet
<1> DEFINE s == [search[c] EXCEPT !.pc = "done"]
<1>4. /\ s \in Searches /\ s.pc = "done" /\ s.key = k /\ s.list = l
      /\ s.err = search[c].err
  BY <1>2 DEF Searches
<1>5. search' = [search EXCEPT ![c] = s]
  BY <1>1 DEF F!Goto
<1>6. search' \in [Callers -> Searches] /\ search'[c] = s
  BY <1>2, <1>4, <1>5
<1>7. WorkTypeOK'
  BY <1>3, <1>6 DEF WInv, WorkTypeOK, TypeOK, vars, F!SearchTypeOK, Searches, Errors, F!Lists,
                    F!Replies
<1>8. \A d \in Callers : Inside(d)' /\ Answered(d)'
  <2> TAKE d \in Callers
  <2>1. CASE d = c
    <3>1. Answered(c)'
      BY <1>1, <1>4, <1>6 DEF Answered, F!SearchAt, vars, F!Backed, WInv
    <3>2. Inside(c)'
      BY DEF Inside, At, vars
    <3> QED BY <2>1, <3>1, <3>2
  <2>2. CASE d # c
    <3>1. search'[d] = search[d]
      BY <1>2, <1>5, <2>2
    <3> QED BY <3>1 DEF WInv, Inside, Answered, F!SearchAt, At, vars
  <2> QED BY <2>1, <2>2
<1> QED BY <1>3, <1>7, <1>8 DEF WInv

-----------------------------------------------------------------------------
(* The steps of Work around the search *)

\* While c is not in its search, the steps of c are nobody else's business.
LEMMA Aside ==
    ASSUME WInv, NEW c \in Callers, F!SearchAt(c, "idle"), UNCHANGED <<cache, search>>,
           TypeOK', row' \in [Callers -> Rows],
           \A d \in Callers \ {c} : /\ pc'[d] = pc[d] /\ row'[d] = row[d]
                                    /\ d \in canceled' <=> d \in canceled
    PROVE  WInv'
<1>1. WorkTypeOK' /\ CacheBacked'
  BY DEF WInv, WorkTypeOK, F!SearchTypeOK, CacheBacked, Rows
<1>2. ASSUME NEW d \in Callers, d # c PROVE Inside(d)' /\ Answered(d)'
  BY <1>2 DEF WInv, Inside, Answered, F!SearchAt, At
<1>3. Inside(c)' /\ Answered(c)'
  BY DEF WInv, Inside, Answered, F!SearchAt
<1> QED BY <1>1, <1>2, <1>3 DEF WInv

\* Nobody searches before CountUp.
LEMMA NotSearching ==
    ASSUME WInv, NEW c \in Callers, ~At(c, "searching") \/ row[c] # "open"
    PROVE  F!SearchAt(c, "idle")
BY DEF WInv, Inside

\* The limiter keeps its own invariant through every step of Work.
LEMMA LimitStep ==
    ASSUME WInv, TypeOK', NEW c \in Callers, Limit(c)
    PROVE  WInv'
<1>1. /\ pc \in [Callers -> PC] /\ canceled \subseteq Callers
      /\ row \in [Callers -> Rows] /\ UNCHANGED <<cache, search, row>>
  BY DEF WInv, WorkTypeOK, TypeOK, Rows, Limit, fareVars
<1>2. CASE Cancel(c)
  <2>1. UNCHANGED pc /\ canceled' = canceled \cup {c}
    BY <1>2 DEF Cancel
  <2>2. WorkTypeOK' /\ CacheBacked'
    BY <1>1 DEF WInv, WorkTypeOK, F!SearchTypeOK, CacheBacked, Rows
  <2>3. \A d \in Callers : Inside(d)' /\ Answered(d)'
    BY <1>1, <2>1 DEF WInv, Inside, Answered, F!SearchAt, At
  <2> QED BY <2>2, <2>3 DEF WInv
<1>3. CASE Start(c) \/ Wait(c)
  <2>1. F!SearchAt(c, "idle")
    BY <1>3, NotSearching
    DEF Start, Wait, TakeToken, Acquire, WaitError, TooLate, CountUp, At
  <2>2. \A d \in Callers \ {c} : pc'[d] = pc[d] /\ (d \in canceled' <=> d \in canceled)
    BY <1>1, <1>3
    DEF Start, Wait, TakeToken, Acquire, WaitError, TooLate, CountUp, Return, Go
  <2> QED BY <1>1, <2>1, <2>2, Aside
<1> QED BY <1>2, <1>3 DEF Limit

LEMMA LeaveStep ==
    ASSUME WInv, TypeOK', NEW c \in Callers, Leave(c)
    PROVE  WInv'
<1>1. /\ pc \in [Callers -> PC] /\ canceled \subseteq Callers
      /\ row \in [Callers -> Rows] /\ UNCHANGED <<cache, search>>
  BY DEF WInv, WorkTypeOK, TypeOK, Rows, Leave
<1>2. F!SearchAt(c, "idle")
  BY NotSearching DEF Leave
<1>3. \A d \in Callers \ {c} : pc'[d] = pc[d] /\ (d \in canceled' <=> d \in canceled)
  BY <1>1 DEF Leave, Release, CountDown, SemRelease, Return, Go
<1>4. row' \in [Callers -> Rows] /\ \A d \in Callers \ {c} : row'[d] = row[d]
  BY <1>1 DEF Leave, LeaveRow, Rows
<1> QED BY <1>1, <1>2, <1>3, <1>4, Aside

\* What Record may write.
LEMMA Written ==
    ASSUME WInv, NEW c \in Callers, Record(c)
    PROVE  \E r \in Rows \ {"open"} :
             /\ row' = [row EXCEPT ![c] = r]
             /\ r = "complete" => F!Backed(search[c].key, search[c].list)
             /\ r = "dead_letter" => search[c].err \in {"auth", "invalid", "undecodable"}
<1> DEFINE err == search[c].err
<1>1. /\ F!SearchAt(c, "done") /\ err \in Errors \ {"some", "empty"}
      /\ err = "none" => c \in canceled \/ F!Backed(search[c].key, search[c].list)
      /\ err = "canceled" => c \in canceled
  BY DEF WInv, Answered, Record, WorkTypeOK, F!SearchTypeOK, Errors
<1>2. CASE row' = [row EXCEPT ![c] = "retried"]
  <2>1. "retried" \in Rows \ {"open"} BY DEF Rows
  <2> WITNESS "retried" \in Rows \ {"open"}
  <2> QED BY <1>2
<1>3. CASE ErrorClass(err) = "none" /\ Write(c, "complete")
  <2>1. err = "none"
    BY <1>1, <1>3 DEF ErrorClass
  <2> QED BY <1>1, <1>3, <2>1 DEF Write, Live, Rows
<1>4. CASE ErrorClass(err) \in {"auth", "invalid", "unknown"} /\ Write(c, "dead_letter")
  <2>1. err \in {"auth", "invalid", "canceled", "undecodable"}
    BY <1>1, <1>4 DEF ErrorClass, Errors, F!Replies
  <2>2. CASE row' = [row EXCEPT ![c] = "retried"]
    BY <1>2, <2>2
  <2>3. CASE c \notin canceled /\ row' = [row EXCEPT ![c] = "dead_letter"]
    <3>1. err \in {"auth", "invalid", "undecodable"}
      BY <1>1, <2>1, <2>3
    <3>2. "dead_letter" \in Rows \ {"open"} BY DEF Rows
    <3> WITNESS "dead_letter" \in Rows \ {"open"}
    <3> QED BY <2>3, <3>1
  <2> QED BY <1>4, <2>2, <2>3 DEF Write, Live
<1>5. \/ ErrorClass(err) = "none" /\ Write(c, "complete")
      \/ ErrorClass(err) \in {"auth", "invalid", "unknown"} /\ Write(c, "dead_letter")
      \/ row' = [row EXCEPT ![c] = "retried"]
  BY DEF Record
<1> QED BY <1>2, <1>3, <1>4, <1>5

LEMMA RecordStep ==
    ASSUME WInv, NEW c \in Callers, Record(c)
    PROVE  WInv'
<1>1. /\ search' = [search EXCEPT ![c] = F!Idle] /\ UNCHANGED <<vars, cache>>
      /\ search \in [Callers -> Searches] /\ row \in [Callers -> Rows]
  BY DEF Record, WInv, WorkTypeOK, F!SearchTypeOK, Searches, Errors, Rows
<1>2. PICK r \in Rows \ {"open"} : row' = [row EXCEPT ![c] = r]
  BY Written
<1>3. F!Idle \in Searches /\ F!Idle.pc = "idle" /\ F!Idle.err = "none"
  BY ListTypes DEF F!Idle, Searches, Errors
<1>4. WorkTypeOK'
  <2>1. search' \in [Callers -> Searches] /\ row' \in [Callers -> Rows]
    BY <1>1, <1>2, <1>3
  <2> QED BY <1>1, <2>1 DEF WInv, WorkTypeOK, TypeOK, vars, F!SearchTypeOK, Searches, Errors,
                             F!Lists, F!Replies, Rows
<1>5. CacheBacked'
  BY <1>1 DEF WInv, CacheBacked
<1>6. \A d \in Callers : Inside(d)' /\ Answered(d)'
  <2> TAKE d \in Callers
  <2>1. CASE d = c
    <3>1. search'[c] = F!Idle
      BY <1>1
    <3> QED BY <2>1, <3>1, <1>3 DEF Inside, Answered, F!SearchAt
  <2>2. CASE d # c
    <3>1. search'[d] = search[d] /\ row'[d] = row[d]
      BY <1>1, <1>2, <2>2
    <3> QED BY <1>1, <3>1 DEF WInv, Inside, Answered, F!SearchAt, At, vars
  <2> QED BY <2>1, <2>2
<1> QED BY <1>4, <1>5, <1>6 DEF WInv

\* Redis forgets a list.
LEMMA ExpireStep ==
    ASSUME WInv, NEW k \in Keys, F!Expire(k), UNCHANGED <<vars, row>>
    PROVE  WInv'
<1>1. cache' = [cache EXCEPT ![k] = F!NoList] /\ UNCHANGED search
  BY DEF F!Expire
<1>2. WorkTypeOK' /\ CacheBacked'
  BY <1>1, ListTypes DEF WInv, WorkTypeOK, TypeOK, vars, F!SearchTypeOK, CacheBacked
<1>3. \A d \in Callers : Inside(d)' /\ Answered(d)'
  BY <1>1 DEF WInv, Inside, Answered, F!SearchAt, At, vars
<1> QED BY <1>2, <1>3 DEF WInv

-----------------------------------------------------------------------------
(* The theorems *)

LEMMA WorkInitInv == WorkInit => WInv
<1> SUFFICES ASSUME WorkInit PROVE WInv OBVIOUS
<1>1. TypeOK
  BY InitInv DEF WorkInit, IInv
<1>2. F!SearchTypeOK
  BY ListTypes DEF WorkInit, F!SearchInit, F!SearchTypeOK, F!Idle
<1>3. \A c \in Callers : Inside(c) /\ Answered(c)
  BY DEF WorkInit, F!SearchInit, F!Idle, Inside, Answered, F!SearchAt
<1>4. CacheBacked
  BY DEF WorkInit, F!SearchInit, CacheBacked
<1> QED BY <1>1, <1>2, <1>3, <1>4 DEF WInv, WorkTypeOK, WorkInit

LEMMA WorkStepInv == WInv /\ IInv /\ [WorkNext]_workVars => WInv'
<1> SUFFICES ASSUME WInv, IInv, [WorkNext]_workVars PROVE WInv' OBVIOUS
<1>0. TypeOK'
  BY LimiterStep, StepInv DEF IInv
<1>1. CASE UNCHANGED workVars
  BY <1>1 DEF workVars, fareVars, vars, WInv, WorkTypeOK, TypeOK, F!SearchTypeOK, Inside,
              Answered, F!SearchAt, At, CacheBacked
<1>2. ASSUME NEW c \in Callers, Limit(c) PROVE WInv'
  BY <1>0, <1>2, LimitStep
<1>3. ASSUME NEW c \in Callers, Search(c) PROVE WInv'
  BY <1>3, BeginStep, CacheGetStep, SearchExactStep, SearchMonthStep, CacheSetStep
  DEF Search, F!SearchStep
<1>4. ASSUME NEW c \in Callers, Record(c) PROVE WInv'
  BY <1>4, RecordStep
<1>5. ASSUME NEW c \in Callers, Leave(c) PROVE WInv'
  BY <1>0, <1>5, LeaveStep
<1>6. CASE Refill /\ UNCHANGED fareVars
  BY <1>0, <1>6 DEF Refill, fareVars, WInv, WorkTypeOK, F!SearchTypeOK, Inside, Answered,
                     F!SearchAt, At, CacheBacked
<1>7. ASSUME NEW k \in Keys, F!Expire(k) /\ UNCHANGED <<vars, row>> PROVE WInv'
  BY <1>7, ExpireStep
<1> QED BY <1>1, <1>2, <1>3, <1>4, <1>5, <1>6, <1>7 DEF WorkNext

LEMMA WorkInvariant == WorkSpec => [](WInv /\ IInv)
<1>1. WorkInit => WInv /\ IInv
  BY WorkInitInv, InitInv DEF WorkInit
<1>2. WInv /\ IInv /\ [WorkNext]_workVars => (WInv /\ IInv)'
  BY WorkStepInv, LimiterStep, StepInv
<1> QED BY <1>1, <1>2, PTL DEF WorkSpec

\* Every variable has its type at every step of the limiter, of a search and of
\* the write that ends it.
THEOREM WorkTypeCorrect == WorkSpec => []WorkTypeOK
<1>1. WInv => WorkTypeOK BY DEF WInv
<1> QED BY <1>1, WorkInvariant, PTL

\* For any number of executor slots and any limits no more requests are at the
\* provider than the semaphore has units: a request is made only while its caller
\* is counted.
THEOREM RequestsAreBounded == WorkSpec => []ProviderCallsBounded
<1>1. WInv /\ IInv => ProviderCallsBounded
  <2> SUFFICES ASSUME WInv, IInv PROVE ProviderCallsBounded OBVIOUS
  <2>1. Requesting \subseteq Counted
    BY DEF WInv, Inside, Requesting, Counted, F!SearchAt, At
  <2>2. Cardinality(Requesting) <= Cardinality(Counted) /\ Cardinality(Requesting) \in Nat
    BY <2>1, Counting, FS_Subset, FS_CardinalityType
  <2>3. Cardinality(Counted) <= MaxConcurrent /\ Cardinality(Counted) \in Nat
    BY Bounded, Counting DEF IInv, InFlightBounded
  <2> QED BY <2>2, <2>3, LimitsOK DEF ProviderCallsBounded
<1> QED BY <1>1, WorkInvariant, PTL

\* For any keys and callers the cache holds the provider's word about each key and
\* nothing else.
THEOREM CacheIsBacked == WorkSpec => []CacheBacked
<1>1. WInv => CacheBacked BY DEF WInv
<1> QED BY <1>1, WorkInvariant, PTL

\* For any callers only an answer settles a row, wherever the timeout strikes.
THEOREM AnswersSettle == WorkSpec => OnlyAnswersSettle
<1> DEFINE Settled ==
      \A c \in Callers : row'[c] # row[c] =>
        /\ row'[c] = "complete" => F!Backed(search[c].key, search[c].list)
        /\ row'[c] = "dead_letter" => search[c].err \in {"auth", "invalid", "undecodable"}
<1>1. WInv /\ IInv /\ [WorkNext]_workVars => [Settled]_workVars
  <2> SUFFICES ASSUME WInv, WorkNext PROVE Settled OBVIOUS
  <2>1. row \in [Callers -> Rows]
    BY DEF WInv, WorkTypeOK, Rows
  <2>2. ASSUME NEW c \in Callers, Record(c) PROVE Settled
    BY <2>1, <2>2, Written
  <2>3. ASSUME NEW c \in Callers, Leave(c) PROVE Settled
    BY <2>1, <2>3 DEF Leave, LeaveRow
  <2>4. CASE UNCHANGED row
    BY <2>4
  <2>5. ASSUME NEW c \in Callers, Limit(c) \/ Search(c) PROVE UNCHANGED row
    BY <2>5 DEF Limit, Search, fareVars
  <2> QED BY <2>2, <2>3, <2>4, <2>5 DEF WorkNext, fareVars
<1> QED BY <1>1, WorkInvariant, PTL DEF WorkSpec, OnlyAnswersSettle
=============================================================================
