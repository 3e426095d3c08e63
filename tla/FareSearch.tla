----------------------------- MODULE FareSearch -----------------------------
(***************************************************************************)
(* Travelpayouts.Search: look in the Redis cache, ask the provider for the *)
(* date, fall back to the cheapest fare of the month, write the answer     *)
(* back.  One action is one call to Redis or to the provider; "live" says  *)
(* whether the context of the search is still alive when it is made.       *)
(* FareWork composes the searches with the worker that runs them.          *)
(***************************************************************************)
CONSTANTS
    Keys,     \* (origin, destination, date): what cache.FareKey is made of
    Workers,  \* concurrent searches
    None      \* "no key yet"

VARIABLES
    cache,   \* Redis: the list of each key
    search   \* the searches

(***************************************************************************)
(* A list of fares is abstracted to the question it answers and to what    *)
(* the provider said about the date and about the month.                   *)
(***************************************************************************)
List(k, date, month) == [key |-> k, date |-> date, month |-> month]
NoList == List(None, "unasked", "unasked")
Idle   == [pc |-> "idle", key |-> None, list |-> NoList, err |-> "none"]

(***************************************************************************)
(* searchAtDate: what becomes of one request to the provider.  A 200 is a  *)
(* list, empty or not; 401 and 403, 429 and 400 have their error; a 5xx, a *)
(* network error, a body that is not the expected JSON, an unsuccessful    *)
(* reply, a flight without airports or a bad currency is "down".  When the *)
(* context ends first, Do returns the context's error, but a body that is  *)
(* cut short is "down" like any other body that cannot be read.            *)
(***************************************************************************)
Replies(live) == IF live THEN {"some", "empty", "auth", "rate_limited", "invalid", "down"}
                 ELSE {"canceled", "cut"}

SearchInit ==
    /\ cache = [k \in Keys |-> NoList]
    /\ search = [w \in Workers |-> Idle]

SearchAt(w, pc) == search[w].pc = pc
Goto(w, pc)     == search' = [search EXCEPT ![w].pc = pc]

\* Search returns a list, or an error.
Return(w, list, err) ==
    search' = [search EXCEPT ![w].pc = "done", ![w].list = list, ![w].err = err]

\* validateRequest lets through what Submit generated.
Begin(w) ==
    /\ SearchAt(w, "idle")
    /\ \E k \in Keys : search' = [search EXCEPT ![w] = [Idle EXCEPT !.pc = "get", !.key = k]]
    /\ UNCHANGED cache

\* A hit ends the search; a miss, or any error of Redis, goes to the provider.
\* A value that does not decode is an error, and the provider is not asked.
CacheGet(w, live) ==
    LET entry == cache[search[w].key] IN
    /\ SearchAt(w, "get")
    /\ \/ live /\ entry # NoList /\ Return(w, entry, "none")
       \/ live /\ entry # NoList /\ Return(w, NoList, "undecodable")
       \/ Goto(w, "exact")
    /\ UNCHANGED cache

\* The provider's lists, on their way to the cache.
Fetched(w, date, month) ==
    search' = [search EXCEPT ![w].pc = "set", ![w].list = List(search[w].key, date, month)]

\* fetchWithFallback, first call: the date.
SearchExact(w, live) ==
    /\ SearchAt(w, "exact")
    /\ \E a \in Replies(live) :
        \/ a = "some" /\ Fetched(w, a, "unasked")
        \/ a = "empty" /\ Goto(w, "month")
        \/ a \notin {"some", "empty"} /\ Return(w, NoList, a)
    /\ UNCHANGED cache

\* Second call: the month.  Here, and only here, ErrProviderDown is "no fares".
SearchMonth(w, live) ==
    /\ SearchAt(w, "month")
    /\ \E a \in Replies(live) :
        \/ a \in {"some", "empty", "down", "cut"} /\ Fetched(w, "empty", a)
        \/ a \in {"auth", "invalid", "rate_limited", "canceled"} /\ Return(w, NoList, a)
    /\ UNCHANGED cache

\* Mutant: the cache is written on a context of its own.
CacheSet_Background(w, live) ==
    /\ SearchAt(w, "set")
    /\ \/ cache' = [cache EXCEPT ![search[w].key] = search[w].list]
       \/ UNCHANGED cache
    /\ Goto(w, "done")

\* The error of Set is dropped; the search succeeds either way.
CacheSet(w, live) ==
    /\ SearchAt(w, "set")
    /\ \/ live /\ cache' = [cache EXCEPT ![search[w].key] = search[w].list]
       \/ UNCHANGED cache
    /\ Goto(w, "done")

\* Redis drops an entry: its time to live is over.
Expire(k) ==
    /\ cache[k] # NoList
    /\ cache' = [cache EXCEPT ![k] = NoList]
    /\ UNCHANGED search

SearchStep(w, live) ==
    \/ Begin(w) \/ CacheGet(w, live) \/ SearchExact(w, live) \/ SearchMonth(w, live)
    \/ CacheSet(w, live)

-----------------------------------------------------------------------------
(* Properties *)

Lists == [key : Keys \cup {None}, date : {"unasked", "some", "empty"},
          month : {"unasked", "some", "empty", "down", "cut"}]

SearchTypeOK ==
    /\ cache \in [Keys -> Lists]
    /\ search \in [Workers ->
           [pc : {"idle", "get", "exact", "month", "set", "done"}, key : Keys \cup {None},
            list : Lists, err : {"none", "undecodable"} \cup Replies(TRUE) \cup Replies(FALSE)]]

\* What a list claims is what the provider said about this very key: fares of
\* the date, or that it has none for the date; and about the month, an answer or
\* an outage, never a reply that was cut short.
Backed(k, list) ==
    /\ list.key = k
    /\ list.date \in {"some", "empty"}
    /\ list.date = "empty" => list.month \in {"some", "empty", "down"}
=============================================================================
