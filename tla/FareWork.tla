------------------------------ MODULE FareWork ------------------------------
(***************************************************************************)
(* FareWorker.Work around a search: wait for the rate limiter, search,     *)
(* write the outcome to the row, release the limiter.  It composes the     *)
(* limiter (RateLimiter, whose callers are the executor slots) and the     *)
(* searches (FareSearch) on one context per execution, which River's job   *)
(* timeout may cancel between any two calls.                               *)
(*                                                                         *)
(* Every execution has a row of its own; the job's counters and River's    *)
(* bookkeeping are JobEngine's.                                            *)
(***************************************************************************)
EXTENDS RateLimiter

CONSTANTS Keys, None

ASSUME NoneIsNoKey == None \notin Keys

VARIABLES
    cache, search,  \* of FareSearch
    row             \* the status the execution has left its row in

F == INSTANCE FareSearch WITH Workers <- Callers

fareVars == <<cache, search, row>>
workVars == <<vars, fareVars>>

WorkInit ==
    /\ Init
    /\ F!SearchInit
    /\ row = [c \in Callers |-> "open"]

Live(c) == c \notin canceled

-----------------------------------------------------------------------------
(* Work *)

\* Wait, and whatever happens to the limiter meanwhile.
Limit(c) ==
    /\ Start(c) \/ Cancel(c) \/ Wait(c)
    /\ UNCHANGED fareVars

\* FareProvider.Search.
Search(c) ==
    /\ At(c, "searching") /\ row[c] = "open"
    /\ F!SearchStep(c, Live(c))
    /\ UNCHANGED <<vars, row>>

\* What errors.Is makes of the error.  No class of handleError knows the error
\* of a context, or one that is only wrapped text.
ErrorClass(err) ==
    CASE err \in {"canceled", "undecodable"} -> "unknown"
      [] err = "cut" -> "down"
      [] OTHER -> err

\* Mutant: the outcome is written on a context of its own.
Write_Background(c, status) == row' = [row EXCEPT ![c] = status]

\* UpdateResult or MarkResultDeadLetter, on the context of the execution: its
\* error, if any, goes to River, which retries the row.
Write(c, status) ==
    \/ Live(c) /\ row' = [row EXCEPT ![c] = status]
    \/ row' = [row EXCEPT ![c] = "retried"]

\* Work on the result of Search: handleError, or the fares.
Record(c) ==
    LET class == ErrorClass(search[c].err) IN
    /\ At(c, "searching") /\ row[c] = "open" /\ F!SearchAt(c, "done")
    /\ \/ class = "none" /\ Write(c, "complete")
       \/ class \in {"auth", "invalid", "unknown"} /\ Write(c, "dead_letter")
       \/ class \in {"rate_limited", "down"} /\ row' = [row EXCEPT ![c] = "retried"]
    /\ search' = [search EXCEPT ![c] = F!Idle]
    /\ UNCHANGED <<vars, cache>>

\* The outcome of the row of an execution that is over is nobody's any more.
LeaveRow(c) == row' = IF pc'[c] = "idle" THEN [row EXCEPT ![c] = "open"] ELSE row

\* Mutant: the unit is given back as soon as Wait has returned.
Leave_NotDeferred(c) ==
    /\ Release(c)
    /\ LeaveRow(c)
    /\ UNCHANGED <<cache, search>>

\* The deferred Release, when Work returns.
Leave(c) ==
    /\ row[c] # "open" /\ Release(c)
    /\ LeaveRow(c)
    /\ UNCHANGED <<cache, search>>

WorkNext ==
    \/ \E c \in Callers : Limit(c) \/ Search(c) \/ Record(c) \/ Leave(c)
    \/ Refill /\ UNCHANGED fareVars
    \/ \E k \in Keys : F!Expire(k) /\ UNCHANGED <<vars, row>>

WorkSpec == WorkInit /\ [][WorkNext]_workVars

(***************************************************************************)
(* The bucket refills; both waits serve their callers in order of arrival  *)
(* (rate.Limiter by reservation, semaphore.Weighted by its list of         *)
(* waiters), so a caller whose turn keeps coming is served.  A call to     *)
(* Redis, to the provider (whose client has a timeout) or to Postgres      *)
(* returns.                                                                *)
(***************************************************************************)
WorkFairSpec ==
    /\ WorkSpec
    /\ WF_workVars(Refill /\ UNCHANGED fareVars)
    /\ \A c \in Callers :
        /\ SF_workVars((TakeToken(c) \/ Acquire(c)) /\ UNCHANGED fareVars)
        /\ WF_workVars(\/ (WaitError(c) \/ CountUp(c)) /\ UNCHANGED fareVars
                       \/ Search(c) \/ Record(c) \/ Leave(c))

-----------------------------------------------------------------------------
(* Properties *)

\* The limiter, the searches and the rows have their types.
WorkTypeOK ==
    /\ TypeOK
    /\ F!SearchTypeOK
    /\ row \in [Callers -> {"open", "complete", "dead_letter", "retried"}]

\* The executions that are in a request to the provider.
Requesting == {c \in Callers : search[c].pc \in {"exact", "month"}}

\* ADR-006, a "global bounded semaphore" over "outbound calls": no more requests
\* are at the provider than there are units, timeouts and failed waits included.
ProviderCallsBounded == Cardinality(Requesting) <= MaxConcurrent

\* The cache holds for every key only what the provider said about that key: no
\* error, no outage of the date search and nothing a timeout has cut short is
\* ever served to a later job as fares or as "no fares".
CacheBacked == \A k \in Keys : cache[k] = F!NoList \/ F!Backed(k, cache[k])

\* A row is settled by an answer only: completed with a list the provider stands
\* for, dead-lettered for an error that will not pass.  A search the timeout cut
\* short, a 429 and an outage leave the row to a retry.
OnlyAnswersSettle ==
    [][\A c \in Callers : row'[c] # row[c] =>
        /\ row'[c] = "complete" => F!Backed(search[c].key, search[c].list)
        /\ row'[c] = "dead_letter" => search[c].err \in {"auth", "invalid", "undecodable"}]_workVars
=============================================================================
