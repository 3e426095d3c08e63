---------------------------- MODULE RateLimiter ----------------------------
(***************************************************************************)
(* worker.RateLimiter: a token bucket in front of a weighted semaphore,    *)
(* with an atomic counter of calls in flight that anyone may read.  Every  *)
(* executor slot calls Wait, searches, and calls Release.                  *)
(***************************************************************************)
EXTENDS Naturals, FiniteSets

CONSTANTS
    Callers,       \* goroutines executing FareWorker.Work
    Burst,         \* size of the bucket: int(rps), at least 1
    MaxConcurrent  \* size of the semaphore

ASSUME LimitsOK ==
    IsFiniteSet(Callers) /\ Burst \in Nat \ {0} /\ MaxConcurrent \in Nat \ {0}

VARIABLES
    tokens,    \* tokens in the bucket
    free,      \* free units of the semaphore
    inflight,  \* atomic.Int64
    pc,        \* where each caller is
    canceled   \* callers whose context is cancelled

vars == <<tokens, free, inflight, pc, canceled>>

PC == {"idle", "bucket", "semaphore", "acquired", "searching", "released"}

\* A caller owns a unit from Acquire to sem.Release.
Owners  == {c \in Callers : pc[c] \in {"acquired", "searching", "released"}}
\* It is counted from inflight.Add(1) to inflight.Add(-1).
Counted == {c \in Callers : pc[c] = "searching"}

Init ==
    /\ tokens = Burst
    /\ free = MaxConcurrent
    /\ inflight = 0
    /\ pc = [c \in Callers |-> "idle"]
    /\ canceled = {}

At(c, s) == pc[c] = s
Go(c, s) == pc' = [pc EXCEPT ![c] = s]

\* River hands the slot a new job, with a context of its own.
Start(c) ==
    /\ At(c, "idle") /\ Go(c, "bucket")
    /\ UNCHANGED <<tokens, free, inflight, canceled>>

\* Work has returned: its context is gone.
Return(c) == Go(c, "idle") /\ canceled' = canceled \ {c}

\* River's job timeout.
Cancel(c) ==
    /\ ~At(c, "idle") /\ c \notin canceled
    /\ canceled' = canceled \cup {c}
    /\ UNCHANGED <<tokens, free, inflight, pc>>

\* Mutant: a bucket without a size.
Refill_Uncapped ==
    /\ tokens' = tokens + 1
    /\ UNCHANGED <<free, inflight, pc, canceled>>

\* 1/rps seconds pass.
Refill ==
    /\ tokens < Burst /\ tokens' = tokens + 1
    /\ UNCHANGED <<free, inflight, pc, canceled>>

\* rps.Wait: a token, or the context's error.
TakeToken(c) ==
    /\ At(c, "bucket") /\ c \notin canceled
    /\ tokens > 0 /\ tokens' = tokens - 1
    /\ Go(c, "semaphore")
    /\ UNCHANGED <<free, inflight, canceled>>

\* sem.Acquire: a unit, or the context's error.
Acquire(c) ==
    /\ At(c, "semaphore") /\ c \notin canceled
    /\ free > 0 /\ free' = free - 1
    /\ Go(c, "acquired")
    /\ UNCHANGED <<tokens, inflight, canceled>>

\* Mutant: Wait's error path gives back a unit it never took.
WaitError_Releases(c) ==
    /\ pc[c] \in {"bucket", "semaphore"} /\ c \in canceled
    /\ Return(c)
    /\ free' = free + 1
    /\ UNCHANGED <<tokens, inflight>>

\* Either wait returns an error: Work returns without calling Release.
WaitError(c) ==
    /\ pc[c] \in {"bucket", "semaphore"} /\ c \in canceled
    /\ Return(c)
    /\ UNCHANGED <<tokens, free, inflight>>

\* rps.Wait sees that the token would come after the deadline: an error at once,
\* of a context that is still alive.
TooLate(c) ==
    /\ At(c, "bucket") /\ Return(c)
    /\ UNCHANGED <<tokens, free, inflight>>

CountUp(c) ==
    /\ At(c, "acquired") /\ Go(c, "searching")
    /\ inflight' = inflight + 1
    /\ UNCHANGED <<tokens, free, canceled>>

\* Release, deferred by Work, so it runs however the search ended.
CountDown(c) ==
    /\ At(c, "searching") /\ Go(c, "released")
    /\ inflight' = inflight - 1
    /\ UNCHANGED <<tokens, free, canceled>>

SemRelease(c) ==
    /\ At(c, "released") /\ Return(c)
    /\ free' = free + 1
    /\ UNCHANGED <<tokens, inflight>>

Wait(c) == TakeToken(c) \/ Acquire(c) \/ WaitError(c) \/ TooLate(c) \/ CountUp(c)

\* Mutant: Release gives the unit back before it counts down.
Release_Swapped(c) ==
    \/ /\ At(c, "searching") /\ Go(c, "released") /\ free' = free + 1
       /\ UNCHANGED <<tokens, inflight, canceled>>
    \/ /\ At(c, "released") /\ Return(c) /\ inflight' = inflight - 1
       /\ UNCHANGED <<tokens, free>>

\* Mutant: Release forgets the semaphore.
Release_Leaks(c) ==
    /\ At(c, "searching") /\ Return(c) /\ inflight' = inflight - 1
    /\ UNCHANGED <<tokens, free>>

Release(c) == CountDown(c) \/ SemRelease(c)

Next ==
    \/ \E c \in Callers : Start(c) \/ Cancel(c) \/ Wait(c) \/ Release(c)
    \/ Refill

Spec == Init /\ [][Next]_vars

-----------------------------------------------------------------------------
(* Properties *)

\* The bucket and the semaphore stay within their sizes.
TypeOK ==
    /\ tokens \in 0 .. Burst
    /\ free \in 0 .. MaxConcurrent
    /\ inflight \in Nat
    /\ pc \in [Callers -> PC]
    /\ canceled \subseteq Callers

\* Whenever it is read, InFlight is at most MaxConcurrent: Release counts down
\* before it lets the next caller in.
InFlightBounded == inflight <= MaxConcurrent

\* Every unit is free or owned by one caller, whichever way Wait returned.
UnitsAccounted == free + Cardinality(Owners) = MaxConcurrent

\* Nobody waits for ever: units and tokens come back.
WaitReturns ==
    \A c \in Callers : pc[c] \in {"bucket", "semaphore"} ~> pc[c] \in {"searching", "idle"}
=============================================================================
