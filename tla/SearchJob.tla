----------------------------- MODULE SearchJob ------------------------------
(***************************************************************************)
(* What the engine promises of a search job to whoever submitted it,       *)
(* without queue, slots, counters, retries or crashes: a job is accepted   *)
(* with a set of tuples to search, each tuple is settled once and for all, *)
(* the job ends only when nothing is open, and an end is final as soon as  *)
(* the request that submitted the job is over.  JobEngine implements it.   *)
(***************************************************************************)
CONSTANTS Jobs, Tuples

VARIABLES
    phase,      \* of each job: "absent", "open", "complete", "failed", "deleted"
    open,       \* its tuples that are still to be searched
    submitting  \* the jobs whose POST /jobs request is not over

vars == <<phase, open, submitting>>

Init ==
    /\ phase = [j \in Jobs |-> "absent"]
    /\ open = [j \in Jobs |-> {}]
    /\ submitting = Jobs

-----------------------------------------------------------------------------
(* The request *)

\* The request ends, by an answer or with its process, and does nothing else.
Return(j) ==
    /\ j \in submitting /\ submitting' = submitting \ {j}
    /\ UNCHANGED <<phase, open>>

\* The job is created with all its tuples, in one step.
Accept(j) ==
    /\ j \in submitting /\ phase[j] = "absent"
    /\ phase' = [phase EXCEPT ![j] = "open"]
    /\ \E T \in SUBSET Tuples : open' = [open EXCEPT ![j] = T]
    /\ submitting' \in {submitting, submitting \ {j}}

\* The last act of the request may put a job that has ended back to work, or
\* give up a job that goes on.
Override(j, p) ==
    /\ j \in submitting /\ submitting' = submitting \ {j}
    /\ phase[j] \in {"open", "complete", "failed"}
    /\ phase' = [phase EXCEPT ![j] = p]
    /\ UNCHANGED open

-----------------------------------------------------------------------------
(* The work *)

\* A tuple is answered or given up; no step opens it again.
Settle(j, t) ==
    /\ t \in open[j]
    /\ open' = [open EXCEPT ![j] = @ \ {t}]
    /\ UNCHANGED <<phase, submitting>>

\* The job ends when nothing of it is open.
Finish(j) ==
    /\ phase[j] = "open" /\ open[j] = {}
    /\ \E p \in {"complete", "failed"} : phase' = [phase EXCEPT ![j] = p]
    /\ UNCHANGED <<open, submitting>>

\* Old jobs go, several at a time, whatever state they are in.
Sweep(S) ==
    /\ S \cap submitting = {} /\ \A j \in S : phase[j] # "absent"
    /\ phase' = [j \in Jobs |-> IF j \in S THEN "deleted" ELSE phase[j]]
    /\ open' = [j \in Jobs |-> IF j \in S THEN {} ELSE open[j]]
    /\ UNCHANGED submitting

Next ==
    \/ \E j \in Jobs :
        \/ Return(j) \/ Accept(j) \/ Override(j, "open") \/ Override(j, "failed")
        \/ Finish(j) \/ \E t \in Tuples : Settle(j, t)
    \/ \E S \in SUBSET Jobs : Sweep(S)

Spec == Init /\ [][Next]_vars
=============================================================================
