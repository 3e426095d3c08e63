----------------------------- MODULE JobEngine -----------------------------
(***************************************************************************)
(* The search-job engine: POST /jobs (jobengine.Service.Submit), the       *)
(* Postgres tables search_jobs and search_job_results, the River queue and *)
(* the fare workers (worker.FareWorker.Work) that drain it, plus the daily *)
(* retention sweep.                                                        *)
(*                                                                         *)
(* One action is one statement sent to Postgres, Redis or the provider;    *)
(* between two statements of one process every other process may run.  A   *)
(* row of either table that does not exist has status "none".              *)
(***************************************************************************)
EXTENDS Naturals, FiniteSets

CONSTANTS
    Jobs,         \* the POST /jobs requests of the run, one job id each
    Tuples,       \* the (origin, destination, date) tuples a request expands to
    Workers,      \* River executor slots (MaxWorkers, over every instance)
    Outcomes,     \* what FareProvider.Search may answer in this run
    Expirable,    \* the jobs that may outlive retentionWindow in this run
    MaxPairs,     \* Service.maxPairs
    MaxAttempts,  \* river.InsertOpts.MaxAttempts
    MaxFaults,    \* bound on failed calls, crashes and disconnects of a run
    None          \* "no job", "no tuple"

\* Success and the error classes handleError tells apart.
AllOutcomes == {"fares", "auth", "invalid", "unknown", "rate_limited", "down"}

ASSUME ConstantsOK ==
    /\ IsFiniteSet(Tuples)
    /\ Outcomes \subseteq AllOutcomes
    /\ Expirable \subseteq Jobs
    /\ MaxPairs \in Nat /\ MaxAttempts \in Nat \ {0} /\ MaxFaults \in Nat
    /\ None \notin Jobs /\ None \notin Tuples

VARIABLES
    jobs,     \* search_jobs
    results,  \* search_job_results.status, by job and tuple
    river,    \* river_job: state and attempt of the queue entry of a row
    submit,   \* the POST /jobs handler of each job
    work,     \* the executor slots
    aged,     \* jobs submitted more than retentionWindow ago
    faults    \* failures so far

vars == <<jobs, results, river, submit, work, aged, faults>>

-----------------------------------------------------------------------------
(* State *)

JobStatus == {"none", "pending", "running", "complete", "failed"}
Final     == {"complete", "failed"}
RowStatus == {"none", "pending", "claimed", "complete", "failed", "dead_letter"}
Open      == {"pending", "claimed"}                 \* counted as remaining
Done      == {"complete", "failed", "dead_letter"}  \* counted as completed
Dead      == {"dead_letter", "failed"}              \* counted as failed

RiverState == {"none", "available", "running", "completed", "discarded"}
SubmitPC   == {"idle", "created", "enqueue", "mark_running", "mark_failed",
               "accepted", "error", "crashed"}
Ended      == {"accepted", "error", "crashed"}      \* the handler is over
WorkPC     == {"idle", "wait", "search", "update", "dead_letter", "count",
               "progress", "remaining", "read_job", "finalize", "ack"}

NoJobRow == [status |-> "none", total |-> 0, completed |-> 0, failed |-> 0,
             summary |-> "null"]
IdleSlot == [pc |-> "idle", job |-> None, tuple |-> None, path |-> "ok",
             done |-> 0, dead |-> 0, final |-> "complete"]

RowsIn(j, S) == {t \in Tuples : results[j][t] \in S}
Settled(j)   == RowsIn(j, Open) = {}
Exists(j)    == jobs[j].status # "none"
Holds(w, j, t) == work[w].pc # "idle" /\ work[w].job = j /\ work[w].tuple = t

Init ==
    /\ jobs = [j \in Jobs |-> NoJobRow]
    /\ results = [j \in Jobs |-> [t \in Tuples |-> "none"]]
    /\ river = [j \in Jobs |-> [t \in Tuples |-> [state |-> "none", attempt |-> 0]]]
    /\ submit = [j \in Jobs |-> [pc |-> "idle", live |-> TRUE, inserted |-> {}]]
    /\ work = [w \in Workers |-> IdleSlot]
    /\ aged = {}
    /\ faults = 0

(***************************************************************************)
(* A call to a backing service returns r: "ok"; "failed", an error without *)
(* effect; or "lost", an error after the effect was committed.  Failures   *)
(* spend the fault budget, except on a context that is already cancelled,  *)
(* where every call fails at once.                                         *)
(***************************************************************************)
CallResults == {"ok", "failed", "lost"}

Call(live, r) ==
    \/ r = "ok" /\ live /\ UNCHANGED faults
    \/ r \in {"failed", "lost"} /\ live /\ faults < MaxFaults /\ faults' = faults + 1
    \/ r = "failed" /\ ~live /\ UNCHANGED faults

-----------------------------------------------------------------------------
(* Service.Submit, one request per job *)

Goto(j, pc) == submit' = [submit EXCEPT ![j].pc = pc]

\* GenerateTuples rejects the input, or expands it to more than maxPairs.
Reject(j) ==
    /\ submit[j].pc = "idle"
    /\ Goto(j, "error")
    /\ UNCHANGED <<jobs, results, river, work, aged, faults>>

\* One transaction: the job row and all its result rows, pending.
CreateJob(j) ==
    /\ submit[j].pc = "idle"
    /\ \E T \in SUBSET Tuples, r \in CallResults :
        /\ Cardinality(T) <= MaxPairs
        /\ Call(submit[j].live, r)
        /\ IF r = "failed" THEN UNCHANGED <<jobs, results>>
           ELSE /\ jobs' = [jobs EXCEPT ![j] = [NoJobRow EXCEPT
                               !.status = "pending", !.total = Cardinality(T)]]
                /\ results' = [results EXCEPT ![j] =
                      [t \in Tuples |-> IF t \in T THEN "pending" ELSE "none"]]
        /\ Goto(j, IF r = "ok" THEN "created" ELSE "error")
    /\ UNCHANGED <<river, work, aged>>

\* Read the generated row ids back.
GetPendingResults(j) ==
    /\ submit[j].pc = "created"
    /\ \E r \in {"ok", "failed"} :
        /\ Call(submit[j].live, r)
        /\ submit' = IF r = "ok"
              THEN [submit EXCEPT ![j].pc = "enqueue",
                                  ![j].inserted = RowsIn(j, {"pending"})]
              ELSE [submit EXCEPT ![j].pc = "mark_failed"]
    /\ UNCHANGED <<jobs, results, river, work, aged>>

\* Mutant: Submit ignores the error of EnqueueBatch.
EnqueueBatch_ErrorIgnored(j) ==
    /\ submit[j].pc = "enqueue"
    /\ \E r \in {"ok", "failed"} :
        /\ Call(submit[j].live, r)
        /\ river' = IF r = "failed" THEN river
              ELSE [river EXCEPT ![j] = [t \in Tuples |->
                      IF t \in submit[j].inserted
                      THEN [state |-> "available", attempt |-> 0] ELSE @[t]]]
        /\ Goto(j, "mark_running")
    /\ UNCHANGED <<jobs, results, work, aged>>

\* River.InsertMany is one transaction; an empty batch returns without a call.
EnqueueBatch(j) ==
    /\ submit[j].pc = "enqueue"
    /\ \E r \in CallResults :
        /\ Call(submit[j].live \/ submit[j].inserted = {}, r)
        /\ submit[j].inserted = {} => r = "ok"
        /\ river' = IF r = "failed" THEN river
              ELSE [river EXCEPT ![j] = [t \in Tuples |->
                      IF t \in submit[j].inserted
                      THEN [state |-> "available", attempt |-> 0] ELSE @[t]]]
        /\ Goto(j, IF r = "ok" THEN "mark_running" ELSE "mark_failed")
    /\ UNCHANGED <<jobs, results, work, aged>>

\* UPDATE search_jobs SET status, error_summary WHERE id: no guard on status.
MarkJobStatus(j, status, summary) ==
    jobs' = IF Exists(j)
            THEN [jobs EXCEPT ![j].status = status, ![j].summary = summary]
            ELSE jobs

MarkRunning(j) ==
    /\ submit[j].pc = "mark_running"
    /\ \E r \in CallResults :
        /\ Call(submit[j].live, r)
        /\ IF r = "failed" THEN UNCHANGED jobs
           ELSE MarkJobStatus(j, "running", "null")
        /\ Goto(j, IF r = "ok" THEN "accepted" ELSE "error")
    /\ UNCHANGED <<results, river, work, aged>>

\* Mutant: Submit returns the error of EnqueueBatch without marking the job.
MarkFailedBestEffort_Dropped(j) ==
    /\ submit[j].pc = "mark_failed"
    /\ Goto(j, "error")
    /\ UNCHANGED <<jobs, results, river, work, aged, faults>>

\* On the request's own context, cancelled or not; its error is only logged.
MarkFailedBestEffort(j) ==
    /\ submit[j].pc = "mark_failed"
    /\ \E r \in CallResults :
        /\ Call(submit[j].live, r)
        /\ IF r = "failed" THEN UNCHANGED jobs
           ELSE MarkJobStatus(j, "failed", "set")
        /\ Goto(j, "error")
    /\ UNCHANGED <<results, river, work, aged>>

\* The client goes away: net/http cancels r.Context().
Disconnect(j) ==
    /\ submit[j].pc \notin Ended /\ submit[j].live
    /\ faults < MaxFaults /\ faults' = faults + 1
    /\ submit' = [submit EXCEPT ![j].live = FALSE]
    /\ UNCHANGED <<jobs, results, river, work, aged>>

\* The API process dies; nothing resumes the request.
ApiCrash(j) ==
    /\ submit[j].pc \notin Ended \cup {"idle"}
    /\ faults < MaxFaults /\ faults' = faults + 1
    /\ Goto(j, "crashed")
    /\ UNCHANGED <<jobs, results, river, work, aged>>

-----------------------------------------------------------------------------
(* River: fetch, acknowledge, retry, rescue *)

Step(w, pc) == work' = [work EXCEPT ![w].pc = pc]
AtStep(w, pc) == work[w].pc = pc

Fetch(w) ==
    /\ AtStep(w, "idle")
    /\ \E j \in Jobs, t \in Tuples :
        /\ river[j][t].state = "available"
        /\ river' = [river EXCEPT ![j][t] =
                        [state |-> "running", attempt |-> @.attempt + 1]]
        /\ work' = [work EXCEPT ![w] = [IdleSlot EXCEPT
                        !.pc = "wait", !.job = j, !.tuple = t]]
    /\ UNCHANGED <<jobs, results, submit, aged, faults>>

\* Mutant: one attempt too many.
AfterError_OffByOne(entry) ==
    [entry EXCEPT !.state = IF entry.attempt <= MaxAttempts
                            THEN "available" ELSE "discarded"]

\* The state of a queue entry whose execution failed.
AfterError(entry) ==
    [entry EXCEPT !.state = IF entry.attempt < MaxAttempts
                            THEN "available" ELSE "discarded"]

\* Work returned an error: retry with backoff, or give the entry up.
ReturnError(w) ==
    /\ river' = [river EXCEPT ![work[w].job][work[w].tuple] = AfterError(@)]
    /\ work' = [work EXCEPT ![w] = IdleSlot]

ReturnNil(w) == Step(w, "ack") /\ UNCHANGED river

\* The completer records the success after Work has returned.
Ack(w) ==
    /\ AtStep(w, "ack")
    /\ river' = [river EXCEPT ![work[w].job][work[w].tuple].state = "completed"]
    /\ work' = [work EXCEPT ![w] = IdleSlot]
    /\ UNCHANGED <<jobs, results, submit, aged, faults>>

\* The slot's process dies: the entry stays "running" until it is rescued.
WorkerCrash(w) ==
    /\ ~AtStep(w, "idle")
    /\ faults < MaxFaults /\ faults' = faults + 1
    /\ work' = [work EXCEPT ![w] = IdleSlot]
    /\ UNCHANGED <<jobs, results, river, submit, aged>>

Rescue(j, t) ==
    /\ river[j][t].state = "running"
    /\ \A w \in Workers : ~Holds(w, j, t)
    /\ river' = [river EXCEPT ![j][t] = AfterError(@)]
    /\ UNCHANGED <<jobs, results, submit, work, aged, faults>>

-----------------------------------------------------------------------------
(* FareWorker.Work *)

RateLimiterWait(w) ==
    /\ AtStep(w, "wait")
    /\ Step(w, "search")
    /\ UNCHANGED <<jobs, results, river, submit, aged, faults>>

\* Wait saw a cancelled context: JobSnooze(0) requeues without using an attempt.
Snooze(w) ==
    /\ AtStep(w, "wait")
    /\ faults < MaxFaults /\ faults' = faults + 1
    /\ river' = [river EXCEPT ![work[w].job][work[w].tuple] =
                    [state |-> "available", attempt |-> @.attempt - 1]]
    /\ work' = [work EXCEPT ![w] = IdleSlot]
    /\ UNCHANGED <<jobs, results, submit, aged>>

\* Wait failed some other way (no token before the deadline): an ordinary error.
WaitError(w) ==
    /\ AtStep(w, "wait")
    /\ faults < MaxFaults /\ faults' = faults + 1
    /\ ReturnError(w)
    /\ UNCHANGED <<jobs, results, submit, aged>>

\* Mutant: handleError logs a retryable error and returns nil.
Search_RetryableSwallowed(w) ==
    /\ AtStep(w, "search")
    /\ \E o \in Outcomes :
        \/ o = "fares" /\ Step(w, "update")
        \/ /\ o \in {"auth", "invalid", "unknown"}
           /\ work' = [work EXCEPT ![w].pc = "dead_letter", ![w].path = "dead"]
        \/ o \in {"rate_limited", "down"} /\ Step(w, "ack")
    /\ UNCHANGED <<jobs, results, river, submit, aged, faults>>

\* Mutant: a retryable error puts the row back to "pending", settled or not.
Search_ReopensRow(w) ==
    /\ AtStep(w, "search")
    /\ \E o \in Outcomes :
        \/ o = "fares" /\ Step(w, "update") /\ UNCHANGED <<results, river>>
        \/ /\ o \in {"auth", "invalid", "unknown"}
           /\ work' = [work EXCEPT ![w].pc = "dead_letter", ![w].path = "dead"]
           /\ UNCHANGED <<results, river>>
        \/ /\ o \in {"rate_limited", "down"} /\ ReturnError(w)
           /\ results' = [results EXCEPT ![work[w].job][work[w].tuple] = "pending"]
    /\ UNCHANGED <<jobs, submit, aged, faults>>

\* FareProvider.Search and the switch of handleError.
Search(w) ==
    /\ AtStep(w, "search")
    /\ \E o \in Outcomes :
        \/ o = "fares" /\ Step(w, "update") /\ UNCHANGED river
        \/ /\ o \in {"auth", "invalid", "unknown"}
           /\ work' = [work EXCEPT ![w].pc = "dead_letter", ![w].path = "dead"]
           /\ UNCHANGED river
        \/ o \in {"rate_limited", "down"} /\ ReturnError(w)
    /\ UNCHANGED <<jobs, results, submit, aged, faults>>

\* UPDATE search_job_results SET status WHERE id: no row, no effect.
SetRow(w, status) ==
    results' = IF results[work[w].job][work[w].tuple] = "none" THEN results
               ELSE [results EXCEPT ![work[w].job][work[w].tuple] = status]

PersistRow(w, status) ==
    /\ \E r \in CallResults :
        /\ Call(TRUE, r)
        /\ IF r = "failed" THEN UNCHANGED results ELSE SetRow(w, status)
        /\ IF r = "ok" THEN Step(w, "count") /\ UNCHANGED river ELSE ReturnError(w)
    /\ UNCHANGED <<jobs, submit, aged>>

UpdateResult(w) == AtStep(w, "update") /\ PersistRow(w, "complete")

MarkResultDeadLetter(w) == AtStep(w, "dead_letter") /\ PersistRow(w, "dead_letter")

(***************************************************************************)
(* UpdateJobProgress is one READ COMMITTED statement: the counts come from *)
(* the snapshot taken when it starts, the job row is written once its lock *)
(* is free, and Postgres re-evaluates neither the counts nor the decision  *)
(* to write them.                                                          *)
(***************************************************************************)
CountResults(w) ==
    /\ AtStep(w, "count")
    /\ work' = [work EXCEPT ![w].pc = "progress",
                    ![w].done = Cardinality(RowsIn(work[w].job, Done)),
                    ![w].dead = Cardinality(RowsIn(work[w].job, Dead))]
    /\ UNCHANGED <<jobs, results, river, submit, aged, faults>>

\* Mutant: SET completed_pairs = completed_pairs + 1 instead of a recount.
UpdateJobProgress_Increment(w) ==
    /\ AtStep(w, "progress")
    /\ jobs' = IF ~Exists(work[w].job) THEN jobs
               ELSE [jobs EXCEPT ![work[w].job].completed = @ + 1,
                                 ![work[w].job].failed = work[w].dead]
    /\ Step(w, "remaining")
    /\ UNCHANGED <<results, river, submit, aged, faults>>

UpdateJobProgress(w) ==
    /\ AtStep(w, "progress")
    /\ \E r \in CallResults :
        /\ Call(TRUE, r)
        /\ jobs' = IF r = "failed" \/ ~Exists(work[w].job) THEN jobs
                   ELSE [jobs EXCEPT ![work[w].job].completed = work[w].done,
                                     ![work[w].job].failed = work[w].dead]
        \* Work logs the error and goes on, markDeadLetter returns it.
        /\ IF r = "ok" \/ work[w].path = "ok"
           THEN Step(w, "remaining") /\ UNCHANGED river
           ELSE ReturnError(w)
    /\ UNCHANGED <<results, submit, aged>>

\* Work logs an error of MarkJobCompleteIfDone, markDeadLetter returns it.
CompleteIfDoneError(w) ==
    IF work[w].path = "ok" THEN ReturnNil(w) ELSE ReturnError(w)

\* Mutant: the job's counters alone decide that it is done.
CountRemaining_Skipped(w) ==
    /\ AtStep(w, "remaining")
    /\ Step(w, "read_job")
    /\ UNCHANGED <<jobs, results, river, submit, aged, faults>>

\* MarkJobCompleteIfDone, first statement: any row still open?
CountRemaining(w) ==
    /\ AtStep(w, "remaining")
    /\ \E r \in {"ok", "failed"} :
        /\ Call(TRUE, r)
        /\ IF r = "failed" THEN CompleteIfDoneError(w)
           ELSE IF Settled(work[w].job) THEN Step(w, "read_job") /\ UNCHANGED river
           ELSE ReturnNil(w)
    /\ UNCHANGED <<jobs, results, submit, aged>>

\* Mutant: one failed pair fails the job.
FinalStatus_AnyFailure(job) == IF job.failed > 0 THEN "failed" ELSE "complete"

\* The status a job with these counters is given.
FinalStatus(job) == IF job.failed = job.total THEN "failed" ELSE "complete"

\* Second statement: the counters.  A deleted job is pgx.ErrNoRows.
ReadJob(w) ==
    LET job == jobs[work[w].job] IN
    /\ AtStep(w, "read_job")
    /\ \E r \in {"ok", "failed"} :
        /\ Call(TRUE, r)
        /\ IF r = "failed" \/ ~Exists(work[w].job) THEN CompleteIfDoneError(w)
           ELSE IF job.completed + job.failed < job.total THEN ReturnNil(w)
           ELSE /\ work' = [work EXCEPT ![w].pc = "finalize",
                                        ![w].final = FinalStatus(job)]
                /\ UNCHANGED river
    /\ UNCHANGED <<jobs, results, submit, aged>>

\* Mutant: the update without its IN-list.
Finalize_Unguarded(w) ==
    /\ AtStep(w, "finalize")
    /\ jobs' = IF Exists(work[w].job)
               THEN [jobs EXCEPT ![work[w].job].status = work[w].final] ELSE jobs
    /\ ReturnNil(w)
    /\ UNCHANGED <<results, submit, aged, faults>>

\* Mutant: the IN-list of an earlier version, 'running' only.
Finalize_RunningOnly(w) ==
    /\ AtStep(w, "finalize")
    /\ jobs' = IF jobs[work[w].job].status # "running" THEN jobs
               ELSE [jobs EXCEPT ![work[w].job].status = work[w].final]
    /\ ReturnNil(w)
    /\ UNCHANGED <<results, submit, aged, faults>>

\* Third statement: WHERE status IN ('pending', 'running').
Finalize(w) ==
    /\ AtStep(w, "finalize")
    /\ \E r \in CallResults :
        /\ Call(TRUE, r)
        /\ jobs' = IF r = "failed" \/ jobs[work[w].job].status \notin {"pending", "running"}
                   THEN jobs
                   ELSE [jobs EXCEPT ![work[w].job].status = work[w].final]
        /\ IF r = "ok" THEN ReturnNil(w) ELSE CompleteIfDoneError(w)
    /\ UNCHANGED <<results, submit, aged>>

-----------------------------------------------------------------------------
(* RetentionWorker.Work *)

\* retentionWindow passes; whatever of the job is still queued stays queued.
Expire(j) ==
    /\ j \in Expirable \ aged
    /\ Exists(j) /\ submit[j].pc \in Ended
    /\ aged' = aged \cup {j}
    /\ UNCHANGED <<jobs, results, river, submit, work, faults>>

\* DELETE FROM search_jobs, cascading to search_job_results, not to river_job.
DeleteJobsOlderThan ==
    /\ \E j \in aged : Exists(j)
    /\ jobs' = [j \in Jobs |-> IF j \in aged THEN NoJobRow ELSE jobs[j]]
    /\ results' = [j \in Jobs |-> IF j \in aged THEN [t \in Tuples |-> "none"]
                                  ELSE results[j]]
    /\ UNCHANGED <<river, submit, work, aged, faults>>

-----------------------------------------------------------------------------
(* Specification *)

SubmitStep(j) ==
    \/ GetPendingResults(j) \/ EnqueueBatch(j)
    \/ MarkRunning(j) \/ MarkFailedBestEffort(j)

WorkStep(w) ==
    \/ Ack(w) \/ RateLimiterWait(w) \/ Search(w) \/ UpdateResult(w)
    \/ MarkResultDeadLetter(w) \/ CountResults(w) \/ UpdateJobProgress(w)
    \/ CountRemaining(w) \/ ReadJob(w) \/ Finalize(w)

Next ==
    \/ \E j \in Jobs :
        \/ Reject(j) \/ CreateJob(j) \/ SubmitStep(j)
        \/ Disconnect(j) \/ ApiCrash(j) \/ Expire(j)
        \/ \E t \in Tuples : Rescue(j, t)
    \/ \E w \in Workers :
        \/ Fetch(w) \/ WorkStep(w) \/ WorkerCrash(w) \/ Snooze(w) \/ WaitError(w)
    \/ DeleteJobsOlderThan

Spec == Init /\ [][Next]_vars

(***************************************************************************)
(* A handler that has started goes on until it returns; River keeps        *)
(* fetching while a slot is free and keeps rescuing abandoned entries.     *)
(* Nothing forces a request to arrive, a fault to happen or time to pass.  *)
(***************************************************************************)
Fairness ==
    /\ \A j \in Jobs : WF_vars(SubmitStep(j))
    /\ \A w \in Workers : WF_vars(Fetch(w)) /\ WF_vars(WorkStep(w))
    /\ \A j \in Jobs, t \in Tuples : WF_vars(Rescue(j, t))

FairSpec == Spec /\ Fairness

-----------------------------------------------------------------------------
(* Properties *)

JobRow == [status : JobStatus, total : Nat, completed : Nat, failed : Nat,
           summary : {"null", "set"}]
QueueEntry == [state : RiverState, attempt : 0 .. MaxAttempts]
Handler == [pc : SubmitPC, live : BOOLEAN, inserted : SUBSET Tuples]
Slot == [pc : WorkPC, job : Jobs \cup {None}, tuple : Tuples \cup {None},
         path : {"ok", "dead"}, done : Nat, dead : Nat, final : Final]

\* Every variable has its type; in particular River never runs an entry for
\* more than MaxAttempts attempts, snoozes and rescues included.
TypeOK ==
    /\ jobs \in [Jobs -> JobRow]
    /\ results \in [Jobs -> [Tuples -> RowStatus]]
    /\ river \in [Jobs -> [Tuples -> QueueEntry]]
    /\ submit \in [Jobs -> Handler]
    /\ work \in [Workers -> Slot]
    /\ aged \subseteq Jobs
    /\ faults \in 0 .. MaxFaults

\* A job reported complete has no row left to search, whatever crashed, was
\* retried, or was counted twice in completed_pairs + failed_pairs on the way.
CompleteMeansSettled ==
    \A j \in Jobs : jobs[j].status = "complete" => Settled(j)

\* The counters GET /jobs/{id} reports never exceed the job's size, however
\* often River redelivers a row or two recounts cross.
CountersBounded ==
    \A j \in Jobs : /\ jobs[j].failed <= jobs[j].completed
                    /\ jobs[j].completed <= jobs[j].total
                    /\ jobs[j].total <= MaxPairs

\* No row of a running job is lost to the queue: each one has a River entry.
RunningMeansQueued ==
    \A j \in Jobs : jobs[j].status = "running" =>
        \A t \in RowsIn(j, RowStatus \ {"none"}) : river[j][t].state # "none"

\* When nothing was queued and the client is still there, a request that ends
\* in an error leaves the job failed, not pending: the comment in Submit.  The
\* one fault allowed is the failed enqueue itself: if marking the job failed
\* fails too, it does stay pending.
EnqueueFailureSurfaces ==
    \A j \in Jobs :
        /\ submit[j].pc = "error" /\ submit[j].live /\ faults = 1
        /\ submit[j].inserted # {}
        /\ \A t \in submit[j].inserted : river[j][t].state = "none"
        => jobs[j].status \in {"failed", "none"}

\* Once the POST handler is over, a job that has ended keeps its status until
\* the sweep deletes it: late workers, retries and rescues cannot reopen it or
\* turn failed into complete.
FinalAfterSubmitIsStable ==
    [][\A j \in Jobs : submit[j].pc \in Ended /\ jobs[j].status \in Final
            => jobs'[j].status \in {jobs[j].status, "none"}]_vars

\* As long as no call has failed, a job the workers end as failed has not one row
\* with an answer.
FailedMeansAllDead ==
    \A j \in Jobs : faults = 0 /\ jobs[j].status = "failed"
                    => RowsIn(j, RowStatus \ {"none"}) = RowsIn(j, Dead)

\* Every queued row ends: it is answered, dead-lettered or deleted, or River
\* gives it up, even if its worker crashes, is shut down or loses a call.
RowsSettle ==
    \A j \in Jobs, t \in Tuples :
        river[j][t].state = "available"
            ~> (results[j][t] \notin Open \/ river[j][t].state = "discarded")

\* MarkJobCompleteIfDone "marks the job as complete if no pending or in-flight
\* result rows remain": once the handler and the faults are over, a job whose
\* rows are all queued and not all ended is finalised, be it pending or running,
\* unless River gives one of its rows up or the sweep deletes it.
JobFinalized ==
    \A j \in Jobs :
        (/\ submit[j].pc \in Ended /\ faults = MaxFaults /\ ~Settled(j)
         /\ \A t \in RowsIn(j, Open) : river[j][t].state # "none")
            ~> (\/ jobs[j].status \in Final \cup {"none"}
                \/ \E t \in Tuples : river[j][t].state = "discarded")

(***************************************************************************)
(* What a client may conclude from all this is the specification           *)
(* SearchJob: a job that is gone counts as deleted once it was old enough  *)
(* for the sweep, and a row is open until its status says otherwise.       *)
(***************************************************************************)
Phase(j) ==
    CASE jobs[j].status \in {"pending", "running"} -> "open"
      [] jobs[j].status \in Final -> jobs[j].status
      [] OTHER -> IF j \in aged THEN "deleted" ELSE "absent"

Promise == INSTANCE SearchJob WITH
    phase      <- [j \in Jobs |-> Phase(j)],
    open       <- [j \in Jobs |-> RowsIn(j, Open)],
    submitting <- {j \in Jobs : submit[j].pc \notin Ended}

\* The queue, the retries, the crashes and the sweep keep SearchJob's promise:
\* every step is one of its steps or invisible to it.
ImplementsPromise == Promise!Spec

\* MarkJobCompleteIfDone: "once status becomes 'complete' or 'failed' it no
\* longer matches": a final status is final.
FinalStatusStable ==
    [][\A j \in Jobs : jobs[j].status \in Final
            => jobs'[j].status \in {jobs[j].status, "none"}]_vars

\* ADR-007: a task whose attempts are used up is itself marked.
DiscardedRowSettled ==
    \A j \in Jobs, t \in Tuples :
        river[j][t].state = "discarded" => results[j][t] \notin Open
=============================================================================
