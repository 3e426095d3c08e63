-------------------------- MODULE JobEngine_safety --------------------------
(***************************************************************************)
(* The safety properties of JobEngine that relate a job's counters, its    *)
(* rows, its queue entries and its request, for any sets of jobs, tuples   *)
(* and slots and any bound on attempts and faults.                         *)
(***************************************************************************)
EXTENDS JobEngine_proofs

-----------------------------------------------------------------------------
(* The inductive invariants *)

\* The rows that exist.
Rows(j) == RowsIn(j, RowStatus \ {"none"})

\* A job's size is the number of its rows, and what a slot has counted is still a
\* possible count of the job it is about to write to.
CountersOK(j) ==
    /\ jobs[j].failed <= jobs[j].completed
    /\ jobs[j].completed <= jobs[j].total
    /\ jobs[j].total <= MaxPairs
    /\ Exists(j) => Cardinality(Rows(j)) = jobs[j].total
CountedOK(w) ==
    work[w].pc = "progress" =>
        /\ work[w].dead <= work[w].done
        /\ Exists(work[w].job) => work[w].done <= jobs[work[w].job].total

CountInv == (\A j \in Jobs : CountersOK(j)) /\ (\A w \in Workers : CountedOK(w))

\* How the rows get from the table to the queue before the job is marked running.
QueuedRows(j) == \A t \in Rows(j) : river[j][t].state # "none"
EnqueueOK(j) ==
    /\ submit[j].pc = "created" => Rows(j) = RowsIn(j, {"pending"})
    /\ submit[j].pc = "enqueue" => Rows(j) \subseteq submit[j].inserted
    /\ submit[j].pc = "mark_running" \/ jobs[j].status = "running" => QueuedRows(j)

\* A request that has rows to enqueue and did not: on the way to its error it has
\* met one fault, and a second one if the job is not marked failed.
Unqueued(j) ==
    submit[j].inserted # {} /\ \A t \in submit[j].inserted : river[j][t].state = "none"
SurfaceOK(j) ==
    /\ submit[j].pc \in {"idle", "created"} => submit[j].inserted = {}
    /\ submit[j].pc = "mark_running" => ~Unqueued(j)
    /\ submit[j].live /\ Unqueued(j) =>
        /\ submit[j].pc = "mark_failed" => faults > 0
        /\ submit[j].pc = "error" => faults > 1 \/ jobs[j].status \in {"failed", "none"}

RequestsOK == \A j \in Jobs : EnqueueOK(j) /\ SurfaceOK(j)

-----------------------------------------------------------------------------
(* What the steps of a slot leave alone *)

SlotStep(w) == Fetch(w) \/ WorkStep(w) \/ WorkerCrash(w) \/ Snooze(w) \/ WaitError(w)

\* A call that fails spends a fault, and none is ever given back.
LEMMA CallFaults ==
    ASSUME faults \in Nat, NEW live, NEW r, Call(live, r)
    PROVE  /\ faults' \in Nat /\ faults' >= faults
           /\ live /\ r # "ok" => faults' = faults + 1
BY DEF Call

\* An entry that exists stays one, whatever became of its execution.
EntriesKept == \A j \in Jobs, t \in Tuples : river[j][t].state # "none" => river'[j][t].state # "none"

LEMMA ErrorKeeps ==
    ASSUME IInv, NEW w \in Workers, work[w].pc # "idle", ReturnError(w)
    PROVE  EntriesKept
<1>1. work[w].job \in Jobs /\ work[w].tuple \in Tuples
  BY BusyRow
<1>2. AfterError(river[work[w].job][work[w].tuple]).state # "none"
  BY <1>1, AfterErrorEntry DEF IInv, TypeOK
<1>3. river' = [river EXCEPT ![work[w].job][work[w].tuple] =
                    AfterError(river[work[w].job][work[w].tuple])]
  BY DEF ReturnError, IInv, TypeOK
<1> QED BY <1>1, <1>2, <1>3 DEF IInv, TypeOK, EntriesKept

LEMMA SlotKeepsEntries ==
    ASSUME IInv, NEW w \in Workers, SlotStep(w)
    PROVE  EntriesKept
<1>1. CASE ReturnError(w) /\ work[w].pc # "idle"
  BY <1>1, ErrorKeeps
<1>2. CASE UNCHANGED river
  BY <1>2 DEF EntriesKept
<1>3. CASE Fetch(w)
  BY <1>3 DEF Fetch, EntriesKept, IInv, TypeOK
<1>4. CASE Ack(w) \/ Snooze(w)
  <2>1. work[w].job \in Jobs /\ work[w].tuple \in Tuples
    BY <1>4, BusyRow DEF Ack, Snooze, AtStep
  <2>2. CASE Ack(w)
    BY <2>1, <2>2 DEF Ack, EntriesKept, IInv, TypeOK, QueueEntry
  <2>3. CASE Snooze(w)
    BY <2>1, <2>3 DEF Snooze, EntriesKept, IInv, TypeOK
  <2> QED BY <1>4, <2>2, <2>3
<1>5. ASSUME SlotStep(w), ~Fetch(w), ~Ack(w), ~Snooze(w)
      PROVE  UNCHANGED river \/ (ReturnError(w) /\ work[w].pc # "idle")
  BY <1>5 DEF SlotStep, WorkStep, WorkerCrash, WaitError, RateLimiterWait, Search, UpdateResult,
     MarkResultDeadLetter, PersistRow, CountResults, UpdateJobProgress, CountRemaining, ReadJob,
     Finalize, CompleteIfDoneError, ReturnNil, AtStep
<1> QED BY <1>1, <1>2, <1>3, <1>4, <1>5

\* A step of a slot makes and deletes no row and no job, moves no request, writes
\* no row that was never queued, and ends a job at most.
LEMMA SlotEffect ==
    ASSUME IInv, NEW w \in Workers, SlotStep(w)
    PROVE  /\ UNCHANGED <<submit, aged>>
           /\ EntriesKept
           /\ \A j \in Jobs, t \in Tuples :
                 /\ results'[j][t] = "none" <=> results[j][t] = "none"
                 /\ river[j][t].state = "none" => results'[j][t] = results[j][t]
           /\ \A j \in Jobs : jobs'[j].status # jobs[j].status =>
                 jobs[j].status \in {"pending", "running"} /\ jobs'[j].status \in Final
           /\ \A j \in Jobs : jobs'[j].total = jobs[j].total
<1>1. UNCHANGED <<submit, aged>>
  BY DEF SlotStep, Fetch, WorkStep, WorkerCrash, Snooze, WaitError, Ack, RateLimiterWait, Search,
     UpdateResult, MarkResultDeadLetter, PersistRow, CountResults, UpdateJobProgress,
     CountRemaining, ReadJob, Finalize
<1>2. ASSUME NEW j \in Jobs, NEW t \in Tuples
      PROVE  /\ results'[j][t] = "none" <=> results[j][t] = "none"
             /\ river[j][t].state = "none" => results'[j][t] = results[j][t]
  <2>1. CASE UpdateResult(w) \/ MarkResultDeadLetter(w)
    <3>1. work[w].pc # "idle"
      BY <2>1 DEF UpdateResult, MarkResultDeadLetter, AtStep
    <3>2. /\ work[w].job \in Jobs /\ work[w].tuple \in Tuples
          /\ river[work[w].job][work[w].tuple].state = "running"
      BY <3>1 DEF IInv, SlotInv
    <3>3. Quiet \/ (/\ results[work[w].job][work[w].tuple] # "none"
                    /\ \E s \in {"complete", "dead_letter"} :
                         results' = [results EXCEPT ![work[w].job][work[w].tuple] = s])
      BY <2>1, SettleEffect DEF Settles
    <3>4. CASE Quiet
      BY <3>4 DEF Quiet
    <3>5. CASE ~Quiet
      BY <3>2, <3>3, <3>5, Types
    <3> QED BY <3>4, <3>5
  <2>2. CASE ~(UpdateResult(w) \/ MarkResultDeadLetter(w))
    <3>1. UNCHANGED results
      BY <2>2 DEF SlotStep, Fetch, WorkStep, WorkerCrash, Snooze, WaitError, Ack, RateLimiterWait,
         Search, CountResults, UpdateJobProgress, CountRemaining, ReadJob, Finalize
    <3> QED BY <3>1
  <2> QED BY <2>1, <2>2
<1>3. ASSUME NEW j \in Jobs
      PROVE  /\ jobs'[j].status # jobs[j].status =>
                  jobs[j].status \in {"pending", "running"} /\ jobs'[j].status \in Final
             /\ jobs'[j].total = jobs[j].total
  <2>1. CASE UpdateJobProgress(w)
    <3>1. work[w].job \in Jobs
      BY <2>1, BusyRow DEF UpdateJobProgress, AtStep
    <3>2. \/ jobs' = jobs
          \/ jobs' = [jobs EXCEPT ![work[w].job].completed = work[w].done,
                                  ![work[w].job].failed = work[w].dead]
      BY <2>1 DEF UpdateJobProgress
    <3> QED BY <3>1, <3>2, Types DEF JobRow
  <2>2. CASE Finalize(w)
    <3>1. work[w].job \in Jobs /\ work[w].final \in Final
      BY <2>2, BusyRow, Types DEF Finalize, AtStep, Slot
    <3>2. \/ jobs' = jobs
          \/ /\ jobs[work[w].job].status \in {"pending", "running"}
             /\ jobs' = [jobs EXCEPT ![work[w].job].status = work[w].final]
      BY <2>2 DEF Finalize
    <3>3. CASE jobs' = jobs
      BY <3>3
    <3>4. CASE jobs' # jobs
      <4> DEFINE ended == [jobs[work[w].job] EXCEPT !.status = work[w].final]
      <4>1. ended.status = work[w].final /\ ended.total = jobs[work[w].job].total
        BY <3>1, Types DEF JobRow
      <4>2. jobs' = [jobs EXCEPT ![work[w].job] = ended]
        BY <3>1, <3>2, <3>4, Types
      <4> HIDE DEF ended
      <4> QED BY <3>1, <3>2, <3>4, <4>1, <4>2, Types
    <3> QED BY <3>3, <3>4
  <2>3. CASE ~UpdateJobProgress(w) /\ ~Finalize(w)
    <3>1. UNCHANGED jobs
      BY <2>3 DEF SlotStep, Fetch, WorkStep, WorkerCrash, Snooze, WaitError, Ack, RateLimiterWait,
         Search, UpdateResult, MarkResultDeadLetter, PersistRow, CountResults, CountRemaining, ReadJob
    <3> QED BY <3>1
  <2> QED BY <2>1, <2>2, <2>3
<1> QED BY <1>1, <1>2, <1>3, SlotKeepsEntries

-----------------------------------------------------------------------------
(* From the table to the queue *)

\* No step removes an entry from the queue.
LEMMA StepKeepsEntries ==
    ASSUME IInv, [Next]_vars
    PROVE  EntriesKept
<1>1. CASE UNCHANGED river
  BY <1>1 DEF EntriesKept
<1>2. ASSUME NEW j \in Jobs, EnqueueBatch(j) PROVE EntriesKept
  <2>1. \A i \in Jobs \ {j} : river'[i] = river[i]
    BY <1>2 DEF EnqueueBatch, IInv, TypeOK
  <2>2. \A t \in Tuples : river[j][t].state = "none"
    BY <1>2 DEF EnqueueBatch, IInv, FreshInv
  <2> QED BY <2>1, <2>2 DEF EntriesKept
<1>3. ASSUME NEW j \in Jobs, NEW t \in Tuples, Rescue(j, t) PROVE EntriesKept
  <2>1. AfterError(river[j][t]).state # "none"
    BY AfterErrorEntry DEF IInv, TypeOK
  <2>2. river' = [river EXCEPT ![j][t] = AfterError(river[j][t])]
    BY <1>3 DEF Rescue, IInv, TypeOK
  <2> QED BY <2>1, <2>2 DEF EntriesKept, IInv, TypeOK
<1>4. ASSUME NEW j \in Jobs, Reject(j) \/ CreateJob(j) \/ GetPendingResults(j) \/ MarkRunning(j)
                             \/ MarkFailedBestEffort(j) \/ Disconnect(j) \/ ApiCrash(j) \/ Expire(j)
      PROVE  UNCHANGED river
  BY <1>4 DEF Reject, CreateJob, GetPendingResults, MarkRunning, MarkFailedBestEffort, Disconnect,
     ApiCrash, Expire
<1>5. ASSUME NEW w \in Workers, SlotStep(w) PROVE EntriesKept
  BY <1>5, SlotKeepsEntries
<1>6. DeleteJobsOlderThan \/ UNCHANGED vars => UNCHANGED river
  BY DEF DeleteJobsOlderThan, vars
<1> QED BY <1>1, <1>2, <1>3, <1>4, <1>5, <1>6 DEF Next, SubmitStep, SlotStep

\* What the rows of a job may do once its request has begun: be written when they
\* are queued, or disappear.
RowsKept(j) ==
    \A t \in Tuples :
        /\ results'[j][t] # "none" => results[j][t] # "none"
        /\ river[j][t].state = "none" => results'[j][t] \in {results[j][t], "none"}

\* A job whose request stays where it is, or is over, keeps what it has.
LEMMA EnqueueFrame ==
    ASSUME IInv, IInv', EntriesKept, NEW j \in Jobs, EnqueueOK(j), RowsKept(j),
           submit'[j].pc \in {"created", "enqueue", "mark_running"} =>
               submit'[j].pc = submit[j].pc /\ submit'[j].inserted = submit[j].inserted,
           jobs'[j].status = "running" => jobs[j].status = "running"
    PROVE  EnqueueOK(j)'
<1>1. Rows(j)' \subseteq Rows(j)
  BY Types DEF Rows, RowsIn, RowsKept
<1>2. QueuedRows(j) => QueuedRows(j)'
  <2>1. \A t \in Rows(j)' : t \in Rows(j) /\ t \in Tuples
    BY <1>1 DEF Rows, RowsIn
  <2> QED BY <2>1 DEF QueuedRows, EntriesKept
<1>3. CASE submit'[j].pc = "created"
  <2>1. \A t \in Tuples : results'[j][t] \in {results[j][t], "none"}
    BY <1>3 DEF IInv, FreshInv, RowsKept
  <2>2. Rows(j) = RowsIn(j, {"pending"})
    BY <1>3 DEF EnqueueOK
  <2>3. Rows(j)' = RowsIn(j, {"pending"})'
    BY <2>1, <2>2 DEF Rows, RowsIn, RowStatus
  <2> QED BY <1>2, <1>3, <2>3 DEF EnqueueOK
<1>4. CASE submit'[j].pc # "created"
  BY <1>1, <1>2, <1>4 DEF EnqueueOK
<1> QED BY <1>3, <1>4

\* Likewise for what a request that failed leaves behind.
LEMMA SurfaceFrame ==
    ASSUME IInv, EntriesKept, NEW j \in Jobs, SurfaceOK(j), faults' \in Nat, faults' >= faults,
           submit'[j].pc = submit[j].pc, submit'[j].inserted = submit[j].inserted,
           submit'[j].live => submit[j].live,
           submit[j].pc = "error" /\ jobs[j].status \in {"failed", "none"}
               => jobs'[j].status \in {"failed", "none"}
    PROVE  SurfaceOK(j)'
<1>1. Unqueued(j)' => Unqueued(j)
  <2>1. submit[j].inserted \subseteq Tuples
    BY Types DEF Handler
  <2> QED BY <2>1 DEF Unqueued, EntriesKept
<1>2. faults \in Nat
  BY ConstantsOK DEF IInv, TypeOK
<1> QED BY <1>1, <1>2 DEF SurfaceOK

\* A step of one request leaves the other jobs alone.
OthersKept(i) ==
    \A j \in Jobs \ {i} : /\ jobs'[j].status = jobs[j].status
                         /\ results'[j] = results[j] /\ submit'[j] = submit[j]

\* What every step of the engine brings along.
Stepping ==
    /\ IInv /\ IInv' /\ RequestsOK /\ EntriesKept
    /\ faults \in Nat /\ faults' \in Nat /\ faults' >= faults

LEMMA OneRequest ==
    ASSUME Stepping, NEW i \in Jobs, OthersKept(i), EnqueueOK(i)', SurfaceOK(i)'
    PROVE  RequestsOK'
<1>1. ASSUME NEW j \in Jobs \ {i} PROVE EnqueueOK(j)' /\ SurfaceOK(j)'
  <2>1. RowsKept(j)
    BY DEF OthersKept, RowsKept
  <2>2. EnqueueOK(j) /\ SurfaceOK(j)
    BY DEF Stepping, RequestsOK
  <2> QED BY <2>1, <2>2, EnqueueFrame, SurfaceFrame DEF OthersKept, Stepping
<1> QED BY <1>1 DEF RequestsOK

\* A request that ends, or is cut off, without having looked for its rows.
LEMMA RejectRequests ==
    ASSUME Stepping, NEW i \in Jobs, Reject(i) \/ ApiCrash(i) \/ Disconnect(i)
    PROVE  RequestsOK'
<1>1. /\ OthersKept(i) /\ UNCHANGED <<jobs, results>>
      /\ submit'[i].inserted = submit[i].inserted
      /\ submit'[i].live => submit[i].live
      /\ \/ Reject(i) /\ submit'[i].pc = "error" /\ submit[i].pc = "idle"
         \/ ApiCrash(i) /\ submit'[i].pc = "crashed"
         \/ Disconnect(i) /\ submit'[i].pc = submit[i].pc
  BY Types DEF Stepping, Reject, ApiCrash, Disconnect, Goto, OthersKept, Handler
<1>2. EnqueueOK(i) /\ SurfaceOK(i)
  BY DEF Stepping, RequestsOK
<1>3. EnqueueOK(i)'
  <2>1. RowsKept(i)
    BY <1>1 DEF RowsKept
  <2> QED BY <1>1, <1>2, <2>1, EnqueueFrame DEF Stepping
<1>4. SurfaceOK(i)'
  <2>1. CASE Disconnect(i) /\ submit'[i].pc = submit[i].pc
    BY <1>1, <1>2, <2>1, SurfaceFrame DEF Stepping
  <2>2. CASE submit'[i].pc = "crashed"
    BY <2>2 DEF SurfaceOK
  <2>3. CASE submit'[i].pc = "error" /\ submit[i].pc = "idle"
    BY <1>1, <1>2, <2>3 DEF SurfaceOK, Unqueued
  <2> QED BY <1>1, <2>1, <2>2, <2>3
<1> QED BY <1>1, <1>3, <1>4, OneRequest

\* The rows of a job that was just created are all pending.
LEMMA CreateRequests ==
    ASSUME Stepping, NEW i \in Jobs, CreateJob(i)
    PROVE  RequestsOK'
<1>0. EnqueueOK(i) /\ SurfaceOK(i) /\ submit[i].pc = "idle"
  BY DEF Stepping, RequestsOK, CreateJob
<1>1. PICK pc \in {"created", "error"} : Goto(i, pc)
  BY DEF CreateJob
<1>2. /\ submit'[i].pc = pc /\ submit'[i].inserted = submit[i].inserted
      /\ \A j \in Jobs \ {i} : submit'[j] = submit[j]
  BY <1>1, Types DEF Goto, Stepping, Handler, SubmitPC
<1>3. SurfaceOK(i)'
  BY <1>0, <1>2 DEF SurfaceOK, Unqueued
<1>4. CASE UNCHANGED <<jobs, results>> /\ pc = "error"
  <2>1. RowsKept(i) /\ OthersKept(i)
    BY <1>2, <1>4 DEF RowsKept, OthersKept
  <2>2. EnqueueOK(i)'
    BY <1>0, <1>2, <1>4, <2>1, EnqueueFrame DEF Stepping
  <2> QED BY <1>3, <2>1, <2>2, OneRequest
<1>5. CASE ~(UNCHANGED <<jobs, results>> /\ pc = "error")
  <2>1. EndsQuietly(i) \/ Creates(i)
    BY CreateEffect DEF Stepping
  <2>2. PICK T \in SUBSET Tuples, r \in CallResults :
          /\ IF r = "failed" THEN UNCHANGED <<jobs, results>>
             ELSE /\ jobs' = [jobs EXCEPT ![i] = [NoJobRow EXCEPT
                                 !.status = "pending", !.total = Cardinality(T)]]
                  /\ results' = [results EXCEPT ![i] =
                        [t \in Tuples |-> IF t \in T THEN "pending" ELSE "none"]]
          /\ Goto(i, IF r = "ok" THEN "created" ELSE "error")
    BY DEF CreateJob
  <2>3. r # "failed"
    <3>1. r = "failed" => submit'[i].pc = "error"
      BY <2>2, GotoType, Types DEF Stepping, SubmitPC
    <3> QED BY <1>2, <1>5, <2>2, <3>1
  <2>4. /\ \A j \in Jobs \ {i} : jobs'[j] = jobs[j] /\ results'[j] = results[j]
        /\ \A t \in Tuples : results'[i][t] \in {"none", "pending"}
        /\ jobs'[i].status = "pending"
    <3> DEFINE row == [NoJobRow EXCEPT !.status = "pending", !.total = Cardinality(T)]
    <3>1. row.status = "pending"
      BY DEF NoJobRow
    <3>2. jobs' = [jobs EXCEPT ![i] = row]
      BY <2>2, <2>3
    <3> HIDE DEF row
    <3> QED BY <2>2, <2>3, <3>1, <3>2, Types DEF Stepping
  <2>5. EnqueueOK(i)'
    <3>1. Rows(i)' = RowsIn(i, {"pending"})'
      BY <2>4 DEF Rows, RowsIn, RowStatus
    <3> QED BY <1>2, <2>4, <3>1 DEF EnqueueOK
  <2>6. OthersKept(i)
    BY <1>2, <2>4 DEF OthersKept
  <2> QED BY <1>3, <2>5, <2>6, OneRequest
<1> QED BY <1>4, <1>5

\* What is enqueued is what the job has.
LEMMA ReadBackRequests ==
    ASSUME Stepping, NEW i \in Jobs, GetPendingResults(i)
    PROVE  RequestsOK'
<1>0. /\ EnqueueOK(i) /\ SurfaceOK(i) /\ submit[i].pc = "created"
      /\ UNCHANGED <<jobs, results, river>>
  BY DEF Stepping, RequestsOK, GetPendingResults
<1>1. /\ \A j \in Jobs \ {i} : submit'[j] = submit[j]
      /\ \/ submit'[i].pc = "enqueue" /\ submit'[i].inserted = RowsIn(i, {"pending"})
         \/ submit'[i].pc = "mark_failed" /\ submit'[i].inserted = submit[i].inserted
  BY Types DEF GetPendingResults, Stepping, Handler
<1>2. OthersKept(i)
  BY <1>0, <1>1 DEF OthersKept
<1>3. RowsKept(i)
  BY <1>0 DEF RowsKept
<1>4. SurfaceOK(i)'
  BY <1>0, <1>1 DEF SurfaceOK, Unqueued
<1>5. EnqueueOK(i)'
  <2>1. Rows(i)' = RowsIn(i, {"pending"})
    BY <1>0 DEF EnqueueOK, Rows, RowsIn
  <2>2. jobs'[i].status = "running" => QueuedRows(i)'
    BY <1>0 DEF EnqueueOK, QueuedRows, Rows, RowsIn
  <2> QED BY <1>1, <2>1, <2>2 DEF EnqueueOK
<1> QED BY <1>2, <1>4, <1>5, OneRequest

\* The batch holds every row; when it fails and nobody disconnected, a fault has
\* been spent.
LEMMA EnqueueRequests ==
    ASSUME Stepping, NEW i \in Jobs, EnqueueBatch(i)
    PROVE  RequestsOK'
<1>0. /\ EnqueueOK(i) /\ SurfaceOK(i) /\ submit[i].pc = "enqueue"
      /\ UNCHANGED <<jobs, results>> /\ submit[i].inserted \subseteq Tuples
  BY Types DEF Stepping, RequestsOK, EnqueueBatch, Handler
<1>1. PICK r \in CallResults :
        /\ Call(submit[i].live \/ submit[i].inserted = {}, r)
        /\ river' = IF r = "failed" THEN river
              ELSE [river EXCEPT ![i] = [t \in Tuples |->
                      IF t \in submit[i].inserted
                      THEN [state |-> "available", attempt |-> 0] ELSE @[t]]]
        /\ Goto(i, IF r = "ok" THEN "mark_running" ELSE "mark_failed")
  BY DEF EnqueueBatch
<1>2. /\ \A j \in Jobs \ {i} : submit'[j] = submit[j]
      /\ submit'[i].pc = IF r = "ok" THEN "mark_running" ELSE "mark_failed"
      /\ submit'[i].inserted = submit[i].inserted /\ submit'[i].live = submit[i].live
  BY <1>1, Types DEF Goto, Stepping, Handler
<1>3. OthersKept(i)
  BY <1>0, <1>2 DEF OthersKept
<1>4. r = "ok" => \A t \in submit[i].inserted : river'[i][t].state = "available"
  BY <1>0, <1>1 DEF Stepping, IInv, TypeOK
<1>5. SurfaceOK(i)'
  <2>1. CASE r = "ok"
    BY <1>2, <1>4, <2>1 DEF SurfaceOK, Unqueued
  <2>2. CASE r # "ok"
    <3>1. submit[i].live => faults' > 0
      BY <1>1, <2>2 DEF Call, Stepping
    <3> QED BY <1>2, <2>2, <3>1 DEF SurfaceOK
  <2> QED BY <2>1, <2>2
<1>6. EnqueueOK(i)'
  <2>1. Rows(i)' = Rows(i) /\ Rows(i) \subseteq submit[i].inserted
    BY <1>0 DEF EnqueueOK, Rows, RowsIn
  <2>2. r = "ok" => QueuedRows(i)'
    BY <1>4, <2>1 DEF QueuedRows
  <2>3. jobs'[i].status = "running" => QueuedRows(i)'
    <3>1. Rows(i) \subseteq Tuples
      BY DEF Rows, RowsIn
    <3> QED BY <1>0, <2>1, <3>1 DEF EnqueueOK, QueuedRows, Stepping, EntriesKept
  <2> QED BY <1>2, <2>2, <2>3 DEF EnqueueOK
<1> QED BY <1>3, <1>5, <1>6, OneRequest

\* A request marks its job running only with every row queued.
LEMMA RunningRequests ==
    ASSUME Stepping, NEW i \in Jobs, MarkRunning(i)
    PROVE  RequestsOK'
<1>0. /\ EnqueueOK(i) /\ SurfaceOK(i) /\ submit[i].pc = "mark_running"
      /\ UNCHANGED <<results, river>>
  BY DEF Stepping, RequestsOK, MarkRunning
<1>1. /\ \A j \in Jobs \ {i} : submit'[j] = submit[j]
      /\ submit'[i].pc \in {"accepted", "error"}
      /\ submit'[i].inserted = submit[i].inserted
  BY Types DEF MarkRunning, Goto, Stepping, Handler
<1>2. \A j \in Jobs \ {i} : jobs'[j] = jobs[j]
  BY Types DEF MarkRunning, MarkJobStatus, Stepping
<1>3. OthersKept(i)
  BY <1>0, <1>1, <1>2 DEF OthersKept
<1>4. EnqueueOK(i)'
  <2>1. QueuedRows(i)'
    BY <1>0 DEF EnqueueOK, QueuedRows, Rows, RowsIn
  <2> QED BY <1>1, <2>1 DEF EnqueueOK
<1>5. SurfaceOK(i)'
  BY <1>0, <1>1 DEF SurfaceOK, Unqueued
<1> QED BY <1>3, <1>4, <1>5, OneRequest

\* Either the job is marked failed, or that call failed too.
LEMMA FailedRequests ==
    ASSUME Stepping, NEW i \in Jobs, MarkFailedBestEffort(i)
    PROVE  RequestsOK'
<1>0. /\ EnqueueOK(i) /\ SurfaceOK(i) /\ submit[i].pc = "mark_failed"
      /\ UNCHANGED <<results, river>>
  BY DEF Stepping, RequestsOK, MarkFailedBestEffort
<1>1. /\ \A j \in Jobs \ {i} : submit'[j] = submit[j]
      /\ submit'[i].pc = "error" /\ submit'[i].live = submit[i].live
      /\ submit'[i].inserted = submit[i].inserted
  BY Types DEF MarkFailedBestEffort, Goto, Stepping, Handler
<1>2. PICK r \in CallResults :
        /\ Call(submit[i].live, r)
        /\ IF r = "failed" THEN UNCHANGED jobs ELSE MarkJobStatus(i, "failed", "set")
  BY DEF MarkFailedBestEffort
<1>3. /\ \A j \in Jobs \ {i} : jobs'[j] = jobs[j]
      /\ IF r = "failed" THEN jobs'[i] = jobs[i] ELSE jobs'[i].status \in {"failed", "none"}
  BY <1>2, Types DEF MarkJobStatus, Stepping, Exists, JobRow
<1>4. OthersKept(i)
  BY <1>0, <1>1, <1>3 DEF OthersKept
<1>5. EnqueueOK(i)'
  <2>1. jobs'[i].status = "running" => QueuedRows(i)'
    BY <1>0, <1>3 DEF EnqueueOK, QueuedRows, Rows, RowsIn
  <2> QED BY <1>1, <2>1 DEF EnqueueOK
<1>6. SurfaceOK(i)'
  <2>1. submit[i].live /\ r = "failed" => faults' = faults + 1
    BY <1>2 DEF Call
  <2>2. Unqueued(i)' => Unqueued(i)
    BY <1>0, <1>1 DEF Unqueued
  <2> QED BY <1>0, <1>1, <1>3, <2>1, <2>2 DEF SurfaceOK, Stepping
<1> QED BY <1>4, <1>5, <1>6, OneRequest

\* Slots, rescues, time and the sweep move no request; a job that failed or was
\* never created stays so once its request is over.
LEMMA BehindRequests ==
    ASSUME Stepping, UNCHANGED submit, \A j \in Jobs : RowsKept(j),
           \A j \in Jobs : jobs'[j].status # jobs[j].status =>
              \/ jobs'[j].status = "none"
              \/ jobs[j].status \in {"pending", "running"} /\ jobs'[j].status \in Final
    PROVE  RequestsOK'
<1> SUFFICES ASSUME NEW j \in Jobs PROVE EnqueueOK(j)' /\ SurfaceOK(j)'
  BY DEF RequestsOK
<1>1. EnqueueOK(j) /\ SurfaceOK(j)
  BY DEF Stepping, RequestsOK
<1>2. /\ jobs'[j].status = "running" => jobs[j].status = "running"
      /\ jobs[j].status \in {"failed", "none"} => jobs'[j].status \in {"failed", "none"}
  BY DEF Final
<1> QED BY <1>1, <1>2, EnqueueFrame, SurfaceFrame DEF Stepping

\* The faults of a run are counted upwards only.
LEMMA FaultsGrow ==
    ASSUME IInv, [Next]_vars
    PROVE  faults \in Nat /\ faults' \in Nat /\ faults' >= faults
<1>1. faults \in Nat
  BY ConstantsOK DEF IInv, TypeOK
<1>2. CASE UNCHANGED faults \/ faults' = faults + 1
  BY <1>1, <1>2
<1>3. ASSUME NEW live, NEW r, Call(live, r) PROVE faults' = faults \/ faults' = faults + 1
  BY <1>3 DEF Call
<1>4. ASSUME NEW j \in Jobs, Reject(j) \/ CreateJob(j) \/ SubmitStep(j) \/ Disconnect(j)
                             \/ ApiCrash(j) \/ Expire(j) \/ (\E t \in Tuples : Rescue(j, t))
      PROVE  faults' = faults \/ faults' = faults + 1
  BY <1>3, <1>4 DEF Reject, CreateJob, SubmitStep, GetPendingResults, EnqueueBatch, MarkRunning,
     MarkFailedBestEffort, Disconnect, ApiCrash, Expire, Rescue
<1>5. ASSUME NEW w \in Workers, SlotStep(w) PROVE faults' = faults \/ faults' = faults + 1
  BY <1>3, <1>5 DEF SlotStep, Fetch, WorkStep, WorkerCrash, Snooze, WaitError, Ack, RateLimiterWait,
     Search, UpdateResult, MarkResultDeadLetter, PersistRow, CountResults, UpdateJobProgress,
     CountRemaining, ReadJob, Finalize
<1>6. DeleteJobsOlderThan \/ UNCHANGED vars => UNCHANGED faults
  BY DEF DeleteJobsOlderThan, vars
<1> QED BY <1>2, <1>4, <1>5, <1>6 DEF Next, SlotStep

\* Every step keeps what is known of the requests.
LEMMA StepRequestsOK ==
    ASSUME IInv, RequestsOK, [Next]_vars
    PROVE  RequestsOK'
<1>0. Stepping
  BY StepInv, StepKeepsEntries, FaultsGrow DEF Stepping
<1>1. ASSUME NEW i \in Jobs, Reject(i) \/ CreateJob(i) \/ SubmitStep(i) \/ Disconnect(i) \/ ApiCrash(i)
      PROVE  RequestsOK'
  BY <1>0, <1>1, RejectRequests, CreateRequests, ReadBackRequests, EnqueueRequests, RunningRequests,
     FailedRequests DEF SubmitStep
<1>2. ASSUME NEW w \in Workers, SlotStep(w) PROVE RequestsOK'
  <2>1. \A j \in Jobs : RowsKept(j)
    BY <1>2, SlotEffect DEF RowsKept
  <2> QED BY <1>0, <1>2, <2>1, SlotEffect, BehindRequests
<1>3. ASSUME NEW j \in Jobs, Expire(j) \/ (\E t \in Tuples : Rescue(j, t)) PROVE RequestsOK'
  <2>1. UNCHANGED <<jobs, results, submit>>
    BY <1>3 DEF Expire, Rescue
  <2> QED BY <1>0, <2>1, BehindRequests DEF RowsKept
<1>4. CASE DeleteJobsOlderThan
  <2>1. \A j \in Jobs : RowsKept(j)
    BY <1>4 DEF DeleteJobsOlderThan, RowsKept
  <2>2. \A j \in Jobs : jobs'[j].status # jobs[j].status => jobs'[j].status = "none"
    BY <1>4 DEF DeleteJobsOlderThan, NoJobRow
  <2>3. UNCHANGED submit
    BY <1>4 DEF DeleteJobsOlderThan
  <2> QED BY <1>0, <2>1, <2>2, <2>3, BehindRequests
<1>5. CASE UNCHANGED vars
  <2>1. UNCHANGED <<jobs, results, submit>>
    BY <1>5 DEF vars
  <2> QED BY <1>0, <2>1, BehindRequests DEF RowsKept
<1> QED BY <1>1, <1>2, <1>3, <1>4, <1>5 DEF Next, SlotStep

LEMMA InitRequestsOK == Init => RequestsOK
<1> SUFFICES ASSUME Init PROVE RequestsOK OBVIOUS
<1>1. \A j \in Jobs : /\ submit[j].pc = "idle" /\ submit[j].inserted = {}
                      /\ jobs[j].status = "none"
  BY DEF Init, NoJobRow
<1> QED BY <1>1 DEF RequestsOK, EnqueueOK, SurfaceOK, Unqueued

LEMMA RequestsInvariant == Spec => [](IInv /\ RequestsOK)
BY InitInv, StepInv, InitRequestsOK, StepRequestsOK, PTL DEF Spec

\* No row of a running job is lost between the table and the queue, for any size
\* of the batch and whatever fails on the way.
THEOREM RunningIsQueued == Spec => []RunningMeansQueued
<1>1. RequestsOK => RunningMeansQueued
  BY DEF RequestsOK, EnqueueOK, RunningMeansQueued, QueuedRows, Rows
<1> QED BY <1>1, RequestsInvariant, PTL

\* A failed enqueue is never silent unless a second call fails: the job is failed,
\* or gone, when the client that is still there gets its error.
THEOREM EnqueueFailuresSurface == Spec => []EnqueueFailureSurfaces
<1>1. RequestsOK => EnqueueFailureSurfaces
  BY DEF RequestsOK, SurfaceOK, Unqueued, EnqueueFailureSurfaces
<1> QED BY <1>1, RequestsInvariant, PTL

-----------------------------------------------------------------------------
(* The counters *)

\* A job keeps its size, its counters and the set of its rows, or goes away.
CountsKept(j) ==
    \/ jobs'[j] = NoJobRow
    \/ /\ jobs'[j].total = jobs[j].total /\ jobs'[j].completed = jobs[j].completed
       /\ jobs'[j].failed = jobs[j].failed
       /\ jobs'[j].status # "none" => jobs[j].status # "none"
       /\ \A t \in Tuples : results'[j][t] = "none" <=> results[j][t] = "none"

\* A step that leaves all counts alone, and counts nothing.
LEMMA CountFrame ==
    ASSUME IInv, IInv', CountInv, \A j \in Jobs : CountsKept(j),
           \A w \in Workers : work'[w].pc = "progress" => work'[w] = work[w]
    PROVE  CountInv'
<1>1. ASSUME NEW j \in Jobs PROVE CountersOK(j)'
  <2>1. CountersOK(j)
    BY DEF CountInv
  <2>2. CASE jobs'[j] = NoJobRow
    BY <2>2, ConstantsOK DEF NoJobRow, CountersOK, Exists
  <2>3. CASE jobs'[j] # NoJobRow
    <3>1. Rows(j)' = Rows(j)
      BY <2>3 DEF CountsKept, Rows, RowsIn, IInv, TypeOK
    <3> QED BY <2>1, <2>3, <3>1 DEF CountsKept, CountersOK, Exists
  <2> QED BY <2>2, <2>3
<1>2. ASSUME NEW w \in Workers, work'[w].pc = "progress" PROVE CountedOK(w)'
  <2>1. /\ work'[w] = work[w] /\ work[w].job \in Jobs
        /\ work[w].done \in Nat /\ CountedOK(w)
    BY <1>2, BusyRow, Types DEF CountInv, Slot
  <2>2. CASE jobs'[work[w].job] = NoJobRow
    BY <2>1, <2>2, <1>2 DEF CountedOK, Exists, NoJobRow
  <2>3. CASE jobs'[work[w].job] # NoJobRow
    <3>1. /\ jobs'[work[w].job].total = jobs[work[w].job].total
          /\ jobs'[work[w].job].status # "none" => jobs[work[w].job].status # "none"
      BY <2>1, <2>3 DEF CountsKept
    <3>2. work[w].pc = "progress"
      BY <2>1, <1>2
    <3> QED BY <2>1, <3>1, <3>2 DEF CountedOK, Exists
  <2> QED BY <2>2, <2>3
<1> QED BY <1>1, <1>2 DEF CountInv, CountedOK

\* The slot a step leaves behind is the only one it changes.
LEMMA SlotSteps ==
    ASSUME IInv, NEW w \in Workers
    PROVE  /\ \A pc : Step(w, pc) => /\ \A v \in Workers \ {w} : work'[v] = work[v]
                                    /\ work'[w].pc = pc /\ work'[w].job = work[w].job
                                    /\ work'[w].tuple = work[w].tuple
           /\ work' = [work EXCEPT ![w] = IdleSlot] => /\ \A v \in Workers \ {w} : work'[v] = work[v]
                                                       /\ work'[w].pc = "idle"
<1>1. ASSUME NEW pc, Step(w, pc)
      PROVE  /\ \A v \in Workers \ {w} : work'[v] = work[v]
             /\ work'[w].pc = pc /\ work'[w].job = work[w].job /\ work'[w].tuple = work[w].tuple
  BY <1>1, Types DEF Step, Slot
<1>2. work' = [work EXCEPT ![w] = IdleSlot] => /\ \A v \in Workers \ {w} : work'[v] = work[v]
                                              /\ work'[w].pc = "idle"
  BY Types DEF IdleSlot
<1> QED BY <1>1, <1>2

\* Only CountResults brings a slot to the write of the counters.
LEMMA SlotProgress ==
    ASSUME IInv, NEW w \in Workers, SlotStep(w)
    PROVE  /\ \A v \in Workers \ {w} : work'[v] = work[v]
           /\ ~CountResults(w) => work'[w].pc # "progress"
<1> DEFINE Leaves == work' = [work EXCEPT ![w] = IdleSlot]
           Goes   == \E pc \in WorkPC \ {"progress"} : Step(w, pc)
<1>1. CASE Leaves
  BY <1>1, SlotSteps
<1>2. CASE Goes
  BY <1>2, SlotSteps
<1>3. CASE Fetch(w)
  BY <1>3, Types DEF Fetch, IdleSlot
<1>4. CASE work' = [work EXCEPT ![w].pc = "dead_letter", ![w].path = "dead"]
  BY <1>4, Types DEF Slot
<1>5. CASE \E s : work' = [work EXCEPT ![w].pc = "finalize", ![w].final = s]
  BY <1>5, Types DEF Slot
<1>6. CASE CountResults(w)
  BY <1>6, Types DEF CountResults, Slot
<1>7. ReturnNil(w) => Goes
  BY DEF ReturnNil, WorkPC
<1>8. ReturnError(w) => Leaves
  BY DEF ReturnError
<1>9. CASE Ack(w) \/ WorkerCrash(w) \/ Snooze(w) \/ WaitError(w)
  BY <1>1, <1>8, <1>9 DEF Ack, WorkerCrash, Snooze, WaitError
<1>10. CASE RateLimiterWait(w) \/ Search(w)
  <2>1. Goes \/ Leaves \/ work' = [work EXCEPT ![w].pc = "dead_letter", ![w].path = "dead"]
    BY <1>8, <1>10 DEF RateLimiterWait, Search, WorkPC
  <2> QED BY <1>1, <1>2, <1>4, <2>1
<1>11. CASE UpdateResult(w) \/ MarkResultDeadLetter(w) \/ UpdateJobProgress(w)
  <2>1. Goes \/ Leaves
    BY <1>8, <1>11 DEF UpdateResult, MarkResultDeadLetter, PersistRow, UpdateJobProgress, WorkPC
  <2> QED BY <1>1, <1>2, <2>1
<1>12. CASE CountRemaining(w) \/ Finalize(w)
  <2>1. Goes \/ Leaves
    BY <1>7, <1>8, <1>12 DEF CountRemaining, Finalize, CompleteIfDoneError, WorkPC
  <2> QED BY <1>1, <1>2, <2>1
<1>13. CASE ReadJob(w)
  <2>1. Goes \/ Leaves \/ \E s : work' = [work EXCEPT ![w].pc = "finalize", ![w].final = s]
    BY <1>7, <1>8, <1>13 DEF ReadJob, CompleteIfDoneError
  <2> QED BY <1>1, <1>2, <1>5, <2>1
<1> QED BY <1>3, <1>6, <1>9, <1>10, <1>11, <1>12, <1>13 DEF SlotStep, WorkStep

\* Only UpdateJobProgress writes counters.
LEMMA SlotCounters ==
    ASSUME IInv, NEW w \in Workers, SlotStep(w), ~UpdateJobProgress(w)
    PROVE  \A j \in Jobs : CountsKept(j)
<1>1. ASSUME NEW j \in Jobs
      PROVE  jobs'[j].completed = jobs[j].completed /\ jobs'[j].failed = jobs[j].failed
  <2>1. CASE Finalize(w)
    <3>1. \/ jobs' = jobs
          \/ jobs' = [jobs EXCEPT ![work[w].job].status = work[w].final]
      BY <2>1 DEF Finalize
    <3> QED BY <3>1, Types DEF JobRow
  <2>2. CASE ~Finalize(w)
    <3>1. UNCHANGED jobs
      BY <2>2 DEF SlotStep, Fetch, WorkStep, WorkerCrash, Snooze, WaitError, Ack, RateLimiterWait,
         Search, UpdateResult, MarkResultDeadLetter, PersistRow, CountResults, CountRemaining, ReadJob
    <3> QED BY <3>1
  <2> QED BY <2>1, <2>2
<1> QED BY <1>1, SlotEffect DEF CountsKept, Final

\* A recount counts rows of the job, and dead rows among the done ones.
LEMMA Recount ==
    ASSUME NEW j
    PROVE  /\ Cardinality(RowsIn(j, Dead)) <= Cardinality(RowsIn(j, Done))
           /\ Cardinality(RowsIn(j, Done)) <= Cardinality(Rows(j))
<1>1. IsFiniteSet(Rows(j)) /\ IsFiniteSet(RowsIn(j, Done))
  BY ConstantsOK, FS_Subset DEF Rows, RowsIn
<1>2. RowsIn(j, Dead) \subseteq RowsIn(j, Done) /\ RowsIn(j, Done) \subseteq Rows(j)
  BY DEF Rows, RowsIn, Dead, Done, RowStatus
<1> QED BY <1>1, <1>2, FS_Subset

LEMMA CountResultsCounts ==
    ASSUME IInv, IInv', CountInv, NEW w \in Workers, CountResults(w)
    PROVE  CountInv'
<1>1. work[w].job \in Jobs /\ UNCHANGED <<jobs, results>>
  BY BusyRow DEF CountResults, AtStep
<1>2. /\ \A v \in Workers \ {w} : work'[v] = work[v]
      /\ work'[w].job = work[w].job
      /\ work'[w].done = Cardinality(RowsIn(work[w].job, Done))
      /\ work'[w].dead = Cardinality(RowsIn(work[w].job, Dead))
  BY Types DEF CountResults, Slot
<1>3. ASSUME NEW j \in Jobs PROVE CountersOK(j)'
  BY <1>1 DEF CountInv, CountersOK, Exists, Rows, RowsIn
<1>4. CountedOK(w)'
  BY <1>1, <1>2, Recount DEF CountedOK, CountInv, CountersOK, Exists
<1>5. ASSUME NEW v \in Workers \ {w} PROVE CountedOK(v)'
  BY <1>1, <1>2 DEF CountInv, CountedOK, Exists
<1> QED BY <1>3, <1>4, <1>5 DEF CountInv

\* The counters written are those of an old snapshot: they are in range all the same,
\* because the job's size has not changed since.
LEMMA ProgressCounts ==
    ASSUME IInv, IInv', CountInv, NEW w \in Workers, UpdateJobProgress(w)
    PROVE  CountInv'
<1> DEFINE j0 == work[w].job
<1>1. /\ j0 \in Jobs /\ work[w].pc = "progress" /\ UNCHANGED results
      /\ work[w].done \in Nat /\ work[w].dead \in Nat
  BY BusyRow, Types DEF UpdateJobProgress, AtStep, Slot
<1>2. \A v \in Workers : work'[v].pc = "progress" => work'[v] = work[v]
  BY SlotProgress DEF SlotStep, WorkStep, UpdateJobProgress, CountResults, AtStep
<1>3. \/ jobs' = jobs
      \/ /\ Exists(j0)
         /\ jobs' = [jobs EXCEPT ![j0].completed = work[w].done, ![j0].failed = work[w].dead]
  BY DEF UpdateJobProgress
<1>4. CASE jobs' = jobs
  BY <1>1, <1>2, <1>4, CountFrame DEF CountsKept
<1>5. CASE jobs' # jobs
  <2> DEFINE row == [jobs[j0] EXCEPT !.completed = work[w].done, !.failed = work[w].dead]
  <2>1. /\ row.completed = work[w].done /\ row.failed = work[w].dead
        /\ row.total = jobs[j0].total /\ row.status = jobs[j0].status
    BY <1>1, Types DEF JobRow
  <2>2. jobs' = [jobs EXCEPT ![j0] = row]
    BY <1>1, <1>3, <1>5, Types
  <2> HIDE DEF row
  <2>3. jobs'[j0] = row /\ \A j \in Jobs \ {j0} : jobs'[j] = jobs[j]
    BY <1>1, <2>2, Types
  <2>4. ASSUME NEW j \in Jobs PROVE CountersOK(j)'
    <3>1. Rows(j)' = Rows(j) /\ CountersOK(j)
      BY <1>1 DEF Rows, RowsIn, CountInv
    <3>2. CASE j = j0
      <4>1. work[w].dead <= work[w].done /\ work[w].done <= jobs[j0].total
        BY <1>1, <1>3, <1>5 DEF CountInv, CountedOK
      <4> QED BY <1>3, <1>5, <2>1, <2>3, <3>1, <3>2, <4>1 DEF CountersOK, Exists
    <3>3. CASE j # j0
      BY <2>3, <3>1, <3>3 DEF CountersOK, Exists
    <3> QED BY <3>2, <3>3
  <2>5. ASSUME NEW v \in Workers, work'[v].pc = "progress" PROVE CountedOK(v)'
    <3>1. work'[v] = work[v] /\ work[v].job \in Jobs /\ CountedOK(v)
      BY <1>2, <2>5, BusyRow DEF CountInv
    <3>2. /\ jobs'[work[v].job].total = jobs[work[v].job].total
          /\ jobs'[work[v].job].status = jobs[work[v].job].status
      BY <2>1, <2>3, <3>1
    <3> QED BY <2>5, <3>1, <3>2 DEF CountedOK, Exists
  <2> QED BY <2>4, <2>5 DEF CountInv, CountedOK
<1> QED BY <1>4, <1>5

\* A job is created with as many rows as its size says, and no slot has counted it.
LEMMA CreateCounts ==
    ASSUME IInv, IInv', CountInv, NEW i \in Jobs, CreateJob(i)
    PROVE  CountInv'
<1>1. PICK T \in SUBSET Tuples, r \in CallResults :
        /\ Cardinality(T) <= MaxPairs
        /\ IF r = "failed" THEN UNCHANGED <<jobs, results>>
           ELSE /\ jobs' = [jobs EXCEPT ![i] = [NoJobRow EXCEPT
                               !.status = "pending", !.total = Cardinality(T)]]
                /\ results' = [results EXCEPT ![i] =
                      [t \in Tuples |-> IF t \in T THEN "pending" ELSE "none"]]
  BY DEF CreateJob
<1>2. UNCHANGED work
  BY DEF CreateJob
<1>3. CASE r = "failed"
  BY <1>1, <1>2, <1>3, CountFrame DEF CountsKept
<1>4. CASE r # "failed"
  <2> DEFINE row == [NoJobRow EXCEPT !.status = "pending", !.total = Cardinality(T)]
  <2>1. /\ row.total = Cardinality(T) /\ row.completed = 0 /\ row.failed = 0
        /\ Cardinality(T) \in Nat
    BY ConstantsOK, FS_Subset, FS_CardinalityType DEF NoJobRow
  <2>2. jobs' = [jobs EXCEPT ![i] = row]
    BY <1>1, <1>4
  <2> HIDE DEF row
  <2>3. /\ jobs'[i] = row /\ \A j \in Jobs \ {i} : jobs'[j] = jobs[j] /\ results'[j] = results[j]
        /\ results'[i] = [t \in Tuples |-> IF t \in T THEN "pending" ELSE "none"]
    BY <1>1, <1>4, <2>2, Types
  <2>4. CountersOK(i)'
    <3>1. Rows(i)' = T
      BY <2>3 DEF Rows, RowsIn, RowStatus
    <3> QED BY <1>1, <2>1, <2>3, <3>1 DEF CountersOK
  <2>5. ASSUME NEW j \in Jobs \ {i} PROVE CountersOK(j)'
    BY <2>3 DEF CountInv, CountersOK, Exists, Rows, RowsIn
  <2>6. ASSUME NEW w \in Workers, work[w].pc = "progress" PROVE CountedOK(w)'
    <3>1. /\ work[w].job \in Jobs /\ work[w].tuple \in Tuples
          /\ river[work[w].job][work[w].tuple].state = "running"
      BY <2>6 DEF IInv, SlotInv
    <3>2. work[w].job # i
      BY <3>1 DEF CreateJob, IInv, FreshInv
    <3> QED BY <1>2, <2>3, <3>1, <3>2 DEF CountInv, CountedOK, Exists
  <2> QED BY <1>2, <2>4, <2>5, <2>6 DEF CountInv, CountedOK
<1> QED BY <1>3, <1>4

\* The other steps of a request write no counter.
LEMMA RequestCounts ==
    ASSUME IInv, IInv', CountInv, NEW i \in Jobs,
           Reject(i) \/ SubmitStep(i) \/ Disconnect(i) \/ ApiCrash(i)
    PROVE  CountInv'
<1>1. /\ UNCHANGED <<results, work>>
      /\ \/ UNCHANGED jobs \/ MarkJobStatus(i, "running", "null") \/ MarkJobStatus(i, "failed", "set")
  BY DEF Reject, SubmitStep, GetPendingResults, EnqueueBatch, MarkRunning, MarkFailedBestEffort,
     Disconnect, ApiCrash
<1>2. ASSUME NEW status \in JobStatus, NEW summary, MarkJobStatus(i, status, summary), NEW j \in Jobs
      PROVE  /\ jobs'[j].total = jobs[j].total /\ jobs'[j].completed = jobs[j].completed
             /\ jobs'[j].failed = jobs[j].failed
             /\ jobs'[j].status # "none" => jobs[j].status # "none"
  BY <1>2, Types DEF MarkJobStatus, Exists, JobRow
<1>3. \A j \in Jobs : CountsKept(j)
  BY <1>1, <1>2 DEF CountsKept, JobStatus
<1> QED BY <1>1, <1>3, CountFrame

LEMMA StepCountInv ==
    ASSUME IInv, CountInv, [Next]_vars
    PROVE  CountInv'
<1>0. IInv'
  BY StepInv
<1>1. ASSUME NEW i \in Jobs, Reject(i) \/ CreateJob(i) \/ SubmitStep(i) \/ Disconnect(i) \/ ApiCrash(i)
      PROVE  CountInv'
  BY <1>0, <1>1, CreateCounts, RequestCounts
<1>2. ASSUME NEW w \in Workers, SlotStep(w) PROVE CountInv'
  <2>1. CASE CountResults(w)
    BY <1>0, <2>1, CountResultsCounts
  <2>2. CASE UpdateJobProgress(w)
    BY <1>0, <2>2, ProgressCounts
  <2>3. CASE ~CountResults(w) /\ ~UpdateJobProgress(w)
    <3>1. \A v \in Workers : work'[v].pc = "progress" => work'[v] = work[v]
      BY <1>2, <2>3, SlotProgress
    <3>2. \A j \in Jobs : CountsKept(j)
      BY <1>2, <2>3, SlotCounters
    <3> QED BY <1>0, <3>1, <3>2, CountFrame
  <2> QED BY <2>1, <2>2, <2>3
<1>3. CASE DeleteJobsOlderThan
  <2>1. UNCHANGED work /\ \A j \in Jobs : CountsKept(j)
    BY <1>3 DEF DeleteJobsOlderThan, CountsKept
  <2> QED BY <1>0, <2>1, CountFrame
<1>4. ASSUME UNCHANGED <<jobs, results, work>> PROVE CountInv'
  BY <1>0, <1>4, CountFrame DEF CountsKept
<1>5. ASSUME NEW j \in Jobs, Expire(j) \/ (\E t \in Tuples : Rescue(j, t))
      PROVE  UNCHANGED <<jobs, results, work>>
  BY <1>5 DEF Expire, Rescue
<1>6. UNCHANGED vars => UNCHANGED <<jobs, results, work>>
  BY DEF vars
<1> QED BY <1>1, <1>2, <1>3, <1>4, <1>5, <1>6 DEF Next, SlotStep

LEMMA InitCountInv == Init => CountInv
<1> SUFFICES ASSUME Init PROVE CountInv OBVIOUS
<1>1. \A j \in Jobs : jobs[j] = NoJobRow
  BY DEF Init
<1>2. \A w \in Workers : work[w].pc = "idle"
  BY DEF Init, IdleSlot
<1> QED BY <1>1, <1>2, ConstantsOK DEF CountInv, CountersOK, CountedOK, Exists, NoJobRow

LEMMA CountInvariant == Spec => [](IInv /\ CountInv)
BY InitInv, StepInv, InitCountInv, StepCountInv, PTL DEF Spec

\* The counters stay in range although the recount and its write are two moments
\* between which the sweep may delete the job and any number of workers recount it.
THEOREM CountersStayBounded == Spec => []CountersBounded
<1>1. CountInv => CountersBounded
  BY DEF CountInv, CountersOK, CountersBounded
<1> QED BY <1>1, CountInvariant, PTL

-----------------------------------------------------------------------------
(* Runs without a fault *)

\* Every row of the job has failed.
AllDead(j) == Rows(j) = RowsIn(j, Dead)

\* While no call has failed, every row is searched once: a slot that has not yet
\* written its row finds it open or gone, a written row is not handed out again, and
\* so what was counted as failed has failed.
CleanJob(j) ==
    /\ submit[j].live /\ submit[j].pc # "mark_failed"
    /\ jobs[j].status = "failed" => AllDead(j)
    /\ Exists(j) => jobs[j].failed <= Cardinality(RowsIn(j, Dead))
CleanRow(j, t) ==
    /\ results[j][t] \in Done => river[j][t].state \in {"running", "completed"}
    /\ river[j][t].state = "running" => \E w \in Workers : Holds(w, j, t)
CleanSlot(w) ==
    /\ work[w].pc \in {"wait", "search", "update", "dead_letter"} =>
          results[work[w].job][work[w].tuple] \notin Done
    /\ work[w].pc = "progress" /\ Exists(work[w].job) =>
          work[w].dead <= Cardinality(RowsIn(work[w].job, Dead))
    /\ work[w].pc = "finalize" /\ work[w].final = "failed" => AllDead(work[w].job)

Clean == /\ \A j \in Jobs : CleanJob(j)
         /\ \A j \in Jobs, t \in Tuples : CleanRow(j, t)
         /\ \A w \in Workers : CleanSlot(w)

CleanInv == faults = 0 => Clean

\* What a call answers when no fault is spent.
LEMMA CleanCall ==
    ASSUME faults = 0, faults' = 0, NEW r, Call(TRUE, r)
    PROVE  r = "ok"
BY DEF Call

\* Counting dead rows, now and after a step that only adds some.
LEMMA DeadCount ==
    ASSUME NEW j, RowsIn(j, Dead) \subseteq RowsIn(j, Dead)'
    PROVE  Cardinality(RowsIn(j, Dead)) <= Cardinality(RowsIn(j, Dead)')
<1>1. IsFiniteSet(RowsIn(j, Dead)')
  BY ConstantsOK, FS_Subset DEF RowsIn
<1> QED BY <1>1, FS_Subset

\* Steps that leave the rows, the queue and the slots alone.
LEMMA CleanRequestFrame ==
    ASSUME IInv, Clean, UNCHANGED <<results, river, work>>,
           \A j \in Jobs :
              /\ submit'[j].live /\ submit'[j].pc # "mark_failed"
              /\ jobs'[j].status = "failed" => jobs[j].status = "failed"
              /\ jobs'[j].status # "none" => jobs[j].status # "none"
              /\ jobs'[j].failed = jobs[j].failed
    PROVE  Clean'
<1>1. \A j : RowsIn(j, Dead)' = RowsIn(j, Dead) /\ AllDead(j)' = AllDead(j)
  BY DEF AllDead, Rows, RowsIn
<1>2. ASSUME NEW j \in Jobs PROVE CleanJob(j)'
  BY <1>1 DEF Clean, CleanJob, Exists
<1>3. ASSUME NEW j \in Jobs, NEW t \in Tuples PROVE CleanRow(j, t)'
  BY DEF Clean, CleanRow, Holds
<1>4. ASSUME NEW w \in Workers PROVE CleanSlot(w)'
  <2>1. CleanSlot(w)
    BY DEF Clean
  <2>2. work[w].pc # "idle" => work[w].job \in Jobs
    BY BusyRow
  <2> QED BY <1>1, <2>1, <2>2 DEF CleanSlot, Exists
<1> QED BY <1>2, <1>3, <1>4 DEF Clean

\* A step of slot w concerns one row.
Touches(w, j0, t0) ==
    /\ \A v \in Workers \ {w} :
          /\ work'[v] = work[v]
          /\ work[v].pc # "idle" => work[v].job # j0 \/ work[v].tuple # t0
    /\ work[w].pc # "idle" => work[w].job = j0 /\ work[w].tuple = t0
    /\ \A j \in Jobs, t \in Tuples : j # j0 \/ t # t0 =>
          river'[j][t] = river[j][t] /\ results'[j][t] = results[j][t]

\* It goes on holding the row's entry, or gives it back in a fitting state.
KeepsRow(w, j0, t0) ==
    IF river'[j0][t0].state = "running" THEN Holds(w, j0, t0)'
    ELSE results'[j0][t0] \in Done => river'[j0][t0].state = "completed"

\* It writes an open row only, and what it writes to jobs is backed by the rows.
CleanWrites(j0, t0) ==
    /\ UNCHANGED submit
    /\ results'[j0][t0] = results[j0][t0] \/ results[j0][t0] \in Open
    /\ \A j \in Jobs :
          /\ jobs'[j].status = "failed" => jobs[j].status = "failed" \/ AllDead(j)
          /\ jobs'[j].status # "none" =>
                jobs[j].status # "none" /\ jobs'[j].failed <= Cardinality(RowsIn(j, Dead))

LEMMA CleanSlotFrame ==
    ASSUME IInv, IInv', Clean, NEW w \in Workers, NEW j0 \in Jobs, NEW t0 \in Tuples,
           Touches(w, j0, t0), KeepsRow(w, j0, t0), CleanWrites(j0, t0), CleanSlot(w)'
    PROVE  Clean'
<1>1. ASSUME NEW j \in Jobs
      PROVE  /\ RowsIn(j, Dead) \subseteq RowsIn(j, Dead)'
             /\ AllDead(j) => AllDead(j)'
  <2>1. ASSUME NEW t \in Tuples, results[j][t] \in Dead \cup {"none"}
        PROVE  results'[j][t] = results[j][t]
    BY <2>1 DEF Touches, CleanWrites, Open, Dead
  <2>2. RowsIn(j, Dead) \subseteq RowsIn(j, Dead)'
    BY <2>1 DEF RowsIn
  <2>3. ASSUME AllDead(j) PROVE AllDead(j)'
    <3>1. \A t \in Tuples : results[j][t] \in Dead \cup {"none"}
      BY <2>3, Types DEF AllDead, Rows, RowsIn
    <3> QED BY <2>1, <2>3, <3>1 DEF AllDead, Rows, RowsIn
  <2> QED BY <2>2, <2>3
<1>2. ASSUME NEW j \in Jobs PROVE Cardinality(RowsIn(j, Dead)) <= Cardinality(RowsIn(j, Dead)')
  BY <1>1, DeadCount
<1>3. ASSUME NEW j \in Jobs PROVE CleanJob(j)'
  <2>1. CleanJob(j)
    BY DEF Clean
  <2>2. jobs'[j].status # "none" => jobs'[j].failed <= Cardinality(RowsIn(j, Dead)')
    <3>1. jobs'[j].failed \in Nat
      BY DEF IInv, TypeOK, JobRow
    <3>2. Cardinality(RowsIn(j, Dead)) \in Nat /\ Cardinality(RowsIn(j, Dead)') \in Nat
      BY RowCount, ConstantsOK, FS_Subset, FS_CardinalityType DEF RowsIn
    <3> QED BY <1>2, <3>1, <3>2 DEF CleanWrites
  <2> QED BY <1>1, <2>1, <2>2 DEF CleanJob, CleanWrites, Exists
<1>4. ASSUME NEW j \in Jobs, NEW t \in Tuples PROVE CleanRow(j, t)'
  <2>1. CleanRow(j, t)
    BY DEF Clean
  <2>2. CASE j = j0 /\ t = t0
    BY <2>2 DEF CleanRow, KeepsRow
  <2>3. CASE j # j0 \/ t # t0
    <3>1. river'[j][t] = river[j][t] /\ results'[j][t] = results[j][t]
      BY <2>3 DEF Touches
    <3>2. ASSUME river[j][t].state = "running" PROVE \E v \in Workers : Holds(v, j, t)'
      <4>1. PICK v \in Workers : Holds(v, j, t)
        BY <2>1, <3>2 DEF CleanRow
      <4>2. v # w
        BY <2>3, <4>1 DEF Holds, Touches
      <4> QED BY <4>1, <4>2 DEF Holds, Touches
    <3> QED BY <2>1, <3>1, <3>2 DEF CleanRow
  <2> QED BY <2>2, <2>3
<1>5. ASSUME NEW v \in Workers \ {w} PROVE CleanSlot(v)'
  <2>1. CleanSlot(v) /\ work'[v] = work[v]
    BY DEF Clean, Touches
  <2>2. CASE work[v].pc = "idle"
    BY <2>1, <2>2 DEF CleanSlot
  <2>3. CASE work[v].pc # "idle"
    <3>1. PICK j \in Jobs : j = work[v].job
      BY <2>3, BusyRow
    <3>2. results'[j][work[v].tuple] = results[j][work[v].tuple]
      BY <2>3, <3>1, BusyRow DEF Touches
    <3>3. ASSUME work[v].pc = "progress", jobs'[j].status # "none"
          PROVE  work[v].dead <= Cardinality(RowsIn(j, Dead)')
      <4> DEFINE before == Cardinality(RowsIn(j, Dead))
                 after  == Cardinality(RowsIn(j, Dead)')
      <4>1. work[v].dead <= before /\ before <= after
        BY <1>2, <2>1, <3>1, <3>3 DEF CleanSlot, CleanWrites, Exists
      <4>2. work[v].dead \in Nat /\ before \in Nat /\ after \in Nat
        BY Types, RowCount, ConstantsOK, FS_Subset, FS_CardinalityType DEF RowsIn, Slot
      <4> HIDE DEF before, after
      <4>3. work[v].dead <= after
        BY <4>1, <4>2
      <4> QED BY <4>3 DEF after
    <3> QED BY <1>1, <2>1, <3>1, <3>2, <3>3 DEF CleanSlot, Exists
  <2> QED BY <2>2, <2>3
<1> QED BY <1>3, <1>4, <1>5 DEF Clean

\* A busy slot concerns the row it holds.
LEMMA BusyTouches ==
    ASSUME IInv, NEW w \in Workers, SlotStep(w), work[w].pc # "idle",
           NEW j0 \in Jobs, NEW t0 \in Tuples, j0 = work[w].job, t0 = work[w].tuple
    PROVE  Touches(w, j0, t0)
<1>1. \A v \in Workers \ {w} :
          work'[v] = work[v] /\ (work[v].pc # "idle" => work[v].job # j0 \/ work[v].tuple # t0)
  BY SlotProgress DEF IInv, SlotInv
<1>2. UNCHANGED river \/ \E e : river' = [river EXCEPT ![j0][t0] = e]
  <2>1. ReturnError(w) => river' = [river EXCEPT ![j0][t0] = AfterError(river[j0][t0])]
    BY DEF ReturnError, IInv, TypeOK
  <2>2. CASE Ack(w)
    <3> DEFINE e == [river[j0][t0] EXCEPT !.state = "completed"]
    <3>1. river' = [river EXCEPT ![j0][t0] = e]
      BY <2>2 DEF Ack, IInv, TypeOK
    <3> QED BY <3>1
  <2>3. CASE Snooze(w)
    <3> DEFINE e == [state |-> "available", attempt |-> river[j0][t0].attempt - 1]
    <3>1. river' = [river EXCEPT ![j0][t0] = e]
      BY <2>3 DEF Snooze, IInv, TypeOK
    <3> QED BY <3>1
  <2>4. ~Fetch(w)
    BY DEF Fetch, AtStep
  <2>5. SlotStep(w) /\ ~Fetch(w) /\ ~Ack(w) /\ ~Snooze(w) => UNCHANGED river \/ ReturnError(w)
    BY DEF SlotStep, WorkStep, WorkerCrash, WaitError, RateLimiterWait, Search, UpdateResult,
       MarkResultDeadLetter, PersistRow, CountResults, UpdateJobProgress, CountRemaining, ReadJob,
       Finalize, CompleteIfDoneError, ReturnNil
  <2> QED BY <2>1, <2>2, <2>3, <2>4, <2>5
<1>3. UNCHANGED results \/ \E s : results' = [results EXCEPT ![j0][t0] = s]
  <2>1. CASE UpdateResult(w) \/ MarkResultDeadLetter(w)
    BY <2>1, SettleEffect DEF Quiet, Settles
  <2>2. CASE ~(UpdateResult(w) \/ MarkResultDeadLetter(w))
    BY <2>2 DEF SlotStep, Fetch, WorkStep, WorkerCrash, Snooze, WaitError, Ack, RateLimiterWait,
       Search, CountResults, UpdateJobProgress, CountRemaining, ReadJob, Finalize
  <2> QED BY <2>1, <2>2
<1>4. ASSUME NEW j \in Jobs, NEW t \in Tuples, j # j0 \/ t # t0
      PROVE  river'[j][t] = river[j][t] /\ results'[j][t] = results[j][t]
  <2>1. river \in [Jobs -> [Tuples -> QueueEntry]] /\ results \in [Jobs -> [Tuples -> RowStatus]]
    BY DEF IInv, TypeOK
  <2>2. river'[j][t] = river[j][t]
    <3>1. ASSUME NEW e, river' = [river EXCEPT ![j0][t0] = e] PROVE river'[j][t] = river[j][t]
      BY <1>4, <2>1, <3>1
    <3> QED BY <1>2, <3>1
  <2>3. results'[j][t] = results[j][t]
    <3>1. ASSUME NEW s, results' = [results EXCEPT ![j0][t0] = s] PROVE results'[j][t] = results[j][t]
      BY <1>4, <2>1, <3>1
    <3> QED BY <1>3, <3>1
  <2> QED BY <2>2, <2>3
<1> QED BY <1>1, <1>4 DEF Touches

\* A step that holds on to its entry, or gives it back.
Holding(w, j0, t0) ==
    UNCHANGED river /\ work'[w].pc # "idle" /\ work'[w].job = j0 /\ work'[w].tuple = t0
Leaving(j0, t0) ==
    /\ river'[j0][t0].state # "running"
    /\ results'[j0][t0] \in Done => river'[j0][t0].state = "completed"

LEMMA CleanBusy ==
    ASSUME IInv, IInv', Clean, NEW w \in Workers, SlotStep(w), work[w].pc # "idle",
           NEW j0 \in Jobs, NEW t0 \in Tuples, j0 = work[w].job, t0 = work[w].tuple,
           Holding(w, j0, t0) \/ Leaving(j0, t0), CleanWrites(j0, t0), CleanSlot(w)'
    PROVE  Clean'
<1>1. river[j0][t0].state = "running"
  BY DEF IInv, SlotInv
<1>2. KeepsRow(w, j0, t0)
  BY <1>1 DEF KeepsRow, Holding, Leaving, Holds
<1> QED BY <1>2, BusyTouches, CleanSlotFrame

\* The steps that write no table, as long as what the slot goes on with is clean.
LEMMA CleanReads ==
    ASSUME IInv, IInv', Clean, NEW w \in Workers, SlotStep(w), work[w].pc # "idle",
           NEW j0 \in Jobs, NEW t0 \in Tuples, j0 = work[w].job, t0 = work[w].tuple,
           Holding(w, j0, t0) \/ Leaving(j0, t0), UNCHANGED <<jobs, results>>, CleanSlot(w)'
    PROVE  Clean'
<1>1. CleanWrites(j0, t0)
  BY SlotEffect DEF CleanWrites, Clean, CleanJob, Exists
<1> QED BY <1>1, CleanBusy

\* Where a slot may be without a claim on a row's state.
LEMMA CleanElsewhere ==
    ASSUME NEW w \in Workers, work'[w].pc \in {"idle", "count", "remaining", "read_job", "ack"}
    PROVE  CleanSlot(w)'
BY DEF CleanSlot

\* Going on to another statement, on the row the slot has.
LEMMA CleanStep ==
    ASSUME IInv, NEW w \in Workers, NEW pc, pc # "idle", Step(w, pc), UNCHANGED river
    PROVE  Holding(w, work[w].job, work[w].tuple) /\ work'[w].pc = pc
BY SlotSteps DEF Holding

\* Giving back a row that has no answer.
LEMMA CleanReturnError ==
    ASSUME IInv, NEW w \in Workers, work[w].pc # "idle", ReturnError(w),
           NEW j0 \in Jobs, NEW t0 \in Tuples, j0 = work[w].job, t0 = work[w].tuple,
           results'[j0][t0] \notin Done
    PROVE  Leaving(j0, t0) /\ work'[w].pc = "idle"
<1>1. AfterError(river[j0][t0]).state \in {"available", "discarded"}
  BY AfterErrorEntry DEF IInv, TypeOK
<1>2. river' = [river EXCEPT ![j0][t0] = AfterError(river[j0][t0])]
  BY DEF ReturnError, IInv, TypeOK
<1>3. river'[j0][t0] = AfterError(river[j0][t0])
  BY <1>2 DEF IInv, TypeOK
<1> QED BY <1>1, <1>3, SlotSteps DEF Leaving, ReturnError

LEMMA FetchClean ==
    ASSUME IInv, IInv', Clean, NEW w \in Workers, Fetch(w)
    PROVE  Clean'
<1>1. PICK j0 \in Jobs, t0 \in Tuples :
        /\ river[j0][t0].state = "available"
        /\ river' = [river EXCEPT ![j0][t0] =
                        [state |-> "running", attempt |-> river[j0][t0].attempt + 1]]
        /\ work' = [work EXCEPT ![w] = [IdleSlot EXCEPT !.pc = "wait", !.job = j0, !.tuple = t0]]
  BY DEF Fetch, IInv, TypeOK
<1>2. work[w].pc = "idle" /\ UNCHANGED <<jobs, results, submit>>
  BY DEF Fetch, AtStep
<1>3. /\ work'[w].pc = "wait" /\ work'[w].job = j0 /\ work'[w].tuple = t0
      /\ \A v \in Workers \ {w} : work'[v] = work[v]
  BY <1>1, Types DEF IdleSlot
<1>4. /\ river'[j0][t0].state = "running"
      /\ \A j \in Jobs, t \in Tuples : j # j0 \/ t # t0 => river'[j][t] = river[j][t]
  BY <1>1 DEF IInv, TypeOK
<1>5. Touches(w, j0, t0)
  <2>1. \A v \in Workers : work[v].pc # "idle" => work[v].job # j0 \/ work[v].tuple # t0
    BY <1>1 DEF IInv, SlotInv
  <2> QED BY <1>2, <1>3, <1>4, <2>1 DEF Touches
<1>6. KeepsRow(w, j0, t0) /\ CleanWrites(j0, t0)
  BY <1>2, <1>3, <1>4 DEF KeepsRow, Holds, CleanWrites, Clean, CleanJob, Exists
<1>7. CleanSlot(w)'
  <2>1. results[j0][t0] \notin Done
    BY <1>1 DEF Clean, CleanRow
  <2> QED BY <1>2, <1>3, <2>1 DEF CleanSlot
<1> QED BY <1>5, <1>6, <1>7, CleanSlotFrame

\* Up to the write of the row, the row has no answer.
LEMMA SearchClean ==
    ASSUME IInv, IInv', Clean, NEW w \in Workers, Ack(w) \/ RateLimiterWait(w) \/ Search(w)
    PROVE  Clean'
<1>1. work[w].pc # "idle" /\ SlotStep(w) /\ UNCHANGED <<jobs, results>>
  BY DEF Ack, RateLimiterWait, Search, AtStep, SlotStep, WorkStep
<1>2. PICK j0 \in Jobs, t0 \in Tuples : j0 = work[w].job /\ t0 = work[w].tuple
  BY <1>1, BusyRow
<1>3. CASE Ack(w)
  <2>1. river'[j0][t0].state = "completed"
    BY <1>2, <1>3 DEF Ack, IInv, TypeOK, QueueEntry
  <2>2. Leaving(j0, t0) /\ work'[w].pc = "idle"
    BY <1>3, <2>1, SlotSteps DEF Leaving, Ack
  <2> QED BY <1>1, <1>2, <2>2, CleanElsewhere, CleanReads
<1>4. CASE RateLimiterWait(w) \/ Search(w)
  <2>1. results[j0][t0] \notin Done /\ UNCHANGED results
    BY <1>1, <1>2, <1>4 DEF Clean, CleanSlot, RateLimiterWait, Search, AtStep
  <2>2. CASE ReturnError(w)
    BY <1>1, <1>2, <2>1, <2>2, CleanReturnError, CleanElsewhere, CleanReads
  <2>3. CASE Holding(w, j0, t0) /\ work'[w].pc \in {"search", "update", "dead_letter"}
    <3>1. CleanSlot(w)'
      BY <2>1, <2>3 DEF CleanSlot, Holding
    <3> QED BY <1>1, <1>2, <2>3, <3>1, CleanReads
  <2>4. ASSUME work' = [work EXCEPT ![w].pc = "dead_letter", ![w].path = "dead"], UNCHANGED river
        PROVE  Holding(w, j0, t0) /\ work'[w].pc = "dead_letter"
    BY <1>2, <2>4, Types DEF Holding, Slot
  <2>5. \/ ReturnError(w)
        \/ UNCHANGED river /\ (Step(w, "search") \/ Step(w, "update"))
        \/ UNCHANGED river /\ work' = [work EXCEPT ![w].pc = "dead_letter", ![w].path = "dead"]
    BY <1>4 DEF RateLimiterWait, Search
  <2> QED BY <1>2, <2>2, <2>3, <2>4, <2>5, CleanStep
<1> QED BY <1>3, <1>4

\* The row is written once, while it is open.
LEMMA PersistClean ==
    ASSUME IInv, IInv', Clean, faults = 0, faults' = 0, NEW w \in Workers,
           UpdateResult(w) \/ MarkResultDeadLetter(w)
    PROVE  Clean'
<1>1. SlotStep(w) /\ work[w].pc \in {"update", "dead_letter"}
  BY DEF UpdateResult, MarkResultDeadLetter, AtStep, SlotStep, WorkStep
<1>2. PICK j0 \in Jobs, t0 \in Tuples : j0 = work[w].job /\ t0 = work[w].tuple
  BY <1>1, BusyRow
<1>3. PICK s : PersistRow(w, s)
  BY DEF UpdateResult, MarkResultDeadLetter
<1>4. SetRow(w, s) /\ Step(w, "count") /\ UNCHANGED <<river, jobs, submit>>
  BY <1>3, CleanCall DEF PersistRow
<1>5. results'[j0][t0] = results[j0][t0] \/ results[j0][t0] \in Open
  <2>1. results[j0][t0] \in RowStatus /\ results[j0][t0] \notin Done
    BY <1>1, <1>2, Types DEF Clean, CleanSlot
  <2> QED BY <1>2, <1>4, <2>1 DEF SetRow, RowStatus, Done, Open
<1>6. CleanWrites(j0, t0)
  BY <1>4, <1>5 DEF CleanWrites, Clean, CleanJob, Exists
<1> QED BY <1>1, <1>2, <1>4, <1>6, CleanStep, CleanElsewhere, CleanBusy

\* A recount counts no more dead rows than there are.
LEMMA RecountClean ==
    ASSUME IInv, IInv', Clean, NEW w \in Workers, CountResults(w)
    PROVE  Clean'
<1>1. work[w].pc # "idle" /\ SlotStep(w) /\ UNCHANGED <<jobs, results, river>>
  BY DEF CountResults, AtStep, SlotStep, WorkStep
<1>2. PICK j0 \in Jobs, t0 \in Tuples : j0 = work[w].job /\ t0 = work[w].tuple
  BY <1>1, BusyRow
<1>3. /\ work'[w].pc = "progress" /\ work'[w].job = j0 /\ work'[w].tuple = t0
      /\ work'[w].dead = Cardinality(RowsIn(j0, Dead))
  BY <1>2, Types DEF CountResults, Slot
<1>4. CleanSlot(w)'
  <2>1. Cardinality(RowsIn(j0, Dead)) \in Nat
    BY RowCount
  <2>2. RowsIn(j0, Dead)' = RowsIn(j0, Dead)
    BY <1>1 DEF RowsIn
  <2> QED BY <1>3, <2>1, <2>2 DEF CleanSlot
<1> QED BY <1>1, <1>2, <1>3, <1>4, CleanReads DEF Holding

\* What the job is told failed has failed.
LEMMA ProgressClean ==
    ASSUME IInv, IInv', Clean, faults = 0, faults' = 0, NEW w \in Workers, UpdateJobProgress(w)
    PROVE  Clean'
<1>1. work[w].pc = "progress" /\ SlotStep(w) /\ UNCHANGED <<results, submit>>
  BY DEF UpdateJobProgress, AtStep, SlotStep, WorkStep
<1>2. PICK j0 \in Jobs, t0 \in Tuples : j0 = work[w].job /\ t0 = work[w].tuple
  BY <1>1, BusyRow
<1>3. /\ jobs' = IF ~Exists(j0) THEN jobs
                 ELSE [jobs EXCEPT ![j0].completed = work[w].done, ![j0].failed = work[w].dead]
      /\ Step(w, "remaining") /\ UNCHANGED river
  BY <1>2, CleanCall DEF UpdateJobProgress
<1>4. ASSUME NEW j \in Jobs
      PROVE  /\ jobs'[j].status = jobs[j].status
             /\ jobs'[j].failed = jobs[j].failed \/ (j = j0 /\ Exists(j0) /\ jobs'[j].failed = work[w].dead)
  BY <1>2, <1>3, Types DEF JobRow
<1>5. CleanWrites(j0, t0)
  <2>1. Exists(j0) => work[w].dead <= Cardinality(RowsIn(j0, Dead))
    BY <1>1, <1>2 DEF Clean, CleanSlot
  <2> QED BY <1>1, <1>4, <2>1 DEF CleanWrites, Clean, CleanJob, Exists
<1> QED BY <1>1, <1>2, <1>3, <1>5, CleanStep, CleanElsewhere, CleanBusy

LEMMA RemainingClean ==
    ASSUME IInv, IInv', Clean, faults = 0, faults' = 0, NEW w \in Workers, CountRemaining(w)
    PROVE  Clean'
<1>1. work[w].pc # "idle" /\ SlotStep(w) /\ UNCHANGED <<jobs, results>>
  BY DEF CountRemaining, AtStep, SlotStep, WorkStep
<1>2. PICK j0 \in Jobs, t0 \in Tuples : j0 = work[w].job /\ t0 = work[w].tuple
  BY <1>1, BusyRow
<1>3. UNCHANGED river /\ (Step(w, "read_job") \/ Step(w, "ack"))
  <2>1. PICK r \in {"ok", "failed"} :
          /\ Call(TRUE, r)
          /\ r # "failed" => UNCHANGED river /\ (Step(w, "read_job") \/ Step(w, "ack"))
    BY DEF CountRemaining, ReturnNil
  <2> QED BY <2>1, CleanCall
<1> QED BY <1>1, <1>2, <1>3, CleanStep, CleanElsewhere, CleanReads

\* The counters say that every row failed only if every row did: failed_pairs is at
\* most the number of dead rows, and total_pairs is the number of rows.
LEMMA AllFailed ==
    ASSUME CountInv, NEW j \in Jobs, CleanJob(j), Exists(j), jobs[j].failed = jobs[j].total
    PROVE  AllDead(j)
<1>1. IsFiniteSet(Rows(j)) /\ RowsIn(j, Dead) \subseteq Rows(j)
  BY ConstantsOK, FS_Subset DEF Rows, RowsIn, Dead, RowStatus
<1>2. Cardinality(Rows(j)) <= Cardinality(RowsIn(j, Dead))
  BY DEF CountInv, CountersOK, CleanJob
<1>3. /\ Cardinality(Rows(j)) \in Nat /\ Cardinality(RowsIn(j, Dead)) \in Nat
      /\ Cardinality(RowsIn(j, Dead)) <= Cardinality(Rows(j))
  BY <1>1, RowCount, FS_CardinalityType, FS_Subset
<1>4. Cardinality(Rows(j)) = Cardinality(RowsIn(j, Dead))
  BY <1>2, <1>3
<1> QED BY <1>1, <1>4, FS_Subset DEF AllDead

LEMMA ReadJobClean ==
    ASSUME RInv, IInv', CountInv, Clean, faults = 0, faults' = 0, NEW w \in Workers, ReadJob(w)
    PROVE  Clean'
<1>0. IInv
  BY DEF RInv
<1>1. work[w].pc # "idle" /\ SlotStep(w) /\ UNCHANGED <<jobs, results>>
  BY DEF ReadJob, AtStep, SlotStep, WorkStep
<1>2. PICK j0 \in Jobs, t0 \in Tuples : j0 = work[w].job /\ t0 = work[w].tuple
  BY <1>0, <1>1, BusyRow
<1>3. PICK r \in {"ok", "failed"} :
        /\ Call(TRUE, r)
        /\ IF r = "failed" \/ ~Exists(j0) THEN CompleteIfDoneError(w)
           ELSE IF jobs[j0].completed + jobs[j0].failed < jobs[j0].total THEN ReturnNil(w)
           ELSE /\ work' = [work EXCEPT ![w].pc = "finalize", ![w].final = FinalStatus(jobs[j0])]
                /\ UNCHANGED river
  BY <1>2 DEF ReadJob
<1>4. r = "ok"
  BY <1>3, CleanCall
<1>5. CASE ReturnNil(w)
  BY <1>0, <1>1, <1>2, <1>5, CleanStep, CleanElsewhere, CleanReads DEF ReturnNil
<1>6. CASE ReturnError(w) /\ ~Exists(j0)
  <2>1. results[j0][t0] \notin Done
    <3>1. results[j0][t0] \in RowStatus
      BY <1>0, Types
    <3>2. results[j0][t0] \notin RowStatus \ {"none"}
      BY <1>6 DEF RInv, RowsHaveJob, RowsIn
    <3> QED BY <3>1, <3>2 DEF Done
  <2> QED BY <1>0, <1>1, <1>2, <1>6, <2>1, CleanReturnError, CleanElsewhere, CleanReads
<1>7. CASE /\ work' = [work EXCEPT ![w].pc = "finalize", ![w].final = FinalStatus(jobs[j0])]
           /\ Exists(j0) /\ UNCHANGED river
  <2>1. /\ work'[w].pc = "finalize" /\ work'[w].job = j0 /\ work'[w].tuple = t0
        /\ work'[w].final = FinalStatus(jobs[j0])
    BY <1>0, <1>2, <1>7, Types DEF Slot
  <2>2. FinalStatus(jobs[j0]) = "failed" => AllDead(j0)
    BY <1>7, AllFailed DEF FinalStatus, Clean
  <2>3. AllDead(j0)' = AllDead(j0)
    BY <1>1 DEF AllDead, Rows, RowsIn
  <2>4. CleanSlot(w)'
    BY <2>1, <2>2, <2>3 DEF CleanSlot
  <2> QED BY <1>0, <1>1, <1>2, <1>7, <2>1, <2>4, CleanReads DEF Holding
<1> QED BY <1>3, <1>4, <1>5, <1>6, <1>7 DEF CompleteIfDoneError

LEMMA FinalizeClean ==
    ASSUME IInv, IInv', Clean, faults = 0, faults' = 0, NEW w \in Workers, Finalize(w)
    PROVE  Clean'
<1>1. work[w].pc = "finalize" /\ SlotStep(w) /\ UNCHANGED <<results, submit>>
  BY DEF Finalize, AtStep, SlotStep, WorkStep
<1>2. PICK j0 \in Jobs, t0 \in Tuples : j0 = work[w].job /\ t0 = work[w].tuple
  BY <1>1, BusyRow
<1>3. /\ jobs' = jobs \/ (Exists(j0) /\ jobs' = [jobs EXCEPT ![j0].status = work[w].final])
      /\ Step(w, "ack") /\ UNCHANGED river
  BY <1>2, CleanCall DEF Finalize, ReturnNil, Exists
<1>4. ASSUME NEW j \in Jobs
      PROVE  /\ jobs'[j].failed = jobs[j].failed
             /\ jobs'[j].status = jobs[j].status \/ (j = j0 /\ Exists(j0) /\ jobs'[j].status = work[w].final)
  BY <1>2, <1>3, Types DEF JobRow
<1>5. CleanWrites(j0, t0)
  <2>1. work[w].final = "failed" => AllDead(j0)
    BY <1>1, <1>2 DEF Clean, CleanSlot
  <2> QED BY <1>1, <1>4, <2>1 DEF CleanWrites, Clean, CleanJob, Exists
<1> QED BY <1>1, <1>2, <1>3, <1>5, CleanStep, CleanElsewhere, CleanBusy

\* The slots keep it.
LEMMA SlotClean ==
    ASSUME RInv, IInv', CountInv, Clean, faults = 0, faults' = 0, NEW w \in Workers, SlotStep(w)
    PROVE  Clean'
<1>1. IInv
  BY DEF RInv
<1>2. ~WorkerCrash(w) /\ ~Snooze(w) /\ ~WaitError(w)
  BY DEF WorkerCrash, Snooze, WaitError
<1> QED BY <1>1, <1>2, FetchClean, SearchClean, PersistClean, RecountClean, ProgressClean,
           RemainingClean, ReadJobClean, FinalizeClean DEF SlotStep, WorkStep

\* While no client went away, a request's calls succeed too.
LEMMA CreateClean ==
    ASSUME IInv, Clean, faults = 0, faults' = 0, NEW i \in Jobs, CreateJob(i)
    PROVE  Clean'
<1>1. submit[i].pc = "idle" /\ UNCHANGED <<river, work>> /\ submit[i].live
  BY DEF CreateJob, Clean, CleanJob
<1>2. PICK T \in SUBSET Tuples :
        /\ jobs' = [jobs EXCEPT ![i] = [NoJobRow EXCEPT !.status = "pending", !.total = Cardinality(T)]]
        /\ results' = [results EXCEPT ![i] = [t \in Tuples |-> IF t \in T THEN "pending" ELSE "none"]]
        /\ Goto(i, "created")
  <2>1. PICK T \in SUBSET Tuples, r \in CallResults :
          /\ Call(submit[i].live, r)
          /\ IF r = "failed" THEN UNCHANGED <<jobs, results>>
             ELSE /\ jobs' = [jobs EXCEPT ![i] = [NoJobRow EXCEPT
                                 !.status = "pending", !.total = Cardinality(T)]]
                  /\ results' = [results EXCEPT ![i] =
                        [t \in Tuples |-> IF t \in T THEN "pending" ELSE "none"]]
          /\ Goto(i, IF r = "ok" THEN "created" ELSE "error")
    BY DEF CreateJob
  <2>2. r = "ok"
    BY <1>1, <2>1 DEF Call
  <2> QED BY <2>1, <2>2
<1>3. /\ jobs'[i].status = "pending" /\ jobs'[i].failed = 0
      /\ \A j \in Jobs \ {i} : jobs'[j] = jobs[j]
  <2> DEFINE row == [NoJobRow EXCEPT !.status = "pending", !.total = Cardinality(T)]
  <2>1. row.status = "pending" /\ row.failed = 0
    BY DEF NoJobRow
  <2>2. jobs' = [jobs EXCEPT ![i] = row]
    BY <1>2
  <2> HIDE DEF row
  <2> QED BY <2>1, <2>2, Types
<1>4. /\ \A t \in Tuples : results'[i][t] \in {"pending", "none"}
      /\ \A j \in Jobs \ {i} : results'[j] = results[j]
  BY <1>2, Types
<1>5. /\ \A j \in Jobs : submit'[j].live = submit[j].live
      /\ submit'[i].pc = "created" /\ \A j \in Jobs \ {i} : submit'[j] = submit[j]
  BY <1>2, Types DEF Goto, Handler
<1>6. \A j \in Jobs \ {i} : RowsIn(j, Dead)' = RowsIn(j, Dead) /\ AllDead(j)' = AllDead(j)
  BY <1>4 DEF AllDead, Rows, RowsIn
<1>7. ASSUME NEW j \in Jobs PROVE CleanJob(j)'
  <2>1. CASE j = i
    <3>1. Cardinality(RowsIn(i, Dead)') \in Nat
      BY ConstantsOK, FS_Subset, FS_CardinalityType DEF RowsIn
    <3> QED BY <1>1, <1>3, <1>5, <2>1, <3>1 DEF CleanJob
  <2>2. CASE j # i
    BY <1>3, <1>5, <1>6, <2>2 DEF Clean, CleanJob, Exists
  <2> QED BY <2>1, <2>2
<1>8. ASSUME NEW j \in Jobs, NEW t \in Tuples PROVE CleanRow(j, t)'
  <2>1. j = i => results'[j][t] \notin Done
    BY <1>4 DEF Done
  <2> QED BY <1>1, <1>4, <2>1 DEF Clean, CleanRow, Holds
<1>9. ASSUME NEW w \in Workers PROVE CleanSlot(w)'
  <2>1. CleanSlot(w)
    BY DEF Clean
  <2>2. work[w].pc # "idle" => work[w].job \in Jobs \ {i}
    BY <1>1 DEF IInv, SlotInv, FreshInv
  <2> QED BY <1>1, <1>3, <1>4, <1>6, <2>1, <2>2 DEF CleanSlot, Exists
<1> QED BY <1>7, <1>8, <1>9 DEF Clean

\* A row that enters the queue has no answer yet.
LEMMA EnqueueClean ==
    ASSUME IInv, Clean, faults = 0, faults' = 0, NEW i \in Jobs, EnqueueBatch(i)
    PROVE  Clean'
<1>1. submit[i].pc = "enqueue" /\ UNCHANGED <<jobs, results, work>>
  BY DEF EnqueueBatch
<1>2. /\ river' = [river EXCEPT ![i] = [t \in Tuples |->
                      IF t \in submit[i].inserted
                      THEN [state |-> "available", attempt |-> 0] ELSE @[t]]]
      /\ Goto(i, "mark_running")
  <2>1. PICK r \in CallResults :
          /\ Call(submit[i].live \/ submit[i].inserted = {}, r)
          /\ river' = IF r = "failed" THEN river
                ELSE [river EXCEPT ![i] = [t \in Tuples |->
                        IF t \in submit[i].inserted
                        THEN [state |-> "available", attempt |-> 0] ELSE @[t]]]
          /\ Goto(i, IF r = "ok" THEN "mark_running" ELSE "mark_failed")
    BY DEF EnqueueBatch
  <2>2. r = "ok"
    BY <2>1 DEF Call, Clean, CleanJob
  <2> QED BY <2>1, <2>2
<1>3. \A j \in Jobs : submit'[j].live = submit[j].live /\ submit'[j].pc \in {submit[j].pc, "mark_running"}
  BY <1>2, Types DEF Goto, Handler
<1>4. \A j : RowsIn(j, Dead)' = RowsIn(j, Dead) /\ AllDead(j)' = AllDead(j)
  BY <1>1 DEF AllDead, Rows, RowsIn
<1>5. ASSUME NEW j \in Jobs PROVE CleanJob(j)'
  BY <1>1, <1>3, <1>4 DEF Clean, CleanJob, Exists
<1>6. ASSUME NEW j \in Jobs, NEW t \in Tuples PROVE CleanRow(j, t)'
  <2>1. CleanRow(j, t)
    BY DEF Clean
  <2>2. CASE j = i
    <3>1. river[i][t].state = "none"
      BY <1>1 DEF IInv, FreshInv
    <3>2. river'[i][t].state \in {"none", "available"}
      BY <1>2, <3>1 DEF IInv, TypeOK
    <3> QED BY <1>1, <2>1, <2>2, <3>1, <3>2 DEF CleanRow
  <2>3. CASE j # i
    <3>1. river'[j] = river[j]
      BY <1>2, <2>3 DEF IInv, TypeOK
    <3> QED BY <1>1, <2>1, <3>1 DEF CleanRow, Holds
  <2> QED BY <2>2, <2>3
<1>7. ASSUME NEW w \in Workers PROVE CleanSlot(w)'
  <2>1. CleanSlot(w)
    BY DEF Clean
  <2> QED BY <1>1, <1>4, <2>1 DEF CleanSlot, Exists
<1> QED BY <1>5, <1>6, <1>7 DEF Clean

\* The other steps of a request.
LEMMA RequestClean ==
    ASSUME IInv, Clean, faults = 0, faults' = 0, NEW i \in Jobs,
           Reject(i) \/ GetPendingResults(i) \/ MarkRunning(i)
    PROVE  Clean'
<1>0. submit[i].live
  BY DEF Clean, CleanJob
<1>1. CASE Reject(i)
  <2>1. \A j \in Jobs : submit'[j].live = submit[j].live /\ submit'[j].pc \in {submit[j].pc, "error"}
    BY <1>1, Types DEF Reject, Goto, Handler
  <2>2. UNCHANGED <<jobs, results, river, work>>
    BY <1>1 DEF Reject
  <2> QED BY <2>1, <2>2, CleanRequestFrame DEF Clean, CleanJob
<1>2. CASE GetPendingResults(i)
  <2>1. submit' = [submit EXCEPT ![i].pc = "enqueue", ![i].inserted = RowsIn(i, {"pending"})]
    BY <1>0, <1>2 DEF GetPendingResults, Call
  <2>2. \A j \in Jobs : submit'[j].live = submit[j].live /\ submit'[j].pc \in {submit[j].pc, "enqueue"}
    BY <2>1, Types DEF Handler
  <2>3. UNCHANGED <<jobs, results, river, work>>
    BY <1>2 DEF GetPendingResults
  <2> QED BY <2>2, <2>3, CleanRequestFrame DEF Clean, CleanJob
<1>3. CASE MarkRunning(i)
  <2>1. MarkJobStatus(i, "running", "null") /\ Goto(i, "accepted")
    BY <1>0, <1>3 DEF MarkRunning, Call
  <2>2. \A j \in Jobs : submit'[j].live = submit[j].live /\ submit'[j].pc \in {submit[j].pc, "accepted"}
    BY <2>1, Types DEF Goto, Handler
  <2>3. \A j \in Jobs : /\ jobs'[j].failed = jobs[j].failed
                         /\ \/ jobs'[j].status = jobs[j].status
                            \/ jobs[j].status # "none" /\ jobs'[j].status = "running"
    BY <2>1, Types DEF MarkJobStatus, Exists, JobRow
  <2>4. UNCHANGED <<results, river, work>>
    BY <1>3 DEF MarkRunning
  <2> QED BY <2>2, <2>3, <2>4, CleanRequestFrame DEF Clean, CleanJob
<1> QED BY <1>1, <1>2, <1>3

\* A job the sweep took has no row at all.
LEMMA SweepClean ==
    ASSUME IInv, Clean, DeleteJobsOlderThan
    PROVE  Clean'
<1>1. /\ UNCHANGED <<river, submit, work>>
      /\ \A j \in Jobs : \/ jobs'[j] = jobs[j] /\ results'[j] = results[j]
                         \/ jobs'[j].status = "none" /\ \A t \in Tuples : results'[j][t] = "none"
  BY DEF DeleteJobsOlderThan, NoJobRow
<1>2. ASSUME NEW j \in Jobs
      PROVE  /\ AllDead(j) => AllDead(j)'
             /\ jobs'[j].status # "none" => jobs'[j] = jobs[j] /\ RowsIn(j, Dead)' = RowsIn(j, Dead)
             /\ \A t \in Tuples : results'[j][t] \in Done => results[j][t] \in Done
  <2>1. CASE jobs'[j] = jobs[j] /\ results'[j] = results[j]
    BY <2>1 DEF AllDead, Rows, RowsIn
  <2>2. CASE jobs'[j].status = "none" /\ \A t \in Tuples : results'[j][t] = "none"
    <3>1. Rows(j)' = {} /\ RowsIn(j, Dead)' = {}
      BY <2>2 DEF Rows, RowsIn, Dead
    <3> QED BY <2>2, <3>1 DEF AllDead, Done
  <2> QED BY <1>1, <2>1, <2>2
<1>3. ASSUME NEW j \in Jobs PROVE CleanJob(j)'
  BY <1>1, <1>2 DEF Clean, CleanJob, Exists
<1>4. ASSUME NEW j \in Jobs, NEW t \in Tuples PROVE CleanRow(j, t)'
  BY <1>1, <1>2 DEF Clean, CleanRow, Holds
<1>5. ASSUME NEW w \in Workers PROVE CleanSlot(w)'
  <2>1. CleanSlot(w)
    BY DEF Clean
  <2>2. work[w].pc # "idle" => work[w].job \in Jobs /\ work[w].tuple \in Tuples
    BY BusyRow
  <2> QED BY <1>1, <1>2, <2>1, <2>2 DEF CleanSlot, Exists
<1> QED BY <1>3, <1>4, <1>5 DEF Clean

\* Every step that spends no fault keeps it; in particular no entry is rescued.
LEMMA StepCleanInv ==
    ASSUME RInv, CountInv, CleanInv, [Next]_vars
    PROVE  CleanInv'
<1> SUFFICES ASSUME faults' = 0 PROVE Clean'
  BY DEF CleanInv
<1>1. IInv /\ IInv' /\ faults = 0
  BY StepInv, FaultsGrow DEF RInv
<1>2. Clean
  BY <1>1 DEF CleanInv
<1>3. ASSUME NEW i \in Jobs,
             Reject(i) \/ CreateJob(i) \/ SubmitStep(i) \/ Disconnect(i) \/ ApiCrash(i)
      PROVE  Clean'
  <2>1. ~MarkFailedBestEffort(i) /\ ~Disconnect(i) /\ ~ApiCrash(i)
    BY <1>1, <1>2 DEF MarkFailedBestEffort, Disconnect, ApiCrash, Clean, CleanJob
  <2> QED BY <1>1, <1>2, <1>3, <2>1, CreateClean, EnqueueClean, RequestClean DEF SubmitStep
<1>4. ASSUME NEW w \in Workers, SlotStep(w) PROVE Clean'
  BY <1>1, <1>2, <1>4, SlotClean
<1>5. ASSUME NEW j \in Jobs, NEW t \in Tuples PROVE ~Rescue(j, t)
  BY <1>2 DEF Rescue, Clean, CleanRow
<1>6. ASSUME UNCHANGED <<jobs, results, river, submit, work>> PROVE Clean'
  BY <1>1, <1>2, <1>6, CleanRequestFrame DEF Clean, CleanJob
<1>7. ASSUME NEW j \in Jobs, Expire(j) PROVE UNCHANGED <<jobs, results, river, submit, work>>
  BY <1>7 DEF Expire
<1>8. UNCHANGED vars => UNCHANGED <<jobs, results, river, submit, work>>
  BY DEF vars
<1> QED BY <1>1, <1>2, <1>3, <1>4, <1>5, <1>6, <1>7, <1>8, SweepClean DEF Next, SlotStep

LEMMA InitCleanInv == Init => CleanInv
<1> SUFFICES ASSUME Init PROVE Clean
  BY DEF CleanInv
<1>1. \A j \in Jobs : jobs[j].status = "none" /\ submit[j].live /\ submit[j].pc = "idle"
  BY DEF Init, NoJobRow
<1>2. \A j \in Jobs, t \in Tuples : results[j][t] = "none" /\ river[j][t].state = "none"
  BY DEF Init
<1>3. \A w \in Workers : work[w].pc = "idle"
  BY DEF Init, IdleSlot
<1> QED BY <1>1, <1>2, <1>3 DEF Clean, CleanJob, CleanRow, CleanSlot, Exists, Done

LEMMA CleanInvariant == Spec => [](RInv /\ CountInv /\ CleanInv)
<1>1. RInv => IInv BY DEF RInv
<1> QED BY <1>1, InitRInv, StepRInv, InitCountInv, StepCountInv, InitCleanInv, StepCleanInv, PTL DEF Spec

\* As long as nothing fails outside the provider, a job ends as failed only if every
\* one of its rows did: the comparison of failed_pairs with total_pairs is exact,
\* whatever the order in which the workers recount and finalise.
THEOREM FailedIsAllDead == Spec => []FailedMeansAllDead
<1>1. CleanInv => FailedMeansAllDead
  BY DEF CleanInv, Clean, CleanJob, AllDead, Rows, FailedMeansAllDead
<1> QED BY <1>1, CleanInvariant, PTL

=============================================================================
