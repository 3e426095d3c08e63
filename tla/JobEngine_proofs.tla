-------------------------- MODULE JobEngine_proofs --------------------------
(***************************************************************************)
(* Proofs about JobEngine for any sets of jobs, tuples and slots and any   *)
(* bound on attempts and faults.                                           *)
(***************************************************************************)
EXTENDS JobEngine, FiniteSetTheorems, TLAPS

-----------------------------------------------------------------------------
(* The inductive invariant *)

\* An entry that may be fetched has an attempt left; one that runs has used one.
QueueInv ==
    \A j \in Jobs, t \in Tuples :
        /\ river[j][t].state = "available" => river[j][t].attempt < MaxAttempts
        /\ river[j][t].state = "running" => river[j][t].attempt > 0

\* A busy slot executes an entry River has marked running, and no other slot
\* executes the same one.
SlotInv ==
    /\ \A w \in Workers : work[w].pc # "idle" =>
            /\ work[w].job \in Jobs /\ work[w].tuple \in Tuples
            /\ river[work[w].job][work[w].tuple].state = "running"
    /\ \A v, w \in Workers :
            work[v].pc # "idle" /\ work[w].pc # "idle" /\ work[v].job = work[w].job
                /\ work[v].tuple = work[w].tuple => v = w

\* Before Submit has enqueued anything, River knows nothing of the job; before
\* it has created the job, the tables do not either.
FreshInv ==
    \A j \in Jobs :
        /\ submit[j].pc = "idle" => ~Exists(j)
        /\ submit[j].pc \in {"idle", "created", "enqueue"} =>
              \A t \in Tuples : river[j][t].state = "none"

\* The two places that rely on an earlier count of zero open rows.
SettledInv ==
    /\ \A w \in Workers : work[w].pc \in {"read_job", "finalize"} => Settled(work[w].job)
    /\ CompleteMeansSettled

IInv == TypeOK /\ QueueInv /\ SlotInv /\ FreshInv /\ SettledInv

-----------------------------------------------------------------------------
(* What the pieces of an action do *)

\* The number of a job's rows in some set of statuses is a natural number: what
\* UpdateJobProgress writes has the type of the counters.
LEMMA RowCount ==
    ASSUME NEW j, NEW S
    PROVE  Cardinality(RowsIn(j, S)) \in Nat
<1>1. IsFiniteSet(RowsIn(j, S))
  BY ConstantsOK, FS_Subset DEF RowsIn
<1> QED BY <1>1, FS_CardinalityType

\* Submit moves on: only its program counter changes.
LEMMA GotoType ==
    ASSUME submit \in [Jobs -> Handler], NEW j \in Jobs, NEW pc \in SubmitPC, Goto(j, pc)
    PROVE  /\ submit' \in [Jobs -> Handler]
           /\ submit'[j].pc = pc
           /\ \A i \in Jobs \ {j} : submit'[i] = submit[i]
BY DEF Goto, Handler

\* MarkJobStatus writes a well-typed row, and only of a job that exists.
LEMMA MarkJobStatusType ==
    ASSUME jobs \in [Jobs -> JobRow], NEW j \in Jobs, NEW status \in JobStatus,
           NEW summary \in {"null", "set"}, MarkJobStatus(j, status, summary)
    PROVE  /\ jobs' \in [Jobs -> JobRow]
           /\ \A i \in Jobs : jobs'[i].status # jobs[i].status =>
                 i = j /\ jobs[i].status # "none" /\ jobs'[i].status = status
BY DEF MarkJobStatus, JobRow, Exists

\* The fault budget is never exceeded.
LEMMA CallType ==
    ASSUME faults \in 0 .. MaxFaults, NEW live, NEW r, Call(live, r)
    PROVE  faults' \in 0 .. MaxFaults
BY ConstantsOK DEF Call

\* The queue and the slots, as the work steps see them.
QueueOK ==
    /\ river \in [Jobs -> [Tuples -> QueueEntry]]
    /\ work \in [Workers -> Slot]
    /\ QueueInv
    /\ SlotInv

\* No entry appears, and no slot but w changes.
OnlySlot(w) ==
    /\ \A j \in Jobs, t \in Tuples : river[j][t].state = "none" => river'[j][t].state = "none"
    /\ \A v \in Workers \ {w} : work'[v] = work[v]

\* A slot that changes anything but the row it works on keeps its entry.
LEMMA KeepEntry ==
    ASSUME QueueOK, NEW w \in Workers, work[w].pc # "idle", UNCHANGED river,
           NEW slot \in Slot, slot.pc # "idle", slot.job = work[w].job,
           slot.tuple = work[w].tuple, work' = [work EXCEPT ![w] = slot]
    PROVE  QueueOK' /\ OnlySlot(w) /\ work'[w] = slot
<1>1. /\ work' \in [Workers -> Slot]
      /\ work'[w] = slot
      /\ \A v \in Workers \ {w} : work'[v] = work[v]
  BY DEF QueueOK
<1>2. SlotInv'
  <2>1. \A v \in Workers : /\ work'[v].pc # "idle" <=> work[v].pc # "idle"
                           /\ work'[v].job = work[v].job /\ work'[v].tuple = work[v].tuple
    BY <1>1
  <2> QED BY <2>1 DEF QueueOK, SlotInv
<1>3. QueueInv' BY DEF QueueOK, QueueInv
<1> QED BY <1>1, <1>2, <1>3 DEF QueueOK, OnlySlot

\* A step of Work that calls nothing else of River.
LEMMA StepEntry ==
    ASSUME QueueOK, NEW w \in Workers, work[w].pc # "idle", UNCHANGED river,
           NEW pc \in WorkPC \ {"idle"}, Step(w, pc)
    PROVE  /\ QueueOK' /\ OnlySlot(w)
           /\ work'[w].pc = pc /\ work'[w].job = work[w].job
<1> DEFINE slot == [work[w] EXCEPT !.pc = pc]
<1>1. slot \in Slot /\ slot.pc = pc /\ slot.job = work[w].job /\ slot.tuple = work[w].tuple
  BY DEF QueueOK, Slot
<1>2. work' = [work EXCEPT ![w] = slot]
  BY DEF Step, QueueOK
<1> HIDE DEF slot
<1> QED BY <1>1, <1>2, KeepEntry

\* A slot that gives its entry back in some state other than "running".
LEMMA LeaveEntry ==
    ASSUME QueueOK, NEW w \in Workers, work[w].pc # "idle", NEW entry \in QueueEntry,
           entry.state \in {"available", "completed", "discarded"},
           entry.state = "available" => entry.attempt < MaxAttempts,
           river' = [river EXCEPT ![work[w].job][work[w].tuple] = entry],
           work' = [work EXCEPT ![w] = IdleSlot]
    PROVE  QueueOK' /\ OnlySlot(w) /\ work'[w].pc = "idle"
<1> DEFINE j0 == work[w].job
           t0 == work[w].tuple
<1>0. IdleSlot \in Slot /\ IdleSlot.pc = "idle"
  BY DEF IdleSlot, Slot, WorkPC, Final
<1>1. /\ work' \in [Workers -> Slot]
      /\ work'[w].pc = "idle"
      /\ \A v \in Workers \ {w} : work'[v] = work[v]
  BY <1>0 DEF QueueOK
<1>2. j0 \in Jobs /\ t0 \in Tuples /\ river[j0][t0].state = "running"
  BY DEF QueueOK, SlotInv
<1>3. /\ river' \in [Jobs -> [Tuples -> QueueEntry]]
      /\ river'[j0][t0] = entry
      /\ \A j \in Jobs, t \in Tuples : j # j0 \/ t # t0 => river'[j][t] = river[j][t]
  BY <1>2 DEF QueueOK
<1>4. QueueInv'
  BY <1>3 DEF QueueOK, QueueInv
<1>5. SlotInv'
  <2>1. ASSUME NEW v \in Workers, work'[v].pc # "idle"
        PROVE  /\ v # w /\ work'[v] = work[v] /\ (work[v].job # j0 \/ work[v].tuple # t0)
               /\ work[v].job \in Jobs /\ work[v].tuple \in Tuples
    BY <2>1, <1>1 DEF QueueOK, SlotInv
  <2>2. \A v \in Workers : work'[v].pc # "idle" =>
            river'[work'[v].job][work'[v].tuple].state = "running"
    BY <2>1, <1>3 DEF QueueOK, SlotInv
  <2> QED BY <2>1, <2>2 DEF QueueOK, SlotInv
<1>6. OnlySlot(w)
  BY <1>1, <1>2, <1>3 DEF OnlySlot
<1> QED BY <1>1, <1>3, <1>4, <1>5, <1>6 DEF QueueOK

\* An entry whose execution failed is retried only with an attempt left.
LEMMA AfterErrorEntry ==
    ASSUME NEW e \in QueueEntry
    PROVE  /\ AfterError(e) \in QueueEntry
           /\ AfterError(e).state \in {"available", "discarded"}
           /\ AfterError(e).state = "available" => AfterError(e).attempt < MaxAttempts
BY DEF AfterError, QueueEntry, RiverState

\* Work returned an error: River retries the entry or discards it.
LEMMA ErrorEntry ==
    ASSUME QueueOK, NEW w \in Workers, work[w].pc # "idle", ReturnError(w)
    PROVE  QueueOK' /\ OnlySlot(w) /\ work'[w].pc = "idle"
<1> DEFINE entry == AfterError(river[work[w].job][work[w].tuple])
<1>1. river[work[w].job][work[w].tuple] \in QueueEntry
  BY DEF QueueOK, SlotInv
<1>2. /\ entry \in QueueEntry
      /\ entry.state \in {"available", "completed", "discarded"}
      /\ entry.state = "available" => entry.attempt < MaxAttempts
  BY <1>1, AfterErrorEntry
<1>3. /\ river' = [river EXCEPT ![work[w].job][work[w].tuple] = entry]
      /\ work' = [work EXCEPT ![w] = IdleSlot]
  BY DEF ReturnError, QueueOK
<1> HIDE DEF entry
<1> QED BY <1>2, <1>3, LeaveEntry

\* What a step of slot w may do to the tables.
TablesKept(w) ==
    /\ jobs' \in [Jobs -> JobRow]
    /\ results' \in [Jobs -> [Tuples -> RowStatus]]
    /\ faults' \in 0 .. MaxFaults
    /\ UNCHANGED <<submit, aged>>
    /\ \A j \in Jobs : jobs[j].status = "none" => jobs'[j].status = "none"
    /\ \A j \in Jobs, t \in Tuples : results'[j][t] \in Open => results[j][t] \in Open
    /\ \A j \in Jobs : jobs'[j].status = "complete" => jobs[j].status = "complete" \/ Settled(j)
    /\ work'[w].pc \in {"read_job", "finalize"} => Settled(work'[w].job)

\* Such a step, taken by a slot that leaves the others and the queue in order,
\* preserves the invariant.
LEMMA WorkFrame ==
    ASSUME IInv, NEW w \in Workers, QueueOK', OnlySlot(w), TablesKept(w)
    PROVE  IInv'
<1>1. TypeOK'
  BY DEF IInv, TypeOK, QueueOK, TablesKept
<1>2. QueueInv' /\ SlotInv'
  BY DEF QueueOK
<1>3. FreshInv'
  BY DEF IInv, FreshInv, TablesKept, OnlySlot, Exists
<1>4. SettledInv'
  <2>1. \A j \in Jobs : Settled(j) => Settled(j)'
    BY DEF TablesKept, Settled, RowsIn
  <2>2. CompleteMeansSettled'
    BY <2>1 DEF IInv, SettledInv, CompleteMeansSettled, TablesKept
  <2>3. ASSUME NEW v \in Workers, work'[v].pc \in {"read_job", "finalize"}
        PROVE  Settled(work[v].job)'
    <3>1. work'[v].job \in Jobs
      BY <2>3, <1>2 DEF SlotInv
    <3>2. Settled(work'[v].job)
      BY <2>3 DEF TablesKept, OnlySlot, IInv, SettledInv
    <3> QED BY <3>1, <3>2, <2>1
  <2> QED BY <2>2, <2>3 DEF SettledInv
<1> QED BY <1>1, <1>2, <1>3, <1>4 DEF IInv

\* A step that touches no table and does not end up at read_job or finalize.
LEMMA QueueFrame ==
    ASSUME IInv, NEW w \in Workers, QueueOK', OnlySlot(w), UNCHANGED <<jobs, results, submit, aged>>,
           faults' \in 0 .. MaxFaults, work'[w].pc \notin {"read_job", "finalize"}
    PROVE  IInv'
<1>1. TablesKept(w)
  BY DEF TablesKept, IInv, TypeOK, SettledInv, CompleteMeansSettled
<1> QED BY <1>1, WorkFrame

\* The parts of the invariant the lemmas above ask for.
LEMMA Parts ==
    ASSUME IInv
    PROVE  QueueOK /\ faults \in 0 .. MaxFaults
BY DEF IInv, TypeOK, QueueOK

-----------------------------------------------------------------------------
(* One lemma per action: it preserves the invariant *)

\* A step of the handler of job j that leaves River and the rows alone, does not
\* create or complete a job and does not go back before its enqueue.
LEMMA SubmitFrame ==
    ASSUME IInv, NEW j \in Jobs, submit' \in [Jobs -> Handler],
           \A i \in Jobs \ {j} : submit'[i] = submit[i],
           submit'[j].pc = "idle" => submit[j].pc = "idle",
           submit'[j].pc \in {"created", "enqueue"} => submit[j].pc \in {"created", "enqueue"},
           jobs' \in [Jobs -> JobRow],
           \A i \in Jobs : jobs'[i].status # jobs[i].status =>
                 jobs[i].status # "none" /\ jobs'[i].status # "complete",
           UNCHANGED <<results, river, work, aged>>, faults' \in 0 .. MaxFaults
    PROVE  IInv'
<1>1. TypeOK'
  BY DEF IInv, TypeOK
<1>2. QueueInv' /\ SlotInv'
  BY DEF IInv, QueueInv, SlotInv
<1>3. FreshInv'
  BY DEF IInv, FreshInv, Exists
<1>4. SettledInv'
  BY DEF IInv, SettledInv, CompleteMeansSettled, Settled, RowsIn
<1> QED BY <1>1, <1>2, <1>3, <1>4 DEF IInv

\* The same for a step that only moves the handler on.
LEMMA GotoFrame ==
    ASSUME IInv, NEW j \in Jobs, NEW pc \in SubmitPC \ {"idle", "created", "enqueue"}, Goto(j, pc),
           UNCHANGED <<jobs, results, river, work, aged>>, faults' \in 0 .. MaxFaults
    PROVE  IInv'
<1>1. /\ submit' \in [Jobs -> Handler]
      /\ submit'[j].pc = pc
      /\ \A i \in Jobs \ {j} : submit'[i] = submit[i]
  BY GotoType DEF IInv, TypeOK
<1>2. jobs' \in [Jobs -> JobRow]
  BY DEF IInv, TypeOK
<1> QED BY <1>1, <1>2, SubmitFrame

-----------------------------------------------------------------------------
(* One lemma per action: it preserves the invariant *)

\* A rejected request moves its handler and nothing else.
LEMMA RejectInv ==
    ASSUME IInv, NEW j \in Jobs, Reject(j)
    PROVE  IInv'
<1>1. Goto(j, "error") /\ "error" \in SubmitPC \ {"idle", "created", "enqueue"}
  BY DEF Reject, SubmitPC
<1> QED BY <1>1, Parts, GotoFrame DEF Reject

\* A crash of the API stops one handler; the tables stay as they were.
LEMMA ApiCrashInv ==
    ASSUME IInv, NEW j \in Jobs, ApiCrash(j)
    PROVE  IInv'
<1>1. Goto(j, "crashed") /\ "crashed" \in SubmitPC \ {"idle", "created", "enqueue"}
  BY DEF ApiCrash, SubmitPC
<1>2. faults' \in 0 .. MaxFaults
  BY Parts, ConstantsOK DEF ApiCrash
<1> QED BY <1>1, <1>2, GotoFrame DEF ApiCrash

\* A client that goes away cancels later calls and changes no table.
LEMMA DisconnectInv ==
    ASSUME IInv, NEW j \in Jobs, Disconnect(j)
    PROVE  IInv'
<1>1. /\ submit' \in [Jobs -> Handler]
      /\ \A i \in Jobs : submit'[i].pc = submit[i].pc
      /\ \A i \in Jobs \ {j} : submit'[i] = submit[i]
  BY DEF Disconnect, IInv, TypeOK, Handler
<1>2. faults' \in 0 .. MaxFaults
  BY Parts, ConstantsOK DEF Disconnect
<1>3. jobs' \in [Jobs -> JobRow]
  BY DEF Disconnect, IInv, TypeOK
<1> QED BY <1>1, <1>2, <1>3, SubmitFrame DEF Disconnect

\* CreateJob opens rows, but of a job no slot has ever seen.
LEMMA CreateJobInv ==
    ASSUME IInv, NEW j \in Jobs, CreateJob(j)
    PROVE  IInv'
<1>1. PICK T \in SUBSET Tuples, r \in CallResults :
        /\ Call(submit[j].live, r)
        /\ IF r = "failed" THEN UNCHANGED <<jobs, results>>
           ELSE /\ jobs' = [jobs EXCEPT ![j] = [NoJobRow EXCEPT
                               !.status = "pending", !.total = Cardinality(T)]]
                /\ results' = [results EXCEPT ![j] =
                      [t \in Tuples |-> IF t \in T THEN "pending" ELSE "none"]]
        /\ Goto(j, IF r = "ok" THEN "created" ELSE "error")
  BY DEF CreateJob
<1>2. faults' \in 0 .. MaxFaults
  BY <1>1, Parts, CallType
<1>3. PICK pc \in {"created", "error"} : Goto(j, pc) /\ (r = "failed" => pc = "error")
  BY <1>1
<1>4. /\ submit' \in [Jobs -> Handler]
      /\ submit'[j].pc = pc
      /\ \A i \in Jobs \ {j} : submit'[i] = submit[i]
  BY <1>3, GotoType DEF IInv, TypeOK, SubmitPC
<1>5. submit[j].pc = "idle" /\ UNCHANGED <<river, work, aged>>
  BY DEF CreateJob
<1>6. CASE r = "failed"
  <2>1. pc = "error" /\ UNCHANGED <<jobs, results>> /\ jobs' \in [Jobs -> JobRow]
    BY <1>1, <1>3, <1>6 DEF IInv, TypeOK
  <2> QED BY <1>2, <1>4, <1>5, <2>1, SubmitFrame
<1>7. CASE r # "failed"
  <2>1. Cardinality(T) \in Nat
    BY ConstantsOK, FS_Subset, FS_CardinalityType
  <2>2. /\ jobs' \in [Jobs -> JobRow]
        /\ jobs'[j].status = "pending"
        /\ \A i \in Jobs \ {j} : jobs'[i] = jobs[i]
    <3> DEFINE row == [NoJobRow EXCEPT !.status = "pending", !.total = Cardinality(T)]
    <3>1. row \in JobRow /\ row.status = "pending"
      BY <2>1 DEF JobRow, NoJobRow, JobStatus
    <3>2. jobs' = [jobs EXCEPT ![j] = row]
      BY <1>1, <1>7
    <3> HIDE DEF row
    <3> QED BY <3>1, <3>2 DEF IInv, TypeOK
  <2>3. /\ results' \in [Jobs -> [Tuples -> RowStatus]]
        /\ \A i \in Jobs \ {j} : results'[i] = results[i]
    BY <1>1, <1>7 DEF IInv, TypeOK, RowStatus
  <2>4. TypeOK'
    BY <1>2, <1>4, <1>5, <2>2, <2>3 DEF IInv, TypeOK
  <2>5. QueueInv' /\ SlotInv'
    BY <1>5 DEF IInv, QueueInv, SlotInv
  <2>6. FreshInv'
    BY <1>4, <1>5, <2>2 DEF IInv, FreshInv, Exists
  <2>7. \A w \in Workers : work[w].pc # "idle" => work[w].job # j
    BY <1>5 DEF IInv, FreshInv, SlotInv
  <2>8. SettledInv'
    <3>1. \A i \in Jobs \ {j} : Settled(i) => Settled(i)'
      BY <2>3 DEF Settled, RowsIn
    <3>2. CompleteMeansSettled'
      BY <2>2, <3>1 DEF IInv, SettledInv, CompleteMeansSettled
    <3>3. ASSUME NEW w \in Workers, work[w].pc \in {"read_job", "finalize"}
          PROVE  Settled(work[w].job)'
      BY <3>3, <3>1, <2>7, <1>5 DEF IInv, SettledInv, SlotInv
    <3> QED BY <1>5, <3>2, <3>3 DEF SettledInv
  <2> QED BY <2>4, <2>5, <2>6, <2>8 DEF IInv
<1> QED BY <1>6, <1>7

\* Reading the rows back hands the enqueue step exactly the job's open rows.
LEMMA GetPendingResultsInv ==
    ASSUME IInv, NEW j \in Jobs, GetPendingResults(j)
    PROVE  IInv'
<1>1. PICK r \in {"ok", "failed"} : Call(submit[j].live, r)
  BY DEF GetPendingResults
<1>2. /\ submit' \in [Jobs -> Handler]
      /\ submit'[j].pc \in {"enqueue", "mark_failed"}
      /\ \A i \in Jobs \ {j} : submit'[i] = submit[i]
  <2>1. RowsIn(j, {"pending"}) \in SUBSET Tuples
    BY DEF RowsIn
  <2>2. PICK h \in Handler : h.pc \in {"enqueue", "mark_failed"} /\ submit' = [submit EXCEPT ![j] = h]
    <3> DEFINE h1 == [submit[j] EXCEPT !.pc = "enqueue", !.inserted = RowsIn(j, {"pending"})]
               h2 == [submit[j] EXCEPT !.pc = "mark_failed"]
    <3>1. h1 \in Handler /\ h2 \in Handler /\ h1.pc = "enqueue" /\ h2.pc = "mark_failed"
      BY <2>1 DEF IInv, TypeOK, Handler, SubmitPC
    <3>2. submit' = [submit EXCEPT ![j] = h1] \/ submit' = [submit EXCEPT ![j] = h2]
      BY DEF GetPendingResults, IInv, TypeOK
    <3> HIDE DEF h1, h2
    <3> QED BY <3>1, <3>2
  <2> QED BY <2>2 DEF IInv, TypeOK
<1>3. submit[j].pc = "created" /\ UNCHANGED <<jobs, results, river, work, aged>>
  BY DEF GetPendingResults
<1>4. faults' \in 0 .. MaxFaults
  BY <1>1, Parts, CallType
<1>5. jobs' \in [Jobs -> JobRow]
  BY <1>3 DEF IInv, TypeOK
<1> QED BY <1>2, <1>3, <1>4, <1>5, SubmitFrame

\* EnqueueBatch overwrites entries, but none that exists.
LEMMA EnqueueBatchInv ==
    ASSUME IInv, NEW j \in Jobs, EnqueueBatch(j)
    PROVE  IInv'
<1>1. PICK r \in CallResults :
        /\ Call(submit[j].live \/ submit[j].inserted = {}, r)
        /\ river' = IF r = "failed" THEN river
              ELSE [river EXCEPT ![j] = [t \in Tuples |->
                      IF t \in submit[j].inserted
                      THEN [state |-> "available", attempt |-> 0] ELSE @[t]]]
        /\ Goto(j, IF r = "ok" THEN "mark_running" ELSE "mark_failed")
  BY DEF EnqueueBatch
<1>2. faults' \in 0 .. MaxFaults
  BY <1>1, Parts, CallType
<1>3. PICK pc \in {"mark_running", "mark_failed"} : Goto(j, pc)
  BY <1>1
<1>4. /\ submit' \in [Jobs -> Handler]
      /\ submit'[j].pc = pc
      /\ \A i \in Jobs \ {j} : submit'[i] = submit[i]
  BY <1>3, GotoType DEF IInv, TypeOK, SubmitPC
<1>5. submit[j].pc = "enqueue" /\ UNCHANGED <<jobs, results, work, aged>>
  BY DEF EnqueueBatch
<1>6. /\ river' \in [Jobs -> [Tuples -> QueueEntry]]
      /\ \A i \in Jobs \ {j} : river'[i] = river[i]
      /\ \A t \in Tuples : river'[j][t] = river[j][t]
                           \/ river'[j][t] = [state |-> "available", attempt |-> 0]
  BY <1>1, ConstantsOK DEF IInv, TypeOK, QueueEntry, RiverState
<1>7. TypeOK'
  BY <1>2, <1>4, <1>5, <1>6 DEF IInv, TypeOK
<1>8. QueueInv'
  <2>1. \A t \in Tuples : river[j][t].state = "none"
    BY <1>5 DEF IInv, FreshInv
  <2> QED BY <1>6, <2>1, ConstantsOK DEF IInv, QueueInv
<1>9. SlotInv'
  <2>1. \A w \in Workers : work[w].pc # "idle" => work[w].job # j
    BY <1>5 DEF IInv, FreshInv, SlotInv
  <2> QED BY <1>5, <1>6, <2>1 DEF IInv, SlotInv
<1>10. FreshInv'
  BY <1>4, <1>5, <1>6 DEF IInv, FreshInv, Exists
<1>11. SettledInv'
  BY <1>5 DEF IInv, SettledInv, CompleteMeansSettled, Settled, RowsIn
<1> QED BY <1>7, <1>8, <1>9, <1>10, <1>11 DEF IInv

\* Marking the job running makes no job complete.
LEMMA MarkRunningInv ==
    ASSUME IInv, NEW j \in Jobs, MarkRunning(j)
    PROVE  IInv'
<1>1. PICK r \in CallResults :
        /\ Call(submit[j].live, r)
        /\ IF r = "failed" THEN UNCHANGED jobs ELSE MarkJobStatus(j, "running", "null")
        /\ Goto(j, IF r = "ok" THEN "accepted" ELSE "error")
  BY DEF MarkRunning
<1>2. faults' \in 0 .. MaxFaults
  BY <1>1, Parts, CallType
<1>3. PICK pc \in {"accepted", "error"} : Goto(j, pc)
  BY <1>1
<1>4. /\ submit' \in [Jobs -> Handler]
      /\ submit'[j].pc = pc
      /\ \A i \in Jobs \ {j} : submit'[i] = submit[i]
  BY <1>3, GotoType DEF IInv, TypeOK, SubmitPC
<1>5. /\ jobs' \in [Jobs -> JobRow]
      /\ \A i \in Jobs : jobs'[i].status # jobs[i].status =>
            jobs[i].status # "none" /\ jobs'[i].status # "complete"
  <2>1. "running" \in JobStatus /\ "null" \in {"null", "set"}
    BY DEF JobStatus
  <2> QED BY <1>1, <2>1, MarkJobStatusType DEF IInv, TypeOK
<1> QED BY <1>2, <1>4, <1>5, SubmitFrame DEF MarkRunning

\* Marking the job failed makes no job complete.
LEMMA MarkFailedBestEffortInv ==
    ASSUME IInv, NEW j \in Jobs, MarkFailedBestEffort(j)
    PROVE  IInv'
<1>1. PICK r \in CallResults :
        /\ Call(submit[j].live, r)
        /\ IF r = "failed" THEN UNCHANGED jobs ELSE MarkJobStatus(j, "failed", "set")
  BY DEF MarkFailedBestEffort
<1>2. faults' \in 0 .. MaxFaults
  BY <1>1, Parts, CallType
<1>3. /\ submit' \in [Jobs -> Handler]
      /\ submit'[j].pc = "error"
      /\ \A i \in Jobs \ {j} : submit'[i] = submit[i]
  BY GotoType DEF MarkFailedBestEffort, IInv, TypeOK, SubmitPC
<1>4. /\ jobs' \in [Jobs -> JobRow]
      /\ \A i \in Jobs : jobs'[i].status # jobs[i].status =>
            jobs[i].status # "none" /\ jobs'[i].status # "complete"
  <2>1. "failed" \in JobStatus /\ "set" \in {"null", "set"}
    BY DEF JobStatus
  <2> QED BY <1>1, <2>1, MarkJobStatusType DEF IInv, TypeOK
<1> QED BY <1>2, <1>3, <1>4, SubmitFrame DEF MarkFailedBestEffort

\* River hands a slot an entry no other slot holds, and starts an attempt that is left.
LEMMA FetchInv ==
    ASSUME IInv, NEW w \in Workers, Fetch(w)
    PROVE  IInv'
<1>1. PICK j \in Jobs, t \in Tuples :
        /\ river[j][t].state = "available"
        /\ river' = [river EXCEPT ![j][t] = [state |-> "running", attempt |-> @.attempt + 1]]
        /\ work' = [work EXCEPT ![w] = [IdleSlot EXCEPT !.pc = "wait", !.job = j, !.tuple = t]]
  BY DEF Fetch
<1> DEFINE slot  == [IdleSlot EXCEPT !.pc = "wait", !.job = j, !.tuple = t]
           entry == [state |-> "running", attempt |-> river[j][t].attempt + 1]
<1>2. slot \in Slot /\ slot.pc = "wait" /\ slot.job = j /\ slot.tuple = t
  BY DEF IdleSlot, Slot, WorkPC, Final
<1>3. river[j][t] \in QueueEntry /\ river[j][t].attempt < MaxAttempts
  BY <1>1 DEF IInv, TypeOK, QueueInv
<1>4. entry \in QueueEntry /\ entry.state = "running" /\ entry.attempt > 0
  BY <1>3, ConstantsOK DEF QueueEntry, RiverState
<1>5. /\ work' \in [Workers -> Slot]
      /\ work'[w] = slot
      /\ \A v \in Workers \ {w} : work'[v] = work[v]
  <2> HIDE DEF slot
  <2> QED BY <1>1, <1>2 DEF slot, IInv, TypeOK
<1>6. /\ river' \in [Jobs -> [Tuples -> QueueEntry]]
      /\ river'[j][t] = entry
      /\ \A i \in Jobs, u \in Tuples : i # j \/ u # t => river'[i][u] = river[i][u]
  <2>1. river' = [river EXCEPT ![j][t] = entry]
    BY <1>1 DEF IInv, TypeOK
  <2> HIDE DEF entry
  <2> QED BY <2>1, <1>4 DEF IInv, TypeOK
<1> HIDE DEF slot, entry
<1>7. QueueInv'
  BY <1>4, <1>6 DEF IInv, QueueInv
<1>8. SlotInv'
  <2>1. ASSUME NEW v \in Workers \ {w}, work[v].pc # "idle"
        PROVE  /\ work[v].job \in Jobs /\ work[v].tuple \in Tuples
               /\ river[work[v].job][work[v].tuple].state = "running"
               /\ work[v].job # j \/ work[v].tuple # t
    BY <2>1, <1>1 DEF IInv, SlotInv
  <2>2. \A v \in Workers : work'[v].pc # "idle" =>
            /\ work'[v].job \in Jobs /\ work'[v].tuple \in Tuples
            /\ river'[work'[v].job][work'[v].tuple].state = "running"
    BY <1>2, <1>4, <1>5, <1>6, <2>1
  <2> QED BY <1>2, <1>5, <2>1, <2>2 DEF IInv, SlotInv
<1>9. QueueOK'
  BY <1>5, <1>6, <1>7, <1>8 DEF QueueOK
<1>10. OnlySlot(w)
  BY <1>1, <1>5, <1>6 DEF OnlySlot
<1>11. faults' \in 0 .. MaxFaults /\ UNCHANGED <<jobs, results, submit, aged>>
  BY Parts DEF Fetch
<1> QED BY <1>2, <1>5, <1>9, <1>10, <1>11, QueueFrame

\* An acknowledged entry is completed and its slot free.
LEMMA AckInv ==
    ASSUME IInv, NEW w \in Workers, Ack(w)
    PROVE  IInv'
<1> DEFINE entry == [river[work[w].job][work[w].tuple] EXCEPT !.state = "completed"]
<1>1. river[work[w].job][work[w].tuple] \in QueueEntry
  BY DEF Ack, AtStep, IInv, TypeOK, SlotInv
<1>2. entry \in QueueEntry /\ entry.state = "completed"
  BY <1>1 DEF QueueEntry, RiverState
<1>3. river' = [river EXCEPT ![work[w].job][work[w].tuple] = entry]
  BY DEF Ack, IInv, TypeOK
<1>4. work' = [work EXCEPT ![w] = IdleSlot] /\ work[w].pc # "idle"
  BY DEF Ack, AtStep
<1> HIDE DEF entry
<1>5. QueueOK' /\ OnlySlot(w) /\ work'[w].pc = "idle"
  BY <1>2, <1>3, <1>4, Parts, LeaveEntry
<1> QED BY <1>5, Parts, QueueFrame DEF Ack

\* The entry stays running with no slot holding it, until Rescue.
LEMMA WorkerCrashInv ==
    ASSUME IInv, NEW w \in Workers, WorkerCrash(w)
    PROVE  IInv'
<1>1. IdleSlot \in Slot /\ IdleSlot.pc = "idle"
  BY DEF IdleSlot, Slot, WorkPC, Final
<1>2. /\ work' \in [Workers -> Slot]
      /\ work'[w].pc = "idle"
      /\ \A v \in Workers \ {w} : work'[v] = work[v]
  BY <1>1 DEF WorkerCrash, IInv, TypeOK
<1>3. QueueOK'
  BY <1>2 DEF WorkerCrash, IInv, TypeOK, QueueOK, QueueInv, SlotInv
<1>4. OnlySlot(w)
  BY <1>2 DEF WorkerCrash, OnlySlot
<1>5. faults' \in 0 .. MaxFaults
  BY Parts, ConstantsOK DEF WorkerCrash
<1> QED BY <1>2, <1>3, <1>4, <1>5, QueueFrame DEF WorkerCrash

\* A snooze gives the attempt back, so it cannot raise the count.
LEMMA SnoozeInv ==
    ASSUME IInv, NEW w \in Workers, Snooze(w)
    PROVE  IInv'
<1> DEFINE old   == river[work[w].job][work[w].tuple]
           entry == [state |-> "available", attempt |-> old.attempt - 1]
<1>1. old \in QueueEntry /\ old.attempt > 0
  BY DEF Snooze, AtStep, IInv, TypeOK, SlotInv, QueueInv
<1>2. entry \in QueueEntry /\ entry.state = "available" /\ entry.attempt < MaxAttempts
  BY <1>1, ConstantsOK DEF QueueEntry, RiverState
<1>3. river' = [river EXCEPT ![work[w].job][work[w].tuple] = entry]
  BY DEF Snooze, IInv, TypeOK
<1>4. work' = [work EXCEPT ![w] = IdleSlot] /\ work[w].pc # "idle"
  BY DEF Snooze, AtStep
<1> HIDE DEF entry
<1>5. QueueOK' /\ OnlySlot(w) /\ work'[w].pc = "idle"
  BY <1>2, <1>3, <1>4, Parts, LeaveEntry
<1>6. faults' \in 0 .. MaxFaults
  BY Parts, ConstantsOK DEF Snooze
<1> QED BY <1>5, <1>6, QueueFrame DEF Snooze

\* An error of the rate limiter is an error of the execution.
LEMMA WaitErrorInv ==
    ASSUME IInv, NEW w \in Workers, WaitError(w)
    PROVE  IInv'
<1>1. QueueOK' /\ OnlySlot(w) /\ work'[w].pc = "idle"
  BY Parts, ErrorEntry DEF WaitError, AtStep
<1>2. faults' \in 0 .. MaxFaults
  BY Parts, ConstantsOK DEF WaitError
<1> QED BY <1>1, <1>2, QueueFrame DEF WaitError

\* A slot that may search keeps its entry.
LEMMA RateLimiterWaitInv ==
    ASSUME IInv, NEW w \in Workers, RateLimiterWait(w)
    PROVE  IInv'
<1>1. "search" \in WorkPC \ {"idle"} /\ work[w].pc # "idle"
  BY DEF WorkPC, RateLimiterWait, AtStep
<1>2. QueueOK' /\ OnlySlot(w) /\ work'[w].pc = "search"
  BY <1>1, Parts, StepEntry DEF RateLimiterWait
<1> QED BY <1>2, Parts, QueueFrame DEF RateLimiterWait

\* Every answer of the provider keeps the entry or ends the execution in an error.
LEMMA SearchInv ==
    ASSUME IInv, NEW w \in Workers, Search(w)
    PROVE  IInv'
<1>1. work[w].pc # "idle" /\ UNCHANGED <<jobs, results, submit, aged, faults>>
  BY DEF Search, AtStep
<1>2. CASE Step(w, "update") /\ UNCHANGED river
  <2>1. QueueOK' /\ OnlySlot(w) /\ work'[w].pc = "update"
    BY <1>1, <1>2, Parts, StepEntry DEF WorkPC
  <2> QED BY <1>1, <2>1, Parts, QueueFrame
<1>3. CASE work' = [work EXCEPT ![w].pc = "dead_letter", ![w].path = "dead"] /\ UNCHANGED river
  <2> DEFINE slot == [work[w] EXCEPT !.pc = "dead_letter", !.path = "dead"]
  <2>1. /\ slot \in Slot /\ slot.pc = "dead_letter"
        /\ slot.job = work[w].job /\ slot.tuple = work[w].tuple
    BY Parts DEF QueueOK, Slot, WorkPC
  <2>2. work' = [work EXCEPT ![w] = slot]
    BY <1>3, Parts DEF QueueOK
  <2> HIDE DEF slot
  <2>3. QueueOK' /\ OnlySlot(w) /\ work'[w] = slot
    BY <1>1, <1>3, <2>1, <2>2, Parts, KeepEntry
  <2> QED BY <1>1, <2>1, <2>3, Parts, QueueFrame
<1>4. CASE ReturnError(w)
  <2>1. QueueOK' /\ OnlySlot(w) /\ work'[w].pc = "idle"
    BY <1>1, <1>4, Parts, ErrorEntry
  <2> QED BY <1>1, <2>1, Parts, QueueFrame
<1> QED BY <1>2, <1>3, <1>4 DEF Search

\* UpdateResult and MarkResultDeadLetter: the row they write is not open.
LEMMA PersistRowInv ==
    ASSUME IInv, NEW w \in Workers, work[w].pc # "idle",
           NEW status \in {"complete", "dead_letter"}, PersistRow(w, status)
    PROVE  IInv'
<1>1. PICK r \in CallResults :
        /\ Call(TRUE, r)
        /\ IF r = "failed" THEN UNCHANGED results ELSE SetRow(w, status)
        /\ IF r = "ok" THEN Step(w, "count") /\ UNCHANGED river ELSE ReturnError(w)
  BY DEF PersistRow
<1>2. faults' \in 0 .. MaxFaults
  BY <1>1, Parts, CallType
<1>3. QueueOK' /\ OnlySlot(w) /\ work'[w].pc \in {"count", "idle"}
  <2>1. CASE r = "ok"
    BY <1>1, <2>1, Parts, StepEntry DEF WorkPC
  <2>2. CASE r # "ok"
    BY <1>1, <2>2, Parts, ErrorEntry
  <2> QED BY <2>1, <2>2
<1>4. work[w].job \in Jobs /\ work[w].tuple \in Tuples
  BY DEF IInv, SlotInv
<1>5. /\ results' \in [Jobs -> [Tuples -> RowStatus]]
      /\ \A j \in Jobs, t \in Tuples : results'[j][t] \in Open => results[j][t] \in Open
  <2>1. status \in RowStatus /\ status \notin Open
    BY DEF RowStatus, Open
  <2>2. results' = results \/ results' = [results EXCEPT ![work[w].job][work[w].tuple] = status]
    BY <1>1 DEF SetRow
  <2>3. /\ results' \in [Jobs -> [Tuples -> RowStatus]]
        /\ \A j \in Jobs, t \in Tuples : results'[j][t] \in {results[j][t], status}
    <3>1. results \in [Jobs -> [Tuples -> RowStatus]]
      BY DEF IInv, TypeOK
    <3>2. CASE results' = results
      BY <3>1, <3>2
    <3>3. CASE results' = [results EXCEPT ![work[w].job][work[w].tuple] = status]
      BY <1>4, <2>1, <3>1, <3>3
    <3> QED BY <2>2, <3>2, <3>3
  <2> QED BY <2>1, <2>3
<1>6. TablesKept(w)
  BY <1>2, <1>3, <1>5 DEF TablesKept, PersistRow, IInv, TypeOK
<1> QED BY <1>3, <1>6, WorkFrame

\* The counts a slot carries are natural numbers.
LEMMA CountResultsInv ==
    ASSUME IInv, NEW w \in Workers, CountResults(w)
    PROVE  IInv'
<1> DEFINE d == Cardinality(RowsIn(work[w].job, Done))
           f == Cardinality(RowsIn(work[w].job, Dead))
           slot == [work[w] EXCEPT !.pc = "progress", !.done = d, !.dead = f]
<1>1. d \in Nat /\ f \in Nat
  BY RowCount
<1>2. work' = [work EXCEPT ![w] = slot] /\ work[w].pc # "idle"
  BY Parts DEF CountResults, AtStep, QueueOK
<1> HIDE DEF d, f
<1>3. /\ slot \in Slot /\ slot.pc = "progress"
      /\ slot.job = work[w].job /\ slot.tuple = work[w].tuple
  BY <1>1, Parts DEF QueueOK, Slot, WorkPC
<1> HIDE DEF slot
<1>4. UNCHANGED <<jobs, results, river, submit, aged, faults>>
  BY DEF CountResults
<1>5. QueueOK' /\ OnlySlot(w) /\ work'[w] = slot
  BY <1>2, <1>3, <1>4, Parts, KeepEntry
<1> QED BY <1>3, <1>4, <1>5, Parts, QueueFrame

\* Writing the counters changes no status, whichever counts are written.
LEMMA UpdateJobProgressInv ==
    ASSUME IInv, NEW w \in Workers, UpdateJobProgress(w)
    PROVE  IInv'
<1>1. PICK r \in CallResults :
        /\ Call(TRUE, r)
        /\ jobs' = IF r = "failed" \/ ~Exists(work[w].job) THEN jobs
                   ELSE [jobs EXCEPT ![work[w].job].completed = work[w].done,
                                     ![work[w].job].failed = work[w].dead]
        /\ IF r = "ok" \/ work[w].path = "ok"
           THEN Step(w, "remaining") /\ UNCHANGED river
           ELSE ReturnError(w)
  BY DEF UpdateJobProgress
<1>2. /\ work[w].pc # "idle" /\ work[w].job \in Jobs
      /\ work[w].done \in Nat /\ work[w].dead \in Nat
      /\ UNCHANGED <<results, submit, aged>>
  BY DEF UpdateJobProgress, AtStep, IInv, SlotInv, TypeOK, Slot
<1>3. faults' \in 0 .. MaxFaults
  BY <1>1, Parts, CallType
<1>4. QueueOK' /\ OnlySlot(w) /\ work'[w].pc \in {"remaining", "idle"}
  <2>1. CASE r = "ok" \/ work[w].path = "ok"
    BY <1>1, <1>2, <2>1, Parts, StepEntry DEF WorkPC
  <2>2. CASE ~(r = "ok" \/ work[w].path = "ok")
    BY <1>1, <1>2, <2>2, Parts, ErrorEntry
  <2> QED BY <2>1, <2>2
<1>5. jobs' \in [Jobs -> JobRow] /\ \A j \in Jobs : jobs'[j].status = jobs[j].status
  <2> DEFINE j0  == work[w].job
             row == [jobs[j0] EXCEPT !.completed = work[w].done, !.failed = work[w].dead]
  <2>1. row \in JobRow /\ row.status = jobs[j0].status
    BY <1>2 DEF IInv, TypeOK, JobRow
  <2>2. jobs' = jobs \/ jobs' = [jobs EXCEPT ![j0] = row]
    BY <1>1, <1>2 DEF IInv, TypeOK
  <2> HIDE DEF row
  <2> QED BY <1>2, <2>1, <2>2 DEF IInv, TypeOK
<1>6. TablesKept(w)
  BY <1>2, <1>3, <1>4, <1>5 DEF TablesKept, IInv, TypeOK
<1> QED BY <1>4, <1>6, WorkFrame

\* The end of MarkJobCompleteIfDone: the slot acknowledges or gives back.
LEMMA EndEntry ==
    ASSUME QueueOK, NEW w \in Workers, work[w].pc # "idle", ReturnNil(w) \/ CompleteIfDoneError(w)
    PROVE  QueueOK' /\ OnlySlot(w) /\ work'[w].pc \in {"ack", "idle"}
<1>1. CASE ReturnNil(w)
  BY <1>1, StepEntry DEF ReturnNil, WorkPC
<1>2. CASE ReturnError(w)
  BY <1>2, ErrorEntry
<1> QED BY <1>1, <1>2 DEF CompleteIfDoneError

\* A slot goes on to read the job only if no row of it is open.
LEMMA CountRemainingInv ==
    ASSUME IInv, NEW w \in Workers, CountRemaining(w)
    PROVE  IInv'
<1>1. PICK r \in {"ok", "failed"} :
        /\ Call(TRUE, r)
        /\ IF r = "failed" THEN CompleteIfDoneError(w)
           ELSE IF Settled(work[w].job) THEN Step(w, "read_job") /\ UNCHANGED river
           ELSE ReturnNil(w)
  BY DEF CountRemaining
<1>2. work[w].pc # "idle" /\ UNCHANGED <<jobs, results, submit, aged>>
  BY DEF CountRemaining, AtStep
<1>3. faults' \in 0 .. MaxFaults
  BY <1>1, Parts, CallType
<1>4. CASE ReturnNil(w) \/ CompleteIfDoneError(w)
  <2>1. QueueOK' /\ OnlySlot(w) /\ work'[w].pc \in {"ack", "idle"}
    BY <1>2, <1>4, Parts, EndEntry
  <2> QED BY <1>2, <1>3, <2>1, QueueFrame
<1>5. CASE Settled(work[w].job) /\ Step(w, "read_job") /\ UNCHANGED river
  <2>1. /\ QueueOK' /\ OnlySlot(w)
        /\ work'[w].pc = "read_job" /\ work'[w].job = work[w].job
    BY <1>2, <1>5, Parts, StepEntry DEF WorkPC
  <2>2. TablesKept(w)
    BY <1>2, <1>3, <1>5, <2>1 DEF TablesKept, IInv, TypeOK
  <2> QED BY <2>1, <2>2, WorkFrame
<1> QED BY <1>1, <1>4, <1>5

\* A slot about to finalise a job still knows it to be settled.
LEMMA ReadJobInv ==
    ASSUME IInv, NEW w \in Workers, ReadJob(w)
    PROVE  IInv'
<1> DEFINE fs == FinalStatus(jobs[work[w].job])
<1>1. PICK r \in {"ok", "failed"} :
        /\ Call(TRUE, r)
        /\ \/ ReturnNil(w) \/ CompleteIfDoneError(w)
           \/ work' = [work EXCEPT ![w].pc = "finalize", ![w].final = fs] /\ UNCHANGED river
  BY DEF ReadJob
<1>2. work[w].pc = "read_job" /\ UNCHANGED <<jobs, results, submit, aged>>
  BY DEF ReadJob, AtStep
<1>3. faults' \in 0 .. MaxFaults
  BY <1>1, Parts, CallType
<1>4. CASE ReturnNil(w) \/ CompleteIfDoneError(w)
  <2>1. QueueOK' /\ OnlySlot(w) /\ work'[w].pc \in {"ack", "idle"}
    BY <1>2, <1>4, Parts, EndEntry
  <2> QED BY <1>2, <1>3, <2>1, QueueFrame
<1>5. CASE work' = [work EXCEPT ![w].pc = "finalize", ![w].final = fs] /\ UNCHANGED river
  <2> DEFINE slot == [work[w] EXCEPT !.pc = "finalize", !.final = fs]
  <2>1. fs \in Final
    BY DEF FinalStatus, Final
  <2>2. work' = [work EXCEPT ![w] = slot]
    BY <1>5, Parts DEF QueueOK
  <2> HIDE DEF fs
  <2>3. /\ slot \in Slot /\ slot.pc = "finalize"
        /\ slot.job = work[w].job /\ slot.tuple = work[w].tuple
    BY <2>1, Parts DEF QueueOK, Slot, WorkPC
  <2> HIDE DEF slot
  <2>4. QueueOK' /\ OnlySlot(w) /\ work'[w] = slot
    BY <1>2, <1>5, <2>2, <2>3, Parts, KeepEntry
  <2>5. Settled(work[w].job)
    BY <1>2 DEF IInv, SettledInv
  <2>6. TablesKept(w)
    BY <1>2, <1>3, <2>3, <2>4, <2>5 DEF TablesKept, IInv, TypeOK
  <2> QED BY <2>4, <2>6, WorkFrame
<1> QED BY <1>1, <1>4, <1>5

\* The only step that completes a job: its rows were counted before, and no row
\* has been opened since.
LEMMA FinalizeInv ==
    ASSUME IInv, NEW w \in Workers, Finalize(w)
    PROVE  IInv'
<1> DEFINE j0 == work[w].job
<1>1. PICK r \in CallResults :
        /\ Call(TRUE, r)
        /\ jobs' = IF r = "failed" \/ jobs[j0].status \notin {"pending", "running"}
                   THEN jobs ELSE [jobs EXCEPT ![j0].status = work[w].final]
        /\ ReturnNil(w) \/ CompleteIfDoneError(w)
  BY DEF Finalize
<1>2. /\ work[w].pc = "finalize" /\ j0 \in Jobs /\ work[w].final \in Final
      /\ UNCHANGED <<results, submit, aged>>
  BY DEF Finalize, AtStep, IInv, SlotInv, TypeOK, Slot
<1>3. faults' \in 0 .. MaxFaults
  BY <1>1, Parts, CallType
<1>4. QueueOK' /\ OnlySlot(w) /\ work'[w].pc \in {"ack", "idle"}
  BY <1>1, <1>2, Parts, EndEntry
<1>5. /\ jobs' \in [Jobs -> JobRow]
      /\ \A j \in Jobs : jobs'[j].status # jobs[j].status => j = j0 /\ jobs[j].status # "none"
  BY <1>1, <1>2 DEF IInv, TypeOK, JobRow, JobStatus, Final
<1>6. Settled(j0)
  BY <1>2 DEF IInv, SettledInv
<1>7. TablesKept(w)
  BY <1>2, <1>3, <1>4, <1>5, <1>6 DEF TablesKept, IInv, TypeOK
<1> QED BY <1>4, <1>7, WorkFrame

\* A rescued entry is held by no slot, so no slot loses it.
LEMMA RescueInv ==
    ASSUME IInv, NEW j \in Jobs, NEW t \in Tuples, Rescue(j, t)
    PROVE  IInv'
<1> DEFINE entry == AfterError(river[j][t])
<1>1. /\ river[j][t].state = "running" /\ \A w \in Workers : ~Holds(w, j, t)
      /\ UNCHANGED <<jobs, results, submit, work, aged, faults>>
  BY DEF Rescue
<1>2. /\ entry \in QueueEntry /\ entry.state \in {"available", "discarded"}
      /\ entry.state = "available" => entry.attempt < MaxAttempts
  <2>1. river[j][t] \in QueueEntry
    BY DEF IInv, TypeOK
  <2> QED BY <2>1, AfterErrorEntry
<1>3. river' = [river EXCEPT ![j][t] = entry]
  BY DEF Rescue, IInv, TypeOK
<1> HIDE DEF entry
<1>4. /\ river' \in [Jobs -> [Tuples -> QueueEntry]]
      /\ river'[j][t] = entry
      /\ \A i \in Jobs, u \in Tuples : i # j \/ u # t => river'[i][u] = river[i][u]
  BY <1>2, <1>3 DEF IInv, TypeOK
<1>5. TypeOK'
  BY <1>1, <1>4 DEF IInv, TypeOK
<1>6. QueueInv'
  BY <1>2, <1>4 DEF IInv, QueueInv
<1>7. SlotInv'
  <2>1. \A w \in Workers : work[w].pc # "idle" => work[w].job # j \/ work[w].tuple # t
    BY <1>1 DEF Holds
  <2> QED BY <1>1, <1>4, <2>1 DEF IInv, SlotInv
<1>8. FreshInv'
  BY <1>1, <1>4 DEF IInv, FreshInv, Exists
<1>9. SettledInv'
  BY <1>1 DEF IInv, SettledInv, CompleteMeansSettled, Settled, RowsIn
<1> QED BY <1>5, <1>6, <1>7, <1>8, <1>9 DEF IInv

\* Time that passes changes no table.
LEMMA ExpireInv ==
    ASSUME IInv, NEW j \in Jobs, Expire(j)
    PROVE  IInv'
<1>1. UNCHANGED <<jobs, results, river, submit, work, faults>> /\ aged' = aged \cup {j}
  BY DEF Expire
<1>2. TypeOK'
  BY <1>1 DEF IInv, TypeOK
<1> QED BY <1>1, <1>2 DEF IInv, QueueInv, SlotInv, FreshInv, SettledInv,
        CompleteMeansSettled, Settled, RowsIn, Exists

\* The sweep removes rows under the feet of busy slots, but opens none.
LEMMA DeleteJobsOlderThanInv ==
    ASSUME IInv, DeleteJobsOlderThan
    PROVE  IInv'
<1>1. /\ UNCHANGED <<river, submit, work, aged, faults>>
      /\ jobs' = [j \in Jobs |-> IF j \in aged THEN NoJobRow ELSE jobs[j]]
      /\ results' = [j \in Jobs |-> IF j \in aged THEN [t \in Tuples |-> "none"] ELSE results[j]]
  BY DEF DeleteJobsOlderThan
<1>2. NoJobRow \in JobRow /\ NoJobRow.status = "none"
  BY DEF NoJobRow, JobRow, JobStatus
<1>3. TypeOK'
  BY <1>1, <1>2 DEF IInv, TypeOK, RowStatus
<1>4. QueueInv' /\ SlotInv'
  BY <1>1 DEF IInv, QueueInv, SlotInv
<1>5. FreshInv'
  BY <1>1, <1>2 DEF IInv, FreshInv, Exists
<1>6. \A j \in Jobs : Settled(j) => Settled(j)'
  BY <1>1 DEF Settled, RowsIn, Open
<1>7. SettledInv'
  <2>1. CompleteMeansSettled'
    BY <1>1, <1>2, <1>6 DEF IInv, SettledInv, CompleteMeansSettled
  <2>2. ASSUME NEW w \in Workers, work[w].pc \in {"read_job", "finalize"}
        PROVE  Settled(work[w].job)'
    <3>1. work[w].job \in Jobs /\ Settled(work[w].job)
      BY <2>2 DEF IInv, SettledInv, SlotInv
    <3> QED BY <1>1, <1>6, <3>1
  <2> QED BY <1>1, <2>1, <2>2 DEF SettledInv
<1> QED BY <1>3, <1>4, <1>5, <1>7 DEF IInv

-----------------------------------------------------------------------------
(* Theorems *)

\* The invariant is inductive.
LEMMA StepInv == IInv /\ [Next]_vars => IInv'
<1> SUFFICES ASSUME IInv, [Next]_vars PROVE IInv' OBVIOUS
<1>1. CASE UNCHANGED vars
  BY <1>1 DEF vars, IInv, TypeOK, QueueInv, SlotInv, FreshInv, SettledInv,
     CompleteMeansSettled, Settled, RowsIn, Exists
<1>2. ASSUME NEW j \in Jobs, Reject(j) \/ CreateJob(j) \/ SubmitStep(j) \/ Disconnect(j)
                             \/ ApiCrash(j) \/ Expire(j) \/ (\E t \in Tuples : Rescue(j, t))
      PROVE  IInv'
  BY <1>2, RejectInv, CreateJobInv, GetPendingResultsInv, EnqueueBatchInv, MarkRunningInv,
     MarkFailedBestEffortInv, DisconnectInv, ApiCrashInv, ExpireInv, RescueInv DEF SubmitStep
<1>3. ASSUME NEW w \in Workers, UpdateResult(w) \/ MarkResultDeadLetter(w)
      PROVE  IInv'
  <2>1. work[w].pc # "idle" /\ (PersistRow(w, "complete") \/ PersistRow(w, "dead_letter"))
    BY <1>3 DEF UpdateResult, MarkResultDeadLetter, AtStep
  <2> QED BY <2>1, PersistRowInv
<1>4. ASSUME NEW w \in Workers,
             Fetch(w) \/ WorkStep(w) \/ WorkerCrash(w) \/ Snooze(w) \/ WaitError(w)
      PROVE  IInv'
  BY <1>3, <1>4, FetchInv, AckInv, RateLimiterWaitInv, SearchInv, CountResultsInv,
     UpdateJobProgressInv, CountRemainingInv, ReadJobInv, FinalizeInv, WorkerCrashInv,
     SnoozeInv, WaitErrorInv DEF WorkStep
<1> QED BY <1>1, <1>2, <1>4, DeleteJobsOlderThanInv DEF Next

\* It holds in the empty state.
LEMMA InitInv == Init => IInv
<1> SUFFICES ASSUME Init PROVE IInv OBVIOUS
<1>1. TypeOK
  BY ConstantsOK DEF Init, TypeOK, JobRow, QueueEntry, Handler, Slot, NoJobRow, IdleSlot,
     JobStatus, RowStatus, RiverState, SubmitPC, WorkPC, Final
<1>2. QueueInv /\ SlotInv /\ FreshInv /\ SettledInv
  BY DEF Init, QueueInv, SlotInv, FreshInv, SettledInv, CompleteMeansSettled, Exists,
     NoJobRow, IdleSlot
<1> QED BY <1>1, <1>2 DEF IInv

\* The invariant holds in every reachable state of every instance.
THEOREM Invariant == Spec => []IInv
BY InitInv, StepInv, PTL DEF Spec

\* Types are preserved for any number of attempts, snoozes, crashes and rescues;
\* in particular River never exceeds MaxAttempts on a row.
THEOREM TypeCorrect == Spec => []TypeOK
<1>1. IInv => TypeOK BY DEF IInv
<1> QED BY <1>1, Invariant, PTL

\* MarkJobCompleteIfDone is right to act on a count of open rows that is two
\* statements old: a job reported complete has no row left to search, for any
\* number of jobs, rows, slots and faults.
THEOREM CompleteIsSettled == Spec => []CompleteMeansSettled
<1>1. IInv => CompleteMeansSettled BY DEF IInv, SettledInv
<1> QED BY <1>1, Invariant, PTL

\* Only four statements write a job's status, and each is harmless to a job that
\* ended after its handler did: the handler's own two are over, Finalize asks
\* for a status that is still open, and the sweep deletes the job.
LEMMA StepKeepsFinal ==
    ASSUME IInv, [Next]_vars, NEW j \in Jobs, submit[j].pc \in Ended, jobs[j].status \in Final
    PROVE  jobs'[j].status \in {jobs[j].status, "none"}
<1> DEFINE Kept == jobs'[j].status \in {jobs[j].status, "none"}
<1>0. jobs \in [Jobs -> JobRow] /\ submit \in [Jobs -> Handler]
  BY DEF IInv, TypeOK
<1>1. CASE UNCHANGED jobs
  BY <1>1
<1>2. ASSUME NEW i \in Jobs, CreateJob(i) PROVE Kept
  <2>1. i # j BY <1>2 DEF CreateJob, Ended
  <2>2. jobs'[j] = jobs[j] BY <1>0, <1>2, <2>1 DEF CreateJob
  <2> QED BY <2>2
<1>3. ASSUME NEW i \in Jobs, MarkRunning(i) \/ MarkFailedBestEffort(i) PROVE Kept
  <2>1. i # j BY <1>3 DEF MarkRunning, MarkFailedBestEffort, Ended
  <2>2. jobs'[j] = jobs[j]
    BY <1>0, <1>3, <2>1 DEF MarkRunning, MarkFailedBestEffort, MarkJobStatus
  <2> QED BY <2>2
<1>4. ASSUME NEW w \in Workers, UpdateJobProgress(w) PROVE Kept
  <2>1. \/ jobs' = jobs
        \/ jobs' = [jobs EXCEPT ![work[w].job].completed = work[w].done,
                                ![work[w].job].failed = work[w].dead]
    BY <1>4 DEF UpdateJobProgress
  <2>2. work[w].job \in Jobs
    BY <1>4 DEF UpdateJobProgress, AtStep, IInv, SlotInv
  <2> QED BY <1>0, <2>1, <2>2 DEF JobRow
<1>5. ASSUME NEW w \in Workers, Finalize(w) PROVE Kept
  <2>1. \/ jobs' = jobs
        \/ /\ jobs[work[w].job].status \in {"pending", "running"}
           /\ jobs' = [jobs EXCEPT ![work[w].job].status = work[w].final]
    BY <1>5 DEF Finalize
  <2> QED BY <1>0, <2>1 DEF Final
<1>6. CASE DeleteJobsOlderThan
  <2>1. jobs'[j] = NoJobRow \/ jobs'[j] = jobs[j]
    BY <1>6 DEF DeleteJobsOlderThan
  <2> QED BY <2>1 DEF NoJobRow
<1>7. ASSUME NEW i \in Jobs, Reject(i) \/ GetPendingResults(i) \/ EnqueueBatch(i) \/ Disconnect(i)
                             \/ ApiCrash(i) \/ Expire(i) \/ (\E t \in Tuples : Rescue(i, t))
      PROVE  UNCHANGED jobs
  BY <1>7 DEF Reject, GetPendingResults, EnqueueBatch, Disconnect, ApiCrash, Expire, Rescue
<1>8. ASSUME NEW w \in Workers, Fetch(w) \/ Ack(w) \/ RateLimiterWait(w) \/ Search(w)
                                \/ CountResults(w) \/ CountRemaining(w) \/ ReadJob(w)
                                \/ WorkerCrash(w) \/ Snooze(w) \/ WaitError(w)
      PROVE  UNCHANGED jobs
  BY <1>8 DEF Fetch, Ack, RateLimiterWait, Search, CountResults, CountRemaining, ReadJob,
     WorkerCrash, Snooze, WaitError
<1>9. ASSUME NEW w \in Workers, UpdateResult(w) \/ MarkResultDeadLetter(w)
      PROVE  UNCHANGED jobs
  BY <1>9 DEF UpdateResult, MarkResultDeadLetter, PersistRow
<1>10. CASE UNCHANGED vars
  BY <1>10 DEF vars
<1>11. ASSUME NEW w \in Workers, WorkStep(w)
       PROVE  UNCHANGED jobs \/ UpdateJobProgress(w) \/ Finalize(w)
  BY <1>11, <1>8, <1>9 DEF WorkStep
<1> HIDE DEF Kept
<1> QED BY <1>1, <1>2, <1>3, <1>4, <1>5, <1>6, <1>7, <1>8, <1>10, <1>11
        DEF Next, SubmitStep, Kept

\* Once the POST handler is over, no retry, rescue or late worker changes the
\* status of a job that has ended.
THEOREM FinalIsStable == Spec => FinalAfterSubmitIsStable
<1>1. IInv /\ [Next]_vars =>
        [\A j \in Jobs : submit[j].pc \in Ended /\ jobs[j].status \in Final
            => jobs'[j].status \in {jobs[j].status, "none"}]_vars
  BY StepKeepsFinal
<1> QED BY <1>1, Invariant, PTL DEF Spec, FinalAfterSubmitIsStable

-----------------------------------------------------------------------------
(***************************************************************************)
(* JobEngine implements SearchJob: the queue, the retries, the crashes and *)
(* the sweep cannot be seen through a job.                                 *)
(***************************************************************************)

-----------------------------------------------------------------------------
(* The invariant the mapping needs *)

\* A job is old enough for the sweep only when its request is over; a request
\* that has created its job still finds it.
RequestInv ==
    \A j \in Jobs :
        /\ j \in aged => submit[j].pc \in Ended
        /\ submit[j].pc \notin Ended \cup {"idle"} => Exists(j)

\* The foreign key of search_job_results with its ON DELETE CASCADE: rows have a job.
\* No statement of the model goes against it; the mapping of a deleted job needs it.
RowsHaveJob ==
    \A j \in Jobs : ~Exists(j) => RowsIn(j, RowStatus \ {"none"}) = {}

RInv == IInv /\ RequestInv /\ RowsHaveJob

\* The types the lemmas below ask for.
LEMMA Types ==
    ASSUME IInv
    PROVE  /\ jobs \in [Jobs -> JobRow] /\ results \in [Jobs -> [Tuples -> RowStatus]]
           /\ submit \in [Jobs -> Handler] /\ work \in [Workers -> Slot] /\ aged \subseteq Jobs
BY DEF IInv, TypeOK

\* A busy slot works on a row of the tables.
LEMMA BusyRow ==
    ASSUME IInv, NEW w \in Workers, work[w].pc # "idle"
    PROVE  work[w].job \in Jobs /\ work[w].tuple \in Tuples
BY DEF IInv, SlotInv

-----------------------------------------------------------------------------
(* What a step can do to requests, jobs and rows *)

\* A handler goes from pc to pc and never comes back from its end.
Moves(j, pc) ==
    /\ submit[j].pc \notin Ended
    /\ submit' \in [Jobs -> Handler]
    /\ submit'[j].pc = pc
    /\ \A i \in Jobs \ {j} : submit'[i] = submit[i]

\* Nothing that the mapping looks at changes.
Quiet ==
    /\ \A j \in Jobs : jobs'[j].status = jobs[j].status
    /\ \A j \in Jobs : submit'[j].pc = submit[j].pc
    /\ UNCHANGED <<results, aged>>

\* The same, but for the handler of one job.
QuietTables ==
    /\ \A j \in Jobs : jobs'[j].status = jobs[j].status
    /\ UNCHANGED <<results, aged>>

\* The steps of a handler that read, or queue, or find their call failed.
LEMMA GotoMoves ==
    ASSUME IInv, NEW j \in Jobs, NEW pc \in SubmitPC, submit[j].pc \notin Ended, Goto(j, pc)
    PROVE  Moves(j, pc)
BY Types, GotoType DEF Moves

\* Every step of a slot but the two that write a row and the one that ends a job,
\* every rescue and every fetch is quiet.
LEMMA QuietSteps ==
    ASSUME IInv, NEW w \in Workers,
           \/ Fetch(w) \/ Ack(w) \/ RateLimiterWait(w) \/ Search(w) \/ CountResults(w)
           \/ UpdateJobProgress(w) \/ CountRemaining(w) \/ ReadJob(w) \/ WorkerCrash(w)
           \/ Snooze(w) \/ WaitError(w)
    PROVE  Quiet
<1>1. UNCHANGED <<submit, results, aged>>
  BY DEF Fetch, Ack, RateLimiterWait, Search, CountResults, UpdateJobProgress,
     CountRemaining, ReadJob, WorkerCrash, Snooze, WaitError
<1>2. CASE UpdateJobProgress(w)
  <2>1. \/ jobs' = jobs
        \/ jobs' = [jobs EXCEPT ![work[w].job].completed = work[w].done,
                                ![work[w].job].failed = work[w].dead]
    BY <1>2 DEF UpdateJobProgress
  <2>2. work[w].job \in Jobs
    BY <1>2, BusyRow DEF UpdateJobProgress, AtStep
  <2>3. \A j \in Jobs : jobs'[j].status = jobs[j].status
    BY <2>1, <2>2, Types DEF JobRow
  <2> QED BY <1>1, <2>3 DEF Quiet
<1>3. CASE ~UpdateJobProgress(w)
  <2>1. UNCHANGED jobs
    BY <1>3 DEF Fetch, Ack, RateLimiterWait, Search, CountResults, CountRemaining, ReadJob,
       WorkerCrash, Snooze, WaitError
  <2> QED BY <1>1, <2>1 DEF Quiet
<1> QED BY <1>2, <1>3

\* So is the handler's way to the queue, as far as the tables go.
LEMMA QuietRequest ==
    ASSUME IInv, NEW j \in Jobs, GetPendingResults(j) \/ EnqueueBatch(j)
    PROVE  QuietTables /\ \E pc \in SubmitPC \ (Ended \cup {"idle"}) :
               Moves(j, pc) /\ submit[j].pc # "idle"
<1>1. QuietTables
  BY DEF GetPendingResults, EnqueueBatch, QuietTables
<1>2. CASE GetPendingResults(j)
  <2>1. submit[j].pc = "created"
    BY <1>2 DEF GetPendingResults
  <2>2. PICK h \in Handler : /\ h.pc \in {"enqueue", "mark_failed"}
                             /\ submit' = [submit EXCEPT ![j] = h]
    <3> DEFINE h1 == [submit[j] EXCEPT !.pc = "enqueue", !.inserted = RowsIn(j, {"pending"})]
               h2 == [submit[j] EXCEPT !.pc = "mark_failed"]
    <3>1. h1 \in Handler /\ h2 \in Handler /\ h1.pc = "enqueue" /\ h2.pc = "mark_failed"
      BY Types DEF Handler, SubmitPC, RowsIn
    <3>2. submit' = [submit EXCEPT ![j] = h1] \/ submit' = [submit EXCEPT ![j] = h2]
      BY <1>2, Types DEF GetPendingResults
    <3> HIDE DEF h1, h2
    <3> QED BY <3>1, <3>2
  <2>3. Moves(j, h.pc) /\ h.pc \in SubmitPC \ (Ended \cup {"idle"})
    BY <2>1, <2>2, Types DEF Moves, Ended, SubmitPC
  <2> QED BY <1>1, <2>1, <2>3
<1>3. CASE EnqueueBatch(j)
  <2>1. PICK pc \in {"mark_running", "mark_failed"} : Goto(j, pc)
    BY <1>3 DEF EnqueueBatch
  <2>2. submit[j].pc = "enqueue"
    BY <1>3 DEF EnqueueBatch
  <2>3. pc \in SubmitPC \ (Ended \cup {"idle"})
    BY DEF SubmitPC, Ended
  <2>4. Moves(j, pc)
    BY <2>1, <2>2, <2>3, GotoMoves DEF Ended
  <2> QED BY <1>1, <2>2, <2>3, <2>4
<1> QED BY <1>2, <1>3

-----------------------------------------------------------------------------
(* The visible effects *)

\* Only the status of job j changes.
StatusOf(j, status) ==
    /\ jobs'[j].status = status
    /\ \A i \in Jobs \ {j} : jobs'[i].status = jobs[i].status

\* The handler of j ends without touching a table.
EndsQuietly(j) == QuietTables /\ \E pc \in Ended : Moves(j, pc)

\* It goes on without touching a table.
GoesOn(j) ==
    /\ QuietTables /\ submit[j].pc # "idle"
    /\ \E pc \in SubmitPC \ (Ended \cup {"idle"}) : Moves(j, pc)

\* The job and its rows appear.
Creates(j) ==
    /\ submit[j].pc = "idle" /\ ~Exists(j)
    /\ \E pc \in {"created", "error"} : Moves(j, pc)
    /\ StatusOf(j, "pending")
    /\ \E T \in SUBSET Tuples : results' = [results EXCEPT ![j] =
            [t \in Tuples |-> IF t \in T THEN "pending" ELSE "none"]]
    /\ UNCHANGED aged

\* The handler ends by writing the status.
Overrides(j, status) ==
    /\ Exists(j) /\ \E pc \in Ended : Moves(j, pc)
    /\ StatusOf(j, status)
    /\ UNCHANGED <<results, aged>>

\* A slot writes the outcome of its row, unless the row is gone.
Settles(j, t) ==
    /\ results[j][t] # "none"
    /\ \E s \in {"complete", "dead_letter"} : results' = [results EXCEPT ![j][t] = s]
    /\ UNCHANGED <<jobs, submit, aged>>

\* A slot ends a job that has nothing open.
Ends(j) ==
    /\ jobs[j].status \in {"pending", "running"} /\ Settled(j)
    /\ \E status \in Final : StatusOf(j, status)
    /\ UNCHANGED <<results, submit, aged>>

\* The request creates its job, or fails to.
LEMMA CreateEffect ==
    ASSUME IInv, NEW j \in Jobs, CreateJob(j)
    PROVE  EndsQuietly(j) \/ Creates(j)
<1>1. PICK T \in SUBSET Tuples, r \in CallResults :
        /\ IF r = "failed" THEN UNCHANGED <<jobs, results>>
           ELSE /\ jobs' = [jobs EXCEPT ![j] = [NoJobRow EXCEPT
                               !.status = "pending", !.total = Cardinality(T)]]
                /\ results' = [results EXCEPT ![j] =
                      [t \in Tuples |-> IF t \in T THEN "pending" ELSE "none"]]
        /\ Goto(j, IF r = "ok" THEN "created" ELSE "error")
  BY DEF CreateJob
<1>2. submit[j].pc = "idle" /\ ~Exists(j) /\ UNCHANGED aged
  BY DEF CreateJob, IInv, FreshInv
<1>3. CASE r = "failed"
  <2>1. Moves(j, "error")
    BY <1>1, <1>2, <1>3, GotoMoves DEF Ended, SubmitPC
  <2> QED BY <1>1, <1>2, <1>3, <2>1 DEF EndsQuietly, QuietTables, Ended
<1>4. CASE r # "failed"
  <2>1. PICK pc \in {"created", "error"} : Goto(j, pc)
    BY <1>1
  <2>2. Moves(j, pc)
    BY <2>1, <1>2, GotoMoves DEF Ended, SubmitPC
  <2>3. StatusOf(j, "pending")
    <3> DEFINE row == [NoJobRow EXCEPT !.status = "pending", !.total = Cardinality(T)]
    <3>1. row.status = "pending"
      BY DEF NoJobRow
    <3>2. jobs' = [jobs EXCEPT ![j] = row]
      BY <1>1, <1>4
    <3> HIDE DEF row
    <3> QED BY <3>1, <3>2, Types DEF StatusOf
  <2> QED BY <1>1, <1>2, <1>4, <2>2, <2>3 DEF Creates
<1> QED BY <1>3, <1>4

\* The handler's last statement, on a job that is still there.
LEMMA OverrideEffect ==
    ASSUME IInv, RequestInv, NEW j \in Jobs, NEW status \in {"running", "failed"},
           NEW pc \in Ended, NEW summary \in {"null", "set"},
           submit[j].pc \notin Ended \cup {"idle"}, Goto(j, pc),
           jobs' = jobs \/ MarkJobStatus(j, status, summary), UNCHANGED <<results, aged>>
    PROVE  EndsQuietly(j) \/ Overrides(j, status)
<1>1. Moves(j, pc)
  BY GotoMoves DEF Ended, SubmitPC
<1>2. CASE jobs' = jobs
  BY <1>1, <1>2 DEF EndsQuietly, QuietTables
<1>3. CASE MarkJobStatus(j, status, summary)
  <2>1. Exists(j)
    BY DEF RequestInv
  <2>2. StatusOf(j, status)
    BY <1>3, <2>1, Types DEF MarkJobStatus, StatusOf, JobRow
  <2> QED BY <1>1, <2>1, <2>2 DEF Overrides
<1> QED BY <1>2, <1>3

\* Marking a row of the sweep's victims has no effect; any other row is settled.
LEMMA SettleEffect ==
    ASSUME IInv, NEW w \in Workers, UpdateResult(w) \/ MarkResultDeadLetter(w)
    PROVE  Quiet \/ Settles(work[w].job, work[w].tuple)
<1>1. PICK s \in {"complete", "dead_letter"} : PersistRow(w, s) /\ work[w].pc # "idle"
  BY DEF UpdateResult, MarkResultDeadLetter, AtStep
<1>2. UNCHANGED results \/ SetRow(w, s)
  BY <1>1 DEF PersistRow
<1>3. UNCHANGED <<jobs, submit, aged>>
  BY <1>1 DEF PersistRow
<1> QED BY <1>2, <1>3 DEF SetRow, Quiet, Settles

\* Finalize acts on a count of open rows that still holds.
LEMMA EndEffect ==
    ASSUME IInv, NEW w \in Workers, Finalize(w)
    PROVE  Quiet \/ Ends(work[w].job)
<1>1. work[w].pc = "finalize" /\ UNCHANGED <<results, submit, aged>>
  BY DEF Finalize, AtStep
<1>2. work[w].job \in Jobs /\ Settled(work[w].job)
  BY <1>1, BusyRow DEF IInv, SettledInv
<1>3. \/ jobs' = jobs
      \/ /\ jobs[work[w].job].status \in {"pending", "running"}
         /\ jobs' = [jobs EXCEPT ![work[w].job].status = work[w].final]
  BY DEF Finalize
<1>4. CASE jobs' = jobs
  BY <1>1, <1>4 DEF Quiet
<1>5. CASE jobs' # jobs
  <2>1. StatusOf(work[w].job, work[w].final)
    BY <1>2, <1>3, <1>5, Types DEF StatusOf, JobRow
  <2>2. work[w].final \in Final
    BY Types DEF Slot
  <2> QED BY <1>1, <1>2, <1>3, <1>5, <2>1, <2>2 DEF Ends
<1> QED BY <1>4, <1>5

\* Every step of the engine has one of these effects, or ages or sweeps jobs.
LEMMA StepEffect ==
    ASSUME IInv, RequestInv, [Next]_vars
    PROVE  \/ Quiet
           \/ \E j \in Jobs : \/ EndsQuietly(j) \/ GoesOn(j) \/ Creates(j) \/ Ends(j)
                              \/ Overrides(j, "running") \/ Overrides(j, "failed")
                              \/ Expire(j)
                              \/ \E t \in Tuples : Settles(j, t)
           \/ DeleteJobsOlderThan
<1> DEFINE Effect ==
           \/ Quiet
           \/ \E j \in Jobs : \/ EndsQuietly(j) \/ GoesOn(j) \/ Creates(j) \/ Ends(j)
                              \/ Overrides(j, "running") \/ Overrides(j, "failed")
                              \/ Expire(j)
                              \/ \E t \in Tuples : Settles(j, t)
           \/ DeleteJobsOlderThan
<1>1. CASE UNCHANGED vars
  <2>1. Quiet BY <1>1 DEF vars, Quiet
  <2> QED BY <2>1
<1>2. ASSUME NEW j \in Jobs, Reject(j) \/ ApiCrash(j) PROVE Effect
  <2>1. PICK pc \in Ended : Goto(j, pc)
    BY <1>2 DEF Reject, ApiCrash, Ended
  <2>2. submit[j].pc \notin Ended
    BY <1>2 DEF Reject, ApiCrash, Ended
  <2>3. Moves(j, pc)
    BY <2>1, <2>2, GotoMoves DEF Ended, SubmitPC
  <2>4. EndsQuietly(j)
    BY <1>2, <2>3 DEF Reject, ApiCrash, EndsQuietly, QuietTables
  <2> QED BY <2>4
<1>3. ASSUME NEW j \in Jobs, CreateJob(j) PROVE Effect
  BY <1>3, CreateEffect
<1>4. ASSUME NEW j \in Jobs, GetPendingResults(j) \/ EnqueueBatch(j) PROVE Effect
  <2>1. GoesOn(j)
    BY <1>4, QuietRequest DEF GoesOn
  <2> QED BY <2>1
<1>5. ASSUME NEW j \in Jobs, MarkRunning(j) PROVE Effect
  <2>1. PICK pc \in Ended : Goto(j, pc)
    BY <1>5 DEF MarkRunning, Ended
  <2>2. submit[j].pc \notin Ended \cup {"idle"} /\ UNCHANGED <<results, aged>>
    BY <1>5 DEF MarkRunning, Ended
  <2>3. jobs' = jobs \/ MarkJobStatus(j, "running", "null")
    BY <1>5 DEF MarkRunning
  <2>4. EndsQuietly(j) \/ Overrides(j, "running")
    BY <2>1, <2>2, <2>3, OverrideEffect
  <2> QED BY <2>4
<1>6. ASSUME NEW j \in Jobs, MarkFailedBestEffort(j) PROVE Effect
  <2>1. PICK pc \in Ended : Goto(j, pc)
    BY <1>6 DEF MarkFailedBestEffort, Ended
  <2>2. submit[j].pc \notin Ended \cup {"idle"} /\ UNCHANGED <<results, aged>>
    BY <1>6 DEF MarkFailedBestEffort, Ended
  <2>3. jobs' = jobs \/ MarkJobStatus(j, "failed", "set")
    BY <1>6 DEF MarkFailedBestEffort
  <2>4. EndsQuietly(j) \/ Overrides(j, "failed")
    BY <2>1, <2>2, <2>3, OverrideEffect
  <2> QED BY <2>4
<1>7. ASSUME NEW j \in Jobs, Disconnect(j) PROVE Effect
  <2>1. \A i \in Jobs : submit'[i].pc = submit[i].pc
    BY <1>7, Types DEF Disconnect, Handler
  <2>2. Quiet
    BY <1>7, <2>1 DEF Disconnect, Quiet
  <2> QED BY <2>2
<1>8. ASSUME NEW j \in Jobs, NEW t \in Tuples, Rescue(j, t) PROVE Effect
  <2>1. Quiet
    BY <1>8 DEF Rescue, Quiet
  <2> QED BY <2>1
<1>9. ASSUME NEW w \in Workers, UpdateResult(w) \/ MarkResultDeadLetter(w) PROVE Effect
  <2>1. work[w].pc # "idle"
    BY <1>9 DEF UpdateResult, MarkResultDeadLetter, AtStep
  <2> QED BY <1>9, <2>1, SettleEffect, BusyRow
<1>10. ASSUME NEW w \in Workers, Finalize(w) PROVE Effect
  <2>1. work[w].pc # "idle"
    BY <1>10 DEF Finalize, AtStep
  <2> QED BY <1>10, <2>1, EndEffect, BusyRow
<1>11. ASSUME NEW w \in Workers,
              Fetch(w) \/ WorkStep(w) \/ WorkerCrash(w) \/ Snooze(w) \/ WaitError(w)
       PROVE  Effect
  BY <1>11, <1>9, <1>10, QuietSteps DEF WorkStep
<1> HIDE DEF Effect
<1>12. (\E j \in Jobs : Expire(j)) \/ DeleteJobsOlderThan => Effect
  BY DEF Effect
<1> QED BY <1>1, <1>2, <1>3, <1>4, <1>5, <1>6, <1>7, <1>8, <1>11, <1>12
        DEF Next, SubmitStep, Effect

-----------------------------------------------------------------------------
(* The invariant is inductive *)

\* Requests end before their job ages, and find their job while they run.
LEMMA RequestStep ==
    ASSUME IInv, RequestInv, [Next]_vars
    PROVE  RequestInv'
<1>1. CASE Quiet
  BY <1>1 DEF Quiet, RequestInv, Exists
<1>2. ASSUME NEW j \in Jobs,
             EndsQuietly(j) \/ GoesOn(j) \/ Overrides(j, "running") \/ Overrides(j, "failed")
      PROVE  RequestInv'
  <2>1. \A i \in Jobs \ {j} : submit'[i] = submit[i] /\ jobs'[i].status = jobs[i].status
    BY <1>2 DEF EndsQuietly, GoesOn, Overrides, QuietTables, Moves, StatusOf
  <2>2. j \notin aged /\ UNCHANGED aged
    BY <1>2 DEF EndsQuietly, GoesOn, Overrides, QuietTables, Moves, RequestInv
  <2>3. submit'[j].pc \notin Ended \cup {"idle"} => jobs'[j].status # "none"
    BY <1>2 DEF EndsQuietly, GoesOn, Overrides, QuietTables, Moves, RequestInv, Exists
  <2> QED BY <2>1, <2>2, <2>3 DEF RequestInv, Exists
<1>3. ASSUME NEW j \in Jobs, Creates(j) PROVE RequestInv'
  <2>1. \A i \in Jobs \ {j} : submit'[i] = submit[i] /\ jobs'[i].status = jobs[i].status
    BY <1>3 DEF Creates, Moves, StatusOf
  <2>2. j \notin aged /\ UNCHANGED aged /\ jobs'[j].status = "pending"
    BY <1>3 DEF Creates, Moves, StatusOf, RequestInv, Ended
  <2> QED BY <2>1, <2>2 DEF RequestInv, Exists
<1>4. ASSUME NEW j \in Jobs, (\E t \in Tuples : Settles(j, t)) \/ Ends(j) PROVE RequestInv'
  BY <1>4 DEF Settles, Ends, StatusOf, Final, RequestInv, Exists
<1>5. ASSUME NEW j \in Jobs, Expire(j) PROVE RequestInv'
  BY <1>5 DEF Expire, RequestInv, Exists
<1>6. CASE DeleteJobsOlderThan
  BY <1>6 DEF DeleteJobsOlderThan, RequestInv, Exists
<1> QED BY <1>1, <1>2, <1>3, <1>4, <1>5, <1>6, StepEffect

\* A row appears with its job and goes with it, and nothing else writes a row
\* that is not there.
LEMMA RowsStep ==
    ASSUME IInv, RequestInv, RowsHaveJob, [Next]_vars
    PROVE  RowsHaveJob'
<1> DEFINE Rows(j) == RowsIn(j, RowStatus \ {"none"})
<1>0. \A j \in Jobs : ~Exists(j) => Rows(j) = {}
  BY DEF RowsHaveJob
<1>1. ASSUME UNCHANGED results, \A j \in Jobs : Exists(j) => Exists(j)'
      PROVE  RowsHaveJob'
  BY <1>0, <1>1 DEF RowsHaveJob, RowsIn
<1>2. CASE Quiet
  BY <1>1, <1>2 DEF Quiet, Exists
<1>3. ASSUME NEW j \in Jobs, \/ EndsQuietly(j) \/ GoesOn(j) \/ Ends(j) \/ Expire(j)
                             \/ Overrides(j, "running") \/ Overrides(j, "failed")
      PROVE  RowsHaveJob'
  <2>1. UNCHANGED results
    BY <1>3 DEF EndsQuietly, GoesOn, Ends, Expire, Overrides, QuietTables
  <2>2. \A i \in Jobs : Exists(i) => Exists(i)'
    BY <1>3 DEF EndsQuietly, GoesOn, Ends, Expire, Overrides, QuietTables, StatusOf, Exists, Final
  <2> QED BY <1>1, <2>1, <2>2
<1>4. ASSUME NEW j \in Jobs, Creates(j) PROVE RowsHaveJob'
  <2>1. Exists(j)' /\ \A i \in Jobs \ {j} : jobs'[i].status = jobs[i].status /\ results'[i] = results[i]
    BY <1>4, Types DEF Creates, StatusOf, Exists
  <2> QED BY <1>0, <2>1 DEF RowsHaveJob, RowsIn, Exists
<1>5. ASSUME NEW j \in Jobs, NEW t \in Tuples, Settles(j, t) PROVE RowsHaveJob'
  <2>1. Exists(j) /\ UNCHANGED jobs
    BY <1>0, <1>5, Types DEF Settles, RowsIn
  <2>2. \A i \in Jobs \ {j} : results'[i] = results[i]
    BY <1>5, Types DEF Settles
  <2> QED BY <1>0, <2>1, <2>2 DEF RowsHaveJob, RowsIn, Exists
<1>6. CASE DeleteJobsOlderThan
  <2>1. \A j \in Jobs : \/ \A t \in Tuples : results'[j][t] = "none"
                        \/ jobs'[j] = jobs[j] /\ results'[j] = results[j]
    BY <1>6 DEF DeleteJobsOlderThan
  <2> QED BY <1>0, <2>1 DEF RowsHaveJob, RowsIn, Exists
<1> QED BY <1>2, <1>3, <1>4, <1>5, <1>6, StepEffect

\* All of it holds at the start.
LEMMA InitRInv == Init => RInv
<1> SUFFICES ASSUME Init PROVE RInv OBVIOUS
<1>1. \A j \in Jobs : submit[j].pc = "idle" /\ j \notin aged /\ \A t \in Tuples : results[j][t] = "none"
  BY DEF Init
<1> QED BY <1>1, InitInv DEF RInv, RequestInv, RowsHaveJob, RowsIn

LEMMA StepRInv == RInv /\ [Next]_vars => RInv'
BY StepInv, RequestStep, RowsStep DEF RInv

-----------------------------------------------------------------------------
(* The mapping *)

\* The handlers that are not over, as SearchJob sees them.
Submitting == {j \in Jobs : submit[j].pc \notin Ended}

\* What the effects look like in the mapped variables.
SamePhases == \A j \in Jobs : Phase(j)' = Phase(j)
SameOpen   == \A j \in Jobs : RowsIn(j, Open)' = RowsIn(j, Open)

\* A step that changes neither phases, nor open rows, nor who is submitting.
LEMMA Invisible ==
    ASSUME SamePhases, SameOpen, Submitting' = Submitting
    PROVE  UNCHANGED Promise!vars
BY DEF SamePhases, SameOpen, Submitting, Promise!vars

\* When the status of a job and its age stay, so does its phase.
LEMMA PhaseKept ==
    ASSUME NEW j \in Jobs, jobs'[j].status = jobs[j].status, UNCHANGED aged
    PROVE  Phase(j)' = Phase(j)
BY DEF Phase

\* A handler that moves on is still there unless it went to an end.
LEMMA MovesOn ==
    ASSUME NEW j \in Jobs, NEW pc \in SubmitPC, Moves(j, pc)
    PROVE  /\ j \in Submitting
           /\ Submitting' = IF pc \in Ended THEN Submitting \ {j} ELSE Submitting
BY DEF Moves, Submitting

\* Rows that are not written stay open or closed.
LEMMA OpenKept ==
    ASSUME UNCHANGED results
    PROVE  SameOpen
BY DEF SameOpen, RowsIn

\* The end of a handler is SearchJob's Return.
LEMMA MapReturn ==
    ASSUME NEW j \in Jobs, EndsQuietly(j)
    PROVE  Promise!Return(j)
<1>1. j \in Submitting /\ Submitting' = Submitting \ {j}
  BY MovesOn DEF EndsQuietly, Ended, SubmitPC
<1>2. SamePhases /\ SameOpen
  BY PhaseKept, OpenKept DEF EndsQuietly, QuietTables, SamePhases
<1> QED BY <1>1, <1>2 DEF Promise!Return, Submitting, SamePhases, SameOpen

\* A handler that goes on is invisible.
LEMMA MapGoesOn ==
    ASSUME NEW j \in Jobs, GoesOn(j)
    PROVE  UNCHANGED Promise!vars
<1>1. Submitting' = Submitting
  BY MovesOn DEF GoesOn, Ended, SubmitPC
<1>2. SamePhases /\ SameOpen
  BY PhaseKept, OpenKept DEF GoesOn, QuietTables, SamePhases
<1> QED BY <1>1, <1>2, Invisible

\* The transaction that creates a job and its rows is SearchJob's Accept.
LEMMA MapCreate ==
    ASSUME IInv, RequestInv, NEW j \in Jobs, Creates(j)
    PROVE  Promise!Accept(j)
<1>1. j \in Submitting /\ Submitting' \in {Submitting, Submitting \ {j}}
  BY MovesOn DEF Creates, Ended, SubmitPC
<1>2. Phase(j) = "absent" /\ Phase(j)' = "open"
  BY <1>1 DEF Creates, StatusOf, Phase, Exists, RequestInv, Submitting, Final
<1>3. \A i \in Jobs \ {j} : Phase(i)' = Phase(i)
  BY PhaseKept DEF Creates, StatusOf
<1>4. PICK T \in SUBSET Tuples : results' = [results EXCEPT ![j] =
            [t \in Tuples |-> IF t \in T THEN "pending" ELSE "none"]]
  BY DEF Creates
<1>5. /\ RowsIn(j, Open)' = T
      /\ \A i \in Jobs \ {j} : RowsIn(i, Open)' = RowsIn(i, Open)
  BY <1>4, Types DEF RowsIn, Open
<1> QED BY <1>1, <1>2, <1>3, <1>5 DEF Promise!Accept, Submitting

\* The last statement of a handler is SearchJob's Override.
LEMMA MapOverride ==
    ASSUME RequestInv, NEW j \in Jobs, Overrides(j, "running") \/ Overrides(j, "failed"), IInv
    PROVE  Promise!Override(j, "open") \/ Promise!Override(j, "failed")
<1>1. j \in Submitting /\ Submitting' = Submitting \ {j}
  BY MovesOn DEF Overrides, Ended, SubmitPC
<1>2. Phase(j) \in {"open", "complete", "failed"}
  BY Types DEF Overrides, Exists, Phase, JobRow, JobStatus, Final
<1>3. \A i \in Jobs \ {j} : Phase(i)' = Phase(i)
  BY PhaseKept DEF Overrides, StatusOf
<1>4. SameOpen
  BY OpenKept DEF Overrides
<1>5. CASE Overrides(j, "running")
  <2>1. Phase(j)' = "open"
    BY <1>5 DEF Overrides, StatusOf, Phase, Final
  <2> QED BY <1>1, <1>2, <1>3, <1>4, <2>1 DEF Promise!Override, Submitting, SameOpen
<1>6. CASE Overrides(j, "failed")
  <2>1. Phase(j)' = "failed"
    BY <1>6 DEF Overrides, StatusOf, Phase, Final
  <2> QED BY <1>1, <1>2, <1>3, <1>4, <2>1 DEF Promise!Override, Submitting, SameOpen
<1> QED BY <1>5, <1>6

\* A slot that settles an open row is SearchJob's Settle; one that settles it
\* again, after a redelivery, is invisible.
LEMMA MapSettle ==
    ASSUME IInv, NEW j \in Jobs, NEW t \in Tuples, Settles(j, t)
    PROVE  Promise!Settle(j, t) \/ UNCHANGED Promise!vars
<1>1. SamePhases /\ Submitting' = Submitting
  BY PhaseKept DEF Settles, SamePhases, Submitting
<1>2. PICK s \in {"complete", "dead_letter"} : results' = [results EXCEPT ![j][t] = s]
  BY DEF Settles
<1>3. /\ RowsIn(j, Open)' = RowsIn(j, Open) \ {t}
      /\ \A i \in Jobs \ {j} : RowsIn(i, Open)' = RowsIn(i, Open)
  BY <1>2, Types DEF RowsIn, Open
<1>4. CASE t \in RowsIn(j, Open)
  BY <1>1, <1>3, <1>4 DEF Promise!Settle, Submitting, SamePhases
<1>5. CASE t \notin RowsIn(j, Open)
  <2>1. SameOpen
    BY <1>3, <1>5 DEF SameOpen
  <2> QED BY <1>1, <2>1, Invisible
<1> QED BY <1>4, <1>5

\* Finalize is SearchJob's Finish: nothing of the job is open.
LEMMA MapEnd ==
    ASSUME NEW j \in Jobs, Ends(j)
    PROVE  Promise!Finish(j)
<1>1. SameOpen /\ Submitting' = Submitting
  BY OpenKept DEF Ends, Submitting
<1>2. Phase(j) = "open" /\ RowsIn(j, Open) = {}
  BY DEF Ends, Phase, Settled, Final
<1>3. PICK p \in Final : StatusOf(j, p)
  BY DEF Ends
<1>4. Phase(j)' = p /\ \A i \in Jobs \ {j} : Phase(i)' = Phase(i)
  BY <1>3, PhaseKept DEF Ends, StatusOf, Phase, Final
<1> QED BY <1>1, <1>2, <1>3, <1>4 DEF Promise!Finish, Submitting, SameOpen, Final

\* A job that ages keeps its phase, for it exists.
LEMMA MapExpire ==
    ASSUME IInv, NEW j \in Jobs, Expire(j)
    PROVE  UNCHANGED Promise!vars
<1>1. SameOpen /\ Submitting' = Submitting
  BY OpenKept DEF Expire, Submitting
<1>2. SamePhases
  <2>1. ASSUME NEW i \in Jobs PROVE Phase(i)' = Phase(i)
    <3>1. CASE i = j
      BY <3>1, Types DEF Expire, Exists, Phase, Final, JobRow, JobStatus
    <3>2. CASE i # j
      BY <3>2 DEF Expire, Phase
    <3> QED BY <3>1, <3>2
  <2> QED BY <2>1 DEF SamePhases
<1> QED BY <1>1, <1>2, Invisible

\* The sweep is SearchJob's Sweep of every aged job, those already gone included.
LEMMA MapDelete ==
    ASSUME RInv, DeleteJobsOlderThan
    PROVE  Promise!Sweep(aged)
<1>1. aged \in SUBSET Jobs /\ UNCHANGED <<submit, aged>>
  BY Types DEF RInv, DeleteJobsOlderThan
<1>2. aged \cap Submitting = {} /\ Submitting' = Submitting
  BY <1>1 DEF RInv, RequestInv, Submitting
<1>3. \A j \in aged : Phase(j) # "absent"
  BY Types DEF RInv, Phase, Final, JobRow, JobStatus
<1>4. \A j \in Jobs : Phase(j)' = IF j \in aged THEN "deleted" ELSE Phase(j)
  <2>1. ASSUME NEW j \in Jobs
        PROVE  Phase(j)' = IF j \in aged THEN "deleted" ELSE Phase(j)
    <3>1. CASE j \in aged
      <4>1. jobs'[j].status = "none" /\ j \in aged'
        BY <1>1, <3>1 DEF DeleteJobsOlderThan, NoJobRow
      <4> QED BY <3>1, <4>1 DEF Phase, Final
    <3>2. CASE j \notin aged
      <4>1. jobs'[j] = jobs[j]
        BY <3>2 DEF DeleteJobsOlderThan
      <4> QED BY <1>1, <3>2, <4>1 DEF Phase
    <3> QED BY <3>1, <3>2
  <2> QED BY <2>1
<1>5. \A j \in Jobs : RowsIn(j, Open)' = IF j \in aged THEN {} ELSE RowsIn(j, Open)
  BY DEF DeleteJobsOlderThan, RowsIn, Open
<1> QED BY <1>1, <1>2, <1>3, <1>4, <1>5 DEF Promise!Sweep, Submitting

\* Every step of the engine is a step of SearchJob, or invisible to it.
LEMMA StepRefines ==
    ASSUME RInv, [Next]_vars
    PROVE  [Promise!Next]_Promise!vars
<1>0. IInv /\ RequestInv
  BY DEF RInv
<1>1. CASE Quiet
  <2>1. SamePhases /\ SameOpen /\ Submitting' = Submitting
    BY <1>1, PhaseKept, OpenKept DEF Quiet, SamePhases, Submitting
  <2> QED BY <2>1, Invisible
<1>2. ASSUME NEW j \in Jobs,
             \/ EndsQuietly(j) \/ GoesOn(j) \/ Creates(j) \/ Ends(j) \/ Expire(j)
             \/ Overrides(j, "running") \/ Overrides(j, "failed")
             \/ \E t \in Tuples : Settles(j, t)
      PROVE  [Promise!Next]_Promise!vars
  <2>1. \/ UNCHANGED Promise!vars
        \/ Promise!Return(j) \/ Promise!Accept(j) \/ Promise!Finish(j)
        \/ Promise!Override(j, "open") \/ Promise!Override(j, "failed")
        \/ \E t \in Tuples : Promise!Settle(j, t)
    BY <1>0, <1>2, MapReturn, MapGoesOn, MapCreate, MapEnd, MapExpire, MapOverride, MapSettle
  <2> QED BY <2>1 DEF Promise!Next
<1>3. CASE DeleteJobsOlderThan
  <2>1. Promise!Sweep(aged) /\ aged \in SUBSET Jobs
    BY <1>0, <1>3, MapDelete, Types
  <2> QED BY <2>1 DEF Promise!Next
<1> QED BY <1>0, <1>1, <1>2, <1>3, StepEffect

\* The queue, the retries, the crashes, the lost calls and the sweep never show:
\* to whoever submits a job the engine is SearchJob, for any number of jobs,
\* rows, slots, attempts and faults.
THEOREM EngineKeepsPromise == Spec => ImplementsPromise
<1>1. Init => Promise!Init
  <2> SUFFICES ASSUME Init PROVE Promise!Init OBVIOUS
  <2>1. \A j \in Jobs : Phase(j) = "absent" /\ RowsIn(j, Open) = {} /\ submit[j].pc = "idle"
    BY DEF Init, Phase, NoJobRow, Final, RowsIn, Open
  <2> QED BY <2>1 DEF Promise!Init, Ended
<1>2. RInv /\ [Next]_vars => [Promise!Next]_Promise!vars
  BY StepRefines
<1> QED BY <1>1, <1>2, InitRInv, StepRInv, PTL DEF Spec, ImplementsPromise, Promise!Spec
=============================================================================
