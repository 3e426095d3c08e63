-------------------------- MODULE JobPolling_proofs --------------------------
(***************************************************************************)
(* Proofs about JobPolling: what a polling client may conclude, and that   *)
(* the engine keeps its invariants while it is polled.                     *)
(***************************************************************************)
EXTENDS JobPolling, JobEngine_safety

-----------------------------------------------------------------------------
(* The inductive invariant *)

Response == [pc : PollPC, status : JobStatus, completed : Nat,
             rows : [Tuples -> RowStatus]]

\* Only an accepted job is polled; between the two statements of a response that
\* will say "complete", the job has no open row left to read.
PollerOK(j) ==
    /\ poll[j].pc # "off" => submit[j].pc = "accepted"
    /\ poll[j].pc = "list_results" /\ poll[j].status = "complete" => Settled(j)

PollInv ==
    /\ poll \in [Jobs -> Response]
    /\ \A j \in Jobs : PollerOK(j)
    /\ CompleteResponseSettled

\* All that is known of the engine.
EngineInv == RInv /\ RequestsOK /\ CountInv /\ CleanInv

-----------------------------------------------------------------------------
(* The engine under the eyes of its clients *)

\* A poll reads the tables; it changes none of them, and may spend a fault.
LEMMA PollReads ==
    ASSUME faults \in 0 .. MaxFaults, NEW j \in Jobs, PollStep(j)
    PROVE  /\ UNCHANGED <<jobs, results, river, submit, work, aged>>
           /\ faults' \in 0 .. MaxFaults /\ faults' >= faults
<1>1. MaxFaults \in Nat
  BY ConstantsOK
<1> QED BY <1>1 DEF PollStep, StartPolling, GetHandler, GetJob, ListResults, Sleep, GiveUp, Call, vars

\* So the engine's invariants hold as if nobody polled.
LEMMA PollKeepsEngine ==
    ASSUME EngineInv, NEW j \in Jobs, PollStep(j)
    PROVE  EngineInv'
<1>0. RInv /\ IInv /\ RequestsOK /\ CountInv /\ CleanInv
  BY DEF EngineInv, RInv
<1>1. /\ UNCHANGED <<jobs, results, river, submit, work, aged>>
      /\ faults' \in 0 .. MaxFaults /\ faults' >= faults /\ faults \in 0 .. MaxFaults
  BY <1>0, Parts, PollReads
<1>2. IInv'
  <2>1. TypeOK'
    BY <1>0, <1>1 DEF IInv, TypeOK
  <2> QED BY <1>0, <1>1, <2>1 DEF IInv, QueueInv, SlotInv, FreshInv, SettledInv,
             CompleteMeansSettled, Settled, RowsIn, Exists
<1>3. RInv'
  BY <1>0, <1>1, <1>2 DEF RInv, RequestInv, RowsHaveJob, RowsIn, Exists
<1>4. RequestsOK'
  <2>1. Stepping
    BY <1>0, <1>1, <1>2, ConstantsOK DEF Stepping, EntriesKept
  <2> QED BY <1>1, <2>1, BehindRequests DEF RowsKept
<1>5. CountInv'
  BY <1>0, <1>1, <1>2, CountFrame DEF CountsKept
<1>6. CleanInv'
  <2>1. ASSUME Clean PROVE Clean'
    BY <1>0, <1>1, <2>1, CleanRequestFrame DEF Clean, CleanJob
  <2>2. faults' = 0 => faults = 0
    BY <1>1, ConstantsOK
  <2> QED BY <1>0, <2>1, <2>2 DEF CleanInv
<1> QED BY <1>3, <1>4, <1>5, <1>6 DEF EngineInv

LEMMA StepEngineInv ==
    ASSUME EngineInv, [PollNext]_allVars
    PROVE  EngineInv'
<1>0. RInv /\ IInv /\ RequestsOK /\ CountInv /\ CleanInv
  BY DEF EngineInv, RInv
<1>1. CASE [Next]_vars
  BY <1>0, <1>1, StepRInv, StepRequestsOK, StepCountInv, StepCleanInv DEF EngineInv
<1>2. ASSUME NEW j \in Jobs, PollStep(j) PROVE EngineInv'
  BY <1>2, PollKeepsEngine
<1> QED BY <1>1, <1>2 DEF PollNext, allVars

LEMMA EngineInvariant == PollSpec => []EngineInv
<1>1. PollInit => EngineInv
  BY InitRInv, InitRequestsOK, InitCountInv, InitCleanInv DEF PollInit, EngineInv
<1> QED BY <1>1, StepEngineInv, PTL DEF PollSpec

-----------------------------------------------------------------------------
(* The response *)

\* Once its request is accepted, a job gets no new open row and is accepted for good.
LEMMA AcceptedStaysSettled ==
    ASSUME RInv, [Next]_vars, NEW j \in Jobs, submit[j].pc = "accepted"
    PROVE  submit'[j].pc = "accepted" /\ (Settled(j) => Settled(j)')
<1>0. IInv /\ RequestInv
  BY DEF RInv
<1>1. \A i \in Jobs, pc \in SubmitPC : Moves(i, pc) => submit'[j] = submit[j]
  BY DEF Moves, Ended
<1>2. CASE UNCHANGED results
  <2>1. Settled(j) => Settled(j)'
    BY <1>2 DEF Settled, RowsIn
  <2>2. CASE Quiet \/ (\E i \in Jobs : Ends(i) \/ Expire(i))
    BY <2>1, <2>2 DEF Quiet, Ends, Expire
  <2>3. CASE \E i \in Jobs, pc \in SubmitPC : Moves(i, pc)
    BY <1>1, <2>1, <2>3
  <2>4. CASE DeleteJobsOlderThan
    BY <2>1, <2>4 DEF DeleteJobsOlderThan
  <2>5. ASSUME NEW i \in Jobs,
               EndsQuietly(i) \/ GoesOn(i) \/ Creates(i) \/ Overrides(i, "running") \/ Overrides(i, "failed")
        PROVE  \E pc \in SubmitPC : Moves(i, pc)
    <3>1. Ended \subseteq SubmitPC /\ {"created", "error"} \subseteq SubmitPC
      BY DEF Ended, SubmitPC
    <3> QED BY <2>5, <3>1 DEF EndsQuietly, GoesOn, Creates, Overrides
  <2>6. ASSUME NEW i \in Jobs, NEW t \in Tuples, Settles(i, t) PROVE UNCHANGED submit
    BY <2>6 DEF Settles
  <2> QED BY <1>0, <2>1, <2>2, <2>3, <2>4, <2>5, <2>6, StepEffect
<1>3. CASE \E i \in Jobs : Creates(i)
  <2>1. PICK i \in Jobs : Creates(i)
    BY <1>3
  <2>2. i # j /\ submit'[j] = submit[j]
    BY <2>1 DEF Creates, Moves
  <2>3. results'[j] = results[j]
    BY <1>0, <2>1, <2>2, Types DEF Creates
  <2> QED BY <2>2, <2>3 DEF Settled, RowsIn
<1>4. CASE \E i \in Jobs, t \in Tuples : Settles(i, t)
  <2>1. PICK i \in Jobs, t \in Tuples, s \in {"complete", "dead_letter"} :
          results' = [results EXCEPT ![i][t] = s] /\ UNCHANGED submit
    BY <1>4 DEF Settles
  <2>2. \A u \in Tuples : results'[j][u] \in Open => results[j][u] \in Open
    BY <1>0, <2>1, Types DEF Open
  <2> QED BY <2>1, <2>2 DEF Settled, RowsIn
<1>5. CASE DeleteJobsOlderThan
  <2>1. \A u \in Tuples : results'[j][u] \in Open => results[j][u] \in Open
    BY <1>5 DEF DeleteJobsOlderThan, Open
  <2> QED BY <1>5, <2>1 DEF DeleteJobsOlderThan, Settled, RowsIn
<1>6. \/ UNCHANGED results \/ DeleteJobsOlderThan
      \/ \E i \in Jobs : Creates(i) \/ \E t \in Tuples : Settles(i, t)
  BY <1>0, StepEffect DEF Quiet, EndsQuietly, GoesOn, QuietTables, Ends, Overrides, Expire
<1> QED BY <1>2, <1>3, <1>4, <1>5, <1>6

\* What a step of one client has to show.
LEMMA ClientFrame ==
    ASSUME PollInv, NEW j \in Jobs, NEW resp \in Response, poll' = [poll EXCEPT ![j] = resp],
           UNCHANGED <<submit, results>>, submit[j].pc = "accepted",
           resp.pc = "list_results" /\ resp.status = "complete" => Settled(j),
           resp.pc = "stopped" /\ resp.status = "complete" => \A t \in Tuples : resp.rows[t] \notin Open
    PROVE  PollInv'
<1>1. poll' \in [Jobs -> Response] /\ poll'[j] = resp /\ \A i \in Jobs \ {j} : poll'[i] = poll[i]
  BY DEF PollInv
<1>2. \A i : Settled(i)' = Settled(i)
  BY DEF Settled, RowsIn
<1>3. ASSUME NEW i \in Jobs PROVE PollerOK(i)'
  BY <1>1, <1>2 DEF PollInv, PollerOK
<1>4. CompleteResponseSettled'
  BY <1>1 DEF PollInv, CompleteResponseSettled
<1> QED BY <1>1, <1>3, <1>4 DEF PollInv

\* A client that drops its response knows nothing.
LEMMA DropInv ==
    ASSUME PollInv, NEW j \in Jobs, NEW pc \in {"sleep", "error"}, Drop(j, pc),
           UNCHANGED <<submit, results>>, submit[j].pc = "accepted"
    PROVE  PollInv'
<1> DEFINE resp == [NoResponse EXCEPT !.pc = pc]
<1>1. resp \in Response /\ resp.pc = pc /\ resp.status = "none"
  BY DEF NoResponse, Response, PollPC, JobStatus, RowStatus
<1>2. poll' = [poll EXCEPT ![j] = resp]
  BY DEF Drop
<1> HIDE DEF resp
<1> QED BY <1>1, <1>2, ClientFrame

\* The two halves of a response come from different moments, and agree: rows of a
\* job that is complete never open again.
LEMMA PollStepInv ==
    ASSUME EngineInv, PollInv, NEW j \in Jobs, PollStep(j)
    PROVE  PollInv'
<1>0. IInv /\ UNCHANGED <<submit, results>>
  <2>1. IInv
    BY DEF EngineInv, RInv
  <2> QED BY <2>1, Parts, PollReads
<1>1. poll[j] \in Response /\ PollerOK(j)
  BY DEF PollInv
<1>2. submit[j].pc = "accepted"
  BY <1>1 DEF PollStep, StartPolling, GetHandler, GetJob, ListResults, Sleep, GiveUp, PollerOK
<1>3. CASE \E pc \in {"sleep", "error"} : Drop(j, pc)
  BY <1>0, <1>2, <1>3, DropInv
<1>4. CASE poll' = [poll EXCEPT ![j].pc = "get_job"]
  <2> DEFINE resp == [poll[j] EXCEPT !.pc = "get_job"]
  <2>1. resp \in Response /\ resp.pc = "get_job"
    BY <1>1 DEF Response, PollPC
  <2>2. poll' = [poll EXCEPT ![j] = resp]
    BY <1>4 DEF PollInv
  <2> HIDE DEF resp
  <2> QED BY <1>0, <1>2, <2>1, <2>2, ClientFrame
<1>5. CASE /\ Exists(j)
           /\ poll' = [poll EXCEPT ![j].pc = "list_results", ![j].status = jobs[j].status,
                                   ![j].completed = jobs[j].completed]
  <2> DEFINE resp == [poll[j] EXCEPT !.pc = "list_results", !.status = jobs[j].status,
                                     !.completed = jobs[j].completed]
  <2>1. resp \in Response /\ resp.pc = "list_results" /\ resp.status = jobs[j].status
    BY <1>0, <1>1, Types DEF Response, PollPC, JobRow
  <2>2. poll' = [poll EXCEPT ![j] = resp]
    BY <1>5 DEF PollInv
  <2>3. jobs[j].status = "complete" => Settled(j)
    BY <1>0 DEF IInv, SettledInv, CompleteMeansSettled
  <2> HIDE DEF resp
  <2> QED BY <1>0, <1>2, <2>1, <2>2, <2>3, ClientFrame
<1>6. CASE /\ poll[j].pc = "list_results"
           /\ poll' = [poll EXCEPT ![j].pc = "stopped", ![j].rows = results[j]]
  <2> DEFINE resp == [poll[j] EXCEPT !.pc = "stopped", !.rows = results[j]]
  <2>1. /\ resp \in Response /\ resp.pc = "stopped"
        /\ resp.status = poll[j].status /\ resp.rows = results[j]
    BY <1>0, <1>1, Types DEF Response, PollPC
  <2>2. poll' = [poll EXCEPT ![j] = resp]
    BY <1>6 DEF PollInv
  <2>3. poll[j].status = "complete" => \A t \in Tuples : results[j][t] \notin Open
    BY <1>1, <1>6 DEF PollerOK, Settled, RowsIn
  <2> HIDE DEF resp
  <2> QED BY <1>0, <1>2, <2>1, <2>2, <2>3, ClientFrame
<1>7. StartPolling(j) \/ Sleep(j) => poll' = [poll EXCEPT ![j].pc = "get_job"]
  BY DEF StartPolling, Sleep
<1>8. GiveUp(j) \/ PollError(j) => \E pc \in {"sleep", "error"} : Drop(j, pc)
  BY DEF GiveUp, PollError
<1>9. CASE GetJob(j)
  BY <1>3, <1>5, <1>8, <1>9 DEF GetJob
<1>10. CASE ListResults(j)
  BY <1>3, <1>6, <1>8, <1>10 DEF ListResults
<1> QED BY <1>3, <1>4, <1>7, <1>8, <1>9, <1>10 DEF PollStep, GetHandler

LEMMA StepPollInv ==
    ASSUME EngineInv, PollInv, [PollNext]_allVars
    PROVE  PollInv'
<1>1. ASSUME [Next]_vars, UNCHANGED poll PROVE PollInv'
  <2>1. ASSUME NEW j \in Jobs PROVE PollerOK(j)'
    <3>1. submit[j].pc = "accepted" => submit'[j].pc = "accepted" /\ (Settled(j) => Settled(j)')
      BY <1>1, AcceptedStaysSettled DEF EngineInv
    <3> QED BY <1>1, <3>1 DEF PollInv, PollerOK
  <2>2. CompleteResponseSettled'
    BY <1>1 DEF PollInv, CompleteResponseSettled
  <2> QED BY <1>1, <2>1, <2>2 DEF PollInv
<1>2. ASSUME NEW j \in Jobs, PollStep(j) PROVE PollInv'
  BY <1>2, PollStepInv
<1> QED BY <1>1, <1>2 DEF PollNext, allVars

LEMMA InitPollInv == PollInit => PollInv
BY DEF PollInit, PollInv, PollerOK, CompleteResponseSettled, NoResponse, Response, PollPC,
   JobStatus, RowStatus

LEMMA PollInvariant == PollSpec => [](EngineInv /\ PollInv)
<1>1. PollInit => EngineInv
  BY InitRInv, InitRequestsOK, InitCountInv, InitCleanInv DEF PollInit, EngineInv
<1> QED BY <1>1, StepEngineInv, InitPollInv, StepPollInv, PTL DEF PollSpec

-----------------------------------------------------------------------------
(* Theorems *)

\* A client that stops on "complete" never shows a search with rows missing, for any
\* number of workers, retries and faults between the two statements of the response.
THEOREM CompleteResponseIsSettled == PollSpec => []CompleteResponseSettled
<1>1. PollInv => CompleteResponseSettled BY DEF PollInv
<1> QED BY <1>1, PollInvariant, PTL

\* What is proved of the engine alone holds of the engine that is polled, whose
\* clients draw on the same budget of faults.
THEOREM PolledEngineSafe ==
    PollSpec => [](/\ TypeOK /\ CompleteMeansSettled /\ CountersBounded
                   /\ RunningMeansQueued /\ EnqueueFailureSurfaces /\ FailedMeansAllDead)
<1>1. EngineInv => /\ TypeOK /\ CompleteMeansSettled /\ CountersBounded
                   /\ RunningMeansQueued /\ EnqueueFailureSurfaces /\ FailedMeansAllDead
  <2> SUFFICES ASSUME EngineInv
               PROVE  /\ TypeOK /\ CompleteMeansSettled /\ CountersBounded
                      /\ RunningMeansQueued /\ EnqueueFailureSurfaces /\ FailedMeansAllDead
    OBVIOUS
  <2>1. TypeOK /\ CompleteMeansSettled
    BY DEF EngineInv, RInv, IInv, SettledInv
  <2>2. CountersBounded
    BY DEF EngineInv, CountInv, CountersOK, CountersBounded
  <2>3. RunningMeansQueued
    BY DEF EngineInv, RequestsOK, EnqueueOK, RunningMeansQueued, QueuedRows, Rows
  <2>4. EnqueueFailureSurfaces
    BY DEF EngineInv, RequestsOK, SurfaceOK, Unqueued, EnqueueFailureSurfaces
  <2>5. FailedMeansAllDead
    BY DEF EngineInv, CleanInv, Clean, CleanJob, AllDead, Rows, FailedMeansAllDead
  <2> QED BY <2>1, <2>2, <2>3, <2>4, <2>5
<1> QED BY <1>1, EngineInvariant, PTL

\* Polling is invisible: the polled engine still implements SearchJob, and a job that
\* has ended keeps its status.
THEOREM PolledEngineKeepsPromise == PollSpec => ImplementsPromise /\ FinalAfterSubmitIsStable
<1>1. PollInit => Promise!Init
  <2> SUFFICES ASSUME PollInit PROVE Promise!Init OBVIOUS
  <2>1. \A j \in Jobs : Phase(j) = "absent" /\ RowsIn(j, Open) = {} /\ submit[j].pc = "idle"
    BY DEF PollInit, Init, Phase, NoJobRow, Final, RowsIn, Open
  <2> QED BY <2>1 DEF Promise!Init, Ended
<1>2. ASSUME NEW j \in Jobs, PollStep(j), faults \in 0 .. MaxFaults
      PROVE  UNCHANGED <<jobs, results, submit, aged>>
  BY <1>2, PollReads
<1>3. EngineInv /\ [PollNext]_allVars => [Promise!Next]_Promise!vars
  <2> SUFFICES ASSUME EngineInv, [PollNext]_allVars PROVE [Promise!Next]_Promise!vars OBVIOUS
  <2>1. RInv /\ faults \in 0 .. MaxFaults
    BY Parts DEF EngineInv, RInv
  <2>2. CASE [Next]_vars
    BY <2>1, <2>2, StepRefines
  <2>3. ASSUME UNCHANGED <<jobs, results, submit, aged>> PROVE UNCHANGED Promise!vars
    BY <2>3 DEF Promise!vars, Phase, RowsIn
  <2> QED BY <1>2, <2>1, <2>2, <2>3 DEF PollNext, allVars
<1>4. EngineInv /\ [PollNext]_allVars =>
        [\A j \in Jobs : submit[j].pc \in Ended /\ jobs[j].status \in Final
            => jobs'[j].status \in {jobs[j].status, "none"}]_vars
  <2> SUFFICES ASSUME EngineInv, [PollNext]_allVars, NEW j \in Jobs,
                      submit[j].pc \in Ended, jobs[j].status \in Final
               PROVE  jobs'[j].status \in {jobs[j].status, "none"}
    OBVIOUS
  <2>1. IInv /\ faults \in 0 .. MaxFaults
    BY Parts DEF EngineInv, RInv
  <2>2. CASE [Next]_vars
    BY <2>1, <2>2, StepKeepsFinal
  <2> QED BY <1>2, <2>1, <2>2 DEF PollNext, allVars
<1> QED BY <1>1, <1>3, <1>4, EngineInvariant, PTL
        DEF PollSpec, ImplementsPromise, Promise!Spec, FinalAfterSubmitIsStable

=============================================================================
