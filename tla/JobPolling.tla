----------------------------- MODULE JobPolling -----------------------------
(***************************************************************************)
(* GET /jobs/{id}?include=results and the clients that poll it: the        *)
(* handler reads the job row and then its result rows in two statements,   *)
(* while workers go on, and the client decides from that one response      *)
(* whether the search is over (App.tsx handleSearch, livetest pollJob).    *)
(***************************************************************************)
EXTENDS JobEngine

CONSTANT Patient  \* jobs polled by a client that retries after an error

ASSUME PatientOK == Patient \subseteq Jobs

VARIABLE poll  \* the poller of each job and the response it is being built

allVars == <<vars, poll>>

PollPC == {"off", "get_job", "list_results", "sleep", "stopped", "error"}
NoResponse == [pc |-> "off", status |-> "none", completed |-> 0,
               rows |-> [t \in Tuples |-> "none"]]

PollInit == Init /\ poll = [j \in Jobs |-> NoResponse]

\* The 202 with the job id arrived: start polling.
StartPolling(j) ==
    /\ submit[j].pc = "accepted" /\ poll[j].pc = "off"
    /\ poll' = [poll EXCEPT ![j].pc = "get_job"]
    /\ UNCHANGED vars

\* The client goes on to pc; of this response no row is used.
Drop(j, pc) == poll' = [poll EXCEPT ![j] = [NoResponse EXCEPT !.pc = pc]]

\* A 500: App.tsx shows the error and stops, livetest tries again.
PollError(j) == Drop(j, IF j \in Patient THEN "sleep" ELSE "error")

\* repo.GetJob; a job that is gone is a 404, which every client gives up on.
GetJob(j) ==
    /\ poll[j].pc = "get_job"
    /\ \E r \in {"ok", "failed"} :
        /\ Call(TRUE, r)
        /\ CASE r = "failed" -> PollError(j)
             [] r = "ok" /\ ~Exists(j) -> Drop(j, "error")
             [] OTHER -> poll' = [poll EXCEPT ![j].pc = "list_results",
                                     ![j].status = jobs[j].status,
                                     ![j].completed = jobs[j].completed]
    /\ UNCHANGED <<jobs, results, river, submit, work, aged>>

\* Mutant: the client waits for 'complete' alone.
AfterResponse_CompleteOnly(status) == IF status = "complete" THEN "stopped" ELSE "sleep"

\* The client's decision on a 200.
AfterResponse(status) == IF status \in Final THEN "stopped" ELSE "sleep"

\* repo.ListResults, and the client on the response.
ListResults(j) ==
    /\ poll[j].pc = "list_results"
    /\ \E r \in {"ok", "failed"} :
        /\ Call(TRUE, r)
        /\ IF r = "failed" THEN PollError(j)
           ELSE IF AfterResponse(poll[j].status) = "sleep" THEN Drop(j, "sleep")
           ELSE poll' = [poll EXCEPT ![j].pc = "stopped", ![j].rows = results[j]]
    /\ UNCHANGED <<jobs, results, river, submit, work, aged>>

\* Mutant: the handler lists the rows first and reads the job afterwards.
GetHandler_RowsFirst(j) ==
    \/ /\ poll[j].pc = "get_job" /\ Exists(j)
       /\ poll' = [poll EXCEPT ![j].pc = "list_results", ![j].rows = results[j]]
       /\ UNCHANGED vars
    \/ /\ poll[j].pc = "list_results"
       /\ poll' = [poll EXCEPT ![j].pc = AfterResponse(jobs[j].status),
                               ![j].status = jobs[j].status,
                               ![j].completed = jobs[j].completed]
       /\ UNCHANGED vars

GetHandler(j) == GetJob(j) \/ ListResults(j)

\* The interval between two polls.
Sleep(j) ==
    /\ poll[j].pc = "sleep"
    /\ poll' = [poll EXCEPT ![j].pc = "get_job"]
    /\ UNCHANGED vars

\* pollJob's timeout: while it sleeps, or in the middle of a request, which then
\* fails and is followed by the same test.
GiveUp(j) ==
    /\ j \in Patient /\ poll[j].pc \in {"get_job", "list_results", "sleep"}
    /\ Drop(j, "error")
    /\ UNCHANGED vars

PollStep(j) == StartPolling(j) \/ GetHandler(j) \/ Sleep(j) \/ GiveUp(j)

PollNext ==
    \/ Next /\ UNCHANGED poll
    \/ \E j \in Jobs : PollStep(j)

PollSpec == PollInit /\ [][PollNext]_allVars

\* The engine's fairness; a client that is there keeps polling, or gives up.
PollFairSpec ==
    /\ PollSpec
    /\ \A j \in Jobs : WF_allVars(SubmitStep(j) /\ UNCHANGED poll)
    /\ \A w \in Workers :
        /\ WF_allVars(Fetch(w) /\ UNCHANGED poll)
        /\ WF_allVars(WorkStep(w) /\ UNCHANGED poll)
    /\ \A j \in Jobs, t \in Tuples : WF_allVars(Rescue(j, t) /\ UNCHANGED poll)
    /\ \A j \in Jobs : WF_allVars(PollStep(j))

-----------------------------------------------------------------------------
(* Properties *)

\* A client that stops on "complete" holds no row that is still to be searched,
\* although the two halves of the response come from different moments.
CompleteResponseSettled ==
    \A j \in Jobs : poll[j].pc = "stopped" /\ poll[j].status = "complete"
        => \A t \in Tuples : poll[j].rows[t] \notin Open

\* A search whose last row ends after the 202 and after the faults ends for the
\* client: it gets a final response or an error, unless River gives one of the
\* rows up.
SearchEnds ==
    \A j \in Jobs :
        (poll[j].pc # "off" /\ ~Settled(j) /\ faults = MaxFaults)
            ~> (\/ poll[j].pc \in {"stopped", "error"}
                \/ \E t \in Tuples : river[j][t].state = "discarded")
=============================================================================
