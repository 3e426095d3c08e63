----------------------------- MODULE Processes -----------------------------
(***************************************************************************)
(* The processes: main of cmd/api and of cmd/worker from the configuration *)
(* to the exit.  A process loads its configuration, builds its server or   *)
(* runner (pool, migrations, Redis, River), serves, and on SIGTERM shuts   *)
(* down; the platform starts another one in its place.                     *)
(*                                                                         *)
(* What a request or a River job does to the database is JobEngine's; here *)
(* a task is only seen to run a statement on the pool or to be between two *)
(* of them.                                                                *)
(***************************************************************************)
EXTENDS Migrations

CONSTANTS
    APIs,           \* the processes that run cmd/api; the others run cmd/worker
    Misconfigured,  \* processes started without SESSION_SIGNING_KEY
    Tasks,          \* requests, or executor slots, of one process
    MaxSignals      \* bound on SIGTERMs

ASSUME ProcessConstantsOK ==
    APIs \subseteq Processes /\ Misconfigured \subseteq Processes /\ MaxSignals \in Nat

VARIABLES
    life,     \* where main is
    task,     \* the tasks of each process
    expired,  \* processes whose 15 seconds to shut down are over
    signals

procVars == <<vars, life, task, expired, signals>>

Starting == {"main", "migrate", "redis", "river", "started"}
Stopping == {"shutdown", "stop", "close"}
Lives  == Starting \cup {"serving", "gone"} \cup Stopping

NoTasks == [t \in Tasks |-> "none"]
Busy(p) == \E t \in Tasks : task[p][t] # "none"

ProcInit ==
    /\ Init
    /\ life = [p \in Processes |-> "main"]
    /\ task = [p \in Processes |-> NoTasks]
    /\ expired = {}
    /\ signals = 0

Is(p, s)   == life[p] = s
Move(p, s) == life' = [life EXCEPT ![p] = s]

\* The process is no more: its tasks are cut short, its transaction rolled back.
End(p) ==
    /\ Move(p, "gone") /\ Exit(p)
    /\ task' = [task EXCEPT ![p] = NoTasks]
    /\ expired' = expired \ {p}

-----------------------------------------------------------------------------
(* Starting *)

\* config.Load and Validate.  DATABASE_URL has a default; the signing key has none.
Configure(p) ==
    /\ Is(p, "main")
    /\ IF p \in Misconfigured
       THEN End(p) /\ UNCHANGED faults
       ELSE Move(p, "migrate") /\ Restart(p) /\ UNCHANGED <<task, expired>>
    /\ UNCHANGED signals

\* Mutant: the client is built, and the process serves, before the migrations.
Migrate_Later(p) ==
    /\ Is(p, "migrate")
    /\ Move(p, "redis")
    /\ UNCHANGED <<vars, task, expired, signals>>

\* NewServer and NewRunner: RunRiverMigrations; an error ends main.
Migrate(p) ==
    /\ Is(p, "migrate")
    /\ RunMigrations(p)
    /\ life' = [life EXCEPT ![p] = CASE proc'[p].at = "ready" -> "redis"
                                     [] proc'[p].at = "exited" -> "gone"
                                     [] OTHER -> "migrate"]
    /\ UNCHANGED <<task, expired, signals>>

\* The rest of NewServer and NewRunner (the ping of Redis, the River client) and
\* what follows: Listen asks for the signals before it serves, Run only after the
\* River client has been started.
Proceed(p) ==
    /\ \/ Is(p, "redis") /\ Move(p, "river")
       \/ Is(p, "river") /\ Move(p, IF p \in APIs THEN "serving" ELSE "started")
       \/ Is(p, "started") /\ Move(p, "serving")
    /\ UNCHANGED <<vars, task, expired, signals>>

\* Any call of these fails, or the process dies.
Crash(p) ==
    /\ ~Is(p, "gone")
    /\ faults < MaxFaults /\ faults' = faults + 1
    /\ End(p)
    /\ UNCHANGED signals

\* The platform starts a process in place of one that ended.
Relaunch(p) ==
    /\ Is(p, "gone") /\ Move(p, "main")
    /\ UNCHANGED <<vars, task, expired, signals>>

-----------------------------------------------------------------------------
(* Serving *)

\* A request arrives, or River hands a slot a job: the API until its listener is
\* closed, the worker until Stop.
Accepting(p) ==
    IF p \in APIs THEN Is(p, "serving") ELSE life[p] \in {"started", "serving", "shutdown"}

Step(p, t, from, to) ==
    /\ task[p][t] = from /\ task' = [task EXCEPT ![p][t] = to]
    /\ UNCHANGED <<vars, life, expired, signals>>

Begin(p, t)  == Accepting(p) /\ Step(p, t, "none", "running")
\* A statement takes a connection, which a closed pool does not have: the task
\* then fails and ends, as it may anywhere.
Query(p, t)  == ~Is(p, "close") /\ Step(p, t, "running", "statement")
Answer(p, t) == Step(p, t, "statement", "running")
Finish(p, t) == Step(p, t, "running", "none")

-----------------------------------------------------------------------------
(* Stopping *)

\* SIGTERM.  Before signal.Notify it kills the process; while that shuts down
\* it changes nothing.
Signal(p) ==
    /\ signals < MaxSignals /\ signals' = signals + 1
    /\ IF Is(p, "serving")
       THEN Move(p, "shutdown") /\ UNCHANGED <<vars, task, expired>>
       ELSE life[p] \in Starting /\ End(p) /\ UNCHANGED faults

\* The 15 seconds of shutdownCtx pass.
Expire(p) ==
    /\ life[p] \in {"shutdown", "stop"} /\ p \notin expired
    /\ expired' = expired \cup {p}
    /\ UNCHANGED <<vars, life, task, signals>>

\* The API's Shutdown runs in a goroutine: ListenAndServe returns as soon as the
\* listener is closed, Listen returns, and main goes on to srv.Close.
ListenReturns(p) ==
    /\ p \in APIs /\ Is(p, "shutdown") /\ Move(p, "close")
    /\ UNCHANGED <<vars, task, expired, signals>>

\* Run shuts its health server down, and then stops the River client.
ShutdownReturns(p) ==
    /\ p \notin APIs /\ Is(p, "shutdown") /\ Move(p, "stop")
    /\ UNCHANGED <<vars, task, expired, signals>>

\* Mutant: Run does not wait for the client to stop.
StopReturns_AtOnce(p) ==
    /\ p \notin APIs /\ Is(p, "stop") /\ Move(p, "close")
    /\ UNCHANGED <<vars, task, expired, signals>>

\* Mutant: no deadline on Stop: a job that hangs keeps the process.
StopReturns_NoDeadline(p) ==
    /\ p \notin APIs /\ Is(p, "stop")
    /\ ~Busy(p) /\ Move(p, "close")
    /\ UNCHANGED <<vars, task, expired, signals>>

\* Stop returns when the running jobs are done, or with the deadline's error,
\* and then log.Fatalf exits without closing anything.
StopReturns(p) ==
    /\ p \notin APIs /\ Is(p, "stop")
    /\ \/ ~Busy(p) /\ Move(p, "close") /\ UNCHANGED <<vars, task, expired>>
       \/ p \in expired /\ End(p) /\ UNCHANGED faults
    /\ UNCHANGED signals

\* Close: pool.Close waits for the connections that are in use, no longer.
Close(p) ==
    /\ Is(p, "close") /\ \A t \in Tasks : task[p][t] # "statement"
    /\ End(p)
    /\ UNCHANGED <<faults, signals>>

-----------------------------------------------------------------------------

Main(p) ==
    \/ Configure(p) \/ Migrate(p) \/ Proceed(p) \/ Relaunch(p)
    \/ Expire(p) \/ ListenReturns(p) \/ ShutdownReturns(p) \/ StopReturns(p) \/ Close(p)

ProcNext ==
    \E p \in Processes :
        \/ Main(p) \/ Crash(p) \/ Signal(p)
        \/ \E t \in Tasks : Begin(p, t) \/ Query(p, t) \/ Answer(p, t) \/ Finish(p, t)

ProcSpec == ProcInit /\ [][ProcNext]_procVars

\* main goes on while it can, time passes, the platform restarts what ended, and
\* Postgres answers.  No task need ever finish.
ProcFairSpec ==
    /\ ProcSpec
    /\ \A p \in Processes :
        /\ WF_procVars(Main(p))
        /\ \A t \in Tasks : WF_procVars(Answer(p, t))

-----------------------------------------------------------------------------
(* Properties *)

\* Every variable has its type, and a process that is not migrating, because it is
\* over with it, serves, or died or gave up in the middle, holds no transaction.
ProcTypeOK ==
    /\ TypeOK
    /\ life \in [Processes -> Lives]
    /\ task \in [Processes -> [Tasks -> {"none", "running", "statement"}]]
    /\ expired \subseteq Processes
    /\ signals \in 0 .. MaxSignals
    /\ \A p \in Processes : ~Is(p, "migrate") => proc[p].at \notin {"record", "commit"}

\* A process takes requests or jobs only on the complete schema, however the
\* migrations of the others ended, and never without its configuration.
ServesMigrated ==
    \A p \in Processes : Accepting(p) \/ Busy(p) => recorded = Versions /\ p \notin Misconfigured

\* Processes that start together and fail each other all come up in the end.
AllComeUp == <>[](\A p \in Processes \ Misconfigured : Is(p, "serving"))

\* Shutting down, p closes its pool or exits with tasks under way only when its
\* 15 seconds are over, or by a crash.
Drains(p) ==
    life[p] \in Stopping /\ life'[p] \in {"close", "gone"} /\ life'[p] # life[p] /\ Busy(p)
    => p \in expired \/ faults' # faults

\* runner.go: Run "blocks until the process receives SIGINT/SIGTERM ..., then shuts
\* down gracefully": the worker waits for the jobs it has begun.
WorkersDrain == [][\A p \in Processes \ APIs : Drains(p)]_procVars

\* server.go says the same of Listen: the API waits for the requests it has begun.
APIsDrain == [][\A p \in APIs : Drains(p)]_procVars

\* A process that was told to stop does, whatever its tasks do.
SignalEnds == \A p \in Processes : life[p] \in Stopping ~> Is(p, "gone")
=============================================================================
