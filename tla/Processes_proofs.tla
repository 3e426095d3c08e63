-------------------------- MODULE Processes_proofs --------------------------
(* Proofs about Processes for any number of processes, tasks and versions. *)
EXTENDS Processes, TLAPS

-----------------------------------------------------------------------------
(* The migrations: an invariant that no process, wherever its main is, breaks *)

Records == [at : Stages, version : Versions]

\* How far p has come: the versions before the one it is at are recorded.
Placed(p) ==
    /\ proc[p].at \in {"ensure", "create"} => proc[p].version = 1
    /\ proc[p].at \in {"check", "apply", "record", "commit"}
       => 1 .. proc[p].version - 1 \subseteq recorded
    /\ At(p, "commit") => proc[p].version \notin recorded
    /\ At(p, "ready") => recorded = Versions

\* Two open transactions never hold the same version.
Holds(p) == proc[p].at \in {"record", "commit"}
Alone(p, q) == Holds(p) /\ Holds(q) /\ proc[p].version = proc[q].version => p = q

MInv ==
    /\ TypeOK
    /\ \A p \in Processes : Placed(p)
    /\ \A p, q \in Processes : Alone(p, q)
    /\ AppliedOnce /\ AppliedInOrder

\* A process that moves without a commit.
LEMMA Moves ==
    ASSUME MInv, NEW p \in Processes, NEW r \in Records, proc' = [proc EXCEPT ![p] = r],
           UNCHANGED <<recorded, applied>>, table' \in BOOLEAN, faults' \in 0 .. MaxFaults,
           Placed(p)',
           r.at \in {"record", "commit"} =>
             r.version = proc[p].version /\ (Holds(p) \/ Holding(r.version) = {})
    PROVE  MInv'
<1>1. proc \in [Processes -> Records] /\ proc'[p] = r
  BY DEF MInv, TypeOK, Records
<1>2. TypeOK'
  BY <1>1 DEF MInv, TypeOK, Records
<1>3. \A q \in Processes \ {p} : proc'[q] = proc[q]
  BY <1>1
<1>4. \A q \in Processes : Placed(q)'
  BY <1>3 DEF MInv, Placed, At
<1>5. \A q1, q2 \in Processes : Alone(q1, q2)'
  <2>1. \A q \in Processes \ {p} : Alone(p, q)' /\ Alone(q, p)'
    BY <1>1, <1>3 DEF MInv, Alone, Holds, Holding
  <2>2. \A q1, q2 \in Processes \ {p} : Alone(q1, q2)'
    BY <1>3 DEF MInv, Alone, Holds
  <2>3. Alone(p, p)'
    BY DEF Alone
  <2> QED BY <2>1, <2>2, <2>3
<1>6. AppliedOnce' /\ AppliedInOrder'
  BY DEF MInv, AppliedOnce, AppliedInOrder
<1> QED BY <1>2, <1>4, <1>5, <1>6 DEF MInv

\* Where Go leads.
LEMMA Going ==
    ASSUME MInv, NEW p \in Processes, NEW s \in Stages, Go(p, s)
    PROVE  /\ [proc[p] EXCEPT !.at = s] \in Records
           /\ [proc[p] EXCEPT !.at = s].at = s
           /\ [proc[p] EXCEPT !.at = s].version = proc[p].version
           /\ proc' = [proc EXCEPT ![p] = [proc[p] EXCEPT !.at = s]]
           /\ proc'[p] = [proc[p] EXCEPT !.at = s]
<1>1. proc \in [Processes -> Records] /\ proc[p] \in Records
  BY DEF MInv, TypeOK, Records
<1> QED BY <1>1 DEF Go, Records

\* A move to s that neither opens a transaction nor commits one.
LEMMA Goes ==
    ASSUME MInv, NEW p \in Processes, NEW s \in Stages, Go(p, s),
           UNCHANGED <<recorded, applied>>, table' \in BOOLEAN, faults' \in 0 .. MaxFaults,
           s \in {"ensure", "create"} => proc[p].version = 1,
           s \in {"check", "apply", "record", "commit"}
             => 1 .. proc[p].version - 1 \subseteq recorded,
           s = "commit" => proc[p].version \notin recorded,
           s = "ready" => recorded = Versions,
           s \in {"record", "commit"} => Holds(p) \/ Holding(proc[p].version) = {}
    PROVE  MInv'
<1> DEFINE r == [proc[p] EXCEPT !.at = s]
<1>1. /\ r \in Records /\ r.at = s /\ r.version = proc[p].version
      /\ proc' = [proc EXCEPT ![p] = r] /\ proc'[p] = r
  BY Going
<1> HIDE DEF r
<1>2. Placed(p)'
  BY <1>1 DEF Placed, At
<1> QED BY <1>1, <1>2, Moves

\* The next file, or the end of the loop.
LEMMA Skips ==
    ASSUME MInv, NEW p \in Processes, Skip(p),
           UNCHANGED <<recorded, applied>>, table' \in BOOLEAN, faults' \in 0 .. MaxFaults,
           1 .. proc[p].version \subseteq recorded
    PROVE  MInv'
<1>1. proc[p] \in Records /\ proc[p].version \in Versions /\ recorded \subseteq Versions
  BY DEF MInv, TypeOK, Records
<1>2. CASE proc[p].version = Last
  <2> DEFINE r == [at |-> "ready", version |-> Last]
  <2>1. proc' = [proc EXCEPT ![p] = r]
    BY <1>2 DEF Skip
  <2>2. r \in Records
    BY <1>1, <1>2 DEF Records, Stages
  <2>3. recorded = Versions
    BY <1>1, <1>2 DEF Versions
  <2>4. Placed(p)'
    BY <2>1, <2>3 DEF MInv, TypeOK, Placed, At
  <2> QED BY <2>1, <2>2, <2>4, Moves
<1>3. CASE proc[p].version # Last
  <2> DEFINE r == [at |-> "check", version |-> proc[p].version + 1]
  <2>1. proc' = [proc EXCEPT ![p] = r]
    BY <1>3 DEF Skip
  <2>2. r \in Records
    BY <1>1, <1>3, MigrationConstantsOK DEF Records, Stages, Versions
  <2>3. 1 .. r.version - 1 \subseteq recorded
    BY <1>1, MigrationConstantsOK DEF Versions
  <2>4. Placed(p)'
    BY <2>1, <2>3 DEF MInv, TypeOK, Placed, At
  <2> QED BY <2>1, <2>2, <2>4, Moves
<1> QED BY <1>2, <1>3

\* COMMIT: the version was held by nobody else and not recorded, so it is applied
\* once, after the ones before it.
LEMMA CommitStep ==
    ASSUME MInv, NEW p \in Processes, Commit(p)
    PROVE  MInv'
<1> DEFINE v == proc[p].version
<1>1. /\ proc \in [Processes -> Records] /\ v \in Versions /\ recorded \subseteq Versions
      /\ applied \in [Versions -> Nat] /\ At(p, "commit") /\ table \in BOOLEAN
      /\ faults \in 0 .. MaxFaults
  BY DEF MInv, TypeOK, Records, Commit
<1>2. v \notin recorded /\ 1 .. v - 1 \subseteq recorded
  BY <1>1 DEF MInv, Placed, At
<1>3. recorded' = recorded \cup {v} /\ applied' = [applied EXCEPT ![v] = @ + 1]
      /\ table' = table
  BY DEF Commit
<1>4. 1 .. v \subseteq recorded'
  BY <1>1, <1>2, <1>3 DEF Versions
<1>5. faults' \in 0 .. MaxFaults
  BY <1>1, MigrationConstantsOK DEF Commit
<1>6. PICK r \in Records : /\ proc' = [proc EXCEPT ![p] = r]
                           /\ r.at \in {"ready", "check", "exited"}
                           /\ r.at = "ready" => v = Last
                           /\ r.at = "check" => r.version = v + 1
  <2>1. CASE Skip(p) /\ v = Last
    <3>1. [at |-> "ready", version |-> Last] \in Records
      BY <1>1, <2>1 DEF Records, Stages
    <3> QED BY <2>1, <3>1 DEF Skip
  <2>2. CASE Skip(p) /\ v # Last
    <3>1. [at |-> "check", version |-> v + 1] \in Records
      BY <1>1, <2>2, MigrationConstantsOK DEF Records, Stages, Versions
    <3> QED BY <2>2, <3>1 DEF Skip
  <2>3. CASE Go(p, "exited")
    <3> DEFINE e == [proc[p] EXCEPT !.at = "exited"]
    <3>1. "exited" \in Stages BY DEF Stages
    <3>2. e.at = "exited" /\ proc' = [proc EXCEPT ![p] = e]
      BY <2>3, <3>1, Going
    <3> e \in Records
      BY <2>3, <3>1, Going
    <3> HIDE DEF e
    <3> WITNESS e \in Records
    <3> QED BY <3>2
  <2> QED BY <2>1, <2>2, <2>3 DEF Commit
<1>7. /\ proc'[p] = r /\ proc' \in [Processes -> Records]
      /\ \A q \in Processes \ {p} : proc'[q] = proc[q]
  BY <1>1, <1>6
<1>8. TypeOK'
  BY <1>1, <1>3, <1>5, <1>7 DEF TypeOK, Records
<1>9. \A q \in Processes : Placed(q)'
  <2>1. Placed(p)'
    <3>1. r.at = "ready" => recorded' = Versions
      BY <1>1, <1>3, <1>4, <1>6 DEF Versions
    <3>2. r.at = "check" => 1 .. r.version - 1 \subseteq recorded'
      BY <1>1, <1>4, <1>6 DEF Versions
    <3> QED BY <1>6, <1>7, <3>1, <3>2 DEF Placed, At
  <2>2. ASSUME NEW q \in Processes \ {p} PROVE Placed(q)'
    <3>1. Placed(q) /\ Alone(p, q)
      BY DEF MInv
    <3>2. At(q, "commit") => proc[q].version # v
      BY <1>1, <3>1 DEF Alone, Holds, At
    <3> QED BY <1>1, <1>3, <1>7, <3>1, <3>2 DEF Placed, At
  <2> QED BY <2>1, <2>2
<1>10. \A q1, q2 \in Processes : Alone(q1, q2)'
  <2>1. ~Holds(p)'
    BY <1>6, <1>7 DEF Holds
  <2>2. \A q1, q2 \in Processes \ {p} : Alone(q1, q2)'
    BY <1>7 DEF MInv, Alone, Holds
  <2> QED BY <2>1, <2>2 DEF Alone
<1>11. AppliedOnce'
  <2> SUFFICES ASSUME NEW w \in Versions
               PROVE  applied'[w] = IF w \in recorded' THEN 1 ELSE 0
    BY DEF AppliedOnce
  <2>1. applied[w] = IF w \in recorded THEN 1 ELSE 0
    BY DEF MInv, AppliedOnce
  <2>2. CASE w = v
    BY <1>1, <1>2, <1>3, <2>1, <2>2
  <2>3. CASE w # v
    BY <1>1, <1>3, <2>1, <2>3
  <2> QED BY <2>2, <2>3
<1>12. AppliedInOrder'
  BY <1>3, <1>4 DEF MInv, AppliedInOrder
<1> QED BY <1>8, <1>9, <1>10, <1>11, <1>12 DEF MInv

\* Every step of a process that migrates.
LEMMA MigrationStep ==
    ASSUME MInv, NEW p \in Processes, RunMigrations(p)
    PROVE  MInv'
<1>0. /\ proc[p] \in Records /\ proc[p].version \in Versions /\ table \in BOOLEAN
      /\ faults \in 0 .. MaxFaults /\ Placed(p)
      /\ {"check", "create", "apply", "record", "commit", "exited"} \subseteq Stages
  BY DEF MInv, TypeOK, Records, Stages
<1>1. CASE EnsureTable(p)
  BY <1>0, <1>1, Goes DEF EnsureTable, Placed, At
<1>2. CASE CreateTable(p)
  BY <1>0, <1>2, Goes DEF CreateTable, Placed, At
<1>3. CASE Check(p)
  <2>1. UNCHANGED <<table, recorded, applied, faults>> /\ At(p, "check")
        /\ 1 .. proc[p].version - 1 \subseteq recorded
    BY <1>0, <1>3 DEF Check, Placed, At
  <2>2. CASE proc[p].version \in recorded
    <3>1. 1 .. proc[p].version \subseteq recorded
      BY <2>2 DEF MInv, AppliedInOrder
    <3> QED BY <1>0, <1>3, <2>1, <2>2, <3>1, Skips DEF Check
  <2>3. CASE proc[p].version \notin recorded
    BY <1>0, <1>3, <2>1, <2>3, Goes DEF Check
  <2> QED BY <2>2, <2>3
<1>4. CASE Apply(p)
  <2>1. /\ UNCHANGED <<table, recorded, applied, faults>> /\ Holding(proc[p].version) = {}
        /\ 1 .. proc[p].version - 1 \subseteq recorded
        /\ Go(p, "exited") \/ Go(p, "record")
    BY <1>0, <1>4 DEF Apply, Placed, At
  <2> QED BY <1>0, <2>1, Goes
<1>5. CASE Record(p)
  <2>1. /\ UNCHANGED <<table, recorded, applied, faults>> /\ Holds(p)
        /\ 1 .. proc[p].version - 1 \subseteq recorded
        /\ \/ Go(p, "exited")
           \/ Go(p, "commit") /\ proc[p].version \notin recorded
    BY <1>0, <1>5 DEF Record, Placed, At, Holds
  <2> QED BY <1>0, <2>1, Goes
<1>6. CASE Commit(p)
  BY <1>6, CommitStep
<1> QED BY <1>1, <1>2, <1>3, <1>4, <1>5, <1>6 DEF RunMigrations

\* The end of a process, and the beginning of the next one.
LEMMA ExitStep ==
    ASSUME MInv, NEW p \in Processes, Exit(p), faults' \in 0 .. MaxFaults
    PROVE  MInv'
<1>1. "exited" \in Stages /\ table \in BOOLEAN
  BY DEF Stages, MInv, TypeOK
<1> QED BY <1>1, Goes DEF Exit

LEMMA RestartStep ==
    ASSUME MInv, NEW p \in Processes, Restart(p)
    PROVE  MInv'
<1> DEFINE r == [at |-> "ensure", version |-> 1]
<1>1. r \in Records /\ proc' = [proc EXCEPT ![p] = r]
  BY MigrationConstantsOK DEF Records, Stages, Versions, Restart
<1>2. Placed(p)'
  BY <1>1 DEF MInv, TypeOK, Placed, At
<1> QED BY <1>1, <1>2, Moves DEF Restart, MInv, TypeOK

-----------------------------------------------------------------------------
(* The life of a process *)

Up == {"redis", "river", "started", "serving", "shutdown", "stop", "close"}

LifeTypes ==
    /\ TypeOK
    /\ life \in [Processes -> Lives]
    /\ task \in [Processes -> [Tasks -> {"none", "running", "statement"}]]
    /\ expired \subseteq Processes
    /\ signals \in 0 .. MaxSignals

\* Past the migrations the schema is complete, only who migrates has a transaction,
\* and tasks run only where they are taken, or are waited for.
Sound(p) ==
    /\ life[p] \in Up => At(p, "ready") /\ p \notin Misconfigured
    /\ Is(p, "migrate") => p \notin Misconfigured
    /\ Holds(p) => Is(p, "migrate")
    /\ Busy(p) => life[p] \in {"started", "serving", "shutdown", "stop", "close"}
    /\ Is(p, "close") /\ p \notin APIs => ~Busy(p)

PInv ==
    /\ MInv
    /\ LifeTypes
    /\ \A p \in Processes : Sound(p)

TaskStates == {"none", "running", "statement"}

\* Main moves on and leaves the rest alone.
LEMMA MovesOn ==
    ASSUME PInv, NEW p \in Processes, NEW s \in Lives, Move(p, s), ~Is(p, "migrate"),
           UNCHANGED <<vars, task, signals>>, expired' \subseteq Processes,
           s \in Up => At(p, "ready") /\ p \notin Misconfigured,
           s = "migrate" => p \notin Misconfigured,
           Busy(p) => s \in {"started", "serving", "shutdown", "stop", "close"},
           s = "close" /\ p \notin APIs => ~Busy(p)
    PROVE  PInv'
<1>1. life \in [Processes -> Lives]
  BY DEF PInv, LifeTypes
<1>2. life' \in [Processes -> Lives] /\ life'[p] = s /\ \A q \in Processes \ {p} : life'[q] = life[q]
  BY <1>1 DEF Move
<1>3. MInv'
  BY DEF PInv, MInv, vars, TypeOK, Placed, At, Alone, Holds, AppliedOnce, AppliedInOrder
<1>4. LifeTypes'
  BY <1>2 DEF PInv, LifeTypes, vars, TypeOK
<1>5. ASSUME NEW q \in Processes PROVE Sound(q)'
  BY <1>2 DEF PInv, Sound, Holds, Is, At, Busy, vars
<1> QED BY <1>3, <1>4, <1>5 DEF PInv

\* A process ends.
LEMMA Ends ==
    ASSUME PInv, NEW p \in Processes, End(p), faults' \in 0 .. MaxFaults,
           signals' \in 0 .. MaxSignals
    PROVE  PInv'
<1>1. /\ proc \in [Processes -> Records] /\ life \in [Processes -> Lives]
      /\ task \in [Processes -> [Tasks -> TaskStates]]
  BY DEF PInv, MInv, TypeOK, Records, LifeTypes, TaskStates
<1>2. MInv'
  BY ExitStep DEF PInv, End
<1>3. /\ life'[p] = "gone" /\ life' \in [Processes -> Lives]
      /\ task'[p] = NoTasks /\ task' \in [Processes -> [Tasks -> TaskStates]]
  BY <1>1 DEF End, Move, NoTasks, TaskStates, Lives, Starting, Stopping
<1>4. \A q \in Processes \ {p} :
        life'[q] = life[q] /\ task'[q] = task[q] /\ proc'[q] = proc[q]
  BY <1>1 DEF End, Move, Exit, Go
<1>5. LifeTypes'
  BY <1>2, <1>3 DEF PInv, MInv, LifeTypes, End, TaskStates
<1>6. Sound(p)'
  <2>1. ~Holds(p)'
    BY <1>1 DEF End, Exit, Go, Holds
  <2> QED BY <1>3, <2>1 DEF Sound, Is, Busy, NoTasks, Up
<1>7. ASSUME NEW q \in Processes \ {p} PROVE Sound(q)'
  BY <1>4 DEF PInv, Sound, Holds, Is, At, Busy
<1> QED BY <1>2, <1>5, <1>6, <1>7 DEF PInv

LEMMA ConfigureStep ==
    ASSUME PInv, NEW p \in Processes, Configure(p)
    PROVE  PInv'
<1>1. CASE p \in Misconfigured
  BY <1>1, Ends DEF Configure, PInv, LifeTypes, TypeOK
<1>2. CASE p \notin Misconfigured
  <2>1. /\ Restart(p) /\ Move(p, "migrate") /\ Is(p, "main") /\ ~Busy(p)
        /\ UNCHANGED <<task, expired, signals>>
    BY <1>2 DEF Configure, PInv, Sound, Is
  <2>2. MInv'
    BY <2>1, RestartStep DEF PInv
  <2>3. /\ life'[p] = "migrate" /\ life' \in [Processes -> Lives]
        /\ \A q \in Processes \ {p} : life'[q] = life[q] /\ proc'[q] = proc[q]
    BY <2>1 DEF PInv, LifeTypes, MInv, TypeOK, Move, Restart, Lives, Starting
  <2>4. LifeTypes'
    BY <2>1, <2>2, <2>3 DEF PInv, MInv, LifeTypes
  <2>5. Sound(p)'
    BY <1>2, <2>1, <2>3 DEF Sound, Is, Busy, Up
  <2>6. ASSUME NEW q \in Processes \ {p} PROVE Sound(q)'
    BY <2>1, <2>3 DEF PInv, Sound, Holds, Is, At, Busy
  <2> QED BY <2>2, <2>4, <2>5, <2>6 DEF PInv
<1> QED BY <1>1, <1>2

\* A migrating process changes its own place only.
LEMMA OwnPlace ==
    ASSUME MInv, NEW p \in Processes, RunMigrations(p)
    PROVE  \A q \in Processes \ {p} : proc'[q] = proc[q]
BY DEF MInv, TypeOK, RunMigrations, EnsureTable, CreateTable, Check, Apply, Record, Commit,
       Skip, Go

LEMMA MigrateStep ==
    ASSUME PInv, NEW p \in Processes, Migrate(p)
    PROVE  PInv'
<1>1. /\ RunMigrations(p) /\ Is(p, "migrate") /\ ~Busy(p) /\ p \notin Misconfigured
      /\ UNCHANGED <<task, expired, signals>>
  BY DEF Migrate, PInv, Sound, Is
<1>2. MInv' /\ \A q \in Processes \ {p} : proc'[q] = proc[q]
  BY <1>1, MigrationStep, OwnPlace DEF PInv
<1>3. /\ life'[p] \in {"redis", "gone", "migrate"} /\ life' \in [Processes -> Lives]
      /\ life'[p] = "redis" => proc'[p].at = "ready"
      /\ life'[p] = "gone" => proc'[p].at = "exited"
      /\ \A q \in Processes \ {p} : life'[q] = life[q]
  BY DEF Migrate, PInv, LifeTypes, Lives, Starting
<1>4. LifeTypes'
  BY <1>1, <1>2, <1>3 DEF PInv, MInv, LifeTypes
<1>5. Sound(p)'
  BY <1>1, <1>3 DEF Sound, Holds, Is, At, Busy, Up
<1>6. ASSUME NEW q \in Processes \ {p} PROVE Sound(q)'
  BY <1>1, <1>2, <1>3 DEF PInv, Sound, Holds, Is, At, Busy
<1> QED BY <1>2, <1>4, <1>5, <1>6 DEF PInv

LEMMA MainStep ==
    ASSUME PInv, NEW p \in Processes, Main(p)
    PROVE  PInv'
<1>0. /\ Sound(p) /\ faults \in 0 .. MaxFaults /\ signals \in 0 .. MaxSignals
      /\ expired \subseteq Processes
  BY DEF PInv, LifeTypes, TypeOK
<1>1. CASE Configure(p) BY <1>1, ConfigureStep
<1>2. CASE Migrate(p) BY <1>2, MigrateStep
<1>3. CASE Proceed(p)
  <2>1. PICK s \in {"river", "serving", "started"} :
          Move(p, s) /\ UNCHANGED <<vars, task, expired, signals>>
    BY <1>3 DEF Proceed
  <2>2. life[p] \in {"redis", "river", "started"}
    BY <1>3 DEF Proceed, Is
  <2>3. s = "river" => ~Busy(p)
    BY <1>0, <1>3, <2>1, <2>2 DEF Proceed, Is, Sound, Move, PInv, LifeTypes
  <2> QED BY <1>0, <2>1, <2>2, <2>3, MovesOn DEF Is, Sound, Up, Lives, Starting
<1>4. CASE Relaunch(p)
  BY <1>0, <1>4, MovesOn DEF Relaunch, Is, Sound, Up, Lives, Starting
<1>5. CASE Expire(p)
  <2>1. Move(p, life[p]) /\ life[p] \in Lives
    BY <1>5 DEF Expire, Move, PInv, LifeTypes
  <2> QED BY <1>0, <1>5, <2>1, MovesOn DEF Expire, Sound, Is, Up
<1>6. CASE ListenReturns(p) \/ ShutdownReturns(p)
  <2>1. PICK s \in {"close", "stop"} :
          /\ Move(p, s) /\ UNCHANGED <<vars, task, expired, signals>>
          /\ s = "close" => p \in APIs
    BY <1>6 DEF ListenReturns, ShutdownReturns
  <2>2. Is(p, "shutdown")
    BY <1>6 DEF ListenReturns, ShutdownReturns
  <2> QED BY <1>0, <2>1, <2>2, MovesOn DEF Is, Sound, Up, Lives, Stopping
<1>7. CASE StopReturns(p)
  <2>1. CASE ~Busy(p) /\ Move(p, "close") /\ UNCHANGED <<vars, task, expired>>
    BY <1>0, <1>7, <2>1, MovesOn DEF StopReturns, Is, Sound, Up, Lives, Stopping
  <2>2. CASE p \in expired /\ End(p) /\ UNCHANGED faults
    BY <1>0, <1>7, <2>2, Ends DEF StopReturns
  <2> QED BY <1>7, <2>1, <2>2 DEF StopReturns
<1>8. CASE Close(p)
  BY <1>0, <1>8, Ends DEF Close
<1> QED BY <1>1, <1>2, <1>3, <1>4, <1>5, <1>6, <1>7, <1>8 DEF Main

LEMMA SignalStep ==
    ASSUME PInv, NEW p \in Processes, Signal(p)
    PROVE  PInv'
<1>0. /\ Sound(p) /\ faults \in 0 .. MaxFaults /\ signals' \in 0 .. MaxSignals
  BY ProcessConstantsOK DEF PInv, LifeTypes, TypeOK, Signal
<1>1. CASE Is(p, "serving")
  <2>1. Move(p, "shutdown") /\ UNCHANGED <<vars, task, expired>>
    BY <1>1 DEF Signal
  <2>2. /\ life'[p] = "shutdown" /\ life' \in [Processes -> Lives]
        /\ \A q \in Processes \ {p} : life'[q] = life[q]
    BY <2>1 DEF PInv, LifeTypes, Move, Lives, Stopping
  <2>3. MInv'
    BY <2>1 DEF PInv, MInv, vars, TypeOK, Placed, At, Alone, Holds, AppliedOnce,
                AppliedInOrder
  <2>4. LifeTypes'
    BY <1>0, <2>1, <2>2, <2>3 DEF PInv, MInv, LifeTypes
  <2>5. ASSUME NEW q \in Processes PROVE Sound(q)'
    BY <1>1, <2>1, <2>2 DEF PInv, Sound, Holds, Is, At, Busy, vars, Up
  <2> QED BY <2>3, <2>4, <2>5 DEF PInv
<1>2. CASE ~Is(p, "serving")
  BY <1>0, <1>2, Ends DEF Signal
<1> QED BY <1>1, <1>2

LEMMA CrashStep ==
    ASSUME PInv, NEW p \in Processes, Crash(p)
    PROVE  PInv'
<1>1. faults' \in 0 .. MaxFaults /\ signals' \in 0 .. MaxSignals
  BY MigrationConstantsOK DEF PInv, LifeTypes, TypeOK, Crash
<1> QED BY <1>1, Ends DEF Crash

\* A task starts only where tasks are taken, and otherwise changes only itself.
LEMMA TaskStep ==
    ASSUME PInv, NEW p \in Processes, NEW t \in Tasks,
           Begin(p, t) \/ Query(p, t) \/ Answer(p, t) \/ Finish(p, t)
    PROVE  PInv'
<1>1. PICK to \in TaskStates :
        /\ task' = [task EXCEPT ![p][t] = to] /\ UNCHANGED <<vars, life, expired, signals>>
        /\ task[p][t] = "none" => Accepting(p)
  BY DEF Begin, Query, Answer, Finish, Step, TaskStates
<1>2. task \in [Processes -> [Tasks -> TaskStates]]
  BY DEF PInv, LifeTypes, TaskStates
<1>3. /\ task' \in [Processes -> [Tasks -> TaskStates]]
      /\ \A q \in Processes \ {p} : task'[q] = task[q]
      /\ \A u \in Tasks \ {t} : task'[p][u] = task[p][u]
  BY <1>1, <1>2
<1>4. MInv'
  BY <1>1 DEF PInv, MInv, vars, TypeOK, Placed, At, Alone, Holds, AppliedOnce, AppliedInOrder
<1>5. LifeTypes'
  BY <1>1, <1>3, <1>4 DEF PInv, MInv, LifeTypes, TaskStates
<1>6. Sound(p)'
  <2>1. Busy(p)' => Busy(p) \/ Accepting(p)
    BY <1>1, <1>3 DEF Busy
  <2> QED BY <1>1, <2>1 DEF PInv, Sound, Holds, Is, At, Accepting, vars
<1>7. ASSUME NEW q \in Processes \ {p} PROVE Sound(q)'
  BY <1>1, <1>3 DEF PInv, Sound, Holds, Is, At, Busy, vars
<1> QED BY <1>4, <1>5, <1>6, <1>7 DEF PInv

-----------------------------------------------------------------------------
(* The theorems *)

LEMMA ProcInitInv == ProcInit => PInv
<1> SUFFICES ASSUME ProcInit PROVE PInv OBVIOUS
<1>1. TypeOK
  <2>1. [at |-> "exited", version |-> 1] \in Records
    BY MigrationConstantsOK DEF Records, Stages, Versions
  <2>2. proc \in [Processes -> Records]
    BY <2>1, Zenon DEF ProcInit, Init
  <2>3. table \in BOOLEAN /\ recorded \subseteq Versions
    BY Zenon DEF ProcInit, Init
  <2>4. applied \in [Versions -> Nat] /\ faults \in 0 .. MaxFaults
    <3>1. 0 \in Nat /\ 0 \in 0 .. MaxFaults
      BY MigrationConstantsOK
    <3> QED BY <3>1, Zenon DEF ProcInit, Init
  <2> QED BY <2>2, <2>3, <2>4 DEF TypeOK, Records
<1>2. MInv
  BY <1>1 DEF ProcInit, Init, MInv, Placed, At, Alone, Holds, AppliedOnce, AppliedInOrder,
              Versions
<1>3. LifeTypes
  BY <1>1, ProcessConstantsOK DEF ProcInit, LifeTypes, NoTasks, Lives, Starting
<1>4. \A p \in Processes : Sound(p)
  BY DEF ProcInit, Init, Sound, Holds, Is, Busy, NoTasks, Up
<1> QED BY <1>2, <1>3, <1>4 DEF PInv

LEMMA ProcStepInv == PInv /\ [ProcNext]_procVars => PInv'
<1> SUFFICES ASSUME PInv, [ProcNext]_procVars PROVE PInv' OBVIOUS
<1>1. CASE UNCHANGED procVars
  BY <1>1 DEF procVars, vars, PInv, MInv, LifeTypes, TypeOK, Sound, Is, At, Busy, Placed,
              Alone, Holds, AppliedOnce, AppliedInOrder
<1>2. ASSUME NEW p \in Processes, Main(p) PROVE PInv'
  BY <1>2, MainStep
<1>3. ASSUME NEW p \in Processes, Crash(p) PROVE PInv'
  BY <1>3, CrashStep
<1>4. ASSUME NEW p \in Processes, Signal(p) PROVE PInv'
  BY <1>4, SignalStep
<1>5. ASSUME NEW p \in Processes, NEW t \in Tasks,
             Begin(p, t) \/ Query(p, t) \/ Answer(p, t) \/ Finish(p, t)
      PROVE  PInv'
  BY <1>5, TaskStep
<1> QED BY <1>1, <1>2, <1>3, <1>4, <1>5 DEF ProcNext

LEMMA ProcInvariant == ProcSpec => []PInv
BY ProcInitInv, ProcStepInv, PTL DEF ProcSpec

\* Every variable has its type, whichever of the processes crash and restart, and
\* only a process that is migrating has a transaction open.
THEOREM ProcTypeCorrect == ProcSpec => []ProcTypeOK
<1>1. PInv => ProcTypeOK
  BY DEF PInv, LifeTypes, Sound, Holds, ProcTypeOK
<1> QED BY <1>1, ProcInvariant, PTL

\* For any number of processes that start, fail and restart together: a version is
\* in the schema once if it is recorded and not at all otherwise.
THEOREM MigrationsApplyOnce == ProcSpec => []AppliedOnce
<1>1. PInv => AppliedOnce BY DEF PInv, MInv
<1> QED BY <1>1, ProcInvariant, PTL

\* And never before the versions it builds on.
THEOREM MigrationsKeepOrder == ProcSpec => []AppliedInOrder
<1>1. PInv => AppliedInOrder BY DEF PInv, MInv
<1> QED BY <1>1, ProcInvariant, PTL

\* No process takes or runs a task on an incomplete schema.
THEOREM ServingIsMigrated == ProcSpec => []ServesMigrated
<1>1. PInv => ServesMigrated
  <2> SUFFICES ASSUME PInv, NEW p \in Processes, Accepting(p) \/ Busy(p)
               PROVE  recorded = Versions /\ p \notin Misconfigured
    BY DEF ServesMigrated
  <2>1. Sound(p) /\ Placed(p)
    BY DEF PInv, MInv
  <2>2. life[p] \in Up
    BY <2>1 DEF Accepting, Is, Sound, Up
  <2> QED BY <2>1, <2>2 DEF Sound, Placed
<1> QED BY <1>1, ProcInvariant, PTL

\* Whatever the number of slots, the worker leaves its jobs only when its time is
\* over.
THEOREM WorkersAlwaysDrain == ProcSpec => WorkersDrain
<1>1. PInv /\ [ProcNext]_procVars => [\A p \in Processes \ APIs : Drains(p)]_procVars
  <2> SUFFICES ASSUME PInv, ProcNext, NEW p \in Processes \ APIs,
                      life[p] \in Stopping, life'[p] \in {"close", "gone"},
                      life'[p] # life[p], Busy(p), p \notin expired
               PROVE  faults' # faults
    BY DEF Drains
  <2>1. life \in [Processes -> Lives] /\ faults \in Nat /\ ~Is(p, "close")
    BY DEF PInv, LifeTypes, TypeOK, Sound
  <2>2. PICK q \in Processes :
          \/ Main(q) \/ Crash(q) \/ Signal(q)
          \/ \E t \in Tasks : Begin(q, t) \/ Query(q, t) \/ Answer(q, t) \/ Finish(q, t)
    BY DEF ProcNext
  <2>3. ASSUME NEW t \in Tasks, Begin(q, t) \/ Query(q, t) \/ Answer(q, t) \/ Finish(q, t)
        PROVE FALSE
    BY <2>3 DEF Begin, Query, Answer, Finish, Step
  <2>4. CASE q # p
    BY <2>1, <2>2, <2>3, <2>4
    DEF Main, Configure, Migrate, Proceed, Relaunch, Expire, ListenReturns, ShutdownReturns,
        StopReturns, Close, Crash, Signal, End, Move
  <2>5. CASE q = p /\ Crash(p)
    BY <2>1, <2>5 DEF Crash
  <2>6. CASE q = p /\ (Main(p) \/ Signal(p))
    BY <2>1, <2>6
    DEF Main, Configure, Migrate, Proceed, Relaunch, Expire, ListenReturns, ShutdownReturns,
        StopReturns, Close, Signal, End, Move, Is, Stopping, Starting
  <2> QED BY <2>2, <2>3, <2>4, <2>5, <2>6
<1> QED BY <1>1, ProcInvariant, PTL DEF ProcSpec, WorkersDrain
=============================================================================
