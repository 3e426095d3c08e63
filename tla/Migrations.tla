----------------------------- MODULE Migrations -----------------------------
(***************************************************************************)
(* db.RunRiverMigrations as the API and the worker both run it when they   *)
(* start: apply the application's migrations, then River's, each in a      *)
(* transaction of its own together with its row in schema_migrations.      *)
(* Nothing but Postgres orders two processes that start together.  The     *)
(* versions of both directories, sorted, are 1 .. Last.                    *)
(*                                                                         *)
(* These are the steps only; Processes runs them inside the processes.     *)
(***************************************************************************)
EXTENDS Naturals

CONSTANTS
    Processes,   \* instances that may start at the same time
    Last,        \* number of .up.sql files
    Rerunnable,  \* versions whose statements succeed a second time
    MaxFaults    \* bound on crashes and failed calls

ASSUME MigrationConstantsOK ==
    /\ Last \in Nat \ {0} /\ MaxFaults \in Nat
    /\ Rerunnable \subseteq 1 .. Last

Versions == 1 .. Last

VARIABLES
    table,    \* has schema_migrations been created?
    recorded, \* committed rows of schema_migrations
    applied,  \* how often each version's statements have been committed
    proc,     \* the processes: where, at which version, open transaction
    faults

vars == <<table, recorded, applied, proc, faults>>

Stages == {"ensure", "create", "check", "apply", "record", "commit",
           "ready", "exited"}

Init ==
    /\ table = FALSE
    /\ recorded = {}
    /\ applied = [v \in Versions |-> 0]
    /\ proc = [p \in Processes |-> [at |-> "exited", version |-> 1]]
    /\ faults = 0

At(p, s) == proc[p].at = s
Go(p, s) == proc' = [proc EXCEPT ![p].at = s]
\* Processes whose uncommitted transaction has run the statements of v.
Holding(v) == {p \in Processes : proc[p].version = v /\ proc[p].at \in {"record", "commit"}}

-----------------------------------------------------------------------------

\* CREATE TABLE IF NOT EXISTS looks first and creates later: of two that find
\* nothing the slower one fails on the catalog's unique index.
EnsureTable(p) ==
    /\ At(p, "ensure")
    /\ Go(p, IF table THEN "check" ELSE "create")
    /\ UNCHANGED <<table, recorded, applied, faults>>

CreateTable(p) ==
    /\ At(p, "create")
    /\ Go(p, IF table THEN "exited" ELSE "check")
    /\ table' = TRUE
    /\ UNCHANGED <<recorded, applied, faults>>

\* Mutant: the loop runs past the last file.
Skip_PastLast(p) ==
    proc' = [proc EXCEPT ![p] = [at |-> "check", version |-> @.version + 1]]

\* On to the next file; after the last one the process serves.
Skip(p) ==
    proc' = [proc EXCEPT ![p] = IF proc[p].version = Last
                 THEN [at |-> "ready", version |-> Last]
                 ELSE [at |-> "check", version |-> @.version + 1]]

\* Mutant: no check; a restart always applies everything again.
Check_Dropped(p) ==
    /\ At(p, "check")
    /\ Go(p, "apply")
    /\ UNCHANGED <<table, recorded, applied, faults>>

\* SELECT EXISTS, outside the transaction.
Check(p) ==
    /\ At(p, "check")
    /\ IF proc[p].version \in recorded THEN Skip(p) ELSE Go(p, "apply")
    /\ UNCHANGED <<table, recorded, applied, faults>>

\* BEGIN and the file.  The statements wait for another transaction that ran
\* the same ones, and then fail on what it created, unless they are rerunnable.
Apply(p) ==
    LET v == proc[p].version IN
    /\ At(p, "apply")
    /\ Holding(v) = {}
    /\ Go(p, IF v \in recorded /\ v \notin Rerunnable THEN "exited" ELSE "record")
    /\ UNCHANGED <<table, recorded, applied, faults>>

\* Mutant: INSERT ... ON CONFLICT DO NOTHING.
Record_OnConflict(p) ==
    /\ At(p, "record")
    /\ Go(p, "commit")
    /\ UNCHANGED <<table, recorded, applied, faults>>

\* INSERT of the version: the primary key refuses one that is there already,
\* and the transaction is rolled back.
Record(p) ==
    /\ At(p, "record")
    /\ Go(p, IF proc[p].version \in recorded THEN "exited" ELSE "commit")
    /\ UNCHANGED <<table, recorded, applied, faults>>

\* COMMIT; the answer may be lost, which the process takes for a failure.
Commit(p) ==
    /\ At(p, "commit")
    /\ recorded' = recorded \cup {proc[p].version}
    /\ applied' = [applied EXCEPT ![proc[p].version] = @ + 1]
    /\ \/ Skip(p) /\ UNCHANGED faults
       \/ /\ faults < MaxFaults /\ faults' = faults + 1
          /\ Go(p, "exited")
    /\ UNCHANGED table

\* The process ends, however; Postgres rolls its transaction back.
Exit(p) == Go(p, "exited") /\ UNCHANGED <<table, recorded, applied>>

\* Mutant: the file that failed is skipped.
Restart_SkipsFailed(p) ==
    /\ Skip(p)
    /\ UNCHANGED <<table, recorded, applied, faults>>

\* A new process migrates from the beginning.
Restart(p) ==
    /\ proc' = [proc EXCEPT ![p] = [at |-> "ensure", version |-> 1]]
    /\ UNCHANGED <<table, recorded, applied, faults>>

RunMigrations(p) ==
    \/ EnsureTable(p) \/ CreateTable(p) \/ Check(p) \/ Apply(p)
    \/ Record(p) \/ Commit(p)

-----------------------------------------------------------------------------
(* Properties *)

\* Every variable has its type.
TypeOK ==
    /\ table \in BOOLEAN
    /\ recorded \subseteq Versions
    /\ applied \in [Versions -> Nat]
    /\ proc \in [Processes -> [at : Stages, version : Versions]]
    /\ faults \in 0 .. MaxFaults

\* schema_migrations is the truth: a version's statements are in the schema
\* exactly once if it is recorded and not at all otherwise, although the check
\* is made outside the transaction and processes race and die.
AppliedOnce ==
    \A v \in Versions : applied[v] = IF v \in recorded THEN 1 ELSE 0

\* No version is applied before the ones it builds on.
AppliedInOrder == \A v \in recorded : 1 .. v \subseteq recorded
=============================================================================
