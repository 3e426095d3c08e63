# TLA+ project for flight-circle-search

flight-circle-search lets a user draw two circles on a map, expands them to
every (origin airport, destination airport, date) tuple that a direct flight or
one hub connects, and looks each tuple up at a fare provider through a Postgres
work queue (River). The Go code is under `src/internal` and `src/cmd`, the page
under `src/frontend`.

This directory holds TLA+ modules that model the parts of the program where
order, failure or concurrency decide what happens, TLC configurations that
check small instances of them, and TLAPS proofs for instances of any size.
`PROJECT.json` is the machine-readable index: components, runs, mutants, the
source lines behind each definition (`map`), findings, hazards and theorems.

Commands, in this directory:

    tlc -workers 2 -config engine.cfg MCJobPolling.tla     # one run, see below
    tlapm JobEngine_safety.tla                             # one proof module

## 1. Inventory

| Component | State | Operations | Interacts with |
|---|---|---|---|
| Job submission (`jobengine/service.go`, `http/handlers.go`) | none of its own; a request context | `GenerateTuples`, `CreateJob`, `GetPendingResults`, `EnqueueBatch`, `MarkJobStatus`, best-effort failure marking | writes the two tables, inserts into River |
| Result rows and counters (`jobengine/repository.go`, migrations) | `search_jobs`, `search_job_results` | `UpdateResult`, `MarkResultDeadLetter`, `UpdateJobProgress`, `MarkJobCompleteIfDone`, `DeleteJobsOlderThan` | called by handlers, workers, sweep |
| Fare worker (`worker/fareworker.go`) | none but its River entry | `Work`, `handleError`, `markDeadLetter` | limiter, provider, repository |
| River (library) | `river_job` | insert, fetch, complete, retry, discard, snooze, rescue | drives the workers |
| Retention sweep (`worker/retention.go`) | none | delete jobs older than the window | races the workers |
| Job polling (`http/handlers.go`, `App.tsx`, `cmd/livetest`) | the client's loop | `GET /jobs/{id}?include=results` | reads both tables |
| Rate limiter (`worker/ratelimiter.go`) | token bucket, semaphore, `inflight` | `Wait`, `Release`, `InFlight` | shared by all slots of a process |
| Fare provider and cache (`fareprovider/travelpayouts.go`, `cache/*`) | Redis entries | `Search`, month fallback, error classes | called by each slot, on the context of its execution |
| Tuple generation (`geo`, `routes`, `jobengine/service.go`, `types.go`) | the lists of one request | circles, pairs, hub filter, dates, limit | submission |
| Magic-link login (`auth/*`, `http/auth_handlers.go`) | Redis: rate key, token, session | `Issue`, `Consume`, session `Create`/`Delete` | page, middleware |
| Schema migrations (`db/db.go`) | `schema_migrations` | `RunRiverMigrations` | API and worker, at start |
| Process shells (`cmd/*/main.go`, `api/server.go`, `worker/runner.go`, `config`) | pool, River client, signal channel | `Load`/`Validate`, `NewServer`/`NewRunner`, `Listen`/`Run`, shutdown, `Close` | run the migrations, host requests and jobs |
| Search page (`App.tsx`, `MapView.tsx`) | circles, undo history, drag, Leaflet layers, search | draw, move, Esc, undo, reset, search | polls the API |
| Login pages, middleware, CSV loading, Duffel adapter, mail senders | (not modelled, section 7) | | |

What is hard here, and what makes each part correct:

- **Engine.** Three processes write one job row in separate statements. Submit
  commits the rows, then queues them, then marks the job running; the workers may
  be ahead of it. Two workers recount at once. Any statement can fail, lose its
  answer, or be the last one before a crash. Correct means: a job called complete
  has no open row, a final status is final, every queued row ends, and the job
  and the client's search end with them.
- **River** delivers at least once. Correct means: attempts stay within the
  limit, a redelivery corrupts neither counters nor a final job, and a row whose
  attempts are used up is itself marked.
- **Limiter.** `Wait` can fail in two places and `Release` must be called exactly
  after it succeeded. Correct means: no unit is lost, `InFlight` never reads more
  than the maximum, nobody waits for ever.
- **Fare cache.** Concurrent searches share keys, and the job's timeout may end a
  search between any two calls. Correct means: what is cached for a key was said
  by the provider about that key; a row is settled by an answer and by nothing
  else; no more requests are at the provider than the limiter has units.
- **Tuples.** Correct means: exactly the rows asked for, once each, the same in
  both directions, and the limit exact.
- **Login.** Several Redis commands per request, keys that expire between them.
  Correct means: one link, one session, for an invited address; under races no more
  links than the limit allows; no address limited for good by their order alone.
- **Migrations.** The check is outside the transaction and two programs start
  together. Correct means: every version once, in order, all processes come up.
- **Process shells.** Signals arrive at any moment, tasks may hang, main returns
  beside goroutines. Correct means: work is taken only on the complete schema, a
  process told to stop waits for its work, but not for ever.
- **Page.** Effects that depend on part of the state, handlers that keep values
  of an earlier render, polls that outlive a reset. Correct means: the map shows
  what will be searched, undo takes back one drawing or removal of a circle, the panel
  shows its own search.

Every hazard, with its line and the properties aimed at it, is in `PROJECT.json`.

## 2. Plan

Order of work, most important first. (1)-(10) exist.

1. `JobEngine`: submission, tables, River, workers, sweep. Core of the program.
2. `JobEngine_proofs`: types, `CompleteMeansSettled`, `FinalAfterSubmitIsStable`,
   and that the engine refines (4).
3. `JobPolling` EXTENDS `JobEngine`: the reader and its client; composition.
4. `SearchJob`, the abstract promise.
5. `RateLimiter`.
6. `FareSearch` (steps) and `FareWork`, which composes them with `RateLimiter`;
   `FareWork_proofs`, for both.
7. `MagicLink`. 8. `TupleGeneration`.
9. `Migrations` (steps) and `Processes`, which runs them inside the processes;
   `Processes_proofs`.
10. `SearchPage`.

Then the theorems: `JobEngine_safety` (the engine's remaining invariants),
`JobPolling_proofs`, `MagicLink_proofs`, `SearchPage_proofs`, and
`TupleGeneration_proofs`; all of them exist. Every invariant and every action
property of the passing runs now has a theorem; liveness has none (section 6).

No module with theorems declares a RECURSIVE operator.

## 3. Modules and how they correspond to the code

One action is one statement or call to a backing service (Postgres, Redis, the
provider) or, on the page, one browser event with the renders it causes. Between
two actions of one process every other process may act. Operators named
`X_Something` after a comment "Mutant:" are deliberate errors used by the mutant
runs of `PROJECT.json`; no specification uses them.

**JobEngine.** `jobs` is `search_jobs` (status, total, completed, failed,
whether `error_summary` is set), `results` the status of every row, `river` the
queue entry of a row, `submit` the POST handlers with the liveness of their
request context, `work` the executor slots with the values `Work` carries from
one statement to the next, `aged` the jobs past the retention window, `faults`
the fault budget (`Search` and `RateLimiterWait` are one action each here;
`FareWork` opens them up). `Call(live, r)` is the failure model: a statement succeeds,
fails without effect, or takes effect and loses its answer; on a cancelled
context it fails at once. `UpdateJobProgress` is one SQL statement but two
actions (`CountResults`, `UpdateJobProgress`): under READ COMMITTED its counts
come from the snapshot taken at its start, and the row is written after the lock
is granted. `MarkJobCompleteIfDone` is three statements and three actions.
`ReturnError` is River's handling of an error from `Work`; `Snooze` is
`JobSnooze(0)`, which gives the attempt back; `Rescue` is River's rescuer on an
entry whose worker is gone.

**SearchJob** is what a client may conclude: a job has a `phase`, a set of tuples
still `open`, and a request that is or is not over (`submitting`). Creation is one
step, a tuple is settled once and for all, the job ends only when nothing is open,
and an end is final once the request is over; until then the request's own last
statement may override it (finding 2 below, so the promise is the strongest one
the code keeps). The mapping is at the end of `JobEngine`: `Phase`, `RowsIn(j, Open)`
and the handlers not in `Ended`. Queue, slots, counters, retries and crashes do
not appear in it.

**JobPolling** adds `poll`: for each job the client and the response the handler
is building from two statements. Clients in `Patient` retry after a 500 and give up
after a timeout (livetest), the others stop at the first error and poll without
limit (page).

**RateLimiter.** `tokens` is the bucket, `free` the semaphore, `inflight` the
atomic counter, `pc` where each caller is, `canceled` whose context has ended;
`Release` is two actions because the counter and the semaphore are two objects
anyone may observe between. `TooLate` is `rate.Limiter` refusing to wait past a
deadline.

**FareSearch** has the steps of `Travelpayouts.Search`, each with an argument that
says whether the context is alive. `cache` and `search` as named; a list of fares is
reduced to its key and to what the provider said about the date and the month. A
context that ends during a request gives either the context's error (`canceled`) or
a body that cannot be read (`cut`), which the code takes for an outage.

**FareWork** EXTENDS `RateLimiter` and instantiates `FareSearch` with the limiter's
callers as its searches: `FareWorker.Work` from `Wait` to the deferred `Release`,
with `row`, the status it leaves its row in. The one context of an execution is
the limiter's `canceled`: the job timeout ends waits, requests, cache writes and
row writes alike, which is what keeps a cut reply out of cache and table.

**MagicLink.** `rate`, `token`, `session` are the three kinds of Redis keys with
their expiry; `link` and `callback` are the requests. History: `issued` is the set of
requests whose token was stored, `link[r].at` is when a request was counted,
`link[r].since` and `rate[e].since` since when the key existed it was counted on.
`Bumped` is `INCR` on a key that lives or is gone.

**Migrations** has the steps of `RunRiverMigrations`. `proc` is each starting
process; `Apply` to `Commit` is one Postgres transaction, with `Holding` as the lock
that the statements of an uncommitted transaction impose; `applied` is a history
count.

**Processes** EXTENDS it. `life` is where `main` of each process is: `main`
(configuration), `migrate`, `redis`, `river` (the rest of `NewServer`/`NewRunner`),
`started` (worker only: the River client runs, the signal is not yet asked for),
`serving`, `shutdown`, `stop` (worker only: `client.Stop`), `close`, `gone`. `task`
is what its requests or jobs are doing: nothing, running, or in a statement that
holds a connection of the pool. `Listen` and `Run` share the actions up to
`shutdown` and part there: `ListenReturns` follows at once because `Shutdown` runs
in a goroutine nobody waits for, `ShutdownReturns` and `StopReturns` are in line.

**TupleGeneration.** The sphere is reduced to a great circle that closes on itself,
which keeps the antimeridian, the radius boundary and overlapping circles. The
functions are loops over slices; one action is one turn of a loop, `at` says which
loop it is or how `Submit` replied, `i` (and `k`, in the nested loop of
`GenerateAllPairs`) is the index, and `origins`, `destinations`, `pairs`, `routed`,
`rows` are the slices being built. `EndLoop` leaves a loop that is through. There is
nothing concurrent in it: the steps are there because what a loop computes is then
the invariant of its steps, which can be proved, while a fold could only be
evaluated. `Reference` and `ReferenceRows` say what the rows should be without any
of the code's operators: by angle instead of distance, by sets instead of lists.
`AirportLists`, `Graphs`, `HubLists` and `Requests` are the inputs; the assumption
`TupleConstantsOK` gives only their types, so that a file may repeat codes, hold
invalid locations or be empty.

**SearchPage.** `circle` is React state, `history` is `historyRef`, `layer` what
Leaflet shows and the circle each marker's handler captured, `drag` and
`previews` the drawing in progress, `search` the form and panel, `polling` the
loops still running. `chord` is a history variable: whether a key or a second
mouse button was pressed with the mouse down.

`MC*` modules only declare model values, symmetry sets and input sets.

## 4. Runs

| Run | Question | Result |
|---|---|---|
| `engine` | Engine and poller, two slots, two tuples, two faults, sweep: rows, counters, queue, status and response; does the engine implement `SearchJob`? | holds, 0.7M states |
| `engine_one_worker` | One slot, one fault, retryable errors: do rows settle, is the job finalised, does the client's search end? | holds under fairness |
| `engine_two_workers` | The same question for the job with two slots and no fault | **violated**: crossing recounts |
| `engine_final_stable` | Is a final status final, as `repository.go:335` says? | **violated**: Submit reopens it |
| `engine_discarded` | Is a task out of attempts marked, as ADR-007 says? | **violated**: it stays pending |
| `farework` | Three executions of `Work`, one unit, one key, every answer, the timeout anywhere: limits, cache, what settles a row, do waits end? | holds, 40k states |
| `auth` | Three requests, two callbacks, expiry, one failed command: who gets in, how many links in any window, what leaves a rate key without a time to live? | holds, 1.9M states |
| `auth_rolling` | Are links capped per rolling 24 hours, as `tokens.go:35` says? | **violated**: around the end of a window |
| `tuples` | 124416 inputs against an independent definition of the rows | holds, 0.84M states |
| `processes` | API, worker and a process without its key: two versions, two crashes, two SIGTERMs, two tasks each | holds, 47k states, with liveness |
| `shutdown_api` | Does the API wait for its requests, as `server.go:119` says? | **violated**: it does not |
| `page` | All event orders within the bounds | holds |

What the five violated runs show:

1. *Crossing recounts* (`engine_two_workers`). Two slots settle the last two
   rows. Slot 2 counts first (its snapshot sees one row), slot 1 counts and writes
   two, slot 2 writes one. Both then find no row open and `completed + failed <
   total`, and return. Nobody looks again: the job stays running, its client polls
   on.
2. *Reopened job* (`engine_final_stable`). The rows are queued, workers settle them
   and finalise the job, then Submit executes its unconditional
   `UPDATE ... SET status = 'running'`.
3. *Discarded row* (`engine_discarded`). `handleError` returns a retryable error
   on the last attempt as on the first; River discards the entry, nothing marks
   the row.
4. *Fixed window* (`auth_rolling`). The window starts with the first request, which
   alone sets the time to live of the key. With a cap of two, a second request comes
   just before the key expires and two more just after it, on a new key that counts
   from zero: three links within a moment. `RollingBound`, checked in `auth` and
   proved, is what the code does keep: less than twice the cap in any 24 hours.
5. *API shutdown* (`shutdown_api`). On SIGTERM a goroutine calls `Shutdown`;
   `ListenAndServe` returns as soon as the listener is closed, `Listen` returns, and
   `main` closes the pool and exits while requests are under way. A request between
   two statements loses its pool. The worker calls `Stop` in line and does wait
   (`WorkersDrain`).

Behaviours met while modelling that no document speaks against, and that the
properties are therefore worded around:

- `completed_pairs` counts failed rows too, so a job with failed rows can be
  finalised on a stale counter (the open rows decide).
- A redelivery may turn an answered row into a dead letter, since
  `MarkResultDeadLetter` has no condition. `FailedMeansAllDead` is for fault-free
  histories for this reason.
- A request that expands to no tuple leaves a job that stays running.
- `Work` drops the errors of `UpdateJobProgress` and `MarkJobCompleteIfDone`; on
  the last row this leaves the job open. `JobFinalized` speaks of jobs with an open
  row once the faults are over.
- The month fallback stores an outage as "no fares" (tests expect it). It would do
  the same with a reply cut short by the job's timeout, and an ended context would be
  dead-lettered as an unknown error; both writes fail because they run on the ended
  context themselves. `CacheBacked` and `OnlyAnswersSettle` show that this is enough,
  and their mutants that it is what they rest on.
- A SIGTERM between the start of the River client and `signal.Notify` kills the
  worker under its jobs.
- When `client.Stop` runs into its deadline `main` ends by `log.Fatalf`, and the
  pool is not closed.
- When `INCR` takes effect and `EXPIRE` does not (a failed connection, a crash), the
  rate key has no time to live, since only the request that created it sets one, and
  the address stays limited for good. `OnlyErrorsLockOut` says that nothing else
  leads there: no order of `INCR`, `EXPIRE` and expiry loses the time to live.
- A link is spent when the session cannot be stored, or its answer is lost.
- A move of a circle pushes no history, while undo restores a whole snapshot: Ctrl+Z
  takes back the last drawing or removal together with the moves made after it, and
  moves alone cannot be taken back. `UndoTakesBackOneDraw` is worded for drawings and
  removals, and the places of circles are left out of it, for this reason.
- Pressing Ctrl+Z with the mouse down makes a later marker move restore an old
  radius; a second button with the mouse down leaves a preview on the map; which of
  the two Esc listeners runs first decides whether the drag ends.

## 5. Bounds and fairness

- *Engine*: two tuples and two slots are the least with two last rows; a third of
  either repeats the same races. One job: no statement touches two jobs but the
  sweep, which treats each alone. Two attempts: first and last differ. Two faults:
  a fault and a failed reaction to it. Outcomes that take the same
  branch of `handleError` are represented by one of them (`unknown` and `down` in
  `engine`, `rate_limited` in `engine_one_worker`). Tuples and slots are symmetric sets
  in safety runs; the liveness run uses no symmetry.
- *FareWork*: three callers over one unit and a bucket of one, so one searches, one
  waits for the unit and one for the token; with one key every two searches share
  it (that lists never cross keys is left to the theorem, which is for any set of
  keys).
- *MagicLink*: in `auth` the clock passes each time to live at least once; three
  requests exceed the limit of one by two; two callbacks race for a token;
  `MaxFaults = 1` places one failure at any command. With a limit of one
  `RollingBound` is the documented cap itself, which one request per window cannot
  break; windows that meet two keys need a limit of two, as in `auth_rolling` (four
  requests, no faults, no callbacks), and are in the theorem for every limit.
- *Processes*: API and worker race for each version, the third process must never
  get that far; version 2 is rerunnable, 1 is not; two tasks, so one may be in a
  statement while the other runs; `MaxSignals = 2` stops both, or one twice.
- *Tuples*: radii at both ends and one beyond, centres off the map and on both
  sides of the seam, ranges of one and three days, reversed and malformed.
- *Page*: an undo history of two, two places, two radii, two searches.

Bounds are constants (`MaxFaults`, `MaxTime`, `MaxSignals`, `MaxHistory`,
`MaxSearches`) or the
definition `MaxPreviews`. `CHECK_DEADLOCK FALSE` is set where the system comes to
rest: all rows ended, all requests answered, one input per behaviour.

Fairness:

- `JobEngine!Fairness`: weak fairness for a handler that has started (Go runs
  it to its return), for fetching while a slot is free, for each step of `Work`,
  and for River's rescuer, which runs periodically. Arrival of requests, faults,
  crashes, shutdown and ageing have none. `PollFairSpec` adds the client's loop
  (`setTimeout`, `time.Sleep`).
- `FareWork!WorkFairSpec`: strong fairness for taking a token and for acquiring a
  unit, because `rate.Limiter` reserves in order of arrival and
  `semaphore.Weighted` keeps a FIFO list of waiters; weak fairness for the refill and
  for the steps of an execution, whose calls all have a timeout. New executions and
  cancellations have none.
- `Processes!ProcFairSpec`: `main` goes on while it can, the deadline passes, the
  platform restarts what ended, a statement returns. No task need ever finish, no
  signal or crash need ever come.

## 6. Proofs

`JobEngine_proofs` proves, for any sets of jobs, slots and outcomes, any finite
set of tuples and any attempts and faults (assumption `ConstantsOK`):

- `TypeCorrect`: `Spec => []TypeOK`,
- `CompleteIsSettled`: `Spec => []CompleteMeansSettled`,
- `FinalIsStable`: `Spec => FinalAfterSubmitIsStable`.

None of the three is inductive as it stands. `IInv` adds

- `QueueInv`: an available entry has an attempt left and a running one has used
  one. Without it `Snooze` could go below zero and `Fetch` above `MaxAttempts`.
- `SlotInv`: a busy slot executes an entry that is running, and no other slot
  executes the same one; so a step of one slot does not change the entry of
  another.
- `FreshInv`: before Submit creates the job the tables do not know it, and before
  it enqueues River does not; so `CreateJob` overwrites nothing a worker holds.
- `SettledInv`: a slot past `CountRemaining` works for a job without open rows.
  That stays true because rows of a job are only made open by `CreateJob`, which
  `FreshInv` and `SlotInv` exclude while a slot is busy; every other statement
  moves rows away from open.

There is one lemma per action for the step, built from frame lemmas about the
queue and the slots. `FinalIsStable` needs, on top, that the only statements that
write a status without a condition belong to a handler that is not over.

The second half of the module builds on it: `EngineKeepsPromise`,
`Spec => ImplementsPromise`, is the refinement. It adds `RequestInv` (a job is old enough for the sweep only when its request is
over, and an unfinished request still finds its job) and `RowsHaveJob`, which is what
the foreign key with its ON DELETE CASCADE gives and the mapping of a deleted job
needs. For the refinement each action is classed by what `SearchJob` sees of it
(nothing, a request going on or ending, a tuple settled, the job finished, the
sweep), with one lemma per class; the hard cases are a redelivered task, which must
not open a row (`SlotInv`), and `Finalize`, which needs `SettledInv`.

`JobEngine_safety` proves the engine's other four invariants, each with an
inductive invariant of its own on top of `RInv`:

- `CountersStayBounded`. The bound on a stored counter is not inductive: a slot
  between `CountResults` and `UpdateJobProgress` carries counts that it will write
  later. `CountInv` bounds these too and says that `total` is the number of rows, so
  that a stale count is still a count of some of them.
- `RunningIsQueued`. Submit marks the job running after its inserts; the invariant
  follows the rows from `CreateJob` over `GetPendingResults` to `EnqueueBatch`
  (`EnqueueOK`): what is about to be marked running is queued already, and a River
  entry never disappears before its row does.
- `EnqueueFailuresSurface`. The invariant counts the faults (`SurfaceOK`): a request
  with rows and none of them queued that is about to mark the job failed has met
  one, and if the job is not failed when it answers, a second.
- `FailedIsAllDead`. `CleanInv` describes the histories without faults: no row is
  worked on by two slots, none is dead-lettered after an answer, and `failed` counts
  no row that is not a dead letter. A count of the dead rows may be stale, but rows
  only die, so it stays a lower bound; `Finalize` then cannot mistake an answered
  row for a dead one.

`JobPolling_proofs` carries all of this over to the composition with the readers
(`PolledEngineSafe`, `PolledEngineKeepsPromise`: a reader changes nothing of the
engine, and the engine's steps preserve its invariants whatever the readers do) and
proves `CompleteResponseIsSettled`. The response is built by two statements, the
status first. Its invariant says of a reader between them that if the status it
holds is "complete" no row of the job is open now; that is preserved because no
step opens a row of a job that has been accepted, not even for a job that was swept
meanwhile.

`FareWork_proofs` starts with the limiter alone: `InFlightIsBounded` and
`UnitsAreAccounted` for any finite set of callers and any limits (assumption
`LimitsOK`), because units free plus owners equals the size, the callers counted
are owners, and `inflight` is their number. It then proves `WorkUsesTheLimiter`
(`WorkSpec => Spec` of `RateLimiter`), so the limiter's theorems hold of the
composition. Its own invariant
`WInv` adds `Inside` (a search is under way only in a caller that is counted) and
`Answered` (a fetched list is what the provider said, or the context has ended; an
error of the context means it has ended). From it: `WorkTypeCorrect`, `RequestsAreBounded` (requests are
a subset of the owners), `CacheIsBacked`, and the action property `AnswersSettle`.

`Processes_proofs` proves, for any processes, versions, tasks and bounds,
`ProcTypeCorrect`, `MigrationsApplyOnce`, `MigrationsKeepOrder`, `ServingIsMigrated` and
`WorkersAlwaysDrain`. `MInv` adds to the two properties of the table that a process
at version v finds every smaller version recorded (`Placed`) and that at most one
process holds an uncommitted transaction of a version, which is not yet recorded
(`Alone`); `PInv` adds `Sound`: past `migrate` a process is done with the last
version, only a process in `migrate` has a transaction open (the last part of
`ProcTypeOK`), and it has tasks only while it takes them or waits for them.

`MagicLink_proofs` proves, for any addresses, requests, callbacks, limit, times to
live and bounds (assumption `AuthConstantsOK`; requests are finite, so that they
can be counted), `TypeCorrect`, `TokensSingleUse`, `SessionsAreInvited`,
`RollingIsBounded` and `LockOutIsByError`.

- `SingleUse` needs `TokenInv`: once a callback has an address, the token it came
  from is gone, and it is not stored again, because a token somebody holds belongs
  to a request that has finished (`mailed` implies `sent`).
- `SessionsInvited` needs `GrantInv`, which follows the address along its way:
  request, token, callback, session, with the allowlist decided at the start.
- `RollingBound` needs more than the number of tokens: a request that got its count
  and has not stored its token yet already holds a place (`Held`). `Passed(e, s)` is
  the set of these requests and of the issued ones that were counted on the key that
  e had since s; the key's count is at least their number (`WindowOK`). `Incr` is the
  only step that enlarges the set, by one request while the count grows by one.
  `OrderInv` says that keys of one address lie at least a window apart, and that what
  was counted on one was counted before the next began. So a window meets two keys
  at most, and if it meets two it begins after the first moment of the earlier one,
  whose first request is then outside: `Late(e, s)`, the requests that were counted
  later than that moment, are fewer than the limit (`TwoKeys`).
- `OnlyErrorsLockOut` is preserved because the request that creates a key owes it the
  time to live (`Owes`) until it has set it or ended in an error; `Incr` on a key that
  lives leaves its expiry alone, and no other step touches a rate key.

`SearchPage_proofs` proves all invariants of the page and its action property for
any places, radii, length of the history and number of searches. `NoneIsNull`
assumes that `null` is no place, circle or drag.

- `LayerInv` adds to `MapShowsCircles` that the handler of a marker that exists has
  captured a circle; `PreviewInv` that a drag has a preview.
- `EditInv` is the strengthening of `UndoTakesBackOneDraw`, under its condition that no
  key was pressed during a drag. Consecutive states in the history are `OneDraw`
  apart: exactly one circle came or went, and the other kept its radius, wherever it
  was moved in between. The radius
  has to be in it because undo brings back an older state under the handler of a
  newer render, and `MoveKeepsRadius` needs that the radius this handler captured is
  still the circle's. That the circle being drawn is not on the map yet, the other
  part, is what a key during a drag breaks.
- `SearchInv`: one search at most is polled, the last one, and what is kept of
  results and errors is its, panel open or not. It rests on `handleSearch` refusing a
  second search while one is in flight, and on reset not ending that state.

`TupleGeneration_proofs` proves `RowsAreExact`, `RowsAreDistinct` and `LimitIsExact`
for any circumference, radius bound and limit and any airport files, graphs, hub lists
and requests of the right types. Its `IInv` says of each loop what it has built from
the elements before its index (`Near`, `PairsBefore`, `RoutedBefore`, `RowsBefore`) and
that the slice repeats nothing; a loop that is through leaves the same statement for
its whole input, on which the next one builds. TLC found `IInv` to hold on
the instance of `tuples` before it was proved.

- One lemma per loop body (`KeepTurn`, `PairTurn`, `RouteTurn`, `RowTurn`) over two
  lemmas about lists without repetition (`AppendSet`, `ConcatSet`). The pairs repeat
  nothing because the origins and the destinations do not, which is what `seen` is
  for; the rows, because the routed pairs do not and the dates of a pair are different.
- `InsideByAngle`: the shorter of the two ways round is at most the radius exactly
  when some number of steps up to the radius leads there, up or down; so a circle that
  crosses the antimeridian, or closes on itself, is no exception.
- `RoutedNeighbours`: `reachableViaHub` asks about routes in each direction leg by leg,
  which is the same as a common neighbour among the hubs other than the two ends.
- `RowsReference` puts them together at the end of the last loop, and `CountSet` turns
  "repeats nothing" into cardinalities, which `LimitExact` speaks of.

Only model-checked: liveness (`RowsSettle`, `JobFinalized`, `SearchEnds`, `WaitReturns`,
`AllComeUp`, `SignalEnds`), which the prover does not reach: fairness is about ENABLED.

## 7. Not modelled

- Middleware (stateless: headers, logging, one session lookup per request), CSV
  loading (embedded data, the same at every request, an input of
  `TupleGeneration`), parsing of environment variables, mail senders (delivery is a
  choice in `SendMagicLink`), the Duffel adapter (only a test builds one; its error
  classes are those of `FareSearch`, without cache and fallback).
- Login pages and the account pill: forms over the endpoints `MagicLink` models,
  each with one request and its outcome as state.
- The circuit breaker of ADR-007, which the code does not have.
- Floating point: rounding of the haversine, pixel to kilometre conversion.
- River's leader election, backoff times, and its own cleaner of old entries; the
  rescuer acting on an entry whose worker is merely slow (`Rescue` waits until no
  slot holds it).
- Contents of fares, error texts, layout. `ClaimNextResult` and `EnqueueJob` have
  no caller.
