# Huntsman Recon: a TLA+ model of its stateful core

Huntsman Recon is a Rust program for Termux and Linux that collects public
information about a target, saves it as *scans*, and serves them to a browser.
Most of its 250 000 lines are collectors and parsers that compute a report from a
response and keep no state. This project models the parts that do keep state and
share it between threads, processes and restarts: the scan service and its store,
the recursive crawl, the continuous collection, the task-graph executor, the rate
limiter and the pool of lookup threads, the circuit breakers, and the event hub of
the server.

The modules are checked with TLC on small instances. For the properties that
matter most, TLAPS proves them for every value of the constants.

## Inventory

Paths are relative to `src/src/`.

| Component | State it keeps | Operations | Hard behaviour | What makes it correct |
| --- | --- | --- | --- | --- |
| Scan service, `scan_service.rs` | `State {running, aborts, graph_cancellations, status_failures}` under a mutex, `owned_scans`, worker slots, `LookupAdmission` | `start`, `start_or_join`, `run`, `keep`, `stop`, `delete`, the worker (`execute`, `collect`, `save`, `release`) | a stop against the last status write; places, slots and permits on every failing path; waits on condition variables; events after the unlock | ended rows stay ended, stops are honoured, FINISHED means results are saved, limits hold, every scan settles |
| Scan store, `scan_store.rs`, `fsio.rs` | one directory per scan: row, results, log | `create`, `update`, `get`, `delete`, `recover`, `reconcile` | files written in several steps, a process that dies between them, threads of several processes on one directory without a lock | a live scan is left alone, a dead one does not seem to run, a deleted one does not come back running, the store stays bounded |
| Task-graph executor, `graph_exec.rs` | task records, budget, rate history, checkpoint | `validate`, `execute`, `resume`, `run_one` | waves of threads, retries, provider intervals, cancel, deadline, resume after a crash | dependencies first, budget kept over resumes, exclusive resources, truthful termination, an end |
| Circuit breakers, `circuit.rs`, `fetch.rs` | a bounded table of hosts | `allow_host`, `record_success`, `record_failure`, `record_rate_limited` | answers in another order than requests, times read earlier, probes that never report | a failing host is paused, a pause ends, a requested pause is respected |
| Event hub, `serve_events.rs`, `stream_events` in `web_server.rs` | a ring of events, a cursor per connection | `publish`, `subscribe`, `recv` | slow connections, `notify_all` outside the lock | nothing is missed silently, repeated or stuck |
| Recursive crawl, `recursion.rs`, `termination.rs` | a frontier by generation, visited targets, entities, budgets | fill and dispatch a wave, reduce it, expand, checkpoint, terminate | a stop at any moment, budgets at their limit, findings that repeat, a collector that answers too little | every target once, bounds kept, nothing lost unreported, at most a wave unsaved |
| Rate limiter, `rate_limit.rs` | a window of send times, a block | `acquire_within`, `block_for`, `set_limit` | threads that wait while the limit changes | at most `limit` sends in a window, a pause is everyone's |
| Job pool, `concurrent.rs`, with the requests of `hibp/client.rs` | slots, results, an atomic index | `all`, `pair`, `get_json` | refused threads, panicking jobs, retried 429s | every job once, the call returns |
| Continuous collection, `cli/continuous.rs`, `scan_alert.rs`, `scan_retention.rs` | alert history, a report per target and the one before it; in memory what was normalised and what is backed off | one cycle: collect, alert, retain, normalise | decisions on rows read earlier, evidence edited in mid-analysis, restarts | baselines survive, alerts are decided once, reports are true and come to the latest evidence |
| Nominatim, `nominatim.rs` | a cache and the time of the last request | `get_with_state` | none: one mutex spans the whole request | one request per second |
| Web server and API, HTTP and egress, keys, collectors, evidence, analysis, core primitives, radio, documents, exports, CLI, diagnostics, tools | none shared, or a file with a single writer | parse, compute, render | none a model checker reaches better than a unit test | their own tests |

How they interact: the CLI, the web API and the continuous loop call the scan
service, and several such processes may share one store. Its workers crawl in waves
of lookups. A lookup may split into jobs on threads of its own, whose keyed requests
share a rate limiter; every lookup fetches through the circuit breakers. Committed
statuses go to the event hub, which feeds the open `/api/events` connections. A wave of
several lookups is one run of the task-graph executor, whose tasks are independent
lookups and whose cancel flag is the scan's; dependencies, intervals and checkpoints are
there for other callers of the library.

`PROJECT.json` lists every component, and under `hazards` each of the hard
behaviours with the line it is at.

## Modules

| Module | Models | Checked by | Proved in |
| --- | --- | --- | --- |
| `ScanService` | scan service and store, one process at a time | `MCScanService`, `scan_*.cfg` | `ScanServiceProofs` |
| `ScanLife`, `ScanRefinement` | what a client may see of a scan, and the mapping under which `ScanService` implements it | `MCScanService`, `scan_row.cfg` | `ScanServiceProofs` |
| `ScanStore` | one store directory, several processes | `MCScanStore`, `store_*.cfg` | `ScanStoreProofs` |
| `Recursion` | a crawl | `MCRecursion`, `crawl_bounds.cfg` | `RecursionProofs` |
| `Continuous` | the cycle of `serve` and of `scans cycle` | `MCContinuous`, `continuous_cycle.cfg` | `ContinuousProofs` |
| `GraphExec` | `execute_inner`, `run_one`, checkpoints, resume | `MCGraphExec`, `graph_resume.cfg` | `GraphExecProofs` |
| `GraphOrder` | `GraphDefinition::validate` | `MCOrderAndBreakers`, `order_and_breakers.cfg` | `GraphOrderProofs` |
| `CircuitBreaker` | breakers and the fetches that share them | `MCOrderAndBreakers`, `order_and_breakers.cfg` | `CircuitBreakerProofs` |
| `RateLimiter`, `LookupPool` | the limiter, and the threads of `all` and `pair` that make requests under it | `MCHubAndPool`, `hub_and_pool.cfg` | `HubAndPoolProofs` |
| `EventHub` | the ring, its publishers and connections | `MCHubAndPool`, `hub_and_pool.cfg` | `HubAndPoolProofs` |

`MC*` modules only name small constants and symmetry sets; `MCHubAndPool` and
`MCOrderAndBreakers` also put two independent components into one specification, of
which one moves in a behaviour. The action constraint
`MCScanStore!LateThird` keeps the third process of `store_bounded` from starting before
the store is over its limit. Definitions whose name starts with `Mut` are plausible bugs;
nothing uses them unless one is put in the place of the definition below it, to see that
a property notices.

### ScanService

Each scan has one thread, and `pc[s]` says which part of `execute`, `collect`,
`save` and `release` it is in. A section under the `state` mutex is one step.
`stop()` is two (`StopReads`, `StopWrites`) holding the mutex between them,
because the spawn failure of `start()` writes the row without that mutex. File
operations outside the mutex are steps of their own, each of which may fail
(`Fault`, at most `MaxFaults` times). `Crash` kills the process: mutexed state and
threads are gone, rows and results stay; the next process runs `Recover` on each
row before it serves.

`asking`, `lookups` and `active` are a wave's lookups and the admission they share
with all scans. A lookup waiting for it leaves when the scan is stopped or, in a batch, at
its task's deadline; the model does not tell how long it waited, nor which waves of a
`WaveSize` above one are batches. A panicking lookup unwinds its worker through `release()`.
`pending` and `shown` are a committed status whose event is not published yet and
the last one published. Statuses, results and requests are members of small sets;
log lines, annotations and the content of results are left out. So are
`correlate()`, which rewrites annotations of a settled row, and `rerun()`, which is
`start()` with saved options.

### ScanLife and ScanRefinement

`ScanLife` is the contract without threads, locks, faults and restarts: a scan is
created active, may be asked to stop, ends once, ends finished only if its results
are saved and nobody's stop came first, and stays as it ended until it is removed.
`ScanRefinement` maps the rows, results, delivered stops and deletions of
`ScanService` to it. The run `scan_row` checks that every step, faults and crashes
included, is one of `ScanLife` or invisible to a client.

### ScanStore

Several processes on one directory, without a lock between them: a step is one file
operation, or one look whether a process lives, and what a call read in one step may
be stale in the next. A process opens the store (`recover`) with its main thread, then
the threads of its connections (`Clients`, `Of`) make calls at the same time (`create`,
`record`, `delete`, the last two through `reconcile`) while workers save and finish its
scans. It may die anywhere. Of the locks within a process only create's is needed;
`record()` and `records()` take none. `records()` is a call of `record()` for each row it
lists.

What a process can see of another is what `/proc` shows. `Sees[p]` are the processes
whose entry `p` can read; to `p` every other one reads as gone, a live one too. Without
`/proc`, `Sees` is empty. `Unstamped` are processes whose rows carry no
`owner_started`, of which only the entry's existence is asked. `Pid` gives two processes
one id, since ids are reused.

A listing takes its directories from one look and then reads row by row (`List`,
`ListRow`); a directory made meanwhile is not listed. Where an abort writes, making the
directory and renaming the row into it are two steps, because the directory may be gone.
A worker's writes are one step: nobody deletes its directory under it, unless its process
is hidden, and what that leads to is excluded below.

Opening fails as a whole when a row disappears under `recover`, or when the store
holds more than `MAX_SCANS` directories, which racing creators can bring about; it
works again once a scan is deleted by a process that is already open.

### Recursion

The loop of `run` over generations and `CrawlState::step` target by target: the stop
flag and the budgets are looked at where the code does, a wave is filled, collected,
reduced, and shown to `progressed()`. What a lookup finds is any short sequence of
entities; what an entity leads to is a parameter. The collector may return too few
results for a wave or too many (`normalize_batch`). `LossBounded` counts from
the last call of `progressed()`: a checkpoint whose write fails is retried with the next
wave, and until then more than a wave is unsaved. Confidence, edges and the wording
of outcomes are left out, and a wave may close early (`may_batch`).

The code's loops over a list that change the crawl are a `Fold`: a seed list into the
frontier (`PushAll`), the entities of a result (`TakeEntity`), the candidates of an
entity (`QueueExpansion`). `into_queue` deals the kinds out in rounds; `IntoQueue` says
where that puts each target: by its number within its kind, then by where its kind
first appears (`Place`).

### Continuous

One controller, as the docs ask: `serve`'s loop (Background) or a `scans cycle` of a
job scheduler (Foreground), killed at any step at most `MaxCrashes` times. `records`
is the list a cycle works from. Whether a cadence has passed is a free choice. A
report is the scan and the revision it names, and the revision the analysis really
saw (`seen`); `previous` is its `.previous.json`. The operator starts, edits and
deletes scans at any time, `MaxActs` times. A deletion removes file by file; here it is
one step, and `record_alerts` reading between two of those files, when the row is there
and the results are not, is `Skipped`: no decision, and retention goes on. A deletion
that is itself killed half-way, and leaves such a row for good, is left out.

### GraphExec and GraphOrder

`phase` is where the loop of `execute_inner` is: the top, the sweep of tasks whose
dependencies failed, the choice of a wave task by task in topological order
(`Consider`), the wait for a provider, the wave, its reduction, the checkpoint.
`job[t]` is `run_one` of a task in the wave: attempts interleave, may time out,
fail, retry or exceed the output limits. Time is three abstract facts: the run's
deadline has passed (`late`), an attempt overran (`HandlerTimesOut`), and a
provider's interval still runs (`cooling`). `remembered` and `savedRate` are the
provider starts the process and the checkpoint know of; only `cooling` is what
really happened. Outputs are sizes, 0 for none.

`GraphOrder` is `validate`'s sort, over *every* dependency graph of `N` tasks as
an initial state. `GraphExec` assumes of its `Order` what `GraphOrder` establishes
(`GraphValid`). The limits on a task's other fields, all of them early refusals
without state, are left out.

One thing seen while modelling: the branch of the resume that makes a retryable
failure with attempts left pending again (`graph_exec.rs:1317`) is not reached
from a checkpoint the executor writes itself, since a retryable failure is
recorded only when its attempts are spent. It serves checkpoints resumed with a
graph of the same fingerprint from elsewhere.

### CircuitBreaker

A fetch reads the clock (`Call`), asks its host's breaker (`Send`, `Suppress`) and
reports its final outcome with the time it read at first. It may also end in an
error of its own, which reports nothing (`Errs`). `used` is the order of use that
decides which entry makes room. `quota` remembers the pause a host is owed: the one
it asked for while no other request to it was under way, until a table without a
closed breaker has to forget the host. Redirects, bodies and headers are left out.

### RateLimiter and LookupPool

`RateLimiter` has the sections under the limiter's mutex, with instants kept as ages
and times left. `LookupPool` has the threads of one `all` or `pair` call: the caller
spawns until the OS refuses, workers claim jobs by the shared index, a panic is caught
and resumed by the caller. A job is one request of `HibpClient::get_json`: it asks
the limiter if it is keyed, sends, and on a 429 blocks everyone and goes round again
within its retries. Meanwhile a subscription answer may change the limit.

### EventHub

An event is its sequence number. `publish` is two steps, since `notify_all` comes
after the unlock (`unnotified` counts publishers between them). A connection runs,
sleeps in `wait_timeout` or is away. `since`, `got` and `told` are the history of
what it was sent.

## Runs

Bounds are constants of the modules, marked "bound" where they are declared. Several
properties are conjunctions of named parts, each with its own comment. The types of a
module are checked as part of one of its properties, or proved only (`ScanService`,
`GraphOrder`, `CircuitBreaker`).

| Run | Instance | Shows |
| --- | --- | --- |
| `scan_shared` | 2 scans of one request, 1 place, 1 worker slot, waves of 2 lookups on 1 permit; start, join, run and stop, failing spawns, panics, 1 store fault | what scans share: `PlacesCounted`, `AdmissionCounted`, `WorkersKept` (threads within their slots, lookups within their places, no id to join without a worker) |
| `scan_row` | 1 scan, 2 waves, all calls, 2 store faults, 2 crashes | what becomes of a row: the refinement `ImplementsLife`, `GivenUpRowReported`, `LastEventIsRow` |
| `scan_settles` | 2 scans of one request, 1 place, 2 slots, 1 store fault, stops | `OneScanPerRequest`; `ScansSettle` (liveness): `Settles` if lookups return, `StopFreesWaiter` although they hang |
| `store_shared` | 1 scan, 3 processes, one hidden from another, two of one id in turn, one without a start time; 4 threads, all of which may be in a call | `LiveUntouched`, `BackOnlyEnded`, `ReadsTrue` |
| `store_bounded` | 3 scans in a store of 1, 2 processes, one with two threads, 2 calls at once; a third process opens the store once it is over its limit | `StoreKept` (`StoreBounded`) |
| `crawl_bounds` | 5 targets of 2 kinds, 2 generations, waves of 2, 4 dispatches, 4 entities, a frontier of 3, a stop | `DispatchesKept` (each target once, within the budget), `FindingsKept` (`NothingLost` at the end, `LossBounded` by a crash), `KindsInTurn`, `NoneAfterStop`, and `StopReported` (liveness) |
| `continuous_cycle` | 1 target, 3 scans of which 1 is kept, a history of 1 decision, 1 act of the operator, 1 crash | `BaselineKept`, `ComparedKept`, `AlertsKept`, `ReportTrue`, `PreviousKept`, and `ReportSettles` (liveness) |
| `graph_resume` | 4 tasks, a join, a shared file, a shared provider, a retry, a budget that does not cover all, 2 crashes, a cancel | `LimitsKept` (budget, outputs, exclusive resources), `DependenciesFirst`, `OwnCheckpointAccepted`, `TerminationTrue`, `SavedSuccessKept`, `Spaced`, and `RunsEnd` (liveness): `Ends` if intervals pass, `StopEnds` although they do not |
| `order_and_breakers` | all graphs of 3 tasks and an unknown name; 3 hosts in a table of 2, 2 fetches | `Counted`, `DependenciesOrdered`, `CycleFound`; `BreakersKept` (`ClosedIsHealthy`, `PauseBounded`), `QuotaHeld` |
| `hub_and_pool` | 2 connections, a buffer of 2, 3 events; 3 jobs, 2 of them keyed, on 2 threads, a window of 2, limits none, 2 and 1, pauses within and beyond what a job sits out | `StreamTrue` (`NoSilentLoss`, `InOrder`), `Delivered` (liveness); `JobsKept` (`EveryJobOnce`), `GrantsKept` (`WindowKept`, `PauseKept`), `CallReturns` (liveness) |

Why the bounds are enough for the questions asked. Scans interact only through
counters, the gate, the join and the shared admission: two scans on one place, one
slot and one permit reach the limit of each. What happens to a row concerns one
scan; two store faults are one for an operation and one for its clean-up, and two
crashes let a recovery itself be interrupted. In the
store, what becomes of one scan is a race of calls about that scan: only the room for
new ones is shared. One scan with four threads therefore shows every way of touching a
live one, two processes' threads against it and a process that is hidden or has a reused
id. Three scans in a store of one are enough for two calls to overfill it together, and
for an opening to abort one scan while the next is deleted. A crawl
needs two kinds for its turns, two generations for what was found to come back, and
one target more than any of its budgets. Retention and alerts of one target do not
see another target's; three scans are the two an alert compares and one that is
deleted or begins meanwhile, and a history of one makes its trimming happen. Four
tasks give a join with a task beside it; the resource limits are set so that not
everything fits. Two fetches are enough for one to report late, three hosts are one
more than the table holds, three events overrun a buffer of two, and three jobs on
two threads make one thread claim again while the other is paused.

Two runs show where the code and what it says of itself differ. TLC finds the
behaviour; `findings` in `PROJECT.json` quotes the lines.

| Run | What happens |
| --- | --- |
| `scan_spawn_race` | `EndedIsFinal`: `start()` cannot spawn, gives the id up and writes ERROR-FAILED without the state mutex; a `stop()` that already read the CREATED row replaces it by ABORT-REQUESTED, and nobody is left to settle it |
| `store_finished` | `FinishedKept`: a process reads a row as RUNNING; its owner saves FINISHED and exits; the process finds the owner gone and writes ABORTED over the finished scan |

Other disagreements met on the way. Each is what the model does when a precondition
of a property is dropped, or the other reading of a comment:

- After a panicking lookup, `release()` marks the row only if it can read it
  (`scan_service.rs:1414`); a read that fails there leaves it RUNNING with no worker
  and no recorded failure, which the comment at 1406 rules out. So `scan_row` has no
  panics, and no failing spawns because of `scan_spawn_race`; `scan_shared` has both
  and leaves the properties of a row out.
- A spawn failure whose own update fails (`scan_service.rs:1184`) leaves a CREATED row
  that nobody owns and nothing reports; `scan_row` has no failing spawns, so
  `GivenUpRowReported` does not speak of it.
- A process that another cannot see in `/proc` reads as gone (`scan_store.rs:961-972`, as
  the comment there says), so its live scan may be aborted, deleted, and brought back
  running by its worker. Without `/proc` this is so for every process. `LiveUntouched`,
  `BackOnlyEnded` and the bound are therefore about scans whose owner is `Shown`: in sight
  of every process of another id. `ReadsTrue` needs no such condition.
- `stop()` commits ABORT-REQUESTED without an event, while the comment at
  `scan_service.rs:845` says every committed change is published. `LastEventIsRow`
  therefore speaks of ends.
- With two fetches of one host under way, a late success closes the breaker a rate
  limit opened, and the next request leaves before the reset, against
  `changelog.d/github-rate-limit-pacing.fixed.md`. `QuotaHeld` is for a host asked by
  one request at a time.
- A process killed between `create_dir` and the first row leaves a directory that
  counts towards the limit and is listed "so it can still be seen and deleted"
  (`scan_store.rs:554`), but the service's `delete` reads the row first and answers
  NotFound.
- A crawl whose frontier refused targets and then ran empty ends as `FixedPoint` with
  `truncated` set, although "a bound is never mislabelled as convergence"
  (`recursion.rs:843`); and one whose last frontier holds only targets dispatched
  already ends as `MaxDepth`. `NothingLost` rests on `truncated`.
- When the operator deletes a target's newest scan after it was normalised, the
  older scan is already in `observed`: the deleted scan's report stays current until
  a restart. If the older report is derived again, `.previous.json` may be a copy of
  it. `PreviousKept` and `ReportSettles` exclude such targets. They also take the
  controller's own writes to succeed: a revision that is unreadable once marks a
  report stale, and while its scan is in `observed` it is not derived again.
- `scans alert` appends to the history the controller reads, without a lock, and its
  entry counts as the controller's decision.
- `Spaced` is about the runs of one process: provider starts are checkpointed between
  waves, so a process killed inside one forgets that wave's starts, and a resumed run
  may start the provider inside its interval.

### Fairness

- `ScanService!FairSpec`: a thread that can take a step takes it, and calls under
  way return (the OS scheduler). Weak fairness is enough: once a worker was woken,
  its step stays enabled or another thread's does. `Settles` names what else it
  needs, that lookups return (`LookupFairness`: each source client runs under a
  deadline); `StopFreesWaiter` does without. Clients, crashes and faults have no
  fairness.
- `GraphExec!FairSpec`: threads run, handlers return (they are given their
  attempt's deadline), a dead process is started again. `Ends` adds that provider
  intervals pass (`IntervalFairness`); `StopEnds` does without. The run deadline is
  never assumed to pass.
- `Recursion!Spec`: the crawl is one thread that runs on; each lookup returns by its
  own deadline. A stop is never assumed.
- `Continuous!Spec`: the controller is started again and its thread runs on, scans
  end (`Settles` of `ScanService`), back-offs expire. Nothing is assumed of the
  operator, who can act only `MaxActs` times.
- `LookupPool`, in `MCHubAndPool!BothSpec`: threads run and time passes. Nothing is
  assumed of the provider: `CallReturns` holds though every request is answered with
  a 429.
- `EventHub`, in `MCHubAndPool!BothSpec`: publishers finish `notify_all` and
  connections run. No wait is assumed to time out, so `Delivered` rests on the notification alone.

## Proofs

The constants are arbitrary under the modules' named assumptions: finite sets of
scans, limits that are positive, a breaker whose failure count saturates no lower
than its threshold. The constants marked "bound" are arbitrary too: a proof speaks of
any number of crashes, faults and calls. TLC evaluates the assumptions in every run.

Each module proves one inductive invariant. Its lemmas come in two kinds: what an
operator returns, and, per action or per kind of action, what a step does to each
part of the invariant. The theorems then follow from the invariant alone.

**`ScanServiceProofs`.** First `TypeCorrect`, `PlacesAreCounted`,
`AdmissionIsCounted`. The counters are unsigned and decremented without a check, so
that they are naturals is the same fact as that they count something: types and
counts are one induction. `Counts` adds `WavesOnly`: only a scan in a wave asks for
or runs lookups, and the lookup it asks for next is not one already admitted.
Without that, admitting a lookup might add nothing to the set and one to the counter.

On top of it an invariant of each scan (`ScanOK`: where its worker may be, given its
row, its place, its stop, a delete and its last event), which other scans' steps
leave alone except that they may let it through the gate (`Same`). From it:

- `WorkersAreKept` and `RequestsShareOneScan`, with every fault, panic, failing spawn
  and crash;
- `LastEventsAreRows`, `EndsAreFinal` and `ServiceImplementsLife` if no spawn fails
  (`NoSpawnFailure`). The assumption is needed: `scan_spawn_race` is what happens
  without it. `ServiceImplementsLife` is the refinement of `ScanLife`: each action
  maps to one of the contract's steps for its scan, or to a stutter; lookups may
  panic;
- `GivenUpRowsAreReported` if lookups do not panic either (`NoPanic`), because of the
  unreadable row in `release()` described above.

**`ScanStoreProofs`.** `LiveScansUntouched`, `DeletedStayEnded`, `StoreStaysBounded`,
and the action property `RecordsReadTrue`, for any number of processes and threads, any
`Sees`, reused ids and processes without a start time. Nothing is assumed of `Sees`; the
first three speak of the scans whose maker is `Shown`. The invariant relates what a
call has read (`call[c].seen`) to what may have become of the scan meanwhile: what a call
is about to abort belongs to a dead process and has no worker (`SeenOK`, `AbortOK`),
unless its maker is not shown, and an active row left by a dead process of one's own id
is one that opening has still to abort (`LeftOver`). The bound counts the directories
together with the calls that are about to make one or bring one back (`RoomOK`); there
are at most `MaxCalls`, for any value of it, several of them in one process.

**`GraphExecProofs`.** `RunsKeepLimits`, `DependenciesRunFirst`,
`OwnCheckpointsAreAccepted`, `TerminationsAreTrue`, and the action properties
`SavedSuccessesAreKept` and `StartsAreSpaced`, for any graph `GraphValid` admits and
any number of crashes. The invariant has a part for the records (`RunOK`), the
checkpoint (`SavedOK`), what both say was spent (`PaidOK`), the wave being chosen
(`SelectOK`, `WaveOK`), its threads (`JobOK`, `JobsOK`), the provider intervals
(`CoolOK`) and the end (`EndOK`). Units spent and output kept are sums over tasks,
stated as the cardinality of a set with as many elements for each task (`Total`), so
that the library's facts about finite sets apply to them.

**`GraphOrderProofs`.** `IndegreesCount`, `OrderIsTopological`, `CyclesAreFound`,
for graphs of any size. The invariant adds to the counted indegrees that no member
of a set in which everyone depends on another member has been placed
(`NoCyclePlaced`), and what each verdict implies. If the sort stops early, the
tasks not placed are themselves such a set; so the answer is exact in both
directions. The popped task exists because a non-empty set of naturals has a least
element.

**`ContinuousProofs`.** `NewestSurviveRetention`, `ComparedSurviveRetention`,
`AlertsAreDecidedOnce`, `ReportsAreTrue`, `PreviousReportsAreKept`, for any targets,
scans, limits, acts of the operator and crashes, with `normalise_all` or without. The
steps are sorted into ten kinds by what they do to the cycle, and one relation
(`Moves`) says what any of them may do to the scans. The parts of the invariant:

- `ListOK`: what a list says of ended scans stays true however old it is;
- `PlanOK`: a scan that retention deleted or is about to is `Superseded`: its target
  has a newer scan, and if it finished, a newer finished one whose alert is decided or
  which the operator deleted. A target passed without a decision (`Skipped`) had one of
  the two scans deleted by the operator, since retention comes after the decisions.
  That is why retention may work from an old list, and it is what fails if retention
  follows an unrecorded decision;
- `AlertOK`: the history is the end of all decisions, and what was decided since it
  was read is of targets already passed. So a scan that is not in it was decided, if
  ever, more than its length ago;
- `JobOK`, `LatestOK`, `ReportsOK`: what a cycle normalises is no older than the last
  report of its target, and strictly newer, in scan or in revision, by the time it is
  written. Hence a report is never replaced by an equal one, which would make
  `.previous.json` a copy of the current report.

**`RecursionProofs`.** `TargetsAreLookedUpOnce`, `FindingsAreKept`, `KindsTakeTurns`, and
the action property `NothingStartsAfterStop`, for any targets, kinds, findings, seeds and
bounds. The invariant has a part for the order of the phases (`Phase`), the wave and what
was spent on it (`WaveOK`), what a killed process loses (`LossOK`), what the crawl still
holds (`KeptOK`) and the next frontier (`KindsOK`). Two of them say more than the
properties. `WaveOK`: until a stop, `visited` is exactly what was dispatched or is in the
wave. A target that the spent budget cut off is marked visited too, and is saved only
because the frontier keeps it, which is `KeptOK`'s "a visited target is held".
`KindsOK` says what `full_for` grants while the frontier is filled; `KindsInTurn` needs it
in the order of dispatch.

Loops are reasoned about without induction. The function a `Fold` computes exists, since
otherwise there were a shortest prefix for which it does not (`FoldCarries`), and what
holds at the start and is kept by each element holds at the end (`FoldStays`).
`IntoQueue` is shown to be a permutation (`IntoQueueKeeps`): `Place` numbers the targets
without gaps, because "goes before" is a total order (`BeforeOrders`, `PlacesTaken`). In
that order whatever is taken before a kind's n-th target is of round n or earlier, so
no other kind is more than one ahead of it (`TurnsAreTaken`).

**`HubAndPoolProofs`.** Of the hub, `StreamsAreTrue`, for any buffer and any connections:
the ring is the last events published (`RingOK`), and a connection was sent, told about
or has still ahead of it every event since it subscribed (`Covered`, `Ascending`). Of the
pool, `JobsRunOnce` and the action property `GrantsAreWithinLimits`. The window keeps
ages, oldest first, so what popping expired ones from the front leaves is a suffix
(`InWindow`), which begins at the least position not expired (`FirstInWindow`). In this
form the prover needs no induction.

**`CircuitBreakerProofs`.** `BreakersAreKept`, for any hosts, fetches and orders of
reports. The invariant adds that no fetch carries a time from the future. A late or
unreported probe therefore cannot shut a host out.
The action property `QuotasAreHeld` needs two more parts: each known host has one place
in the order of use (`RecencyOK`), and a host that is owed a pause has a breaker that is
not closed and waits as long, with no request under way whose answer could end it
(`QuotaOK`). The host that makes room for another is closed, and then is owed nothing,
or no breaker is (`VictimIs`).

Only model-checked:

- liveness and the fairness it rests on, since the prover does not reason about
  `ENABLED`: `ScansSettle`, `RunsEnd`, `StopReported`, `Delivered`, `CallReturns`,
  `ReportSettles`.

Every other property of the passing runs is a theorem.

## Plan

Left, the most important first:

1. `ResponseCache` of `circuit.rs` and the limit on event streams.
2. The commands that write the alert history beside the controller.
3. The scan log and its overflow file; `correlate()` against a concurrent delete.

## Not modelled

Collectors, parsers, codecs, scoring, reports and exports are sequential functions
of their input: their unit tests reach what a model would. HTTP, TLS and egress
checks are I/O and string validation. The browser page is not modelled; it polls
the scans beside its event stream, so events published between two connections
delay it and lose nothing. `xtask`, scripts and workflows are not part of the
running program.
