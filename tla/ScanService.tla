----------------------------- MODULE ScanService -----------------------------
(***************************************************************************)
(* The life of saved scans under one ScanService: src/scan_service.rs over  *)
(* the rows of src/scan_store.rs.                                           *)
(*                                                                         *)
(* Every scan is worked on by one thread: a spawned worker (start,          *)
(* start_or_join), or the caller's own (run, keep).  pc[s] is where that    *)
(* thread is.  Clients stop and delete scans meanwhile, the process may be  *)
(* killed and restarted, and any single store operation may fail.           *)
(*                                                                         *)
(* A section under the `state` mutex is one step.  The exception is stop(): *)
(* it reads the row in one step and writes it in the next, holding the      *)
(* mutex (`stopping`) in between, because start()'s spawn failure writes    *)
(* the row without the mutex.  File operations outside the mutex are steps  *)
(* of their own.                                                            *)
(***************************************************************************)
EXTENDS Naturals, FiniteSets

CONSTANTS
    Scans,              \* the ids the run may mint (scan_store::new_id)
    TargetOf,           \* the request (target, kind, options) an id is for
    NoScan,             \* "no scan" in `stopping`
    MAX_RUNNING,        \* scans that may hold a place at once
    MAX_SCAN_WORKERS,   \* live scan threads
    MAX_ACTIVE_LOOKUPS, \* lookups admitted at once, over all scans
    WaveSize,           \* lookups one wave dispatches (recursion.rs MAX_BATCH)
    MaxWaves,           \* bound: waves per scan
    MaxFaults,          \* bound: store operations that fail
    MaxCrashes,         \* bound: times the process is killed
    Environment         \* the calls clients make and the failures that happen

ASSUME ScansFinite == IsFiniteSet(Scans) /\ NoScan \notin Scans
ASSUME LimitsPositive ==
    /\ {MAX_RUNNING, MAX_SCAN_WORKERS, MAX_ACTIVE_LOOKUPS, WaveSize} \subseteq Nat \ {0}
    /\ {MaxWaves, MaxFaults, MaxCrashes} \subseteq Nat

\* Beside the calls of the service: the OS refuses a thread, a sequential lookup
\* panics.
ASSUME EnvironmentKnown ==
    Environment \subseteq {"start", "start_or_join", "run", "keep", "stop", "delete",
                           "spawn fails", "lookup panics"}

VARIABLES
    row,            \* the saved row's status, "NONE" when there is no row
    results,        \* what results.json holds
    origin,         \* the call that minted the id
    pc,             \* where the scan's thread is
    verdict,        \* the status collect() decided on, before it is saved
    running,        \* State.running
    aborts,         \* State.aborts
    cancel,         \* State.graph_cancellations
    statusFailures, \* State.status_failures
    owned,          \* owned_scans
    permits,        \* outstanding ScanWorkerPermits (worker_slots counts them)
    stopping,       \* the scan whose stop() holds the state mutex
    asking,         \* lookups of the scan's wave waiting for admission
    lookups,        \* outstanding LookupPermits: a scan and a lookup of its wave
    active,         \* LookupAdmission.active
    ran,            \* ScanCollector.ran > 0
    waves,          \* waves dispatched so far
    deleting,       \* where delete() of the scan is
    pending,        \* a committed status whose event is not published yet
    shown,          \* the status the last event of the scan carried
    phase,          \* "recovering" while a new process sweeps the store
    orphans,        \* scans of a process that is gone
    stopped,        \* history: scans a stop() was delivered to
    faults, crashes \* history: failures so far

store    == <<row, results>>
mutexed  == <<running, aborts, cancel, statusFailures>>
crawling == <<asking, lookups, active, ran, waves>>
events   == <<pending, shown>>
process  == <<phase, orphans, crashes>>
vars == <<store, origin, pc, verdict, mutexed, owned, permits, stopping, crawling,
          deleting, events, process, stopped, faults>>

ActiveStatus == {"CREATED", "STARTING", "RUNNING", "ABORT-REQUESTED"}
EndedStatus  == {"ABORTED", "FINISHED", "ERROR-FAILED"}
Status       == ActiveStatus \cup EndedStatus

\* ScanStatus::is_active
IsActive(status) == status \in ActiveStatus

Points ==
    {"none", "spawn", "spawnFailed", "starting", "gate", "parked", "collect",
     "run", "options", "crawl", "wave", "checkpoint", "checkpointRow", "save",
     "saveRow", "decide", "finish", "release", "inspect", "giveUp", "forget",
     "notify", "ended", "keepSave", "keepRow", "keepFinish", "keepFail"}

KeepPoints == {"keepSave", "keepRow", "keepFinish", "keepFail"}

\* Where execute() holds one of the MAX_RUNNING places.
PlacePoints ==
    {"collect", "run", "options", "crawl", "wave", "checkpoint", "checkpointRow",
     "save", "saveRow", "decide", "finish", "release"}

\* Where a worker thread lives.
WorkerPoints ==
    PlacePoints \cup {"starting", "gate", "parked", "inspect", "giveUp", "forget", "notify"}

TypeOK ==
    /\ row \in [Scans -> Status \cup {"NONE"}]
    /\ results \in [Scans -> {"none", "checkpoint", "final"}]
    /\ origin \in [Scans -> {"none", "start", "join", "run", "keep"}]
    /\ pc \in [Scans -> Points]
    /\ verdict \in [Scans -> EndedStatus \cup {"NONE"}]
    /\ running \in Nat
    /\ aborts \subseteq Scans
    /\ cancel \in [Scans -> {"absent", "clear", "set"}]
    /\ statusFailures \subseteq Scans
    /\ owned \subseteq Scans
    /\ permits \subseteq Scans
    /\ stopping \in Scans \cup {NoScan}
    /\ asking \in [Scans -> 0..WaveSize]
    /\ lookups \subseteq Scans \X (1..WaveSize)
    /\ active \in Nat
    /\ ran \in [Scans -> BOOLEAN]
    /\ waves \in [Scans -> 0..MaxWaves]
    /\ deleting \in [Scans -> {"no", "removing", "cleanup", "asked"}]
    /\ pending \in [Scans -> Status \cup {"NONE"}]
    /\ shown \in [Scans -> Status \cup {"NONE"}]
    /\ phase \in {"serving", "recovering"}
    /\ orphans \subseteq Scans
    /\ stopped \subseteq Scans
    /\ faults \in 0..MaxFaults
    /\ crashes \in 0..MaxCrashes

Init ==
    /\ row = [s \in Scans |-> "NONE"]
    /\ results = [s \in Scans |-> "none"]
    /\ origin = [s \in Scans |-> "none"]
    /\ pc = [s \in Scans |-> "none"]
    /\ verdict = [s \in Scans |-> "NONE"]
    /\ running = 0
    /\ aborts = {}
    /\ cancel = [s \in Scans |-> "absent"]
    /\ statusFailures = {}
    /\ owned = {}
    /\ permits = {}
    /\ stopping = NoScan
    /\ asking = [s \in Scans |-> 0]
    /\ lookups = {}
    /\ active = 0
    /\ ran = [s \in Scans |-> FALSE]
    /\ waves = [s \in Scans |-> 0]
    /\ deleting = [s \in Scans |-> "no"]
    /\ pending = [s \in Scans |-> "NONE"]
    /\ shown = [s \in Scans |-> "NONE"]
    /\ phase = "serving"
    /\ orphans = {}
    /\ stopped = {}
    /\ faults = 0
    /\ crashes = 0

-----------------------------------------------------------------------------
(* Shared pieces of the handlers.                                            *)

Serving == phase = "serving"

\* The state mutex is free: no stop() is between its read and its write.
StateFree == Serving /\ stopping = NoScan

\* A store operation fails with an I/O error.
Fault   == faults < MaxFaults /\ faults' = faults + 1
NoFault == UNCHANGED faults

\* An operation on the scan's row does not go through: there is no row, or an
\* I/O error.
Refused(s) == Fault \/ (row[s] = "NONE" /\ NoFault)

\* The scan's thread is at `point`, its last event published.
At(s, point) == Serving /\ pc[s] = point /\ pending[s] = "NONE"

Goto(s, point) == pc' = [pc EXCEPT ![s] = point]

\* Mutant: nobody is woken.
MutWoken == pc

\* freed.notify_all() of set_status_with, release and stop: every worker parked at the
\* gate looks again.
Woken == [t \in Scans |-> IF pc[t] = "parked" THEN "gate" ELSE pc[t]]

\* A transition set_status_with ignores: the row has ended, or a stop is pending.
Ignored(s, status) ==
    \/ ~IsActive(row[s])
    \/ /\ status \in {"STARTING", "RUNNING"}
       /\ row[s] = "ABORT-REQUESTED" \/ s \in aborts

\* What is written: a scan asked to stop never reads FINISHED.
Written(s, status) ==
    IF status = "FINISHED" /\ s \in aborts THEN "ABORTED" ELSE status

\* Mutant: the event carries the status asked for, not the one written.
MutStatusSaved(s, status) ==
    /\ row[s] # "NONE"
    /\ IF Ignored(s, status)
         THEN UNCHANGED <<row, statusFailures, pending>>
         ELSE /\ row' = [row EXCEPT ![s] = Written(s, status)]
              /\ statusFailures' = statusFailures \ {s}
              /\ pending' = [pending EXCEPT ![s] = status]
    /\ NoFault

\* set_status_with when the store answers: only a committed write clears an
\* earlier failure, and its event is published once the mutex is released.
StatusSaved(s, status) ==
    /\ row[s] # "NONE"
    /\ IF Ignored(s, status)
         THEN UNCHANGED <<row, statusFailures, pending>>
         ELSE /\ row' = [row EXCEPT ![s] = Written(s, status)]
              /\ statusFailures' = statusFailures \ {s}
              /\ pending' = [pending EXCEPT ![s] = Written(s, status)]
    /\ NoFault

\* Mutant: the failure is returned but not remembered.
MutStatusLost(s) ==
    /\ Refused(s)
    /\ UNCHANGED <<row, pending, statusFailures>>

\* set_status_with when the row is missing, or cannot be read or written.
StatusLost(s) ==
    /\ Refused(s)
    /\ statusFailures' = statusFailures \cup {s}
    /\ UNCHANGED <<row, pending>>

\* collect() returns or unwinds, and its locals are gone.
DropLocals(s) ==
    /\ verdict' = [verdict EXCEPT ![s] = "NONE"]
    /\ ran' = [ran EXCEPT ![s] = FALSE]
    /\ waves' = [waves EXCEPT ![s] = 0]

\* set_status: go on at `saved` or, waking every waiter, at `lost`.
SetStatus(s, status, saved, lost) ==
    /\ StateFree
    /\ \/ StatusSaved(s, status) /\ Goto(s, saved)
       \/ StatusLost(s) /\ pc' = [Woken EXCEPT ![s] = lost]
    /\ UNCHANGED <<results, shown>>

\* The hub learns a committed status after the mutex is released.
Publish(s) ==
    /\ Serving
    /\ pending[s] # "NONE"
    /\ shown' = [shown EXCEPT ![s] = pending[s]]
    /\ pending' = [pending EXCEPT ![s] = "NONE"]
    /\ UNCHANGED <<store, origin, pc, verdict, mutexed, owned, permits, stopping,
                   crawling, deleting, process, stopped, faults>>

-----------------------------------------------------------------------------
(* Starting a scan.                                                          *)

Fresh(s) == Serving /\ pc[s] = "none" /\ origin[s] = "none"

\* reserve_worker
SlotFree == Cardinality(permits) < MAX_SCAN_WORKERS

\* create(): the id is owned before its CREATED row is saved, and given up
\* again when the row cannot be saved.
Create(s, how, point) ==
    /\ Fresh(s)
    /\ origin' = [origin EXCEPT ![s] = how]
    /\ \/ /\ row' = [row EXCEPT ![s] = "CREATED"]
          /\ owned' = owned \cup {s}
          /\ Goto(s, point)
          /\ NoFault
       \/ /\ Goto(s, "ended")
          /\ Fault
          /\ UNCHANGED <<row, owned>>
    /\ UNCHANGED <<results, verdict, mutexed, stopping, crawling, deleting, events,
                   process, stopped>>

\* start(): the permit is reserved before the row is saved.
Start(s) ==
    /\ "start" \in Environment
    /\ SlotFree
    /\ Create(s, "start", "spawn")
    /\ permits' = IF s \in owned' THEN permits \cup {s} ELSE permits

\* run(): on the caller's thread, with no permit.
Run(s) == "run" \in Environment /\ Create(s, "run", "starting") /\ UNCHANGED permits

\* Mutant: a scan whose thread never came stays owned.
MutSpawnRefused(s) ==
    /\ Goto(s, "spawnFailed")
    /\ permits' = permits \ {s}
    /\ UNCHANGED owned

\* The first half of start()'s spawn failure: the closure with the permit is
\* dropped and the id given up.
SpawnRefused(s) ==
    /\ Goto(s, "spawnFailed")
    /\ permits' = permits \ {s}
    /\ owned' = owned \ {s}

Spawn(s) ==
    /\ At(s, "spawn")
    /\ \/ Goto(s, "starting") /\ UNCHANGED <<owned, permits>>
       \/ "spawn fails" \in Environment /\ SpawnRefused(s)
    /\ UNCHANGED <<store, origin, verdict, mutexed, stopping, crawling, deleting,
                   events, process, stopped, faults>>

\* The second half: the row is replaced without the state mutex.
SpawnFailed(s) ==
    /\ At(s, "spawnFailed")
    /\ Goto(s, "ended")
    /\ \/ row[s] # "NONE" /\ row' = [row EXCEPT ![s] = "ERROR-FAILED"] /\ NoFault
       \/ row' = row /\ Refused(s)
    /\ UNCHANGED <<results, origin, verdict, mutexed, owned, permits, stopping,
                   crawling, deleting, events, process, stopped>>

\* The rows start_or_join may hand to a second request.
Joinable(s) ==
    /\ IsActive(row[s])
    /\ s \notin orphans
    /\ s \in owned
    /\ s \notin statusFailures

\* Mutant: only a scan already running is found.
MutNothingToJoin(s) ==
    \A t \in Scans : TargetOf[t] = TargetOf[s] => ~(Joinable(t) /\ row[t] = "RUNNING")

\* start_or_join's search finds no scan of the same target, kind and options.
NothingToJoin(s) == \A t \in Scans : TargetOf[t] = TargetOf[s] => ~Joinable(t)

\* start_or_join(): the mutex is held from the search to the start, so both
\* are one step; a request that finds a scan to join changes nothing.
StartOrJoin(s) ==
    /\ "start_or_join" \in Environment
    /\ StateFree
    /\ Fresh(s)
    /\ NothingToJoin(s)
    /\ SlotFree
    /\ origin' = [origin EXCEPT ![s] = "join"]
    /\ \/ /\ row' = [row EXCEPT ![s] = "CREATED"]
          /\ owned' = owned \cup {s}
          /\ permits' = permits \cup {s}
          /\ Goto(s, "starting")
          /\ NoFault
       \/ /\ Fault                       \* the row cannot be saved
          /\ Goto(s, "ended")
          /\ UNCHANGED <<row, owned, permits>>
       \/ /\ "spawn fails" \in Environment                \* no thread: ERROR-FAILED, if it can be saved
          /\ Goto(s, "ended")
          /\ \/ row' = [row EXCEPT ![s] = "ERROR-FAILED"] /\ NoFault
             \/ row' = [row EXCEPT ![s] = "CREATED"] /\ Fault
          /\ UNCHANGED <<owned, permits>>
    /\ UNCHANGED <<results, verdict, mutexed, stopping, crawling, deleting, events,
                   process, stopped>>

-----------------------------------------------------------------------------
(* The worker: execute() and collect().                                      *)

Starting(s) ==
    /\ At(s, "starting")
    /\ SetStatus(s, "STARTING", "gate", "inspect")
    /\ UNCHANGED <<origin, verdict, running, aborts, cancel, owned, permits, stopping,
                   crawling, deleting, process, stopped>>

\* A scan asked to stop passes the gate whatever the count.
MustWait(s) == running >= MAX_RUNNING /\ s \notin aborts

Gate(s) ==
    /\ At(s, "gate")
    /\ StateFree
    /\ \/ /\ MustWait(s)
          /\ Goto(s, "parked")
          /\ UNCHANGED running
       \/ /\ ~MustWait(s)
          /\ Goto(s, "collect")
          /\ running' = running + 1
    /\ UNCHANGED <<store, origin, verdict, aborts, cancel, statusFailures, owned, permits,
                   stopping, crawling, deleting, events, process, stopped, faults>>

\* collect(): a scan stopped while it waited is ABORTED without a lookup.
Collect(s) ==
    /\ At(s, "collect")
    /\ StateFree
    /\ IF s \in aborts
         THEN Goto(s, "finish") /\ verdict' = [verdict EXCEPT ![s] = "ABORTED"]
         ELSE Goto(s, "run") /\ UNCHANGED verdict
    /\ UNCHANGED <<store, origin, mutexed, owned, permits, stopping, crawling, deleting,
                   events, process, stopped, faults>>

\* Mutant: an early return of collect() skips giving the place back.
MutSetRunning(s) ==
    /\ At(s, "run")
    /\ SetStatus(s, "RUNNING", "options", "inspect")
    /\ UNCHANGED <<origin, verdict, running, aborts, cancel, owned, permits, stopping,
                   crawling, deleting, process, stopped>>

SetRunning(s) ==
    /\ At(s, "run")
    /\ SetStatus(s, "RUNNING", "options", "release")
    /\ UNCHANGED <<origin, verdict, running, aborts, cancel, owned, permits, stopping,
                   crawling, deleting, process, stopped>>

\* The saved options are read back; a scan whose row cannot be read fails
\* rather than running with default options.
LoadOptions(s) ==
    /\ At(s, "options")
    /\ \/ row[s] # "NONE" /\ NoFault /\ Goto(s, "crawl") /\ UNCHANGED verdict
       \/ /\ Refused(s)
          /\ Goto(s, "finish")
          /\ verdict' = [verdict EXCEPT ![s] = "ERROR-FAILED"]
    /\ UNCHANGED <<store, origin, mutexed, owned, permits, stopping, crawling, deleting,
                   events, process, stopped>>

\* Before each wave the crawl asks cancelled().  A wave registers the scan's
\* cancellation flag, already set if a stop came first, and dispatches lookups.
Crawl(s) ==
    /\ At(s, "crawl")
    /\ StateFree
    /\ \/ /\ Goto(s, "save")            \* stopped, or nothing left to look up
          /\ UNCHANGED <<cancel, asking, waves>>
       \/ /\ s \notin aborts
          /\ waves[s] < MaxWaves
          /\ Goto(s, "wave")
          /\ waves' = [waves EXCEPT ![s] = @ + 1]
          /\ cancel' = [cancel EXCEPT ![s] = IF @ = "absent" THEN "clear" ELSE @]
          /\ \E n \in 1..WaveSize : asking' = [asking EXCEPT ![s] = n]
    /\ UNCHANGED <<store, origin, verdict, running, aborts, statusFailures, owned, permits,
                   stopping, lookups, active, ran, deleting, events, process, stopped, faults>>

\* The permits the scan's wave holds.
InFlight(s) == {l \in lookups : l[1] = s}

\* LookupAdmission::acquire.  The lookups of a batch also leave at their task's deadline;
\* whether a wave of this size is a batch, and how long it has waited, is not told apart.
Acquire(s) ==
    /\ At(s, "wave")
    /\ asking[s] > 0
    /\ \/ /\ cancel[s] = "set" \/ WaveSize > 1
          /\ UNCHANGED <<lookups, active>>
       \/ /\ cancel[s] = "clear"
          /\ active < MAX_ACTIVE_LOOKUPS
          /\ active' = active + 1
          /\ lookups' = lookups \cup {<<s, asking[s]>>}
    /\ asking' = [asking EXCEPT ![s] = @ - 1]
    /\ UNCHANGED <<store, origin, pc, verdict, mutexed, owned, permits, stopping, ran,
                   waves, deleting, events, process, stopped, faults>>

\* A lookup returns, with a report or without one, and drops its permit.
LookupReturns(s) ==
    /\ At(s, "wave")
    /\ \E i \in 1..WaveSize :
         /\ <<s, i>> \in lookups
         /\ lookups' = lookups \ {<<s, i>>}
    /\ active' = active - 1
    /\ \E reported \in BOOLEAN : ran' = [ran EXCEPT ![s] = @ \/ reported]
    /\ UNCHANGED <<store, origin, pc, verdict, mutexed, owned, permits, stopping, asking,
                   waves, deleting, events, process, stopped, faults>>

\* One lookup under way: the sequential path, whose panics are not caught before
\* execute().
Sequential(s) == asking[s] = 0 /\ InFlight(s) = {<<s, 1>>}

\* Mutant: a panic leaks the lookup's permit.
MutPanicLeaksPermit(s) ==
    /\ At(s, "wave")
    /\ Sequential(s)
    /\ lookups' = lookups \ {<<s, 1>>}
    /\ Goto(s, "release")
    /\ DropLocals(s)
    /\ UNCHANGED <<store, origin, mutexed, owned, permits, stopping, asking, active, deleting,
                   events, process, stopped, faults>>

\* A sequential lookup panics: unwinding drops the permit, execute() catches it.
LookupPanics(s) ==
    /\ "lookup panics" \in Environment
    /\ At(s, "wave")
    /\ Sequential(s)
    /\ active' = active - 1
    /\ lookups' = lookups \ {<<s, 1>>}
    /\ Goto(s, "release")
    /\ DropLocals(s)
    /\ UNCHANGED <<store, origin, mutexed, owned, permits, stopping, asking, deleting, events,
                   process, stopped, faults>>

\* progressed(): a wave that added nothing is not checkpointed.
WaveDone(s) ==
    /\ At(s, "wave")
    /\ asking[s] = 0 /\ InFlight(s) = {}
    /\ \E next \in {"checkpoint", "crawl"} : Goto(s, next)
    /\ UNCHANGED <<store, origin, verdict, mutexed, owned, permits, stopping, crawling,
                   deleting, events, process, stopped, faults>>

-----------------------------------------------------------------------------
(* save(): the results without the mutex, then the row's counts under it.    *)

\* A failed checkpoint is logged and the crawl goes on; a failed final save
\* ends the scan ERROR-FAILED.
SaveFailed(s) ==
    \/ /\ pc[s] \in {"checkpoint", "checkpointRow"}
       /\ Goto(s, "crawl") /\ UNCHANGED verdict
    \/ /\ pc[s] \in {"save", "saveRow"}
       /\ Goto(s, "finish") /\ verdict' = [verdict EXCEPT ![s] = "ERROR-FAILED"]
    \/ /\ pc[s] \in {"keepSave", "keepRow"}
       /\ Goto(s, "keepFail") /\ UNCHANGED verdict

SaveResults(s) ==
    /\ \E point \in {"checkpoint", "save", "keepSave"} : At(s, point)
    /\ \/ /\ row[s] # "NONE"
          /\ results' = [results EXCEPT ![s] =
                           IF pc[s] = "checkpoint" THEN "checkpoint" ELSE "final"]
          /\ Goto(s, CASE pc[s] = "checkpoint" -> "checkpointRow"
                       [] pc[s] = "save"       -> "saveRow"
                       [] pc[s] = "keepSave"   -> "keepRow")
          /\ NoFault
          /\ UNCHANGED verdict
       \/ /\ Refused(s)
          /\ SaveFailed(s)
          /\ UNCHANGED results
    /\ UNCHANGED <<row, origin, mutexed, owned, permits, stopping, crawling, deleting,
                   events, process, stopped>>

\* The row is read again under the mutex, so its status is not overwritten.
SaveRow(s) ==
    /\ \E point \in {"checkpointRow", "saveRow", "keepRow"} : At(s, point)
    /\ StateFree
    /\ \/ /\ row[s] # "NONE"
          /\ Goto(s, CASE pc[s] = "checkpointRow" -> "crawl"
                       [] pc[s] = "saveRow"       -> "decide"
                       [] pc[s] = "keepRow"       -> "keepFinish")
          /\ NoFault
          /\ UNCHANGED verdict
       \/ /\ Refused(s)
          /\ SaveFailed(s)
    /\ UNCHANGED <<store, origin, mutexed, owned, permits, stopping, crawling, deleting,
                   events, process, stopped>>

\* The status a saved crawl ends with.
Outcome(s) ==
    IF s \in aborts THEN "ABORTED" ELSE IF ran[s] THEN "FINISHED" ELSE "ERROR-FAILED"

Decide(s) ==
    /\ At(s, "decide")
    /\ StateFree
    /\ verdict' = [verdict EXCEPT ![s] = Outcome(s)]
    /\ Goto(s, "finish")
    /\ UNCHANGED <<store, origin, mutexed, owned, permits, stopping, crawling, deleting,
                   events, process, stopped, faults>>

Finish(s) ==
    /\ At(s, "finish")
    /\ SetStatus(s, verdict[s], "release", "release")
    /\ DropLocals(s)
    /\ UNCHANGED <<origin, running, aborts, cancel, owned, permits, stopping, asking, lookups,
                   active, deleting, process, stopped>>

-----------------------------------------------------------------------------
(* release(): the worker's last steps.                                       *)

ReleasePlace(s) ==
    /\ At(s, "release")
    /\ StateFree
    /\ running' = running - 1
    /\ Goto(s, "inspect")
    /\ UNCHANGED <<store, origin, verdict, aborts, cancel, statusFailures, owned, permits,
                   stopping, crawling, deleting, events, process, stopped, faults>>

\* The row is read without the mutex; one that cannot be read is taken as ended.
Inspect(s) ==
    /\ At(s, "inspect")
    /\ \/ Goto(s, IF IsActive(row[s]) THEN "giveUp" ELSE "forget") /\ NoFault
       \/ Goto(s, "forget") /\ Fault
    /\ UNCHANGED <<store, origin, verdict, mutexed, owned, permits, stopping, crawling,
                   deleting, events, process, stopped>>

GiveUp(s) ==
    /\ At(s, "giveUp")
    /\ SetStatus(s, "ERROR-FAILED", "forget", "forget")
    /\ UNCHANGED <<origin, verdict, running, aborts, cancel, owned, permits, stopping,
                   crawling, deleting, process, stopped>>

Forget(s) ==
    /\ At(s, "forget")
    /\ StateFree
    /\ aborts' = aborts \ {s}
    /\ cancel' = [cancel EXCEPT ![s] = "absent"]
    /\ owned' = owned \ {s}
    /\ Goto(s, "notify")
    /\ UNCHANGED <<store, origin, verdict, running, statusFailures, permits, stopping,
                   crawling, deleting, events, process, stopped, faults>>

\* notify_all after the mutex; a worker thread then ends and drops its permit.
Notify(s) ==
    /\ At(s, "notify")
    /\ pc' = [Woken EXCEPT ![s] = "ended"]
    /\ permits' = permits \ {s}
    /\ UNCHANGED <<store, origin, verdict, mutexed, owned, stopping, crawling, deleting,
                   events, process, stopped, faults>>

-----------------------------------------------------------------------------
(* keep(): a report made elsewhere, saved on the caller's thread.            *)

Keep(s) ==
    /\ "keep" \in Environment
    /\ Fresh(s)
    /\ origin' = [origin EXCEPT ![s] = "keep"]
    /\ \/ row' = [row EXCEPT ![s] = "RUNNING"] /\ Goto(s, "keepSave") /\ NoFault
       \/ row' = row /\ Goto(s, "ended") /\ Fault
    /\ UNCHANGED <<results, verdict, mutexed, owned, permits, stopping, crawling, deleting,
                   events, process, stopped>>

KeepEnds(s) ==
    /\ \/ At(s, "keepFinish") /\ SetStatus(s, "FINISHED", "ended", "ended")
       \/ At(s, "keepFail") /\ SetStatus(s, "ERROR-FAILED", "ended", "ended")
    /\ UNCHANGED <<origin, verdict, running, aborts, cancel, owned, permits, stopping,
                   crawling, deleting, process, stopped>>

-----------------------------------------------------------------------------
(* The clients.                                                              *)

\* Mutant: a scan that has ended but is not yet given up can be stopped.
MutStoppable(s) == row[s] # "NONE" /\ s \in owned

\* stop()'s checks: the row is active, this process's, and owned by this service.
Stoppable(s) == IsActive(row[s]) /\ s \notin orphans /\ s \in owned

\* stop(), up to its last check.  Repeating a stop that is already saved changes
\* nothing.
StopReads(s) ==
    /\ "stop" \in Environment
    /\ StateFree
    /\ Stoppable(s) /\ row[s] # "ABORT-REQUESTED"
    /\ stopping' = s
    /\ UNCHANGED <<store, origin, pc, verdict, mutexed, owned, permits, crawling, deleting,
                   events, process, stopped, faults>>

\* The rest of stop(): the abort is delivered and every waiter woken even if
\* the request cannot be saved.
StopWrites(s) ==
    /\ Serving
    /\ stopping = s
    /\ stopping' = NoScan
    /\ aborts' = aborts \cup {s}
    /\ cancel' = [cancel EXCEPT ![s] = IF @ = "clear" THEN "set" ELSE @]
    /\ pc' = Woken
    /\ stopped' = stopped \cup {s}
    /\ \/ row[s] # "NONE" /\ row' = [row EXCEPT ![s] = "ABORT-REQUESTED"] /\ NoFault
       \/ row' = row /\ Refused(s)
    /\ UNCHANGED <<results, origin, verdict, running, statusFailures, owned, permits,
                   crawling, deleting, events, process>>

\* delete(), up to its last check: the row has ended, or cannot be read and
\* no worker of this service owns it.
DeleteBegins(s) ==
    /\ "delete" \in Environment
    /\ Serving
    /\ deleting[s] \in {"no", "asked"}
    /\ \/ row[s] \in EndedStatus /\ NoFault
       \/ row[s] # "NONE" /\ s \notin owned /\ Fault
    /\ deleting' = [deleting EXCEPT ![s] = "removing"]
    /\ UNCHANGED <<store, origin, pc, verdict, mutexed, owned, permits, stopping, crawling,
                   events, process, stopped>>

\* remove_dir_all: one file at a time, in the directory's order; it may fail
\* half-way.
DeleteRemoves(s) ==
    /\ Serving
    /\ deleting[s] = "removing"
    /\ \/ /\ results[s] # "none"
          /\ results' = [results EXCEPT ![s] = "none"]
          /\ NoFault
          /\ UNCHANGED <<row, deleting>>
       \/ /\ row[s] # "NONE"
          /\ row' = [row EXCEPT ![s] = "NONE"]
          /\ NoFault
          /\ UNCHANGED <<results, deleting>>
       \/ /\ row[s] = "NONE" /\ results[s] = "none"
          /\ deleting' = [deleting EXCEPT ![s] = "cleanup"]
          /\ NoFault
          /\ UNCHANGED store
       \/ /\ Fault
          /\ deleting' = [deleting EXCEPT ![s] = "asked"]
          /\ UNCHANGED store
    /\ UNCHANGED <<origin, pc, verdict, mutexed, owned, permits, stopping, crawling, events,
                   process, stopped>>

DeleteForgets(s) ==
    /\ StateFree
    /\ deleting[s] = "cleanup"
    /\ deleting' = [deleting EXCEPT ![s] = "asked"]
    /\ owned' = owned \ {s}
    /\ statusFailures' = statusFailures \ {s}
    /\ UNCHANGED <<store, origin, pc, verdict, running, aborts, cancel, permits, stopping,
                   crawling, events, process, stopped, faults>>

-----------------------------------------------------------------------------
(* The process is killed; the next one sweeps the store before it serves.    *)

Crash ==
    /\ crashes < MaxCrashes
    /\ crashes' = crashes + 1
    /\ phase' = "recovering"
    /\ orphans' = {s \in Scans : origin[s] # "none"}
    /\ pc' = [s \in Scans |-> IF origin[s] = "none" THEN "none" ELSE "ended"]
    /\ running' = 0
    /\ active' = 0
    /\ aborts' = {} /\ statusFailures' = {} /\ owned' = {} /\ permits' = {}
    /\ cancel' = [s \in Scans |-> "absent"]
    /\ stopping' = NoScan
    /\ asking' = [s \in Scans |-> 0]
    /\ lookups' = {}
    /\ deleting' = [s \in Scans |-> IF deleting[s] = "no" THEN "no" ELSE "asked"]
    /\ pending' = [s \in Scans |-> "NONE"]
    /\ shown' = [s \in Scans |-> "NONE"]
    /\ verdict' = [s \in Scans |-> "NONE"]
    /\ ran' = [s \in Scans |-> FALSE]
    /\ waves' = [s \in Scans |-> 0]
    /\ UNCHANGED <<store, origin, stopped, faults>>

\* A row recover() marks.
LeftActive(s) == IsActive(row[s])

\* ScanStore::recover on one row.
Recover(s) ==
    /\ phase = "recovering"
    /\ LeftActive(s)
    /\ row' = [row EXCEPT ![s] = "ABORTED"]
    /\ UNCHANGED <<results, origin, pc, verdict, mutexed, owned, permits, stopping, crawling,
                   deleting, events, process, stopped, faults>>

\* recover() is over; a row it could not read was skipped.
Recovered ==
    /\ phase = "recovering"
    /\ \/ (\A s \in Scans : ~LeftActive(s)) /\ NoFault
       \/ (\E s \in Scans : LeftActive(s)) /\ Fault
    /\ phase' = "serving"
    /\ UNCHANGED <<store, origin, pc, verdict, mutexed, owned, permits, stopping, crawling,
                   deleting, events, orphans, crashes, stopped>>

\* ScanStore::reconcile, from record(), records(), stop() and delete(): a row
\* whose process is gone is ABORTED when it is read.
Reconcile(s) ==
    /\ Serving
    /\ s \in orphans
    /\ IsActive(row[s])
    /\ row' = [row EXCEPT ![s] = "ABORTED"]
    /\ UNCHANGED <<results, origin, pc, verdict, mutexed, owned, permits, stopping, crawling,
                   deleting, events, process, stopped, faults>>

-----------------------------------------------------------------------------
WorkerStep(s) ==
    \/ Spawn(s) \/ SpawnFailed(s) \/ Starting(s) \/ Gate(s) \/ Collect(s) \/ SetRunning(s)
    \/ LoadOptions(s) \/ Crawl(s) \/ Acquire(s) \/ WaveDone(s) \/ SaveResults(s)
    \/ SaveRow(s) \/ Decide(s) \/ Finish(s) \/ ReleasePlace(s) \/ Inspect(s) \/ GiveUp(s)
    \/ Forget(s) \/ Notify(s) \/ KeepEnds(s) \/ Publish(s)

LookupStep(s) == LookupReturns(s) \/ LookupPanics(s)

ClientStep(s) ==
    \/ Start(s) \/ Run(s) \/ StartOrJoin(s) \/ Keep(s) \/ StopReads(s) \/ DeleteBegins(s)
    \/ Reconcile(s)

\* A client's call that is under way.
CallStep(s) == StopWrites(s) \/ DeleteRemoves(s) \/ DeleteForgets(s)

\* Every id has been used and nothing is under way.
Idle ==
    /\ StateFree
    /\ \A s \in Scans : pc[s] = "ended" /\ deleting[s] \in {"no", "asked"}
    /\ UNCHANGED vars

Next ==
    \/ \E s \in Scans :
         WorkerStep(s) \/ LookupStep(s) \/ ClientStep(s) \/ CallStep(s) \/ Recover(s)
    \/ Recovered
    \/ Crash
    \/ Idle

Spec == Init /\ [][Next]_vars

\* Threads run: a worker that can take a step does, a call under way returns, and
\* a new process finishes its sweep.  Lookups are the network's; clients are free.
ThreadFairness ==
    /\ \A s \in Scans :
         /\ WF_vars(WorkerStep(s))
         /\ WF_vars(StopWrites(s))
         /\ WF_vars(DeleteRemoves(s) \/ DeleteForgets(s))
         /\ WF_vars(Recover(s))
    /\ WF_vars(Recovered)

\* While lookups are under way, one returns: each source client runs under a deadline.
LookupFairness == WF_vars(\E s \in Scans : LookupStep(s))

FairSpec == Spec /\ ThreadFairness

-----------------------------------------------------------------------------
(* Properties.                                                               *)

\* running, counted up at the gate and down in release(), is the number of
\* scans that hold a place, whichever of execute()'s exits they take.
PlacesCounted ==
    running = Cardinality({s \in Scans : pc[s] \in PlacePoints})

\* At most MAX_RUNNING scans run lookups, although a scan stopped while it
\* waited passes the gate of execute() without regard to the count.
LookupsBounded ==
    Cardinality({s \in Scans : pc[s] = "wave"}) <= MAX_RUNNING

\* LookupAdmission.active is the number of lookups under way, never more than
\* MAX_ACTIVE_LOOKUPS: a permit is returned whether the lookup reports, fails, is
\* cancelled or panics.
AdmissionCounted ==
    /\ active = Cardinality(lookups)
    /\ active <= MAX_ACTIVE_LOOKUPS

\* When a scan's thread is gone and its row still reads active, wait() and
\* run() report why: the failure is kept in status_failures until a write
\* succeeds (release()'s comment: such a row can be neither stopped nor deleted).
GivenUpRowReported ==
    \A s \in Scans :
        pc[s] = "ended" /\ IsActive(row[s]) => s \in statusFailures \cup orphans

\* A row start_or_join may hand out has a thread that will still settle it, so
\* no joiner waits on a worker that never comes.
JoinableHasWorker ==
    \A s \in Scans : Joinable(s) => pc[s] \in {"spawn"} \cup (WorkerPoints \ {"notify"})

\* Two start_or_join requests for the same target, kind and options share one
\* scan: no two of theirs can be joined at once.
OneScanPerRequest ==
    \A s, t \in Scans :
        /\ origin[s] = "join" /\ origin[t] = "join"
        /\ TargetOf[s] = TargetOf[t]
        /\ Joinable(s) /\ Joinable(t)
        => s = t

\* No more scan threads live than MAX_SCAN_WORKERS, the queue at the gate
\* included: a permit is held from before the row exists until the thread ends.
WorkersBounded ==
    Cardinality({s \in Scans : origin[s] \in {"start", "join"} /\ pc[s] \in WorkerPoints})
        <= MAX_SCAN_WORKERS

\* Once a scan's thread is done, the last event a subscriber saw of it is the
\* status its row ended with.
LastEventIsRow ==
    \A s \in Scans :
        /\ pc[s] = "ended" /\ pending[s] = "NONE"
        /\ s \notin orphans
        /\ row[s] \in EndedStatus
        => shown[s] = row[s]

\* A scan that has ended keeps its status until it is deleted: no stop, status
\* write, recovery or reconciliation replaces it (stop()'s comment: "Otherwise a
\* stop could read RUNNING and replace a newly FINISHED row.").
EndedIsFinal ==
    [][\A s \in Scans : row[s] \in EndedStatus => row'[s] \in {row[s], "NONE"}]_row

\* If lookups return, every scan this service owns is settled or its failure
\* reported: no lost wake-up at the gate, no place or permit leaked by a failing path.
Settles ==
    LookupFairness =>
        \A s \in Scans :
            s \in owned /\ IsActive(row[s]) ~> ~IsActive(row[s]) \/ s \in statusFailures

\* A scan stopped while it waits for a place ends even if the lookups of the
\* scans before it never return: stop() wakes it and the gate lets it through.
StopFreesWaiter ==
    \A s \in Scans :
        s \in aborts /\ pc[s] \in {"starting", "gate", "parked"}
            ~> ~IsActive(row[s]) \/ s \in statusFailures

\* Threads and what they are handed, whatever fails on the way: no more scan threads
\* than slots, no more scans looking up than places, and no id to join without a worker.
WorkersKept == WorkersBounded /\ LookupsBounded /\ JoinableHasWorker

\* Every owned scan comes to its end, with lookups that return or, once stopped at the
\* gate, without.
ScansSettle == Settles /\ StopFreesWaiter
=============================================================================
