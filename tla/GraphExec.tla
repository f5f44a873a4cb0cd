------------------------------ MODULE GraphExec ------------------------------
(***************************************************************************)
(* One run of a task graph under GraphExecutor (src/graph_exec.rs): the     *)
(* scheduling loop of execute_inner, the threads of a wave (run_one), the   *)
(* checkpoints between waves, and resuming one after the process died.      *)
(*                                                                         *)
(* Time is abstract.  The run deadline may pass at any moment (`late`), an  *)
(* attempt may exceed its own deadline, and a rate group's interval since   *)
(* its newest start is running (`cooling`) until it has passed.             *)
(***************************************************************************)
EXTENDS Naturals, Sequences, FiniteSets

CONSTANTS
    Tasks,
    Order,                       \* ValidatedGraph.topological_order
    Deps,                        \* TaskSpec.dependencies
    Units,                       \* TaskSpec.resource_units
    Resources,                   \* TaskSpec.exclusive_resources
    RateKey,                     \* TaskSpec.rate_limit's key, or NoKey
    NoKey,
    MaxRetries,                  \* TaskSpec.max_retries
    max_concurrency,             \* ExecutionPolicy
    max_total_resource_units,
    MAX_DEPENDENCY_OUTPUT,       \* bounds on outputs, in units of size
    MAX_RUN_OUTPUT,
    MaxOutput,                   \* bound: the largest output a handler returns
    HasSink,                     \* execute_checkpointed rather than execute
    MayStop,                     \* the client may cancel the run
    MaxCrashes                   \* bound: times the process dies

ASSUME GraphValid ==
    /\ IsFiniteSet(Tasks)
    /\ Order \in Seq(Tasks)
    /\ Tasks = {Order[i] : i \in 1..Len(Order)}
    /\ Deps \in [Tasks -> SUBSET Tasks]
    /\ \A i, j \in 1..Len(Order) : Order[i] \in Deps[Order[j]] => i < j
    /\ \A i, j \in 1..Len(Order) : Order[i] = Order[j] => i = j
    /\ Units \in [Tasks -> Nat \ {0}]
    /\ DOMAIN Resources = Tasks
    /\ DOMAIN RateKey = Tasks
    /\ MaxRetries \in [Tasks -> Nat]

ASSUME PolicyValid ==
    /\ {max_concurrency, max_total_resource_units, MAX_RUN_OUTPUT, MaxOutput} \subseteq Nat \ {0}
    /\ {MAX_DEPENDENCY_OUTPUT, MaxCrashes} \subseteq Nat
    /\ {HasSink, MayStop} \subseteq BOOLEAN

VARIABLES
    phase,         \* where execute_inner is
    cursor,        \* the position of a loop over topological_order
    changed,       \* the sweep blocked a task
    rec,           \* records
    consumed,      \* resource units charged
    retained,      \* retained_output_bytes
    termination,
    selected,      \* the wave being chosen, run or reduced
    waveCost,
    overBudget,    \* budget_blocked
    overInput,     \* dependency_output_blocked
    waitFor,       \* the rate groups rate_wait_until stands for
    job,           \* run_one of each selected task
    cancelled,     \* the client's flag
    late,          \* the run deadline has passed
    cooling,       \* groups whose interval since their newest start runs
    remembered,    \* groups whose newest start last_rate_start holds
    saved,         \* the last checkpoint persisted
    savedRate,     \* groups whose newest start that checkpoint holds
    crashes        \* history: times the process died

loop  == <<cursor, changed, selected, waveCost, overBudget, overInput, waitFor>>
run   == <<rec, consumed, retained, termination>>
disk  == <<saved, savedRate>>
world == <<cancelled, late, crashes>>
vars  == <<phase, loop, run, job, cooling, remembered, disk, world>>

Keys == {RateKey[t] : t \in Tasks} \ {NoKey}

TaskState == {"Pending", "Succeeded", "Failed", "TimedOut", "Cancelled", "Blocked"}
Terminal  == TaskState \ {"Pending"}
RunTermination == {"Completed", "Failed", "Cancelled", "TimedOut", "ResourceLimit"}

Record == [state : TaskState, attempts : Nat, output : 0..MaxOutput, retryable : BOOLEAN]
NewRecord == [state |-> "Pending", attempts |-> 0, output |-> 0, retryable |-> FALSE]

\* A job is not there, about to start an attempt, in its handler, or done.
Job == [at : {"none", "ready", "running", "done"}, record : Record]
NoJob == [at |-> "none", record |-> NewRecord]

\* What a checkpoint keeps, beside the starts in savedRate.
Fresh ==
    [rec |-> [t \in Tasks |-> NewRecord], consumed |-> 0, termination |-> "Completed"]

TypeOK ==
    /\ phase \in {"top", "sweep", "select", "wait", "wave", "checkpoint", "finish", "final",
                  "done", "down"}
    /\ cursor \in 1..(Len(Order) + 1)
    /\ changed \in BOOLEAN
    /\ rec \in [Tasks -> Record]
    /\ consumed \in Nat /\ retained \in Nat /\ waveCost \in Nat
    /\ termination \in RunTermination
    /\ selected \in Seq(Tasks)
    /\ overBudget \subseteq Tasks /\ overInput \subseteq Tasks
    /\ waitFor \subseteq Keys
    /\ job \in [Tasks -> Job]
    /\ cancelled \in BOOLEAN /\ late \in BOOLEAN
    /\ cooling \subseteq Keys /\ remembered \subseteq Keys /\ savedRate \subseteq Keys
    /\ saved \in [rec : [Tasks -> Record], consumed : Nat, termination : RunTermination]
    /\ crashes \in 0..MaxCrashes

Init ==
    /\ phase = "top"
    /\ cursor = 1 /\ changed = FALSE
    /\ rec = Fresh.rec
    /\ consumed = 0 /\ retained = 0
    /\ termination = "Completed"
    /\ selected = <<>> /\ waveCost = 0
    /\ overBudget = {} /\ overInput = {} /\ waitFor = {}
    /\ job = [t \in Tasks |-> NoJob]
    /\ cancelled = FALSE /\ late = FALSE
    /\ cooling = {} /\ remembered = {}
    /\ saved = Fresh /\ savedRate = {}
    /\ crashes = 0

-----------------------------------------------------------------------------
\* The sum of the sizes of the tasks in `ts`, counted as a set with size[t] elements for
\* each task t, which the library's theorems about cardinalities apply to.
Total(size, ts) == Cardinality(UNION {{t} \X (1..size[t]) : t \in ts})

Outputs(records) == [t \in Tasks |-> records[t].output]
Attempted(records) == {t \in Tasks : records[t].attempts > 0}

Pending(t)   == rec[t].state = "Pending"
Succeeded(t) == rec[t].state = "Succeeded"
Failing(t)   == rec[t].state \in Terminal \ {"Succeeded"}

\* Every task of `ts` that is still pending ends in `state`.
EndPending(records, ts, state) ==
    [t \in Tasks |->
        IF t \in ts /\ records[t].state = "Pending" THEN [records[t] EXCEPT !.state = state]
                                                    ELSE records[t]]

AllTerminal == \A t \in Tasks : ~Pending(t)

TopDone ==
    /\ phase = "top"
    /\ AllTerminal
    /\ phase' = "finish"
    /\ UNCHANGED <<loop, run, job, cooling, remembered, disk, world>>

\* Cancelled, or past the run deadline: what was never dispatched is not run.
TopStopped ==
    /\ phase = "top"
    /\ ~AllTerminal
    /\ cancelled \/ late
    /\ LET why == IF cancelled THEN "Cancelled" ELSE "TimedOut"
       IN  /\ rec' = EndPending(rec, Tasks, why)
           /\ termination' = why
    /\ phase' = "finish"
    /\ UNCHANGED <<loop, consumed, retained, job, cooling, remembered, disk, world>>

TopSweep ==
    /\ phase = "top"
    /\ ~AllTerminal /\ ~cancelled /\ ~late
    /\ phase' = "sweep"
    /\ cursor' = 1 /\ changed' = FALSE
    /\ UNCHANGED <<selected, waveCost, overBudget, overInput, waitFor, run, job, cooling,
                   remembered, disk, world>>

\* A pending task one of whose dependencies ended without success is blocked.
Sweep ==
    /\ phase = "sweep"
    /\ cursor <= Len(Order)
    /\ LET t == Order[cursor]
           blocked == Pending(t) /\ \E d \in Deps[t] : Failing(d)
       IN  /\ rec' = IF blocked THEN EndPending(rec, {t}, "Blocked") ELSE rec
           /\ changed' = (changed \/ blocked)
    /\ cursor' = cursor + 1
    /\ UNCHANGED <<phase, selected, waveCost, overBudget, overInput, waitFor, consumed,
                   retained, termination, job, cooling, remembered, disk, world>>

SweepEnds ==
    /\ phase = "sweep"
    /\ cursor > Len(Order)
    /\ \/ changed /\ phase' = "top" /\ UNCHANGED loop
       \/ /\ ~changed
          /\ phase' = "select"
          /\ cursor' = 1
          /\ selected' = <<>> /\ waveCost' = 0
          /\ overBudget' = {} /\ overInput' = {} /\ waitFor' = {}
          /\ UNCHANGED changed
    /\ UNCHANGED <<run, job, cooling, remembered, disk, world>>

-----------------------------------------------------------------------------
(* Choosing a wave: tasks in topological order, while there is room.          *)

Wave == {selected[i] : i \in 1..Len(selected)}

\* Mutant: one dependency's success is enough.
MutReady(t) == Pending(t) /\ (Deps[t] = {} \/ \E d \in Deps[t] : Succeeded(d))

Ready(t) == Pending(t) /\ \A d \in Deps[t] : Succeeded(d)

OverBudget(t) == consumed + waveCost + Units[t] > max_total_resource_units

OverInput(t) == Total(Outputs(rec), Deps[t]) > MAX_DEPENDENCY_OUTPUT

\* The wave already holds one of the task's resources, or its rate group.
Conflict(t) ==
    \/ \E u \in Wave : Resources[u] \cap Resources[t] # {}
    \/ RateKey[t] # NoKey /\ \E u \in Wave : RateKey[u] = RateKey[t]

\* The group's interval runs, as far as last_rate_start knows.
Cooling(t) == RateKey[t] \in cooling \cap remembered

SelectOpen == cursor <= Len(Order) /\ Len(selected) < max_concurrency

Consider ==
    /\ phase = "select"
    /\ SelectOpen
    /\ cursor' = cursor + 1
    /\ LET t == Order[cursor]
           fits == ~OverBudget(t) /\ ~OverInput(t) /\ ~Conflict(t)
           admitted == Ready(t) /\ fits /\ ~Cooling(t)
       IN  /\ selected' = IF admitted THEN Append(selected, t) ELSE selected
           /\ waveCost' = IF admitted THEN waveCost + Units[t] ELSE waveCost
           /\ overBudget' = IF Ready(t) /\ OverBudget(t) THEN overBudget \cup {t} ELSE overBudget
           /\ overInput' = IF Ready(t) /\ ~OverBudget(t) /\ OverInput(t)
                             THEN overInput \cup {t} ELSE overInput
           /\ waitFor' = IF Ready(t) /\ fits /\ Cooling(t)
                           THEN waitFor \cup {RateKey[t]} ELSE waitFor
    /\ UNCHANGED <<phase, changed, run, job, cooling, remembered, disk, world>>

\* After the scan: tasks over a budget are blocked for good.
BudgetBlocked == EndPending(rec, overBudget \cup overInput, "Blocked")
AfterBudget == IF overBudget \cup overInput = {} THEN termination ELSE "ResourceLimit"

\* The wave is charged and its threads start.  (last_rate_start also takes the time of
\* dispatch here; an attempt replaces it, and a job stopped before one ends the run.)
Dispatch ==
    /\ phase = "select"
    /\ ~SelectOpen
    /\ selected # <<>>
    /\ rec' = BudgetBlocked
    /\ termination' = AfterBudget
    /\ consumed' = consumed + waveCost
    /\ job' = [t \in Tasks |-> IF t \in Wave THEN [NoJob EXCEPT !.at = "ready"] ELSE NoJob]
    /\ phase' = "wave"
    /\ UNCHANGED <<loop, retained, cooling, remembered, disk, world>>

\* Nothing to dispatch until a rate group's interval has passed.
BeginWait ==
    /\ phase = "select"
    /\ ~SelectOpen
    /\ selected = <<>> /\ waitFor # {}
    /\ rec' = BudgetBlocked
    /\ termination' = AfterBudget
    /\ phase' = "wait"
    /\ UNCHANGED <<loop, consumed, retained, job, cooling, remembered, disk, world>>

\* Nothing to dispatch at all: what is pending is blocked, and the loop ends.
NoFrontier ==
    /\ phase = "select"
    /\ ~SelectOpen
    /\ selected = <<>> /\ waitFor = {}
    /\ rec' = EndPending(BudgetBlocked, Tasks, "Blocked")
    /\ termination' =
         IF AfterBudget = "Completed" /\ \E t \in Tasks : BudgetBlocked[t].state = "Pending"
           THEN "Failed" ELSE AfterBudget
    /\ phase' = "finish"
    /\ UNCHANGED <<loop, consumed, retained, job, cooling, remembered, disk, world>>

\* Mutant: the wait does not look at the cancellation flag.
MutWaitDone == late \/ waitFor \ cooling # {}

\* wait_until_or_cancel returns.
WaitDone == cancelled \/ late \/ waitFor \ cooling # {}

EndWait ==
    /\ phase = "wait"
    /\ WaitDone
    /\ phase' = "top"
    /\ UNCHANGED <<loop, run, job, cooling, remembered, disk, world>>

-----------------------------------------------------------------------------
(* run_one, on a thread of its own.                                          *)

Working(t, at) == phase = "wave" /\ job[t].at = at

\* The attempts of the job and of the runs before it.
Attempts(t) == rec[t].attempts + job[t].record.attempts

JobEnds(t, record) == job' = [job EXCEPT ![t] = [at |-> "done", record |-> record]]

\* Before an attempt: the run was cancelled, or its deadline has passed, or no
\* attempt is left.
JobStops(t) ==
    /\ Working(t, "ready")
    /\ \/ cancelled /\ JobEnds(t, [job[t].record EXCEPT !.state = "Cancelled"])
       \/ late /\ ~cancelled /\ JobEnds(t, [job[t].record EXCEPT !.state = "TimedOut"])
       \/ /\ ~late /\ ~cancelled /\ Attempts(t) >= MaxRetries[t] + 1
          /\ JobEnds(t, [job[t].record EXCEPT !.state = "Failed"])
    /\ UNCHANGED <<phase, loop, run, cooling, remembered, disk, world>>

\* Mutant: a retry does not wait for its group's interval.
MutSpacedRetry(t) == TRUE

\* A retry waits for the interval since the attempt before it.
SpacedRetry(t) == job[t].record.attempts > 0 => RateKey[t] \notin cooling

\* The handler is called.
Attempt(t) ==
    /\ Working(t, "ready")
    /\ ~cancelled /\ ~late
    /\ Attempts(t) < MaxRetries[t] + 1
    /\ SpacedRetry(t)
    /\ job' = [job EXCEPT ![t].at = "running", ![t].record.attempts = @ + 1,
                          ![t].record.retryable = FALSE]
    /\ cooling' = cooling \cup ({RateKey[t]} \ {NoKey})
    /\ remembered' = remembered \ {RateKey[t]}
    /\ savedRate' = savedRate \ {RateKey[t]}
    /\ UNCHANGED <<phase, loop, run, saved, world>>

\* The handler returned an output that is accepted, which a stop does not discard.
HandlerSucceeds(t) ==
    /\ Working(t, "running")
    /\ ~late
    /\ \E size \in 1..MaxOutput :
         JobEnds(t, [job[t].record EXCEPT !.state = "Succeeded", !.output = size])
    /\ UNCHANGED <<phase, loop, run, cooling, remembered, disk, world>>

\* The attempt exceeded its deadline, whatever it returned (a success always, any
\* other result unless the run was cancelled), or there is no time for a retry.
HandlerTimesOut(t) ==
    /\ Working(t, "running")
    /\ \E transient \in BOOLEAN :
         /\ transient => ~cancelled /\ Attempts(t) < MaxRetries[t] + 1
         /\ JobEnds(t, [job[t].record EXCEPT !.state = "TimedOut", !.retryable = transient])
    /\ UNCHANGED <<phase, loop, run, cooling, remembered, disk, world>>

\* A malformed output, a permanent error or a panic; a transient error with no
\* attempt left; or any of them but the first when the run was cancelled.
HandlerFails(t) ==
    /\ Working(t, "running")
    /\ \/ ~late /\ JobEnds(t, [job[t].record EXCEPT !.state = "Failed"])
       \/ /\ ~cancelled /\ ~late
          /\ Attempts(t) >= MaxRetries[t] + 1
          /\ JobEnds(t, [job[t].record EXCEPT !.state = "Failed", !.retryable = TRUE])
       \/ cancelled /\ JobEnds(t, [job[t].record EXCEPT !.state = "Cancelled"])
    /\ UNCHANGED <<phase, loop, run, cooling, remembered, disk, world>>

\* A transient error with an attempt left: back to the top of the loop.
HandlerRetries(t) ==
    /\ Working(t, "running")
    /\ ~cancelled /\ ~late
    /\ Attempts(t) < MaxRetries[t] + 1
    /\ job' = [job EXCEPT ![t].at = "ready", ![t].record.retryable = TRUE]
    /\ UNCHANGED <<phase, loop, run, cooling, remembered, disk, world>>

-----------------------------------------------------------------------------
(* After the wave: results are reduced in the order of selection.            *)

FitsRun(size) == retained + size <= MAX_RUN_OUTPUT

\* The job's record, with the attempts made before it.
Merged(t) == [job[t].record EXCEPT !.attempts = @ + rec[t].attempts]

Reduce ==
    /\ phase = "wave"
    /\ selected # <<>>
    /\ \A t \in Wave : job[t].at = "done"
    /\ LET t == Head(selected)
           new == Merged(t)
           kept == new.state # "Succeeded" \/ FitsRun(new.output)
       IN  /\ rec' = [rec EXCEPT ![t] =
                        IF kept THEN new
                                ELSE [new EXCEPT !.state = "Failed", !.output = 0]]
           /\ retained' = IF kept THEN retained + new.output ELSE retained
           /\ termination' =
                CASE ~kept -> "ResourceLimit"
                  [] new.state \in {"TimedOut", "Cancelled"} -> new.state
                  [] new.state = "Failed" /\ termination = "Completed" -> "Failed"
                  [] OTHER -> termination
           /\ remembered' = IF job[t].record.attempts > 0 /\ RateKey[t] # NoKey
                              THEN remembered \cup {RateKey[t]} ELSE remembered
           /\ job' = [job EXCEPT ![t] = NoJob]
    /\ selected' = Tail(selected)
    /\ UNCHANGED <<phase, cursor, changed, waveCost, overBudget, overInput, waitFor, consumed,
                   cooling, disk, world>>

Reduced ==
    /\ phase = "wave"
    /\ selected = <<>>
    /\ phase' = IF HasSink THEN "checkpoint" ELSE "top"
    /\ UNCHANGED <<loop, run, job, cooling, remembered, disk, world>>

\* Mutant: the wave that was just reduced is not charged in the checkpoint.
MutSnapshot == [rec |-> rec, consumed |-> consumed - waveCost, termination |-> termination]

Snapshot == [rec |-> rec, consumed |-> consumed, termination |-> termination]

\* The sink persists the checkpoint and the run goes on, or it fails and nothing
\* more is dispatched.
Checkpoint ==
    /\ phase = "checkpoint"
    /\ \/ /\ saved' = Snapshot /\ savedRate' = remembered
          /\ phase' = "top"
          /\ UNCHANGED run
       \/ /\ rec' = EndPending(rec, Tasks, "Blocked")
          /\ termination' = "Failed"
          /\ phase' = "finish"
          /\ UNCHANGED <<consumed, retained, disk>>
    /\ UNCHANGED <<loop, job, cooling, remembered, world>>

\* Mutant: failures of an earlier process are not looked at.
MutDerived ==
    CASE \E t \in Tasks : rec[t].state = "TimedOut"  -> "TimedOut"
      [] \E t \in Tasks : rec[t].state = "Cancelled" -> "Cancelled"
      [] OTHER                                       -> "Completed"

\* derive_termination
Derived ==
    CASE \E t \in Tasks : rec[t].state = "TimedOut"  -> "TimedOut"
      [] \E t \in Tasks : rec[t].state = "Cancelled" -> "Cancelled"
      [] \E t \in Tasks : Failing(t)                 -> "Failed"
      [] OTHER                                       -> "Completed"

Finish ==
    /\ phase = "finish"
    /\ termination' = IF termination = "Completed" THEN Derived ELSE termination
    /\ phase' = IF HasSink THEN "final" ELSE "done"
    /\ UNCHANGED <<loop, rec, consumed, retained, job, cooling, remembered, disk, world>>

FinalCheckpoint ==
    /\ phase = "final"
    /\ phase' = "done"
    /\ \/ saved' = Snapshot /\ savedRate' = remembered /\ UNCHANGED termination
       \/ termination' = "Failed" /\ UNCHANGED disk
    /\ UNCHANGED <<loop, rec, consumed, retained, job, cooling, remembered, world>>

-----------------------------------------------------------------------------
(* The world outside the run.                                                *)

Cancel ==
    /\ MayStop
    /\ phase # "down"
    /\ ~cancelled
    /\ cancelled' = TRUE
    /\ UNCHANGED <<phase, loop, run, job, cooling, remembered, disk, late, crashes>>

DeadlinePasses ==
    /\ phase # "down"
    /\ ~late
    /\ late' = TRUE
    /\ UNCHANGED <<phase, loop, run, job, cooling, remembered, disk, cancelled, crashes>>

IntervalPasses(k) ==
    /\ k \in cooling
    /\ cooling' = cooling \ {k}
    /\ UNCHANGED <<phase, loop, run, job, remembered, disk, world>>

Crash ==
    /\ phase # "down"
    /\ crashes < MaxCrashes
    /\ crashes' = crashes + 1
    /\ phase' = "down"
    /\ UNCHANGED <<loop, run, job, cooling, remembered, disk, cancelled, late>>

\* Mutant: a resumed run starts with a full budget.
MutRestored == [saved EXCEPT !.consumed = 0]

\* What a resumed run takes over from the checkpoint.
Restored == saved

\* Mutant: every task is pending again.
MutResumed == [t \in Tasks |-> [NewRecord EXCEPT !.attempts = Restored.rec[t].attempts]]

\* The records a resumed run starts with: pending ones, and failures that may be
\* retried, are pending again.
Resumed ==
    [t \in Tasks |->
        LET r == Restored.rec[t]
        IN  IF r.state = "Failed" /\ r.retryable /\ r.attempts < MaxRetries[t] + 1
              THEN [NewRecord EXCEPT !.attempts = r.attempts]
              ELSE r]

\* resume_checkpointed in a new process, from the last checkpoint persisted.
Resume ==
    /\ phase = "down"
    /\ phase' = "top"
    /\ rec' = Resumed
    /\ consumed' = Restored.consumed
    /\ retained' = Total(Outputs(Resumed), Tasks)
    /\ termination' =
         IF /\ Restored.termination = "Failed"
            /\ \E t \in Tasks : Resumed[t].state = "Pending"
           THEN "Completed" ELSE Restored.termination
    /\ remembered' = savedRate
    /\ job' = [t \in Tasks |-> NoJob]
    /\ cancelled' = FALSE /\ late' = FALSE
    /\ cursor' = 1 /\ changed' = FALSE
    /\ selected' = <<>> /\ waveCost' = 0
    /\ overBudget' = {} /\ overInput' = {} /\ waitFor' = {}
    /\ UNCHANGED <<cooling, disk, crashes>>

Done == phase = "done" /\ UNCHANGED vars

-----------------------------------------------------------------------------
Scheduler ==
    \/ TopDone \/ TopStopped \/ TopSweep \/ Sweep \/ SweepEnds \/ Consider \/ Dispatch
    \/ BeginWait \/ NoFrontier \/ EndWait \/ Reduce \/ Reduced \/ Checkpoint \/ Finish
    \/ FinalCheckpoint

HandlerReturns(t) ==
    HandlerSucceeds(t) \/ HandlerTimesOut(t) \/ HandlerFails(t) \/ HandlerRetries(t)

JobStep(t) == JobStops(t) \/ Attempt(t) \/ HandlerReturns(t)

Next ==
    \/ Scheduler
    \/ \E t \in Tasks : JobStep(t)
    \/ Cancel \/ DeadlinePasses
    \/ \E k \in Keys : IntervalPasses(k)
    \/ Crash \/ Resume
    \/ Done

Spec == Init /\ [][Next]_vars

\* Threads run and handlers return; a process that died is started again.  Neither
\* an interval nor the run deadline is assumed to pass.
FairSpec ==
    Spec /\ WF_vars(Scheduler) /\ (\A t \in Tasks : WF_vars(JobStep(t))) /\ WF_vars(Resume)

\* Time passes.
IntervalFairness == \A k \in Keys : WF_vars(IntervalPasses(k))

-----------------------------------------------------------------------------
(* Properties.                                                               *)

\* A task is run, and counted as done, only after every task it depends on has
\* succeeded, in this process or in one before a crash.
DependenciesFirst ==
    \A t \in Tasks :
        job[t].at # "none" \/ Succeeded(t) => \A d \in Deps[t] : Succeeded(d)

\* The budget is never overspent, and every task that was attempted is paid for:
\* resuming a checkpoint neither forgets a charge nor gains budget.
BudgetKept ==
    /\ consumed <= max_total_resource_units
    /\ phase \notin {"wave", "down"} => Total(Units, Attempted(rec)) <= consumed

\* Two handlers that run at once share no exclusive resource and no rate group.
Exclusive ==
    \A t, u \in Tasks :
        /\ t # u
        /\ job[t].at = "running" /\ job[u].at = "running"
        => /\ Resources[t] \cap Resources[u] = {}
           /\ RateKey[t] # NoKey => RateKey[t] # RateKey[u]

\* The outputs kept are what retained_output_bytes says, within the run's limit,
\* and only a success has one.
OutputsCounted ==
    phase # "down" =>
        /\ retained = Total(Outputs(rec), Tasks)
        /\ retained <= MAX_RUN_OUTPUT
        /\ \A t \in Tasks : Succeeded(t) <=> rec[t].output # 0

\* execute_inner's checks of a checkpoint, all of them about one the engine wrote
\* itself: resume() never answers CheckpointMismatch to the engine's own checkpoint.
OwnCheckpointAccepted ==
    LET r == saved.rec
    IN  /\ saved.consumed <= max_total_resource_units
        /\ \A t \in Tasks :
             /\ r[t].attempts <= MaxRetries[t] + 1
             /\ r[t].state = "Succeeded" =>
                  /\ r[t].attempts > 0 /\ r[t].output # 0
                  /\ \A d \in Deps[t] : r[d].state = "Succeeded"
             /\ r[t].state # "Succeeded" => r[t].output = 0
        /\ Total(Units, Attempted(r)) <= saved.consumed
        /\ Total(Outputs(r), Tasks) <= MAX_RUN_OUTPUT

\* A finished run has settled every task, and its termination tells the truth: it is
\* Completed only if every task succeeded, and what else it says happened to one.
TerminationTrue ==
    phase = "done" =>
        /\ AllTerminal
        /\ termination = "Completed" => \A t \in Tasks : Succeeded(t)
        /\ termination \in {"Cancelled", "TimedOut"} =>
             \E t \in Tasks : rec[t].state = termination
        /\ termination = "ResourceLimit" => \E t \in Tasks : Failing(t)

\* A success in a persisted checkpoint is never lost or run again, however often
\* the process dies.
SavedSuccessKept ==
    [][\A t \in Tasks :
         saved.rec[t].state = "Succeeded" =>
            saved'.rec[t] = saved.rec[t] /\ job'[t].at # "running"]_vars

\* RateLimit: "Minimum spacing between starts for tasks in one rate-limit group", over
\* waves, retries inside a wave and other tasks of the group.  A process killed inside
\* a wave forgets that wave's starts, so the claim is for the runs of one process.
Spaced ==
    [][\A t \in Tasks :
         crashes = 0 /\ job'[t].record.attempts > job[t].record.attempts =>
            RateKey[t] \notin cooling]_vars

\* Every run ends if intervals pass: no wait, wave or sweep goes round for ever, nor
\* does it after a crash.
Ends == IntervalFairness => (phase # "down" ~> phase \in {"done", "down"})

\* A cancelled run ends even if no interval ever passes: the scheduler's wait for a
\* rate group and the wait before a retry both watch the flag.
StopEnds == cancelled /\ phase # "down" ~> phase \in {"done", "down"}

\* The types hold, and over waves, failures, resumes and merges the run stays within its
\* budget, its output limit and its exclusive resources.
LimitsKept == TypeOK /\ BudgetKept /\ OutputsCounted /\ Exclusive

\* No run goes on for ever, and a cancelled one waits for nothing.
RunsEnd == Ends /\ StopEnds
=============================================================================
