----------------------------- MODULE Continuous -----------------------------
(***************************************************************************)
(* Continuous collection (src/cli/continuous.rs): a controller that, cycle  *)
(* after cycle, collects its due targets, decides alerts over their newest  *)
(* finished scans, deletes what retention allows and renews the normalised  *)
(* report of each target, all from a list of the scans it read before.      *)
(* Meanwhile scans end, and the operator starts, edits and deletes scans.   *)
(*                                                                         *)
(* The controller is the loop of `serve` (Background) or a `scans cycle`    *)
(* of the job scheduler (Foreground), never both at once, as                *)
(* docs/CONTINUOUS_NORMALISATION.md asks; it may be killed between any two  *)
(* file operations.  What it keeps in memory dies with it; the scans, the   *)
(* alert history and the reports stay.                                      *)
(*                                                                         *)
(* Scans are numbered in the order of their creation.  Whether the cadence  *)
(* has passed is a choice: both answers are tried wherever the code asks.   *)
(* A revision hint is the number of writes of a scan's files; two different *)
(* states with one hint, a limitation the document names, are left out, and *)
(* with them the digests that narrow it.  Apart from the alert history's,   *)
(* the controller's own writes succeed.                                     *)
(***************************************************************************)
EXTENDS Naturals, FiniteSets, FiniteSetsExt, SequencesExt

CONSTANTS
    Targets,
    Configured,    \* Config.targets
    normalise_all,
    keep,
    MAX_ALERT_HISTORY_ENTRIES,
    MaxScans,      \* bound: scans ever created
    MaxActs,       \* bound: what the operator does in all
    MaxCrashes,    \* bound: times the controller is killed
    NoTarget

Scans == 1..MaxScans
NoScan == 0

ASSUME ContinuousParameters ==
    /\ IsFiniteSet(Targets) /\ Configured \subseteq Targets /\ NoTarget \notin Targets
    /\ normalise_all \in BOOLEAN
    /\ {keep, MAX_ALERT_HISTORY_ENTRIES} \subseteq Nat \ {0}
    /\ {MaxScans, MaxActs, MaxCrashes} \subseteq Nat

VARIABLES
    status, target,    \* the rows of the store; NONE before a scan's start and once deleted
    revision,          \* the revision hint of a scan's files
    usable,            \* scans whose results are saved and hold no false positive
    mine,              \* scans a thread of the controller's process works on
    slot,              \* the report of a target: its state and what it was derived from
    previous,          \* its .previous.json
    alerts,            \* alerts.jsonl: the `later` scans
    pc, mode,          \* where the controller is
    records,           \* the statuses list() read
    todo,              \* targets or scans the current loop has still to look at
    decided,           \* record_alerts: the decisions it read
    job,               \* the scan being run or normalised
    observed,          \* scans normalised by this process and their revision
    retry_after,       \* targets and scans backed off
    \* history
    finished,          \* scans that ever finished
    removed,           \* scans the operator deleted
    decisions,         \* every decision, in order
    last, before,      \* of a target: the last valid report, and the last different one
    torn,              \* targets whose report was being replaced when the controller died
    acts, crashes

store == <<status, target, revision, usable, mine>>
reports == <<slot, previous, last, before, torn>>
memory == <<observed, retry_after>>
cycle == <<mode, records, todo, decided, job>>
alerting == <<alerts, decisions>>
history == <<finished, removed>>
bounds == <<acts, crashes>>
vars == <<store, reports, memory, cycle, alerting, history, pc, bounds>>

Status == {"NONE", "RUNNING", "FINISHED", "ABORTED"}
Ended(st, s) == s \in Scans /\ st[s] \in {"FINISHED", "ABORTED"}
Created == {s \in Scans : target[s] # NoTarget}
Of(t) == {s \in Created : target[s] = t}

\* The newest of a set of scans.
Newest(scans) == IF scans = {} THEN NoScan ELSE Max(scans)

\* latest(records, t)
Latest(st, t) == Newest({s \in Of(t) : st[s] # "NONE"})

NoReport == [state |-> "none", scan |-> NoScan, hint |-> 0, seen |-> 0]
Stale == [NoReport EXCEPT !.state = "stale"]
NoJob == [scan |-> NoScan, hint |-> 0, seen |-> 0, state |-> "none", retry |-> FALSE]
Report == [state : {"none", "current", "stale"}, scan : Scans \cup {NoScan},
           hint : 0..MaxActs + 1, seen : 0..MaxActs + 1]

TypeOK ==
    /\ status \in [Scans -> Status] /\ target \in [Scans -> Targets \cup {NoTarget}]
    /\ revision \in [Scans -> 0..MaxActs + 1]
    /\ usable \subseteq Created /\ mine \subseteq Created
    /\ slot \in [Targets -> Report] /\ previous \in [Targets -> Report]
    /\ alerts \in Seq(Scans) /\ Len(alerts) <= MAX_ALERT_HISTORY_ENTRIES
    /\ pc \in {"off", "ready", "collect", "running", "decide", "retain",
               "normalise", "analyse", "check", "archive", "write", "asleep"}
    /\ mode \in {"Background", "Foreground"}
    /\ records \in [Scans -> Status]
    /\ decided \subseteq Scans
    /\ job.scan \in Scans \cup {NoScan}
    /\ observed \in [Scans -> 0..MaxActs + 1]
    /\ finished \subseteq Created /\ removed \subseteq Created
    /\ decisions \in Seq(Scans)
    /\ torn \subseteq Targets /\ acts \in 0..MaxActs /\ crashes \in 0..MaxCrashes

Init ==
    /\ status = [s \in Scans |-> "NONE"] /\ target = [s \in Scans |-> NoTarget]
    /\ revision = [s \in Scans |-> 0] /\ usable = {} /\ mine = {}
    /\ slot = [t \in Targets |-> NoReport] /\ previous = slot /\ last = slot /\ before = slot
    /\ alerts = <<>> /\ decisions = <<>>
    /\ pc = "off" /\ mode = "Background"
    /\ records = status /\ todo = {} /\ decided = {} /\ job = NoJob
    /\ observed = [s \in Scans |-> 0] /\ retry_after = {}
    /\ finished = {} /\ removed = {} /\ torn = {} /\ acts = 0 /\ crashes = 0

-----------------------------------------------------------------------------
(* Scans and the operator. *)

\* A row for the next scan of t.
Start(t, owned) ==
    LET s == Cardinality(Created) + 1 IN
    /\ s \in Scans
    /\ target' = [target EXCEPT ![s] = t]
    /\ status' = [status EXCEPT ![s] = "RUNNING"]
    /\ mine' = IF owned THEN mine \cup {s} ELSE mine
    /\ UNCHANGED <<revision, usable>>

Acts == acts < MaxActs /\ acts' = acts + 1 /\ UNCHANGED crashes

OperatorStarts(t) ==
    /\ Acts
    /\ \E owned \in BOOLEAN : (owned => pc # "off" /\ mode = "Background") /\ Start(t, owned)
    /\ UNCHANGED <<reports, memory, cycle, alerting, history, pc>>

\* A finished scan has its results; one that was aborted or failed may have some.
ScanEnds(s) ==
    /\ status[s] = "RUNNING" /\ (s \in mine => pc # "off")
    /\ \E end \in {"FINISHED", "ABORTED"}, saved \in BOOLEAN :
        /\ end = "FINISHED" => saved
        /\ status' = [status EXCEPT ![s] = end]
        /\ finished' = IF end = "FINISHED" THEN finished \cup {s} ELSE finished
        /\ usable' = IF saved THEN usable \cup {s} ELSE usable
    /\ revision' = [revision EXCEPT ![s] = 1]
    /\ mine' = mine \ {s}
    /\ UNCHANGED <<target, reports, memory, cycle, alerting, removed, pc, bounds>>

\* False positives are flagged or unflagged, or the rules run again.
OperatorEdits(s) ==
    /\ Ended(status, s) /\ Acts
    /\ revision' = [revision EXCEPT ![s] = @ + 1]
    /\ usable' \in {usable \cup {s}, usable \ {s}}
    /\ UNCHANGED <<status, target, mine, reports, memory, cycle, alerting, history, pc>>

\* ScanService::delete: what is active, or gone, is refused.  The files go one by one, here
\* in one step; what a reader sees between them is Skipped.
Delete(s) ==
    /\ IF Ended(status, s)
       THEN /\ status' = [status EXCEPT ![s] = "NONE"]
            /\ revision' = [revision EXCEPT ![s] = 0]
            /\ usable' = usable \ {s}
       ELSE UNCHANGED <<status, revision, usable>>
    /\ UNCHANGED <<target, mine>>

OperatorDeletes(s) ==
    /\ Ended(status, s) /\ Acts /\ Delete(s)
    /\ removed' = removed \cup {s}
    /\ UNCHANGED <<reports, memory, cycle, alerting, finished, pc>>

-----------------------------------------------------------------------------
(* The controller's process. *)

Goes(where) == pc' = where

\* launch or run_once, once recover() has settled what the last process left running.
Launch(m) ==
    /\ pc = "off" /\ mode' = m
    /\ LET left == {s \in mine : status[s] = "RUNNING"} IN
       /\ status' = [s \in Scans |-> IF s \in left THEN "ABORTED" ELSE status[s]]
       /\ revision' = [s \in Scans |-> IF s \in left THEN 1 ELSE revision[s]]
       /\ \E saved \in SUBSET left : usable' = usable \cup saved
    /\ mine' = {}
    /\ Goes("ready")
    /\ UNCHANGED <<target, reports, memory, records, todo, decided, job, alerting,
                   history, bounds>>

Unread == [s \in Scans |-> "NONE"]

\* Its memory is gone.
Ends ==
    /\ observed' = [s \in Scans |-> 0] /\ retry_after' = {}
    /\ todo' = {} /\ decided' = {} /\ job' = NoJob /\ records' = Unread
    /\ mode' = "Background" /\ Goes("off")

Crash ==
    /\ pc # "off" /\ crashes < MaxCrashes
    /\ crashes' = crashes + 1
    /\ Ends
    /\ torn' = IF pc = "write" THEN torn \cup {target[job.scan]} ELSE torn
    /\ UNCHANGED <<store, slot, previous, last, before, alerting, history, acts>>

-----------------------------------------------------------------------------
(* cycle: list and collect_due. *)

\* list, with prune_tracking_state where the cycle keeps the list; a foreground cycle
\* lists again once it has collected.
Lists(next) ==
    /\ records' = status /\ todo' = Configured
    /\ observed' = [s \in Scans |-> IF status[s] = "NONE" THEN 0 ELSE observed[s]]
    /\ retry_after' = {k \in retry_after : k \in Scans => status[k] # "NONE"}
    /\ Goes(next)
    /\ UNCHANGED <<store, reports, mode, job, alerting, history, bounds>>

Begin == pc \in {"ready", "asleep"} /\ Lists("collect") /\ UNCHANGED decided

\* Not due (active, or the cadence has not passed) or backed off.
NotDue(t) ==
    /\ pc = "collect" /\ t \in todo
    /\ Latest(records, t) # NoScan \/ t \in retry_after
    /\ todo' = todo \ {t}
    /\ UNCHANGED <<store, reports, memory, mode, records, decided, job, alerting, history, pc, bounds>>

Due(t) ==
    /\ pc = "collect" /\ t \in todo /\ t \notin retry_after
    /\ LET s == Latest(records, t) IN s = NoScan \/ Ended(records, s)
    /\ todo' = todo \ {t}
    /\ UNCHANGED <<reports, observed, mode, records, decided, alerting, history, bounds>>

Joinable(t) == \E s \in Of(t) \cap mine : status[s] = "RUNNING"

\* start_or_join joins an active scan of its own process ...
Join(t) ==
    /\ Due(t) /\ mode = "Background" /\ Joinable(t)
    /\ UNCHANGED <<store, retry_after, job, pc>>

\* ... or starts one; run starts one and waits for its end.
Collect(t) ==
    /\ Due(t) /\ (mode = "Background" => ~Joinable(t))
    /\ Start(t, TRUE)
    /\ IF mode = "Background" THEN UNCHANGED <<pc, job>>
       ELSE Goes("running") /\ job' = [job EXCEPT !.scan = Cardinality(Created) + 1]
    /\ UNCHANGED retry_after

CollectFails(t) ==
    /\ Due(t)
    /\ retry_after' = retry_after \cup {t}
    /\ UNCHANGED <<store, job, pc>>

RunReturns ==
    /\ pc = "running" /\ status[job.scan] # "RUNNING"
    /\ retry_after' = IF status[job.scan] = "FINISHED" THEN retry_after
                      ELSE retry_after \cup {target[job.scan]}
    /\ Goes("collect") /\ job' = NoJob
    /\ UNCHANGED <<store, reports, observed, mode, records, todo, decided, alerting, history, bounds>>

\* The list of a background cycle serves for all of it.
Collected ==
    /\ pc = "collect" /\ todo = {}
    /\ decided' = ToSet(alerts)
    /\ IF mode = "Foreground" THEN Lists("decide")
       ELSE /\ todo' = Configured /\ Goes("decide")
            /\ UNCHANGED <<store, reports, memory, mode, records, job, alerting, history, bounds>>

-----------------------------------------------------------------------------
(* record_alerts. *)

FinishedOf(t) == {s \in Of(t) : records[s] = "FINISHED"}
Later(t) == Newest(FinishedOf(t))
Earlier(t) == Newest(FinishedOf(t) \ {Later(t)})

\* A defect: the decision is looked up by the earlier scan.
MutUndecided(t) == Earlier(t) # NoScan /\ Earlier(t) \notin decided

\* Two finished scans, and the newest not decided yet.
Undecided(t) == Earlier(t) # NoScan /\ Later(t) \notin decided

NothingToDecide(t) ==
    /\ pc = "decide" /\ t \in todo /\ ~Undecided(t)
    /\ todo' = todo \ {t}
    /\ UNCHANGED <<store, reports, memory, mode, records, decided, job, alerting, history, pc, bounds>>

Readable(t) == {status[Earlier(t)], status[Later(t)]} \cap {"NONE"} = {}

\* results() finds a row but no results.json, as the operator is just deleting the scan:
\* nothing is decided of t in this cycle, and retention goes on.
Skipped(t) ==
    /\ pc = "decide" /\ t \in todo /\ Undecided(t) /\ ~Readable(t)
    /\ todo' = todo \ {t}
    /\ UNCHANGED <<store, reports, memory, mode, records, decided, job, alerting, history, pc, bounds>>

\* append_history
Appended(s) ==
    LET all == Append(alerts, s)
        kept == Min({Len(all), MAX_ALERT_HISTORY_ENTRIES})
    IN  SubSeq(all, Len(all) - kept + 1, Len(all))

\* The decision is recorded, and only then told: to the event stream and, where the
\* alert is raised, by a notification, which change nothing here.
Decide(t) ==
    /\ pc = "decide" /\ t \in todo /\ Undecided(t) /\ Readable(t)
    /\ alerts' = Appended(Later(t)) /\ decisions' = Append(decisions, Later(t))
    /\ todo' = todo \ {t}
    /\ UNCHANGED <<store, reports, memory, mode, records, decided, job, history, pc, bounds>>

\* The latest scans of the targets to normalise, those listed as active left out: all
\* that the rest of the cycle needs of the list.
Normalised ==
    {s \in {Latest(records, t) : t \in IF normalise_all THEN Targets ELSE Configured} :
        s # NoScan /\ Ended(records, s)}

Newer(s) == Cardinality({u \in Of(target[s]) : records[u] # "NONE" /\ u > s})

\* The ended scans of configured targets beyond the newest `keep` of each.
BeyondKept == {s \in Scans : Ended(records, s) /\ target[s] \in Configured /\ Newer(s) >= keep}

\* A defect: a target's newest finished scan is not spared.
MutPrunable == BeyondKept

\* prunable: all of them but a target's newest finished scan.
Prunable == {s \in BeyondKept : s # Later(target[s])}

\* A defect: retention follows whether or not the decision was recorded.
MutUnrecorded(t) ==
    /\ pc = "decide" /\ t \in todo /\ Undecided(t)
    /\ todo' = Prunable /\ Goes("retain") /\ decided' = {}
    /\ UNCHANGED <<store, reports, memory, mode, records, job, alerting, history, bounds>>

\* A scan cannot be read, or the history not be read or written: no retention.
Unrecorded(t) ==
    /\ pc = "decide" /\ t \in todo /\ Undecided(t)
    /\ todo' = Normalised /\ Goes("normalise") /\ records' = Unread /\ decided' = {}
    /\ UNCHANGED <<store, reports, memory, mode, job, alerting, history, bounds>>

Recorded ==
    /\ pc = "decide" /\ todo = {}
    /\ todo' = Prunable /\ Goes("retain") /\ decided' = {}
    /\ UNCHANGED <<store, reports, memory, mode, records, job, alerting, history, bounds>>

-----------------------------------------------------------------------------
(* retain, through the service. *)

Retain ==
    /\ pc = "retain" /\ todo # {}
    /\ Delete(Min(todo)) /\ todo' = todo \ {Min(todo)}
    /\ UNCHANGED <<reports, memory, mode, records, decided, job, alerting, history, pc, bounds>>

Retained ==
    /\ pc = "retain" /\ todo = {}
    /\ todo' = Normalised /\ Goes("normalise") /\ records' = Unread
    /\ UNCHANGED <<store, reports, memory, mode, decided, job, alerting, history, bounds>>

-----------------------------------------------------------------------------
(* The normalised reports. *)

\* A defect: a scan seen once is not looked at again.
MutKnown(s) == observed[s] # 0 \/ s \in retry_after

\* Normalised at this revision by this process, or backed off.
Known(s) == observed[s] = revision[s] \/ s \in retry_after

\* A defect: the report on disk is not asked.
MutAlreadyCurrent(s) == FALSE

\* already_current
AlreadyCurrent(s) ==
    LET report == slot[target[s]] IN
    report.state = "current" /\ report.scan = s /\ report.hint = revision[s]

Replace(next, report, retry) ==
    /\ job' = [job EXCEPT !.state = report, !.retry = retry]
    /\ Goes(next)

\* The next scan's files are looked at.  Files that are gone make the report stale.
Inspect(s) ==
    /\ pc = "normalise" /\ s \in todo
    /\ todo' = todo \ {s}
    /\ IF status[s] = "NONE"
       THEN /\ job' = [NoJob EXCEPT !.scan = s, !.state = "stale"] /\ Goes("archive")
            /\ UNCHANGED observed
       ELSE IF Known(s) THEN UNCHANGED <<job, pc, observed>>
       ELSE IF AlreadyCurrent(s)
       THEN observed' = [observed EXCEPT ![s] = revision[s]] /\ UNCHANGED <<job, pc>>
       ELSE /\ job' = [NoJob EXCEPT !.scan = s, !.hint = revision[s]] /\ Goes("analyse")
            /\ UNCHANGED observed
    /\ UNCHANGED <<store, reports, retry_after, mode, records, decided, alerting, history, bounds>>

\* results_digest and GET /api/scans/ID/analyze: refused without usable results.
Analyse ==
    /\ pc = "analyse"
    /\ IF status[job.scan] = "NONE" \/ job.scan \notin usable
       THEN Replace("archive", "stale", TRUE)
       ELSE job' = [job EXCEPT !.seen = revision[job.scan]] /\ Goes("check")
    /\ UNCHANGED <<store, reports, memory, mode, records, todo, decided, alerting, history, bounds>>

\* A defect: the evidence is not looked at again.
MutUnchanged == TRUE

Unchanged == status[job.scan] # "NONE" /\ revision[job.scan] = job.hint

Check ==
    /\ pc = "check"
    /\ IF Unchanged THEN Replace("archive", "current", FALSE) ELSE Replace("archive", "stale", TRUE)
    /\ UNCHANGED <<store, reports, memory, mode, records, todo, decided, alerting, history, bounds>>

\* archive_previous: a stale marker is not archived.
Archive ==
    /\ pc = "archive"
    /\ LET t == target[job.scan] IN
       previous' = IF slot[t].state = "current" THEN [previous EXCEPT ![t] = slot[t]] ELSE previous
    /\ Goes("write")
    /\ UNCHANGED <<store, slot, last, before, torn, memory, cycle, alerting, history, bounds>>

\* The report, or invalidate_saved's marker, replaces what was in the slot.
Write ==
    /\ pc = "write"
    /\ LET t == target[job.scan]
           report == [state |-> "current", scan |-> job.scan, hint |-> job.hint, seen |-> job.seen]
       IN  /\ torn' = torn \ {t}
           /\ IF job.state = "current"
              THEN /\ slot' = [slot EXCEPT ![t] = report]
                   /\ last' = [last EXCEPT ![t] = report]
                   /\ before' = IF report = last[t] THEN before ELSE [before EXCEPT ![t] = last[t]]
                   /\ observed' = [observed EXCEPT ![job.scan] = job.hint]
              ELSE slot' = [slot EXCEPT ![t] = Stale] /\ UNCHANGED <<last, before, observed>>
    /\ retry_after' = IF job.retry THEN retry_after \cup {job.scan} ELSE retry_after \ {job.scan}
    /\ Goes("normalise") /\ job' = NoJob
    /\ UNCHANGED <<store, previous, mode, records, todo, decided, alerting, history, bounds>>

\* serve sleeps for a TICK, `scans cycle` exits.
CycleEnds ==
    /\ pc = "normalise" /\ todo = {}
    /\ IF mode = "Background" THEN Goes("asleep") /\ UNCHANGED <<memory, cycle>>
       ELSE Ends
    /\ UNCHANGED <<store, reports, alerting, history, bounds>>

\* RETRY has passed.
RetryPasses(k) ==
    /\ k \in retry_after
    /\ retry_after' = retry_after \ {k}
    /\ UNCHANGED <<store, reports, observed, cycle, alerting, history, pc, bounds>>

-----------------------------------------------------------------------------

Controller ==
    \/ Launch("Background") \/ Launch("Foreground")
    \/ Begin \/ RunReturns \/ Collected
    \/ \E t \in Configured :
        \/ NotDue(t) \/ Join(t) \/ Collect(t) \/ CollectFails(t)
        \/ NothingToDecide(t) \/ Skipped(t) \/ Decide(t) \/ Unrecorded(t)
    \/ Recorded \/ Retain \/ Retained
    \/ (\E s \in Scans : Inspect(s)) \/ Analyse \/ Check \/ Archive \/ Write \/ CycleEnds

Next ==
    \/ Controller
    \/ Crash
    \/ \E t \in Targets : OperatorStarts(t)
    \/ \E s \in Scans : ScanEnds(s) \/ OperatorEdits(s) \/ OperatorDeletes(s)
    \/ \E k \in Targets \cup Scans : RetryPasses(k)

\* Somebody starts the controller again, its thread runs on, back-offs expire and scans
\* end.  Nothing is assumed of the operator.
Spec ==
    /\ Init /\ [][Next]_vars
    /\ WF_vars(Controller)
    /\ \A s \in Scans : WF_vars(ScanEnds(s)) /\ WF_vars(RetryPasses(s))

-----------------------------------------------------------------------------
(* Properties. *)

\* Retention never deletes "an active scan, a target's newest, or its newest finished
\* scan", although it plans from a list read before scans ended and others began.
BaselineKept ==
    \A t \in Targets : \A s \in {Newest(Of(t)), Newest(finished \cap Of(t))} :
        s # NoScan => s \in removed \/ status[s] # "NONE"

\* "a scan an undecided alert still compares against is never removed first", also when a
\* decision could not be recorded or the controller was killed before it.
ComparedKept ==
    \A t \in Configured :
        LET later == Newest(finished \cap Of(t))
            earlier == Newest((finished \cap Of(t)) \ {later})
        IN  earlier # NoScan /\ later \notin ToSet(decisions) =>
                status[earlier] = "FINISHED" \/ {earlier, later} \cap removed # {}

\* "a restarted serve process does not decide the same scan twice", and so tells no alert
\* twice: a scan is decided again only once MAX_ALERT_HISTORY_ENTRIES later decisions
\* have pushed its entry out.
DecidedOnce ==
    \A i, j \in DOMAIN decisions :
        i < j /\ decisions[i] = decisions[j] => j - i > MAX_ALERT_HISTORY_ENTRIES

\* A report marked current was derived from the evidence of the revision it records,
\* although the evidence may be edited at any moment of the analysis.
ReportTrue == \A t \in Targets : slot[t].state = "current" => slot[t].seen = slot[t].hint

\* ".previous.json keeps the last different report rather than a copy of the current one":
\* beside a current report it holds the last different one, beside a stale marker the last
\* valid one.  Not so where the controller died while replacing the report, or where the
\* operator deleted a newer scan and an older report is derived again.
PreviousKept ==
    pc # "write" =>
        \A t \in Targets \ torn : removed \cap Of(t) = {} =>
            previous[t] = IF slot[t].state = "current" THEN before[t] ELSE last[t]

\* Once nothing more happens to a target's newest scan, its report becomes the analysis of
\* that scan as it is now, or is marked stale where there is nothing to analyse, through
\* edits in mid-analysis, back-offs and restarts.
Settled(t) ==
    LET s == Newest(Of(t)) IN
    s # NoScan /\ status[s] # "NONE" =>
        IF s \in usable
        THEN slot[t] = [state |-> "current", scan |-> s, hint |-> revision[s], seen |-> revision[s]]
        ELSE slot[t].state = "stale"

ReportSettles == \A t \in Targets : <>[]Settled(t)

\* The types hold, the bound of the alert history among them, and what was trimmed from
\* it is not missed by the next decision.
AlertsKept == TypeOK /\ DecidedOnce
=============================================================================
