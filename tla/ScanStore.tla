------------------------------ MODULE ScanStore ------------------------------
(***************************************************************************)
(* One scan directory shared by several processes: src/scan_store.rs and    *)
(* src/fsio.rs as the server, `scans` commands and scheduled cycles use     *)
(* them at the same time.  No lock spans two processes, so a step is one    *)
(* file operation or one look at /proc: what is read in one step may be     *)
(* stale in the next.                                                       *)
(*                                                                         *)
(* The main thread of a process opens the store (recover), then the threads *)
(* of its connections make calls at the same time, while the workers of its *)
(* scans write their rows; it may exit or be killed between any two steps.  *)
(* Of the locks inside a process only create's matters here.  records() is  *)
(* record() for each row it lists.  A replaced file is seen whole, old or   *)
(* new (write_atomic renames it), and the disk itself does not fail.        *)
(***************************************************************************)
EXTENDS Naturals, FiniteSets

CONSTANTS
    Procs,      \* every process of the history
    Pid,        \* the process id of each: a dead process's id may be given again
    Unstamped,  \* processes whose rows carry no owner_started
    Sees,       \* the processes whose /proc entry a process can read: none without /proc
    Clients,    \* the threads that make calls
    Of,         \* the process of a thread
    Main,       \* the thread that opens the store for its process
    Scans,
    MAX_SCANS,
    MaxCalls,   \* bound: calls under way at once
    NoRow,
    NoScan,
    NoProc

Active == {"RUNNING"}
Ended == {"FINISHED", "ABORTED"}
Row == [status : Active \cup Ended, owner : Procs]
IsActive(record) == record.status \in Active

ASSUME StoreParameters ==
    /\ IsFiniteSet(Clients) /\ IsFiniteSet(Scans)
    /\ Pid \in [Procs -> Nat] /\ Unstamped \subseteq Procs /\ Sees \in [Procs -> SUBSET Procs]
    /\ Of \in [Clients -> Procs] /\ Main \in [Procs -> Clients]
    /\ \A p \in Procs : Of[Main[p]] = p
    /\ MAX_SCANS \in Nat \ {0} /\ MaxCalls \in Nat \ {0}
    /\ NoRow \notin Row /\ NoScan \notin Scans /\ NoProc \notin Procs

VARIABLES
    dirs,       \* scans that have a directory
    row,        \* their scan.json: its status and its owner
    results,    \* scans that have a results.json
    alive,      \* processes that run
    ran,        \* processes that run or ran
    maker,      \* the process that created a scan
    work,       \* where the worker of a scan is
    call,       \* what a thread is doing
    deleted     \* history: scans a delete() answered Ok for

disk == <<dirs, row, results>>
vars == <<disk, alive, ran, maker, work, call, deleted>>

\* A thread: the call it is in, the step it is at, the scan it is about, the row it read
\* of it and, in recover, the directories list() has still to read and the active rows it
\* read that are still to be looked at.
Idle == [fn |-> "idle", step |-> "none", scan |-> NoScan, seen |-> NoRow,
         unread |-> {}, todo |-> {}]

TypeOK ==
    /\ dirs \subseteq Scans /\ results \subseteq dirs
    /\ row \in [Scans -> Row \cup {NoRow}]
    /\ \A s \in Scans : row[s] # NoRow => s \in dirs
    /\ alive \subseteq ran /\ ran \subseteq Procs
    /\ maker \in [Scans -> Procs \cup {NoProc}]
    /\ work \in [Scans -> {"none", "running", "saving", "updating", "restoring",
                        "finishing", "done"}]
    /\ \A c \in Clients :
        /\ call[c].fn \in {"idle", "open", "create", "record", "delete"}
        /\ call[c].step \in {"none", "list", "next", "mkdir", "row", "read", "look",
                             "abort", "write", "rename", "log", "unlink", "rmdir"}
        /\ call[c].scan \in Scans \cup {NoScan}
        /\ call[c].seen \in Row \cup {NoRow}
        /\ call[c].unread \subseteq Scans /\ call[c].todo \subseteq Scans
    /\ deleted \subseteq Scans

Init ==
    /\ dirs = {} /\ results = {}
    /\ row = [s \in Scans |-> NoRow]
    /\ alive = {} /\ ran = {}
    /\ maker = [s \in Scans |-> NoProc]
    /\ work = [s \in Scans |-> "none"]
    /\ call = [c \in Clients |-> Idle]
    /\ deleted = {}

At(c, fns, step) == call[c].fn \in fns /\ call[c].step = step
Goes(c, step) == call' = [call EXCEPT ![c].step = step]
Returns(c) == call' = [call EXCEPT ![c] = Idle]

Busy == {c \in Clients : call[c] # Idle}

\* c begins a call about s, once its process has opened the store.
Calls(c, fn, s, step) ==
    /\ Of[c] \in alive /\ call[Main[Of[c]]].fn # "open"
    /\ call[c] = Idle /\ Cardinality(Busy) < MaxCalls
    /\ call' = [call EXCEPT ![c] = [Idle EXCEPT !.fn = fn, !.scan = s, !.step = step]]

-----------------------------------------------------------------------------
(* Processes. *)

\* A defect: a row of this process's own id counts as a live process's, although the
\* process that wrote it is dead and only its id was given again.
MutOtherProcessAlive(p, owner) ==
    \E q \in alive \cap (Sees[p] \cup {p}) :
        Pid[q] = Pid[owner] /\ (owner \in Unstamped \/ q = owner \/ q = p)

\* other_process_alive(owner, owner_started), asked by p: a process p cannot see reads as
\* gone, and without /proc every process does.
OtherProcessAlive(p, owner) ==
    /\ Pid[owner] # Pid[p]
    /\ \E q \in alive \cap Sees[p] : Pid[q] = Pid[owner] /\ (owner \in Unstamped \/ q = owner)

\* A process starts and opens the store; no live process has its id.
Start(p) ==
    /\ p \notin ran /\ Cardinality(Busy) < MaxCalls
    /\ \A q \in alive : Pid[q] # Pid[p]
    /\ alive' = alive \cup {p} /\ ran' = ran \cup {p}
    /\ call' = [call EXCEPT ![Main[p]] = [Idle EXCEPT !.fn = "open", !.step = "list"]]
    /\ UNCHANGED <<disk, maker, work, deleted>>

\* The threads of p are gone with it, what they had written stays.
Gone(p) ==
    /\ alive' = alive \ {p}
    /\ work' = [s \in Scans |-> IF maker[s] = p THEN "done" ELSE work[s]]
    /\ call' = [c \in Clients |-> IF Of[c] = p THEN Idle ELSE call[c]]
    /\ UNCHANGED <<disk, ran, maker, deleted>>

\* p exits or is killed, whatever it is in the middle of.
Dies(p) == p \in alive /\ Gone(p)

-----------------------------------------------------------------------------
(* recover, which open_api runs before anything else. *)

\* list() refuses a store of more than MAX_SCANS directories, and the command fails.
OpenFails(c) ==
    /\ At(c, {"open"}, "list") /\ Cardinality(dirs) > MAX_SCANS
    /\ Gone(Of[c])

\* The directories as read_dir finds them; one made later is not listed.
List(c) ==
    /\ At(c, {"open"}, "list") /\ Cardinality(dirs) <= MAX_SCANS
    /\ call' = [call EXCEPT ![c].step = "next", ![c].unread = dirs]
    /\ UNCHANGED <<disk, alive, ran, maker, work, deleted>>

\* The row of the next directory; only the active ones matter.
ListRow(c, s) ==
    /\ At(c, {"open"}, "next") /\ s \in call[c].unread
    /\ LET listed == [call[c] EXCEPT !.unread = @ \ {s}]
       IN  call' = [call EXCEPT ![c] = IF row[s] # NoRow /\ IsActive(row[s])
                                       THEN [listed EXCEPT !.todo = @ \cup {s}]
                                       ELSE listed]
    /\ UNCHANGED <<disk, alive, ran, maker, work, deleted>>

\* The next active row: skipped when it can no longer be read or another live process
\* owns it, aborted otherwise.  An owner never changes, so the row need not be kept.
NextRow(c, s) ==
    /\ At(c, {"open"}, "next") /\ call[c].unread = {} /\ s \in call[c].todo
    /\ LET rest == [call[c] EXCEPT !.todo = @ \ {s}]
           abort == [rest EXCEPT !.step = "abort", !.scan = s,
                                 !.seen = [status |-> "RUNNING", owner |-> maker[s]]]
       IN  call' = [call EXCEPT ![c] = IF row[s] = NoRow \/ OtherProcessAlive(Of[c], maker[s])
                                       THEN rest ELSE abort]
    /\ UNCHANGED <<disk, alive, ran, maker, work, deleted>>

Opened(c) ==
    /\ At(c, {"open"}, "next") /\ call[c].unread = {} /\ call[c].todo = {}
    /\ Returns(c)
    /\ UNCHANGED <<disk, alive, ran, maker, work, deleted>>

-----------------------------------------------------------------------------
(* create_with_limit, under the process's SCAN_CREATE_LOCK. *)

\* A defect: one scan too many is let in.
MutHasRoom == Cardinality(dirs) <= MAX_SCANS

HasRoom == Cardinality(dirs) < MAX_SCANS

\* A fresh id, and the directories counted.
Create(c, s) ==
    /\ \A d \in Clients : Of[d] = Of[c] => call[d].fn # "create"
    /\ maker[s] = NoProc /\ HasRoom
    /\ Calls(c, "create", s, "mkdir")
    /\ maker' = [maker EXCEPT ![s] = Of[c]]
    /\ UNCHANGED <<disk, alive, ran, work, deleted>>

MakeDirectory(c) ==
    /\ At(c, {"create"}, "mkdir")
    /\ dirs' = dirs \cup {call[c].scan}
    /\ Goes(c, "row")
    /\ UNCHANGED <<row, results, alive, ran, maker, work, deleted>>

\* The row is written and the scan's worker starts.
FirstRow(c) ==
    /\ At(c, {"create"}, "row")
    /\ row' = [row EXCEPT ![call[c].scan] = [status |-> "RUNNING", owner |-> Of[c]]]
    /\ work' = [work EXCEPT ![call[c].scan] = "running"]
    /\ Returns(c)
    /\ UNCHANGED <<dirs, results, alive, ran, maker, deleted>>

\* The row is refused (too large): the directory, if still empty, is removed.
FirstRowFails(c) ==
    /\ At(c, {"create"}, "row")
    /\ dirs' = dirs \ {call[c].scan}
    /\ Returns(c)
    /\ UNCHANGED <<row, results, alive, ran, maker, work, deleted>>

-----------------------------------------------------------------------------
(* The worker of a scan: every write looks for the row first, and creates the directory *)
(* if it is not there (create_dir_all). *)

\* save_results and update need a row, set_status an active one: without it the worker
\* comes to its end and writes nothing.
WorkerGivesUp(s) ==
    /\ work[s] = "running"
    /\ row[s] # NoRow => ~IsActive(row[s])
    /\ work' = [work EXCEPT ![s] = "done"]
    /\ UNCHANGED <<disk, alive, ran, maker, call, deleted>>

\* The row a worker finds before it saves results, sets an active status or counts, sets
\* the counts of a row another process has ended, or ends the scan.
WorkerFindsRow(s, next) ==
    /\ work[s] = "running" /\ row[s] # NoRow
    /\ next = "saving" => s \notin results
    /\ next \in {"updating", "finishing"} => IsActive(row[s])
    /\ next = "restoring" => ~IsActive(row[s])
    /\ work' = [work EXCEPT ![s] = next]
    /\ UNCHANGED <<disk, alive, ran, maker, call, deleted>>

WorkerSaves(s) ==
    /\ work[s] = "saving"
    /\ dirs' = dirs \cup {s} /\ results' = results \cup {s}
    /\ work' = [work EXCEPT ![s] = "running"]
    /\ UNCHANGED <<row, alive, ran, maker, call, deleted>>

\* What was read is written back, its status too.
WorkerUpdates(s) ==
    /\ work[s] \in {"updating", "restoring"}
    /\ LET status == IF work[s] = "updating" THEN "RUNNING" ELSE "ABORTED"
       IN  row' = [row EXCEPT ![s] = [status |-> status, owner |-> maker[s]]]
    /\ dirs' = dirs \cup {s}
    /\ work' = [work EXCEPT ![s] = "running"]
    /\ UNCHANGED <<results, alive, ran, maker, call, deleted>>

WorkerFinishes(s) ==
    /\ work[s] = "finishing"
    /\ row' = [row EXCEPT ![s] = [status |-> "FINISHED", owner |-> maker[s]]]
    /\ dirs' = dirs \cup {s}
    /\ work' = [work EXCEPT ![s] = "done"]
    /\ UNCHANGED <<results, alive, ran, maker, call, deleted>>

-----------------------------------------------------------------------------
(* record and delete: get, reconcile, and for delete the removal. *)

Ask(c, fn, s) ==
    /\ Calls(c, fn, s, "read")
    /\ UNCHANGED <<disk, alive, ran, maker, work, deleted>>

\* get: no row is NotFound, for a directory without one too.
Read(c) ==
    /\ At(c, {"record", "delete"}, "read")
    /\ IF row[call[c].scan] = NoRow
       THEN Returns(c)
       ELSE call' = [call EXCEPT ![c].seen = row[call[c].scan], ![c].step = "look"]
    /\ UNCHANGED <<disk, alive, ran, maker, work, deleted>>

\* A defect: reconcile asks only whether the row is active.
MutLeftAlone(p, record) == ~IsActive(record) \/ Pid[record.owner] = Pid[p]

\* What reconcile of p does not touch.
LeftAlone(p, record) ==
    ~IsActive(record) \/ Pid[record.owner] = Pid[p] \/ OtherProcessAlive(p, record.owner)

\* reconcile: a row left alone is answered, or deleted once it is not active; any other
\* is aborted first.
Look(c) ==
    /\ At(c, {"record", "delete"}, "look")
    /\ IF ~LeftAlone(Of[c], call[c].seen) THEN Goes(c, "abort")
       ELSE IF call[c].fn = "delete" /\ ~IsActive(call[c].seen) THEN Goes(c, "unlink")
       ELSE Returns(c)
    /\ UNCHANGED <<disk, alive, ran, maker, work, deleted>>

\* abort: update finds the row ...
FindRow(c) ==
    /\ call[c].step = "abort" /\ row[call[c].scan] # NoRow
    /\ Goes(c, "write")
    /\ UNCHANGED <<disk, alive, ran, maker, work, deleted>>

\* ... write_row creates the directory if it is gone ...
AbortMakesDirectory(c) ==
    /\ call[c].step = "write"
    /\ dirs' = dirs \cup {call[c].scan}
    /\ Goes(c, "rename")
    /\ UNCHANGED <<row, results, alive, ran, maker, work, deleted>>

\* A defect: the aborted record keeps its status.
MutAbortRow(c) ==
    /\ call[c].step = "rename" /\ call[c].scan \in dirs
    /\ row' = [row EXCEPT ![call[c].scan] = call[c].seen]
    /\ Goes(c, "log")
    /\ UNCHANGED <<dirs, results, alive, ran, maker, work, deleted>>

\* ... and writes the record that was read over the row, its status now ABORTED ...
AbortRow(c) ==
    /\ call[c].step = "rename" /\ call[c].scan \in dirs
    /\ row' = [row EXCEPT ![call[c].scan] = [call[c].seen EXCEPT !.status = "ABORTED"]]
    /\ Goes(c, "log")
    /\ UNCHANGED <<dirs, results, alive, ran, maker, work, deleted>>

\* ... and a line in the scan's log.
LogAbort(c) ==
    /\ call[c].step = "log" /\ row[call[c].scan] # NoRow
    /\ call' = [call EXCEPT ![c] =
                  IF @.fn = "open" THEN [@ EXCEPT !.step = "next", !.scan = NoScan, !.seen = NoRow]
                  ELSE IF @.fn = "delete" THEN [@ EXCEPT !.step = "unlink"]
                  ELSE Idle]
    /\ UNCHANGED <<disk, alive, ran, maker, work, deleted>>

\* A row that is gone before the abort or when it is logged, or a directory that is gone
\* again before the row is in it, is an error of the call or of the whole opening.
AbortFails(c) ==
    /\ \/ call[c].step \in {"abort", "log"} /\ row[call[c].scan] = NoRow
       \/ call[c].step = "rename" /\ call[c].scan \notin dirs
    /\ IF call[c].fn = "open"
       THEN Gone(Of[c])
       ELSE Returns(c) /\ UNCHANGED <<disk, alive, ran, maker, work, deleted>>

\* remove_dir_all: NotFound without a directory; the files, then the directory.
Unlink(c) ==
    /\ At(c, {"delete"}, "unlink")
    /\ IF call[c].scan \in dirs THEN Goes(c, "rmdir") ELSE Returns(c)
    /\ row' = [row EXCEPT ![call[c].scan] = NoRow]
    /\ results' = results \ {call[c].scan}
    /\ UNCHANGED <<dirs, alive, ran, maker, work, deleted>>

\* A directory something was written into meanwhile is not removed, and delete fails.
Rmdir(c) ==
    LET s == call[c].scan IN
    /\ At(c, {"delete"}, "rmdir")
    /\ IF row[s] = NoRow /\ s \notin results
       THEN dirs' = dirs \ {s} /\ deleted' = deleted \cup {s}
       ELSE UNCHANGED <<dirs, deleted>>
    /\ Returns(c)
    /\ UNCHANGED <<row, results, alive, ran, maker, work>>

-----------------------------------------------------------------------------

Next ==
    \/ \E p \in Procs : Start(p) \/ Dies(p)
    \/ \E c \in Clients :
        \/ OpenFails(c) \/ List(c) \/ Opened(c)
        \/ MakeDirectory(c) \/ FirstRow(c) \/ FirstRowFails(c)
        \/ Read(c) \/ Look(c)
        \/ FindRow(c) \/ AbortMakesDirectory(c) \/ AbortRow(c) \/ LogAbort(c) \/ AbortFails(c)
        \/ Unlink(c) \/ Rmdir(c)
    \/ \E c \in Clients, s \in Scans :
        \/ ListRow(c, s) \/ NextRow(c, s)
        \/ Create(c, s) \/ Ask(c, "record", s) \/ Ask(c, "delete", s)
    \/ \E s \in Scans :
        \/ WorkerGivesUp(s)
        \/ WorkerFindsRow(s, "saving") \/ WorkerFindsRow(s, "updating")
        \/ WorkerFindsRow(s, "restoring") \/ WorkerFindsRow(s, "finishing")
        \/ WorkerSaves(s) \/ WorkerUpdates(s) \/ WorkerFinishes(s)

Spec == Init /\ [][Next]_vars

-----------------------------------------------------------------------------
(* Properties. *)

\* Every process that could settle the scans of p sees p in /proc.  Nothing is promised of
\* the others: other_process_alive reads them as gone and their live scans are aborted.
Shown(p) == \A q \in Procs : Pid[q] # Pid[p] => p \in Sees[q]

\* "A row this process owns, one another live process is running ... are left as they
\* are": while the worker of a scan is at work, and its process is shown, its row is on
\* disk and active, whatever other threads and processes list, read, settle or delete
\* meanwhile.
LiveUntouched ==
    \A s \in Scans :
        /\ work[s] \in {"running", "saving", "updating", "restoring", "finishing"}
        /\ Shown(maker[s])
        =>
            /\ s \in dirs /\ row[s] = [status |-> "RUNNING", owner |-> maker[s]]
            /\ maker[s] \in alive

\* A scan "never reads RUNNING for ever": record() answers an active row only while
\* the process that owns it lives (where the owner was not stamped, a process of its
\* id).  The reader's own id is not looked up; recover settled what it left.
ReadsTrue ==
    [][\A c \in Clients :
        At(c, {"record"}, "look") /\ call'[c] = Idle /\ Of[c] \in alive'
        /\ IsActive(call[c].seen) =>
            LET owner == call[c].seen.owner IN
            \/ owner \in alive
            \/ owner \in Unstamped /\ (\E q \in alive : Pid[q] = Pid[owner])]_vars

\* A row update that finds its scan deleted under it may bring the directory back, but
\* only ended, so that it can be deleted again: never as a scan that seems to run.  The
\* worker of a process that is not shown may do so.
BackOnlyEnded ==
    \A s \in deleted : Shown(maker[s]) /\ row[s] # NoRow => ~IsActive(row[s])

\* Threads and processes count the directories without a common lock and stale updates
\* bring deleted ones back; still, of the scans of shown processes, each call under way
\* adds at most one past the limit.
StoreBounded ==
    Cardinality({s \in dirs : Shown(maker[s])}) <= MAX_SCANS + MaxCalls - 1

\* The types hold, a row or results being in a directory among them, and the directories
\* stay bounded.
StoreKept == TypeOK /\ StoreBounded

\* "Mark every scan a previous process left active as ABORTED": a scan that finished was
\* not left active, and stays FINISHED until it is deleted.
FinishedKept ==
    [][\A s \in Scans : row[s] # NoRow /\ row[s].status = "FINISHED" =>
                        row'[s] \in {row[s], NoRow}]_vars
=============================================================================
