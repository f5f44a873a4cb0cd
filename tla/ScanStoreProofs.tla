-------------------------- MODULE ScanStoreProofs --------------------------
(***************************************************************************)
(* A scan directory shared by any number of processes, each with any number *)
(* of threads: the scans of live processes that can be seen are left alone, *)
(* deleted ones do not come back active, the directories stay bounded and   *)
(* what record() answers is true.                                           *)
(***************************************************************************)
EXTENDS ScanStore, FiniteSetTheorems, TLAPS

-----------------------------------------------------------------------------
(* The inductive invariant. *)

Working == {"running", "saving", "updating", "restoring", "finishing"}

Call == [fn : {"idle", "open", "create", "record", "delete"},
         step : {"none", "list", "next", "mkdir", "row", "read", "look",
                 "abort", "write", "rename", "log", "unlink", "rmdir"},
         scan : Scans \cup {NoScan}, seen : Row \cup {NoRow},
         unread : SUBSET Scans, todo : SUBSET Scans]

Typed == TypeOK /\ call \in [Clients -> Call]

\* The steps of each call; only a thread of a live process makes one.
StepsOK(c) ==
    /\ call[c].fn # "idle" => Of[c] \in alive
    /\ call[c].fn = "idle" => call[c].step = "none"
    /\ call[c].fn = "open" =>
        c = Main[Of[c]] /\ call[c].step \in {"list", "next", "abort", "write", "rename", "log"}
    /\ call[c].fn = "create" => call[c].step \in {"mkdir", "row"}
    /\ call[c].fn = "record" =>
            call[c].step \in {"read", "look", "abort", "write", "rename", "log"}
    /\ call[c].fn = "delete" =>
        call[c].step \in {"read", "look", "abort", "write", "rename", "log", "unlink", "rmdir"}
    /\ call[c].step \notin {"none", "list", "next"} => call[c].scan \in Scans

\* No other thread does anything before the main thread has opened the store.
OpenedOK(c) == call[c].fn \notin {"idle", "open"} => call[Main[Of[c]]].fn # "open"

\* SCAN_CREATE_LOCK: one thread of a process makes a scan at a time.
LockOK(c) ==
    call[c].fn = "create" =>
        \A d \in Clients : Of[d] = Of[c] /\ call[d].fn = "create" => d = c

\* A process opens the store before it makes a scan; what it creates is its own, has no
\* worker yet and, once made, keeps its directory.
MakingOK(c) ==
    /\ call[c].fn = "open" => \A s \in Scans : maker[s] # Of[c]
    /\ \A s \in Scans : s \in call[c].todo => work[s] # "none"
    /\ call[c].fn = "create" => maker[call[c].scan] = Of[c] /\ work[call[c].scan] = "none"
    /\ call[c].step = "row" => call[c].scan \in dirs

\* A row that was read and may be acted on is about a scan whose worker started, and, of
\* a shown process, is over if the row said so; the reader's id is its own in the rows it
\* sees as active.
SeenOK(c) ==
    call[c].step = "look" =>
        /\ call[c].seen \in Row /\ call[c].seen.owner = maker[call[c].scan]
        /\ work[call[c].scan] # "none"
        /\ ~IsActive(call[c].seen) /\ Shown(maker[call[c].scan]) => work[call[c].scan] = "done"
        /\ IsActive(call[c].seen) /\ Pid[call[c].seen.owner] = Pid[Of[c]] =>
            call[c].seen.owner = Of[c]

\* What is aborted was active and its owner is dead, or not shown; what is removed has no
\* worker, or one of such a process.
AbortOK(c) ==
    /\ call[c].step \in {"abort", "write", "rename", "log"} =>
        /\ call[c].seen = [status |-> "RUNNING", owner |-> maker[call[c].scan]]
        /\ work[call[c].scan] # "none"
        /\ Shown(maker[call[c].scan]) => work[call[c].scan] = "done"
    /\ call[c].step \in {"unlink", "rmdir"} =>
        /\ work[call[c].scan] # "none"
        /\ Shown(maker[call[c].scan]) => work[call[c].scan] = "done"

\* A scan's files, its worker and the process that made it.
ScanOK(s) ==
    /\ row[s] # NoRow => row[s].owner = maker[s]
    /\ row[s] # NoRow \/ s \in results => work[s] # "none"
    /\ work[s] # "none" => maker[s] # NoProc
    /\ maker[s] # NoProc => maker[s] \in ran
    /\ work[s] \in Working => maker[s] \in alive
    /\ work[s] \in Working /\ Shown(maker[s]) =>
        s \in dirs /\ row[s] = [status |-> "RUNNING", owner |-> maker[s]]
    /\ work[s] = "restoring" => ~Shown(maker[s])
    /\ s \in deleted =>
        /\ work[s] # "none"
        /\ Shown(maker[s]) => work[s] = "done" /\ (row[s] # NoRow => ~IsActive(row[s]))

\* No two live processes have one id.
AliveOK == \A p, q \in alive : Pid[p] = Pid[q] => p = q

\* An active row of a dead process with p's id is one that p's opening has still to abort.
LeftOver(p, s) ==
    /\ maker[s] \notin {p, NoProc} /\ Pid[maker[s]] = Pid[p]
    /\ row[s] # NoRow /\ IsActive(row[s])
    =>
        /\ call[Main[p]].fn = "open"
        /\ \/ call[Main[p]].step = "list"
           \/ s \in call[Main[p]].unread \cup call[Main[p]].todo
           \/ /\ call[Main[p]].step \in {"abort", "write", "rename"}
              /\ call[Main[p]].scan = s

\* The directories of shown processes there are and the ones a call is about to make or
\* bring back.
Pending == {call[c].scan : c \in {d \in Clients : call[d].step \in {"mkdir", "write"}}}
InUse == {s \in dirs \cup Pending : Shown(maker[s])}
RoomOK ==
    /\ Cardinality(Busy) <= MaxCalls
    /\ Cardinality(InUse) <= MAX_SCANS + MaxCalls - 1

Inv ==
    /\ Typed
    /\ \A c \in Clients : /\ StepsOK(c) /\ OpenedOK(c) /\ LockOK(c)
                         /\ MakingOK(c) /\ SeenOK(c) /\ AbortOK(c)
    /\ \A s \in Scans : ScanOK(s)
    /\ AliveOK
    /\ \A p \in alive, s \in Scans : LeftOver(p, s)
    /\ RoomOK

-----------------------------------------------------------------------------
(* What the less simple steps do to a call. *)

\* A thread's call is replaced.
LEMMA CallReplaced ==
    ASSUME Inv, NEW c \in Clients, NEW new \in Call, call' = [call EXCEPT ![c] = new]
    PROVE  /\ call' \in [Clients -> Call] /\ call'[c] = new
           /\ \A d \in Clients : d # c => call'[d] = call[d]
BY DEF Inv, Typed

\* A thread goes to a step, or returns.
LEMMA GoesCall ==
    ASSUME Inv, NEW c \in Clients, NEW step, Goes(c, step)
    PROVE  /\ \A d \in Clients : d # c => call'[d] = call[d]
           /\ call'[c].fn = call[c].fn /\ call'[c].step = step /\ call'[c].scan = call[c].scan
           /\ call'[c].seen = call[c].seen
           /\ call'[c].unread = call[c].unread /\ call'[c].todo = call[c].todo
<1>1. call \in [Clients -> Call]
  BY DEF Inv, Typed
<1>2. call' = [call EXCEPT ![c] = [call[c] EXCEPT !.step = step]]
  BY DEF Goes
<1>3. call'[c] = [call[c] EXCEPT !.step = step]
      /\ \A d \in Clients : d # c => call'[d] = call[d]
  BY <1>1, <1>2
<1>4. QED BY <1>1, <1>3 DEF Call

LEMMA ReturnsCall ==
    ASSUME Inv, NEW c \in Clients, Returns(c)
    PROVE  call'[c] = Idle /\ \A d \in Clients : d # c => call'[d] = call[d]
BY DEF Inv, Typed, Returns

\* recover lists the directories.
LEMMA ListCall ==
    ASSUME Inv, NEW c \in Clients, List(c)
    PROVE  /\ call' \in [Clients -> Call] /\ \A d \in Clients : d # c => call'[d] = call[d]
           /\ call[c].fn = "open" /\ call'[c].fn = "open" /\ call'[c].step = "next"
           /\ call'[c].unread = dirs /\ call'[c].todo = call[c].todo
<1> DEFINE listing == [call[c] EXCEPT !.step = "next", !.unread = dirs]
<1>1. /\ call \in [Clients -> Call] /\ call[c].fn = "open" /\ dirs \subseteq Scans
      /\ call' = [call EXCEPT ![c] = listing]
  BY DEF List, At, Inv, Typed, TypeOK
<1>2. /\ listing \in Call /\ listing.fn = "open" /\ listing.step = "next"
      /\ listing.unread = dirs /\ listing.todo = call[c].todo
  BY <1>1 DEF Call
<1> HIDE DEF listing
<1>3. QED BY <1>1, <1>2, CallReplaced

\* The next row it reads is still to be looked at if it is active.
LEMMA ListRowCall ==
    ASSUME Inv, NEW c \in Clients, NEW s \in Scans, ListRow(c, s)
    PROVE  /\ call' \in [Clients -> Call] /\ \A d \in Clients : d # c => call'[d] = call[d]
           /\ call[c].fn = "open" /\ call'[c].fn = "open" /\ call'[c].step = "next"
           /\ call'[c].unread = call[c].unread \ {s}
           /\ \/ call'[c].todo = call[c].todo /\ ~(row[s] # NoRow /\ IsActive(row[s]))
              \/ call'[c].todo = call[c].todo \cup {s} /\ row[s] # NoRow
<1> DEFINE listed == [call[c] EXCEPT !.unread = @ \ {s}]
           found == [listed EXCEPT !.todo = @ \cup {s}]
<1>1. /\ call \in [Clients -> Call] /\ call[c].fn = "open" /\ call[c].step = "next"
      /\ call' = [call EXCEPT ![c] = IF row[s] # NoRow /\ IsActive(row[s])
                                     THEN found ELSE listed]
  BY DEF ListRow, At, Inv, Typed
<1>2. /\ listed \in Call /\ listed.fn = "open" /\ listed.step = "next"
      /\ listed.unread = call[c].unread \ {s} /\ listed.todo = call[c].todo
  BY <1>1 DEF Call
<1>3. /\ found \in Call /\ found.fn = "open" /\ found.step = "next"
      /\ found.unread = call[c].unread \ {s} /\ found.todo = call[c].todo \cup {s}
  BY <1>1 DEF Call
<1> HIDE DEF listed, found
<1>4. CASE row[s] # NoRow /\ IsActive(row[s])
  BY <1>1, <1>3, <1>4, CallReplaced
<1>5. CASE ~(row[s] # NoRow /\ IsActive(row[s]))
  BY <1>1, <1>2, <1>5, CallReplaced
<1>6. QED BY <1>4, <1>5

\* The next active row is skipped, or recover goes on to abort it.
LEMMA NextRowCall ==
    ASSUME Inv, NEW c \in Clients, NEW s \in Scans, NextRow(c, s)
    PROVE  /\ call' \in [Clients -> Call] /\ \A d \in Clients : d # c => call'[d] = call[d]
           /\ call[c].fn = "open" /\ call'[c].fn = "open" /\ call[c].step = "next"
           /\ call'[c].unread = call[c].unread
           /\ s \in call[c].todo /\ call'[c].todo = call[c].todo \ {s}
           /\ \/ /\ call'[c].step = "next"
                 /\ row[s] = NoRow \/ OtherProcessAlive(Of[c], maker[s])
              \/ /\ call'[c].step = "abort" /\ call'[c].scan = s
                 /\ call'[c].seen = [status |-> "RUNNING", owner |-> maker[s]]
                 /\ row[s] # NoRow /\ ~OtherProcessAlive(Of[c], maker[s])
<1> DEFINE seen == [status |-> "RUNNING", owner |-> maker[s]]
           rest == [call[c] EXCEPT !.todo = @ \ {s}]
           abort == [rest EXCEPT !.step = "abort", !.scan = s, !.seen = seen]
<1>1. /\ call \in [Clients -> Call] /\ call[c].fn = "open" /\ call[c].step = "next"
      /\ s \in call[c].todo
  BY DEF NextRow, At, Inv, Typed
<1>2. row[s] # NoRow => seen \in Row
  <2>1. row[s] # NoRow => row[s] \in Row /\ row[s].owner = maker[s]
    BY DEF Inv, ScanOK, Typed, TypeOK
  <2>2. QED BY <2>1 DEF Row, Active
<1> HIDE DEF seen
<1>3. /\ rest \in Call /\ rest.fn = "open" /\ rest.step = "next"
      /\ rest.unread = call[c].unread /\ rest.todo = call[c].todo \ {s}
  BY <1>1 DEF Call
<1>4. row[s] # NoRow => /\ abort \in Call /\ abort.fn = "open" /\ abort.step = "abort"
                        /\ abort.unread = call[c].unread /\ abort.todo = call[c].todo \ {s}
                        /\ abort.scan = s /\ abort.seen = seen
  BY <1>1, <1>2 DEF Call
<1>5. call' = [call EXCEPT ![c] = IF row[s] = NoRow \/ OtherProcessAlive(Of[c], maker[s])
                                  THEN rest ELSE abort]
  BY DEF NextRow, seen
<1> HIDE DEF rest, abort
<1>6. CASE row[s] = NoRow \/ OtherProcessAlive(Of[c], maker[s])
  BY <1>1, <1>3, <1>5, <1>6, CallReplaced
<1>7. CASE ~(row[s] = NoRow \/ OtherProcessAlive(Of[c], maker[s]))
  BY <1>1, <1>4, <1>5, <1>7, CallReplaced DEF seen
<1>8. QED BY <1>6, <1>7

\* An abort is logged and the call goes on.
LEMMA LogAbortCall ==
    ASSUME Inv, NEW c \in Clients, LogAbort(c)
    PROVE  /\ call' \in [Clients -> Call] /\ \A d \in Clients : d # c => call'[d] = call[d]
           /\ \/ /\ call[c].fn = "open" /\ call'[c].fn = "open" /\ call'[c].step = "next"
                 /\ call'[c].unread = call[c].unread /\ call'[c].todo = call[c].todo
              \/ /\ call[c].fn = "delete" /\ call'[c].fn = "delete" /\ call'[c].step = "unlink"
                 /\ call'[c].scan = call[c].scan /\ call'[c].todo = call[c].todo
              \/ call[c].fn # "open" /\ call'[c] = Idle
<1> DEFINE opening == [call[c] EXCEPT !.step = "next", !.scan = NoScan, !.seen = NoRow]
           deleting == [call[c] EXCEPT !.step = "unlink"]
<1>1. /\ call \in [Clients -> Call]
      /\ call' = [call EXCEPT ![c] = IF call[c].fn = "open" THEN opening
                                     ELSE IF call[c].fn = "delete" THEN deleting ELSE Idle]
  BY DEF LogAbort, Inv, Typed
<1>2. call[c] \in Call
  BY <1>1
<1>3. /\ opening \in Call /\ opening.fn = call[c].fn /\ opening.step = "next"
      /\ opening.unread = call[c].unread /\ opening.todo = call[c].todo
  BY <1>2 DEF Call
<1>4. /\ deleting \in Call /\ deleting.fn = call[c].fn /\ deleting.step = "unlink"
      /\ deleting.scan = call[c].scan /\ deleting.todo = call[c].todo
  BY <1>2 DEF Call
<1>5. Idle \in Call
  BY DEF Idle, Call
<1> HIDE DEF opening, deleting
<1>6. CASE call[c].fn = "open"
  BY <1>1, <1>3, <1>6, CallReplaced
<1>7. CASE call[c].fn = "delete"
  BY <1>1, <1>4, <1>7, CallReplaced
<1>8. CASE call[c].fn \notin {"open", "delete"}
  BY <1>1, <1>5, <1>8, CallReplaced
<1>9. QED BY <1>6, <1>7, <1>8

\* A row is read, if there is one.
LEMMA ReadCall ==
    ASSUME Inv, NEW c \in Clients, Read(c)
    PROVE  /\ \A d \in Clients : d # c => call'[d] = call[d]
           /\ call[c].fn \in {"record", "delete"}
           /\ \/ call'[c] = Idle
              \/ /\ call'[c].fn = call[c].fn /\ call'[c].step = "look"
                 /\ call'[c].scan = call[c].scan /\ call'[c].todo = call[c].todo
                 /\ call'[c].seen = row[call[c].scan] /\ row[call[c].scan] # NoRow
<1> DEFINE read == row[call[c].scan]
           looking == [call[c] EXCEPT !.seen = read, !.step = "look"]
<1>1. /\ call \in [Clients -> Call] /\ call[c].fn \in {"record", "delete"}
      /\ call' = [call EXCEPT ![c] = IF read = NoRow THEN Idle ELSE looking]
  BY DEF Read, At, Returns, Inv, Typed
<1> HIDE DEF read
<1>2. /\ looking.fn = call[c].fn /\ looking.step = "look" /\ looking.scan = call[c].scan
      /\ looking.todo = call[c].todo /\ looking.seen = read
  BY <1>1 DEF Call
<1> HIDE DEF looking
<1>3. QED BY <1>1, <1>2 DEF read

\* A row that was read is aborted, deleted or answered.
LEMMA LookCall ==
    ASSUME Inv, NEW c \in Clients, Look(c)
    PROVE  /\ \A d \in Clients : d # c => call'[d] = call[d]
           /\ call[c].fn \in {"record", "delete"} /\ call[c].step = "look"
           /\ \/ call'[c] = Idle
              \/ /\ call'[c].fn = call[c].fn /\ call'[c].scan = call[c].scan
                 /\ call'[c].seen = call[c].seen /\ call'[c].todo = call[c].todo
                 /\ \/ call'[c].step = "abort" /\ ~LeftAlone(Of[c], call[c].seen)
                    \/ /\ call'[c].step = "unlink" /\ call[c].fn = "delete"
                       /\ ~IsActive(call[c].seen)
<1>1. call[c].fn \in {"record", "delete"} /\ call[c].step = "look"
  BY DEF Look, At
<1>2. CASE ~LeftAlone(Of[c], call[c].seen)
  <2>1. Goes(c, "abort")
    BY <1>2 DEF Look
  <2>2. QED BY <1>1, <1>2, <2>1, GoesCall
<1>3. CASE LeftAlone(Of[c], call[c].seen) /\ call[c].fn = "delete" /\ ~IsActive(call[c].seen)
  <2>1. Goes(c, "unlink")
    BY <1>3 DEF Look
  <2>2. QED BY <1>1, <1>3, <2>1, GoesCall
<1>4. CASE LeftAlone(Of[c], call[c].seen) /\ ~(call[c].fn = "delete" /\ ~IsActive(call[c].seen))
  <2>1. Returns(c)
    BY <1>4 DEF Look
  <2>2. QED BY <1>1, <2>1, ReturnsCall
<1>5. QED BY <1>2, <1>3, <1>4

\* The files of a scan are removed, and its directory is next if there is one.
LEMMA UnlinkCall ==
    ASSUME Inv, NEW c \in Clients, Unlink(c)
    PROVE  /\ \A d \in Clients : d # c => call'[d] = call[d]
           /\ call[c].fn = "delete" /\ call[c].step = "unlink"
           /\ \/ call'[c] = Idle
              \/ /\ call'[c].fn = "delete" /\ call'[c].step = "rmdir"
                 /\ call'[c].scan = call[c].scan /\ call'[c].todo = call[c].todo
<1>1. call[c].fn = "delete" /\ call[c].step = "unlink" /\ (Goes(c, "rmdir") \/ Returns(c))
  BY DEF Unlink, At
<1>2. QED BY <1>1, GoesCall, ReturnsCall


\* A process that goes leaves what others abort or remove as it was.
LEMMA GoneAbort ==
    ASSUME Inv, NEW p, Gone(p), NEW e \in Clients
    PROVE  AbortOK(e)'
<1>1. AbortOK(e) /\ StepsOK(e)
  BY DEF Inv
<1>2. UNCHANGED maker /\ call'[e] \in {Idle, call[e]}
  BY DEF Gone
<1>3. \A z \in Scans : /\ work[z] # "none" => work'[z] # "none"
                       /\ work[z] = "done" => work'[z] = "done"
  BY DEF Gone
<1>4. call[e].step \in {"abort", "write", "rename", "log", "unlink", "rmdir"} =>
        call[e].scan \in Scans
  BY <1>1 DEF StepsOK
<1>5. QED BY <1>1, <1>2, <1>3, <1>4 DEF AbortOK, Idle

\* A process is gone with its threads; the files stay.
LEMMA GoneScan ==
    ASSUME Inv, NEW p \in Procs, Gone(p), NEW z \in Scans
    PROVE  ScanOK(z)'
<1>1. ScanOK(z) /\ UNCHANGED <<dirs, row, results, ran, maker, deleted>> /\ alive' = alive \ {p}
  BY DEF Inv, Gone, disk
<1>2. work'[z] = IF maker[z] = p THEN "done" ELSE work[z]
  BY DEF Gone
<1>3. CASE maker[z] = p
  <2>1. work'[z] = "done"
    BY <1>2, <1>3
  <2>2. maker[z] # NoProc
    BY <1>3, StoreParameters
  <2>3. row[z] # NoRow /\ Shown(maker[z]) /\ z \in deleted => ~IsActive(row[z])
    BY <1>1 DEF ScanOK
  <2>4. "done" \notin Working
    BY DEF Working
  <2>5. QED BY <1>1, <1>3, <2>1, <2>2, <2>3, <2>4 DEF ScanOK
<1>4. CASE maker[z] # p
  <2>1. work'[z] = work[z]
    BY <1>2, <1>4
  <2>2. QED BY <1>1, <1>4, <2>1 DEF ScanOK
<1>5. QED BY <1>3, <1>4

\* What a thread does that is not opening its store leaves no active row behind an opening.
LEMMA NotOpening ==
    ASSUME Inv, NEW q \in alive, NEW z \in Scans, NEW c \in Clients, call[c].fn # "open",
           \A d \in Clients : d # c => call'[d] = call[d],
           maker'[z] = maker[z],
           \/ row'[z] = row[z] \/ row'[z] = NoRow \/ ~IsActive(row'[z])
    PROVE  LeftOver(q, z)'
<1>1. LeftOver(q, z) /\ Main[q] \in Clients
  BY StoreParameters DEF Inv, Typed, TypeOK
<1>2. CASE Main[q] = c
  BY <1>1, <1>2 DEF LeftOver
<1>3. CASE Main[q] # c
  BY <1>1, <1>3 DEF LeftOver
<1>4. QED BY <1>2, <1>3

\* Nor does a step of no call that leaves the row alone or ends it.
LEMMA NoCallMade ==
    ASSUME Inv, NEW q \in alive, NEW z \in Scans, UNCHANGED call, maker'[z] = maker[z],
           \/ row'[z] = row[z] \/ row'[z] = NoRow \/ ~IsActive(row'[z])
    PROVE  LeftOver(q, z)'
<1>1. LeftOver(q, z)
  BY DEF Inv
<1>2. QED BY <1>1 DEF LeftOver

\* A process that goes takes the opening of no other with it.
LEMMA GoneLeftOver ==
    ASSUME Inv, NEW p, Gone(p), NEW q \in alive', NEW z \in Scans
    PROVE  LeftOver(q, z)'
<1>1. /\ LeftOver(q, z) /\ q # p /\ q \in Procs /\ UNCHANGED <<maker, row>>
      /\ call' = [c \in Clients |-> IF Of[c] = p THEN Idle ELSE call[c]]
  BY DEF Inv, Gone, disk, Typed, TypeOK
<1>2. call'[Main[q]] = call[Main[q]]
  BY <1>1, StoreParameters
<1>3. QED BY <1>1, <1>2 DEF LeftOver

\* A thread that has nothing to add after its step asks for no more directories.
LEMMA StepInUse ==
    ASSUME Inv, NEW c \in Clients, \A d \in Clients : d # c => call'[d] = call[d],
           call'[c].step \notin {"mkdir", "write"}, dirs' \subseteq dirs \cup Pending,
           UNCHANGED maker, NEW x \in InUse'
    PROVE  x \in InUse
<1>1. Pending' \subseteq Pending
  BY DEF Pending
<1>2. x \in dirs' \cup Pending' /\ Shown(maker'[x])
  BY DEF InUse, Shown
<1>3. x \in dirs \cup Pending /\ Shown(maker[x])
  BY <1>1, <1>2
<1>4. QED BY <1>3 DEF InUse

\* Nor does the end of a process.
LEMMA GoneInUse ==
    ASSUME Inv, NEW p, Gone(p), NEW x \in InUse'
    PROVE  x \in InUse
<1>1. UNCHANGED <<dirs, maker>> /\ \A c \in Clients : call'[c] \in {Idle, call[c]}
  BY DEF Gone, disk
<1>2. Pending' \subseteq Pending
  BY <1>1 DEF Pending, Idle
<1>3. x \in dirs' \cup Pending' /\ Shown(maker'[x])
  BY DEF InUse, Shown
<1>4. QED BY <1>1, <1>2, <1>3 DEF InUse

\* Nor does a worker: the directory of a shown process's scan is there.
LEMMA WorkerInUse ==
    ASSUME Inv, NEW s \in Scans, work[s] \in Working,
           UNCHANGED <<call, maker>>, dirs' \subseteq dirs \cup {s}, NEW x \in InUse'
    PROVE  x \in InUse
<1>1. Pending' = Pending
  BY DEF Pending
<1>2. x \in dirs' \cup Pending' /\ Shown(maker'[x])
  BY DEF InUse, Shown
<1>3. Shown(maker[s]) => s \in dirs
  BY DEF Inv, ScanOK
<1>4. x \in dirs \cup Pending /\ Shown(maker[x])
  BY <1>1, <1>2, <1>3
<1>5. QED BY <1>4 DEF InUse

-----------------------------------------------------------------------------
(* The steps of the calls. *)

\* A step of one call is as the code orders them.
LEMMA StepsKept ==
    ASSUME Inv, Next, NEW e \in Clients
    PROVE  StepsOK(e)'
<1>1. ASSUME NEW p \in Procs, Start(p) PROVE StepsOK(e)'
  BY <1>1, StoreParameters DEF Start, Idle, disk, Inv, Typed, TypeOK, Call, StepsOK
<1>2. ASSUME NEW p \in Procs, Dies(p) PROVE StepsOK(e)'
  BY <1>2, StoreParameters DEF Dies, Gone, Idle, disk, Inv, Typed, TypeOK, Call, StepsOK
<1>3. ASSUME NEW c \in Clients, OpenFails(c) PROVE StepsOK(e)'
  BY <1>3, StoreParameters
  DEF OpenFails, At, Gone, Idle, disk, Inv, Typed, TypeOK, Call, StepsOK
<1>4. ASSUME NEW c \in Clients, List(c) PROVE StepsOK(e)'
  BY <1>4, StoreParameters DEF List, At, disk, Inv, Typed, TypeOK, Call, StepsOK
<1>5. ASSUME NEW c \in Clients, Opened(c) PROVE StepsOK(e)'
  BY <1>5, StoreParameters
  DEF Opened, At, Returns, Idle, disk, Inv, Typed, TypeOK, Call, StepsOK
<1>6. ASSUME NEW c \in Clients, MakeDirectory(c) PROVE StepsOK(e)'
  BY <1>6, StoreParameters DEF MakeDirectory, At, Goes, disk, Inv, Typed, TypeOK, Call, StepsOK
<1>7. ASSUME NEW c \in Clients, FirstRow(c) PROVE StepsOK(e)'
  BY <1>7, StoreParameters
  DEF FirstRow, At, Returns, Idle, disk, Inv, Typed, TypeOK, Call, StepsOK
<1>8. ASSUME NEW c \in Clients, FirstRowFails(c) PROVE StepsOK(e)'
  BY <1>8, StoreParameters
  DEF FirstRowFails, At, Returns, Idle, disk, Inv, Typed, TypeOK, Call, StepsOK
<1>9. ASSUME NEW c \in Clients, Read(c) PROVE StepsOK(e)'
  <2>1. StepsOK(c) /\ StepsOK(e) /\ UNCHANGED alive
    BY <1>9 DEF Inv, Read
  <2>2. CASE e = c
    <3>1. CASE call'[c] = Idle
      BY <2>2, <3>1 DEF StepsOK, Idle
    <3>2. CASE call'[c] # Idle
      <4>1. call'[c].fn = call[c].fn /\ call'[c].scan = call[c].scan
        BY <1>9, <3>2, ReadCall
      <4>2. /\ call[c].fn \in {"record", "delete"}
            /\ call'[c].step \in {"look", "abort", "unlink", "rmdir"}
            /\ call'[c].step \in {"unlink", "rmdir"} => call[c].fn = "delete"
        BY <1>9, <3>2, ReadCall
      <4>3. call[c].scan \in Scans
        BY <1>9, <2>1 DEF Read, At, StepsOK
      <4>4. QED BY <2>1, <2>2, <4>1, <4>2, <4>3 DEF StepsOK
    <3>3. QED BY <3>1, <3>2
  <2>3. CASE e # c
    BY <1>9, <2>1, <2>3, ReadCall DEF StepsOK
  <2>4. QED BY <2>2, <2>3
<1>10. ASSUME NEW c \in Clients, Look(c) PROVE StepsOK(e)'
  <2>1. StepsOK(c) /\ StepsOK(e) /\ UNCHANGED alive
    BY <1>10 DEF Inv, Look
  <2>2. CASE e = c
    <3>1. CASE call'[c] = Idle
      BY <2>2, <3>1 DEF StepsOK, Idle
    <3>2. CASE call'[c] # Idle
      <4>1. call'[c].fn = call[c].fn /\ call'[c].scan = call[c].scan
        BY <1>10, <3>2, LookCall
      <4>2. /\ call[c].fn \in {"record", "delete"}
            /\ call'[c].step \in {"look", "abort", "unlink", "rmdir"}
            /\ call'[c].step \in {"unlink", "rmdir"} => call[c].fn = "delete"
        BY <1>10, <3>2, LookCall
      <4>3. call[c].scan \in Scans
        BY <1>10, <2>1 DEF Look, At, StepsOK
      <4>4. QED BY <2>1, <2>2, <4>1, <4>2, <4>3 DEF StepsOK
    <3>3. QED BY <3>1, <3>2
  <2>3. CASE e # c
    BY <1>10, <2>1, <2>3, LookCall DEF StepsOK
  <2>4. QED BY <2>2, <2>3
<1>11. ASSUME NEW c \in Clients, FindRow(c) PROVE StepsOK(e)'
  BY <1>11, StoreParameters DEF FindRow, Goes, disk, Inv, Typed, TypeOK, Call, StepsOK
<1>12. ASSUME NEW c \in Clients, AbortMakesDirectory(c) PROVE StepsOK(e)'
  BY <1>12, StoreParameters
  DEF AbortMakesDirectory, Goes, disk, Inv, Typed, TypeOK, Call, StepsOK
<1>13. ASSUME NEW c \in Clients, AbortRow(c) PROVE StepsOK(e)'
  BY <1>13, StoreParameters DEF AbortRow, Goes, disk, Inv, Typed, TypeOK, Call, StepsOK
<1>14. ASSUME NEW c \in Clients, LogAbort(c) PROVE StepsOK(e)'
  BY <1>14, StoreParameters DEF LogAbort, Idle, disk, Inv, Typed, TypeOK, Call, StepsOK
<1>15. ASSUME NEW c \in Clients, AbortFails(c) PROVE StepsOK(e)'
  <2>1. CASE call[c].fn = "open"
    BY <1>15, <2>1 DEF AbortFails, Gone, Idle, Inv, StepsOK
  <2>2. CASE call[c].fn # "open"
    BY <1>15, <2>2, ReturnsCall DEF AbortFails, Idle, Inv, StepsOK
  <2>3. QED BY <2>1, <2>2
<1>16. ASSUME NEW c \in Clients, Unlink(c) PROVE StepsOK(e)'
  <2>1. StepsOK(c) /\ StepsOK(e) /\ UNCHANGED alive
    BY <1>16 DEF Inv, Unlink
  <2>2. CASE e = c
    <3>1. CASE call'[c] = Idle
      BY <2>2, <3>1 DEF StepsOK, Idle
    <3>2. CASE call'[c] # Idle
      <4>1. call'[c].fn = call[c].fn /\ call'[c].scan = call[c].scan
        BY <1>16, <3>2, UnlinkCall
      <4>2. /\ call[c].fn \in {"record", "delete"}
            /\ call'[c].step \in {"look", "abort", "unlink", "rmdir"}
            /\ call'[c].step \in {"unlink", "rmdir"} => call[c].fn = "delete"
        BY <1>16, <3>2, UnlinkCall
      <4>3. call[c].scan \in Scans
        BY <1>16, <2>1 DEF Unlink, At, StepsOK
      <4>4. QED BY <2>1, <2>2, <4>1, <4>2, <4>3 DEF StepsOK
    <3>3. QED BY <3>1, <3>2
  <2>3. CASE e # c
    BY <1>16, <2>1, <2>3, UnlinkCall DEF StepsOK
  <2>4. QED BY <2>2, <2>3
<1>17. ASSUME NEW c \in Clients, Rmdir(c) PROVE StepsOK(e)'
  BY <1>17, StoreParameters
  DEF Rmdir, At, Returns, Idle, disk, Inv, Typed, TypeOK, Call, StepsOK
<1>18. ASSUME NEW c \in Clients, NEW s \in Scans, ListRow(c, s) PROVE StepsOK(e)'
  BY <1>18, StoreParameters DEF ListRow, At, disk, Inv, Typed, TypeOK, Call, StepsOK
<1>19. ASSUME NEW c \in Clients, NEW s \in Scans, NextRow(c, s) PROVE StepsOK(e)'
  BY <1>19, StoreParameters DEF NextRow, At, disk, Inv, Typed, TypeOK, Call, StepsOK
<1>20. ASSUME NEW c \in Clients, NEW s \in Scans, Create(c, s) PROVE StepsOK(e)'
  BY <1>20, StoreParameters DEF Create, Calls, Idle, disk, Inv, Typed, TypeOK, Call, StepsOK
<1>21. ASSUME NEW c \in Clients, NEW s \in Scans, NEW fn \in {"record", "delete"}, Ask(c, fn, s)
      PROVE  StepsOK(e)'
  BY <1>21, StoreParameters DEF Ask, Calls, Idle, disk, Inv, Typed, TypeOK, Call, StepsOK
<1>22. ASSUME NEW s \in Scans, WorkerSaves(s) PROVE StepsOK(e)'
  BY <1>22, StoreParameters DEF WorkerSaves, disk, Inv, Typed, TypeOK, Call, StepsOK
<1>23. ASSUME NEW s \in Scans, WorkerUpdates(s) PROVE StepsOK(e)'
  BY <1>23, StoreParameters DEF WorkerUpdates, disk, Inv, Typed, TypeOK, Call, StepsOK
<1>24. ASSUME NEW s \in Scans, WorkerFinishes(s) PROVE StepsOK(e)'
  BY <1>24, StoreParameters DEF WorkerFinishes, disk, Inv, Typed, TypeOK, Call, StepsOK
<1>25. ASSUME NEW s \in Scans, WorkerGivesUp(s) PROVE StepsOK(e)'
  BY <1>25, StoreParameters DEF WorkerGivesUp, disk, Inv, Typed, TypeOK, Call, StepsOK
<1>26. ASSUME NEW s \in Scans, NEW next \in {"saving", "updating", "restoring", "finishing"},
             WorkerFindsRow(s, next)
      PROVE  StepsOK(e)'
  BY <1>26, StoreParameters DEF WorkerFindsRow, disk, Inv, Typed, TypeOK, Call, StepsOK
<1>27. QED
  BY <1>1, <1>2, <1>3, <1>4, <1>5, <1>6, <1>7, <1>8, <1>9, <1>10, <1>11, <1>12, <1>13, <1>14,
     <1>15, <1>16, <1>17, <1>18, <1>19, <1>20, <1>21, <1>22, <1>23, <1>24, <1>25, <1>26 DEF
     Next

\* An opening starts with its process.
LEMMA OpenedKept ==
    ASSUME Inv, Next, NEW e \in Clients
    PROVE  OpenedOK(e)'
<1>1. ASSUME NEW p \in Procs, Start(p) PROVE OpenedOK(e)'
  <2>1. OpenedOK(e) /\ StepsOK(e) /\ p \notin alive /\ Main[p] \in Clients /\ Of[Main[p]] = p
    BY <1>1, StoreParameters DEF Inv, Start, Typed, TypeOK
  <2>2. /\ call'[Main[p]].fn = "open"
        /\ \A d \in Clients : d # Main[p] => call'[d] = call[d]
    BY <1>1, <2>1 DEF Start, Idle, Inv, Typed
  <2>3. Main[Of[e]] \in Clients
    BY StoreParameters
  <2>4. Of[e] = p => call[e].fn = "idle"
    BY <2>1 DEF StepsOK
  <2>5. Main[Of[e]] = Main[p] => Of[e] = p
    BY <2>1, StoreParameters
  <2>6. QED BY <2>1, <2>2, <2>3, <2>4, <2>5 DEF OpenedOK
<1>2. ASSUME NEW p \in Procs, Dies(p) PROVE OpenedOK(e)'
  BY <1>2, StoreParameters DEF Dies, Gone, Idle, disk, Inv, Typed, TypeOK, OpenedOK
<1>3. ASSUME NEW c \in Clients, OpenFails(c) PROVE OpenedOK(e)'
  BY <1>3, StoreParameters DEF OpenFails, At, Gone, Idle, disk, Inv, Typed, TypeOK, OpenedOK
<1>4. ASSUME NEW c \in Clients, List(c) PROVE OpenedOK(e)'
  <2>1. \A d \in Clients : call'[d].fn = call[d].fn
    BY <1>4, ListCall
  <2>2. Main[Of[e]] \in Clients
    BY StoreParameters
  <2>3. QED BY <2>1, <2>2 DEF Inv, OpenedOK
<1>5. ASSUME NEW c \in Clients, Opened(c) PROVE OpenedOK(e)'
  BY <1>5, StoreParameters DEF Opened, At, Returns, Idle, disk, Inv, Typed, TypeOK, OpenedOK
<1>6. ASSUME NEW c \in Clients, MakeDirectory(c) PROVE OpenedOK(e)'
  BY <1>6, StoreParameters DEF MakeDirectory, At, Goes, disk, Inv, Typed, TypeOK, OpenedOK
<1>7. ASSUME NEW c \in Clients, FirstRow(c) PROVE OpenedOK(e)'
  BY <1>7, StoreParameters DEF FirstRow, At, Returns, Idle, disk, Inv, Typed, TypeOK, OpenedOK
<1>8. ASSUME NEW c \in Clients, FirstRowFails(c) PROVE OpenedOK(e)'
  BY <1>8, StoreParameters
  DEF FirstRowFails, At, Returns, Idle, disk, Inv, Typed, TypeOK, OpenedOK
<1>9. ASSUME NEW c \in Clients, Read(c) PROVE OpenedOK(e)'
  <2>1. /\ OpenedOK(e) /\ call[c].fn # "open" /\ call[c].fn # "idle"
        /\ Main[Of[e]] \in Clients
    BY <1>9, ReadCall, StoreParameters DEF Inv
  <2>2. \A d \in Clients : call'[d].fn \in {call[d].fn, "idle"}
    BY <1>9, ReadCall DEF Idle
  <2>3. QED BY <2>1, <2>2 DEF OpenedOK
<1>10. ASSUME NEW c \in Clients, Look(c) PROVE OpenedOK(e)'
  <2>1. /\ OpenedOK(e) /\ call[c].fn # "open" /\ call[c].fn # "idle"
        /\ Main[Of[e]] \in Clients
    BY <1>10, LookCall, StoreParameters DEF Inv
  <2>2. \A d \in Clients : call'[d].fn \in {call[d].fn, "idle"}
    BY <1>10, LookCall DEF Idle
  <2>3. QED BY <2>1, <2>2 DEF OpenedOK
<1>11. ASSUME NEW c \in Clients, FindRow(c) PROVE OpenedOK(e)'
  BY <1>11, StoreParameters DEF FindRow, Goes, disk, Inv, Typed, TypeOK, OpenedOK
<1>12. ASSUME NEW c \in Clients, AbortMakesDirectory(c) PROVE OpenedOK(e)'
  BY <1>12, StoreParameters DEF AbortMakesDirectory, Goes, disk, Inv, Typed, TypeOK, OpenedOK
<1>13. ASSUME NEW c \in Clients, AbortRow(c) PROVE OpenedOK(e)'
  BY <1>13, StoreParameters DEF AbortRow, Goes, disk, Inv, Typed, TypeOK, OpenedOK
<1>14. ASSUME NEW c \in Clients, LogAbort(c) PROVE OpenedOK(e)'
  BY <1>14, StoreParameters DEF LogAbort, Idle, disk, Inv, Typed, TypeOK, OpenedOK
<1>15. ASSUME NEW c \in Clients, AbortFails(c) PROVE OpenedOK(e)'
  BY <1>15, StoreParameters
  DEF AbortFails, Gone, Returns, Idle, disk, Inv, Typed, TypeOK, OpenedOK
<1>16. ASSUME NEW c \in Clients, Unlink(c) PROVE OpenedOK(e)'
  <2>1. /\ OpenedOK(e) /\ call[c].fn # "open" /\ call[c].fn # "idle"
        /\ Main[Of[e]] \in Clients
    BY <1>16, UnlinkCall, StoreParameters DEF Inv
  <2>2. \A d \in Clients : call'[d].fn \in {call[d].fn, "idle"}
    BY <1>16, UnlinkCall DEF Idle
  <2>3. QED BY <2>1, <2>2 DEF OpenedOK
<1>17. ASSUME NEW c \in Clients, Rmdir(c) PROVE OpenedOK(e)'
  BY <1>17, StoreParameters DEF Rmdir, At, Returns, Idle, disk, Inv, Typed, TypeOK, OpenedOK
<1>18. ASSUME NEW c \in Clients, NEW s \in Scans, ListRow(c, s) PROVE OpenedOK(e)'
  BY <1>18, StoreParameters DEF ListRow, At, disk, Inv, Typed, TypeOK, OpenedOK
<1>19. ASSUME NEW c \in Clients, NEW s \in Scans, NextRow(c, s) PROVE OpenedOK(e)'
  BY <1>19, StoreParameters DEF NextRow, At, disk, Inv, Typed, TypeOK, OpenedOK
<1>20. ASSUME NEW c \in Clients, NEW s \in Scans, Create(c, s) PROVE OpenedOK(e)'
  BY <1>20, StoreParameters DEF Create, Calls, Idle, disk, Inv, Typed, TypeOK, OpenedOK
<1>21. ASSUME NEW c \in Clients, NEW s \in Scans, NEW fn \in {"record", "delete"}, Ask(c, fn, s)
      PROVE  OpenedOK(e)'
  BY <1>21, StoreParameters DEF Ask, Calls, Idle, disk, Inv, Typed, TypeOK, OpenedOK
<1>22. ASSUME NEW s \in Scans, WorkerSaves(s) PROVE OpenedOK(e)'
  BY <1>22, StoreParameters DEF WorkerSaves, disk, Inv, Typed, TypeOK, OpenedOK
<1>23. ASSUME NEW s \in Scans, WorkerUpdates(s) PROVE OpenedOK(e)'
  BY <1>23, StoreParameters DEF WorkerUpdates, disk, Inv, Typed, TypeOK, OpenedOK
<1>24. ASSUME NEW s \in Scans, WorkerFinishes(s) PROVE OpenedOK(e)'
  BY <1>24, StoreParameters DEF WorkerFinishes, disk, Inv, Typed, TypeOK, OpenedOK
<1>25. ASSUME NEW s \in Scans, WorkerGivesUp(s) PROVE OpenedOK(e)'
  BY <1>25, StoreParameters DEF WorkerGivesUp, disk, Inv, Typed, TypeOK, OpenedOK
<1>26. ASSUME NEW s \in Scans, NEW next \in {"saving", "updating", "restoring", "finishing"},
             WorkerFindsRow(s, next)
      PROVE  OpenedOK(e)'
  BY <1>26, StoreParameters DEF WorkerFindsRow, disk, Inv, Typed, TypeOK, OpenedOK
<1>27. QED
  BY <1>1, <1>2, <1>3, <1>4, <1>5, <1>6, <1>7, <1>8, <1>9, <1>10, <1>11, <1>12, <1>13, <1>14,
     <1>15, <1>16, <1>17, <1>18, <1>19, <1>20, <1>21, <1>22, <1>23, <1>24, <1>25, <1>26 DEF
     Next

\* Nobody else creates while a thread holds the lock.
LEMMA LockKept ==
    ASSUME Inv, Next, NEW e \in Clients
    PROVE  LockOK(e)'
<1>1. ASSUME NEW p \in Procs, Start(p) PROVE LockOK(e)'
  BY <1>1 DEF Start, Idle, disk, Inv, Typed, LockOK
<1>2. ASSUME NEW p \in Procs, Dies(p) PROVE LockOK(e)'
  BY <1>2 DEF Dies, Gone, Idle, disk, Inv, Typed, LockOK
<1>3. ASSUME NEW c \in Clients, OpenFails(c) PROVE LockOK(e)'
  BY <1>3 DEF OpenFails, At, Gone, Idle, disk, Inv, Typed, LockOK
<1>4. ASSUME NEW c \in Clients, List(c) PROVE LockOK(e)'
  BY <1>4 DEF List, At, disk, Inv, Typed, LockOK
<1>5. ASSUME NEW c \in Clients, Opened(c) PROVE LockOK(e)'
  BY <1>5 DEF Opened, At, Returns, Idle, disk, Inv, Typed, LockOK
<1>6. ASSUME NEW c \in Clients, MakeDirectory(c) PROVE LockOK(e)'
  BY <1>6 DEF MakeDirectory, At, Goes, disk, Inv, Typed, LockOK
<1>7. ASSUME NEW c \in Clients, FirstRow(c) PROVE LockOK(e)'
  BY <1>7 DEF FirstRow, At, Returns, Idle, disk, Inv, Typed, LockOK
<1>8. ASSUME NEW c \in Clients, FirstRowFails(c) PROVE LockOK(e)'
  BY <1>8 DEF FirstRowFails, At, Returns, Idle, disk, Inv, Typed, LockOK
<1>9. ASSUME NEW c \in Clients, Read(c) PROVE LockOK(e)'
  <2>1. \A d \in Clients : call'[d].fn = "create" => call[d].fn = "create"
    BY <1>9, ReadCall DEF Idle
  <2>2. QED BY <2>1 DEF Inv, LockOK
<1>10. ASSUME NEW c \in Clients, Look(c) PROVE LockOK(e)'
  <2>1. \A d \in Clients : call'[d].fn = "create" => call[d].fn = "create"
    BY <1>10, LookCall DEF Idle
  <2>2. QED BY <2>1 DEF Inv, LockOK
<1>11. ASSUME NEW c \in Clients, FindRow(c) PROVE LockOK(e)'
  BY <1>11 DEF FindRow, Goes, disk, Inv, Typed, LockOK
<1>12. ASSUME NEW c \in Clients, AbortMakesDirectory(c) PROVE LockOK(e)'
  BY <1>12 DEF AbortMakesDirectory, Goes, disk, Inv, Typed, LockOK
<1>13. ASSUME NEW c \in Clients, AbortRow(c) PROVE LockOK(e)'
  BY <1>13 DEF AbortRow, Goes, disk, Inv, Typed, LockOK
<1>14. ASSUME NEW c \in Clients, LogAbort(c) PROVE LockOK(e)'
  BY <1>14 DEF LogAbort, Idle, disk, Inv, Typed, LockOK
<1>15. ASSUME NEW c \in Clients, AbortFails(c) PROVE LockOK(e)'
  BY <1>15 DEF AbortFails, Gone, Returns, Idle, disk, Inv, Typed, LockOK
<1>16. ASSUME NEW c \in Clients, Unlink(c) PROVE LockOK(e)'
  <2>1. \A d \in Clients : call'[d].fn = "create" => call[d].fn = "create"
    BY <1>16, UnlinkCall DEF Idle
  <2>2. QED BY <2>1 DEF Inv, LockOK
<1>17. ASSUME NEW c \in Clients, Rmdir(c) PROVE LockOK(e)'
  BY <1>17 DEF Rmdir, At, Returns, Idle, disk, Inv, Typed, LockOK
<1>18. ASSUME NEW c \in Clients, NEW s \in Scans, ListRow(c, s) PROVE LockOK(e)'
  BY <1>18 DEF ListRow, At, disk, Inv, Typed, LockOK
<1>19. ASSUME NEW c \in Clients, NEW s \in Scans, NextRow(c, s) PROVE LockOK(e)'
  BY <1>19 DEF NextRow, At, disk, Inv, Typed, LockOK
<1>20. ASSUME NEW c \in Clients, NEW s \in Scans, Create(c, s) PROVE LockOK(e)'
  BY <1>20 DEF Create, Calls, Idle, disk, Inv, Typed, LockOK
<1>21. ASSUME NEW c \in Clients, NEW s \in Scans, NEW fn \in {"record", "delete"}, Ask(c, fn, s)
      PROVE  LockOK(e)'
  BY <1>21 DEF Ask, Calls, Idle, disk, Inv, Typed, LockOK
<1>22. ASSUME NEW s \in Scans, WorkerSaves(s) PROVE LockOK(e)'
  BY <1>22 DEF WorkerSaves, disk, Inv, Typed, LockOK
<1>23. ASSUME NEW s \in Scans, WorkerUpdates(s) PROVE LockOK(e)'
  BY <1>23 DEF WorkerUpdates, disk, Inv, Typed, LockOK
<1>24. ASSUME NEW s \in Scans, WorkerFinishes(s) PROVE LockOK(e)'
  BY <1>24 DEF WorkerFinishes, disk, Inv, Typed, LockOK
<1>25. ASSUME NEW s \in Scans, WorkerGivesUp(s) PROVE LockOK(e)'
  BY <1>25 DEF WorkerGivesUp, disk, Inv, Typed, LockOK
<1>26. ASSUME NEW s \in Scans, NEW next \in {"saving", "updating", "restoring", "finishing"},
             WorkerFindsRow(s, next)
      PROVE  LockOK(e)'
  BY <1>26 DEF WorkerFindsRow, disk, Inv, Typed, LockOK
<1>27. QED
  BY <1>1, <1>2, <1>3, <1>4, <1>5, <1>6, <1>7, <1>8, <1>9, <1>10, <1>11, <1>12, <1>13, <1>14,
     <1>15, <1>16, <1>17, <1>18, <1>19, <1>20, <1>21, <1>22, <1>23, <1>24, <1>25, <1>26 DEF
     Next

\* What is created belongs to its process and is touched by no other.
LEMMA MakingKept ==
    ASSUME Inv, Next, NEW e \in Clients
    PROVE  MakingOK(e)'
<1>1. ASSUME NEW p \in Procs, Start(p) PROVE MakingOK(e)'
  <2>1. MakingOK(e) /\ UNCHANGED <<dirs, maker, work>>
    BY <1>1 DEF Inv, Start, disk
  <2>2. CASE e = Main[p]
    <3>1. \A s \in Scans : maker[s] # p
      BY <1>1, StoreParameters DEF Start, Inv, ScanOK
    <3>2. QED BY <1>1, <2>1, <2>2, <3>1, StoreParameters DEF Start, Idle, MakingOK, Inv, Typed
  <2>3. CASE e # Main[p]
    BY <1>1, <2>1, <2>3 DEF Start, MakingOK, Inv, Typed
  <2>4. QED BY <2>2, <2>3
<1>2. ASSUME NEW p \in Procs, Dies(p) PROVE MakingOK(e)'
  BY <1>2 DEF Dies, Gone, Idle, disk, Inv, Typed, TypeOK, Call, StepsOK, MakingOK
<1>3. ASSUME NEW c \in Clients, OpenFails(c) PROVE MakingOK(e)'
  BY <1>3 DEF OpenFails, At, Gone, Idle, disk, Inv, Typed, TypeOK, Call, StepsOK, MakingOK
<1>4. ASSUME NEW c \in Clients, List(c) PROVE MakingOK(e)'
  BY <1>4 DEF List, At, disk, Inv, Typed, TypeOK, Call, StepsOK, MakingOK
<1>5. ASSUME NEW c \in Clients, Opened(c) PROVE MakingOK(e)'
  BY <1>5 DEF Opened, At, Returns, Idle, disk, Inv, Typed, TypeOK, Call, StepsOK, MakingOK
<1>6. ASSUME NEW c \in Clients, MakeDirectory(c) PROVE MakingOK(e)'
  BY <1>6 DEF MakeDirectory, At, Goes, disk, Inv, Typed, TypeOK, Call, StepsOK, MakingOK
<1>7. ASSUME NEW c \in Clients, FirstRow(c) PROVE MakingOK(e)'
  <2>1. /\ MakingOK(e) /\ UNCHANGED <<dirs, maker>>
        /\ Returns(c) /\ call[c].fn = "create" /\ call[c].scan \in Scans
        /\ work' = [work EXCEPT ![call[c].scan] = "running"]
    BY <1>7 DEF Inv, FirstRow, At, StepsOK
  <2>2. CASE e = c
    BY <2>1, <2>2, ReturnsCall DEF MakingOK, Idle
  <2>3. CASE e # c
    <3>1. call'[e] = call[e]
      BY <2>1, <2>3, ReturnsCall
    <3>2. call[e].fn = "create" => call[e].scan # call[c].scan
      BY <2>1, <2>3 DEF Inv, LockOK, MakingOK
    <3>3. /\ \A s \in Scans : work[s] # "none" => work'[s] # "none"
          /\ \A s \in Scans : s # call[c].scan => work'[s] = work[s]
      BY <2>1 DEF Inv, Typed, TypeOK
    <3>4. call[e].fn = "create" => call[e].scan \in Scans
      BY DEF Inv, StepsOK
    <3>5. QED BY <2>1, <3>1, <3>2, <3>3, <3>4 DEF MakingOK
  <2>4. QED BY <2>2, <2>3
<1>8. ASSUME NEW c \in Clients, FirstRowFails(c) PROVE MakingOK(e)'
  <2>1. /\ MakingOK(e) /\ UNCHANGED <<maker, work>>
        /\ Returns(c) /\ call[c].fn = "create" /\ dirs' = dirs \ {call[c].scan}
    BY <1>8 DEF Inv, FirstRowFails, At
  <2>2. CASE e = c
    BY <2>1, <2>2, ReturnsCall DEF MakingOK, Idle
  <2>3. CASE e # c
    <3>1. call'[e] = call[e]
      BY <2>1, <2>3, ReturnsCall
    <3>2. call[e].fn = "create" => call[e].scan # call[c].scan
      BY <2>1, <2>3 DEF Inv, LockOK, MakingOK
    <3>3. call[e].step = "row" => call[e].fn = "create"
      BY DEF Inv, StepsOK, Typed, Call
    <3>4. QED BY <2>1, <3>1, <3>2, <3>3 DEF MakingOK
  <2>4. QED BY <2>2, <2>3
<1>9. ASSUME NEW c \in Clients, Read(c) PROVE MakingOK(e)'
  <2>1. MakingOK(e) /\ MakingOK(c) /\ UNCHANGED <<dirs, maker, work>>
    BY <1>9 DEF Inv, Read, disk
  <2>2. CASE e = c
    <3>1. /\ call'[c].fn \in {"idle", "record", "delete"} /\ call'[c].step # "row"
          /\ call'[c].todo \in {{}, call[c].todo}
      BY <1>9, ReadCall DEF Idle
    <3>2. QED BY <2>1, <2>2, <3>1 DEF MakingOK
  <2>3. CASE e # c
    BY <1>9, <2>1, <2>3, ReadCall DEF MakingOK
  <2>4. QED BY <2>2, <2>3
<1>10. ASSUME NEW c \in Clients, Look(c) PROVE MakingOK(e)'
  <2>1. MakingOK(e) /\ MakingOK(c) /\ UNCHANGED <<dirs, maker, work>>
    BY <1>10 DEF Inv, Look, disk
  <2>2. CASE e = c
    <3>1. /\ call'[c].fn \in {"idle", "record", "delete"} /\ call'[c].step # "row"
          /\ call'[c].todo \in {{}, call[c].todo}
      BY <1>10, LookCall DEF Idle
    <3>2. QED BY <2>1, <2>2, <3>1 DEF MakingOK
  <2>3. CASE e # c
    BY <1>10, <2>1, <2>3, LookCall DEF MakingOK
  <2>4. QED BY <2>2, <2>3
<1>11. ASSUME NEW c \in Clients, FindRow(c) PROVE MakingOK(e)'
  BY <1>11 DEF FindRow, Goes, disk, Inv, Typed, TypeOK, Call, StepsOK, MakingOK
<1>12. ASSUME NEW c \in Clients, AbortMakesDirectory(c) PROVE MakingOK(e)'
  BY <1>12 DEF AbortMakesDirectory, Goes, disk, Inv, Typed, TypeOK, Call, StepsOK, MakingOK
<1>13. ASSUME NEW c \in Clients, AbortRow(c) PROVE MakingOK(e)'
  BY <1>13 DEF AbortRow, Goes, disk, Inv, Typed, TypeOK, Call, StepsOK, MakingOK
<1>14. ASSUME NEW c \in Clients, LogAbort(c) PROVE MakingOK(e)'
  BY <1>14 DEF LogAbort, Idle, disk, Inv, Typed, TypeOK, Call, StepsOK, MakingOK
<1>15. ASSUME NEW c \in Clients, AbortFails(c) PROVE MakingOK(e)'
  BY <1>15
  DEF AbortFails, Gone, Returns, Idle, disk, Inv, Typed, TypeOK, Call, StepsOK, MakingOK
<1>16. ASSUME NEW c \in Clients, Unlink(c) PROVE MakingOK(e)'
  <2>1. MakingOK(e) /\ MakingOK(c) /\ UNCHANGED <<dirs, maker, work>>
    BY <1>16 DEF Inv, Unlink, disk
  <2>2. CASE e = c
    <3>1. /\ call'[c].fn \in {"idle", "record", "delete"} /\ call'[c].step # "row"
          /\ call'[c].todo \in {{}, call[c].todo}
      BY <1>16, UnlinkCall DEF Idle
    <3>2. QED BY <2>1, <2>2, <3>1 DEF MakingOK
  <2>3. CASE e # c
    BY <1>16, <2>1, <2>3, UnlinkCall DEF MakingOK
  <2>4. QED BY <2>2, <2>3
<1>17. ASSUME NEW c \in Clients, Rmdir(c) PROVE MakingOK(e)'
  <2>1. /\ MakingOK(e) /\ UNCHANGED <<maker, work>> /\ Returns(c)
        /\ work[call[c].scan] # "none" /\ dirs \ {call[c].scan} \subseteq dirs'
    BY <1>17 DEF Inv, Rmdir, At, AbortOK
  <2>2. CASE e = c
    BY <2>1, <2>2, ReturnsCall DEF MakingOK, Idle
  <2>3. CASE e # c
    <3>1. call'[e] = call[e]
      BY <2>1, <2>3, ReturnsCall
    <3>2. call[e].step = "row" => call[e].fn = "create"
      BY DEF Inv, StepsOK, Typed, Call
    <3>3. QED BY <2>1, <3>1, <3>2 DEF MakingOK
  <2>4. QED BY <2>2, <2>3
<1>18. ASSUME NEW c \in Clients, NEW s \in Scans, ListRow(c, s) PROVE MakingOK(e)'
  <2>1. /\ MakingOK(c) /\ MakingOK(e) /\ UNCHANGED <<dirs, maker, work>>
        /\ row[s] # NoRow => work[s] # "none"
    BY <1>18 DEF Inv, ListRow, ScanOK, disk
  <2>2. CASE e = c
    BY <1>18, <2>1, <2>2, ListRowCall DEF MakingOK
  <2>3. CASE e # c
    BY <1>18, <2>1, <2>3, ListRowCall DEF MakingOK
  <2>4. QED BY <2>2, <2>3
<1>19. ASSUME NEW c \in Clients, NEW s \in Scans, NextRow(c, s) PROVE MakingOK(e)'
  BY <1>19 DEF NextRow, At, disk, Inv, Typed, TypeOK, Call, StepsOK, MakingOK
<1>20. ASSUME NEW c \in Clients, NEW s \in Scans, Create(c, s) PROVE MakingOK(e)'
  <2>1. /\ MakingOK(e) /\ StepsOK(e) /\ UNCHANGED <<dirs, work>> /\ maker[s] = NoProc
        /\ maker' = [maker EXCEPT ![s] = Of[c]] /\ maker' \in [Scans -> Procs \cup {NoProc}]
    BY <1>20, StoreParameters DEF Inv, Create, disk, Typed, TypeOK
  <2>2. work[s] = "none"
    BY <2>1 DEF Inv, ScanOK
  <2>3. CASE e = c
    BY <1>20, <2>1, <2>2, <2>3 DEF Create, Calls, Idle, MakingOK, Inv, Typed, TypeOK
  <2>4. CASE e # c
    <3>1. call'[e] = call[e] /\ call[Main[Of[c]]].fn # "open"
      BY <1>20, <2>4 DEF Create, Calls, Inv, Typed
    <3>2. call[e].fn = "open" => Of[e] # Of[c]
      BY <2>1, <3>1 DEF StepsOK
    <3>3. call[e].fn = "create" => call[e].scan # s
      BY <2>1, StoreParameters DEF MakingOK
    <3>4. /\ \A z \in Scans : z # s => maker'[z] = maker[z]
          /\ maker'[s] = Of[c] /\ (call[e].fn = "create" => call[e].scan \in Scans)
      BY <2>1 DEF Inv, Typed, TypeOK, StepsOK
    <3>5. QED BY <2>1, <3>1, <3>2, <3>3, <3>4 DEF MakingOK
  <2>5. QED BY <2>3, <2>4
<1>21. ASSUME NEW c \in Clients, NEW s \in Scans, NEW fn \in {"record", "delete"}, Ask(c, fn, s)
      PROVE  MakingOK(e)'
  BY <1>21 DEF Ask, Calls, Idle, disk, Inv, Typed, TypeOK, Call, StepsOK, MakingOK
<1>22. ASSUME NEW s \in Scans, WorkerSaves(s) PROVE MakingOK(e)'
  BY <1>22 DEF WorkerSaves, disk, Inv, Typed, TypeOK, Call, StepsOK, MakingOK
<1>23. ASSUME NEW s \in Scans, WorkerUpdates(s) PROVE MakingOK(e)'
  BY <1>23 DEF WorkerUpdates, disk, Inv, Typed, TypeOK, Call, StepsOK, MakingOK
<1>24. ASSUME NEW s \in Scans, WorkerFinishes(s) PROVE MakingOK(e)'
  BY <1>24 DEF WorkerFinishes, disk, Inv, Typed, TypeOK, Call, StepsOK, MakingOK
<1>25. ASSUME NEW s \in Scans, WorkerGivesUp(s) PROVE MakingOK(e)'
  BY <1>25 DEF WorkerGivesUp, disk, Inv, Typed, TypeOK, Call, StepsOK, MakingOK
<1>26. ASSUME NEW s \in Scans, NEW next \in {"saving", "updating", "restoring", "finishing"},
             WorkerFindsRow(s, next)
      PROVE  MakingOK(e)'
  BY <1>26 DEF WorkerFindsRow, disk, Inv, Typed, TypeOK, Call, StepsOK, MakingOK
<1>27. QED
  BY <1>1, <1>2, <1>3, <1>4, <1>5, <1>6, <1>7, <1>8, <1>9, <1>10, <1>11, <1>12, <1>13, <1>14,
     <1>15, <1>16, <1>17, <1>18, <1>19, <1>20, <1>21, <1>22, <1>23, <1>24, <1>25, <1>26 DEF
     Next

\* A row acted on is about a scan whose worker is as far as the row says.
LEMMA SeenKept ==
    ASSUME Inv, Next, NEW e \in Clients
    PROVE  SeenOK(e)'
<1>1. ASSUME NEW p \in Procs, Start(p) PROVE SeenOK(e)'
  BY <1>1, StoreParameters
  DEF Start, Idle, disk, Inv, Typed, TypeOK, Call, StepsOK, SeenOK, MakingOK, ScanOK,
      LeftOver, Working, Row, Active, IsActive
<1>2. ASSUME NEW p \in Procs, Dies(p) PROVE SeenOK(e)'
  BY <1>2, StoreParameters
  DEF Dies, Gone, Idle, disk, Inv, Typed, TypeOK, Call, StepsOK, SeenOK, MakingOK, ScanOK,
      LeftOver, Working, Row, Active, IsActive
<1>3. ASSUME NEW c \in Clients, OpenFails(c) PROVE SeenOK(e)'
  BY <1>3, StoreParameters
  DEF OpenFails, At, Gone, Idle, disk, Inv, Typed, TypeOK, Call, StepsOK, SeenOK, MakingOK,
      ScanOK, LeftOver, Working, Row, Active, IsActive
<1>4. ASSUME NEW c \in Clients, List(c) PROVE SeenOK(e)'
  BY <1>4, StoreParameters
  DEF List, At, disk, Inv, Typed, TypeOK, Call, StepsOK, SeenOK, MakingOK, ScanOK, LeftOver,
      Working, Row, Active, IsActive
<1>5. ASSUME NEW c \in Clients, Opened(c) PROVE SeenOK(e)'
  BY <1>5, StoreParameters
  DEF Opened, At, Returns, Idle, disk, Inv, Typed, TypeOK, Call, StepsOK, SeenOK, MakingOK,
      ScanOK, LeftOver, Working, Row, Active, IsActive
<1>6. ASSUME NEW c \in Clients, MakeDirectory(c) PROVE SeenOK(e)'
  BY <1>6, StoreParameters
  DEF MakeDirectory, At, Goes, disk, Inv, Typed, TypeOK, Call, StepsOK, SeenOK, MakingOK,
      ScanOK, LeftOver, Working, Row, Active, IsActive
<1>7. ASSUME NEW c \in Clients, FirstRow(c) PROVE SeenOK(e)'
  BY <1>7, StoreParameters
  DEF FirstRow, At, Returns, Idle, disk, Inv, Typed, TypeOK, Call, StepsOK, SeenOK, MakingOK,
      ScanOK, LeftOver, Working, Row, Active, IsActive
<1>8. ASSUME NEW c \in Clients, FirstRowFails(c) PROVE SeenOK(e)'
  BY <1>8, StoreParameters
  DEF FirstRowFails, At, Returns, Idle, disk, Inv, Typed, TypeOK, Call, StepsOK, SeenOK,
      MakingOK, ScanOK, LeftOver, Working, Row, Active, IsActive
<1>9. ASSUME NEW c \in Clients, Read(c) PROVE SeenOK(e)'
  <2>1. SeenOK(e) /\ UNCHANGED <<maker, work>>
    BY <1>9 DEF Inv, Read
  <2>2. CASE e = c
    <3> DEFINE t == call[c].scan
    <3>1. CASE call'[c] = Idle
      BY <2>2, <3>1 DEF SeenOK, Idle
    <3>2. CASE call'[c] # Idle
      <4>1. /\ call[c].fn \in {"record", "delete"} /\ row[t] # NoRow
            /\ call'[c].seen = row[t] /\ call'[c].scan = t
        BY <1>9, <3>2, ReadCall
      <4>2. t \in Scans /\ Of[c] \in alive
        BY <1>9, <4>1 DEF Read, At, Inv, StepsOK
      <4>3. /\ row[t] \in Row /\ row[t].owner = maker[t] /\ work[t] # "none"
            /\ maker[t] # NoProc /\ maker[t] \in Procs
        BY <4>1, <4>2 DEF Inv, Typed, TypeOK, ScanOK
      <4>4. ~IsActive(row[t]) /\ Shown(maker[t]) => work[t] = "done"
        <5>1. work[t] \in Working => ~Shown(maker[t]) \/ IsActive(row[t])
          <6>1. ASSUME work[t] \in Working, Shown(maker[t]) PROVE IsActive(row[t])
            <7>1. row[t] = [status |-> "RUNNING", owner |-> maker[t]]
              BY <4>2, <6>1 DEF Inv, ScanOK
            <7>2. row[t].status = "RUNNING"
              BY <7>1
            <7>3. QED BY <7>2 DEF IsActive, Active
          <6>2. QED BY <6>1
        <5>2. work[t] \in Working \cup {"none", "done"}
          BY <4>2 DEF Inv, Typed, TypeOK, Working
        <5>3. QED BY <4>3, <5>1, <5>2
      <4>5. IsActive(row[t]) /\ Pid[maker[t]] = Pid[Of[c]] => maker[t] = Of[c]
        <5>1. LeftOver(Of[c], t) /\ call[Main[Of[c]]].fn # "open"
          BY <4>1, <4>2 DEF Inv, OpenedOK
        <5>2. QED BY <4>1, <4>3, <5>1 DEF LeftOver
      <4>6. QED BY <2>1, <2>2, <4>1, <4>3, <4>4, <4>5 DEF SeenOK
    <3>3. QED BY <3>1, <3>2
  <2>3. CASE e # c
    BY <1>9, <2>1, <2>3, ReadCall DEF SeenOK
  <2>4. QED BY <2>2, <2>3
<1>10. ASSUME NEW c \in Clients, Look(c) PROVE SeenOK(e)'
  <2>1. SeenOK(e) /\ UNCHANGED <<maker, work>>
    BY <1>10 DEF Inv, Look
  <2>2. CASE e = c
    BY <1>10, <2>2, LookCall DEF SeenOK, Idle
  <2>3. CASE e # c
    BY <1>10, <2>1, <2>3, LookCall DEF SeenOK
  <2>4. QED BY <2>2, <2>3
<1>11. ASSUME NEW c \in Clients, FindRow(c) PROVE SeenOK(e)'
  BY <1>11, StoreParameters
  DEF FindRow, Goes, disk, Inv, Typed, TypeOK, Call, StepsOK, SeenOK, MakingOK, ScanOK,
      LeftOver, Working, Row, Active, IsActive
<1>12. ASSUME NEW c \in Clients, AbortMakesDirectory(c) PROVE SeenOK(e)'
  BY <1>12, StoreParameters
  DEF AbortMakesDirectory, Goes, disk, Inv, Typed, TypeOK, Call, StepsOK, SeenOK, MakingOK,
      ScanOK, LeftOver, Working, Row, Active, IsActive
<1>13. ASSUME NEW c \in Clients, AbortRow(c) PROVE SeenOK(e)'
  BY <1>13, StoreParameters
  DEF AbortRow, Goes, disk, Inv, Typed, TypeOK, Call, StepsOK, SeenOK, MakingOK, ScanOK,
      LeftOver, Working, Row, Active, IsActive
<1>14. ASSUME NEW c \in Clients, LogAbort(c) PROVE SeenOK(e)'
  BY <1>14, StoreParameters
  DEF LogAbort, Idle, disk, Inv, Typed, TypeOK, Call, StepsOK, SeenOK, MakingOK, ScanOK,
      LeftOver, Working, Row, Active, IsActive
<1>15. ASSUME NEW c \in Clients, AbortFails(c) PROVE SeenOK(e)'
  <2>1. CASE call[c].fn = "open"
    BY <1>15, <2>1
    DEF AbortFails, Gone, Idle, disk, Inv, Typed, TypeOK, Call, StepsOK, SeenOK
  <2>2. CASE call[c].fn # "open"
    BY <1>15, <2>2, ReturnsCall DEF AbortFails, Idle, Inv, SeenOK
  <2>3. QED BY <2>1, <2>2
<1>16. ASSUME NEW c \in Clients, Unlink(c) PROVE SeenOK(e)'
  <2>1. SeenOK(e) /\ UNCHANGED <<maker, work>>
    BY <1>16 DEF Inv, Unlink
  <2>2. CASE e = c
    BY <1>16, <2>2, UnlinkCall DEF SeenOK, Idle
  <2>3. CASE e # c
    BY <1>16, <2>1, <2>3, UnlinkCall DEF SeenOK
  <2>4. QED BY <2>2, <2>3
<1>17. ASSUME NEW c \in Clients, Rmdir(c) PROVE SeenOK(e)'
  BY <1>17, StoreParameters
  DEF Rmdir, At, Returns, Idle, disk, Inv, Typed, TypeOK, Call, StepsOK, SeenOK, MakingOK,
      ScanOK, LeftOver, Working, Row, Active, IsActive
<1>18. ASSUME NEW c \in Clients, NEW s \in Scans, ListRow(c, s) PROVE SeenOK(e)'
  BY <1>18, StoreParameters
  DEF ListRow, At, disk, Inv, Typed, TypeOK, Call, StepsOK, SeenOK, MakingOK, ScanOK,
      LeftOver, Working, Row, Active, IsActive
<1>19. ASSUME NEW c \in Clients, NEW s \in Scans, NextRow(c, s) PROVE SeenOK(e)'
  BY <1>19, StoreParameters
  DEF NextRow, At, disk, Inv, Typed, TypeOK, Call, StepsOK, SeenOK, MakingOK, ScanOK,
      LeftOver, Working, Row, Active, IsActive
<1>20. ASSUME NEW c \in Clients, NEW s \in Scans, Create(c, s) PROVE SeenOK(e)'
  BY <1>20, StoreParameters
  DEF Create, Calls, Idle, disk, Inv, Typed, TypeOK, Call, StepsOK, SeenOK, MakingOK, ScanOK,
      LeftOver, Working, Row, Active, IsActive
<1>21. ASSUME NEW c \in Clients, NEW s \in Scans, NEW fn \in {"record", "delete"}, Ask(c, fn, s)
      PROVE  SeenOK(e)'
  BY <1>21, StoreParameters
  DEF Ask, Calls, Idle, disk, Inv, Typed, TypeOK, Call, StepsOK, SeenOK, MakingOK, ScanOK,
      LeftOver, Working, Row, Active, IsActive
<1>22. ASSUME NEW s \in Scans, WorkerSaves(s) PROVE SeenOK(e)'
  BY <1>22, StoreParameters
  DEF WorkerSaves, disk, Inv, Typed, TypeOK, Call, StepsOK, SeenOK, MakingOK, ScanOK,
      LeftOver, Working, Row, Active, IsActive
<1>23. ASSUME NEW s \in Scans, WorkerUpdates(s) PROVE SeenOK(e)'
  BY <1>23, StoreParameters
  DEF WorkerUpdates, disk, Inv, Typed, TypeOK, Call, StepsOK, SeenOK, MakingOK, ScanOK,
      LeftOver, Working, Row, Active, IsActive
<1>24. ASSUME NEW s \in Scans, WorkerFinishes(s) PROVE SeenOK(e)'
  BY <1>24, StoreParameters
  DEF WorkerFinishes, disk, Inv, Typed, TypeOK, Call, StepsOK, SeenOK, MakingOK, ScanOK,
      LeftOver, Working, Row, Active, IsActive
<1>25. ASSUME NEW s \in Scans, WorkerGivesUp(s) PROVE SeenOK(e)'
  BY <1>25, StoreParameters
  DEF WorkerGivesUp, disk, Inv, Typed, TypeOK, Call, StepsOK, SeenOK, MakingOK, ScanOK,
      LeftOver, Working, Row, Active, IsActive
<1>26. ASSUME NEW s \in Scans, NEW next \in {"saving", "updating", "restoring", "finishing"},
             WorkerFindsRow(s, next)
      PROVE  SeenOK(e)'
  BY <1>26, StoreParameters
  DEF WorkerFindsRow, disk, Inv, Typed, TypeOK, Call, StepsOK, SeenOK, MakingOK, ScanOK,
      LeftOver, Working, Row, Active, IsActive
<1>27. QED
  BY <1>1, <1>2, <1>3, <1>4, <1>5, <1>6, <1>7, <1>8, <1>9, <1>10, <1>11, <1>12, <1>13, <1>14,
     <1>15, <1>16, <1>17, <1>18, <1>19, <1>20, <1>21, <1>22, <1>23, <1>24, <1>25, <1>26 DEF
     Next

\* An owner found dead stays dead, and a scan without a worker gets none.
LEMMA AbortKept ==
    ASSUME Inv, Next, NEW e \in Clients
    PROVE  AbortOK(e)'
<1>1. ASSUME NEW p \in Procs, Start(p) PROVE AbortOK(e)'
  <2>1. AbortOK(e) /\ UNCHANGED <<maker, work>>
    BY <1>1 DEF Inv, Start
  <2>2. CASE e = Main[p]
    BY <1>1, <2>2 DEF Start, Idle, AbortOK, Inv, Typed
  <2>3. CASE e # Main[p]
    BY <1>1, <2>1, <2>3 DEF Start, AbortOK, Inv, Typed
  <2>4. QED BY <2>2, <2>3
<1>2. ASSUME NEW p \in Procs, Dies(p) PROVE AbortOK(e)'
  BY <1>2, GoneAbort DEF Dies
<1>3. ASSUME NEW c \in Clients, OpenFails(c) PROVE AbortOK(e)'
  BY <1>3, GoneAbort DEF OpenFails
<1>4. ASSUME NEW c \in Clients, List(c) PROVE AbortOK(e)'
  <2>1. AbortOK(e) /\ UNCHANGED <<maker, work>>
    BY <1>4 DEF Inv, List
  <2>2. CASE e = c
    <3>1. call'[c].step \in {"none", "next", "look"}
      BY <1>4, ListCall DEF Idle
    <3>2. QED BY <2>2, <3>1 DEF AbortOK
  <2>3. CASE e # c
    BY <1>4, <2>1, <2>3, ListCall DEF AbortOK
  <2>4. QED BY <2>2, <2>3
<1>5. ASSUME NEW c \in Clients, Opened(c) PROVE AbortOK(e)'
  <2>1. AbortOK(e) /\ UNCHANGED <<maker, work>> /\ Returns(c)
    BY <1>5 DEF Inv, Opened
  <2>2. CASE e = c
    BY <2>1, <2>2, ReturnsCall DEF AbortOK, Idle
  <2>3. CASE e # c
    BY <2>1, <2>3, ReturnsCall DEF AbortOK
  <2>4. QED BY <2>2, <2>3
<1>6. ASSUME NEW c \in Clients, MakeDirectory(c) PROVE AbortOK(e)'
  <2>1. AbortOK(e) /\ UNCHANGED <<maker, work>> /\ Goes(c, "row")
    BY <1>6 DEF Inv, MakeDirectory
  <2>2. CASE e = c
    BY <2>1, <2>2, GoesCall DEF AbortOK, Idle
  <2>3. CASE e # c
    BY <2>1, <2>3, GoesCall DEF AbortOK
  <2>4. QED BY <2>2, <2>3
<1>7. ASSUME NEW c \in Clients, FirstRow(c) PROVE AbortOK(e)'
  <2>1. /\ AbortOK(e) /\ StepsOK(e) /\ UNCHANGED maker /\ Returns(c)
        /\ call[c].scan \in Scans /\ work[call[c].scan] = "none"
        /\ work' = [work EXCEPT ![call[c].scan] = "running"]
    BY <1>7 DEF Inv, FirstRow, At, StepsOK, MakingOK
  <2>2. \A z \in Scans : work[z] # "none" => work'[z] = work[z]
    BY <2>1 DEF Inv, Typed, TypeOK
  <2>3. CASE e = c
    BY <2>1, <2>3, ReturnsCall DEF AbortOK, Idle
  <2>4. CASE e # c
    <3>1. call[e].step \in {"abort", "write", "rename", "log", "unlink", "rmdir"} =>
            call[e].scan \in Scans
      BY <2>1 DEF StepsOK
    <3>2. QED BY <2>1, <2>2, <2>4, <3>1, ReturnsCall DEF AbortOK
  <2>5. QED BY <2>3, <2>4
<1>8. ASSUME NEW c \in Clients, FirstRowFails(c) PROVE AbortOK(e)'
  <2>1. AbortOK(e) /\ UNCHANGED <<maker, work>> /\ Returns(c)
    BY <1>8 DEF Inv, FirstRowFails
  <2>2. CASE e = c
    BY <2>1, <2>2, ReturnsCall DEF AbortOK, Idle
  <2>3. CASE e # c
    BY <2>1, <2>3, ReturnsCall DEF AbortOK
  <2>4. QED BY <2>2, <2>3
<1>9. ASSUME NEW c \in Clients, Read(c) PROVE AbortOK(e)'
  <2>1. AbortOK(e) /\ UNCHANGED <<maker, work>>
    BY <1>9 DEF Inv, Read
  <2>2. CASE e = c
    <3>1. call'[c].step \in {"none", "next", "look"}
      BY <1>9, ReadCall DEF Idle
    <3>2. QED BY <2>2, <3>1 DEF AbortOK
  <2>3. CASE e # c
    BY <1>9, <2>1, <2>3, ReadCall DEF AbortOK
  <2>4. QED BY <2>2, <2>3
<1>10. ASSUME NEW c \in Clients, Look(c) PROVE AbortOK(e)'
  <2>1. AbortOK(e) /\ UNCHANGED <<maker, work>>
    BY <1>10 DEF Inv, Look
  <2>2. CASE e = c
    <3> DEFINE t == call[c].scan
               seen == call[c].seen
    <3>1. /\ SeenOK(c) /\ call[c].step = "look" /\ t \in Scans /\ Of[c] \in alive
      BY <1>10, LookCall DEF Inv, StepsOK
    <3>2. /\ seen \in Row /\ seen.owner = maker[t] /\ work[t] # "none"
          /\ ~IsActive(seen) /\ Shown(maker[t]) => work[t] = "done"
          /\ IsActive(seen) /\ Pid[maker[t]] = Pid[Of[c]] => maker[t] = Of[c]
      BY <3>1 DEF SeenOK
    <3>3. CASE call'[c] = Idle
      BY <2>2, <3>3 DEF AbortOK, Idle
    <3>4. CASE call'[c].step = "abort" /\ ~LeftAlone(Of[c], seen)
      <4>1. call'[c].scan = t /\ call'[c].seen = seen
        BY <1>10, <3>4, LookCall DEF Idle
      <4>2. /\ IsActive(seen) /\ Pid[maker[t]] # Pid[Of[c]]
            /\ ~OtherProcessAlive(Of[c], maker[t])
        BY <3>2, <3>4 DEF LeftAlone
      <4>3. seen = [status |-> "RUNNING", owner |-> maker[t]]
        BY <3>2, <4>2 DEF Row, IsActive, Active
      <4>4. Shown(maker[t]) => maker[t] \notin alive
        BY <3>1, <3>2, <4>2, StoreParameters
        DEF OtherProcessAlive, Shown, Row, Inv, Typed, TypeOK
      <4>5. Shown(maker[t]) => work[t] = "done"
        BY <3>1, <3>2, <4>4 DEF Inv, ScanOK, Typed, TypeOK, Working
      <4>6. QED BY <2>1, <2>2, <3>2, <3>4, <4>1, <4>3, <4>5 DEF AbortOK, Shown
    <3>5. CASE call'[c].step = "unlink" /\ ~IsActive(seen)
      <4>1. call'[c].scan = t
        BY <1>10, <3>5, LookCall DEF Idle
      <4>2. QED BY <2>1, <2>2, <3>2, <3>5, <4>1 DEF AbortOK, Shown
    <3>6. QED BY <1>10, <3>3, <3>4, <3>5, LookCall
  <2>3. CASE e # c
    BY <1>10, <2>1, <2>3, LookCall DEF AbortOK
  <2>4. QED BY <2>2, <2>3
<1>11. ASSUME NEW c \in Clients, FindRow(c) PROVE AbortOK(e)'
  <2>1. /\ AbortOK(e) /\ AbortOK(c) /\ call[c].step \in {"abort", "write", "rename"}
        /\ Goes(c, "write") /\ UNCHANGED <<maker, work>>
    BY <1>11 DEF Inv, FindRow
  <2>2. CASE e = c
    BY <2>1, <2>2, GoesCall DEF AbortOK, Shown
  <2>3. CASE e # c
    BY <2>1, <2>3, GoesCall DEF AbortOK, Shown
  <2>4. QED BY <2>2, <2>3
<1>12. ASSUME NEW c \in Clients, AbortMakesDirectory(c) PROVE AbortOK(e)'
  <2>1. /\ AbortOK(e) /\ AbortOK(c) /\ call[c].step \in {"abort", "write", "rename"}
        /\ Goes(c, "rename") /\ UNCHANGED <<maker, work>>
    BY <1>12 DEF Inv, AbortMakesDirectory
  <2>2. CASE e = c
    BY <2>1, <2>2, GoesCall DEF AbortOK, Shown
  <2>3. CASE e # c
    BY <2>1, <2>3, GoesCall DEF AbortOK, Shown
  <2>4. QED BY <2>2, <2>3
<1>13. ASSUME NEW c \in Clients, AbortRow(c) PROVE AbortOK(e)'
  <2>1. /\ AbortOK(e) /\ AbortOK(c) /\ call[c].step \in {"abort", "write", "rename"}
        /\ Goes(c, "log") /\ UNCHANGED <<maker, work>>
    BY <1>13 DEF Inv, AbortRow
  <2>2. CASE e = c
    BY <2>1, <2>2, GoesCall DEF AbortOK, Shown
  <2>3. CASE e # c
    BY <2>1, <2>3, GoesCall DEF AbortOK, Shown
  <2>4. QED BY <2>2, <2>3
<1>14. ASSUME NEW c \in Clients, LogAbort(c) PROVE AbortOK(e)'
  <2>1. AbortOK(e) /\ AbortOK(c) /\ call[c].step = "log" /\ UNCHANGED <<maker, work>>
    BY <1>14 DEF Inv, LogAbort, disk
  <2>2. CASE e = c
    <3>1. CASE call'[c].step \in {"none", "next"}
      BY <2>2, <3>1 DEF AbortOK
    <3>2. CASE call'[c].step = "unlink" /\ call'[c].scan = call[c].scan
      BY <2>1, <2>2, <3>2 DEF AbortOK, Shown
    <3>3. QED BY <1>14, <3>1, <3>2, LogAbortCall DEF Idle
  <2>3. CASE e # c
    BY <1>14, <2>1, <2>3, LogAbortCall DEF AbortOK
  <2>4. QED BY <2>2, <2>3
<1>15. ASSUME NEW c \in Clients, AbortFails(c) PROVE AbortOK(e)'
  <2>1. CASE call[c].fn = "open"
    BY <1>15, <2>1, GoneAbort DEF AbortFails
  <2>2. CASE call[c].fn # "open"
    BY <1>15, <2>2, ReturnsCall DEF AbortFails, Idle, Inv, AbortOK
  <2>3. QED BY <2>1, <2>2
<1>16. ASSUME NEW c \in Clients, Unlink(c) PROVE AbortOK(e)'
  <2>1. AbortOK(e) /\ AbortOK(c) /\ call[c].step = "unlink" /\ UNCHANGED <<maker, work>>
    BY <1>16, UnlinkCall DEF Inv, Unlink
  <2>2. CASE e = c
    <3>1. CASE call'[c] = Idle
      BY <2>2, <3>1 DEF AbortOK, Idle
    <3>2. CASE call'[c].step = "rmdir" /\ call'[c].scan = call[c].scan
      BY <2>1, <2>2, <3>2 DEF AbortOK, Shown
    <3>3. QED BY <1>16, <3>1, <3>2, UnlinkCall
  <2>3. CASE e # c
    BY <1>16, <2>1, <2>3, UnlinkCall DEF AbortOK
  <2>4. QED BY <2>2, <2>3
<1>17. ASSUME NEW c \in Clients, Rmdir(c) PROVE AbortOK(e)'
  <2>1. AbortOK(e) /\ UNCHANGED <<maker, work>> /\ Returns(c)
    BY <1>17 DEF Inv, Rmdir
  <2>2. CASE e = c
    BY <2>1, <2>2, ReturnsCall DEF AbortOK, Idle
  <2>3. CASE e # c
    BY <2>1, <2>3, ReturnsCall DEF AbortOK
  <2>4. QED BY <2>2, <2>3
<1>18. ASSUME NEW c \in Clients, NEW s \in Scans, ListRow(c, s) PROVE AbortOK(e)'
  <2>1. AbortOK(e) /\ UNCHANGED <<maker, work>>
    BY <1>18 DEF Inv, ListRow
  <2>2. CASE e = c
    <3>1. call'[c].step \in {"none", "next", "look"}
      BY <1>18, ListRowCall DEF Idle
    <3>2. QED BY <2>2, <3>1 DEF AbortOK
  <2>3. CASE e # c
    BY <1>18, <2>1, <2>3, ListRowCall DEF AbortOK
  <2>4. QED BY <2>2, <2>3
<1>19. ASSUME NEW c \in Clients, NEW s \in Scans, NextRow(c, s) PROVE AbortOK(e)'
  <2>1. AbortOK(e) /\ UNCHANGED <<maker, work>>
    BY <1>19 DEF Inv, NextRow
  <2>2. CASE e = c
    <3>1. CASE call'[c].step = "next"
      BY <2>2, <3>1 DEF AbortOK
    <3>2. CASE call'[c].step # "next"
      <4>1. /\ call'[c].step = "abort" /\ call'[c].scan = s /\ call[c].fn = "open"
            /\ call'[c].seen = [status |-> "RUNNING", owner |-> maker[s]]
            /\ row[s] # NoRow /\ ~OtherProcessAlive(Of[c], maker[s])
        BY <1>19, <3>2, NextRowCall
      <4>2. /\ maker[s] \in ran /\ work[s] # "none"
            /\ work[s] \in Working => maker[s] \in alive
        BY <4>1 DEF Inv, ScanOK
      <4>3. maker[s] # Of[c] /\ Of[c] \in alive
        BY <4>1 DEF Inv, MakingOK, StepsOK
      <4>4. Shown(maker[s]) => maker[s] \notin alive
        BY <4>1, <4>2, <4>3, StoreParameters
        DEF OtherProcessAlive, Shown, Inv, AliveOK, Typed, TypeOK
      <4>5. Shown(maker[s]) => work[s] = "done"
        BY <4>2, <4>4 DEF Inv, Typed, TypeOK, Working
      <4>6. QED BY <2>1, <2>2, <4>1, <4>2, <4>5 DEF AbortOK, Shown
    <3>3. QED BY <3>1, <3>2
  <2>3. CASE e # c
    BY <1>19, <2>1, <2>3, NextRowCall DEF AbortOK
  <2>4. QED BY <2>2, <2>3
<1>20. ASSUME NEW c \in Clients, NEW s \in Scans, Create(c, s) PROVE AbortOK(e)'
  <2>1. AbortOK(e) /\ UNCHANGED work
    BY <1>20 DEF Inv, Create
  <2>2. \A z \in Scans : maker[z] \in Procs => maker'[z] = maker[z]
    BY <1>20, StoreParameters DEF Create, Inv, Typed, TypeOK
  <2>3. CASE e = c
    BY <1>20, <2>3 DEF Create, Calls, Idle, AbortOK, Inv, Typed
  <2>4. CASE e # c
    <3>1. call'[e] = call[e] /\ StepsOK(e)
      BY <1>20, <2>4 DEF Create, Calls, Inv, Typed
    <3>2. call[e].step \in {"abort", "write", "rename", "log", "unlink", "rmdir"} =>
            call[e].scan \in Scans
      BY <3>1 DEF StepsOK
    <3>3. \A z \in Scans : work[z] # "none" => maker[z] \in Procs
      BY DEF Inv, ScanOK, Typed, TypeOK
    <3>4. QED BY <2>1, <2>2, <3>1, <3>2, <3>3 DEF AbortOK
  <2>5. QED BY <2>3, <2>4
<1>21. ASSUME NEW c \in Clients, NEW s \in Scans, NEW fn \in {"record", "delete"}, Ask(c, fn, s)
      PROVE  AbortOK(e)'
  <2>1. AbortOK(e) /\ UNCHANGED <<maker, work>>
    BY <1>21 DEF Inv, Ask
  <2>2. CASE e = c
    BY <1>21, <2>2 DEF Ask, Calls, Idle, AbortOK, Inv, Typed
  <2>3. CASE e # c
    BY <1>21, <2>1, <2>3 DEF Ask, Calls, AbortOK, Inv, Typed
  <2>4. QED BY <2>2, <2>3
<1>22. ASSUME NEW s \in Scans, WorkerSaves(s) PROVE AbortOK(e)'
  <2>1. AbortOK(e) /\ StepsOK(e) /\ UNCHANGED <<call, maker>>
    BY <1>22 DEF Inv, WorkerSaves
  <2>2. \A t \in Scans : /\ work[t] # "none" => work'[t] # "none"
                         /\ work[t] = "done" => work'[t] = "done"
    BY <1>22 DEF WorkerSaves, Inv, Typed, TypeOK
  <2>3. call[e].step \in {"abort", "write", "rename", "log", "unlink", "rmdir"} =>
          call[e].scan \in Scans
    BY <2>1 DEF StepsOK
  <2>4. QED BY <2>1, <2>2, <2>3 DEF AbortOK
<1>23. ASSUME NEW s \in Scans, WorkerUpdates(s) PROVE AbortOK(e)'
  <2>1. AbortOK(e) /\ StepsOK(e) /\ UNCHANGED <<call, maker>>
    BY <1>23 DEF Inv, WorkerUpdates
  <2>2. \A t \in Scans : /\ work[t] # "none" => work'[t] # "none"
                         /\ work[t] = "done" => work'[t] = "done"
    BY <1>23 DEF WorkerUpdates, Inv, Typed, TypeOK
  <2>3. call[e].step \in {"abort", "write", "rename", "log", "unlink", "rmdir"} =>
          call[e].scan \in Scans
    BY <2>1 DEF StepsOK
  <2>4. QED BY <2>1, <2>2, <2>3 DEF AbortOK
<1>24. ASSUME NEW s \in Scans, WorkerFinishes(s) PROVE AbortOK(e)'
  <2>1. AbortOK(e) /\ StepsOK(e) /\ UNCHANGED <<call, maker>>
    BY <1>24 DEF Inv, WorkerFinishes
  <2>2. \A t \in Scans : /\ work[t] # "none" => work'[t] # "none"
                         /\ work[t] = "done" => work'[t] = "done"
    BY <1>24 DEF WorkerFinishes, Inv, Typed, TypeOK
  <2>3. call[e].step \in {"abort", "write", "rename", "log", "unlink", "rmdir"} =>
          call[e].scan \in Scans
    BY <2>1 DEF StepsOK
  <2>4. QED BY <2>1, <2>2, <2>3 DEF AbortOK
<1>25. ASSUME NEW s \in Scans, WorkerGivesUp(s) PROVE AbortOK(e)'
  <2>1. AbortOK(e) /\ StepsOK(e) /\ UNCHANGED <<call, maker>>
    BY <1>25 DEF Inv, WorkerGivesUp
  <2>2. \A t \in Scans : /\ work[t] # "none" => work'[t] # "none"
                         /\ work[t] = "done" => work'[t] = "done"
    BY <1>25 DEF WorkerGivesUp, Inv, Typed, TypeOK
  <2>3. call[e].step \in {"abort", "write", "rename", "log", "unlink", "rmdir"} =>
          call[e].scan \in Scans
    BY <2>1 DEF StepsOK
  <2>4. QED BY <2>1, <2>2, <2>3 DEF AbortOK
<1>26. ASSUME NEW s \in Scans, NEW next \in {"saving", "updating", "restoring", "finishing"},
             WorkerFindsRow(s, next)
      PROVE  AbortOK(e)'
  <2>1. AbortOK(e) /\ StepsOK(e) /\ UNCHANGED <<call, maker>>
    BY <1>26 DEF Inv, WorkerFindsRow
  <2>2. \A t \in Scans : /\ work[t] # "none" => work'[t] # "none"
                         /\ work[t] = "done" => work'[t] = "done"
    BY <1>26 DEF WorkerFindsRow, Inv, Typed, TypeOK
  <2>3. call[e].step \in {"abort", "write", "rename", "log", "unlink", "rmdir"} =>
          call[e].scan \in Scans
    BY <2>1 DEF StepsOK
  <2>4. QED BY <2>1, <2>2, <2>3 DEF AbortOK
<1>27. QED
  BY <1>1, <1>2, <1>3, <1>4, <1>5, <1>6, <1>7, <1>8, <1>9, <1>10, <1>11, <1>12, <1>13, <1>14,
     <1>15, <1>16, <1>17, <1>18, <1>19, <1>20, <1>21, <1>22, <1>23, <1>24, <1>25, <1>26 DEF
     Next

-----------------------------------------------------------------------------
(* The files of the scans. *)

\* A scan's files agree with its worker.
LEMMA ScanKept ==
    ASSUME Inv, Next, NEW z \in Scans
    PROVE  ScanOK(z)'
<1>1. ASSUME NEW p \in Procs, Start(p) PROVE ScanOK(z)'
  <2>1. /\ ScanOK(z) /\ UNCHANGED <<disk, maker, work, deleted>>
        /\ alive \subseteq alive' /\ ran \subseteq ran'
    BY <1>1 DEF Inv, Start
  <2>2. QED BY <2>1 DEF ScanOK, disk
<1>2. ASSUME NEW p \in Procs, Dies(p) PROVE ScanOK(z)'
  BY <1>2, GoneScan DEF Dies
<1>3. ASSUME NEW c \in Clients, OpenFails(c) PROVE ScanOK(z)'
  BY <1>3, GoneScan, StoreParameters DEF OpenFails
<1>4. ASSUME NEW c \in Clients, List(c) PROVE ScanOK(z)'
  <2>1. ScanOK(z) /\ UNCHANGED <<disk, alive, ran, maker, work, deleted>>
    BY <1>4 DEF Inv, List
  <2>2. QED BY <2>1 DEF ScanOK, disk
<1>5. ASSUME NEW c \in Clients, Opened(c) PROVE ScanOK(z)'
  <2>1. ScanOK(z) /\ UNCHANGED <<disk, alive, ran, maker, work, deleted>>
    BY <1>5 DEF Inv, Opened
  <2>2. QED BY <2>1 DEF ScanOK, disk
<1>6. ASSUME NEW c \in Clients, MakeDirectory(c) PROVE ScanOK(z)'
  <2>1. /\ ScanOK(z) /\ dirs \subseteq dirs'
        /\ UNCHANGED <<row, results, alive, ran, maker, work, deleted>>
    BY <1>6 DEF Inv, MakeDirectory
  <2>2. QED BY <2>1 DEF ScanOK
<1>7. ASSUME NEW c \in Clients, FirstRow(c) PROVE ScanOK(z)'
  <2> DEFINE t == call[c].scan
             first == [status |-> "RUNNING", owner |-> Of[c]]
  <2>1. /\ t \in Scans /\ maker[t] = Of[c] /\ work[t] = "none" /\ Of[c] \in alive
        /\ t \in dirs /\ ScanOK(z)
    BY <1>7 DEF FirstRow, At, Inv, StepsOK, MakingOK
  <2>2. /\ row' = [row EXCEPT ![t] = first] /\ work' = [work EXCEPT ![t] = "running"]
        /\ UNCHANGED <<dirs, results, alive, ran, maker, deleted>>
    BY <1>7 DEF FirstRow
  <2>3. first.owner = Of[c]
    OBVIOUS
  <2> HIDE DEF t, first
  <2>4. CASE z = t
    <3>1. row'[z] = first /\ work'[z] = "running" /\ z \in dirs' /\ z \notin deleted
      BY <2>1, <2>2, <2>4 DEF Inv, Typed, TypeOK, ScanOK
    <3>2. Of[c] \in ran /\ Of[c] # NoProc /\ first # NoRow
      BY <2>1, StoreParameters DEF Inv, Typed, TypeOK, first, Row, Active
    <3>3. QED BY <2>1, <2>2, <2>3, <2>4, <3>1, <3>2 DEF ScanOK, first
  <2>5. CASE z # t
    BY <2>1, <2>2, <2>5 DEF ScanOK, Inv, Typed, TypeOK
  <2>6. QED BY <2>4, <2>5
<1>8. ASSUME NEW c \in Clients, FirstRowFails(c) PROVE ScanOK(z)'
  <2>1. /\ ScanOK(z) /\ call[c].scan \in Scans /\ work[call[c].scan] = "none"
        /\ dirs' = dirs \ {call[c].scan}
        /\ UNCHANGED <<row, results, alive, ran, maker, work, deleted>>
    BY <1>8 DEF Inv, FirstRowFails, At, StepsOK, MakingOK
  <2>2. QED BY <2>1 DEF ScanOK, Working
<1>9. ASSUME NEW c \in Clients, Read(c) PROVE ScanOK(z)'
  <2>1. ScanOK(z) /\ UNCHANGED <<disk, alive, ran, maker, work, deleted>>
    BY <1>9 DEF Inv, Read
  <2>2. QED BY <2>1 DEF ScanOK, disk
<1>10. ASSUME NEW c \in Clients, Look(c) PROVE ScanOK(z)'
  <2>1. ScanOK(z) /\ UNCHANGED <<disk, alive, ran, maker, work, deleted>>
    BY <1>10 DEF Inv, Look
  <2>2. QED BY <2>1 DEF ScanOK, disk
<1>11. ASSUME NEW c \in Clients, FindRow(c) PROVE ScanOK(z)'
  <2>1. ScanOK(z) /\ UNCHANGED <<disk, alive, ran, maker, work, deleted>>
    BY <1>11 DEF Inv, FindRow
  <2>2. QED BY <2>1 DEF ScanOK, disk
<1>12. ASSUME NEW c \in Clients, AbortMakesDirectory(c) PROVE ScanOK(z)'
  <2>1. /\ ScanOK(z) /\ dirs \subseteq dirs'
        /\ UNCHANGED <<row, results, alive, ran, maker, work, deleted>>
    BY <1>12 DEF Inv, AbortMakesDirectory
  <2>2. QED BY <2>1 DEF ScanOK
<1>13. ASSUME NEW c \in Clients, AbortRow(c) PROVE ScanOK(z)'
  <2> DEFINE t == call[c].scan
             ended == [call[c].seen EXCEPT !.status = "ABORTED"]
  <2>1. /\ t \in Scans /\ work[t] # "none" /\ (Shown(maker[t]) => work[t] = "done")
        /\ call[c].seen = [status |-> "RUNNING", owner |-> maker[t]] /\ ScanOK(z)
    BY <1>13 DEF AbortRow, Inv, StepsOK, AbortOK
  <2>2. /\ row' = [row EXCEPT ![t] = ended]
        /\ UNCHANGED <<dirs, results, alive, ran, maker, work, deleted>>
    BY <1>13 DEF AbortRow
  <2>3. ended.owner = maker[t] /\ ~IsActive(ended)
    BY <2>1 DEF IsActive, Active
  <2> HIDE DEF t, ended
  <2>4. CASE z = t
    <3>1. row'[z] = ended
      BY <2>1, <2>2, <2>4 DEF Inv, Typed, TypeOK
    <3>2. QED BY <2>1, <2>2, <2>3, <2>4, <3>1 DEF ScanOK, Working
  <2>5. CASE z # t
    BY <2>1, <2>2, <2>5 DEF ScanOK, Inv, Typed, TypeOK
  <2>6. QED BY <2>4, <2>5
<1>14. ASSUME NEW c \in Clients, LogAbort(c) PROVE ScanOK(z)'
  <2>1. ScanOK(z) /\ UNCHANGED <<disk, alive, ran, maker, work, deleted>>
    BY <1>14 DEF Inv, LogAbort
  <2>2. QED BY <2>1 DEF ScanOK, disk
<1>15. ASSUME NEW c \in Clients, AbortFails(c) PROVE ScanOK(z)'
  <2>1. ScanOK(z)
    BY DEF Inv
  <2>2. CASE call[c].fn = "open"
    BY <1>15, <2>2, GoneScan, StoreParameters DEF AbortFails
  <2>3. CASE call[c].fn # "open"
    BY <1>15, <2>1, <2>3 DEF AbortFails, ScanOK, disk
  <2>4. QED BY <2>2, <2>3
<1>16. ASSUME NEW c \in Clients, Unlink(c) PROVE ScanOK(z)'
  <2> DEFINE t == call[c].scan
  <2>1. t \in Scans /\ work[t] # "none" /\ (Shown(maker[t]) => work[t] = "done") /\ ScanOK(z)
    BY <1>16 DEF Unlink, At, Inv, StepsOK, AbortOK
  <2>2. /\ row' = [row EXCEPT ![t] = NoRow] /\ results' = results \ {t}
        /\ UNCHANGED <<dirs, alive, ran, maker, work, deleted>>
    BY <1>16 DEF Unlink
  <2> HIDE DEF t
  <2>3. CASE z = t
    <3>1. row'[z] = NoRow
      BY <2>1, <2>2, <2>3 DEF Inv, Typed, TypeOK
    <3>2. QED BY <2>1, <2>2, <2>3, <3>1 DEF ScanOK, Working
  <2>4. CASE z # t
    BY <2>1, <2>2, <2>4 DEF ScanOK, Inv, Typed, TypeOK
  <2>5. QED BY <2>3, <2>4
<1>17. ASSUME NEW c \in Clients, Rmdir(c) PROVE ScanOK(z)'
  <2> DEFINE t == call[c].scan
  <2>1. t \in Scans /\ work[t] # "none" /\ (Shown(maker[t]) => work[t] = "done") /\ ScanOK(z)
    BY <1>17 DEF Rmdir, At, Inv, StepsOK, AbortOK
  <2>2. /\ dirs \ {t} \subseteq dirs'
        /\ deleted' = deleted \/ (deleted' = deleted \cup {t} /\ row[t] = NoRow)
        /\ UNCHANGED <<row, results, alive, ran, maker, work>>
    BY <1>17 DEF Rmdir
  <2> HIDE DEF t
  <2>3. CASE z = t
    BY <2>1, <2>2, <2>3 DEF ScanOK, Working
  <2>4. CASE z # t
    BY <2>1, <2>2, <2>4 DEF ScanOK
  <2>5. QED BY <2>3, <2>4
<1>18. ASSUME NEW c \in Clients, NEW s \in Scans, ListRow(c, s) PROVE ScanOK(z)'
  <2>1. ScanOK(z) /\ UNCHANGED <<disk, alive, ran, maker, work, deleted>>
    BY <1>18 DEF Inv, ListRow
  <2>2. QED BY <2>1 DEF ScanOK, disk
<1>19. ASSUME NEW c \in Clients, NEW s \in Scans, NextRow(c, s) PROVE ScanOK(z)'
  <2>1. ScanOK(z) /\ UNCHANGED <<disk, alive, ran, maker, work, deleted>>
    BY <1>19 DEF Inv, NextRow
  <2>2. QED BY <2>1 DEF ScanOK, disk
<1>20. ASSUME NEW c \in Clients, NEW s \in Scans, Create(c, s) PROVE ScanOK(z)'
  <2>1. /\ ScanOK(z) /\ maker[s] = NoProc /\ Of[c] \in alive
        /\ maker' = [maker EXCEPT ![s] = Of[c]]
        /\ UNCHANGED <<disk, alive, ran, work, deleted>>
    BY <1>20 DEF Inv, Create, Calls
  <2>2. Of[c] \in ran /\ ScanOK(s) /\ maker \in [Scans -> Procs \cup {NoProc}]
    BY <2>1 DEF Inv, Typed, TypeOK
  <2>3. CASE z = s
    <3>1. maker'[z] = Of[c]
      BY <2>1, <2>2, <2>3
    <3>2. row[z] = NoRow /\ work[z] = "none" /\ z \notin deleted
      BY <2>1, <2>2, <2>3 DEF ScanOK
    <3>3. QED BY <2>1, <2>2, <2>3, <3>1, <3>2 DEF ScanOK, Working, disk
  <2>4. CASE z # s
    BY <2>1, <2>2, <2>4 DEF ScanOK, disk
  <2>5. QED BY <2>3, <2>4
<1>21. ASSUME NEW c \in Clients, NEW s \in Scans, NEW fn \in {"record", "delete"}, Ask(c, fn, s)
      PROVE  ScanOK(z)'
  <2>1. ScanOK(z) /\ UNCHANGED <<disk, alive, ran, maker, work, deleted>>
    BY <1>21 DEF Inv, Ask
  <2>2. QED BY <2>1 DEF ScanOK, disk
<1>22. ASSUME NEW s \in Scans, WorkerSaves(s) PROVE ScanOK(z)'
  <2>1. /\ work[s] = "saving" /\ ScanOK(z) /\ dirs' = dirs \cup {s}
        /\ results' = results \cup {s} /\ work' = [work EXCEPT ![s] = "running"]
        /\ work \in [Scans -> Working \cup {"none", "done"}]
        /\ UNCHANGED <<row, alive, ran, maker, deleted>>
    BY <1>22 DEF WorkerSaves, Inv, Typed, TypeOK, Working
  <2>2. CASE z = s
    BY <2>1, <2>2 DEF ScanOK, Working
  <2>3. CASE z # s
    BY <2>1, <2>3 DEF ScanOK
  <2>4. QED BY <2>2, <2>3
<1>23. ASSUME NEW s \in Scans, WorkerUpdates(s) PROVE ScanOK(z)'
  <2> DEFINE status == IF work[s] = "updating" THEN "RUNNING" ELSE "ABORTED"
             record == [status |-> status, owner |-> maker[s]]
  <2>1. /\ work[s] \in {"updating", "restoring"} /\ ScanOK(z) /\ dirs' = dirs \cup {s}
        /\ row' = [row EXCEPT ![s] = record] /\ work' = [work EXCEPT ![s] = "running"]
        /\ UNCHANGED <<results, alive, ran, maker, deleted>>
    BY <1>23 DEF WorkerUpdates, Inv
  <2>2. record.owner = maker[s]
    OBVIOUS
  <2>3. work[s] = "updating" => record = [status |-> "RUNNING", owner |-> maker[s]]
    OBVIOUS
  <2> HIDE DEF record
  <2>4. CASE z = s
    <3>1. row'[z] = record /\ work'[z] = "running"
      BY <2>1, <2>4 DEF Inv, Typed, TypeOK
    <3>2. Shown(maker[s]) => work[s] = "updating"
      BY <2>1, <2>4 DEF ScanOK
    <3>3. QED BY <2>1, <2>2, <2>3, <2>4, <3>1, <3>2 DEF ScanOK, Working
  <2>5. CASE z # s
    BY <2>1, <2>5 DEF ScanOK, Inv, Typed, TypeOK
  <2>6. QED BY <2>4, <2>5
<1>24. ASSUME NEW s \in Scans, WorkerFinishes(s) PROVE ScanOK(z)'
  <2> DEFINE record == [status |-> "FINISHED", owner |-> maker[s]]
  <2>1. /\ work[s] = "finishing" /\ ScanOK(z) /\ dirs' = dirs \cup {s}
        /\ row' = [row EXCEPT ![s] = record] /\ work' = [work EXCEPT ![s] = "done"]
        /\ UNCHANGED <<results, alive, ran, maker, deleted>>
    BY <1>24 DEF WorkerFinishes, Inv
  <2>2. record.owner = maker[s] /\ ~IsActive(record)
    BY DEF IsActive, Active
  <2> HIDE DEF record
  <2>3. CASE z = s
    <3>1. row'[z] = record /\ work'[z] = "done"
      BY <2>1, <2>3 DEF Inv, Typed, TypeOK
    <3>2. QED BY <2>1, <2>2, <2>3, <3>1 DEF ScanOK, Working
  <2>4. CASE z # s
    BY <2>1, <2>4 DEF ScanOK, Inv, Typed, TypeOK
  <2>5. QED BY <2>3, <2>4
<1>25. ASSUME NEW s \in Scans, WorkerGivesUp(s) PROVE ScanOK(z)'
  <2>1. /\ work[s] = "running" /\ ScanOK(z) /\ work' = [work EXCEPT ![s] = "done"]
        /\ work \in [Scans -> Working \cup {"none", "done"}]
        /\ row[s] # NoRow => ~IsActive(row[s])
        /\ UNCHANGED <<disk, alive, ran, maker, deleted>>
    BY <1>25 DEF WorkerGivesUp, Inv, Typed, TypeOK, Working
  <2>2. CASE z = s
    BY <2>1, <2>2 DEF ScanOK, Working, disk
  <2>3. CASE z # s
    BY <2>1, <2>3 DEF ScanOK, disk
  <2>4. QED BY <2>2, <2>3
<1>26. ASSUME NEW s \in Scans, NEW next \in {"saving", "updating", "restoring", "finishing"},
             WorkerFindsRow(s, next)
      PROVE  ScanOK(z)'
  <2>1. /\ work[s] = "running" /\ ScanOK(z) /\ work' = [work EXCEPT ![s] = next]
        /\ work \in [Scans -> Working \cup {"none", "done"}]
        /\ next \in Working /\ (next = "restoring" => ~IsActive(row[s]))
        /\ UNCHANGED <<disk, alive, ran, maker, deleted>>
    BY <1>26 DEF WorkerFindsRow, Inv, Typed, TypeOK, Working
  <2>2. CASE z = s
    <3>1. next = "restoring" => ~Shown(maker[s])
      <4>1. ASSUME next = "restoring", Shown(maker[s]) PROVE FALSE
        <5>1. row[s] = [status |-> "RUNNING", owner |-> maker[s]]
          BY <2>1, <2>2, <4>1 DEF ScanOK, Working
        <5>2. row[s].status = "RUNNING"
          BY <5>1
        <5>3. QED BY <2>1, <4>1, <5>2 DEF IsActive, Active
      <4>2. QED BY <4>1
    <3>2. work'[z] = next
      BY <2>1, <2>2
    <3>3. QED BY <2>1, <2>2, <3>1, <3>2 DEF ScanOK, Working, disk
  <2>3. CASE z # s
    BY <2>1, <2>3 DEF ScanOK, disk
  <2>4. QED BY <2>2, <2>3
<1>27. QED
  BY <1>1, <1>2, <1>3, <1>4, <1>5, <1>6, <1>7, <1>8, <1>9, <1>10, <1>11, <1>12, <1>13, <1>14,
     <1>15, <1>16, <1>17, <1>18, <1>19, <1>20, <1>21, <1>22, <1>23, <1>24, <1>25, <1>26 DEF
     Next

\* recover passes over no active row that carries its own process's id.
LEMMA LeftOverKept ==
    ASSUME Inv, Next, NEW q \in Procs, q \in alive', NEW z \in Scans
    PROVE  LeftOver(q, z)'
<1>1. ASSUME NEW p \in Procs, Start(p) PROVE LeftOver(q, z)'
  <2>1. UNCHANGED <<row, maker>> /\ p \notin alive /\ Main[p] \in Clients
    BY <1>1, StoreParameters DEF Start, disk, Inv, Typed, TypeOK
  <2>2. CASE q = p
    BY <1>1, <2>1, <2>2 DEF Start, Idle, LeftOver, Inv, Typed
  <2>3. CASE q # p
    <3>1. Main[q] # Main[p] /\ Main[q] \in Clients
      BY <2>3, StoreParameters
    <3>2. LeftOver(q, z) /\ call'[Main[q]] = call[Main[q]]
      BY <1>1, <2>3, <3>1 DEF Start, Inv, Typed
    <3>3. QED BY <2>1, <3>2 DEF LeftOver
  <2>4. QED BY <2>2, <2>3
<1>2. ASSUME NEW p \in Procs, Dies(p) PROVE LeftOver(q, z)'
  BY <1>2, GoneLeftOver DEF Dies
<1>3. ASSUME NEW c \in Clients, OpenFails(c) PROVE LeftOver(q, z)'
  BY <1>3, GoneLeftOver DEF OpenFails
<1>4. ASSUME NEW c \in Clients, List(c) PROVE LeftOver(q, z)'
  <2>1. /\ LeftOver(q, z) /\ q \in alive /\ UNCHANGED <<maker, row>>
        /\ Main[q] \in Clients
    BY <1>4, StoreParameters DEF Inv, List, disk
  <2>2. CASE Main[q] = c
    <3>1. z \notin dirs => row[z] = NoRow
      BY DEF Inv, Typed, TypeOK
    <3>2. QED BY <1>4, <2>1, <2>2, <3>1, ListCall DEF LeftOver
  <2>3. CASE Main[q] # c
    BY <1>4, <2>1, <2>3, ListCall DEF LeftOver, List
  <2>4. QED BY <2>2, <2>3
<1>5. ASSUME NEW c \in Clients, Opened(c) PROVE LeftOver(q, z)'
  <2>1. /\ LeftOver(q, z) /\ q \in alive /\ UNCHANGED <<maker, row>>
        /\ Main[q] \in Clients
    BY <1>5, StoreParameters DEF Inv, Opened, disk
  <2>2. CASE Main[q] = c
    BY <1>5, <2>1, <2>2 DEF LeftOver, Opened, At
  <2>3. CASE Main[q] # c
    BY <1>5, <2>1, <2>3, ReturnsCall DEF LeftOver, Opened
  <2>4. QED BY <2>2, <2>3
<1>6. ASSUME NEW c \in Clients, MakeDirectory(c) PROVE LeftOver(q, z)'
  <2>1. q \in alive /\ call[c].fn # "open" /\ UNCHANGED <<maker, row>>
    BY <1>6 DEF MakeDirectory, At, disk
  <2>2. \A d \in Clients : d # c => call'[d] = call[d]
    BY <1>6, GoesCall DEF MakeDirectory
  <2>3. QED BY <2>1, <2>2, NotOpening
<1>7. ASSUME NEW c \in Clients, FirstRow(c) PROVE LeftOver(q, z)'
  <2> DEFINE t == call[c].scan
  <2>1. /\ t \in Scans /\ maker[t] = Of[c] /\ Of[c] \in alive
        /\ call[c].fn # "open" /\ Returns(c)
    BY <1>7 DEF FirstRow, At, Inv, StepsOK, MakingOK
  <2>2. /\ row' = [row EXCEPT ![t] = [status |-> "RUNNING", owner |-> Of[c]]]
        /\ UNCHANGED <<alive, maker>>
    BY <1>7 DEF FirstRow
  <2> HIDE DEF t
  <2>3. CASE z = t
    BY <2>1, <2>2, <2>3 DEF LeftOver, Inv, AliveOK
  <2>4. CASE z # t
    <3>1. row'[z] = row[z]
      BY <2>1, <2>2, <2>4 DEF Inv, Typed, TypeOK
    <3>2. QED BY <2>1, <2>2, <3>1, ReturnsCall, NotOpening
  <2>5. QED BY <2>3, <2>4
<1>8. ASSUME NEW c \in Clients, FirstRowFails(c) PROVE LeftOver(q, z)'
  <2>1. q \in alive /\ call[c].fn # "open" /\ UNCHANGED <<maker, row>>
    BY <1>8 DEF FirstRowFails, At, disk
  <2>2. \A d \in Clients : d # c => call'[d] = call[d]
    BY <1>8, ReturnsCall DEF FirstRowFails
  <2>3. QED BY <2>1, <2>2, NotOpening
<1>9. ASSUME NEW c \in Clients, Read(c) PROVE LeftOver(q, z)'
  <2>1. q \in alive /\ call[c].fn # "open" /\ UNCHANGED <<maker, row>>
    BY <1>9 DEF Read, At, disk
  <2>2. \A d \in Clients : d # c => call'[d] = call[d]
    BY <1>9, ReadCall DEF Read
  <2>3. QED BY <2>1, <2>2, NotOpening
<1>10. ASSUME NEW c \in Clients, Look(c) PROVE LeftOver(q, z)'
  <2>1. q \in alive /\ call[c].fn # "open" /\ UNCHANGED <<maker, row>>
    BY <1>10 DEF Look, At, disk
  <2>2. \A d \in Clients : d # c => call'[d] = call[d]
    BY <1>10, LookCall DEF Look
  <2>3. QED BY <2>1, <2>2, NotOpening
<1>11. ASSUME NEW c \in Clients, FindRow(c) PROVE LeftOver(q, z)'
  <2>1. /\ LeftOver(q, z) /\ q \in alive /\ UNCHANGED <<maker, row>>
        /\ Main[q] \in Clients
    BY <1>11, StoreParameters DEF Inv, FindRow, disk
  <2>2. CASE Main[q] = c
    <3>1. call[c].step \in {"abort", "write"} /\ Goes(c, "write")
      BY <1>11 DEF FindRow
    <3>2. QED BY <2>1, <2>2, <3>1, GoesCall DEF LeftOver
  <2>3. CASE Main[q] # c
    BY <1>11, <2>1, <2>3, GoesCall DEF LeftOver, FindRow
  <2>4. QED BY <2>2, <2>3
<1>12. ASSUME NEW c \in Clients, AbortMakesDirectory(c) PROVE LeftOver(q, z)'
  <2>1. /\ LeftOver(q, z) /\ q \in alive /\ UNCHANGED <<maker, row>>
        /\ Main[q] \in Clients
    BY <1>12, StoreParameters DEF Inv, AbortMakesDirectory, disk
  <2>2. CASE Main[q] = c
    <3>1. call[c].step \in {"abort", "write"} /\ Goes(c, "rename")
      BY <1>12 DEF AbortMakesDirectory
    <3>2. QED BY <2>1, <2>2, <3>1, GoesCall DEF LeftOver
  <2>3. CASE Main[q] # c
    BY <1>12, <2>1, <2>3, GoesCall DEF LeftOver, AbortMakesDirectory
  <2>4. QED BY <2>2, <2>3
<1>13. ASSUME NEW c \in Clients, AbortRow(c) PROVE LeftOver(q, z)'
  <2> DEFINE t == call[c].scan
             ended == [call[c].seen EXCEPT !.status = "ABORTED"]
  <2>1. /\ LeftOver(q, z) /\ q \in alive /\ UNCHANGED maker /\ Main[q] \in Clients
        /\ row' = [row EXCEPT ![t] = ended] /\ t \in Scans
        /\ call[c].step = "rename" /\ Goes(c, "log")
        /\ call[c].seen = [status |-> "RUNNING", owner |-> maker[t]]
    BY <1>13, StoreParameters DEF Inv, AbortRow, StepsOK, AbortOK
  <2>2. ~IsActive(ended)
    BY <2>1 DEF IsActive, Active
  <2> HIDE DEF ended
  <2>3. CASE z = t
    <3>1. row'[z] = ended
      BY <2>1, <2>3 DEF Inv, Typed, TypeOK
    <3>2. QED BY <2>2, <3>1 DEF LeftOver
  <2>4. CASE z # t
    <3>1. row'[z] = row[z]
      BY <2>1, <2>4 DEF Inv, Typed, TypeOK
    <3>2. QED BY <2>1, <2>4, <3>1, GoesCall DEF LeftOver
  <2>5. QED BY <2>3, <2>4
<1>14. ASSUME NEW c \in Clients, LogAbort(c) PROVE LeftOver(q, z)'
  <2>1. /\ LeftOver(q, z) /\ q \in alive /\ UNCHANGED <<maker, row>>
        /\ Main[q] \in Clients /\ call[c].step = "log"
    BY <1>14, StoreParameters DEF Inv, LogAbort, disk
  <2>2. CASE Main[q] = c
    BY <1>14, <2>1, <2>2, LogAbortCall DEF LeftOver, Idle
  <2>3. CASE Main[q] # c
    BY <1>14, <2>1, <2>3, LogAbortCall DEF LeftOver
  <2>4. QED BY <2>2, <2>3
<1>15. ASSUME NEW c \in Clients, AbortFails(c) PROVE LeftOver(q, z)'
  <2>1. CASE call[c].fn = "open"
    BY <1>15, <2>1, GoneLeftOver DEF AbortFails
  <2>2. CASE call[c].fn # "open"
    BY <1>15, <2>2, ReturnsCall, NotOpening DEF AbortFails, disk
  <2>3. QED BY <2>1, <2>2
<1>16. ASSUME NEW c \in Clients, Unlink(c) PROVE LeftOver(q, z)'
  <2>1. q \in alive /\ call[c].fn # "open" /\ UNCHANGED maker
    BY <1>16, UnlinkCall DEF Unlink
  <2>2. row'[z] = row[z] \/ row'[z] = NoRow
    BY <1>16 DEF Unlink, Inv, Typed, TypeOK
  <2>3. QED BY <1>16, <2>1, <2>2, UnlinkCall, NotOpening
<1>17. ASSUME NEW c \in Clients, Rmdir(c) PROVE LeftOver(q, z)'
  <2>1. q \in alive /\ call[c].fn # "open" /\ UNCHANGED <<maker, row>>
    BY <1>17 DEF Rmdir, At, disk
  <2>2. \A d \in Clients : d # c => call'[d] = call[d]
    BY <1>17, ReturnsCall DEF Rmdir
  <2>3. QED BY <2>1, <2>2, NotOpening
<1>18. ASSUME NEW c \in Clients, NEW s \in Scans, ListRow(c, s) PROVE LeftOver(q, z)'
  <2>1. /\ LeftOver(q, z) /\ q \in alive /\ UNCHANGED <<maker, row>>
        /\ Main[q] \in Clients
    BY <1>18, StoreParameters DEF Inv, ListRow, disk
  <2>2. CASE Main[q] = c
    <3>1. CASE z = s
      BY <1>18, <2>1, <2>2, <3>1, ListRowCall DEF LeftOver
    <3>2. CASE z # s
      <4>1. /\ call[c].fn = "open" /\ call'[c].fn = "open"
            /\ call[c].step = "next" /\ call'[c].step = "next"
        BY <1>18, ListRowCall DEF ListRow, At
      <4>2. z \in call[c].unread \cup call[c].todo => z \in call'[c].unread \cup call'[c].todo
        BY <1>18, <3>2, ListRowCall
      <4>3. QED BY <2>1, <2>2, <4>1, <4>2 DEF LeftOver
    <3>3. QED BY <3>1, <3>2
  <2>3. CASE Main[q] # c
    BY <1>18, <2>1, <2>3, ListRowCall DEF LeftOver, ListRow
  <2>4. QED BY <2>2, <2>3
<1>19. ASSUME NEW c \in Clients, NEW s \in Scans, NextRow(c, s) PROVE LeftOver(q, z)'
  <2>1. /\ LeftOver(q, z) /\ q \in alive /\ UNCHANGED <<maker, row>>
        /\ Main[q] \in Clients /\ Of[Main[q]] = q
    BY <1>19, StoreParameters DEF Inv, NextRow, disk, Typed, TypeOK
  <2>2. /\ \A d \in Clients : d # c => call'[d] = call[d]
        /\ call[c].fn = "open" /\ call'[c].fn = "open" /\ call[c].step = "next"
        /\ call'[c].unread = call[c].unread /\ call'[c].todo = call[c].todo \ {s}
        /\ \/ /\ call'[c].step = "next"
              /\ row[s] = NoRow \/ OtherProcessAlive(Of[c], maker[s])
           \/ call'[c].step = "abort" /\ call'[c].scan = s
    BY <1>19, NextRowCall, Zenon
  <2>3. CASE Main[q] = c
    BY <2>1, <2>2, <2>3 DEF LeftOver, OtherProcessAlive
  <2>4. CASE Main[q] # c
    BY <2>1, <2>2, <2>4 DEF LeftOver
  <2>5. QED BY <2>3, <2>4
<1>20. ASSUME NEW c \in Clients, NEW s \in Scans, Create(c, s) PROVE LeftOver(q, z)'
  <2>1. q \in alive /\ call[c].fn # "open" /\ UNCHANGED row
    BY <1>20 DEF Create, Calls, Idle, disk
  <2>2. \A d \in Clients : d # c => call'[d] = call[d]
    BY <1>20 DEF Create, Calls, Inv, Typed
  <2>3. CASE z = s
    BY <1>20, <2>1, <2>3 DEF Create, Inv, ScanOK, LeftOver
  <2>4. CASE z # s
    <3>1. maker'[z] = maker[z]
      BY <1>20, <2>4 DEF Create, Inv, Typed, TypeOK
    <3>2. QED BY <2>1, <2>2, <3>1, NotOpening
  <2>5. QED BY <2>3, <2>4
<1>21. ASSUME NEW c \in Clients, NEW s \in Scans, NEW fn \in {"record", "delete"}, Ask(c, fn, s)
      PROVE  LeftOver(q, z)'
  <2>1. q \in alive /\ call[c].fn # "open" /\ UNCHANGED <<maker, row>>
    BY <1>21 DEF Ask, Calls, Idle, disk
  <2>2. \A d \in Clients : d # c => call'[d] = call[d]
    BY <1>21 DEF Ask, Calls, Inv, Typed
  <2>3. QED BY <2>1, <2>2, NotOpening
<1>22. ASSUME NEW s \in Scans, WorkerSaves(s) PROVE LeftOver(q, z)'
  BY <1>22, NoCallMade DEF WorkerSaves, disk
<1>23. ASSUME NEW s \in Scans, WorkerUpdates(s) PROVE LeftOver(q, z)'
  <2>1. /\ q \in alive /\ UNCHANGED <<call, maker>> /\ maker[s] \in alive
        /\ \A t \in Scans : t # s => row'[t] = row[t]
    BY <1>23 DEF WorkerUpdates, Inv, ScanOK, Working, Typed, TypeOK
  <2>2. CASE z = s
    BY <2>1, <2>2 DEF LeftOver, Inv, AliveOK
  <2>3. CASE z # s
    BY <2>1, <2>3, NoCallMade
  <2>4. QED BY <2>2, <2>3
<1>24. ASSUME NEW s \in Scans, WorkerFinishes(s) PROVE LeftOver(q, z)'
  <2> DEFINE record == [status |-> "FINISHED", owner |-> maker[s]]
  <2>1. q \in alive /\ UNCHANGED <<call, maker>> /\ row' = [row EXCEPT ![s] = record]
    BY <1>24 DEF WorkerFinishes
  <2>2. ~IsActive(record)
    BY DEF IsActive, Active
  <2> HIDE DEF record
  <2>3. row'[z] = record \/ row'[z] = row[z]
    BY <2>1 DEF Inv, Typed, TypeOK
  <2>4. QED BY <2>1, <2>2, <2>3, NoCallMade
<1>25. ASSUME NEW s \in Scans, WorkerGivesUp(s) PROVE LeftOver(q, z)'
  BY <1>25, NoCallMade DEF WorkerGivesUp, disk
<1>26. ASSUME NEW s \in Scans, NEW next \in {"saving", "updating", "restoring", "finishing"},
             WorkerFindsRow(s, next)
      PROVE  LeftOver(q, z)'
  BY <1>26, NoCallMade DEF WorkerFindsRow, disk
<1>27. QED
  BY <1>1, <1>2, <1>3, <1>4, <1>5, <1>6, <1>7, <1>8, <1>9, <1>10, <1>11, <1>12, <1>13, <1>14,
     <1>15, <1>16, <1>17, <1>18, <1>19, <1>20, <1>21, <1>22, <1>23, <1>24, <1>25, <1>26 DEF
     Next

-----------------------------------------------------------------------------
(* The types. *)

\* The calls keep their form.
LEMMA CallsKept ==
    ASSUME Inv, Next
    PROVE  call' \in [Clients -> Call]
<1>1. ASSUME NEW p \in Procs, Start(p) PROVE call' \in [Clients -> Call]
  BY <1>1
  DEF Start, Idle, disk, Inv, Typed, TypeOK, Call, StepsOK, SeenOK, Row, IsActive, Active,
      Ended
<1>2. ASSUME NEW p \in Procs, Dies(p) PROVE call' \in [Clients -> Call]
  BY <1>2
  DEF Dies, Gone, Idle, disk, Inv, Typed, TypeOK, Call, StepsOK, SeenOK, Row, IsActive,
      Active, Ended
<1>3. ASSUME NEW c \in Clients, OpenFails(c) PROVE call' \in [Clients -> Call]
  BY <1>3
  DEF OpenFails, At, Gone, Idle, disk, Inv, Typed, TypeOK, Call, StepsOK, SeenOK, Row,
      IsActive, Active, Ended
<1>4. ASSUME NEW c \in Clients, List(c) PROVE call' \in [Clients -> Call]
  BY <1>4, ListCall
<1>5. ASSUME NEW c \in Clients, Opened(c) PROVE call' \in [Clients -> Call]
  BY <1>5
  DEF Opened, At, Returns, Idle, disk, Inv, Typed, TypeOK, Call, StepsOK, SeenOK, Row,
      IsActive, Active, Ended
<1>6. ASSUME NEW c \in Clients, MakeDirectory(c) PROVE call' \in [Clients -> Call]
  BY <1>6
  DEF MakeDirectory, At, Goes, disk, Inv, Typed, TypeOK, Call, StepsOK, SeenOK, Row, IsActive,
      Active, Ended
<1>7. ASSUME NEW c \in Clients, FirstRow(c) PROVE call' \in [Clients -> Call]
  BY <1>7
  DEF FirstRow, At, Returns, Idle, disk, Inv, Typed, TypeOK, Call, StepsOK, SeenOK, Row,
      IsActive, Active, Ended
<1>8. ASSUME NEW c \in Clients, FirstRowFails(c) PROVE call' \in [Clients -> Call]
  BY <1>8
  DEF FirstRowFails, At, Returns, Idle, disk, Inv, Typed, TypeOK, Call, StepsOK, SeenOK, Row,
      IsActive, Active, Ended
<1>9. ASSUME NEW c \in Clients, Read(c) PROVE call' \in [Clients -> Call]
  BY <1>9
  DEF Read, At, Returns, Idle, disk, Inv, Typed, TypeOK, Call, StepsOK, SeenOK, Row, IsActive,
      Active, Ended
<1>10. ASSUME NEW c \in Clients, Look(c) PROVE call' \in [Clients -> Call]
  BY <1>10
  DEF Look, At, Goes, Returns, Idle, disk, Inv, Typed, TypeOK, Call, StepsOK, SeenOK, Row,
      IsActive, Active, Ended
<1>11. ASSUME NEW c \in Clients, FindRow(c) PROVE call' \in [Clients -> Call]
  BY <1>11
  DEF FindRow, Goes, disk, Inv, Typed, TypeOK, Call, StepsOK, SeenOK, Row, IsActive, Active,
      Ended
<1>12. ASSUME NEW c \in Clients, AbortMakesDirectory(c) PROVE call' \in [Clients -> Call]
  BY <1>12
  DEF AbortMakesDirectory, Goes, disk, Inv, Typed, TypeOK, Call, StepsOK, SeenOK, Row,
      IsActive, Active, Ended
<1>13. ASSUME NEW c \in Clients, AbortRow(c) PROVE call' \in [Clients -> Call]
  <2>1. call' = [call EXCEPT ![c] = [call[c] EXCEPT !.step = "log"]]
    BY <1>13 DEF AbortRow, Goes
  <2>2. [call[c] EXCEPT !.step = "log"] \in Call
    BY DEF Inv, Typed, Call
  <2>3. QED BY <2>1, <2>2, CallReplaced
<1>14. ASSUME NEW c \in Clients, LogAbort(c) PROVE call' \in [Clients -> Call]
  BY <1>14, LogAbortCall
<1>15. ASSUME NEW c \in Clients, AbortFails(c) PROVE call' \in [Clients -> Call]
  BY <1>15
  DEF AbortFails, Gone, Returns, Idle, disk, Inv, Typed, TypeOK, Call, StepsOK, SeenOK, Row,
      IsActive, Active, Ended
<1>16. ASSUME NEW c \in Clients, Unlink(c) PROVE call' \in [Clients -> Call]
  <2>1. CASE Goes(c, "rmdir")
    <3>1. call' = [call EXCEPT ![c] = [call[c] EXCEPT !.step = "rmdir"]]
      BY <2>1 DEF Goes
    <3>2. [call[c] EXCEPT !.step = "rmdir"] \in Call
      BY DEF Inv, Typed, Call
    <3>3. QED BY <3>1, <3>2, CallReplaced
  <2>2. CASE Returns(c)
    BY <2>2 DEF Returns, Idle, Call, Inv, Typed
  <2>3. QED BY <1>16, <2>1, <2>2 DEF Unlink
<1>17. ASSUME NEW c \in Clients, Rmdir(c) PROVE call' \in [Clients -> Call]
  BY <1>17
  DEF Rmdir, At, Returns, Idle, disk, Inv, Typed, TypeOK, Call, StepsOK, SeenOK, Row,
      IsActive, Active, Ended
<1>18. ASSUME NEW c \in Clients, NEW s \in Scans, ListRow(c, s)
      PROVE  call' \in [Clients -> Call]
  BY <1>18, ListRowCall
<1>19. ASSUME NEW c \in Clients, NEW s \in Scans, NextRow(c, s)
      PROVE  call' \in [Clients -> Call]
  BY <1>19, NextRowCall
<1>20. ASSUME NEW c \in Clients, NEW s \in Scans, Create(c, s) PROVE call' \in [Clients -> Call]
  BY <1>20
  DEF Create, Calls, Idle, disk, Inv, Typed, TypeOK, Call, StepsOK, SeenOK, Row, IsActive,
      Active, Ended
<1>21. ASSUME NEW c \in Clients, NEW s \in Scans, NEW fn \in {"record", "delete"}, Ask(c, fn, s)
      PROVE  call' \in [Clients -> Call]
  BY <1>21
  DEF Ask, Calls, Idle, disk, Inv, Typed, TypeOK, Call, StepsOK, SeenOK, Row, IsActive,
      Active, Ended
<1>22. ASSUME NEW s \in Scans, WorkerSaves(s) PROVE call' \in [Clients -> Call]
  BY <1>22
  DEF WorkerSaves, disk, Inv, Typed, TypeOK, Call, StepsOK, SeenOK, Row, IsActive, Active,
      Ended
<1>23. ASSUME NEW s \in Scans, WorkerUpdates(s) PROVE call' \in [Clients -> Call]
  BY <1>23
  DEF WorkerUpdates, disk, Inv, Typed, TypeOK, Call, StepsOK, SeenOK, Row, IsActive, Active,
      Ended
<1>24. ASSUME NEW s \in Scans, WorkerFinishes(s) PROVE call' \in [Clients -> Call]
  BY <1>24
  DEF WorkerFinishes, disk, Inv, Typed, TypeOK, Call, StepsOK, SeenOK, Row, IsActive, Active,
      Ended
<1>25. ASSUME NEW s \in Scans, WorkerGivesUp(s) PROVE call' \in [Clients -> Call]
  BY <1>25
  DEF WorkerGivesUp, disk, Inv, Typed, TypeOK, Call, StepsOK, SeenOK, Row, IsActive, Active,
      Ended
<1>26. ASSUME NEW s \in Scans, NEW next \in {"saving", "updating", "restoring", "finishing"},
             WorkerFindsRow(s, next)
      PROVE  call' \in [Clients -> Call]
  BY <1>26
  DEF WorkerFindsRow, disk, Inv, Typed, TypeOK, Call, StepsOK, SeenOK, Row, IsActive, Active,
      Ended
<1>27. QED
  BY <1>1, <1>2, <1>3, <1>4, <1>5, <1>6, <1>7, <1>8, <1>9, <1>10, <1>11, <1>12, <1>13, <1>14,
     <1>15, <1>16, <1>17, <1>18, <1>19, <1>20, <1>21, <1>22, <1>23, <1>24, <1>25, <1>26 DEF
     Next

\* The files a step may change, and who changes them.
LEMMA DiskSteps ==
    ASSUME Next
    PROVE  \/ UNCHANGED disk
           \/ \E c \in Clients : \/ MakeDirectory(c) \/ FirstRow(c) \/ FirstRowFails(c)
                                 \/ AbortMakesDirectory(c) \/ AbortRow(c)
                                 \/ Unlink(c) \/ Rmdir(c)
           \/ \E s \in Scans : WorkerSaves(s) \/ WorkerUpdates(s) \/ WorkerFinishes(s)
BY ZenonT(60)
DEF Next, disk, Start, Dies, Gone, OpenFails, List, Opened, Read, Look, FindRow, AbortFails,
    LogAbort, ListRow, NextRow, Create, Ask, WorkerGivesUp, WorkerFindsRow

\* A row or results are in a directory.
FilesOK ==
    /\ dirs \subseteq Scans /\ results \subseteq dirs
    /\ row \in [Scans -> Row \cup {NoRow}]
    /\ \A s \in Scans : row[s] # NoRow => s \in dirs

LEMMA FilesKept ==
    ASSUME Inv, Next PROVE FilesOK'
<1>1. FilesOK
  BY DEF Inv, Typed, TypeOK, FilesOK
<1>2. CASE UNCHANGED disk
  BY <1>1, <1>2 DEF FilesOK, disk
<1>3. ASSUME NEW c \in Clients, MakeDirectory(c) \/ AbortMakesDirectory(c) PROVE FilesOK'
  <2>1. call[c].scan \in Scans
    BY <1>3 DEF MakeDirectory, AbortMakesDirectory, At, Inv, StepsOK
  <2>2. QED BY <1>1, <1>3, <2>1 DEF MakeDirectory, AbortMakesDirectory, FilesOK
<1>4. ASSUME NEW c \in Clients, FirstRow(c) PROVE FilesOK'
  <2>1. call[c].scan \in Scans /\ call[c].scan \in dirs /\ Of[c] \in Procs
    BY <1>4, StoreParameters DEF FirstRow, At, Inv, StepsOK, MakingOK
  <2>2. [status |-> "RUNNING", owner |-> Of[c]] \in Row
    BY <2>1 DEF Row, Active
  <2>3. QED BY <1>1, <1>4, <2>1, <2>2 DEF FirstRow, FilesOK
<1>5. ASSUME NEW c \in Clients, FirstRowFails(c) PROVE FilesOK'
  <2>1. call[c].scan \in Scans /\ work[call[c].scan] = "none"
    BY <1>5 DEF FirstRowFails, At, Inv, StepsOK, MakingOK
  <2>2. row[call[c].scan] = NoRow /\ call[c].scan \notin results
    BY <2>1 DEF Inv, ScanOK
  <2>3. QED BY <1>1, <1>5, <2>1, <2>2 DEF FirstRowFails, FilesOK
<1>6. ASSUME NEW c \in Clients, AbortRow(c) PROVE FilesOK'
  <2>1. /\ call[c].scan \in Scans /\ call[c].scan \in dirs
        /\ call[c].seen = [status |-> "RUNNING", owner |-> maker[call[c].scan]]
        /\ maker[call[c].scan] \in Procs
    BY <1>6 DEF AbortRow, Inv, StepsOK, AbortOK, ScanOK, Typed, TypeOK
  <2>2. [call[c].seen EXCEPT !.status = "ABORTED"] \in Row
    BY <2>1 DEF Row, Ended
  <2>3. QED BY <1>1, <1>6, <2>1, <2>2 DEF AbortRow, FilesOK
<1>7. ASSUME NEW c \in Clients, Unlink(c) PROVE FilesOK'
  <2>1. call[c].scan \in Scans
    BY <1>7 DEF Unlink, At, Inv, StepsOK
  <2>2. QED BY <1>1, <1>7, <2>1 DEF Unlink, FilesOK
<1>8. ASSUME NEW c \in Clients, Rmdir(c) PROVE FilesOK'
  BY <1>1, <1>8 DEF Rmdir, FilesOK
<1>9. ASSUME NEW s \in Scans, WorkerSaves(s) PROVE FilesOK'
  BY <1>1, <1>9 DEF WorkerSaves, FilesOK
<1>10. ASSUME NEW s \in Scans, WorkerUpdates(s) \/ WorkerFinishes(s) PROVE FilesOK'
  <2>1. maker[s] \in Procs
    BY <1>10 DEF WorkerUpdates, WorkerFinishes, Inv, ScanOK, Working, Typed, TypeOK
  <2>2. \A status \in Active \cup Ended : [status |-> status, owner |-> maker[s]] \in Row
    BY <2>1 DEF Row
  <2>3. PICK record \in Row :
            dirs' = dirs \cup {s} /\ row' = [row EXCEPT ![s] = record] /\ UNCHANGED results
    BY <1>10, <2>2 DEF WorkerUpdates, WorkerFinishes, Active, Ended
  <2>4. QED BY <1>1, <2>3 DEF FilesOK
<1>11. QED
  BY <1>2, <1>3, <1>4, <1>5, <1>6, <1>7, <1>8, <1>9, <1>10, DiskSteps

\* Whatever is not a file or a call.
OthersOK ==
    /\ alive \subseteq ran /\ ran \subseteq Procs
    /\ maker \in [Scans -> Procs \cup {NoProc}]
    /\ work \in [Scans -> {"none", "running", "saving", "updating", "restoring",
                           "finishing", "done"}]
    /\ deleted \subseteq Scans

LEMMA OthersKept ==
    ASSUME Inv, Next PROVE OthersOK'
<1>1. OthersOK
  BY DEF OthersOK, Inv, Typed, TypeOK
<1>2. CASE UNCHANGED <<alive, ran, maker, work, deleted>>
  BY <1>1, <1>2 DEF OthersOK
<1>3. ASSUME NEW p \in Procs, Start(p) PROVE OthersOK'
  BY <1>1, <1>3 DEF OthersOK, Start
<1>4. ASSUME NEW p \in Procs, Gone(p) PROVE OthersOK'
  BY <1>1, <1>4 DEF OthersOK, Gone
<1>5. ASSUME NEW c \in Clients, NEW s \in Scans, Create(c, s) PROVE OthersOK'
  BY <1>1, <1>5, StoreParameters DEF OthersOK, Create
<1>6. ASSUME NEW c \in Clients, FirstRow(c) PROVE OthersOK'
  BY <1>1, <1>6 DEF OthersOK, FirstRow
<1>7. ASSUME NEW c \in Clients, Rmdir(c) PROVE OthersOK'
  <2>1. call[c].scan \in Scans
    BY <1>7 DEF Rmdir, At, Inv, StepsOK
  <2>2. QED BY <1>1, <1>7, <2>1 DEF OthersOK, Rmdir
<1>8. ASSUME NEW s \in Scans, NEW next \in {"saving", "updating", "restoring", "finishing"},
             WorkerFindsRow(s, next)
      PROVE  OthersOK'
  BY <1>1, <1>8 DEF OthersOK, WorkerFindsRow
<1>9. ASSUME NEW s \in Scans, \/ WorkerGivesUp(s) \/ WorkerSaves(s)
                              \/ WorkerUpdates(s) \/ WorkerFinishes(s)
      PROVE  OthersOK'
  BY <1>1, <1>9 DEF OthersOK, WorkerGivesUp, WorkerSaves, WorkerUpdates, WorkerFinishes
<1>10. ASSUME NEW c \in Clients, AbortFails(c), ~UNCHANGED <<alive, ran, maker, work, deleted>>
       PROVE  OthersOK'
  BY <1>4, <1>10, StoreParameters DEF AbortFails
<1>11. QED
  BY <1>2, <1>3, <1>4, <1>5, <1>6, <1>7, <1>8, <1>9, <1>10, StoreParameters
  DEF Next, Dies, OpenFails, List, Opened, MakeDirectory, FirstRowFails, Read, Look, FindRow,
      AbortMakesDirectory, AbortRow, LogAbort, Unlink, ListRow, NextRow, Ask

LEMMA TypedKept ==
    ASSUME Inv, Next PROVE Typed'
BY CallsKept, FilesKept, OthersKept DEF Typed, TypeOK, FilesOK, OthersOK, Call

\* A process starts under an id no live process has, or is gone.
LEMMA AliveKept ==
    ASSUME Inv, Next PROVE AliveOK'
<1>1. AliveOK
  BY DEF Inv
<1>2. CASE alive' \subseteq alive
  BY <1>1, <1>2 DEF AliveOK
<1>3. ASSUME NEW p \in Procs, Start(p) PROVE AliveOK'
  BY <1>1, <1>3 DEF AliveOK, Start
<1>4. QED
  BY <1>2, <1>3
  DEF Next, Dies, Gone, OpenFails, List, Opened, MakeDirectory, FirstRow, FirstRowFails, Read,
      Look, FindRow, AbortMakesDirectory, AbortRow, LogAbort, AbortFails, Unlink, Rmdir, ListRow,
      NextRow, Create, Ask, WorkerGivesUp, WorkerFindsRow, WorkerSaves, WorkerUpdates,
      WorkerFinishes

-----------------------------------------------------------------------------
(* The bound on the directories. *)

\* A call begins while there is room for one more, and nothing else makes a thread busy.
LEMMA BusyGrows ==
    ASSUME Inv, Next
    PROVE  \/ Busy' \subseteq Busy
           \/ Cardinality(Busy) < MaxCalls /\ \E c \in Clients : Busy' \subseteq Busy \cup {c}
<1>1. call \in [Clients -> Call] /\ Main \in [Procs -> Clients]
  BY StoreParameters DEF Inv, Typed
<1>2. ASSUME NEW c \in Clients, call[c] # Idle, \A d \in Clients : d # c => call'[d] = call[d]
      PROVE  Busy' \subseteq Busy
  BY <1>2 DEF Busy
<1>3. ASSUME NEW p, Gone(p) PROVE Busy' \subseteq Busy
  BY <1>3 DEF Busy, Gone
<1>4. ASSUME UNCHANGED call PROVE Busy' \subseteq Busy
  BY <1>4 DEF Busy
<1>5. ASSUME NEW p \in Procs, Start(p)
      PROVE  Cardinality(Busy) < MaxCalls /\ Busy' \subseteq Busy \cup {Main[p]}
  BY <1>1, <1>5 DEF Start, Busy
<1>6. ASSUME NEW c \in Clients, NEW fn, NEW s, NEW step, Calls(c, fn, s, step)
      PROVE  Cardinality(Busy) < MaxCalls /\ Busy' \subseteq Busy \cup {c}
  BY <1>1, <1>6 DEF Calls, Busy
<1>7. ASSUME NEW c \in Clients, call[c].fn # "idle" \/ call[c].step # "none"
      PROVE  call[c] # Idle
  BY <1>7 DEF Idle
<1>8. ASSUME NEW c \in Clients,
             \/ List(c) \/ Opened(c) \/ MakeDirectory(c) \/ FirstRow(c) \/ FirstRowFails(c)
             \/ Read(c) \/ Look(c) \/ FindRow(c) \/ AbortMakesDirectory(c) \/ AbortRow(c)
             \/ LogAbort(c) \/ Unlink(c) \/ Rmdir(c)
             \/ \E s \in Scans : ListRow(c, s) \/ NextRow(c, s)
      PROVE  Busy' \subseteq Busy
  <2>1. call[c].fn # "idle" \/ call[c].step # "none"
    BY <1>8
    DEF List, Opened, MakeDirectory, FirstRow, FirstRowFails, Read, Look, FindRow,
        AbortMakesDirectory, AbortRow, LogAbort, Unlink, Rmdir, ListRow, NextRow, At
  <2>2. \A d \in Clients : d # c => call'[d] = call[d]
    BY <1>1, <1>8
    DEF List, Opened, MakeDirectory, FirstRow, FirstRowFails, Read, Look, FindRow,
        AbortMakesDirectory, AbortRow, LogAbort, Unlink, Rmdir, ListRow, NextRow, Goes, Returns
  <2>3. QED BY <1>2, <1>7, <2>1, <2>2
<1>9. ASSUME NEW c \in Clients, AbortFails(c) PROVE Busy' \subseteq Busy
  <2>1. CASE call[c].fn = "open"
    BY <1>3, <1>9, <2>1 DEF AbortFails
  <2>2. CASE call[c].fn # "open"
    <3>1. call[c].step # "none" /\ Returns(c)
      BY <1>9, <2>2 DEF AbortFails
    <3>2. QED BY <1>2, <1>7, <3>1, ReturnsCall
  <2>3. QED BY <2>1, <2>2
<1>10. QED
  BY <1>1, <1>3, <1>4, <1>5, <1>6, <1>8, <1>9
  DEF Next, Dies, OpenFails, Create, Ask, WorkerGivesUp, WorkerFindsRow, WorkerSaves,
      WorkerUpdates, WorkerFinishes

\* So the calls under way stay within their bound.
LEMMA BusyKept ==
    ASSUME Inv, Next PROVE Cardinality(Busy') <= MaxCalls
<1>1. /\ IsFiniteSet(Busy) /\ Cardinality(Busy) \in Nat /\ Cardinality(Busy) <= MaxCalls
      /\ MaxCalls \in Nat
  BY FS_Subset, FS_CardinalityType, StoreParameters DEF Busy, Inv, RoomOK
<1>2. CASE Busy' \subseteq Busy
  <2>1. Busy' \in SUBSET Busy
    BY <1>2
  <2>2. Cardinality(Busy') <= Cardinality(Busy) /\ Cardinality(Busy') \in Nat
    BY <1>1, <2>1, FS_Subset, FS_CardinalityType
  <2>3. QED BY <1>1, <2>2
<1>3. ASSUME NEW c \in Clients, Cardinality(Busy) < MaxCalls, Busy' \subseteq Busy \cup {c}
      PROVE  Cardinality(Busy') <= MaxCalls
  <2> DEFINE more == Busy \cup {c}
  <2>1. IsFiniteSet(more) /\ Cardinality(more) <= Cardinality(Busy) + 1
    <3>1. IsFiniteSet(more) /\ Cardinality(more) \in {Cardinality(Busy), Cardinality(Busy) + 1}
      BY <1>1, FS_AddElement, Zenon
    <3>2. QED BY <1>1, <3>1
  <2>2. Busy' \in SUBSET more
    BY <1>3
  <2> HIDE DEF more
  <2>3. Cardinality(Busy') <= Cardinality(more) /\ Cardinality(Busy') \in Nat
        /\ Cardinality(more) \in Nat
    BY <2>1, <2>2, FS_Subset, FS_CardinalityType
  <2>4. QED BY <1>1, <1>3, <2>1, <2>3
<1>4. QED BY <1>2, <1>3, BusyGrows

\* The directories calls are about to add are no more than the calls.
LEMMA PendingFew ==
    ASSUME NEW calls, NEW busy, busy = {c \in Clients : calls[c] # Idle},
           NEW pending, pending = {calls[c].scan : c \in {d \in Clients :
                                                          calls[d].step \in {"mkdir", "write"}}}
    PROVE  /\ IsFiniteSet(pending) /\ Cardinality(pending) \in Nat
           /\ Cardinality(busy) \in Nat /\ Cardinality(pending) <= Cardinality(busy)
<1> DEFINE adding == {d \in Clients : calls[d].step \in {"mkdir", "write"}}
           scanOf == [d \in adding |-> calls[d].scan]
<1>1. IsFiniteSet(busy) /\ adding \in SUBSET busy
  BY FS_Subset, StoreParameters DEF Idle
<1>2. IsFiniteSet(adding) /\ Cardinality(adding) <= Cardinality(busy)
  BY <1>1, FS_Subset
<1>3. pending = {calls[d].scan : d \in adding}
  OBVIOUS
<1> HIDE DEF adding
<1>4. scanOf \in Surjection(adding, pending)
  BY <1>3 DEF Surjection
<1>5. IsFiniteSet(pending) /\ Cardinality(pending) <= Cardinality(adding)
  BY <1>2, <1>4, FS_Surjection
<1>6. Cardinality(pending) \in Nat /\ Cardinality(adding) \in Nat /\ Cardinality(busy) \in Nat
  BY <1>1, <1>2, <1>5, FS_CardinalityType
<1>7. QED BY <1>2, <1>5, <1>6

\* Only the creation of a scan asks for one more directory.
LEMMA InUseShrinks ==
    ASSUME Inv, Next, \A c \in Clients, s \in Scans : ~Create(c, s), NEW x \in InUse'
    PROVE  x \in InUse
<1>1. ASSUME NEW p \in Procs, Start(p) PROVE x \in InUse
  <2>1. UNCHANGED <<dirs, maker>> /\ Main[p] \in Clients
    BY <1>1, StoreParameters DEF Start, disk
  <2>2. /\ \A d \in Clients : d # Main[p] => call'[d] = call[d]
        /\ call'[Main[p]].step \notin {"mkdir", "write"}
    BY <1>1, <2>1 DEF Start, Idle, Inv, Typed
  <2>3. QED BY <2>1, <2>2, StepInUse
<1>2. ASSUME NEW p \in Procs, Dies(p) PROVE x \in InUse
  BY <1>2, GoneInUse DEF Dies
<1>3. ASSUME NEW c \in Clients, OpenFails(c) PROVE x \in InUse
  BY <1>3, GoneInUse DEF OpenFails
<1>4. ASSUME NEW c \in Clients, List(c) PROVE x \in InUse
  <2>1. dirs' \subseteq dirs \cup Pending /\ UNCHANGED maker
    BY <1>4 DEF List, disk
  <2>2. /\ \A d \in Clients : d # c => call'[d] = call[d]
        /\ call'[c].step \notin {"mkdir", "write"}
    BY <1>4, ListCall DEF List, Idle
  <2>3. QED BY <2>1, <2>2, StepInUse
<1>5. ASSUME NEW c \in Clients, Opened(c) PROVE x \in InUse
  <2>1. dirs' \subseteq dirs \cup Pending /\ UNCHANGED maker
    BY <1>5 DEF Opened, disk
  <2>2. /\ \A d \in Clients : d # c => call'[d] = call[d]
        /\ call'[c].step \notin {"mkdir", "write"}
    BY <1>5, ReturnsCall DEF Opened, Idle
  <2>3. QED BY <2>1, <2>2, StepInUse
<1>6. ASSUME NEW c \in Clients, MakeDirectory(c) PROVE x \in InUse
  <2>1. call[c].scan \in Pending
    BY <1>6 DEF MakeDirectory, At, Pending
  <2>2. dirs' \subseteq dirs \cup Pending /\ UNCHANGED maker
    BY <1>6, <2>1 DEF MakeDirectory
  <2>3. /\ \A d \in Clients : d # c => call'[d] = call[d]
        /\ call'[c].step \notin {"mkdir", "write"}
    BY <1>6, GoesCall DEF MakeDirectory
  <2>4. QED BY <2>2, <2>3, StepInUse
<1>7. ASSUME NEW c \in Clients, FirstRow(c) PROVE x \in InUse
  <2>1. dirs' \subseteq dirs \cup Pending /\ UNCHANGED maker
    BY <1>7 DEF FirstRow, disk
  <2>2. /\ \A d \in Clients : d # c => call'[d] = call[d]
        /\ call'[c].step \notin {"mkdir", "write"}
    BY <1>7, ReturnsCall DEF FirstRow, Idle
  <2>3. QED BY <2>1, <2>2, StepInUse
<1>8. ASSUME NEW c \in Clients, FirstRowFails(c) PROVE x \in InUse
  <2>1. dirs' \subseteq dirs \cup Pending /\ UNCHANGED maker
    BY <1>8 DEF FirstRowFails, disk
  <2>2. /\ \A d \in Clients : d # c => call'[d] = call[d]
        /\ call'[c].step \notin {"mkdir", "write"}
    BY <1>8, ReturnsCall DEF FirstRowFails, Idle
  <2>3. QED BY <2>1, <2>2, StepInUse
<1>9. ASSUME NEW c \in Clients, Read(c) PROVE x \in InUse
  <2>1. dirs' \subseteq dirs \cup Pending /\ UNCHANGED maker
    BY <1>9 DEF Read, disk
  <2>2. /\ \A d \in Clients : d # c => call'[d] = call[d]
        /\ call'[c].step \notin {"mkdir", "write"}
    BY <1>9, ReadCall DEF Idle
  <2>3. QED BY <2>1, <2>2, StepInUse
<1>10. ASSUME NEW c \in Clients, Look(c) PROVE x \in InUse
  <2>1. dirs' \subseteq dirs \cup Pending /\ UNCHANGED maker
    BY <1>10 DEF Look, disk
  <2>2. /\ \A d \in Clients : d # c => call'[d] = call[d]
        /\ call'[c].step \notin {"mkdir", "write"}
    BY <1>10, LookCall DEF Idle
  <2>3. QED BY <2>1, <2>2, StepInUse
<1>11. ASSUME NEW c \in Clients, FindRow(c) PROVE x \in InUse
  <2>1. call[c].scan \in dirs /\ UNCHANGED <<dirs, maker>>
    BY <1>11 DEF FindRow, disk, Inv, StepsOK, Typed, TypeOK
  <2>2. /\ \A d \in Clients : d # c => call'[d] = call[d]
        /\ call'[c].scan = call[c].scan
    BY <1>11, GoesCall DEF FindRow
  <2>3. Pending' \subseteq Pending \cup dirs
    BY <2>1, <2>2 DEF Pending
  <2>4. x \in dirs' \cup Pending' /\ Shown(maker'[x])
    BY DEF InUse, Shown
  <2>5. QED BY <2>1, <2>3, <2>4 DEF InUse
<1>12. ASSUME NEW c \in Clients, AbortMakesDirectory(c) PROVE x \in InUse
  <2>1. call[c].scan \in Pending
    BY <1>12 DEF AbortMakesDirectory, Pending
  <2>2. dirs' \subseteq dirs \cup Pending /\ UNCHANGED maker
    BY <1>12, <2>1 DEF AbortMakesDirectory
  <2>3. /\ \A d \in Clients : d # c => call'[d] = call[d]
        /\ call'[c].step \notin {"mkdir", "write"}
    BY <1>12, GoesCall DEF AbortMakesDirectory
  <2>4. QED BY <2>2, <2>3, StepInUse
<1>13. ASSUME NEW c \in Clients, AbortRow(c) PROVE x \in InUse
  <2>1. dirs' \subseteq dirs \cup Pending /\ UNCHANGED maker
    BY <1>13 DEF AbortRow, disk
  <2>2. /\ \A d \in Clients : d # c => call'[d] = call[d]
        /\ call'[c].step \notin {"mkdir", "write"}
    BY <1>13, GoesCall DEF AbortRow, Idle
  <2>3. QED BY <2>1, <2>2, StepInUse
<1>14. ASSUME NEW c \in Clients, LogAbort(c) PROVE x \in InUse
  <2>1. dirs' \subseteq dirs \cup Pending /\ UNCHANGED maker
    BY <1>14 DEF LogAbort, disk
  <2>2. /\ \A d \in Clients : d # c => call'[d] = call[d]
        /\ call'[c].step \notin {"mkdir", "write"}
    BY <1>14, LogAbortCall DEF Idle
  <2>3. QED BY <2>1, <2>2, StepInUse
<1>15. ASSUME NEW c \in Clients, AbortFails(c) PROVE x \in InUse
  <2>1. CASE call[c].fn = "open"
    BY <1>15, <2>1, GoneInUse DEF AbortFails
  <2>2. CASE call[c].fn # "open"
    BY <1>15, <2>2, ReturnsCall, StepInUse DEF AbortFails, Idle, disk
  <2>3. QED BY <2>1, <2>2
<1>16. ASSUME NEW c \in Clients, Unlink(c) PROVE x \in InUse
  <2>1. dirs' \subseteq dirs \cup Pending /\ UNCHANGED maker
    BY <1>16 DEF Unlink, disk
  <2>2. /\ \A d \in Clients : d # c => call'[d] = call[d]
        /\ call'[c].step \notin {"mkdir", "write"}
    BY <1>16, UnlinkCall DEF Idle
  <2>3. QED BY <2>1, <2>2, StepInUse
<1>17. ASSUME NEW c \in Clients, Rmdir(c) PROVE x \in InUse
  <2>1. dirs' \subseteq dirs \cup Pending /\ UNCHANGED maker
    BY <1>17 DEF Rmdir, disk
  <2>2. /\ \A d \in Clients : d # c => call'[d] = call[d]
        /\ call'[c].step \notin {"mkdir", "write"}
    BY <1>17, ReturnsCall DEF Rmdir, Idle
  <2>3. QED BY <2>1, <2>2, StepInUse
<1>18. ASSUME NEW c \in Clients, NEW s \in Scans, ListRow(c, s) PROVE x \in InUse
  <2>1. dirs' \subseteq dirs \cup Pending /\ UNCHANGED maker
    BY <1>18 DEF ListRow, disk
  <2>2. /\ \A d \in Clients : d # c => call'[d] = call[d]
        /\ call'[c].step \notin {"mkdir", "write"}
    BY <1>18, ListRowCall DEF ListRow, Idle
  <2>3. QED BY <2>1, <2>2, StepInUse
<1>19. ASSUME NEW c \in Clients, NEW s \in Scans, NextRow(c, s) PROVE x \in InUse
  <2>1. dirs' \subseteq dirs \cup Pending /\ UNCHANGED maker
    BY <1>19 DEF NextRow, disk
  <2>2. /\ \A d \in Clients : d # c => call'[d] = call[d]
        /\ call'[c].step \notin {"mkdir", "write"}
    BY <1>19, NextRowCall DEF NextRow, Idle
  <2>3. QED BY <2>1, <2>2, StepInUse
<1>20. ASSUME NEW c \in Clients, NEW s \in Scans, Create(c, s) PROVE x \in InUse
  BY <1>20
<1>21. ASSUME NEW c \in Clients, NEW s \in Scans, NEW fn \in {"record", "delete"}, Ask(c, fn, s)
      PROVE  x \in InUse
  <2>1. UNCHANGED <<dirs, maker>>
    BY <1>21 DEF Ask, disk
  <2>2. /\ \A d \in Clients : d # c => call'[d] = call[d]
        /\ call'[c].step \notin {"mkdir", "write"}
    BY <1>21 DEF Ask, Calls, Idle, Inv, Typed
  <2>3. QED BY <2>1, <2>2, StepInUse
<1>22. ASSUME NEW s \in Scans, WorkerSaves(s) PROVE x \in InUse
  BY <1>22, WorkerInUse DEF WorkerSaves, Working, disk
<1>23. ASSUME NEW s \in Scans, WorkerUpdates(s) PROVE x \in InUse
  BY <1>23, WorkerInUse DEF WorkerUpdates, Working, disk
<1>24. ASSUME NEW s \in Scans, WorkerFinishes(s) PROVE x \in InUse
  BY <1>24, WorkerInUse DEF WorkerFinishes, Working, disk
<1>25. ASSUME NEW s \in Scans, WorkerGivesUp(s) PROVE x \in InUse
  BY <1>25, WorkerInUse DEF WorkerGivesUp, Working, disk
<1>26. ASSUME NEW s \in Scans, NEW next \in {"saving", "updating", "restoring", "finishing"},
             WorkerFindsRow(s, next)
      PROVE  x \in InUse
  BY <1>26, WorkerInUse DEF WorkerFindsRow, Working, disk
<1>27. QED
  BY <1>1, <1>2, <1>3, <1>4, <1>5, <1>6, <1>7, <1>8, <1>9, <1>10, <1>11, <1>12, <1>13, <1>14,
     <1>15, <1>16, <1>17, <1>18, <1>19, <1>20, <1>21, <1>22, <1>23, <1>24, <1>25, <1>26 DEF
     Next

LEMMA RoomKept ==
    ASSUME Inv, Next PROVE RoomOK'
<1>1. MAX_SCANS \in Nat \ {0} /\ MaxCalls \in Nat \ {0} /\ Cardinality(Busy') <= MaxCalls
  BY BusyKept, StoreParameters
<1>2. IsFiniteSet(InUse) /\ Cardinality(InUse) \in Nat
  <2>1. IsFiniteSet(dirs)
    BY FS_Subset, StoreParameters DEF Inv, Typed, TypeOK
  <2>2. IsFiniteSet(Pending)
    BY PendingFew DEF Pending
  <2>3. IsFiniteSet(dirs \cup Pending)
    BY <2>1, <2>2, FS_Union
  <2>4. InUse \in SUBSET (dirs \cup Pending)
    BY DEF InUse
  <2>5. QED BY <2>3, <2>4, FS_Subset, FS_CardinalityType
<1>3. ASSUME NEW c \in Clients, NEW s \in Scans, Create(c, s) PROVE RoomOK'
  <2>1. /\ IsFiniteSet(dirs) /\ Cardinality(dirs) \in Nat /\ Cardinality(dirs) < MAX_SCANS
        /\ dirs' = dirs
    BY <1>3, FS_Subset, FS_CardinalityType, StoreParameters
    DEF Create, HasRoom, disk, Inv, Typed, TypeOK
  <2>2. /\ IsFiniteSet(Pending') /\ Cardinality(Pending') \in Nat
        /\ Cardinality(Busy') \in Nat /\ Cardinality(Pending') <= Cardinality(Busy')
    BY PendingFew DEF Pending, Busy
  <2> DEFINE all == dirs \cup Pending'
  <2>3. /\ IsFiniteSet(all) /\ Cardinality(all) = Cardinality(dirs) + Cardinality(Pending')
                                                  - Cardinality(dirs \cap Pending')
        /\ Cardinality(dirs \cap Pending') \in Nat
    <3>1. IsFiniteSet(dirs \cap Pending')
      BY <2>1, FS_Intersection
    <3>2. QED BY <2>1, <2>2, <3>1, FS_Union, FS_CardinalityType
  <2>4. InUse' \in SUBSET all
    BY <2>1 DEF InUse
  <2> HIDE DEF all
  <2>5. Cardinality(InUse') <= Cardinality(all) /\ Cardinality(InUse') \in Nat
        /\ Cardinality(all) \in Nat
    BY <2>3, <2>4, FS_Subset, FS_CardinalityType
  <2>6. Cardinality(InUse') <= MAX_SCANS + MaxCalls - 1
    BY <1>1, <2>1, <2>2, <2>3, <2>5
  <2>7. QED BY <1>1, <2>6 DEF RoomOK
<1>4. CASE \A c \in Clients, s \in Scans : ~Create(c, s)
  <2>1. InUse' \in SUBSET InUse
    BY <1>4, InUseShrinks
  <2>2. Cardinality(InUse') <= Cardinality(InUse) /\ Cardinality(InUse') \in Nat
    BY <1>2, <2>1, FS_Subset, FS_CardinalityType
  <2>3. Cardinality(InUse') <= MAX_SCANS + MaxCalls - 1
    BY <1>1, <1>2, <2>2 DEF Inv, RoomOK
  <2>4. QED BY <1>1, <2>3 DEF RoomOK
<1>5. QED BY <1>3, <1>4

-----------------------------------------------------------------------------

LEMMA InitInv == Init => Inv
<1> SUFFICES ASSUME Init PROVE Inv
  OBVIOUS
<1>1. Typed
  BY DEF Init, Typed, TypeOK, Call, Idle
<1>2. \A c \in Clients : /\ StepsOK(c) /\ OpenedOK(c) /\ LockOK(c)
                         /\ MakingOK(c) /\ SeenOK(c) /\ AbortOK(c)
  BY DEF Init, Idle, StepsOK, OpenedOK, LockOK, MakingOK, SeenOK, AbortOK
<1>3. \A s \in Scans : ScanOK(s)
  BY DEF Init, ScanOK, Working
<1>4. AliveOK /\ \A p \in alive, s \in Scans : LeftOver(p, s)
  BY DEF Init, AliveOK
<1>5. RoomOK
  <2>1. InUse = {} /\ Busy = {}
    BY DEF Init, InUse, Pending, Busy, Idle
  <2>2. QED BY <2>1, FS_EmptySet, StoreParameters DEF RoomOK
<1>6. QED BY <1>1, <1>2, <1>3, <1>4, <1>5 DEF Inv

LEMMA NextKeepsInv == Inv /\ [Next]_vars => Inv'
<1> SUFFICES ASSUME Inv, [Next]_vars PROVE Inv'
  OBVIOUS
<1>1. CASE Next
  <2>1. \A c \in Clients : /\ StepsOK(c)' /\ OpenedOK(c)' /\ LockOK(c)'
                           /\ MakingOK(c)' /\ SeenOK(c)' /\ AbortOK(c)'
    BY <1>1, StepsKept, OpenedKept, LockKept, MakingKept, SeenKept, AbortKept
  <2>2. \A s \in Scans : ScanOK(s)'
    BY <1>1, ScanKept
  <2>3. \A p \in alive', s \in Scans : LeftOver(p, s)'
    <3>1. alive' \subseteq Procs
      BY <1>1, TypedKept DEF Typed, TypeOK
    <3>2. QED BY <1>1, <3>1, LeftOverKept
  <2>4. QED BY <1>1, <2>1, <2>2, <2>3, TypedKept, AliveKept, RoomKept DEF Inv
<1>2. CASE UNCHANGED vars
  <2>1. Typed' /\ AliveOK' /\ RoomOK'
    BY <1>2 DEF vars, disk, Inv, Typed, TypeOK, AliveOK, RoomOK, InUse, Pending, Busy, Shown
  <2>2. \A c \in Clients : /\ StepsOK(c)' /\ OpenedOK(c)' /\ LockOK(c)'
                           /\ MakingOK(c)' /\ SeenOK(c)' /\ AbortOK(c)'
    BY <1>2 DEF vars, disk, Inv, StepsOK, OpenedOK, LockOK, MakingOK, SeenOK, AbortOK
  <2>3. \A s \in Scans : ScanOK(s)' /\ \A p \in alive' : LeftOver(p, s)'
    BY <1>2 DEF vars, disk, Inv, ScanOK, LeftOver
  <2>4. QED BY <2>1, <2>2, <2>3 DEF Inv
<1>3. QED BY <1>1, <1>2

LEMMA InvHolds == Spec => []Inv
<1>1. QED BY InitInv, NextKeepsInv, PTL DEF Spec

\* reconcile and recover, for any number of processes, threads and scans, whatever ids are
\* used again and whoever is hidden from whom: while the worker of a scan is at work, in a
\* process the others can see, nobody touches its row.
THEOREM LiveScansUntouched == Spec => []LiveUntouched
<1>1. Inv => LiveUntouched
  BY DEF Inv, ScanOK, Working, LiveUntouched
<1>2. QED BY <1>1, InvHolds, PTL

\* delete against row updates under way: a deleted scan may come back, never active.
THEOREM DeletedStayEnded == Spec => []BackOnlyEnded
<1>1. Inv => BackOnlyEnded
  BY DEF Inv, ScanOK, BackOnlyEnded, Typed, TypeOK
<1>2. QED BY <1>1, InvHolds, PTL

\* create_with_limit without a lock between processes, updates without one at all: for any
\* MAX_SCANS, any number of processes and threads and MaxCalls calls at once, of the scans
\* of shown processes at most MaxCalls - 1 directories are too many.
THEOREM StoreStaysBounded == Spec => []StoreKept
<1>1. Inv => StoreKept
  <2> SUFFICES ASSUME Inv PROVE StoreKept
    OBVIOUS
  <2> DEFINE shown == {s \in dirs : Shown(maker[s])}
  <2>1. IsFiniteSet(InUse)
    <3>1. IsFiniteSet(dirs)
      BY FS_Subset, StoreParameters DEF Inv, Typed, TypeOK
    <3>2. IsFiniteSet(Pending)
      BY PendingFew DEF Pending
    <3>3. IsFiniteSet(dirs \cup Pending)
      BY <3>1, <3>2, FS_Union
    <3>4. InUse \in SUBSET (dirs \cup Pending)
      BY DEF InUse
    <3>5. QED BY <3>3, <3>4, FS_Subset
  <2>2. shown \in SUBSET InUse
    BY DEF InUse
  <2> HIDE DEF shown
  <2>3. /\ Cardinality(shown) <= Cardinality(InUse)
        /\ Cardinality(shown) \in Nat /\ Cardinality(InUse) \in Nat
    BY <2>1, <2>2, FS_Subset, FS_CardinalityType
  <2>4. Cardinality(shown) <= MAX_SCANS + MaxCalls - 1
    BY <2>3, StoreParameters DEF Inv, RoomOK
  <2>5. QED BY <2>4 DEF shown, Inv, Typed, StoreKept, StoreBounded
<1>2. QED BY <1>1, InvHolds, PTL

\* A thread that is in record() at the look and is idle after a step has looked.
LEMMA OnlyLookAnswers ==
    ASSUME Inv, Next, NEW c \in Clients,
           At(c, {"record"}, "look"), call'[c] = Idle, Of[c] \in alive'
    PROVE  Look(c)
<1>1. call \in [Clients -> Call] /\ call[c] # Idle /\ Main \in [Procs -> Clients]
      /\ Of \in [Clients -> Procs]
  BY StoreParameters DEF Inv, Typed, At, Idle
<1>2. ASSUME NEW p, Gone(p) PROVE FALSE
  BY <1>1, <1>2 DEF Gone
<1>3. ASSUME UNCHANGED call PROVE FALSE
  BY <1>1, <1>3
<1>4. ASSUME NEW p \in Procs, Start(p) PROVE FALSE
  BY <1>1, <1>4 DEF Start, Idle
<1>5. ASSUME NEW d \in Clients,
             \/ List(d) \/ Opened(d) \/ MakeDirectory(d) \/ FirstRow(d) \/ FirstRowFails(d)
             \/ Read(d) \/ FindRow(d) \/ AbortMakesDirectory(d) \/ AbortRow(d) \/ LogAbort(d)
             \/ Unlink(d) \/ Rmdir(d)
             \/ \E s \in Scans : \/ ListRow(d, s) \/ NextRow(d, s) \/ Create(d, s)
                                 \/ Ask(d, "record", s) \/ Ask(d, "delete", s)
      PROVE  FALSE
  <2>1. d # c
    BY <1>1, <1>5
    DEF List, Opened, MakeDirectory, FirstRow, FirstRowFails, Read, FindRow,
        AbortMakesDirectory, AbortRow, LogAbort, Unlink, Rmdir, ListRow, NextRow, Create, Ask,
        Calls, At
  <2>2. call'[c] = call[c]
    BY <1>1, <1>5, <2>1
    DEF List, Opened, MakeDirectory, FirstRow, FirstRowFails, Read, FindRow,
        AbortMakesDirectory, AbortRow, LogAbort, Unlink, Rmdir, ListRow, NextRow, Create, Ask,
        Calls, Goes, Returns
  <2>3. QED BY <1>1, <2>2
<1>6. ASSUME NEW d \in Clients, AbortFails(d) PROVE FALSE
  <2>1. d # c
    BY <1>6 DEF AbortFails, At
  <2>2. CASE call[d].fn = "open"
    BY <1>2, <1>6, <2>2 DEF AbortFails
  <2>3. CASE call[d].fn # "open"
    BY <1>1, <1>6, <2>1, <2>3 DEF AbortFails, Returns
  <2>4. QED BY <2>2, <2>3
<1>7. ASSUME NEW d \in Clients, Look(d), d # c PROVE FALSE
  BY <1>1, <1>7 DEF Look, Goes, Returns
<1>8. QED
  BY <1>2, <1>3, <1>4, <1>5, <1>6, <1>7
  DEF Next, Dies, OpenFails, WorkerGivesUp, WorkerFindsRow, WorkerSaves, WorkerUpdates,
      WorkerFinishes

\* record(), called by any threads of any processes at once: an active row is answered only
\* while its owner, or a process that cannot be told from it, lives.
THEOREM RecordsReadTrue == Spec => ReadsTrue
<1> DEFINE True(c) ==
      At(c, {"record"}, "look") /\ call'[c] = Idle /\ Of[c] \in alive'
      /\ IsActive(call[c].seen) =>
        LET owner == call[c].seen.owner IN
        \/ owner \in alive
        \/ owner \in Unstamped /\ (\E q \in alive : Pid[q] = Pid[owner])
<1>1. ASSUME Inv, Next, NEW c \in Clients PROVE True(c)
  <2> SUFFICES ASSUME At(c, {"record"}, "look"), call'[c] = Idle, Of[c] \in alive',
                      IsActive(call[c].seen)
               PROVE  \/ call[c].seen.owner \in alive
                      \/ /\ call[c].seen.owner \in Unstamped
                         /\ \E q \in alive : Pid[q] = Pid[call[c].seen.owner]
    OBVIOUS
  <2>1. Look(c)
    BY <1>1, OnlyLookAnswers
  <2>2. LeftAlone(Of[c], call[c].seen)
    <3>1. ~LeftAlone(Of[c], call[c].seen) => call'[c].step = "abort"
      BY <1>1, <2>1, GoesCall DEF Look
    <3>2. QED BY <3>1 DEF Idle
  <2>3. /\ Of[c] \in alive
        /\ Pid[call[c].seen.owner] = Pid[Of[c]] => call[c].seen.owner = Of[c]
    BY <1>1 DEF Inv, StepsOK, SeenOK, At
  <2>4. QED BY <2>2, <2>3 DEF LeftAlone, OtherProcessAlive
<1>2. Inv /\ [Next]_vars => [\A c \in Clients : True(c)]_vars
  BY <1>1
<1>3. QED BY <1>2, InvHolds, PTL DEF Spec, ReadsTrue
=============================================================================
