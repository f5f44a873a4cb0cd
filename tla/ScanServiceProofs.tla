-------------------------- MODULE ScanServiceProofs --------------------------
(***************************************************************************)
(* What holds of the scan service for any number of scans, places, workers, *)
(* waves, faults and crashes: first its types and counters, then what is    *)
(* true of each scan on its own (ScanOK), then what relates scans, and last *)
(* its refinement of ScanLife.                                              *)
(***************************************************************************)
EXTENDS ScanRefinement, FiniteSetTheorems, TLAPS

\* The scans that hold a place.
Places == {s \in Scans : pc[s] \in PlacePoints}

\* Only a scan in a wave asks for lookups or has any under way, and a lookup
\* already admitted is not the one the wave asks for next: admitting it adds one.
WavesOnly ==
    /\ \A s \in Scans : asking[s] > 0 => pc[s] = "wave"
    /\ \A s \in Scans, i \in 1..WaveSize :
         <<s, i>> \in lookups => pc[s] = "wave" /\ i > asking[s]

\* A counter stays a natural number only if it is what it counts, so types and
\* counts are one induction.
Counts ==
    /\ running = Cardinality(Places)
    /\ active = Cardinality(lookups)
    /\ active <= MAX_ACTIVE_LOOKUPS
    /\ WavesOnly

LEMMA InitType == Init => TypeOK
  BY LimitsPositive DEF Init, TypeOK, Status, EndedStatus, ActiveStatus, Points

LEMMA Finite == TypeOK => IsFiniteSet(Places) /\ IsFiniteSet(lookups)
  <1> SUFFICES ASSUME TypeOK PROVE IsFiniteSet(Places) /\ IsFiniteSet(lookups)
    OBVIOUS
  <1>1. IsFiniteSet(Places)
    BY ScansFinite, FS_Subset DEF Places
  <1>2. IsFiniteSet(1..WaveSize)
    BY LimitsPositive, FS_Interval
  <1>3. IsFiniteSet(Scans \X (1..WaveSize))
    BY <1>2, ScansFinite, FS_Product
  <1>4. QED
    BY <1>1, <1>3, FS_Subset DEF TypeOK

\* What set_status changes, typed as in TypeOK.
StatusTyped ==
    /\ row' \in [Scans -> Status \cup {"NONE"}]
    /\ pending' \in [Scans -> Status \cup {"NONE"}]
    /\ pc' \in [Scans -> Points]
    /\ statusFailures' \subseteq Scans
    /\ faults' \in 0..MaxFaults
    /\ results' = results
    /\ shown' = shown

LEMMA WokenType == TypeOK => Woken \in [Scans -> Points]
  BY DEF TypeOK, Woken, Points

LEMMA StatusType ==
  ASSUME TypeOK, NEW s \in Scans, NEW status \in Status \cup {"NONE"},
         NEW saved \in Points, NEW lost \in Points,
         SetStatus(s, status, saved, lost)
  PROVE  StatusTyped
  <1>1. Written(s, status) \in Status \cup {"NONE"}
    BY DEF Written, Status, EndedStatus
  <1>2. CASE StatusSaved(s, status) /\ Goto(s, saved)
    BY <1>1, <1>2 DEF SetStatus, StatusSaved, Goto, NoFault, TypeOK, StatusTyped
  <1>3. CASE StatusLost(s) /\ pc' = [Woken EXCEPT ![s] = lost]
    <2>1. faults' \in 0..MaxFaults
      BY <1>3, LimitsPositive DEF StatusLost, Refused, Fault, NoFault, TypeOK
    <2>2. pc' \in [Scans -> Points]
      BY <1>3, WokenType
    <2> QED
      BY <1>3, <2>1, <2>2 DEF SetStatus, StatusLost, TypeOK, StatusTyped
  <1> QED
    BY <1>2, <1>3 DEF SetStatus

LEMMA DropType ==
  ASSUME TypeOK, NEW s \in Scans, DropLocals(s)
  PROVE  /\ verdict' \in [Scans -> EndedStatus \cup {"NONE"}]
         /\ ran' \in [Scans -> BOOLEAN]
         /\ waves' \in [Scans -> 0..MaxWaves]
  <1>1. verdict' \in [Scans -> EndedStatus \cup {"NONE"}]
    BY DEF DropLocals, TypeOK
  <1>2. ran' \in [Scans -> BOOLEAN]
    BY DEF DropLocals, TypeOK
  <1>3. waves' \in [Scans -> 0..MaxWaves]
    BY LimitsPositive DEF DropLocals, TypeOK
  <1> QED
    BY <1>1, <1>2, <1>3

LEMMA WorkerType ==
  ASSUME TypeOK, Counts, NEW s \in Scans, WorkerStep(s)
  PROVE  TypeOK'
  <1> USE LimitsPositive DEF store, mutexed, crawling, events, process
  <1>1. CASE Starting(s)
    <2>1. StatusTyped
      BY <1>1, StatusType DEF Starting, Status, ActiveStatus, Points
    <2> QED
      BY <1>1, <2>1 DEF Starting, StatusTyped, TypeOK
  <1>2. CASE SetRunning(s)
    <2>1. StatusTyped
      BY <1>2, StatusType DEF SetRunning, Status, ActiveStatus, Points
    <2> QED
      BY <1>2, <2>1 DEF SetRunning, StatusTyped, TypeOK
  <1>3. CASE Finish(s)
    <2>1. verdict[s] \in Status \cup {"NONE"}
      BY DEF TypeOK, Status
    <2>2. StatusTyped
      BY <1>3, <2>1, StatusType DEF Finish, Points
    <2>3. DropLocals(s)
      BY <1>3 DEF Finish
    <2> QED
      BY <1>3, <2>2, <2>3, DropType DEF Finish, StatusTyped, TypeOK
  <1>4. CASE GiveUp(s)
    <2>1. StatusTyped
      BY <1>4, StatusType DEF GiveUp, Status, EndedStatus, Points
    <2> QED
      BY <1>4, <2>1 DEF GiveUp, StatusTyped, TypeOK
  <1>5. CASE KeepEnds(s)
    <2>1. StatusTyped
      BY <1>5, StatusType DEF KeepEnds, Status, EndedStatus, Points
    <2> QED
      BY <1>5, <2>1 DEF KeepEnds, StatusTyped, TypeOK
  <1>6. CASE Spawn(s)
    <2>1. PICK point \in {"starting", "spawnFailed"} : Goto(s, point)
      BY <1>6 DEF Spawn, SpawnRefused
    <2>2. pc' \in [Scans -> Points]
      BY <2>1 DEF Goto, TypeOK, Points
    <2>3. owned' \subseteq owned /\ permits' \subseteq permits
      BY <1>6 DEF Spawn, SpawnRefused
    <2> QED
      BY <1>6, <2>2, <2>3 DEF Spawn, TypeOK
  <1>7. CASE SpawnFailed(s)
    BY <1>7 DEF SpawnFailed, Goto, Refused, Fault, NoFault, TypeOK, Points, Status, EndedStatus
  <1>8. CASE Gate(s)
    BY <1>8 DEF Gate, Goto, TypeOK, Points
  <1>9. CASE Collect(s)
    BY <1>9 DEF Collect, Goto, TypeOK, Points, EndedStatus
  <1>10. CASE LoadOptions(s)
    BY <1>10 DEF LoadOptions, Goto, Refused, Fault, NoFault, TypeOK, Points, EndedStatus
  <1>11. CASE Crawl(s)
    BY <1>11 DEF Crawl, Goto, TypeOK, Points
  <1>12. CASE Acquire(s)
    BY <1>12 DEF Acquire, TypeOK
  <1>13. CASE WaveDone(s)
    BY <1>13 DEF WaveDone, Goto, TypeOK, Points
  <1>14. CASE SaveResults(s)
    BY <1>14 DEF SaveResults, SaveFailed, At, Goto, Refused, Fault, NoFault, TypeOK, Points,
       EndedStatus
  <1>15. CASE SaveRow(s)
    BY <1>15 DEF SaveRow, SaveFailed, At, Goto, Refused, Fault, NoFault, TypeOK, Points,
       EndedStatus
  <1>16. CASE Decide(s)
    BY <1>16 DEF Decide, Outcome, Goto, TypeOK, Points, EndedStatus
  <1>17. CASE ReleasePlace(s)
    <2>1. s \in Places
      BY <1>17 DEF ReleasePlace, At, Places, PlacePoints
    <2>2. running # 0
      BY <2>1, Finite, FS_EmptySet DEF Counts
    <2> QED
      BY <1>17, <2>2 DEF ReleasePlace, Goto, TypeOK, Points
  <1>18. CASE Inspect(s)
    BY <1>18 DEF Inspect, Goto, Fault, NoFault, TypeOK, Points
  <1>19. CASE Forget(s)
    BY <1>19 DEF Forget, Goto, TypeOK, Points
  <1>20. CASE Notify(s)
    BY <1>20 DEF Notify, Woken, TypeOK, Points
  <1>21. CASE Publish(s)
    BY <1>21 DEF Publish, TypeOK
  <1> QED
    BY <1>1, <1>2, <1>3, <1>4, <1>5, <1>6, <1>7, <1>8, <1>9, <1>10, <1>11, <1>12, <1>13,
       <1>14, <1>15, <1>16, <1>17, <1>18, <1>19, <1>20, <1>21 DEF WorkerStep

LEMMA OtherType ==
  ASSUME TypeOK, Counts, NEW s \in Scans,
         LookupStep(s) \/ ClientStep(s) \/ CallStep(s) \/ Recover(s)
  PROVE  TypeOK'
  <1> USE LimitsPositive DEF store, mutexed, crawling, events, process
  <1>1. CASE LookupReturns(s)
    <2>1. PICK i \in 1..WaveSize : <<s, i>> \in lookups /\ lookups' = lookups \ {<<s, i>>}
      BY <1>1 DEF LookupReturns
    <2>2. active # 0
      BY <2>1, Finite, FS_EmptySet DEF Counts
    <2> QED
      BY <1>1, <2>1, <2>2 DEF LookupReturns, TypeOK
  <1>2. CASE LookupPanics(s)
    <2>1. lookups # {}
      BY <1>2 DEF LookupPanics, Sequential, InFlight
    <2>2. active # 0
      BY <2>1, Finite, FS_EmptySet DEF Counts
    <2>3. DropLocals(s)
      BY <1>2 DEF LookupPanics
    <2>4. pc' \in [Scans -> Points]
      BY <1>2 DEF LookupPanics, Goto, TypeOK, Points
    <2>5. active' \in Nat
      <3>1. active \in Nat
        BY DEF TypeOK
      <3>2. active' = active - 1
        BY <1>2 DEF LookupPanics
      <3> QED
        BY <2>2, <3>1, <3>2
    <2>6. lookups' \subseteq Scans \X (1..WaveSize)
      BY <1>2 DEF LookupPanics, TypeOK
    <2> QED
      BY <1>2, <2>3, <2>4, <2>5, <2>6, DropType DEF LookupPanics, TypeOK
  <1>3. CASE Start(s)
    BY <1>3 DEF Start, Create, Goto, Fault, NoFault, TypeOK, Points, Status, ActiveStatus
  <1>4. CASE Run(s)
    BY <1>4 DEF Run, Create, Goto, Fault, NoFault, TypeOK, Points, Status, ActiveStatus
  <1>5. CASE StartOrJoin(s)
    <2>1. row' \in [Scans -> Status \cup {"NONE"}]
      <3>1. CASE row' = row
        BY <3>1 DEF TypeOK
      <3>2. CASE row' = [row EXCEPT ![s] = "CREATED"]
        BY <3>2 DEF TypeOK, Status, ActiveStatus
      <3>3. CASE row' = [row EXCEPT ![s] = "ERROR-FAILED"]
        BY <3>3 DEF TypeOK, Status, EndedStatus
      <3> QED
        BY <1>5, <3>1, <3>2, <3>3 DEF StartOrJoin
    <2>2. faults' \in 0..MaxFaults
      <3>1. Fault \/ NoFault
        BY <1>5 DEF StartOrJoin
      <3> QED
        BY <3>1 DEF Fault, NoFault, TypeOK
    <2>5. PICK point \in {"starting", "ended"} : Goto(s, point)
      BY <1>5 DEF StartOrJoin
    <2>3. pc' \in [Scans -> Points]
      BY <2>5 DEF Goto, TypeOK, Points
    <2>6. owned' \subseteq owned \cup {s} /\ permits' \subseteq permits \cup {s}
      BY <1>5 DEF StartOrJoin
    <2>4. owned' \subseteq Scans /\ permits' \subseteq Scans
      BY <2>6 DEF TypeOK
    <2> QED
      BY <1>5, <2>1, <2>2, <2>3, <2>4 DEF StartOrJoin, TypeOK
  <1>6. CASE Keep(s)
    BY <1>6 DEF Keep, Goto, Fault, NoFault, TypeOK, Points, Status, ActiveStatus
  <1>7. CASE StopReads(s)
    BY <1>7 DEF StopReads, TypeOK
  <1>8. CASE DeleteBegins(s)
    BY <1>8 DEF DeleteBegins, Fault, NoFault, TypeOK
  <1>9. CASE Reconcile(s)
    BY <1>9 DEF Reconcile, TypeOK, Status, EndedStatus
  <1>10. CASE StopWrites(s)
    BY <1>10 DEF StopWrites, Woken, Refused, Fault, NoFault, TypeOK, Points, Status,
       ActiveStatus
  <1>11. CASE DeleteRemoves(s)
    BY <1>11 DEF DeleteRemoves, Fault, NoFault, TypeOK
  <1>12. CASE DeleteForgets(s)
    BY <1>12 DEF DeleteForgets, TypeOK
  <1>13. CASE Recover(s)
    BY <1>13 DEF Recover, TypeOK, Status, EndedStatus
  <1> QED
    BY <1>1, <1>2, <1>3, <1>4, <1>5, <1>6, <1>7, <1>8, <1>9, <1>10, <1>11, <1>12, <1>13
       DEF LookupStep, ClientStep, CallStep

LEMMA TypeStep == TypeOK /\ Counts /\ [Next]_vars => TypeOK'
  <1> SUFFICES ASSUME TypeOK, Counts, [Next]_vars PROVE TypeOK'
    OBVIOUS
  <1> USE LimitsPositive DEF store, mutexed, crawling, events, process
  <1>1. CASE \E s \in Scans : WorkerStep(s)
    BY <1>1, WorkerType
  <1>2. CASE \E s \in Scans : LookupStep(s) \/ ClientStep(s) \/ CallStep(s) \/ Recover(s)
    BY <1>2, OtherType
  <1>3. CASE Recovered
    BY <1>3 DEF Recovered, Fault, NoFault, TypeOK
  <1>4. CASE Crash
    BY <1>4 DEF Crash, TypeOK, Points
  <1>5. CASE Idle \/ UNCHANGED vars
    BY <1>5 DEF Idle, vars, TypeOK
  <1> QED
    BY <1>1, <1>2, <1>3, <1>4, <1>5 DEF Next

-----------------------------------------------------------------------------
(* The counters.                                                             *)

\* A step moves no thread but the scan's own, and those notify_all wakes.
OthersStay(s) ==
    \A t \in Scans \ {s} : pc'[t] = pc[t] \/ (pc[t] = "parked" /\ pc'[t] = "gate")

LEMMA GotoStays ==
  ASSUME TypeOK, NEW s \in Scans, NEW point, Goto(s, point)
  PROVE  OthersStay(s) /\ pc'[s] = point
  BY DEF Goto, TypeOK, OthersStay

LEMMA StatusStays ==
  ASSUME TypeOK, NEW s \in Scans, NEW status, NEW saved, NEW lost,
         SetStatus(s, status, saved, lost)
  PROVE  OthersStay(s) /\ pc'[s] \in {saved, lost}
  <1>1. CASE Goto(s, saved)
    BY <1>1, GotoStays
  <1>2. CASE pc' = [Woken EXCEPT ![s] = lost]
    BY <1>2 DEF Woken, OthersStay
  <1> QED
    BY <1>1, <1>2 DEF SetStatus

LEMMA PlacesKept ==
  ASSUME TypeOK, NEW s \in Scans, OthersStay(s),
         pc'[s] \in PlacePoints <=> pc[s] \in PlacePoints
  PROVE  Places' = Places
  BY DEF OthersStay, Places, PlacePoints

\* A step outside the waves that takes no place and gives none back.
LEMMA Quiet ==
  ASSUME TypeOK, Counts, NEW s \in Scans, OthersStay(s),
         pc[s] # "wave", pc'[s] # "wave",
         pc'[s] \in PlacePoints <=> pc[s] \in PlacePoints,
         UNCHANGED <<running, asking, lookups, active>>
  PROVE  Counts'
  <1>1. Places' = Places
    BY PlacesKept
  <1>2. WavesOnly'
    BY DEF WavesOnly, OthersStay, Counts
  <1> QED
    BY <1>1, <1>2 DEF Counts

LEMMA WorkerCounts ==
  ASSUME TypeOK, Counts, NEW s \in Scans, WorkerStep(s)
  PROVE  Counts'
  <1> USE DEF store, mutexed, crawling, events, process
  <1>1. CASE Starting(s)
    BY <1>1, StatusStays, Quiet DEF Starting, At, PlacePoints
  <1>2. CASE SetRunning(s)
    BY <1>2, StatusStays, Quiet DEF SetRunning, At, PlacePoints
  <1>3. CASE Finish(s)
    BY <1>3, StatusStays, Quiet DEF Finish, At, PlacePoints
  <1>4. CASE GiveUp(s)
    BY <1>4, StatusStays, Quiet DEF GiveUp, At, PlacePoints
  <1>5. CASE KeepEnds(s)
    <2>1. OthersStay(s) /\ pc'[s] = "ended"
      BY <1>5, StatusStays DEF KeepEnds
    <2>2. pc[s] \in {"keepFinish", "keepFail"}
      BY <1>5 DEF KeepEnds, At
    <2> QED
      BY <1>5, <2>1, <2>2, Quiet DEF KeepEnds, PlacePoints
  <1>6. CASE Spawn(s)
    <2>1. PICK point \in {"starting", "spawnFailed"} : Goto(s, point)
      BY <1>6 DEF Spawn, SpawnRefused
    <2>2. pc[s] = "spawn" /\ UNCHANGED <<running, asking, lookups, active>>
      BY <1>6 DEF Spawn, At
    <2> QED
      BY <2>1, <2>2, GotoStays, Quiet DEF PlacePoints
  <1>7. CASE SpawnFailed(s)
    BY <1>7, GotoStays, Quiet DEF SpawnFailed, At, PlacePoints
  <1>8. CASE Collect(s)
    BY <1>8, GotoStays, Quiet DEF Collect, At, PlacePoints
  <1>9. CASE LoadOptions(s)
    BY <1>9, GotoStays, Quiet DEF LoadOptions, At, PlacePoints
  <1>10. CASE SaveResults(s)
    BY <1>10, GotoStays, Quiet DEF SaveResults, SaveFailed, At, PlacePoints
  <1>11. CASE SaveRow(s)
    BY <1>11, GotoStays, Quiet DEF SaveRow, SaveFailed, At, PlacePoints
  <1>12. CASE Decide(s)
    BY <1>12, GotoStays, Quiet DEF Decide, At, PlacePoints
  <1>13. CASE Inspect(s)
    BY <1>13, GotoStays, Quiet DEF Inspect, At, PlacePoints
  <1>14. CASE Forget(s)
    BY <1>14, GotoStays, Quiet DEF Forget, At, PlacePoints
  <1>15. CASE Gate(s)
    <2>1. CASE Goto(s, "parked") /\ UNCHANGED running
      BY <1>15, <2>1, GotoStays, Quiet DEF Gate, At, PlacePoints
    <2>2. CASE Goto(s, "collect") /\ running' = running + 1
      <3>1. OthersStay(s) /\ pc'[s] = "collect"
        BY <2>2, GotoStays
      <3>2. Places' = Places \cup {s} /\ s \notin Places
        BY <1>15, <3>1 DEF Gate, At, Places, PlacePoints, OthersStay
      <3>3. running' = Cardinality(Places')
        BY <2>2, <3>2, Finite, FS_AddElement DEF Counts
      <3>4. WavesOnly'
        BY <1>15, <3>1 DEF Gate, At, WavesOnly, OthersStay, Counts
      <3> QED
        BY <1>15, <3>3, <3>4 DEF Gate, Counts
    <2> QED
      BY <1>15, <2>1, <2>2 DEF Gate
  <1>16. CASE ReleasePlace(s)
    <2>1. OthersStay(s) /\ pc'[s] = "inspect"
      BY <1>16, GotoStays DEF ReleasePlace
    <2>2. Places' = Places \ {s} /\ s \in Places
      BY <1>16, <2>1 DEF ReleasePlace, At, Places, PlacePoints, OthersStay
    <2>3. running' = Cardinality(Places')
      BY <1>16, <2>2, Finite, FS_RemoveElement DEF Counts, ReleasePlace
    <2>4. WavesOnly'
      BY <1>16, <2>1 DEF ReleasePlace, At, WavesOnly, OthersStay, Counts
    <2> QED
      BY <1>16, <2>3, <2>4 DEF ReleasePlace, Counts
  <1>17. CASE Crawl(s)
    <2>1. PICK point \in {"save", "wave"} : Goto(s, point)
      BY <1>17 DEF Crawl
    <2>2. OthersStay(s) /\ pc'[s] = point
      BY <2>1, GotoStays
    <2>3. Places' = Places
      BY <1>17, <2>2, PlacesKept DEF Crawl, At, PlacePoints
    <2>4. pc[s] = "crawl" /\ lookups' = lookups
      BY <1>17 DEF Crawl, At
    <2>5. \A i \in 1..WaveSize : <<s, i>> \notin lookups
      BY <2>4 DEF Counts, WavesOnly
    <2>6. WavesOnly'
      <3>1. CASE UNCHANGED asking
        <4>1. asking[s] = 0
          BY <2>4, LimitsPositive DEF Counts, WavesOnly, TypeOK
        <4> QED
          BY <2>2, <2>4, <2>5, <3>1, <4>1 DEF WavesOnly, OthersStay, Counts
      <3>2. CASE /\ Goto(s, "wave")
                 /\ \E n \in 1..WaveSize : asking' = [asking EXCEPT ![s] = n]
        <4>1. pc'[s] = "wave"
          BY <3>2 DEF Goto, TypeOK
        <4>2. \A t \in Scans \ {s} : asking'[t] = asking[t]
          BY <3>2 DEF TypeOK
        <4> QED
          BY <2>2, <2>4, <2>5, <4>1, <4>2 DEF WavesOnly, OthersStay, Counts
      <3> QED
        BY <1>17, <3>1, <3>2 DEF Crawl
    <2> QED
      BY <1>17, <2>3, <2>6 DEF Crawl, Counts
  <1>18. CASE Acquire(s)
    <2>1. Places' = Places
      BY <1>18 DEF Acquire, Places
    <2>2. asking[s] \in 1..WaveSize /\ <<s, asking[s]>> \notin lookups
      BY <1>18, LimitsPositive DEF Acquire, TypeOK, Counts, WavesOnly
    <2>3. WavesOnly'
      BY <1>18, <2>2 DEF Acquire, At, WavesOnly, Counts, TypeOK
    <2>4. CASE UNCHANGED <<lookups, active>>
      BY <1>18, <2>1, <2>3, <2>4 DEF Acquire, Counts
    <2>5. CASE /\ active < MAX_ACTIVE_LOOKUPS
               /\ active' = active + 1
               /\ lookups' = lookups \cup {<<s, asking[s]>>}
      <3>1. active' = Cardinality(lookups')
        BY <2>2, <2>5, Finite, FS_AddElement DEF Counts
      <3>2. active' <= MAX_ACTIVE_LOOKUPS
        BY <2>5, LimitsPositive DEF TypeOK
      <3> QED
        BY <1>18, <2>1, <2>3, <3>1, <3>2 DEF Acquire, Counts
    <2> QED
      BY <1>18, <2>4, <2>5 DEF Acquire
  <1>19. CASE WaveDone(s)
    <2>1. PICK point \in {"checkpoint", "crawl"} : Goto(s, point)
      BY <1>19 DEF WaveDone
    <2>2. OthersStay(s) /\ pc'[s] = point
      BY <2>1, GotoStays
    <2>3. Places' = Places
      BY <1>19, <2>2, PlacesKept DEF WaveDone, At, PlacePoints
    <2>4. \A i \in 1..WaveSize : <<s, i>> \notin lookups
      BY <1>19 DEF WaveDone, InFlight
    <2>5. WavesOnly'
      BY <1>19, <2>2, <2>4 DEF WaveDone, WavesOnly, OthersStay, Counts
    <2> QED
      BY <1>19, <2>3, <2>5 DEF WaveDone, Counts
  <1>20. CASE Notify(s)
    <2>1. OthersStay(s) /\ pc'[s] = "ended"
      BY <1>20 DEF Notify, Woken, OthersStay
    <2> QED
      BY <1>20, <2>1, Quiet DEF Notify, At, PlacePoints
  <1>21. CASE Publish(s)
    BY <1>21 DEF Publish, Counts, Places, WavesOnly
  <1> QED
    BY <1>1, <1>2, <1>3, <1>4, <1>5, <1>6, <1>7, <1>8, <1>9, <1>10, <1>11, <1>12, <1>13,
       <1>14, <1>15, <1>16, <1>17, <1>18, <1>19, <1>20, <1>21 DEF WorkerStep

LEMMA OtherCounts ==
  ASSUME TypeOK, Counts, NEW s \in Scans,
         LookupStep(s) \/ ClientStep(s) \/ CallStep(s) \/ Recover(s)
  PROVE  Counts'
  <1> USE DEF store, mutexed, crawling, events, process
  <1>1. CASE LookupReturns(s)
    <2>1. PICK i \in 1..WaveSize : <<s, i>> \in lookups /\ lookups' = lookups \ {<<s, i>>}
      BY <1>1 DEF LookupReturns
    <2>2. active' = active - 1 /\ UNCHANGED <<pc, running, asking>>
      BY <1>1 DEF LookupReturns
    <2>3. active' = Cardinality(lookups')
      BY <2>1, <2>2, Finite, FS_RemoveElement DEF Counts
    <2>4. active' <= MAX_ACTIVE_LOOKUPS
      BY <2>2, LimitsPositive DEF Counts, TypeOK
    <2>5. WavesOnly'
      BY <2>1, <2>2 DEF Counts, WavesOnly
    <2>6. Places' = Places
      BY <2>2 DEF Places
    <2> QED
      BY <2>2, <2>3, <2>4, <2>5, <2>6 DEF Counts
  <1>2. CASE LookupPanics(s)
    <2>1. Goto(s, "release") /\ pc[s] = "wave"
      BY <1>2 DEF LookupPanics, At
    <2>2. OthersStay(s) /\ pc'[s] = "release"
      BY <2>1, GotoStays
    <2>3. asking[s] = 0 /\ InFlight(s) = {<<s, 1>>}
      BY <1>2 DEF LookupPanics, Sequential
    <2>4. lookups' = lookups \ {<<s, 1>>} /\ <<s, 1>> \in lookups
      BY <1>2, <2>3 DEF LookupPanics, InFlight
    <2>5. active' = active - 1 /\ UNCHANGED <<running, asking>>
      BY <1>2 DEF LookupPanics
    <2>6. active' = Cardinality(lookups')
      BY <2>4, <2>5, Finite, FS_RemoveElement DEF Counts
    <2>7. active' <= MAX_ACTIVE_LOOKUPS
      BY <2>5, LimitsPositive DEF Counts, TypeOK
    <2>8. \A i \in 1..WaveSize : <<s, i>> \notin lookups'
      BY <2>3, <2>4 DEF InFlight
    <2>9. WavesOnly'
      BY <2>2, <2>3, <2>4, <2>5, <2>8 DEF Counts, WavesOnly, OthersStay
    <2>10. Places' = Places
      BY <2>1, <2>2, PlacesKept DEF PlacePoints
    <2> QED
      BY <2>5, <2>6, <2>7, <2>9, <2>10 DEF Counts
  <1>3. CASE Start(s)
    BY <1>3, GotoStays, Quiet DEF Start, Create, Fresh, PlacePoints
  <1>4. CASE Run(s)
    BY <1>4, GotoStays, Quiet DEF Run, Create, Fresh, PlacePoints
  <1>5. CASE StartOrJoin(s)
    <2>1. PICK point \in {"starting", "ended"} : Goto(s, point)
      BY <1>5 DEF StartOrJoin
    <2>2. pc[s] = "none" /\ UNCHANGED <<running, asking, lookups, active>>
      BY <1>5 DEF StartOrJoin, Fresh
    <2> QED
      BY <2>1, <2>2, GotoStays, Quiet DEF PlacePoints
  <1>6. CASE Keep(s)
    <2>1. PICK point \in {"keepSave", "ended"} : Goto(s, point)
      BY <1>6 DEF Keep
    <2>2. pc[s] = "none" /\ UNCHANGED <<running, asking, lookups, active>>
      BY <1>6 DEF Keep, Fresh
    <2> QED
      BY <2>1, <2>2, GotoStays, Quiet DEF PlacePoints
  <1>7. CASE StopWrites(s)
    <2>1. pc' = Woken /\ UNCHANGED <<running, asking, lookups, active>>
      BY <1>7 DEF StopWrites
    <2>2. Places' = Places
      BY <2>1 DEF Places, Woken, PlacePoints
    <2>3. WavesOnly'
      BY <2>1 DEF Counts, WavesOnly, Woken
    <2> QED
      BY <2>1, <2>2, <2>3 DEF Counts
  <1>8. CASE StopReads(s)
    BY <1>8 DEF StopReads, Counts, Places, WavesOnly
  <1>9. CASE DeleteBegins(s)
    BY <1>9 DEF DeleteBegins, Counts, Places, WavesOnly
  <1>10. CASE Reconcile(s)
    BY <1>10 DEF Reconcile, Counts, Places, WavesOnly
  <1>11. CASE DeleteRemoves(s)
    BY <1>11 DEF DeleteRemoves, Counts, Places, WavesOnly
  <1>12. CASE DeleteForgets(s)
    BY <1>12 DEF DeleteForgets, Counts, Places, WavesOnly
  <1>13. CASE Recover(s)
    BY <1>13 DEF Recover, Counts, Places, WavesOnly
  <1> QED
    BY <1>1, <1>2, <1>3, <1>4, <1>5, <1>6, <1>7, <1>8, <1>9, <1>10, <1>11, <1>12, <1>13
       DEF LookupStep, ClientStep, CallStep

LEMMA CountStep == TypeOK /\ Counts /\ [Next]_vars => Counts'
  <1> SUFFICES ASSUME TypeOK, Counts, [Next]_vars PROVE Counts'
    OBVIOUS
  <1> USE DEF store, mutexed, crawling, events, process
  <1>1. CASE \E s \in Scans : WorkerStep(s)
    BY <1>1, WorkerCounts
  <1>2. CASE \E s \in Scans : LookupStep(s) \/ ClientStep(s) \/ CallStep(s) \/ Recover(s)
    BY <1>2, OtherCounts
  <1>3. CASE Recovered
    BY <1>3 DEF Recovered, Counts, Places, WavesOnly
  <1>4. CASE Crash
    <2>1. Places' = {} /\ lookups' = {}
      BY <1>4 DEF Crash, Places, PlacePoints
    <2>2. WavesOnly'
      BY <1>4 DEF Crash, WavesOnly
    <2> QED
      BY <1>4, <2>1, <2>2, FS_EmptySet, LimitsPositive DEF Crash, Counts
  <1>5. CASE Idle \/ UNCHANGED vars
    BY <1>5 DEF Idle, vars, Counts, Places, WavesOnly
  <1> QED
    BY <1>1, <1>2, <1>3, <1>4, <1>5 DEF Next

LEMMA InitCounts == Init => Counts
  <1> SUFFICES ASSUME Init PROVE Counts
    OBVIOUS
  <1>1. Places = {} /\ lookups = {}
    BY DEF Init, Places, PlacePoints
  <1>2. WavesOnly
    BY DEF Init, WavesOnly
  <1> QED
    BY <1>1, <1>2, FS_EmptySet, LimitsPositive DEF Init, Counts

\* Types and counts, for any number of scans and any limits.
THEOREM TypeAndCounts == Spec => [](TypeOK /\ Counts)
  <1>1. Init => TypeOK /\ Counts
    BY InitType, InitCounts
  <1>2. (TypeOK /\ Counts) /\ [Next]_vars => (TypeOK /\ Counts)'
    BY TypeStep, CountStep
  <1> QED
    BY <1>1, <1>2, PTL DEF Spec

\* Every variable of the service keeps its type: neither running nor active is
\* ever counted below zero by release() or a dropped lookup permit.
THEOREM TypeCorrect == Spec => []TypeOK
  BY TypeAndCounts, PTL

\* State.running is the number of scans that hold a place, whichever of
\* execute()'s exits, failures and crashes came before.
THEOREM PlacesAreCounted == Spec => []PlacesCounted
  <1>1. TypeOK /\ Counts => PlacesCounted
    BY DEF Counts, Places, PlacesCounted
  <1> QED
    BY <1>1, TypeAndCounts, PTL

\* LookupAdmission.active is the number of lookups under way and never passes
\* MAX_ACTIVE_LOOKUPS.
THEOREM AdmissionIsCounted == Spec => []AdmissionCounted
  <1>1. TypeOK /\ Counts => AdmissionCounted
    BY DEF Counts, AdmissionCounted
  <1> QED
    BY <1>1, TypeAndCounts, PTL
-----------------------------------------------------------------------------
(* One scan and its row.                                                     *)

\* Where a scan's thread may look things up.
CrawlPoints == {"run", "options", "crawl", "wave", "checkpoint", "checkpointRow"}

\* Where the service owns the scan.
OwnedPoints == {"spawn"} \cup (WorkerPoints \ {"notify"})

\* Where a thread goes whose status write failed.
TailPoints == {"release", "inspect", "giveUp", "forget", "notify", "ended"}

\* Where the scan's own thread has not ended it yet.
AlivePoints ==
    {"spawn", "starting", "gate", "parked", "collect", "save", "saveRow", "decide", "finish"}
        \cup CrawlPoints \cup KeepPoints

\* The environments some theorems are for.
NoSpawnFailure == "spawn fails" \notin Environment
NoPanic == "lookup panics" \notin Environment

\* The scan's row is written under the state mutex only.
Sure(s) == origin[s] # "start" \/ NoSpawnFailure

\* The calls that make a scan the service's own.
Named == {"start", "join", "run"}

\* An id nobody has minted has left no trace.
Born(s) ==
    origin[s] = "none" =>
        /\ pc[s] = "none" /\ row[s] = "NONE" /\ results[s] = "none" /\ deleting[s] = "no"
        /\ stopping # s
        /\ s \notin owned /\ s \notin orphans /\ s \notin stopped

\* What the place of a scan's thread tells of the service's tables.
PointOK(s) ==
    /\ s \in owned => pc[s] \in OwnedPoints /\ origin[s] \in Named
    /\ s \in statusFailures => pc[s] \in TailPoints
    /\ s \in orphans => pc[s] = "ended"
    /\ phase = "recovering" /\ origin[s] # "none" => s \in orphans
    /\ pc[s] \in KeepPoints => origin[s] = "keep"
    /\ pc[s] \in {"spawn", "spawnFailed"} => origin[s] = "start"
    /\ pc[s] = "spawnFailed" => ~NoSpawnFailure
    /\ origin[s] \in {"start", "join"} /\ pc[s] \in {"spawn"} \cup WorkerPoints => s \in permits

\* A stop() between its read and its write is of a scan that is still owned and active,
\* and a delivered stop is known to the thread until it forgets the scan.
StopOK(s) ==
    /\ stopping = s => origin[s] \in Named
    /\ stopping = s /\ Sure(s) => s \in owned /\ IsActive(row[s])
    /\ s \in stopped => origin[s] \in Named
    /\ s \in stopped /\ pc[s] \in OwnedPoints => s \in aborts

\* An owned scan is deleted only once it has ended.
DeleteOK(s) ==
    /\ deleting[s] = "cleanup" => row[s] = "NONE"
    /\ deleting[s] # "no" /\ s \in owned /\ Sure(s) => ~IsActive(row[s])

\* While the scan's thread has not ended it and nobody removes it, its row is active
\* and its results are those the thread has saved.
AliveOK(s) ==
    /\ pc[s] = "finish" => verdict[s] \in EndedStatus
    /\ pc[s] \in AlivePoints /\ deleting[s] = "no" => IsActive(row[s])
    /\ pc[s] = "finish" /\ verdict[s] = "FINISHED" /\ deleting[s] = "no"
         => results[s] = "final"
    /\ pc[s] \in {"saveRow", "decide", "keepRow", "keepFinish"} /\ deleting[s] = "no"
         => results[s] = "final"
    /\ results[s] = "final" =>
         pc[s] \in TailPoints \cup
                    {"saveRow", "decide", "finish", "keepRow", "keepFinish", "keepFail"}

\* A row this process ended has its end published, or about to be.
EventOK(s) ==
    s \notin orphans /\ row[s] \in EndedStatus =>
        row[s] = IF pending[s] # "NONE" THEN pending[s] ELSE shown[s]

\* A thread past its work leaves an active row only with the failure recorded.
ReportOK(s) ==
    pc[s] \in TailPoints \ {"giveUp"} /\ IsActive(row[s]) => s \in statusFailures \cup orphans

ScanOK(s) ==
    /\ Born(s) /\ PointOK(s) /\ StopOK(s) /\ DeleteOK(s)
    /\ NoSpawnFailure => AliveOK(s) /\ EventOK(s)
    /\ NoSpawnFailure /\ NoPanic => ReportOK(s)

\* A step of another scan's thread or client leaves this scan as it is, except that a
\* worker parked at the gate may be woken and the mutex given back.
Same(t) ==
    /\ row'[t] = row[t] /\ results'[t] = results[t] /\ origin'[t] = origin[t]
    /\ verdict'[t] = verdict[t] /\ deleting'[t] = deleting[t]
    /\ pending'[t] = pending[t] /\ shown'[t] = shown[t]
    /\ pc'[t] = pc[t] \/ (pc[t] = "parked" /\ pc'[t] = "gate")
    /\ t \in aborts' <=> t \in aborts
    /\ t \in statusFailures' <=> t \in statusFailures
    /\ t \in owned' <=> t \in owned
    /\ t \in permits' <=> t \in permits
    /\ t \in orphans' <=> t \in orphans
    /\ t \in stopped' <=> t \in stopped
    /\ stopping' = t => stopping = t
    /\ phase' = phase

LEMMA StatusLocal ==
  ASSUME TypeOK, NEW s \in Scans, NEW status, NEW saved, NEW lost,
         SetStatus(s, status, saved, lost), NEW t \in Scans, t # s
  PROVE  /\ row'[t] = row[t] /\ pending'[t] = pending[t] /\ shown'[t] = shown[t]
         /\ results'[t] = results[t]
         /\ pc'[t] = pc[t] \/ (pc[t] = "parked" /\ pc'[t] = "gate")
         /\ t \in statusFailures' <=> t \in statusFailures
  <1>1. CASE StatusSaved(s, status) /\ Goto(s, saved)
    BY <1>1 DEF SetStatus, StatusSaved, Goto, TypeOK
  <1>2. CASE StatusLost(s) /\ pc' = [Woken EXCEPT ![s] = lost]
    BY <1>2 DEF SetStatus, StatusLost, Woken, TypeOK
  <1> QED
    BY <1>1, <1>2 DEF SetStatus

\* What start()'s spawn and start_or_join() do, by how they go.
LEMMA SpawnCases ==
  ASSUME NEW s \in Scans, Spawn(s)
  PROVE  /\ phase = "serving" /\ pc[s] = "spawn"
         /\ UNCHANGED <<row, results, origin, verdict, aborts, statusFailures, stopping,
                        deleting, pending, shown, phase, orphans, stopped>>
         /\ \/ Goto(s, "starting") /\ UNCHANGED <<owned, permits>>
            \/ ~NoSpawnFailure /\ SpawnRefused(s)
  BY DEF Spawn, At, Serving, store, mutexed, events, process, NoSpawnFailure

LEMMA JoinCases ==
  ASSUME NEW s \in Scans, StartOrJoin(s)
  PROVE  /\ phase = "serving" /\ pc[s] = "none" /\ origin[s] = "none"
         /\ NothingToJoin(s) /\ SlotFree
         /\ origin' = [origin EXCEPT ![s] = "join"]
         /\ UNCHANGED <<results, verdict, aborts, statusFailures, stopping,
                        deleting, pending, shown, phase, orphans, stopped>>
         /\ \/ /\ row' = [row EXCEPT ![s] = "CREATED"]
               /\ owned' = owned \cup {s}
               /\ permits' = permits \cup {s}
               /\ Goto(s, "starting")
            \/ Goto(s, "ended") /\ UNCHANGED <<row, owned, permits>>
            \/ /\ ~NoSpawnFailure
               /\ Goto(s, "ended")
               /\ \/ row' = [row EXCEPT ![s] = "ERROR-FAILED"]
                  \/ row' = [row EXCEPT ![s] = "CREATED"]
               /\ UNCHANGED <<owned, permits>>
  <1>1. /\ phase = "serving" /\ pc[s] = "none" /\ origin[s] = "none"
        /\ NothingToJoin(s) /\ SlotFree
        /\ origin' = [origin EXCEPT ![s] = "join"]
    BY DEF StartOrJoin, Fresh, Serving
  <1>2. UNCHANGED <<results, verdict, aborts, statusFailures, stopping,
                    deleting, pending, shown, phase, orphans, stopped>>
    BY DEF StartOrJoin, mutexed, events, process
  <1> QED
    BY <1>1, <1>2 DEF StartOrJoin, NoSpawnFailure

LEMMA WorkerLocal ==
  ASSUME TypeOK, NEW s \in Scans, WorkerStep(s), NEW t \in Scans, t # s
  PROVE  Same(t)
  <1> USE DEF store, mutexed, crawling, events, process, Goto
  <1>1. CASE Starting(s)
    BY <1>1, StatusLocal DEF Starting, Same
  <1>2. CASE SetRunning(s)
    BY <1>2, StatusLocal DEF SetRunning, Same
  <1>3. CASE Finish(s)
    BY <1>3, StatusLocal DEF Finish, DropLocals, TypeOK, Same
  <1>4. CASE GiveUp(s)
    BY <1>4, StatusLocal DEF GiveUp, Same
  <1>5. CASE KeepEnds(s)
    BY <1>5, StatusLocal DEF KeepEnds, Same
  <1>6. CASE Spawn(s)
    BY <1>6, SpawnCases DEF SpawnRefused, TypeOK, Same
  <1>7. CASE SpawnFailed(s)
    BY <1>7 DEF SpawnFailed, TypeOK, Same
  <1>8. CASE Gate(s)
    BY <1>8 DEF Gate, TypeOK, Same
  <1>9. CASE Collect(s)
    BY <1>9 DEF Collect, TypeOK, Same
  <1>10. CASE LoadOptions(s)
    BY <1>10 DEF LoadOptions, TypeOK, Same
  <1>11. CASE Crawl(s)
    BY <1>11 DEF Crawl, TypeOK, Same
  <1>12. CASE Acquire(s)
    BY <1>12 DEF Acquire, Same
  <1>13. CASE WaveDone(s)
    BY <1>13 DEF WaveDone, TypeOK, Same
  <1>14. CASE SaveResults(s)
    BY <1>14 DEF SaveResults, SaveFailed, TypeOK, Same
  <1>15. CASE SaveRow(s)
    BY <1>15 DEF SaveRow, SaveFailed, TypeOK, Same
  <1>16. CASE Decide(s)
    BY <1>16 DEF Decide, TypeOK, Same
  <1>17. CASE ReleasePlace(s)
    BY <1>17 DEF ReleasePlace, TypeOK, Same
  <1>18. CASE Inspect(s)
    BY <1>18 DEF Inspect, TypeOK, Same
  <1>19. CASE Forget(s)
    BY <1>19 DEF Forget, TypeOK, Same
  <1>20. CASE Notify(s)
    BY <1>20 DEF Notify, Woken, TypeOK, Same
  <1>21. CASE Publish(s)
    BY <1>21 DEF Publish, TypeOK, Same
  <1> QED
    BY <1>1, <1>2, <1>3, <1>4, <1>5, <1>6, <1>7, <1>8, <1>9, <1>10, <1>11, <1>12, <1>13,
       <1>14, <1>15, <1>16, <1>17, <1>18, <1>19, <1>20, <1>21 DEF WorkerStep

LEMMA OtherLocal ==
  ASSUME TypeOK, NEW s \in Scans, NEW t \in Scans, t # s,
         LookupStep(s) \/ ClientStep(s) \/ CallStep(s) \/ Recover(s)
  PROVE  Same(t)
  <1> USE ScansFinite DEF store, mutexed, crawling, events, process, Goto
  <1>1. CASE LookupReturns(s)
    BY <1>1 DEF LookupReturns, Same
  <1>2. CASE LookupPanics(s)
    <2>1. /\ pc' = [pc EXCEPT ![s] = "release"] /\ DropLocals(s)
          /\ UNCHANGED <<row, results, origin, aborts, statusFailures, owned, permits, stopping,
                         deleting, pending, shown, phase, orphans, stopped>>
      BY <1>2 DEF LookupPanics
    <2> QED
      BY <2>1 DEF DropLocals, TypeOK, Same
  <1>3. CASE Start(s)
    BY <1>3 DEF Start, Create, TypeOK, Same
  <1>4. CASE Run(s)
    BY <1>4 DEF Run, Create, TypeOK, Same
  <1>5. CASE StartOrJoin(s)
    BY <1>5, JoinCases DEF TypeOK, Same
  <1>6. CASE Keep(s)
    BY <1>6 DEF Keep, TypeOK, Same
  <1>7. CASE StopReads(s)
    BY <1>7 DEF StopReads, TypeOK, Same
  <1>8. CASE DeleteBegins(s)
    BY <1>8 DEF DeleteBegins, TypeOK, Same
  <1>9. CASE Reconcile(s)
    BY <1>9 DEF Reconcile, TypeOK, Same
  <1>10. CASE StopWrites(s)
    BY <1>10 DEF StopWrites, Woken, TypeOK, Same
  <1>11. CASE DeleteRemoves(s)
    BY <1>11 DEF DeleteRemoves, TypeOK, Same
  <1>12. CASE DeleteForgets(s)
    BY <1>12 DEF DeleteForgets, TypeOK, Same
  <1>13. CASE Recover(s)
    BY <1>13 DEF Recover, TypeOK, Same
  <1> QED
    BY <1>1, <1>2, <1>3, <1>4, <1>5, <1>6, <1>7, <1>8, <1>9, <1>10, <1>11, <1>12, <1>13
       DEF LookupStep, ClientStep, CallStep

LEMMA SameKeeps ==
  ASSUME TypeOK, NEW t \in Scans, ScanOK(t), Same(t)
  PROVE  ScanOK(t)'
  <1>1. Born(t)'
    BY DEF ScanOK, Born, Same
  <1>2. PointOK(t)'
    BY DEF ScanOK, PointOK, Same, OwnedPoints, WorkerPoints, PlacePoints, TailPoints, KeepPoints
  <1>3. StopOK(t)'
    BY DEF ScanOK, StopOK, Sure, Same, OwnedPoints, WorkerPoints, PlacePoints
  <1>4. DeleteOK(t)'
    BY DEF ScanOK, DeleteOK, Sure, Same
  <1>5. NoSpawnFailure => AliveOK(t)' /\ EventOK(t)'
    BY DEF ScanOK, AliveOK, EventOK, Same, AlivePoints, CrawlPoints, KeepPoints, TailPoints
  <1>6. NoSpawnFailure /\ NoPanic => ReportOK(t)'
    BY DEF ScanOK, ReportOK, Same, TailPoints
  <1> QED
    BY <1>1, <1>2, <1>3, <1>4, <1>5, <1>6 DEF ScanOK

LEMMA WorkerScan ==
  ASSUME TypeOK, NEW s \in Scans, ScanOK(s), WorkerStep(s)
  PROVE  ScanOK(s)'
  <1> USE ScansFinite DEF store, mutexed, crawling, events, process, Goto, At, Serving, StateFree
  <1> USE DEF ScanOK, Born, PointOK, StopOK, DeleteOK, AliveOK, EventOK, ReportOK, Sure, Named,
              IsActive, ActiveStatus, EndedStatus, OwnedPoints, WorkerPoints,
              PlacePoints, TailPoints, KeepPoints, AlivePoints, CrawlPoints
  <1>1. CASE Starting(s)
    BY <1>1 DEF Starting, SetStatus, StatusSaved, StatusLost, Refused, Ignored, Written,
       Woken, TypeOK
  <1>2. CASE SetRunning(s)
    BY <1>2 DEF SetRunning, SetStatus, StatusSaved, StatusLost, Refused, Ignored, Written,
       Woken, TypeOK
  <1>3. CASE Finish(s)
    BY <1>3 DEF Finish, SetStatus, StatusSaved, StatusLost, Refused, Ignored, Written, Woken,
       TypeOK
  <1>4. CASE GiveUp(s)
    BY <1>4 DEF GiveUp, SetStatus, StatusSaved, StatusLost, Refused, Ignored, Written, Woken,
       TypeOK
  <1>5. CASE KeepEnds(s)
    BY <1>5 DEF KeepEnds, SetStatus, StatusSaved, StatusLost, Refused, Ignored, Written,
       Woken, TypeOK
  <1>6. CASE Spawn(s)
    <2>1. CASE Goto(s, "starting") /\ UNCHANGED <<owned, permits>>
      BY <1>6, <2>1, SpawnCases DEF TypeOK
    <2>2. CASE ~NoSpawnFailure /\ SpawnRefused(s)
      <3>1. pc'[s] = "spawnFailed" /\ s \notin owned'
        BY <2>2 DEF SpawnRefused, TypeOK
      <3>2. /\ origin[s] = "start"
            /\ UNCHANGED <<row, results, origin, verdict, aborts, statusFailures, stopping,
                           deleting, pending, shown, phase, orphans, stopped>>
        BY <1>6, SpawnCases
      <3> QED
        BY <1>6, <2>2, <3>1, <3>2, SpawnCases
    <2> QED
      BY <1>6, <2>1, <2>2, SpawnCases
  <1>7. CASE SpawnFailed(s)
    BY <1>7 DEF SpawnFailed, TypeOK
  <1>8. CASE Gate(s)
    BY <1>8 DEF Gate, TypeOK
  <1>9. CASE Collect(s)
    BY <1>9 DEF Collect, TypeOK
  <1>10. CASE LoadOptions(s)
    BY <1>10 DEF LoadOptions, Refused, TypeOK
  <1>11. CASE Crawl(s)
    BY <1>11 DEF Crawl, TypeOK
  <1>12. CASE Acquire(s)
    BY <1>12 DEF Acquire, TypeOK
  <1>13. CASE WaveDone(s)
    BY <1>13 DEF WaveDone, TypeOK
  <1>14. CASE SaveResults(s)
    BY <1>14 DEF SaveResults, SaveFailed, TypeOK
  <1>15. CASE SaveRow(s)
    BY <1>15 DEF SaveRow, SaveFailed, TypeOK
  <1>16. CASE Decide(s)
    BY <1>16 DEF Decide, Outcome, TypeOK
  <1>17. CASE ReleasePlace(s)
    BY <1>17 DEF ReleasePlace, TypeOK
  <1>18. CASE Inspect(s)
    BY <1>18 DEF Inspect, TypeOK
  <1>19. CASE Forget(s)
    BY <1>19 DEF Forget, TypeOK
  <1>20. CASE Notify(s)
    BY <1>20 DEF Notify, Woken, TypeOK
  <1>21. CASE Publish(s)
    BY <1>21 DEF Publish, TypeOK
  <1> QED
    BY <1>1, <1>2, <1>3, <1>4, <1>5, <1>6, <1>7, <1>8, <1>9, <1>10, <1>11, <1>12, <1>13,
       <1>14, <1>15, <1>16, <1>17, <1>18, <1>19, <1>20, <1>21 DEF WorkerStep

LEMMA OtherScan ==
  ASSUME TypeOK, NEW s \in Scans, ScanOK(s),
         LookupStep(s) \/ ClientStep(s) \/ CallStep(s) \/ Recover(s)
  PROVE  ScanOK(s)'
  <1> USE ScansFinite DEF store, mutexed, crawling, events, process, Goto, At, Serving, StateFree
  <1> USE DEF ScanOK, Born, PointOK, StopOK, DeleteOK, AliveOK, EventOK, ReportOK, Sure, Named,
              IsActive, ActiveStatus, EndedStatus, OwnedPoints, WorkerPoints,
              PlacePoints, TailPoints, KeepPoints, AlivePoints, CrawlPoints
  <1>1. CASE LookupReturns(s)
    BY <1>1 DEF LookupReturns, TypeOK
  <1>2. CASE LookupPanics(s)
    <2>1. /\ ~NoPanic /\ pc[s] = "wave" /\ pc' = [pc EXCEPT ![s] = "release"]
          /\ UNCHANGED <<row, results, origin, aborts, statusFailures, owned, permits, stopping,
                         deleting, pending, shown, phase, orphans, stopped>>
      BY <1>2 DEF LookupPanics, NoPanic
    <2> QED
      BY <2>1 DEF TypeOK
  <1>3. CASE Start(s)
    BY <1>3 DEF Start, Create, Fresh, TypeOK
  <1>4. CASE Run(s)
    BY <1>4 DEF Run, Create, Fresh, TypeOK
  <1>5. CASE StartOrJoin(s)
    BY <1>5, JoinCases DEF TypeOK
  <1>6. CASE Keep(s)
    BY <1>6 DEF Keep, Fresh, TypeOK
  <1>7. CASE StopReads(s)
    BY <1>7 DEF StopReads, Stoppable, TypeOK
  <1>8. CASE DeleteBegins(s)
    BY <1>8 DEF DeleteBegins, TypeOK
  <1>9. CASE Reconcile(s)
    BY <1>9 DEF Reconcile, TypeOK
  <1>10. CASE StopWrites(s)
    BY <1>10 DEF StopWrites, Woken, TypeOK
  <1>11. CASE DeleteRemoves(s)
    BY <1>11 DEF DeleteRemoves, TypeOK
  <1>12. CASE DeleteForgets(s)
    BY <1>12 DEF DeleteForgets, TypeOK
  <1>13. CASE Recover(s)
    BY <1>13 DEF Recover, LeftActive, TypeOK
  <1> QED
    BY <1>1, <1>2, <1>3, <1>4, <1>5, <1>6, <1>7, <1>8, <1>9, <1>10, <1>11, <1>12,
       <1>13 DEF LookupStep, ClientStep, CallStep

ScansOK == \A s \in Scans : ScanOK(s)

\* A step of the service is one scan's, the process's death, or its recovery.
LEMMA ScansStep == TypeOK /\ ScansOK /\ [Next]_vars => ScansOK'
  <1> SUFFICES ASSUME TypeOK, ScansOK, [Next]_vars, NEW t \in Scans PROVE ScanOK(t)'
    BY DEF ScansOK
  <1>0. ScanOK(t)
    BY DEF ScansOK
  <1> USE DEF store, mutexed, crawling, events, process
  <1>1. ASSUME NEW s \in Scans, WorkerStep(s) PROVE ScanOK(t)'
    BY <1>0, <1>1, WorkerScan, WorkerLocal, SameKeeps
  <1>2. ASSUME NEW s \in Scans, LookupStep(s) \/ ClientStep(s) \/ CallStep(s) \/ Recover(s)
        PROVE  ScanOK(t)'
    BY <1>0, <1>2, OtherScan, OtherLocal, SameKeeps
  <1>3. CASE Recovered
    BY <1>0, <1>3 DEF Recovered, ScanOK, Born, PointOK, StopOK, DeleteOK, AliveOK, EventOK,
                      ReportOK, Sure
  <1>4. CASE Crash
    BY <1>0, <1>4, ScansFinite
       DEF Crash, ScanOK, Born, PointOK, StopOK, DeleteOK, AliveOK, EventOK, ReportOK, Sure,
           OwnedPoints, WorkerPoints, PlacePoints, TailPoints, KeepPoints, AlivePoints,
           CrawlPoints
  <1>5. CASE UNCHANGED vars
    BY <1>0, <1>5 DEF vars, ScanOK, Born, PointOK, StopOK, DeleteOK, AliveOK, EventOK,
                      ReportOK, Sure
  <1> QED
    BY <1>1, <1>2, <1>3, <1>4, <1>5 DEF Next, Idle

LEMMA ScansInit == Init => ScansOK
  BY ScansFinite
     DEF Init, ScansOK, ScanOK, Born, PointOK, StopOK, DeleteOK, AliveOK, EventOK, ReportOK,
         Sure, OwnedPoints, WorkerPoints, PlacePoints, TailPoints, KeepPoints, AlivePoints,
         CrawlPoints, IsActive, ActiveStatus, EndedStatus

\* A scan that looks things up, or will.
Crawling(s) == pc[s] \in CrawlPoints \/ (pc[s] = "collect" /\ s \notin aborts)

\* Its final results can be read.
Saved(s) == deleting[s] = "no" /\ results[s] = "final"

\* How one step may change what a client sees of a scan.
LifeMoves(s) ==
    \/ LifeOf(s)' = LifeOf(s) /\ Saved(s)' = Saved(s)
    \/ LifeOf(s) = "none" /\ LifeOf(s)' = "active" /\ Saved(s)' = Saved(s)
    \/ LifeOf(s) \in {"active", "asked"} /\ LifeOf(s)' = LifeOf(s) /\ Saved(s)' = TRUE
    \/ LifeOf(s) = "active" /\ LifeOf(s)' = "asked" /\ Saved(s)' = Saved(s)
    \/ LifeOf(s) = "active" /\ Saved(s) /\ LifeOf(s)' = "finished" /\ Saved(s)' = Saved(s)
    \/ LifeOf(s) \in {"active", "asked"} /\ LifeOf(s)' = "unfinished" /\ Saved(s)' = Saved(s)
    \/ LifeOf(s) # "none" /\ LifeOf(s)' = "removing" /\ Saved(s)' = FALSE

\* What a step of the scan's thread, its lookups or its clients may do to it.
Effect(s) ==
    /\ Crawling(s)' => Crawling(s) \/ running < MAX_RUNNING
    /\ s \in permits' => s \in permits \/ SlotFree
    /\ origin[s] = "join" /\ Joinable(s)' => Joinable(s)
    /\ NoSpawnFailure => (row[s] \in EndedStatus => row'[s] \in {row[s], "NONE"})
    /\ NoSpawnFailure => LifeMoves(s)

LEMMA WorkerEffect ==
  ASSUME TypeOK, NEW s \in Scans, ScanOK(s), WorkerStep(s)
  PROVE  Effect(s)
  <1> USE ScansFinite DEF store, mutexed, crawling, events, process, Goto, At, Serving, StateFree
  <1> USE DEF ScanOK, Born, PointOK, StopOK, DeleteOK, AliveOK, Sure, Named, Joinable,
              IsActive, ActiveStatus, EndedStatus, OwnedPoints, WorkerPoints,
              PlacePoints, TailPoints, KeepPoints, AlivePoints, CrawlPoints,
              Crawling, Saved, LifeOf, LifeMoves, Effect
  <1>1. CASE Starting(s)
    BY <1>1 DEF Starting, SetStatus, StatusSaved, StatusLost, Refused, Ignored, Written,
       Woken, TypeOK
  <1>2. CASE SetRunning(s)
    BY <1>2 DEF SetRunning, SetStatus, StatusSaved, StatusLost, Refused, Ignored, Written,
       Woken, TypeOK
  <1>3. CASE Finish(s)
    BY <1>3 DEF Finish, SetStatus, StatusSaved, StatusLost, Refused, Ignored, Written, Woken,
       TypeOK
  <1>4. CASE GiveUp(s)
    BY <1>4 DEF GiveUp, SetStatus, StatusSaved, StatusLost, Refused, Ignored, Written, Woken,
       TypeOK
  <1>5. CASE KeepEnds(s)
    BY <1>5 DEF KeepEnds, SetStatus, StatusSaved, StatusLost, Refused, Ignored, Written,
       Woken, TypeOK
  <1>6. CASE Spawn(s)
    BY <1>6, SpawnCases DEF SpawnRefused, TypeOK
  <1>7. CASE SpawnFailed(s)
    BY <1>7 DEF SpawnFailed, TypeOK
  <1>8. CASE Gate(s)
    BY <1>8, LimitsPositive DEF Gate, MustWait, TypeOK
  <1>9. CASE Collect(s)
    BY <1>9 DEF Collect, TypeOK
  <1>10. CASE LoadOptions(s)
    BY <1>10 DEF LoadOptions, Refused, TypeOK
  <1>11. CASE Crawl(s)
    BY <1>11 DEF Crawl, TypeOK
  <1>12. CASE Acquire(s)
    BY <1>12 DEF Acquire, TypeOK
  <1>13. CASE WaveDone(s)
    BY <1>13 DEF WaveDone, TypeOK
  <1>14. CASE SaveResults(s)
    BY <1>14 DEF SaveResults, SaveFailed, TypeOK
  <1>15. CASE SaveRow(s)
    BY <1>15 DEF SaveRow, SaveFailed, TypeOK
  <1>16. CASE Decide(s)
    BY <1>16 DEF Decide, Outcome, TypeOK
  <1>17. CASE ReleasePlace(s)
    BY <1>17 DEF ReleasePlace, TypeOK
  <1>18. CASE Inspect(s)
    BY <1>18 DEF Inspect, TypeOK
  <1>19. CASE Forget(s)
    BY <1>19 DEF Forget, TypeOK
  <1>20. CASE Notify(s)
    BY <1>20 DEF Notify, Woken, TypeOK
  <1>21. CASE Publish(s)
    BY <1>21 DEF Publish, TypeOK
  <1> QED
    BY <1>1, <1>2, <1>3, <1>4, <1>5, <1>6, <1>7, <1>8, <1>9, <1>10, <1>11, <1>12, <1>13,
       <1>14, <1>15, <1>16, <1>17, <1>18, <1>19, <1>20, <1>21 DEF WorkerStep

LEMMA OtherEffect ==
  ASSUME TypeOK, NEW s \in Scans, ScanOK(s),
         LookupStep(s) \/ ClientStep(s) \/ CallStep(s) \/ Recover(s)
  PROVE  Effect(s)
  <1> USE ScansFinite DEF store, mutexed, crawling, events, process, Goto, At, Serving, StateFree
  <1> USE DEF ScanOK, Born, PointOK, StopOK, DeleteOK, AliveOK, Sure, Named, Joinable,
              IsActive, ActiveStatus, EndedStatus, OwnedPoints, WorkerPoints,
              PlacePoints, TailPoints, KeepPoints, AlivePoints, CrawlPoints,
              Crawling, Saved, LifeOf, LifeMoves, Effect
  <1>1. CASE LookupReturns(s)
    BY <1>1 DEF LookupReturns, TypeOK
  <1>2. CASE LookupPanics(s)
    BY <1>2 DEF LookupPanics, TypeOK
  <1>3. CASE Start(s)
    BY <1>3 DEF Start, Create, Fresh, TypeOK
  <1>4. CASE Run(s)
    BY <1>4 DEF Run, Create, Fresh, TypeOK
  <1>5. CASE StartOrJoin(s)
    BY <1>5, JoinCases DEF TypeOK
  <1>6. CASE Keep(s)
    BY <1>6 DEF Keep, Fresh, TypeOK
  <1>7. CASE StopReads(s)
    BY <1>7 DEF StopReads, Stoppable, TypeOK
  <1>8. CASE DeleteBegins(s)
    BY <1>8 DEF DeleteBegins, TypeOK
  <1>9. CASE Reconcile(s)
    BY <1>9 DEF Reconcile, TypeOK
  <1>10. CASE StopWrites(s)
    BY <1>10 DEF StopWrites, Woken, TypeOK
  <1>11. CASE DeleteRemoves(s)
    BY <1>11 DEF DeleteRemoves, TypeOK
  <1>12. CASE DeleteForgets(s)
    BY <1>12 DEF DeleteForgets, TypeOK
  <1>13. CASE Recover(s)
    BY <1>13 DEF Recover, LeftActive, TypeOK
  <1> QED
    BY <1>1, <1>2, <1>3, <1>4, <1>5, <1>6, <1>7, <1>8, <1>9, <1>10, <1>11, <1>12,
       <1>13 DEF LookupStep, ClientStep, CallStep

\* The abstract variables, as ScanRefinement maps them.
lifeMap == [s \in Scans |-> LifeOf(s)]
savedMap == [s \in Scans |-> deleting[s] = "no" /\ results[s] = "final"]

LEMMA SameLife ==
  ASSUME NEW t \in Scans, Same(t)
  PROVE  LifeOf(t)' = LifeOf(t) /\ Saved(t)' = Saved(t)
  BY DEF Same, LifeOf, Saved

\* One scan's move is a step of the abstract specification.
LEMMA MoveIsLife ==
  ASSUME NEW s \in Scans, LifeMoves(s), \A t \in Scans \ {s} : Same(t)
  PROVE  [Life!Next]_<<lifeMap, savedMap>>
  <1>1. /\ lifeMap' = [lifeMap EXCEPT ![s] = LifeOf(s)']
        /\ savedMap' = [savedMap EXCEPT ![s] = Saved(s)']
    BY SameLife DEF lifeMap, savedMap, Saved
  <1>2. lifeMap[s] = LifeOf(s) /\ savedMap[s] = Saved(s)
    BY DEF lifeMap, savedMap, Saved
  <1>3. Saved(s)' = Saved(s) => savedMap' = savedMap
    BY <1>1, <1>2 DEF savedMap
  <1>4. LifeOf(s)' = LifeOf(s) => lifeMap' = lifeMap
    BY <1>1, <1>2 DEF lifeMap
  <1>5. CASE LifeOf(s)' = LifeOf(s) /\ Saved(s)' = Saved(s)
    BY <1>3, <1>4, <1>5
  <1>6. CASE LifeOf(s) = "none" /\ LifeOf(s)' = "active" /\ Saved(s)' = Saved(s)
    <2>1. Life!Create(s)
      BY <1>1, <1>2, <1>3, <1>6 DEF Life!Create, Life!Becomes, lifeMap, savedMap
    <2> QED
      BY <2>1 DEF Life!Next
  <1>7. CASE LifeOf(s) \in {"active", "asked"} /\ LifeOf(s)' = LifeOf(s) /\ Saved(s)' = TRUE
    <2>1. Life!Save(s)
      BY <1>1, <1>2, <1>4, <1>7 DEF Life!Save, lifeMap, savedMap
    <2> QED
      BY <2>1 DEF Life!Next
  <1>8. CASE LifeOf(s) = "active" /\ LifeOf(s)' = "asked" /\ Saved(s)' = Saved(s)
    <2>1. Life!AskToStop(s)
      BY <1>1, <1>2, <1>3, <1>8 DEF Life!AskToStop, Life!Becomes, lifeMap, savedMap
    <2> QED
      BY <2>1 DEF Life!Next
  <1>9. CASE LifeOf(s) = "active" /\ Saved(s) /\ LifeOf(s)' = "finished" /\ Saved(s)' = Saved(s)
    <2>1. Life!Finish(s)
      BY <1>1, <1>2, <1>3, <1>9 DEF Life!Finish, Life!Becomes, lifeMap, savedMap
    <2> QED
      BY <2>1 DEF Life!Next
  <1>10. CASE /\ LifeOf(s) \in {"active", "asked"}
              /\ LifeOf(s)' = "unfinished" /\ Saved(s)' = Saved(s)
    <2>1. Life!GiveUp(s)
      BY <1>1, <1>2, <1>3, <1>10 DEF Life!GiveUp, Life!Becomes, lifeMap, savedMap
    <2> QED
      BY <2>1 DEF Life!Next
  <1>11. CASE LifeOf(s) # "none" /\ LifeOf(s)' = "removing" /\ Saved(s)' = FALSE
    <2>1. LifeOf(s) \in Life!Lives
      BY DEF LifeOf, Life!Lives
    <2>2. Life!Remove(s)
      BY <1>1, <1>2, <1>11, <2>1 DEF Life!Remove, Life!Becomes, lifeMap, savedMap
    <2> QED
      BY <2>2 DEF Life!Next
  <1> QED
    BY <1>5, <1>6, <1>7, <1>8, <1>9, <1>10, <1>11 DEF LifeMoves

LEMMA LifeInit == Init => Life!Init
  <1> SUFFICES ASSUME Init PROVE Life!Init
    OBVIOUS
  <1>1. \A s \in Scans : LifeOf(s) = "none"
    BY DEF Init, LifeOf
  <1>2. \A s \in Scans : (deleting[s] = "no" /\ results[s] = "final") = FALSE
    BY DEF Init
  <1> QED
    BY <1>1, <1>2 DEF Life!Init

LEMMA LifeStep ==
  ASSUME NoSpawnFailure
  PROVE  TypeOK /\ ScansOK /\ [Next]_vars => [Life!Next]_<<lifeMap, savedMap>>
  <1> SUFFICES ASSUME TypeOK, ScansOK, [Next]_vars PROVE [Life!Next]_<<lifeMap, savedMap>>
    OBVIOUS
  <1> USE DEF store, mutexed, crawling, events, process
  <1>1. ASSUME NEW s \in Scans, WorkerStep(s) PROVE [Life!Next]_<<lifeMap, savedMap>>
    <2>1. LifeMoves(s)
      BY <1>1, WorkerEffect DEF ScansOK, Effect
    <2> QED
      BY <1>1, <2>1, WorkerLocal, MoveIsLife
  <1>2. ASSUME NEW s \in Scans, LookupStep(s) \/ ClientStep(s) \/ CallStep(s) \/ Recover(s)
        PROVE  [Life!Next]_<<lifeMap, savedMap>>
    <2>1. LifeMoves(s)
      BY <1>2, OtherEffect DEF ScansOK, Effect
    <2> QED
      BY <1>2, <2>1, OtherLocal, MoveIsLife
  <1>3. CASE Recovered
    BY <1>3 DEF Recovered, lifeMap, savedMap, LifeOf
  <1>4. CASE Crash
    BY <1>4 DEF Crash, lifeMap, savedMap, LifeOf, TypeOK
  <1>5. CASE UNCHANGED vars
    BY <1>5 DEF vars, lifeMap, savedMap, LifeOf
  <1> QED
    BY <1>1, <1>2, <1>3, <1>4, <1>5 DEF Next, Idle

LEMMA EndedStep ==
  ASSUME NoSpawnFailure
  PROVE  TypeOK /\ ScansOK /\ [Next]_vars =>
             [\A s \in Scans : row[s] \in EndedStatus => row'[s] \in {row[s], "NONE"}]_row
  <1> SUFFICES ASSUME TypeOK, ScansOK, [Next]_vars, NEW t \in Scans, row[t] \in EndedStatus
               PROVE  row'[t] \in {row[t], "NONE"}
    OBVIOUS
  <1> USE DEF store, mutexed, crawling, events, process
  <1>1. ASSUME NEW s \in Scans, WorkerStep(s) PROVE row'[t] \in {row[t], "NONE"}
    BY <1>1, WorkerEffect, WorkerLocal DEF ScansOK, Effect, Same
  <1>2. ASSUME NEW s \in Scans, LookupStep(s) \/ ClientStep(s) \/ CallStep(s) \/ Recover(s)
        PROVE  row'[t] \in {row[t], "NONE"}
    BY <1>2, OtherEffect, OtherLocal DEF ScansOK, Effect, Same
  <1>3. CASE Recovered \/ Crash \/ UNCHANGED vars
    BY <1>3 DEF Recovered, Crash, vars
  <1> QED
    BY <1>1, <1>2, <1>3 DEF Next, Idle

-----------------------------------------------------------------------------
(* The limits on threads and places.                                         *)

Crawlers == {s \in Scans : Crawling(s)}

LimitsOK ==
    /\ Cardinality(permits) <= MAX_SCAN_WORKERS
    /\ Cardinality(Crawlers) <= MAX_RUNNING

\* A set that gains at most one element, and that only while there is room.
LEMMA RoomForOne ==
  ASSUME NEW S, NEW T, IsFiniteSet(S), NEW x, NEW max \in Nat, T \subseteq S \cup {x},
         Cardinality(S) < max \/ (T \subseteq S /\ Cardinality(S) <= max)
  PROVE  Cardinality(T) <= max
  <1>1. Cardinality(S) \in Nat
    BY FS_CardinalityType
  <1>2. CASE T \subseteq S /\ Cardinality(S) <= max
    <2>1. Cardinality(T) <= Cardinality(S) /\ IsFiniteSet(T)
      BY <1>2, FS_Subset
    <2>2. Cardinality(T) \in Nat
      BY <2>1, FS_CardinalityType
    <2> QED
      BY <1>1, <1>2, <2>1, <2>2
  <1>3. CASE Cardinality(S) < max
    <2>1. /\ IsFiniteSet(S \cup {x})
          /\ Cardinality(S \cup {x}) \in {Cardinality(S), Cardinality(S) + 1}
      BY FS_AddElement
    <2>2. Cardinality(T) <= Cardinality(S \cup {x}) /\ IsFiniteSet(T)
      BY <2>1, FS_Subset
    <2>3. Cardinality(T) \in Nat
      BY <2>2, FS_CardinalityType
    <2> QED
      BY <1>1, <1>3, <2>1, <2>2, <2>3
  <1> QED
    BY <1>2, <1>3

LEMMA LimitsKeep ==
  ASSUME TypeOK, Counts, LimitsOK, NEW s \in Scans, Effect(s), \A t \in Scans \ {s} : Same(t),
         permits' \subseteq Scans
  PROVE  LimitsOK'
  <1>1. IsFiniteSet(permits) /\ IsFiniteSet(Crawlers)
    BY ScansFinite, FS_Subset DEF TypeOK, Crawlers
  <1>2. Cardinality(permits') <= MAX_SCAN_WORKERS
    <2>1. permits' \subseteq permits \cup {s}
      BY DEF Same
    <2>2. s \in permits' => s \in permits \/ SlotFree
      BY DEF Effect
    <2> QED
      BY <1>1, <2>1, <2>2, RoomForOne, LimitsPositive DEF SlotFree, LimitsOK
  <1>3. Cardinality(Crawlers') <= MAX_RUNNING
    <2>1. \A t \in Scans \ {s} : Crawling(t)' => Crawling(t)
      BY DEF Same, Crawling, CrawlPoints
    <2>2. CASE running < MAX_RUNNING
      <3>1. Crawlers \subseteq Places
        BY DEF Crawlers, Crawling, CrawlPoints, Places, PlacePoints
      <3>2. Crawlers' \subseteq Places \cup {s}
        BY <2>1, <3>1 DEF Crawlers
      <3> QED
        BY <2>2, <3>2, Finite, RoomForOne, LimitsPositive DEF Counts
    <2>3. CASE ~(running < MAX_RUNNING)
      <3>1. Crawlers' \subseteq Crawlers
        BY <2>1, <2>3 DEF Crawlers, Effect
      <3> QED
        BY <1>1, <3>1, RoomForOne, LimitsPositive DEF LimitsOK
    <2> QED
      BY <2>2, <2>3
  <1> QED
    BY <1>2, <1>3 DEF LimitsOK

LEMMA JoinKeeps ==
  ASSUME TypeOK, OneScanPerRequest, NEW s \in Scans, Effect(s),
         \A t \in Scans \ {s} : Same(t),
         origin'[s] = origin[s] \/ origin'[s] # "join" \/ NothingToJoin(s)
  PROVE  OneScanPerRequest'
  <1>1. \A t \in Scans \ {s} : Joinable(t)' => Joinable(t)
    BY DEF Joinable, Same
  <1>2. \A t \in Scans \ {s} : origin'[t] = origin[t]
    BY DEF Same
  <1>3. origin[s] = "join" /\ Joinable(s)' => Joinable(s)
    BY DEF Effect
  <1> SUFFICES ASSUME NEW t \in Scans, NEW u \in Scans,
                      origin'[t] = "join", origin'[u] = "join", TargetOf[t] = TargetOf[u],
                      Joinable(t)', Joinable(u)'
               PROVE  t = u
    BY DEF OneScanPerRequest
  <1>4. CASE origin'[s] = origin[s] \/ origin'[s] # "join"
    BY <1>1, <1>2, <1>3, <1>4 DEF OneScanPerRequest
  <1>5. CASE NothingToJoin(s)
    BY <1>1, <1>2, <1>3, <1>5 DEF NothingToJoin, OneScanPerRequest
  <1> QED
    BY <1>4, <1>5

LEMMA WorkersStep ==
  TypeOK /\ Counts /\ ScansOK /\ LimitsOK /\ OneScanPerRequest /\ [Next]_vars
      => (LimitsOK /\ OneScanPerRequest)'
  <1> SUFFICES ASSUME TypeOK, Counts, ScansOK, LimitsOK, OneScanPerRequest, [Next]_vars
               PROVE  LimitsOK' /\ OneScanPerRequest'
    OBVIOUS
  <1>0. permits' \subseteq Scans
    BY TypeStep DEF TypeOK
  <1> USE DEF store, mutexed, crawling, events, process
  <1>1. ASSUME NEW s \in Scans, WorkerStep(s) PROVE LimitsOK' /\ OneScanPerRequest'
    <2>1. Effect(s) /\ \A t \in Scans \ {s} : Same(t)
      BY <1>1, WorkerEffect, WorkerLocal DEF ScansOK
    <2>2. origin' = origin
      BY <1>1 DEF WorkerStep, Spawn, SpawnFailed, Starting, Gate, Collect, SetRunning,
           LoadOptions, Crawl, Acquire, WaveDone, SaveResults, SaveRow, Decide, Finish,
           ReleasePlace, Inspect, GiveUp, Forget, Notify, KeepEnds, Publish
    <2> QED
      BY <1>0, <2>1, <2>2, LimitsKeep, JoinKeeps
  <1>2. ASSUME NEW s \in Scans, LookupStep(s) \/ ClientStep(s) \/ CallStep(s) \/ Recover(s)
        PROVE  LimitsOK' /\ OneScanPerRequest'
    <2>1. Effect(s) /\ \A t \in Scans \ {s} : Same(t)
      BY <1>2, OtherEffect, OtherLocal DEF ScansOK
    <2>2. origin'[s] = origin[s] \/ origin'[s] # "join" \/ NothingToJoin(s)
      <3>1. CASE StartOrJoin(s)
        BY <3>1, JoinCases
      <3>2. CASE Start(s) \/ Run(s) \/ Keep(s)
        BY <3>2 DEF Start, Run, Create, Keep, TypeOK
      <3>3. CASE LookupStep(s) \/ CallStep(s) \/ Recover(s)
        BY <3>3 DEF LookupStep, CallStep, Recover, LookupReturns, LookupPanics, StopWrites,
             DeleteRemoves, DeleteForgets
      <3>4. CASE StopReads(s) \/ DeleteBegins(s) \/ Reconcile(s)
        BY <3>4 DEF StopReads, DeleteBegins, Reconcile
      <3> QED
        BY <1>2, <3>1, <3>2, <3>3, <3>4 DEF ClientStep
    <2> QED
      BY <1>0, <2>1, <2>2, LimitsKeep, JoinKeeps
  <1>3. CASE Recovered
    BY <1>3 DEF Recovered, LimitsOK, Crawlers, Crawling, OneScanPerRequest, Joinable
  <1>4. CASE Crash
    <2>1. permits' = {} /\ Crawlers' = {} /\ \A t \in Scans : ~Joinable(t)'
      BY <1>4 DEF Crash, Crawlers, Crawling, CrawlPoints, Joinable
    <2> QED
      BY <2>1, FS_EmptySet, LimitsPositive DEF LimitsOK, OneScanPerRequest
  <1>5. CASE UNCHANGED vars
    BY <1>5 DEF vars, LimitsOK, Crawlers, Crawling, OneScanPerRequest, Joinable
  <1> QED
    BY <1>1, <1>2, <1>3, <1>4, <1>5 DEF Next, Idle

LEMMA WorkersInit == Init => LimitsOK /\ OneScanPerRequest
  <1> SUFFICES ASSUME Init PROVE LimitsOK /\ OneScanPerRequest
    OBVIOUS
  <1>1. permits = {} /\ Crawlers = {}
    BY DEF Init, Crawlers, Crawling, CrawlPoints
  <1>2. OneScanPerRequest
    BY DEF Init, OneScanPerRequest
  <1> QED
    BY <1>1, <1>2, FS_EmptySet, LimitsPositive DEF LimitsOK

\* The inductive invariant of the service.
Inv == TypeOK /\ Counts /\ ScansOK /\ LimitsOK /\ OneScanPerRequest

THEOREM ServiceInv == Spec => []Inv
  <1>1. Init => Inv
    BY InitType, InitCounts, ScansInit, WorkersInit DEF Inv
  <1>2. Inv /\ [Next]_vars => Inv'
    BY TypeStep, CountStep, ScansStep, WorkersStep DEF Inv
  <1> QED
    BY <1>1, <1>2, PTL DEF Spec

\* No more scan threads than slots, no more scans looking up than places, and no id
\* to join without a worker, for every environment: a spawn that fails, a lookup that
\* panics and a stop that lets a waiter through the gate included.
THEOREM WorkersAreKept == Spec => []WorkersKept
  <1>1. Inv => WorkersKept
    <2> SUFFICES ASSUME Inv PROVE WorkersKept
      OBVIOUS
    <2> DEFINE W == {s \in Scans : origin[s] \in {"start", "join"} /\ pc[s] \in WorkerPoints}
               L == {s \in Scans : pc[s] = "wave"}
    <2>1. IsFiniteSet(permits) /\ IsFiniteSet(Crawlers)
      BY ScansFinite, FS_Subset DEF Inv, TypeOK, Crawlers
    <2>2. W \subseteq permits
      BY DEF Inv, ScansOK, ScanOK, PointOK
    <2>3. L \subseteq Crawlers
      BY DEF Crawlers, Crawling, CrawlPoints
    <2>4. Cardinality(W) <= MAX_SCAN_WORKERS
      BY <2>1, <2>2, RoomForOne, LimitsPositive DEF Inv, LimitsOK
    <2>5. Cardinality(L) <= MAX_RUNNING
      BY <2>1, <2>3, RoomForOne, LimitsPositive DEF Inv, LimitsOK
    <2>6. JoinableHasWorker
      BY DEF Inv, ScansOK, ScanOK, PointOK, OwnedPoints, JoinableHasWorker, Joinable
    <2> QED
      BY <2>4, <2>5, <2>6 DEF WorkersKept, WorkersBounded, LookupsBounded
  <1> QED
    BY <1>1, ServiceInv, PTL

\* Whatever fails, no two scans of start_or_join requests for the same target, kind and
\* options can be joined at once: a scan that could not be joined for a moment, because
\* a status write failed, never can be again.
THEOREM RequestsShareOneScan == Spec => []OneScanPerRequest
  <1>1. Inv => OneScanPerRequest
    BY DEF Inv
  <1> QED
    BY <1>1, ServiceInv, PTL

\* If no spawn fails, the last event of a scan whose thread is done is the status its
\* row ended with, lookups that panic, faults and restarts included.
THEOREM LastEventsAreRows ==
  ASSUME NoSpawnFailure
  PROVE  Spec => []LastEventIsRow
  <1>1. Inv => LastEventIsRow
    BY DEF Inv, ScansOK, ScanOK, EventOK, LastEventIsRow
  <1> QED
    BY <1>1, ServiceInv, PTL

\* If no spawn fails and no lookup panics, a row left active by a thread that is gone
\* has its failure recorded.
THEOREM GivenUpRowsAreReported ==
  ASSUME NoSpawnFailure, NoPanic
  PROVE  Spec => []GivenUpRowReported
  <1>1. Inv => GivenUpRowReported
    BY DEF Inv, ScansOK, ScanOK, ReportOK, TailPoints, GivenUpRowReported
  <1> QED
    BY <1>1, ServiceInv, PTL

\* If no spawn fails, a scan that has ended keeps its status until it is deleted: the
\* race of a stop() with a failing spawn is the only way a row loses its end.
THEOREM EndsAreFinal ==
  ASSUME NoSpawnFailure
  PROVE  Spec => EndedIsFinal
  <1>1. Inv /\ [Next]_vars =>
          [\A s \in Scans : row[s] \in EndedStatus => row'[s] \in {row[s], "NONE"}]_row
    BY EndedStep DEF Inv
  <1> QED
    BY <1>1, ServiceInv, PTL DEF Spec, EndedIsFinal

\* If no spawn fails, the service implements ScanLife: through workers, stops, panics,
\* faults, crashes, recovery and deletion, a client sees nothing but a scan's life.
THEOREM ServiceImplementsLife ==
  ASSUME NoSpawnFailure
  PROVE  Spec => ImplementsLife
  <1>1. Init => Life!Init
    BY LifeInit
  <1>2. Inv /\ [Next]_vars => [Life!Next]_<<lifeMap, savedMap>>
    BY LifeStep DEF Inv
  <1> QED
    BY <1>1, <1>2, ServiceInv, PTL DEF Spec, ImplementsLife, Life!Spec, lifeMap, savedMap
=============================================================================
