-------------------------- MODULE GraphExecProofs --------------------------
(***************************************************************************)
(* Runs of any task graph under any policy, through any number of crashes   *)
(* and resumes: dependencies come first, limits hold, the engine accepts    *)
(* its own checkpoints and loses no saved success, and the termination and  *)
(* the spacing of a rate group are as the run says.                         *)
(***************************************************************************)
EXTENDS GraphExec, FiniteSetTheorems, SequenceTheorems, TLAPS

-----------------------------------------------------------------------------
(* The inductive invariant. *)

\* The records of a run or of a checkpoint: success takes an attempt, every dependency
\* and an output, which nothing else has.
RecordsOK(records) ==
    \A t \in Tasks :
        /\ records[t].attempts <= MaxRetries[t] + 1
        /\ records[t].state = "Succeeded" <=> records[t].output # 0
        /\ records[t].state = "Succeeded" =>
             records[t].attempts > 0 /\ \A d \in Deps[t] : records[d].state = "Succeeded"

\* A failure no resume takes back.
Settled(r) == r.state \in Terminal \ {"Succeeded"} /\ (r.state = "Failed" => ~r.retryable)

\* A termination that says why has a record that shows it.
Told(records, end) ==
    /\ end \in {"Cancelled", "TimedOut"} => \E t \in Tasks : records[t].state = end
    /\ end = "ResourceLimit" => \E t \in Tasks : Settled(records[t])

\* The limits on what was charged and kept.
Within(records, units) ==
    /\ units <= max_total_resource_units
    /\ Total(Outputs(records), Tasks) <= MAX_RUN_OUTPUT

RunOK ==
    /\ RecordsOK(rec) /\ Told(rec, termination) /\ Within(rec, consumed)
    /\ retained = Total(Outputs(rec), Tasks)

\* The last checkpoint is as good, and what it has as a success is still one.
SavedOK ==
    /\ RecordsOK(saved.rec) /\ Told(saved.rec, saved.termination)
    /\ Within(saved.rec, saved.consumed)
    /\ Total(Units, Attempted(saved.rec)) <= saved.consumed
    /\ \A t \in Tasks : saved.rec[t].state = "Succeeded" => rec[t] = saved.rec[t]

\* Every attempt is paid for, in a wave before it is made.
PaidOK ==
    /\ phase \notin {"wave", "down"} => Total(Units, Attempted(rec)) <= consumed
    /\ phase = "wave" => Total(Units, Attempted(rec) \cup Wave) <= consumed

Apart(t, u) ==
    /\ Resources[t] \cap Resources[u] = {}
    /\ RateKey[t] # NoKey => RateKey[t] # RateKey[u]

\* A wave holds each task once, and no two that must not run at once.
WaveOK ==
    /\ phase \notin {"select", "wave", "down"} => selected = <<>>
    /\ phase \in {"select", "wave"} =>
         /\ \A i, j \in 1..Len(selected) : selected[i] = selected[j] => i = j
         /\ \A t, u \in Wave : t # u => Apart(t, u)

\* What the scan has chosen or ruled out lies before the cursor, and may run.
SelectOK ==
    phase = "select" =>
        /\ waveCost = Total(Units, Wave) /\ consumed + waveCost <= max_total_resource_units
        /\ \A t \in Wave \cup overBudget \cup overInput :
             Ready(t) /\ \E i \in 1..(cursor - 1) : t = Order[i]
        /\ Wave \cap (overBudget \cup overInput) = {}
        /\ crashes = 0 => \A t \in Wave : RateKey[t] \notin cooling

\* A job runs for a task whose dependencies succeeded, within its attempts.
JobOK(t) ==
    /\ job[t].at = "none" => job[t] = NoJob
    /\ job[t].at # "none" => Ready(t)
    /\ job[t].at \in {"ready", "running"} => job[t].record.state = "Pending"
    /\ job[t].at = "running" => job[t].record.attempts > 0 /\ ~job[t].record.retryable
    /\ job[t].at = "done" => job[t].record.state # "Pending"
    /\ job[t].record.state = "Succeeded" <=> job[t].record.output # 0
    /\ job[t].record.state = "Succeeded" =>
         job[t].record.attempts > 0 /\ ~job[t].record.retryable
    /\ Attempts(t) <= MaxRetries[t] + 1

\* The jobs are those of the wave, and are apart.
JobsOK ==
    /\ phase # "down" => \A t \in Tasks : job[t].at # "none" <=> phase = "wave" /\ t \in Wave
    /\ \A t, u \in Tasks : t # u /\ job[t].at # "none" /\ job[u].at # "none" => Apart(t, u)

\* In the first process, a start that last_rate_start has not is one of a job at hand.
CoolOK ==
    crashes = 0 =>
        /\ phase # "down"
        /\ \A k \in cooling \ remembered :
             \E t \in Tasks : RateKey[t] = k /\ job[t].record.attempts > 0
        /\ \A t \in Tasks :
             job[t].at = "ready" /\ job[t].record.attempts = 0 => RateKey[t] \notin cooling

\* A run that ends has settled every task.
EndOK ==
    /\ phase \in {"finish", "final", "done"} => AllTerminal
    /\ phase \in {"final", "done"} /\ termination = "Completed" =>
         \A t \in Tasks : Succeeded(t)

Inv ==
    /\ TypeOK /\ RunOK /\ SavedOK /\ PaidOK /\ WaveOK /\ SelectOK
    /\ \A t \in Tasks : JobOK(t)
    /\ JobsOK /\ CoolOK /\ EndOK

-----------------------------------------------------------------------------
(* Sums.  A total is the size of a pile with size[t] elements for each t.    *)

Pile(size, ts) == UNION {{t} \X (1..size[t]) : t \in ts}

LEMMA PileFinite ==
    ASSUME NEW size \in [Tasks -> Nat], NEW ts \in SUBSET Tasks
    PROVE  /\ IsFiniteSet(Pile(size, ts))
           /\ Total(size, ts) = Cardinality(Pile(size, ts)) /\ Total(size, ts) \in Nat
<1> DEFINE parts == {{t} \X (1..size[t]) : t \in ts}
           part == [t \in ts |-> {t} \X (1..size[t])]
<1>1. IsFiniteSet(ts)
  BY FS_Subset, GraphValid
<1>2. part \in Surjection(ts, parts)
  BY DEF Surjection
<1>3. IsFiniteSet(parts)
  <2> HIDE DEF part, parts
  <2>1. QED BY <1>1, <1>2, FS_Surjection
<1>4. ASSUME NEW t \in ts PROVE IsFiniteSet({t} \X (1..size[t]))
  <2>1. IsFiniteSet(1..size[t])
    BY FS_Interval
  <2>2. QED BY <2>1, FS_Singleton, FS_Product
<1>5. IsFiniteSet(UNION parts)
  BY <1>3, <1>4, FS_UNION
<1>6. Pile(size, ts) = UNION parts
  BY DEF Pile
<1>7. Total(size, ts) = Cardinality(Pile(size, ts))
  BY DEF Total, Pile
<1>8. QED BY <1>5, <1>6, <1>7, FS_CardinalityType

LEMMA TotalAdd ==
    ASSUME NEW size \in [Tasks -> Nat], NEW ts \in SUBSET Tasks, NEW t \in Tasks, t \notin ts
    PROVE  Total(size, ts \cup {t}) = Total(size, ts) + size[t]
<1> DEFINE own == {t} \X (1..size[t])
<1>1. IsFiniteSet(own) /\ Cardinality(own) = size[t]
  <2>1. IsFiniteSet(1..size[t]) /\ Cardinality(1..size[t]) = size[t]
    BY FS_Interval
  <2>2. IsFiniteSet({t}) /\ Cardinality({t}) = 1
    BY FS_Singleton
  <2>3. IsFiniteSet(own) /\ Cardinality(own) = 1 * size[t]
    BY <2>1, <2>2, FS_Product
  <2>4. QED BY <2>3
<1>2. Pile(size, ts \cup {t}) = Pile(size, ts) \cup own
  BY DEF Pile
<1>3. Pile(size, ts) \cap own = {}
  BY DEF Pile
<1> HIDE DEF own
<1>4. Cardinality(Pile(size, ts) \cup own) = Total(size, ts) + size[t] - 0
  <2>1. IsFiniteSet(Pile(size, ts)) /\ Total(size, ts) = Cardinality(Pile(size, ts))
    BY PileFinite
  <2>2. Cardinality(Pile(size, ts) \cup own)
          = Cardinality(Pile(size, ts)) + Cardinality(own) - Cardinality(Pile(size, ts) \cap own)
    BY <1>1, <2>1, FS_Union
  <2>3. Cardinality(Pile(size, ts) \cap own) = 0
    BY <1>3, FS_EmptySet
  <2>4. QED BY <1>1, <2>1, <2>2, <2>3
<1>5. ts \cup {t} \in SUBSET Tasks
  OBVIOUS
<1>6. Total(size, ts \cup {t}) = Cardinality(Pile(size, ts \cup {t}))
  BY <1>5, PileFinite
<1>7. Total(size, ts) \in Nat /\ size[t] \in Nat
  BY PileFinite
<1>8. Total(size, ts \cup {t}) = Total(size, ts) + size[t] - 0
  BY <1>2, <1>4, <1>6, Zenon
<1>9. QED BY <1>7, <1>8

LEMMA TotalMonotone ==
    ASSUME NEW size \in [Tasks -> Nat], NEW ts \in SUBSET Tasks, NEW us \in SUBSET ts
    PROVE  Total(size, us) <= Total(size, ts)
<1>1. us \in SUBSET Tasks
  OBVIOUS
<1>2. Pile(size, us) \in SUBSET Pile(size, ts)
  BY DEF Pile
<1>3. Cardinality(Pile(size, us)) <= Cardinality(Pile(size, ts))
  BY <1>2, PileFinite, FS_Subset
<1>4. QED BY <1>1, <1>3, PileFinite

LEMMA TotalUnion ==
    ASSUME NEW size \in [Tasks -> Nat], NEW ts \in SUBSET Tasks, NEW us \in SUBSET Tasks
    PROVE  Total(size, ts \cup us) <= Total(size, ts) + Total(size, us)
<1>1. Pile(size, ts \cup us) = Pile(size, ts) \cup Pile(size, us)
  BY DEF Pile
<1>2. ts \cup us \in SUBSET Tasks
  OBVIOUS
<1>3. IsFiniteSet(Pile(size, ts) \cap Pile(size, us))
  BY PileFinite, FS_Intersection
<1>4. Cardinality(Pile(size, ts) \cap Pile(size, us)) \in Nat
  BY <1>3, FS_CardinalityType
<1>5. Total(size, ts \cup us) = Cardinality(Pile(size, ts) \cup Pile(size, us))
  BY <1>1, <1>2, PileFinite
<1>6. Total(size, ts \cup us)
        = Total(size, ts) + Total(size, us) - Cardinality(Pile(size, ts) \cap Pile(size, us))
  BY <1>5, PileFinite, FS_Union
<1>7. QED BY <1>4, <1>6, PileFinite

LEMMA TotalUpdate ==
    ASSUME NEW size \in [Tasks -> Nat], NEW new \in [Tasks -> Nat], NEW t \in Tasks,
           \A u \in Tasks \ {t} : new[u] = size[u], size[t] = 0
    PROVE  Total(new, Tasks) = Total(size, Tasks) + new[t]
<1> DEFINE others == Tasks \ {t}
<1>1. others \in SUBSET Tasks /\ t \notin others /\ others \cup {t} = Tasks
  OBVIOUS
<1>2. Pile(new, others) = Pile(size, others)
  BY DEF Pile
<1> HIDE DEF others
<1>3. Total(new, others) = Total(size, others)
  BY <1>1, <1>2, PileFinite
<1>4. /\ Total(new, Tasks) = Total(new, others) + new[t]
      /\ Total(size, Tasks) = Total(size, others) + size[t]
  BY <1>1, TotalAdd
<1>5. QED BY <1>1, <1>3, <1>4, PileFinite

LEMMA TotalNone ==
    ASSUME NEW size \in [Tasks -> Nat], NEW ts \in SUBSET Tasks, \A t \in ts : size[t] = 0
    PROVE  Total(size, ts) = 0
<1>1. Pile(size, ts) = {}
  BY DEF Pile
<1>2. QED BY <1>1, PileFinite, FS_EmptySet

-----------------------------------------------------------------------------
(* Records. *)

LEMMA UnitsAreSizes == Units \in [Tasks -> Nat]
BY GraphValid

LEMMA OutputsAreSizes ==
    ASSUME NEW records \in [Tasks -> Record]
    PROVE  Outputs(records) \in [Tasks -> Nat] /\ Attempted(records) \in SUBSET Tasks
BY PolicyValid DEF Outputs, Attempted, Record

LEMMA ConstantFacts ==
    /\ {max_concurrency, max_total_resource_units, MAX_RUN_OUTPUT, MaxOutput} \subseteq Nat
    /\ Len(Order) \in Nat /\ \A i \in 1..Len(Order) : Order[i] \in Tasks
    /\ \A t \in Tasks : MaxRetries[t] \in Nat /\ Units[t] \in Nat /\ Deps[t] \subseteq Tasks
    /\ \A t \in Tasks : RateKey[t] # NoKey => RateKey[t] \in Keys
    /\ NoKey \notin Keys
<1>1. Len(Order) \in Nat /\ \A i \in 1..Len(Order) : Order[i] \in Tasks
  BY GraphValid, ElementOfSeq, LenProperties
<1>2. QED BY <1>1, GraphValid, PolicyValid DEF Keys

\* Ending pending tasks touches no other record, and neither outputs nor attempts.
LEMMA EndPendingIs ==
    ASSUME NEW records \in [Tasks -> Record], RecordsOK(records), NEW ts,
           NEW why \in {"Blocked", "Cancelled", "TimedOut"},
           NEW new, new = EndPending(records, ts, why)
    PROVE  /\ new \in [Tasks -> Record] /\ RecordsOK(new)
           /\ \A t \in Tasks :
                /\ new[t].attempts = records[t].attempts /\ new[t].output = records[t].output
                /\ records[t].state # "Pending" \/ t \notin ts => new[t] = records[t]
                /\ records[t].state = "Pending" /\ t \in ts =>
                     new[t].state = why /\ new[t].retryable = records[t].retryable
                /\ new[t].state = "Succeeded" <=> records[t].state = "Succeeded"
           /\ Outputs(new) = Outputs(records) /\ Attempted(new) = Attempted(records)
           /\ \A end : Told(records, end) => Told(new, end)
<1>1. /\ new \in [Tasks -> Record]
      /\ \A t \in Tasks :
           /\ new[t].attempts = records[t].attempts /\ new[t].output = records[t].output
           /\ records[t].state # "Pending" \/ t \notin ts => new[t] = records[t]
           /\ records[t].state = "Pending" /\ t \in ts =>
                new[t].state = why /\ new[t].retryable = records[t].retryable
  BY DEF EndPending, Record, TaskState
<1>2. \A t \in Tasks : new[t].state = "Succeeded" <=> records[t].state = "Succeeded"
  BY <1>1
<1>3. RecordsOK(new)
  <2> SUFFICES ASSUME NEW t \in Tasks
               PROVE  /\ new[t].attempts <= MaxRetries[t] + 1
                      /\ new[t].state = "Succeeded" <=> new[t].output # 0
                      /\ new[t].state = "Succeeded" =>
                           /\ new[t].attempts > 0
                           /\ \A d \in Deps[t] : new[d].state = "Succeeded"
    BY DEF RecordsOK
  <2>1. /\ records[t].attempts <= MaxRetries[t] + 1
        /\ records[t].state = "Succeeded" <=> records[t].output # 0
        /\ records[t].state = "Succeeded" =>
             /\ records[t].attempts > 0
             /\ \A d \in Deps[t] : records[d].state = "Succeeded"
    BY DEF RecordsOK
  <2>2. \A d \in Deps[t] : new[d].state = "Succeeded" <=> records[d].state = "Succeeded"
    BY <1>2, ConstantFacts
  <2>3. /\ new[t].attempts = records[t].attempts /\ new[t].output = records[t].output
        /\ new[t].state = "Succeeded" <=> records[t].state = "Succeeded"
    BY <1>1, <1>2
  <2>4. QED BY <2>1, <2>2, <2>3
<1>4. Outputs(new) = Outputs(records) /\ Attempted(new) = Attempted(records)
  BY <1>1 DEF Outputs, Attempted
<1>5. ASSUME NEW end, Told(records, end) PROVE Told(new, end)
  <2>1. ASSUME NEW t \in Tasks, records[t].state # "Pending" PROVE new[t] = records[t]
    BY <1>1, <2>1
  <2>2. \A t \in Tasks : records[t].state \in {"Cancelled", "TimedOut"} => new[t] = records[t]
    BY <2>1
  <2>3. \A t \in Tasks : Settled(records[t]) => new[t] = records[t]
    BY <2>1 DEF Settled, Terminal
  <2>4. QED BY <1>5, <2>2, <2>3 DEF Told
<1>6. QED BY <1>1, <1>2, <1>3, <1>4, <1>5

LEMMA EndNone ==
    ASSUME NEW records \in [Tasks -> Record], NEW why
    PROVE  EndPending(records, {}, why) = records
BY DEF EndPending

LEMMA FreshIs ==
    /\ Fresh \in [rec : [Tasks -> Record], consumed : Nat, termination : RunTermination]
    /\ RecordsOK(Fresh.rec) /\ Told(Fresh.rec, "Completed") /\ Within(Fresh.rec, 0)
    /\ Total(Outputs(Fresh.rec), Tasks) = 0 /\ Total(Units, Attempted(Fresh.rec)) = 0
    /\ NewRecord \in Record /\ NoJob \in Job
<1>1. NewRecord \in Record
  BY PolicyValid DEF NewRecord, Record, TaskState
<1>2. /\ Fresh.rec \in [Tasks -> Record] /\ \A t \in Tasks : Fresh.rec[t] = NewRecord
      /\ Fresh.consumed = 0 /\ Fresh.termination = "Completed"
  BY <1>1 DEF Fresh
<1>3. Fresh \in [rec : [Tasks -> Record], consumed : Nat, termination : RunTermination]
  BY <1>1 DEF Fresh, RunTermination
<1>4. RecordsOK(Fresh.rec) /\ Told(Fresh.rec, "Completed")
  BY <1>2, ConstantFacts DEF RecordsOK, Told, NewRecord
<1>5. \A t \in Tasks : Outputs(Fresh.rec)[t] = 0
  BY <1>2 DEF Outputs, NewRecord
<1>6. Attempted(Fresh.rec) = {}
  BY <1>2 DEF Attempted, NewRecord
<1>7. Total(Outputs(Fresh.rec), Tasks) = 0 /\ Total(Units, Attempted(Fresh.rec)) = 0
  BY <1>2, <1>5, <1>6, OutputsAreSizes, UnitsAreSizes, TotalNone
<1>8. Within(Fresh.rec, 0)
  BY <1>7, ConstantFacts DEF Within
<1>9. NoJob \in Job
  BY <1>1 DEF NoJob, Job
<1>10. QED BY <1>1, <1>3, <1>4, <1>7, <1>8, <1>9

-----------------------------------------------------------------------------

LEMMA InitInv == Init => Inv
<1> SUFFICES ASSUME Init PROVE Inv
  OBVIOUS
<1>1. TypeOK
  <2>1. /\ rec \in [Tasks -> Record]
        /\ saved \in [rec : [Tasks -> Record], consumed : Nat, termination : RunTermination]
    BY FreshIs DEF Init
  <2>2. job \in [Tasks -> Job]
    BY FreshIs DEF Init
  <2>3. cursor \in 1..(Len(Order) + 1) /\ crashes \in 0..MaxCrashes
    BY ConstantFacts, PolicyValid DEF Init
  <2>4. selected \in Seq(Tasks) /\ termination \in RunTermination
    BY EmptySeq DEF Init, RunTermination
  <2>5. QED BY <2>1, <2>2, <2>3, <2>4 DEF Init, TypeOK
<1>2. RunOK
  BY FreshIs DEF Init, RunOK
<1>3. SavedOK
  <2>1. Fresh.consumed = 0 /\ Fresh.termination = "Completed"
    BY DEF Fresh
  <2>2. Total(Units, Attempted(Fresh.rec)) <= 0
    BY FreshIs
  <2>3. QED BY <2>1, <2>2, FreshIs DEF Init, SavedOK
<1>4. PaidOK /\ WaveOK /\ SelectOK
  BY FreshIs DEF Init, PaidOK, WaveOK, SelectOK
<1>5. \A t \in Tasks : JobOK(t)
  BY ConstantFacts DEF Init, JobOK, NoJob, NewRecord, Attempts, Fresh
<1>6. JobsOK /\ CoolOK /\ EndOK
  BY DEF Init, JobsOK, CoolOK, EndOK, NoJob
<1>7. QED BY <1>1, <1>2, <1>3, <1>4, <1>5, <1>6 DEF Inv

-----------------------------------------------------------------------------
(* Steps of the scheduler that start, run and reduce no wave.                *)

\* Between waves there are no jobs.
LEMMA NoJobsBetweenWaves ==
    ASSUME Inv, phase \notin {"wave", "down"}, NEW t \in Tasks
    PROVE  job[t] = NoJob
<1>1. job[t].at = "none"
  BY DEF Inv, JobsOK
<1>2. JobOK(t)
  BY DEF Inv
<1>3. QED BY <1>1, <1>2 DEF JobOK

LEMMA LoopKeeps ==
    ASSUME Inv, phase \notin {"wave", "down"},
           phase' \in {"top", "sweep", "select", "wait", "checkpoint", "finish", "final", "done"},
           NEW ts, NEW why \in {"Blocked", "Cancelled", "TimedOut"},
           rec' = EndPending(rec, ts, why),
           selected' = <<>>,
           cursor' \in 1..(Len(Order) + 1), changed' \in BOOLEAN, waveCost' \in Nat,
           overBudget' \subseteq Tasks, overInput' \subseteq Tasks, waitFor' \subseteq Keys,
           termination' \in RunTermination, Told(rec', termination'),
           UNCHANGED <<consumed, retained, job, cooling, remembered, world>>,
           \/ UNCHANGED disk
           \/ /\ saved' = [rec |-> rec', consumed |-> consumed', termination |-> termination']
              /\ savedRate' = remembered,
           phase' = "select" => waveCost' = 0 /\ overBudget' = {} /\ overInput' = {},
           EndOK'
    PROVE  Inv'
<1>1. /\ rec \in [Tasks -> Record] /\ RecordsOK(rec) /\ Within(rec, consumed)
      /\ retained = Total(Outputs(rec), Tasks) /\ consumed \in Nat
      /\ Total(Units, Attempted(rec)) <= consumed
  BY DEF Inv, TypeOK, RunOK, PaidOK
<1>2. /\ rec' \in [Tasks -> Record] /\ RecordsOK(rec')
      /\ \A t \in Tasks :
           /\ rec'[t].attempts = rec[t].attempts /\ rec'[t].output = rec[t].output
           /\ rec[t].state # "Pending" => rec'[t] = rec[t]
      /\ Outputs(rec') = Outputs(rec) /\ Attempted(rec') = Attempted(rec)
  BY <1>1, EndPendingIs
<1>3. TypeOK'
  <2>1. saved' \in [rec : [Tasks -> Record], consumed : Nat, termination : RunTermination]
    BY <1>1, <1>2 DEF Inv, TypeOK, disk
  <2>2. savedRate' \subseteq Keys
    BY DEF Inv, TypeOK, disk
  <2>3. selected' \in Seq(Tasks)
    BY EmptySeq
  <2>4. QED BY <1>2, <2>1, <2>2, <2>3 DEF Inv, TypeOK, world
<1>4. RunOK'
  BY <1>1, <1>2 DEF RunOK, Within
<1>5. PaidOK'
  BY <1>1, <1>2 DEF PaidOK
<1>6. SavedOK'
  <2>1. CASE UNCHANGED disk
    <3>1. \A t \in Tasks : saved.rec[t].state = "Succeeded" => rec'[t] = saved.rec[t]
      BY <1>2 DEF Inv, SavedOK
    <3>2. QED BY <2>1, <3>1 DEF Inv, SavedOK, disk
  <2>2. CASE saved' = [rec |-> rec', consumed |-> consumed', termination |-> termination']
    <3>1. saved'.rec = rec' /\ saved'.consumed = consumed /\ saved'.termination = termination'
      BY <2>2
    <3>2. Within(rec', consumed) /\ Total(Units, Attempted(rec')) <= consumed
      BY <1>1, <1>2 DEF Within
    <3>3. QED BY <1>2, <3>1, <3>2 DEF SavedOK
  <2>3. QED BY <2>1, <2>2
<1>7. Wave' = {}
  BY DEF Wave
<1>8. WaveOK'
  <2>1. Len(selected') = 0
    BY EmptySeq
  <2>2. QED BY <1>7, <2>1 DEF WaveOK
<1>9. SelectOK'
  <2>1. Total(Units, {}) = 0
    BY UnitsAreSizes, TotalNone
  <2>2. consumed + 0 <= max_total_resource_units
    BY <1>1 DEF Within
  <2>3. QED BY <1>7, <2>1, <2>2 DEF SelectOK
<1>10. \A t \in Tasks : JobOK(t)'
  <2> SUFFICES ASSUME NEW t \in Tasks PROVE JobOK(t)'
    OBVIOUS
  <2>1. job'[t] = NoJob
    BY NoJobsBetweenWaves
  <2>2. rec'[t].attempts + 0 <= MaxRetries[t] + 1
    BY <1>2, ConstantFacts DEF RecordsOK, Record
  <2>3. QED BY <2>1, <2>2 DEF JobOK, NoJob, NewRecord, Attempts
<1>11. JobsOK'
  <2>1. \A t \in Tasks : job'[t].at = "none"
    BY NoJobsBetweenWaves DEF NoJob
  <2>2. QED BY <2>1 DEF JobsOK
<1>12. CoolOK'
  BY DEF Inv, CoolOK, world
<1>13. QED BY <1>3, <1>4, <1>5, <1>6, <1>8, <1>9, <1>10, <1>11, <1>12 DEF Inv

\* The same for a step that leaves the records alone.
LEMMA QuietKeeps ==
    ASSUME Inv, phase \notin {"wave", "down"},
           phase' \in {"top", "sweep", "select", "wait", "checkpoint", "finish", "final", "done"},
           selected' = <<>>,
           cursor' \in 1..(Len(Order) + 1), changed' \in BOOLEAN, waveCost' \in Nat,
           overBudget' \subseteq Tasks, overInput' \subseteq Tasks, waitFor' \subseteq Keys,
           termination' \in RunTermination, Told(rec, termination'),
           UNCHANGED <<rec, consumed, retained, job, cooling, remembered, world>>,
           \/ UNCHANGED disk
           \/ /\ saved' = [rec |-> rec', consumed |-> consumed', termination |-> termination']
              /\ savedRate' = remembered,
           phase' = "select" => waveCost' = 0 /\ overBudget' = {} /\ overInput' = {},
           EndOK'
    PROVE  Inv'
<1>1. rec' = EndPending(rec, {}, "Blocked")
  BY EndNone DEF Inv, TypeOK
<1>2. Told(rec', termination')
  OBVIOUS
<1>3. QED BY <1>1, <1>2, LoopKeeps

LEMMA TopDoneInv == ASSUME Inv, TopDone PROVE Inv'
<1>1. EndOK'
  BY DEF TopDone, EndOK, AllTerminal, Pending, run
<1>2. selected = <<>> /\ Told(rec, termination)
  BY DEF TopDone, Inv, WaveOK, RunOK
<1>3. QED
  BY <1>1, <1>2, QuietKeeps DEF TopDone, Inv, TypeOK, loop, run

LEMMA TopStoppedInv == ASSUME Inv, TopStopped PROVE Inv'
<1> DEFINE why == IF cancelled THEN "Cancelled" ELSE "TimedOut"
<1>1. /\ rec' = EndPending(rec, Tasks, why) /\ termination' = why
      /\ phase = "top" /\ phase' = "finish" /\ ~AllTerminal
      /\ UNCHANGED <<loop, consumed, retained, job, cooling, remembered, disk, world>>
  BY DEF TopStopped
<1>2. why \in {"Cancelled", "TimedOut"}
  OBVIOUS
<1> HIDE DEF why
<1>3. rec \in [Tasks -> Record] /\ RecordsOK(rec)
  BY DEF Inv, TypeOK, RunOK
<1>4. \A t \in Tasks : rec'[t].state = IF Pending(t) THEN why ELSE rec[t].state
  BY <1>1, <1>2, <1>3, EndPendingIs DEF Pending
<1>5. Told(rec', why)
  <2>1. PICK t \in Tasks : Pending(t)
    BY <1>1 DEF AllTerminal
  <2>2. rec'[t].state = why
    BY <1>4, <2>1
  <2>3. QED BY <1>2, <2>2 DEF Told
<1>6. EndOK'
  BY <1>1, <1>2, <1>4 DEF EndOK, AllTerminal, Pending
<1>7. selected = <<>>
  BY <1>1 DEF Inv, WaveOK
<1>8. why \in RunTermination /\ why \in {"Blocked", "Cancelled", "TimedOut"}
  BY <1>2 DEF RunTermination
<1>9. QED
  BY <1>1, <1>5, <1>6, <1>7, <1>8, LoopKeeps DEF Inv, TypeOK, loop

LEMMA TopSweepInv == ASSUME Inv, TopSweep PROVE Inv'
<1>1. EndOK'
  BY DEF TopSweep, EndOK
<1>2. selected = <<>> /\ Told(rec, termination)
  BY DEF TopSweep, Inv, WaveOK, RunOK
<1>3. 1 \in 1..(Len(Order) + 1)
  BY ConstantFacts
<1>4. QED
  BY <1>1, <1>2, <1>3, QuietKeeps DEF TopSweep, Inv, TypeOK, run

LEMMA SweepInv == ASSUME Inv, Sweep PROVE Inv'
<1> DEFINE t == Order[cursor]
           blocked == Pending(t) /\ \E d \in Deps[t] : Failing(d)
           ts == IF blocked THEN {t} ELSE {}
<1>1. rec' = EndPending(rec, ts, "Blocked")
  BY EndNone DEF Sweep, Inv, TypeOK
<1>2. changed' \in BOOLEAN
  BY DEF Sweep, Inv, TypeOK
<1>3. /\ phase = "sweep" /\ cursor <= Len(Order) /\ cursor' = cursor + 1
      /\ UNCHANGED <<phase, selected, waveCost, overBudget, overInput, waitFor, consumed,
                     retained, termination, job, cooling, remembered, disk, world>>
  BY DEF Sweep
<1> HIDE DEF ts, blocked, t
<1>4. selected = <<>> /\ Told(rec, termination) /\ RecordsOK(rec) /\ rec \in [Tasks -> Record]
  BY <1>3 DEF Inv, WaveOK, RunOK, TypeOK
<1>5. Told(rec', termination)
  BY <1>1, <1>4, EndPendingIs
<1>6. EndOK'
  BY <1>3 DEF EndOK
<1>7. cursor' \in 1..(Len(Order) + 1)
  BY <1>3, ConstantFacts DEF Inv, TypeOK
<1>8. QED
  BY <1>1, <1>2, <1>3, <1>4, <1>5, <1>6, <1>7, LoopKeeps DEF Inv, TypeOK

LEMMA SweepEndsInv == ASSUME Inv, SweepEnds PROVE Inv'
<1>1. EndOK'
  BY DEF SweepEnds, EndOK
<1>2. selected = <<>> /\ Told(rec, termination)
  BY DEF SweepEnds, Inv, WaveOK, RunOK
<1>3. CASE changed /\ phase' = "top" /\ UNCHANGED loop
  BY <1>1, <1>2, <1>3, QuietKeeps DEF SweepEnds, Inv, TypeOK, loop, run
<1>4. CASE /\ phase' = "select" /\ cursor' = 1 /\ selected' = <<>> /\ waveCost' = 0
           /\ overBudget' = {} /\ overInput' = {} /\ waitFor' = {} /\ UNCHANGED changed
  <2>1. 1 \in 1..(Len(Order) + 1)
    BY ConstantFacts
  <2>2. QED
    BY <1>1, <1>2, <1>4, <2>1, QuietKeeps DEF SweepEnds, Inv, TypeOK, run
<1>5. QED BY <1>3, <1>4 DEF SweepEnds

\* After the scan: the records and the termination, with the tasks over a budget blocked.
LEMMA AfterBudgetTold ==
    ASSUME Inv, phase = "select"
    PROVE  /\ BudgetBlocked \in [Tasks -> Record] /\ RecordsOK(BudgetBlocked)
           /\ AfterBudget \in RunTermination /\ Told(BudgetBlocked, AfterBudget)
<1>1. rec \in [Tasks -> Record] /\ RecordsOK(rec) /\ Told(rec, termination)
  BY DEF Inv, TypeOK, RunOK
<1> DEFINE over == overBudget \cup overInput
<1>2. /\ BudgetBlocked \in [Tasks -> Record] /\ RecordsOK(BudgetBlocked)
      /\ Told(BudgetBlocked, termination)
      /\ \A t \in Tasks :
           rec[t].state = "Pending" /\ t \in over => BudgetBlocked[t].state = "Blocked"
  BY <1>1, EndPendingIs DEF BudgetBlocked
<1>3. AfterBudget \in RunTermination
  BY DEF AfterBudget, RunTermination, Inv, TypeOK
<1>4. CASE over = {}
  BY <1>2, <1>3, <1>4 DEF AfterBudget
<1>5. CASE over # {}
  <2>1. PICK t \in Tasks : t \in over
    BY <1>5 DEF Inv, TypeOK
  <2>2. rec[t].state = "Pending"
    BY <2>1 DEF Inv, SelectOK, Ready, Pending
  <2>3. Settled(BudgetBlocked[t])
    BY <1>2, <2>1, <2>2 DEF Settled, Terminal, TaskState
  <2>4. AfterBudget = "ResourceLimit"
    BY <1>5 DEF AfterBudget
  <2>5. QED BY <1>2, <1>3, <2>3, <2>4 DEF Told
<1>6. QED BY <1>4, <1>5

LEMMA BeginWaitInv == ASSUME Inv, BeginWait PROVE Inv'
<1>1. EndOK'
  BY DEF BeginWait, EndOK
<1>2. /\ phase = "select" /\ phase' = "wait" /\ selected = <<>> /\ termination' = AfterBudget
      /\ rec' = BudgetBlocked
      /\ UNCHANGED <<loop, consumed, retained, job, cooling, remembered, disk, world>>
  BY DEF BeginWait
<1>3. Told(rec', termination') /\ termination' \in RunTermination
  BY <1>2, AfterBudgetTold
<1>4. rec' = EndPending(rec, overBudget \cup overInput, "Blocked")
  BY <1>2 DEF BudgetBlocked
<1>5. QED
  BY <1>1, <1>2, <1>3, <1>4, LoopKeeps DEF Inv, TypeOK, loop

LEMMA NoFrontierInv == ASSUME Inv, NoFrontier PROVE Inv'
<1>1. /\ phase = "select" /\ phase' = "finish" /\ selected = <<>>
      /\ rec' = EndPending(BudgetBlocked, Tasks, "Blocked")
      /\ termination' \in {AfterBudget, "Failed"}
      /\ UNCHANGED <<loop, consumed, retained, job, cooling, remembered, disk, world>>
  BY DEF NoFrontier
<1>2. /\ BudgetBlocked \in [Tasks -> Record] /\ RecordsOK(BudgetBlocked)
      /\ AfterBudget \in RunTermination /\ Told(BudgetBlocked, AfterBudget)
  BY <1>1, AfterBudgetTold
<1>3. rec' = EndPending(rec, Tasks, "Blocked")
  BY <1>1 DEF BudgetBlocked, EndPending, Inv, TypeOK, Record
<1>4. Told(rec', AfterBudget)
  BY <1>1, <1>2, EndPendingIs
<1>5. Told(rec', termination') /\ termination' \in RunTermination
  BY <1>1, <1>2, <1>4 DEF Told, RunTermination
<1>6. rec \in [Tasks -> Record] /\ RecordsOK(rec)
  BY DEF Inv, TypeOK, RunOK
<1>7. \A t \in Tasks : rec'[t].state # "Pending"
  BY <1>3, <1>6, EndPendingIs
<1>8. EndOK'
  BY <1>1, <1>7 DEF EndOK, AllTerminal, Pending
<1>9. QED
  BY <1>1, <1>3, <1>5, <1>8, LoopKeeps DEF Inv, TypeOK, loop

LEMMA EndWaitInv == ASSUME Inv, EndWait PROVE Inv'
<1>1. EndOK'
  BY DEF EndWait, EndOK
<1>2. selected = <<>> /\ Told(rec, termination)
  BY DEF EndWait, Inv, WaveOK, RunOK
<1>3. QED
  BY <1>1, <1>2, QuietKeeps DEF EndWait, Inv, TypeOK, loop, run

LEMMA CheckpointInv == ASSUME Inv, Checkpoint PROVE Inv'
<1>1. /\ phase = "checkpoint" /\ UNCHANGED <<loop, job, cooling, remembered, world>>
  BY DEF Checkpoint
<1>2. selected = <<>> /\ Told(rec, termination) /\ rec \in [Tasks -> Record] /\ RecordsOK(rec)
  BY <1>1 DEF Inv, WaveOK, RunOK, TypeOK
<1>3. CASE saved' = Snapshot /\ savedRate' = remembered /\ phase' = "top" /\ UNCHANGED run
  <2>1. EndOK'
    BY <1>3 DEF EndOK
  <2>2. saved' = [rec |-> rec', consumed |-> consumed', termination |-> termination']
    BY <1>3 DEF Snapshot, run
  <2>3. QED
    BY <1>1, <1>2, <1>3, <2>1, <2>2, QuietKeeps DEF Inv, TypeOK, loop, run
<1>4. CASE /\ rec' = EndPending(rec, Tasks, "Blocked") /\ termination' = "Failed"
           /\ phase' = "finish" /\ UNCHANGED <<consumed, retained, disk>>
  <2>1. \A t \in Tasks : rec'[t].state # "Pending"
    BY <1>2, <1>4, EndPendingIs
  <2>2. EndOK'
    BY <1>4, <2>1 DEF EndOK, AllTerminal, Pending
  <2>3. Told(rec', "Failed") /\ "Failed" \in RunTermination
    BY DEF Told, RunTermination
  <2>4. QED
    BY <1>1, <1>2, <1>4, <2>2, <2>3, LoopKeeps DEF Inv, TypeOK, loop
<1>5. QED BY <1>3, <1>4 DEF Checkpoint

LEMMA FinishInv == ASSUME Inv, Finish PROVE Inv'
<1>1. /\ phase = "finish" /\ phase' \in {"final", "done"}
      /\ termination' = IF termination = "Completed" THEN Derived ELSE termination
      /\ UNCHANGED <<loop, rec, consumed, retained, job, cooling, remembered, disk, world>>
  BY DEF Finish
<1>2. selected = <<>> /\ Told(rec, termination) /\ rec \in [Tasks -> Record] /\ AllTerminal
  BY <1>1 DEF Inv, WaveOK, RunOK, TypeOK, EndOK
<1>3. /\ Derived \in RunTermination /\ Told(rec, Derived)
      /\ Derived = "Completed" => ~\E t \in Tasks : Failing(t)
  BY DEF Derived, RunTermination, Told, Failing, Terminal, TaskState
<1>4. Derived = "Completed" => \A t \in Tasks : Succeeded(t)
  <2>1. \A t \in Tasks : Succeeded(t) \/ Failing(t)
    BY <1>2 DEF AllTerminal, Succeeded, Failing, Pending, Terminal, Record
  <2>2. QED BY <1>3, <2>1
<1>5. /\ termination' \in RunTermination /\ Told(rec, termination')
      /\ termination' = "Completed" => \A t \in Tasks : Succeeded(t)
  BY <1>1, <1>2, <1>3, <1>4 DEF Inv, TypeOK
<1>6. EndOK'
  BY <1>1, <1>2, <1>5 DEF EndOK, AllTerminal, Pending, Succeeded
<1>7. QED
  BY <1>1, <1>2, <1>5, <1>6, QuietKeeps DEF Inv, TypeOK, loop

LEMMA FinalCheckpointInv == ASSUME Inv, FinalCheckpoint PROVE Inv'
<1>1. /\ phase = "final" /\ phase' = "done"
      /\ UNCHANGED <<loop, rec, consumed, retained, job, cooling, remembered, world>>
  BY DEF FinalCheckpoint
<1>2. /\ selected = <<>> /\ Told(rec, termination) /\ AllTerminal
      /\ termination = "Completed" => \A t \in Tasks : Succeeded(t)
  BY <1>1 DEF Inv, WaveOK, RunOK, EndOK
<1>3. CASE saved' = Snapshot /\ savedRate' = remembered /\ UNCHANGED termination
  <2>1. EndOK'
    BY <1>1, <1>2, <1>3 DEF EndOK, AllTerminal, Pending, Succeeded
  <2>2. saved' = [rec |-> rec', consumed |-> consumed', termination |-> termination']
    BY <1>1, <1>3 DEF Snapshot
  <2>3. QED
    BY <1>1, <1>2, <1>3, <2>1, <2>2, QuietKeeps DEF Inv, TypeOK, loop
<1>4. CASE termination' = "Failed" /\ UNCHANGED disk
  <2>1. EndOK'
    BY <1>1, <1>2, <1>4 DEF EndOK, AllTerminal, Pending, Succeeded
  <2>2. Told(rec, "Failed") /\ "Failed" \in RunTermination
    BY DEF Told, RunTermination
  <2>3. QED
    BY <1>1, <1>2, <1>4, <2>1, <2>2, QuietKeeps DEF Inv, TypeOK, loop
<1>5. QED BY <1>3, <1>4 DEF FinalCheckpoint

-----------------------------------------------------------------------------
(* The world outside the run, crashes and resumes.                           *)

\* A flag is set or an interval passes.
LEMMA WorldKeeps ==
    ASSUME Inv, cooling' \in SUBSET cooling, cancelled' \in BOOLEAN, late' \in BOOLEAN,
           UNCHANGED <<phase, loop, run, job, remembered, disk, crashes>>
    PROVE  Inv'
<1>1. TypeOK'
  BY DEF Inv, TypeOK, loop, run, disk
<1>2. RunOK' /\ SavedOK' /\ PaidOK'
  BY DEF Inv, RunOK, SavedOK, PaidOK, Wave, loop, run, disk
<1>3. Wave' = Wave /\ \A t : Ready(t)' <=> Ready(t)
  BY DEF Wave, Ready, Pending, Succeeded, loop, run
<1>4. WaveOK'
  BY <1>3 DEF Inv, WaveOK, loop
<1>5. SelectOK'
  BY <1>3 DEF Inv, SelectOK, loop, run
<1>6. \A t \in Tasks : JobOK(t)'
  BY <1>3 DEF Inv, JobOK, Attempts, run
<1>7. JobsOK' /\ EndOK'
  BY <1>3 DEF Inv, JobsOK, EndOK, AllTerminal, Pending, Succeeded, run
<1>8. CoolOK'
  BY DEF Inv, CoolOK
<1>9. QED BY <1>1, <1>2, <1>4, <1>5, <1>6, <1>7, <1>8 DEF Inv

LEMMA CrashInv == ASSUME Inv, Crash PROVE Inv'
<1>1. TypeOK'
  BY PolicyValid DEF Crash, Inv, TypeOK, loop, run, disk
<1>2. RunOK' /\ SavedOK' /\ PaidOK'
  BY DEF Crash, Inv, RunOK, SavedOK, PaidOK, run, disk
<1>3. WaveOK' /\ SelectOK' /\ EndOK'
  BY DEF Crash, WaveOK, SelectOK, EndOK
<1>4. \A t \in Tasks : JobOK(t)'
  BY DEF Crash, Inv, JobOK, Attempts, Ready, Pending, Succeeded, run
<1>5. JobsOK'
  BY DEF Crash, Inv, JobsOK
<1>6. CoolOK'
  BY DEF Crash, Inv, TypeOK, CoolOK
<1>7. QED BY <1>1, <1>2, <1>3, <1>4, <1>5, <1>6 DEF Inv

\* Resuming takes back nothing but failures that may be retried.
LEMMA ResumedIs ==
    ASSUME Inv
    PROVE  /\ Resumed \in [Tasks -> Record] /\ RecordsOK(Resumed)
           /\ \A t \in Tasks : saved.rec[t].state = "Succeeded" => Resumed[t] = saved.rec[t]
           /\ Outputs(Resumed) = Outputs(saved.rec)
           /\ Attempted(Resumed) = Attempted(saved.rec)
           /\ \A end : Told(saved.rec, end) => Told(Resumed, end)
<1>1. saved.rec \in [Tasks -> Record] /\ RecordsOK(saved.rec)
  BY DEF Inv, TypeOK, SavedOK
<1>2. ASSUME NEW t \in Tasks
      PROVE  /\ Resumed[t] \in Record
             /\ Resumed[t].attempts = saved.rec[t].attempts
             /\ Resumed[t].output = saved.rec[t].output
             /\ Resumed[t] = saved.rec[t] \/ (saved.rec[t].state = "Failed"
                                              /\ saved.rec[t].retryable
                                              /\ Resumed[t].state = "Pending")
  <2>1. saved.rec[t] \in Record /\ (saved.rec[t].state = "Failed" => saved.rec[t].output = 0)
    BY <1>1 DEF RecordsOK
  <2>2. CASE Resumed[t] = saved.rec[t]
    BY <2>1, <2>2
  <2>3. CASE /\ Resumed[t] = [NewRecord EXCEPT !.attempts = saved.rec[t].attempts]
             /\ saved.rec[t].state = "Failed" /\ saved.rec[t].retryable
    <3> DEFINE n == saved.rec[t].attempts
    <3>1. n \in Nat /\ NewRecord \in Record
      BY <2>1, FreshIs DEF Record
    <3>2. Resumed[t] = [state |-> "Pending", attempts |-> n, output |-> 0, retryable |-> FALSE]
      BY <2>3 DEF NewRecord
    <3> HIDE DEF n
    <3>3. /\ Resumed[t] \in Record /\ Resumed[t].attempts = n /\ Resumed[t].output = 0
          /\ Resumed[t].state = "Pending"
      BY <3>1, <3>2 DEF NewRecord, Record
    <3>4. QED BY <2>1, <2>3, <3>3 DEF n
  <2>4. QED BY <2>2, <2>3 DEF Resumed, Restored
<1>3. Resumed \in [Tasks -> Record]
  BY <1>2 DEF Resumed
<1>4. \A t \in Tasks : Resumed[t].state = "Succeeded" <=> saved.rec[t].state = "Succeeded"
  BY <1>2
<1>5. RecordsOK(Resumed)
  <2> SUFFICES ASSUME NEW t \in Tasks
               PROVE  /\ Resumed[t].attempts <= MaxRetries[t] + 1
                      /\ Resumed[t].state = "Succeeded" <=> Resumed[t].output # 0
                      /\ Resumed[t].state = "Succeeded" =>
                           /\ Resumed[t].attempts > 0
                           /\ \A d \in Deps[t] : Resumed[d].state = "Succeeded"
    BY DEF RecordsOK
  <2>1. /\ saved.rec[t].attempts <= MaxRetries[t] + 1
        /\ saved.rec[t].state = "Succeeded" <=> saved.rec[t].output # 0
        /\ saved.rec[t].state = "Succeeded" =>
             /\ saved.rec[t].attempts > 0
             /\ \A d \in Deps[t] : saved.rec[d].state = "Succeeded"
    BY <1>1 DEF RecordsOK
  <2>2. \A d \in Deps[t] : Resumed[d].state = "Succeeded" <=> saved.rec[d].state = "Succeeded"
    BY <1>4, ConstantFacts
  <2>3. QED BY <1>2, <1>4, <2>1, <2>2
<1>6. Outputs(Resumed) = Outputs(saved.rec) /\ Attempted(Resumed) = Attempted(saved.rec)
  BY <1>2 DEF Outputs, Attempted
<1>7. ASSUME NEW end, Told(saved.rec, end) PROVE Told(Resumed, end)
  <2>1. \A t \in Tasks : saved.rec[t].state \in {"Cancelled", "TimedOut"} =>
                           Resumed[t] = saved.rec[t]
    BY <1>2
  <2>2. \A t \in Tasks : Settled(saved.rec[t]) => Resumed[t] = saved.rec[t]
    BY <1>2 DEF Settled
  <2>3. QED BY <1>7, <2>1, <2>2 DEF Told
<1>8. QED BY <1>2, <1>3, <1>5, <1>6, <1>7

LEMMA ResumeInv == ASSUME Inv, Resume PROVE Inv'
<1>1. /\ phase = "down" /\ phase' = "top" /\ rec' = Resumed /\ consumed' = saved.consumed
      /\ retained' = Total(Outputs(Resumed), Tasks)
      /\ termination' \in {"Completed", saved.termination}
      /\ remembered' = savedRate /\ job' = [t \in Tasks |-> NoJob]
      /\ selected' = <<>> /\ UNCHANGED <<cooling, disk, crashes>>
  BY DEF Resume, Restored
<1>2. /\ rec' \in [Tasks -> Record] /\ RecordsOK(rec')
      /\ \A t \in Tasks : saved.rec[t].state = "Succeeded" => rec'[t] = saved.rec[t]
      /\ Outputs(rec') = Outputs(saved.rec) /\ Attempted(rec') = Attempted(saved.rec)
      /\ Told(rec', saved.termination)
  BY <1>1, ResumedIs DEF Inv, SavedOK
<1>3. saved \in [rec : [Tasks -> Record], consumed : Nat, termination : RunTermination]
  BY DEF Inv, TypeOK
<1>4. TypeOK'
  <2>1. termination' \in RunTermination /\ consumed' \in Nat
    BY <1>1, <1>3 DEF RunTermination
  <2>2. job' \in [Tasks -> Job]
    BY <1>1, FreshIs
  <2>3. retained' \in Nat
    BY <1>1, <1>2, OutputsAreSizes, PileFinite
  <2>4. selected' \in Seq(Tasks) /\ 1 \in 1..(Len(Order) + 1)
    BY <1>1, EmptySeq, ConstantFacts
  <2>5. UNCHANGED <<cooling, saved, savedRate, crashes>> /\ remembered' \subseteq Keys
    BY <1>1 DEF disk, Inv, TypeOK
  <2>6. QED BY <1>1, <1>2, <2>1, <2>2, <2>3, <2>4, <2>5 DEF Resume, Inv, TypeOK
<1>5. RunOK'
  <2>1. Told(rec', "Completed")
    BY DEF Told
  <2>2. Within(saved.rec, saved.consumed)
    BY DEF Inv, SavedOK
  <2>3. Within(rec', consumed')
    BY <1>1, <1>2, <2>2 DEF Within
  <2>4. QED BY <1>1, <1>2, <2>1, <2>3 DEF RunOK
<1>6. SavedOK'
  BY <1>1, <1>2 DEF Inv, SavedOK, disk
<1>7. PaidOK'
  BY <1>1, <1>2 DEF Inv, SavedOK, PaidOK
<1>8. WaveOK' /\ SelectOK' /\ EndOK'
  BY <1>1 DEF WaveOK, SelectOK, EndOK
<1>9. \A t \in Tasks : JobOK(t)'
  <2> SUFFICES ASSUME NEW t \in Tasks PROVE JobOK(t)'
    OBVIOUS
  <2>1. job'[t] = NoJob
    BY <1>1
  <2>2. rec'[t].attempts + 0 <= MaxRetries[t] + 1
    BY <1>2, ConstantFacts DEF RecordsOK, Record
  <2>3. QED BY <2>1, <2>2 DEF JobOK, NoJob, NewRecord, Attempts
<1>10. JobsOK'
  BY <1>1 DEF JobsOK, NoJob
<1>11. CoolOK'
  BY <1>1 DEF Inv, CoolOK
<1>12. QED BY <1>4, <1>5, <1>6, <1>7, <1>8, <1>9, <1>10, <1>11 DEF Inv

-----------------------------------------------------------------------------
(* The jobs of a wave.                                                       *)

LEMMA JobStepKeeps ==
    ASSUME Inv, NEW t \in Tasks, phase = "wave", job[t].at # "none",
           NEW new \in Job, job' = [job EXCEPT ![t] = new], new.at # "none",
           JobOK(t)', CoolOK',
           cooling' \subseteq Keys, remembered' \subseteq Keys, savedRate' \subseteq Keys,
           UNCHANGED <<phase, loop, run, saved, world>>
    PROVE  Inv'
<1>1. job' \in [Tasks -> Job] /\ job'[t] = new /\ \A u \in Tasks \ {t} : job'[u] = job[u]
  BY DEF Inv, TypeOK
<1>2. TypeOK'
  BY <1>1 DEF Inv, TypeOK, loop, run, world
<1>3. RunOK' /\ SavedOK' /\ PaidOK'
  BY DEF Inv, RunOK, SavedOK, PaidOK, Wave, loop, run
<1>4. Wave' = Wave /\ \A u : Ready(u)' <=> Ready(u)
  BY DEF Wave, Ready, Pending, Succeeded, loop, run
<1>5. WaveOK'
  BY <1>4 DEF Inv, WaveOK, loop
<1>6. SelectOK' /\ EndOK'
  BY DEF SelectOK, EndOK
<1>7. \A u \in Tasks : JobOK(u)'
  <2> SUFFICES ASSUME NEW u \in Tasks PROVE JobOK(u)'
    OBVIOUS
  <2>1. CASE u = t
    BY <2>1
  <2>2. CASE u # t
    BY <1>1, <1>4, <2>2 DEF Inv, JobOK, Attempts, run
  <2>3. QED BY <2>1, <2>2
<1>8. JobsOK'
  <2>1. \A u \in Tasks : job'[u].at # "none" <=> job[u].at # "none"
    BY <1>1
  <2>2. QED BY <1>4, <2>1 DEF Inv, JobsOK
<1>9. QED BY <1>2, <1>3, <1>5, <1>6, <1>7, <1>8 DEF Inv

\* A job's record, typed, and what its task and its place say of it.
LEMMA JobFacts ==
    ASSUME Inv, NEW t \in Tasks
    PROVE  /\ job[t] \in Job /\ job[t].record \in Record /\ JobOK(t)
           /\ rec[t].attempts \in Nat /\ Attempts(t) \in Nat /\ MaxRetries[t] \in Nat
<1>1. job[t] \in Job /\ rec[t] \in Record /\ JobOK(t)
  BY DEF Inv, TypeOK
<1>2. job[t].record \in Record
  BY <1>1 DEF Job
<1>3. rec[t].attempts \in Nat /\ job[t].record.attempts \in Nat
  <2>1. \A r \in Record : r.attempts \in Nat
    BY DEF Record
  <2>2. QED BY <1>1, <1>2, <2>1
<1>4. Attempts(t) \in Nat
  BY <1>3 DEF Attempts
<1>5. MaxRetries[t] \in Nat
  BY ConstantFacts
<1>6. QED BY <1>1, <1>2, <1>3, <1>4, <1>5

\* A job that ends with a record of the attempts it has made.
LEMMA JobEndsKeeps ==
    ASSUME Inv, NEW t \in Tasks, phase = "wave", job[t].at # "none",
           NEW record \in Record, JobEnds(t, record),
           record.attempts = job[t].record.attempts, record.state # "Pending",
           record.state = "Succeeded" <=> record.output # 0,
           record.state = "Succeeded" => record.attempts > 0 /\ ~record.retryable,
           UNCHANGED <<phase, loop, run, cooling, remembered, disk, world>>
    PROVE  Inv'
<1> DEFINE new == [at |-> "done", record |-> record]
<1>1. new \in Job /\ new.at = "done" /\ new.record = record
  BY DEF Job
<1>2. job' = [job EXCEPT ![t] = new]
  BY DEF JobEnds
<1> HIDE DEF new
<1>3. job'[t] = new /\ \A u \in Tasks \ {t} : job'[u] = job[u]
  BY <1>2 DEF Inv, TypeOK
<1>4. Ready(t)' /\ Attempts(t)' = Attempts(t)
  BY <1>1, <1>3, JobFacts DEF JobOK, Ready, Pending, Succeeded, Attempts, run
<1>5. JobOK(t)'
  BY <1>1, <1>3, <1>4, JobFacts DEF JobOK
<1>6. CoolOK'
  <2> SUFFICES ASSUME crashes = 0 PROVE CoolOK'
    BY DEF CoolOK, world
  <2>1. \A u \in Tasks : job'[u].record.attempts = job[u].record.attempts
    BY <1>1, <1>3
  <2>2. \A u \in Tasks : job'[u].at = "ready" => job[u].at = "ready"
    BY <1>1, <1>3
  <2>3. QED BY <2>1, <2>2 DEF Inv, CoolOK, world
<1>7. QED
  BY <1>1, <1>2, <1>5, <1>6, JobStepKeeps DEF Inv, TypeOK, disk

LEMMA JobStopsInv == ASSUME Inv, NEW t \in Tasks, JobStops(t) PROVE Inv'
<1>1. PICK why \in {"Cancelled", "TimedOut", "Failed"} :
        JobEnds(t, [job[t].record EXCEPT !.state = why])
  BY DEF JobStops
<1> DEFINE record == [job[t].record EXCEPT !.state = why]
<1>2. /\ phase = "wave" /\ job[t].at = "ready"
      /\ UNCHANGED <<phase, loop, run, cooling, remembered, disk, world>>
  BY DEF JobStops, Working
<1>3. job[t].record \in Record /\ job[t].record.output = 0
  BY <1>2, JobFacts DEF JobOK
<1>4. record \in Record /\ record.attempts = job[t].record.attempts /\ record.state = why
      /\ record.output = 0
  BY <1>3 DEF Record, TaskState
<1> HIDE DEF record
<1>5. JobEnds(t, record)
  BY <1>1 DEF record
<1>6. QED
  BY <1>2, <1>4, <1>5, JobEndsKeeps

LEMMA HandlerSucceedsInv == ASSUME Inv, NEW t \in Tasks, HandlerSucceeds(t) PROVE Inv'
<1>1. PICK size \in 1..MaxOutput :
        JobEnds(t, [job[t].record EXCEPT !.state = "Succeeded", !.output = size])
  BY DEF HandlerSucceeds
<1> DEFINE record == [job[t].record EXCEPT !.state = "Succeeded", !.output = size]
<1>2. /\ phase = "wave" /\ job[t].at = "running"
      /\ UNCHANGED <<phase, loop, run, cooling, remembered, disk, world>>
  BY DEF HandlerSucceeds, Working
<1>3. /\ job[t].record \in Record /\ job[t].record.attempts > 0 /\ ~job[t].record.retryable
  BY <1>2, JobFacts DEF JobOK
<1>4. size \in 0..MaxOutput /\ size # 0
  BY ConstantFacts
<1>5. /\ record \in Record /\ record.attempts = job[t].record.attempts
      /\ record.state = "Succeeded" /\ record.output = size /\ ~record.retryable
  BY <1>3, <1>4 DEF Record, TaskState
<1> HIDE DEF record
<1>6. JobEnds(t, record)
  BY <1>1 DEF record
<1>7. QED
  BY <1>2, <1>3, <1>4, <1>5, <1>6, JobEndsKeeps

\* Every other end of a handler: no success, whatever may be retried.
LEMMA HandlerEndsKeeps ==
    ASSUME Inv, NEW t \in Tasks, phase = "wave", job[t].at = "running",
           NEW why \in {"TimedOut", "Failed", "Cancelled"}, NEW again \in BOOLEAN,
           JobEnds(t, [job[t].record EXCEPT !.state = why, !.retryable = again]),
           UNCHANGED <<phase, loop, run, cooling, remembered, disk, world>>
    PROVE  Inv'
<1> DEFINE record == [job[t].record EXCEPT !.state = why, !.retryable = again]
<1>1. job[t].record \in Record /\ job[t].record.output = 0
  BY JobFacts DEF JobOK
<1>2. /\ record \in Record /\ record.attempts = job[t].record.attempts
      /\ record.state = why /\ record.output = 0
  BY <1>1 DEF Record, TaskState
<1>3. JobEnds(t, record)
  OBVIOUS
<1> HIDE DEF record
<1>4. QED
  BY <1>2, <1>3, JobEndsKeeps

LEMMA HandlerTimesOutInv == ASSUME Inv, NEW t \in Tasks, HandlerTimesOut(t) PROVE Inv'
<1>1. PICK again \in BOOLEAN :
        JobEnds(t, [job[t].record EXCEPT !.state = "TimedOut", !.retryable = again])
  BY DEF HandlerTimesOut
<1>2. QED
  BY <1>1, HandlerEndsKeeps DEF HandlerTimesOut, Working

LEMMA HandlerFailsInv == ASSUME Inv, NEW t \in Tasks, HandlerFails(t) PROVE Inv'
<1>1. job[t].record \in Record /\ job[t].record.retryable \in BOOLEAN
  BY JobFacts DEF Record
<1>2. ~job[t].record.retryable
  BY JobFacts DEF JobOK, HandlerFails, Working
<1>3. ASSUME NEW why \in {"TimedOut", "Failed", "Cancelled"}
      PROVE  [job[t].record EXCEPT !.state = why]
               = [job[t].record EXCEPT !.state = why, !.retryable = FALSE]
  BY <1>1, <1>2 DEF Record
<1>4. PICK why \in {"Failed", "Cancelled"}, again \in BOOLEAN :
        JobEnds(t, [job[t].record EXCEPT !.state = why, !.retryable = again])
  <2>1. CASE JobEnds(t, [job[t].record EXCEPT !.state = "Failed"])
    <3>1. JobEnds(t, [job[t].record EXCEPT !.state = "Failed", !.retryable = FALSE])
      BY <2>1, <1>3 DEF JobEnds
    <3>2. QED BY <3>1
  <2>2. CASE JobEnds(t, [job[t].record EXCEPT !.state = "Failed", !.retryable = TRUE])
    BY <2>2
  <2>3. CASE JobEnds(t, [job[t].record EXCEPT !.state = "Cancelled"])
    <3>1. JobEnds(t, [job[t].record EXCEPT !.state = "Cancelled", !.retryable = FALSE])
      BY <2>3, <1>3 DEF JobEnds
    <3>2. QED BY <3>1
  <2>4. QED BY <2>1, <2>2, <2>3 DEF HandlerFails
<1>5. QED
  BY <1>4, HandlerEndsKeeps DEF HandlerFails, Working

LEMMA HandlerRetriesInv == ASSUME Inv, NEW t \in Tasks, HandlerRetries(t) PROVE Inv'
<1> DEFINE new == [job[t] EXCEPT !.at = "ready", !.record.retryable = TRUE]
<1>1. /\ phase = "wave" /\ job[t].at = "running"
      /\ UNCHANGED <<phase, loop, run, cooling, remembered, disk, world>>
      /\ job' = [job EXCEPT ![t] = new]
  BY DEF HandlerRetries, Working
<1>2. job[t] \in Job /\ job[t].record \in Record /\ job[t].record.attempts > 0
  BY <1>1, JobFacts DEF JobOK
<1>3. /\ new \in Job /\ new.at = "ready" /\ new.record.attempts = job[t].record.attempts
      /\ new.record.state = job[t].record.state /\ new.record.output = job[t].record.output
  BY <1>2 DEF Job, Record
<1> HIDE DEF new
<1>4. job'[t] = new /\ \A u \in Tasks \ {t} : job'[u] = job[u]
  BY <1>1 DEF Inv, TypeOK
<1>5. Ready(t)' /\ Attempts(t)' = Attempts(t)
  BY <1>1, <1>3, <1>4, JobFacts DEF JobOK, Ready, Pending, Succeeded, Attempts, run
<1>6. JobOK(t)'
  BY <1>1, <1>3, <1>4, <1>5, JobFacts DEF JobOK
<1>7. CoolOK'
  <2> SUFFICES ASSUME crashes = 0 PROVE CoolOK'
    BY <1>1 DEF CoolOK, world
  <2>1. \A u \in Tasks : job'[u].record.attempts = job[u].record.attempts
    BY <1>3, <1>4
  <2>2. \A u \in Tasks :
          job'[u].at = "ready" /\ job'[u].record.attempts = 0 => job[u].at = "ready"
    <3>1. job'[t].record.attempts # 0
      BY <1>2, <1>3, <1>4 DEF Record
    <3>2. QED BY <1>4, <3>1
  <2>3. QED BY <1>1, <2>1, <2>2 DEF Inv, CoolOK, world
<1>8. QED
  BY <1>1, <1>3, <1>6, <1>7, JobStepKeeps DEF Inv, TypeOK, disk

\* The job of a task whose handler is called.
LEMMA AttemptMade ==
    ASSUME NEW j \in Job
    PROVE  LET new == [j EXCEPT !.at = "running", !.record.attempts = @ + 1,
                                !.record.retryable = FALSE]
           IN  /\ new \in Job /\ new.at = "running"
               /\ new.record.attempts = j.record.attempts + 1 /\ ~new.record.retryable
               /\ new.record.state = j.record.state /\ new.record.output = j.record.output
<1> DEFINE new == [j EXCEPT !.at = "running", !.record.attempts = @ + 1,
                            !.record.retryable = FALSE]
           old == j.record
           n == old.attempts + 1
           record == new.record
<1>1. old \in Record /\ n \in Nat
  BY DEF Job, Record
<1>2. new.at = "running" /\ record = [old EXCEPT !.attempts = n, !.retryable = FALSE]
  BY DEF Job
<1>3. new = [at |-> new.at, record |-> record]
  <2>1. DOMAIN new = DOMAIN j /\ DOMAIN j = {"at", "record"}
    BY DEF Job
  <2>2. new = [x \in {"at", "record"} |-> new[x]]
    BY <2>1
  <2> HIDE DEF new
  <2>3. QED BY <2>2
<1> HIDE DEF old, n, new
<1>4. new \in Job /\ new.record = record
  <2> HIDE DEF record
  <2>1. record \in Record
    BY <1>1, <1>2 DEF Record
  <2>2. QED BY <1>2, <1>3, <2>1 DEF Job
<1> HIDE DEF record
<1>5. /\ record.attempts = n /\ ~record.retryable
      /\ record.state = old.state /\ record.output = old.output
  BY <1>1, <1>2 DEF Record
<1>6. QED BY <1>2, <1>4, <1>5 DEF new, old, n

LEMMA AttemptInv == ASSUME Inv, NEW t \in Tasks, Attempt(t) PROVE Inv'
<1> DEFINE new == [job[t] EXCEPT !.at = "running", !.record.attempts = @ + 1,
                                 !.record.retryable = FALSE]
           k == RateKey[t]
<1>1. /\ phase = "wave" /\ job[t].at = "ready" /\ Attempts(t) < MaxRetries[t] + 1
      /\ cooling' = cooling \cup ({k} \ {NoKey}) /\ remembered' = remembered \ {k}
      /\ savedRate' = savedRate \ {k} /\ UNCHANGED <<phase, loop, run, saved, world>>
      /\ job' = [job EXCEPT ![t] = new]
  BY DEF Attempt, Working
<1>2. job[t] \in Job /\ job[t].record \in Record /\ job[t].record.attempts \in Nat
  BY JobFacts DEF Record
<1>3. /\ new \in Job /\ new.at = "running"
      /\ new.record.attempts = job[t].record.attempts + 1 /\ ~new.record.retryable
      /\ new.record.state = job[t].record.state /\ new.record.output = job[t].record.output
  BY <1>2, AttemptMade
<1> HIDE DEF new
<1>4. job'[t] = new /\ \A u \in Tasks \ {t} : job'[u] = job[u]
  BY <1>1 DEF Inv, TypeOK
<1>5. Ready(t)' /\ Attempts(t)' = Attempts(t) + 1
  <2>1. Ready(t)'
    BY <1>1, JobFacts DEF JobOK, Ready, Pending, Succeeded, run
  <2>2. Attempts(t)' = Attempts(t) + 1
    BY <1>1, <1>2, <1>3, <1>4, JobFacts DEF Attempts, run
  <2>3. QED BY <2>1, <2>2
<1>6. JobOK(t)'
  <2>1. job[t].record.state = "Pending" /\ job[t].record.output = 0
    BY <1>1, JobFacts DEF JobOK
  <2>2. Attempts(t)' <= MaxRetries[t] + 1
    BY <1>1, <1>5, JobFacts
  <2>3. job[t].record.attempts + 1 > 0
    BY <1>2
  <2>4. QED BY <1>3, <1>4, <1>5, <2>1, <2>2, <2>3 DEF JobOK
<1>7. CoolOK'
  <2> SUFFICES ASSUME crashes = 0 PROVE CoolOK'
    BY <1>1 DEF CoolOK, world
  <2>1. ASSUME NEW g \in cooling' \ remembered'
        PROVE  \E u \in Tasks : RateKey[u] = g /\ job'[u].record.attempts > 0
    <3>1. CASE g = k
      <4>1. job'[t].record.attempts > 0
        BY <1>2, <1>3, <1>4
      <4>2. QED BY <3>1, <4>1
    <3>2. CASE g # k
      <4>1. PICK u \in Tasks : RateKey[u] = g /\ job[u].record.attempts > 0
        BY <1>1, <2>1, <3>2 DEF Inv, CoolOK
      <4>2. QED BY <1>4, <3>2, <4>1
    <3>3. QED BY <3>1, <3>2
  <2>2. ASSUME NEW u \in Tasks, job'[u].at = "ready", job'[u].record.attempts = 0
        PROVE  RateKey[u] \notin cooling'
    <3>1. u # t /\ job'[u] = job[u]
      BY <1>3, <1>4, <2>2
    <3>2. RateKey[u] \notin cooling
      BY <2>2, <3>1 DEF Inv, CoolOK
    <3>3. Apart(t, u)
      BY <1>1, <2>2, <3>1 DEF Inv, JobsOK
    <3>4. k # NoKey => RateKey[u] # k
      BY <3>3 DEF Apart
    <3>5. QED BY <1>1, <3>2, <3>4
  <2>3. QED BY <1>1, <2>1, <2>2 DEF CoolOK, Inv
<1>8. cooling' \subseteq Keys /\ remembered' \subseteq Keys /\ savedRate' \subseteq Keys
  BY <1>1, ConstantFacts DEF Inv, TypeOK
<1>9. QED
  BY <1>1, <1>3, <1>6, <1>7, <1>8, JobStepKeeps

LEMMA JobStepInv == ASSUME Inv, NEW t \in Tasks, JobStep(t) PROVE Inv'
BY JobStopsInv, AttemptInv, HandlerSucceedsInv, HandlerTimesOutInv, HandlerFailsInv,
   HandlerRetriesInv DEF JobStep, HandlerReturns

-----------------------------------------------------------------------------
(* Choosing a wave and dispatching it.                                       *)

LEMMA SelectedFacts ==
    ASSUME Inv
    PROVE  /\ selected \in Seq(Tasks) /\ Len(selected) \in Nat
           /\ \A i \in 1..Len(selected) : selected[i] \in Tasks
           /\ Wave \in SUBSET Tasks
<1>1. selected \in Seq(Tasks)
  BY DEF Inv, TypeOK
<1>2. Len(selected) \in Nat /\ \A i \in 1..Len(selected) : selected[i] \in Tasks
  BY <1>1, LenProperties, ElementOfSeq
<1>3. QED BY <1>1, <1>2 DEF Wave

\* Adding a task that conflicts with none of the wave.
LEMMA WaveGrows ==
    ASSUME Inv, phase = "select", phase' = "select", NEW t \in Tasks, t \notin Wave,
           ~Conflict(t), selected' = Append(selected, t)
    PROVE  Wave' = Wave \cup {t} /\ WaveOK'
<1>1. /\ selected' \in Seq(Tasks) /\ Len(selected') = Len(selected) + 1
      /\ \A i \in 1..Len(selected) : selected'[i] = selected[i]
      /\ selected'[Len(selected) + 1] = t
  BY SelectedFacts, AppendProperties
<1>2. Len(selected) \in Nat
  BY SelectedFacts
<1>3. 1..(Len(selected) + 1) = (1..Len(selected)) \cup {Len(selected) + 1}
  BY <1>2
<1>4. Wave' = Wave \cup {t}
  BY <1>1, <1>3 DEF Wave
<1>5. \A i, j \in 1..Len(selected') : selected'[i] = selected'[j] => i = j
  <2>1. \A i, j \in 1..Len(selected) : selected[i] = selected[j] => i = j
    BY DEF Inv, WaveOK
  <2>2. \A i \in 1..Len(selected) : selected[i] # t
    BY DEF Wave
  <2>3. QED BY <1>1, <1>3, <2>1, <2>2
<1>6. ASSUME NEW u \in Wave', NEW v \in Wave', u # v PROVE Apart(u, v)
  <2>1. \A w \in Wave : /\ Resources[w] \cap Resources[t] = {}
                        /\ RateKey[t] # NoKey => RateKey[w] # RateKey[t]
    BY DEF Conflict
  <2>2. CASE u \in Wave /\ v \in Wave
    BY <1>6, <2>2 DEF Inv, WaveOK
  <2>3. CASE u \in Wave /\ v = t
    BY <2>1, <2>3 DEF Apart
  <2>4. CASE u = t /\ v \in Wave
    BY <2>1, <2>4 DEF Apart
  <2>5. QED BY <1>4, <1>6, <2>2, <2>3, <2>4
<1>7. QED BY <1>4, <1>5, <1>6 DEF WaveOK

\* Between waves, last_rate_start holds every start of the first process.
LEMMA AllRemembered ==
    ASSUME Inv, phase \notin {"wave", "down"}, crashes = 0
    PROVE  cooling \subseteq remembered
<1> SUFFICES ASSUME NEW k \in cooling \ remembered PROVE FALSE
  OBVIOUS
<1>1. PICK t \in Tasks : job[t].record.attempts > 0
  BY DEF Inv, CoolOK
<1>2. job[t].record.attempts = 0
  BY NoJobsBetweenWaves DEF NoJob, NewRecord
<1>3. QED BY <1>1, <1>2

LEMMA ConsiderInv == ASSUME Inv, Consider PROVE Inv'
<1> DEFINE t == Order[cursor]
           over == overBudget \cup overInput
           fits == ~OverBudget(t) /\ ~OverInput(t) /\ ~Conflict(t)
           admitted == Ready(t) /\ fits /\ ~Cooling(t)
<1>1. /\ phase = "select" /\ cursor <= Len(Order) /\ cursor' = cursor + 1
      /\ UNCHANGED <<phase, changed, run, job, cooling, remembered, disk, world>>
  BY DEF Consider, SelectOpen
<1>2. /\ selected' = IF admitted THEN Append(selected, t) ELSE selected
      /\ waveCost' = IF admitted THEN waveCost + Units[t] ELSE waveCost
  BY DEF Consider
<1>3. \/ overBudget' = overBudget /\ overInput' = overInput
      \/ overBudget' = overBudget \cup {t} /\ overInput' = overInput /\ Ready(t) /\ ~admitted
      \/ overBudget' = overBudget /\ overInput' = overInput \cup {t} /\ Ready(t) /\ ~admitted
  BY DEF Consider
<1>4. waitFor' \in {waitFor, waitFor \cup {RateKey[t]}} /\ (waitFor' # waitFor => Cooling(t))
  BY DEF Consider
<1>5. cursor \in 1..Len(Order) /\ cursor' \in 1..(Len(Order) + 1) /\ t \in Tasks
  BY <1>1, ConstantFacts DEF Inv, TypeOK
<1>6. t \notin Wave \cup over
  <2>1. \A u \in Wave \cup over : \E i \in 1..(cursor - 1) : u = Order[i]
    BY <1>1 DEF Inv, SelectOK
  <2>2. \A i \in 1..(cursor - 1) : i \in 1..Len(Order) /\ i # cursor
    BY <1>5, ConstantFacts
  <2>3. QED BY <1>5, <2>1, <2>2, GraphValid
<1>7. Wave' = (IF admitted THEN Wave \cup {t} ELSE Wave) /\ WaveOK'
  <2>1. CASE admitted
    BY <1>1, <1>2, <1>5, <1>6, <2>1, WaveGrows
  <2>2. CASE ~admitted
    <3>1. selected' = selected
      BY <1>2, <2>2
    <3>2. Wave' = Wave
      BY <3>1 DEF Wave
    <3>3. WaveOK'
      BY <1>1, <3>1, <3>2 DEF Inv, WaveOK
    <3>4. QED BY <2>2, <3>2, <3>3
  <2>3. QED BY <2>1, <2>2
<1>8. \A u : Ready(u)' <=> Ready(u)
  BY <1>1 DEF Ready, Pending, Succeeded, run
<1>9. consumed \in Nat /\ waveCost \in Nat /\ Units[t] \in Nat
  BY <1>5, ConstantFacts DEF Inv, TypeOK
<1>10. TypeOK'
  <2>1. selected' \in Seq(Tasks)
    BY <1>2, <1>5, SelectedFacts, AppendProperties
  <2>2. waveCost' \in Nat
    BY <1>2, <1>9
  <2>3. waitFor' \subseteq Keys
    BY <1>4 DEF Cooling, Inv, TypeOK
  <2>4. overBudget' \subseteq Tasks /\ overInput' \subseteq Tasks
    BY <1>3, <1>5 DEF Inv, TypeOK
  <2>5. QED
    BY <1>1, <1>5, <2>1, <2>2, <2>3, <2>4 DEF Inv, TypeOK, run, disk, world
<1>11. RunOK' /\ SavedOK' /\ PaidOK'
  BY <1>1 DEF Inv, RunOK, SavedOK, PaidOK, run, disk
<1>12. SelectOK'
  <2>1. waveCost = Total(Units, Wave) /\ consumed + waveCost <= max_total_resource_units
    BY <1>1 DEF Inv, SelectOK
  <2>2. /\ waveCost' = Total(Units, Wave') /\ consumed' + waveCost' <= max_total_resource_units
    <3>1. CASE admitted
      <4>1. Total(Units, Wave \cup {t}) = Total(Units, Wave) + Units[t]
        BY <1>5, <1>6, SelectedFacts, UnitsAreSizes, TotalAdd
      <4>2. consumed + (waveCost + Units[t]) <= max_total_resource_units
        BY <1>9, <3>1, ConstantFacts DEF OverBudget
      <4>3. QED BY <1>1, <1>2, <1>7, <2>1, <3>1, <4>1, <4>2 DEF run
    <3>2. CASE ~admitted
      BY <1>1, <1>2, <1>7, <2>1, <3>2 DEF run
    <3>3. QED BY <3>1, <3>2
  <2>3. ASSUME NEW u \in Wave' \cup overBudget' \cup overInput'
        PROVE  Ready(u)' /\ \E i \in 1..(cursor' - 1) : u = Order[i]
    <3>1. cursor' - 1 = cursor /\ 1..(cursor - 1) \subseteq 1..cursor /\ cursor \in 1..cursor
      BY <1>1, <1>5
    <3>2. CASE u \in Wave \cup over
      <4>1. Ready(u) /\ \E i \in 1..(cursor - 1) : u = Order[i]
        BY <1>1, <3>2 DEF Inv, SelectOK
      <4>2. QED BY <1>8, <3>1, <4>1
    <3>3. CASE u = t /\ Ready(t)
      BY <1>8, <3>1, <3>3
    <3>4. QED BY <1>3, <1>7, <2>3, <3>2, <3>3
  <2>4. Wave' \cap (overBudget' \cup overInput') = {}
    BY <1>1, <1>3, <1>6, <1>7 DEF Inv, SelectOK
  <2>5. crashes' = 0 => \A u \in Wave' : RateKey[u] \notin cooling'
    <3>1. crashes = 0 /\ admitted => RateKey[t] \notin cooling
      BY <1>1, AllRemembered DEF Cooling
    <3>2. crashes = 0 => \A u \in Wave : RateKey[u] \notin cooling
      BY <1>1 DEF Inv, SelectOK
    <3>3. QED BY <1>1, <1>7, <3>1, <3>2 DEF world
  <2>6. QED BY <2>2, <2>3, <2>4, <2>5 DEF SelectOK
<1>13. \A u \in Tasks : JobOK(u)'
  BY <1>1, <1>8 DEF Inv, JobOK, Attempts, run
<1>14. JobsOK' /\ CoolOK' /\ EndOK'
  BY <1>1 DEF Inv, JobsOK, CoolOK, EndOK, world
<1>15. QED BY <1>7, <1>10, <1>11, <1>12, <1>13, <1>14 DEF Inv

LEMMA DispatchInv == ASSUME Inv, Dispatch PROVE Inv'
<1> DEFINE over == overBudget \cup overInput
<1>1. /\ phase = "select" /\ phase' = "wave" /\ rec' = BudgetBlocked
      /\ termination' = AfterBudget /\ consumed' = consumed + waveCost
      /\ job' = [t \in Tasks |-> IF t \in Wave THEN [NoJob EXCEPT !.at = "ready"] ELSE NoJob]
      /\ UNCHANGED <<loop, retained, cooling, remembered, disk, world>>
  BY DEF Dispatch
<1>2. /\ rec \in [Tasks -> Record] /\ RecordsOK(rec) /\ Within(rec, consumed)
      /\ retained = Total(Outputs(rec), Tasks) /\ Total(Units, Attempted(rec)) <= consumed
  BY <1>1 DEF Inv, TypeOK, RunOK, PaidOK
<1>3. /\ rec' \in [Tasks -> Record] /\ RecordsOK(rec')
      /\ \A t \in Tasks :
           /\ rec'[t].attempts = rec[t].attempts
           /\ rec[t].state # "Pending" \/ t \notin over => rec'[t] = rec[t]
      /\ Outputs(rec') = Outputs(rec) /\ Attempted(rec') = Attempted(rec)
  BY <1>1, <1>2, EndPendingIs DEF BudgetBlocked
<1>4. /\ waveCost = Total(Units, Wave) /\ consumed + waveCost <= max_total_resource_units
      /\ \A t \in Wave : Ready(t) /\ t \notin over
      /\ crashes = 0 => \A t \in Wave : RateKey[t] \notin cooling
  BY <1>1 DEF Inv, SelectOK
<1>5. Wave' = Wave /\ Wave \in SUBSET Tasks
  BY <1>1, SelectedFacts DEF Wave, loop
<1>6. Told(rec', termination') /\ termination' \in RunTermination
  BY <1>1, AfterBudgetTold
<1>7. consumed \in Nat /\ waveCost \in Nat
  BY DEF Inv, TypeOK
<1> DEFINE ready == [NoJob EXCEPT !.at = "ready"]
<1>8. ready \in Job /\ ready.at = "ready" /\ ready.record = NewRecord
  BY FreshIs DEF NoJob, Job
<1> HIDE DEF ready
<1>9. \A t \in Tasks : job'[t] = IF t \in Wave THEN ready ELSE NoJob
  BY <1>1 DEF ready
<1>10. job' \in [Tasks -> Job]
  BY <1>1, <1>8, FreshIs DEF ready
<1>11. TypeOK'
  <2>1. consumed' \in Nat
    BY <1>1, <1>7
  <2>2. UNCHANGED <<cursor, changed, selected, waveCost, overBudget, overInput, waitFor,
                    retained, cooling, remembered, saved, savedRate, cancelled, late, crashes>>
    BY <1>1 DEF loop, disk, world
  <2>3. phase' = "wave"
    BY <1>1
  <2>4. QED BY <1>3, <1>6, <1>10, <2>1, <2>2, <2>3 DEF Inv, TypeOK
<1>12. RunOK'
  BY <1>1, <1>2, <1>3, <1>4, <1>6 DEF RunOK, Within
<1>13. SavedOK'
  <2>1. \A t \in Tasks : saved.rec[t].state = "Succeeded" => rec'[t] = saved.rec[t]
    BY <1>3 DEF Inv, SavedOK
  <2>2. QED BY <1>1, <2>1 DEF Inv, SavedOK, disk
<1>14. PaidOK'
  <2>1. Attempted(rec) \in SUBSET Tasks
    BY <1>2, OutputsAreSizes
  <2>2. Total(Units, Attempted(rec) \cup Wave)
          <= Total(Units, Attempted(rec)) + Total(Units, Wave)
    BY <1>5, <2>1, UnitsAreSizes, TotalUnion
  <2>3. /\ Total(Units, Attempted(rec) \cup Wave) \in Nat
        /\ Total(Units, Attempted(rec)) \in Nat
    <3>1. Attempted(rec) \cup Wave \in SUBSET Tasks
      BY <1>5, <2>1
    <3>2. QED BY <2>1, <3>1, UnitsAreSizes, PileFinite
  <2>4. Total(Units, Attempted(rec) \cup Wave) <= consumed + waveCost
    BY <1>2, <1>4, <1>7, <2>2, <2>3
  <2>5. QED BY <1>1, <1>3, <1>5, <2>4 DEF PaidOK
<1>15. WaveOK'
  BY <1>1, <1>5 DEF Inv, WaveOK, loop
<1>16. SelectOK' /\ EndOK'
  BY <1>1 DEF SelectOK, EndOK
<1>17. ASSUME NEW t \in Tasks PROVE JobOK(t)'
  <2>1. rec'[t].attempts + 0 <= MaxRetries[t] + 1
    BY <1>3, ConstantFacts DEF RecordsOK, Record
  <2>2. CASE t \in Wave
    <3>1. Ready(t)'
      BY <1>3, <1>4, <2>2, ConstantFacts DEF Ready, Pending, Succeeded
    <3>2. QED BY <1>8, <1>9, <2>1, <2>2, <3>1 DEF JobOK, NewRecord, Attempts
  <2>3. CASE t \notin Wave
    BY <1>9, <2>1, <2>3 DEF JobOK, NoJob, NewRecord, Attempts
  <2>4. QED BY <2>2, <2>3
<1>18. JobsOK'
  <2>1. \A t \in Tasks : job'[t].at # "none" <=> t \in Wave
    BY <1>8, <1>9 DEF NoJob
  <2>2. \A t, u \in Wave : t # u => Apart(t, u)
    BY <1>1 DEF Inv, WaveOK
  <2>3. QED BY <1>1, <1>5, <2>1, <2>2 DEF JobsOK
<1>19. CoolOK'
  <2> SUFFICES ASSUME crashes = 0 PROVE CoolOK'
    BY <1>1 DEF CoolOK, world
  <2>1. cooling \subseteq remembered
    BY <1>1, AllRemembered
  <2>2. \A t \in Tasks : job'[t].at = "ready" => t \in Wave
    BY <1>9 DEF NoJob
  <2>3. QED BY <1>1, <1>4, <2>1, <2>2 DEF CoolOK
<1>20. QED
  BY <1>11, <1>12, <1>13, <1>14, <1>15, <1>16, <1>17, <1>18, <1>19 DEF Inv

-----------------------------------------------------------------------------
(* Reducing a wave.                                                          *)

\* What the reduction of the first job of the wave makes of its record.
LEMMA ReducedRecord ==
    ASSUME Inv, Reduce, NEW t, t = Head(selected)
    PROVE  /\ t \in Tasks /\ t \in Wave /\ rec' \in [Tasks -> Record]
           /\ \A u \in Tasks \ {t} : rec'[u] = rec[u]
           /\ rec'[t].attempts = Attempts(t) /\ rec'[t].state # "Pending"
           /\ rec'[t].state = "Succeeded" <=> rec'[t].output # 0
           /\ rec'[t].state = "Succeeded" => rec'[t].attempts > 0
           /\ retained' = retained + rec'[t].output /\ retained' <= MAX_RUN_OUTPUT
           /\ termination' \in RunTermination
           /\ \/ termination' \in {"Cancelled", "TimedOut"} /\ rec'[t].state = termination'
              \/ termination' = "ResourceLimit" /\ Settled(rec'[t])
              \/ termination' \in {"Failed", termination}
<1> DEFINE new == Merged(t)
           kept == new.state # "Succeeded" \/ FitsRun(new.output)
           lost == [new EXCEPT !.state = "Failed", !.output = 0]
<1>1. /\ selected # <<>> /\ phase = "wave" /\ \A u \in Wave : job[u].at = "done"
      /\ rec' = [rec EXCEPT ![t] = IF kept THEN new ELSE lost]
      /\ retained' = IF kept THEN retained + new.output ELSE retained
      /\ termination' = CASE ~kept -> "ResourceLimit"
                          [] new.state \in {"TimedOut", "Cancelled"} -> new.state
                          [] new.state = "Failed" /\ termination = "Completed" -> "Failed"
                          [] OTHER -> termination
  BY DEF Reduce
<1>2. t \in Tasks /\ t \in Wave
  <2>1. Len(selected) \in Nat \ {0} /\ t = selected[1]
    BY <1>1, SelectedFacts, EmptySeq, LenProperties
  <2>2. 1 \in 1..Len(selected)
    BY <2>1
  <2>3. QED BY <2>1, <2>2, SelectedFacts DEF Wave
<1>3. /\ job[t].record \in Record /\ job[t].record.attempts \in Nat /\ rec[t].attempts \in Nat
      /\ job[t].at = "done" /\ JobOK(t) /\ job[t].record.attempts + rec[t].attempts = Attempts(t)
  BY <1>1, <1>2, JobFacts DEF Record, Attempts
<1>4. /\ new \in Record /\ new.attempts = Attempts(t) /\ new.state = job[t].record.state
      /\ new.output = job[t].record.output /\ (new.retryable <=> job[t].record.retryable)
  <2> DEFINE old == job[t].record
             n == old.attempts + rec[t].attempts
  <2>1. old \in Record /\ n \in Nat /\ new = [old EXCEPT !.attempts = n] /\ n = Attempts(t)
    BY <1>3 DEF Merged
  <2> HIDE DEF old, n, new
  <2>2. /\ new \in Record /\ new.attempts = n /\ new.state = old.state
        /\ new.output = old.output /\ (new.retryable <=> old.retryable)
    BY <2>1 DEF Record
  <2>3. QED BY <2>1, <2>2 DEF old
<1> HIDE DEF new
<1>5. /\ new.state # "Pending" /\ (new.state = "Succeeded" <=> new.output # 0)
      /\ new.state = "Succeeded" => new.attempts > 0 /\ ~new.retryable
  <2>1. /\ job[t].record.state # "Pending"
        /\ job[t].record.state = "Succeeded" <=> job[t].record.output # 0
        /\ job[t].record.state = "Succeeded" =>
             job[t].record.attempts > 0 /\ ~job[t].record.retryable
    BY <1>3 DEF JobOK
  <2>2. job[t].record.attempts > 0 => Attempts(t) > 0
    BY <1>3
  <2>3. QED BY <1>4, <2>1, <2>2
<1>6. /\ lost \in Record /\ lost.state = "Failed" /\ lost.output = 0
      /\ lost.attempts = new.attempts /\ (lost.retryable <=> new.retryable)
  <2>1. new \in Record /\ 0 \in 0..MaxOutput /\ "Failed" \in TaskState
    BY <1>4, PolicyValid DEF TaskState
  <2> HIDE DEF kept
  <2>2. /\ lost \in Record /\ lost.state = "Failed" /\ lost.output = 0
        /\ lost.attempts = new.attempts
    BY <2>1 DEF Record
  <2>3. lost.retryable <=> new.retryable
    BY <2>1 DEF Record
  <2>4. QED BY <2>2, <2>3
<1> HIDE DEF lost
<1>7. /\ rec' \in [Tasks -> Record] /\ rec'[t] = (IF kept THEN new ELSE lost)
      /\ \A u \in Tasks \ {t} : rec'[u] = rec[u]
  BY <1>1, <1>2, <1>4, <1>6 DEF Inv, TypeOK
<1>8. /\ retained \in Nat /\ new.output \in Nat /\ retained <= MAX_RUN_OUTPUT
      /\ termination \in RunTermination /\ new.state \in TaskState
  <2>1. retained \in Nat /\ retained <= MAX_RUN_OUTPUT /\ termination \in RunTermination
    BY DEF Inv, TypeOK, RunOK, Within
  <2>2. new.output \in 0..MaxOutput /\ new.state \in TaskState
    BY <1>4 DEF Record
  <2>3. QED BY <2>1, <2>2
<1>9. CASE ~kept
  <2>1. rec'[t] = lost /\ retained' = retained /\ termination' = "ResourceLimit"
    BY <1>1, <1>7, <1>9
  <2>2. Settled(lost)
    BY <1>5, <1>6, <1>9 DEF Settled, Terminal, TaskState
  <2>3. retained + 0 = retained
    BY <1>8
  <2>4. "ResourceLimit" \in RunTermination
    BY DEF RunTermination
  <2>5. QED BY <1>2, <1>4, <1>6, <1>7, <1>8, <2>1, <2>2, <2>3, <2>4
<1>10. CASE kept
  <2>1. rec'[t] = new /\ retained' = retained + new.output
    BY <1>1, <1>7, <1>10
  <2>2. retained + new.output <= MAX_RUN_OUTPUT
    BY <1>5, <1>8, <1>10, ConstantFacts DEF FitsRun
  <2>3. \/ new.state \in {"TimedOut", "Cancelled"} /\ termination' = new.state
        \/ termination' \in {"Failed", termination}
    BY <1>1, <1>10
  <2>4. termination' \in RunTermination
    BY <1>8, <2>3 DEF RunTermination
  <2>5. QED BY <1>2, <1>4, <1>5, <1>7, <2>1, <2>2, <2>3, <2>4
<1>11. QED BY <1>9, <1>10

\* The wave without its first task.
LEMMA WaveShrinks ==
    ASSUME Inv, phase = "wave", phase' = "wave", selected # <<>>, selected' = Tail(selected)
    PROVE  /\ Wave' = Wave \ {Head(selected)} /\ WaveOK' /\ selected' \in Seq(Tasks)
           /\ Head(selected) \in Wave
<1>1. Len(selected) \in Nat \ {0} /\ Head(selected) = selected[1]
  BY SelectedFacts, EmptySeq, LenProperties
<1>2. /\ selected' \in Seq(Tasks) /\ Len(selected') = Len(selected) - 1
      /\ \A i \in 1..Len(selected') : selected'[i] = selected[i + 1]
  BY SelectedFacts, HeadTailProperties
<1>3. \A i, j \in 1..Len(selected) : selected[i] = selected[j] => i = j
  BY DEF Inv, WaveOK
<1>4. \A i \in 1..Len(selected') : i + 1 \in 1..Len(selected) /\ i + 1 # 1
  BY <1>1, <1>2
<1>5. 1 \in 1..Len(selected)
  BY <1>1
<1>6. \A i \in 1..Len(selected) : i # 1 => i - 1 \in 1..Len(selected') /\ (i - 1) + 1 = i
  BY <1>1, <1>2
<1>7. Wave' \subseteq Wave \ {Head(selected)}
  <2> SUFFICES ASSUME NEW i \in 1..Len(selected')
               PROVE  selected'[i] \in Wave /\ selected'[i] # selected[1]
    BY <1>1 DEF Wave
  <2>1. selected'[i] = selected[i + 1] /\ i + 1 \in 1..Len(selected) /\ i + 1 # 1
    BY <1>2, <1>4
  <2>2. QED BY <1>3, <1>5, <2>1 DEF Wave
<1>8. Wave \ {Head(selected)} \subseteq Wave'
  <2> SUFFICES ASSUME NEW i \in 1..Len(selected), selected[i] # selected[1]
               PROVE  selected[i] \in Wave'
    BY <1>1 DEF Wave
  <2>1. i - 1 \in 1..Len(selected') /\ selected'[i - 1] = selected[i]
    BY <1>2, <1>6
  <2>2. QED BY <2>1 DEF Wave
<1>9. \A i, j \in 1..Len(selected') : selected'[i] = selected'[j] => i = j
  <2> SUFFICES ASSUME NEW i \in 1..Len(selected'), NEW j \in 1..Len(selected'),
                      selected'[i] = selected'[j]
               PROVE  i = j
    OBVIOUS
  <2>1. i + 1 = j + 1
    BY <1>2, <1>3, <1>4
  <2>2. QED BY <2>1
<1>10. WaveOK'
  BY <1>7, <1>9 DEF Inv, WaveOK
<1>11. QED BY <1>1, <1>2, <1>5, <1>7, <1>8, <1>10 DEF Wave

LEMMA ReduceInv == ASSUME Inv, Reduce PROVE Inv'
<1> DEFINE t == Head(selected)
<1>1. /\ phase = "wave" /\ phase' = "wave" /\ selected # <<>> /\ selected' = Tail(selected)
      /\ remembered' = IF job[t].record.attempts > 0 /\ RateKey[t] # NoKey
                         THEN remembered \cup {RateKey[t]} ELSE remembered
      /\ job' = [job EXCEPT ![t] = NoJob]
      /\ UNCHANGED <<cursor, changed, waveCost, overBudget, overInput, waitFor, consumed,
                     cooling, disk, world>>
  BY DEF Reduce
<1>2. /\ t \in Tasks /\ t \in Wave /\ rec' \in [Tasks -> Record]
      /\ \A u \in Tasks \ {t} : rec'[u] = rec[u]
      /\ rec'[t].attempts = Attempts(t) /\ rec'[t].state # "Pending"
      /\ rec'[t].state = "Succeeded" <=> rec'[t].output # 0
      /\ rec'[t].state = "Succeeded" => rec'[t].attempts > 0
      /\ retained' = retained + rec'[t].output /\ retained' <= MAX_RUN_OUTPUT
      /\ termination' \in RunTermination
      /\ \/ termination' \in {"Cancelled", "TimedOut"} /\ rec'[t].state = termination'
         \/ termination' = "ResourceLimit" /\ Settled(rec'[t])
         \/ termination' \in {"Failed", termination}
  BY ReducedRecord
<1>3. /\ Wave' = Wave \ {t} /\ WaveOK' /\ selected' \in Seq(Tasks)
  BY <1>1, WaveShrinks
<1> HIDE DEF t
<1>4. /\ rec \in [Tasks -> Record] /\ RecordsOK(rec) /\ Told(rec, termination)
      /\ Within(rec, consumed) /\ retained = Total(Outputs(rec), Tasks) /\ retained \in Nat
  BY DEF Inv, TypeOK, RunOK
<1>5. JobOK(t) /\ job[t].at # "none"
  BY <1>1, <1>2 DEF Inv, JobsOK
<1>6. /\ rec[t].state = "Pending" /\ rec[t].output = 0 /\ Attempts(t) <= MaxRetries[t] + 1
      /\ \A d \in Deps[t] : rec[d].state = "Succeeded"
  BY <1>2, <1>4, <1>5 DEF JobOK, Ready, Pending, Succeeded, RecordsOK
<1>7. \A u \in Tasks : rec[u].state # "Pending" => u # t /\ rec'[u] = rec[u]
  BY <1>2, <1>6
<1>8. job'[t] = NoJob /\ job' \in [Tasks -> Job] /\ \A u \in Tasks \ {t} : job'[u] = job[u]
  BY <1>1, <1>2, FreshIs DEF Inv, TypeOK
<1>9. rec'[t].output \in Nat
  BY <1>2, PolicyValid DEF Record
<1>10. TypeOK'
  <2>1. retained' \in Nat
    BY <1>2, <1>4, <1>9
  <2>2. remembered' \subseteq Keys
    BY <1>1, <1>2, ConstantFacts DEF Inv, TypeOK
  <2>3. UNCHANGED <<cursor, changed, waveCost, overBudget, overInput, waitFor, consumed,
                    cooling, saved, savedRate, cancelled, late, crashes>> /\ phase' = "wave"
    BY <1>1 DEF disk, world
  <2>4. QED BY <1>2, <1>3, <1>8, <2>1, <2>2, <2>3 DEF Inv, TypeOK
<1>11. RecordsOK(rec')
  <2> SUFFICES ASSUME NEW u \in Tasks
               PROVE  /\ rec'[u].attempts <= MaxRetries[u] + 1
                      /\ rec'[u].state = "Succeeded" <=> rec'[u].output # 0
                      /\ rec'[u].state = "Succeeded" =>
                           /\ rec'[u].attempts > 0
                           /\ \A d \in Deps[u] : rec'[d].state = "Succeeded"
    BY DEF RecordsOK
  <2>1. CASE u = t
    <3>1. \A d \in Deps[t] : rec'[d].state = "Succeeded"
      BY <1>2, <1>6, <1>7, ConstantFacts
    <3>2. QED BY <1>2, <1>6, <2>1, <3>1
  <2>2. CASE u # t
    <3>1. /\ rec[u].attempts <= MaxRetries[u] + 1
          /\ rec[u].state = "Succeeded" <=> rec[u].output # 0
          /\ rec[u].state = "Succeeded" =>
               rec[u].attempts > 0 /\ \A d \in Deps[u] : rec[d].state = "Succeeded"
      BY <1>4 DEF RecordsOK
    <3>2. \A d \in Deps[u] : rec[d].state = "Succeeded" => rec'[d].state = "Succeeded"
      BY <1>7, ConstantFacts
    <3>3. rec'[u] = rec[u]
      BY <1>2, <2>2
    <3>4. QED BY <3>1, <3>2, <3>3
  <2>3. QED BY <2>1, <2>2
<1>12. Told(rec', termination')
  <2>1. Told(rec', termination)
    <3>1. \A u \in Tasks : Settled(rec[u]) => rec'[u] = rec[u]
      BY <1>7 DEF Settled, Terminal
    <3>2. \A u \in Tasks : rec[u].state \in {"Cancelled", "TimedOut"} => rec'[u] = rec[u]
      BY <1>7
    <3>3. QED BY <1>4, <3>1, <3>2 DEF Told
  <2>2. CASE termination' \in {"Cancelled", "TimedOut"} /\ rec'[t].state = termination'
    BY <1>2, <2>2 DEF Told
  <2>3. CASE termination' = "ResourceLimit" /\ Settled(rec'[t])
    BY <1>2, <2>3 DEF Told
  <2>4. CASE termination' = "Failed"
    BY <2>4 DEF Told
  <2>5. CASE termination' = termination
    BY <2>1, <2>5
  <2>6. QED BY <1>2, <2>2, <2>3, <2>4, <2>5
<1>13. RunOK'
  <2>1. /\ Outputs(rec) \in [Tasks -> Nat] /\ Outputs(rec') \in [Tasks -> Nat]
    BY <1>2, <1>4, OutputsAreSizes
  <2>2. /\ \A u \in Tasks \ {t} : Outputs(rec')[u] = Outputs(rec)[u]
        /\ Outputs(rec)[t] = 0 /\ Outputs(rec')[t] = rec'[t].output
    BY <1>2, <1>6 DEF Outputs
  <2>3. Total(Outputs(rec'), Tasks) = Total(Outputs(rec), Tasks) + Outputs(rec')[t]
    BY <1>2, <2>1, <2>2, TotalUpdate
  <2>4. retained' = Total(Outputs(rec'), Tasks)
    BY <1>2, <1>4, <2>2, <2>3
  <2>5. Within(rec', consumed')
    BY <1>1, <1>2, <1>4, <2>4 DEF Within
  <2>6. QED BY <1>11, <1>12, <2>4, <2>5 DEF RunOK
<1>14. SavedOK'
  <2>1. \A u \in Tasks : saved.rec[u].state = "Succeeded" => rec'[u] = saved.rec[u]
    BY <1>7 DEF Inv, SavedOK
  <2>2. QED BY <1>1, <2>1 DEF Inv, SavedOK, disk
<1>15. PaidOK'
  <2>1. Attempted(rec) \in SUBSET Tasks /\ Wave \in SUBSET Tasks
    BY <1>4, OutputsAreSizes, SelectedFacts
  <2>2. Attempted(rec') \cup Wave' \in SUBSET (Attempted(rec) \cup Wave)
    BY <1>2, <1>3 DEF Attempted
  <2>3. /\ Attempted(rec) \cup Wave \in SUBSET Tasks
        /\ Attempted(rec') \cup Wave' \in SUBSET Tasks
    BY <2>1, <2>2
  <2>4. Total(Units, Attempted(rec') \cup Wave') <= Total(Units, Attempted(rec) \cup Wave)
    BY <2>2, <2>3, UnitsAreSizes, TotalMonotone
  <2>5. /\ Total(Units, Attempted(rec') \cup Wave') \in Nat
        /\ Total(Units, Attempted(rec) \cup Wave) \in Nat /\ consumed \in Nat
    BY <2>3, UnitsAreSizes, PileFinite DEF Inv, TypeOK
  <2>6. Total(Units, Attempted(rec) \cup Wave) <= consumed
    BY <1>1 DEF Inv, PaidOK
  <2>7. Total(Units, Attempted(rec') \cup Wave') <= consumed
    BY <2>4, <2>5, <2>6
  <2>8. QED BY <1>1, <2>7 DEF PaidOK
<1>16. SelectOK' /\ EndOK'
  BY <1>1 DEF SelectOK, EndOK
<1>17. ASSUME NEW u \in Tasks PROVE JobOK(u)'
  <2>1. CASE u = t
    <3>1. rec'[t].attempts + 0 <= MaxRetries[t] + 1
      BY <1>2, <1>6 DEF Record
    <3>2. QED BY <1>8, <2>1, <3>1 DEF JobOK, NoJob, NewRecord, Attempts
  <2>2. CASE u # t
    <3>1. job'[u] = job[u] /\ rec'[u] = rec[u] /\ JobOK(u)
      BY <1>2, <1>8, <2>2 DEF Inv
    <3>2. Ready(u) => Ready(u)'
      BY <1>7, <3>1, ConstantFacts DEF Ready, Pending, Succeeded
    <3>3. QED BY <3>1, <3>2 DEF JobOK, Attempts
  <2>3. QED BY <2>1, <2>2
<1>18. JobsOK'
  <2>1. \A u \in Tasks : job'[u].at # "none" <=> u # t /\ job[u].at # "none"
    BY <1>8 DEF NoJob
  <2>2. \A u \in Tasks : job[u].at # "none" <=> u \in Wave
    BY <1>1 DEF Inv, JobsOK
  <2>3. QED BY <1>1, <1>3, <2>1, <2>2 DEF Inv, JobsOK
<1>19. CoolOK'
  <2> SUFFICES ASSUME crashes = 0 PROVE CoolOK'
    BY <1>1 DEF CoolOK, world
  <2>1. ASSUME NEW k \in cooling \ remembered'
        PROVE  \E u \in Tasks : RateKey[u] = k /\ job'[u].record.attempts > 0
    <3>1. k \notin remembered /\ k # NoKey
      BY <1>1, ConstantFacts DEF Inv, TypeOK
    <3>2. PICK u \in Tasks : RateKey[u] = k /\ job[u].record.attempts > 0
      BY <3>1 DEF Inv, CoolOK
    <3>3. u # t
      BY <1>1, <2>1, <3>1, <3>2
    <3>4. QED BY <1>8, <3>2, <3>3
  <2>2. ASSUME NEW u \in Tasks, job'[u].at = "ready", job'[u].record.attempts = 0
        PROVE  RateKey[u] \notin cooling
    <3>1. u # t /\ job'[u] = job[u]
      BY <1>8, <2>2 DEF NoJob
    <3>2. QED BY <2>2, <3>1 DEF Inv, CoolOK
  <2>3. QED BY <1>1, <2>1, <2>2 DEF CoolOK
<1>20. QED
  BY <1>3, <1>10, <1>13, <1>14, <1>15, <1>16, <1>17, <1>18, <1>19 DEF Inv

LEMMA ReducedInv == ASSUME Inv, Reduced PROVE Inv'
<1>1. /\ phase = "wave" /\ selected = <<>> /\ phase' \in {"checkpoint", "top"}
      /\ UNCHANGED <<loop, run, job, cooling, remembered, disk, world>>
  BY DEF Reduced
<1>2. Wave = {} /\ Wave' = {}
  BY <1>1 DEF Wave, loop
<1>3. TypeOK'
  BY <1>1 DEF Inv, TypeOK, loop, run, disk, world
<1>4. RunOK' /\ SavedOK'
  BY <1>1 DEF Inv, RunOK, SavedOK, run, disk
<1>5. PaidOK'
  <2>1. Attempted(rec) \cup Wave = Attempted(rec)
    BY <1>2
  <2>2. Total(Units, Attempted(rec)) <= consumed
    BY <1>1, <2>1 DEF Inv, PaidOK
  <2>3. QED BY <1>1, <2>2 DEF PaidOK, run
<1>6. WaveOK' /\ SelectOK' /\ EndOK'
  BY <1>1 DEF WaveOK, SelectOK, EndOK, loop
<1>7. \A t \in Tasks : JobOK(t)'
  BY <1>1 DEF Inv, JobOK, Attempts, Ready, Pending, Succeeded, run
<1>8. JobsOK'
  BY <1>1, <1>2 DEF Inv, JobsOK
<1>9. CoolOK'
  BY <1>1 DEF Inv, CoolOK, world
<1>10. QED BY <1>3, <1>4, <1>5, <1>6, <1>7, <1>8, <1>9 DEF Inv

-----------------------------------------------------------------------------
(* Every step.                                                               *)

LEMMA NextInv == Inv /\ [Next]_vars => Inv'
<1> SUFFICES ASSUME Inv, [Next]_vars PROVE Inv'
  OBVIOUS
<1>1. CASE Scheduler
  <2>1. CASE TopDone \/ TopStopped \/ TopSweep \/ Sweep \/ SweepEnds
    BY <2>1, TopDoneInv, TopStoppedInv, TopSweepInv, SweepInv, SweepEndsInv
  <2>2. CASE Consider \/ Dispatch \/ BeginWait \/ NoFrontier \/ EndWait
    BY <2>2, ConsiderInv, DispatchInv, BeginWaitInv, NoFrontierInv, EndWaitInv
  <2>3. CASE Reduce \/ Reduced \/ Checkpoint \/ Finish \/ FinalCheckpoint
    BY <2>3, ReduceInv, ReducedInv, CheckpointInv, FinishInv, FinalCheckpointInv
  <2>4. QED BY <1>1, <2>1, <2>2, <2>3 DEF Scheduler
<1>2. CASE \E t \in Tasks : JobStep(t)
  BY <1>2, JobStepInv
<1>3. CASE Cancel
  BY <1>3, WorldKeeps DEF Cancel, Inv, TypeOK
<1>4. CASE DeadlinePasses
  BY <1>4, WorldKeeps DEF DeadlinePasses, Inv, TypeOK
<1>5. ASSUME NEW k \in Keys, IntervalPasses(k) PROVE Inv'
  BY <1>5, WorldKeeps DEF IntervalPasses, Inv, TypeOK, world
<1>6. CASE Crash
  BY <1>6, CrashInv
<1>7. CASE Resume
  BY <1>7, ResumeInv
<1>8. CASE Done \/ UNCHANGED vars
  <2>1. UNCHANGED vars
    BY <1>8 DEF Done
  <2>2. QED BY <2>1, WorldKeeps DEF vars, world, Inv, TypeOK
<1>9. QED BY <1>1, <1>2, <1>3, <1>4, <1>5, <1>6, <1>7, <1>8 DEF Next

LEMMA AlwaysInv == Spec => []Inv
BY InitInv, NextInv, PTL DEF Spec

\* For every graph and policy, over waves, failures, resumes and merges, a run stays within
\* its budget (which every attempted task was paid from), its output limit and its
\* exclusive resources and rate groups.
THEOREM RunsKeepLimits == Spec => []LimitsKept
<1>1. Inv => LimitsKept
  <2> SUFFICES ASSUME Inv PROVE LimitsKept
    OBVIOUS
  <2>1. TypeOK
    BY DEF Inv
  <2>2. BudgetKept
    BY DEF Inv, RunOK, Within, PaidOK, BudgetKept
  <2>3. OutputsCounted
    BY DEF Inv, RunOK, Within, RecordsOK, OutputsCounted, Succeeded
  <2>4. Exclusive
    BY DEF Inv, JobsOK, Apart, Exclusive
  <2>5. QED BY <2>1, <2>2, <2>3, <2>4 DEF LimitsKept
<1>2. QED BY <1>1, AlwaysInv, PTL

\* For every graph, a task is run or counted as done only after every task it depends on has
\* succeeded, whatever crashes and resumes lie between.
THEOREM DependenciesRunFirst == Spec => []DependenciesFirst
<1>1. Inv => DependenciesFirst
  <2> SUFFICES ASSUME Inv, NEW t \in Tasks, job[t].at # "none" \/ Succeeded(t)
               PROVE  \A d \in Deps[t] : Succeeded(d)
    BY DEF DependenciesFirst
  <2>1. CASE job[t].at # "none"
    BY <2>1 DEF Inv, JobOK, Ready
  <2>2. CASE Succeeded(t)
    BY <2>2 DEF Inv, RunOK, RecordsOK, Succeeded
  <2>3. QED BY <2>1, <2>2
<1>2. QED BY <1>1, AlwaysInv, PTL

\* No checkpoint the engine wrote is refused by the checks execute_inner makes of one.
THEOREM OwnCheckpointsAreAccepted == Spec => []OwnCheckpointAccepted
<1>1. Inv => OwnCheckpointAccepted
  BY DEF Inv, SavedOK, RecordsOK, Within, OwnCheckpointAccepted
<1>2. QED BY <1>1, AlwaysInv, PTL

\* A finished run has settled every task, and its termination tells the truth.
THEOREM TerminationsAreTrue == Spec => []TerminationTrue
<1>1. Inv => TerminationTrue
  <2> SUFFICES ASSUME Inv, phase = "done" PROVE TerminationTrue
    BY DEF TerminationTrue
  <2>1. AllTerminal /\ (termination = "Completed" => \A t \in Tasks : Succeeded(t))
    BY DEF Inv, EndOK
  <2>2. Told(rec, termination)
    BY DEF Inv, RunOK
  <2>3. termination = "ResourceLimit" => \E t \in Tasks : Failing(t)
    BY <2>2 DEF Told, Settled, Failing
  <2>4. QED BY <2>1, <2>2, <2>3 DEF TerminationTrue, Told
<1>2. QED BY <1>1, AlwaysInv, PTL

\* A success in a persisted checkpoint is never lost or run again.
THEOREM SavedSuccessesAreKept == Spec => SavedSuccessKept
<1> DEFINE Kept == \A t \in Tasks :
                      saved.rec[t].state = "Succeeded" =>
                         saved'.rec[t] = saved.rec[t] /\ job'[t].at # "running"
<1>1. Inv /\ [Next]_vars => [Kept]_vars
  <2> SUFFICES ASSUME Inv, [Next]_vars, NEW t \in Tasks, saved.rec[t].state = "Succeeded"
               PROVE  saved'.rec[t] = saved.rec[t] /\ job'[t].at # "running"
    OBVIOUS
  <2>1. Inv'
    BY NextInv
  <2>2. saved'.rec[t] = saved.rec[t]
    <3>1. saved' = saved \/ saved' = Snapshot
      BY DEF Next, Scheduler, TopDone, TopStopped, TopSweep, Sweep, SweepEnds, Consider,
             Dispatch, BeginWait, NoFrontier, EndWait, Reduce, Reduced, Checkpoint, Finish,
             FinalCheckpoint, JobStep, JobStops, Attempt, HandlerReturns, HandlerSucceeds,
             HandlerTimesOut, HandlerFails, HandlerRetries, Cancel, DeadlinePasses,
             IntervalPasses, Crash, Resume, Done, vars, disk
    <3>2. rec[t] = saved.rec[t]
      BY DEF Inv, SavedOK
    <3>3. QED BY <3>1, <3>2 DEF Snapshot
  <2>3. rec'[t] = saved'.rec[t]
    BY <2>1, <2>2 DEF Inv, SavedOK
  <2>4. ~Ready(t)'
    BY <2>2, <2>3 DEF Ready, Pending
  <2>5. QED BY <2>1, <2>2, <2>4 DEF Inv, JobOK
<1>2. QED BY <1>1, AlwaysInv, PTL DEF Spec, SavedSuccessKept

\* In one process, no two starts of a rate group are closer than its interval.
THEOREM StartsAreSpaced == Spec => Spaced
<1> DEFINE Apace == \A t \in Tasks :
                       crashes = 0 /\ job'[t].record.attempts > job[t].record.attempts =>
                          RateKey[t] \notin cooling
<1>1. Inv /\ [Next]_vars => [Apace]_vars
  <2> SUFFICES ASSUME Inv, [Next]_vars, NEW t \in Tasks, crashes = 0,
                      job'[t].record.attempts > job[t].record.attempts
               PROVE  RateKey[t] \notin cooling
    OBVIOUS
  <2>1. job[t] \in Job /\ job[t].record.attempts \in Nat /\ job \in [Tasks -> Job]
    BY JobFacts DEF Record, Inv, TypeOK
  <2>2. job'[t] # job[t] /\ job'[t] # NoJob
    BY <2>1 DEF NoJob, NewRecord
  <2>3. job' # job /\ ~Resume
    BY <2>2 DEF Resume
  <2>4. CASE Scheduler
    <3>1. Dispatch \/ Reduce
      BY <2>3, <2>4 DEF Scheduler, TopDone, TopStopped, TopSweep, Sweep, SweepEnds, Consider,
         BeginWait, NoFrontier, EndWait, Reduced, Checkpoint, Finish, FinalCheckpoint
    <3>2. job'[t].record.attempts \in {0, job[t].record.attempts}
      <4>1. CASE Dispatch
        BY <4>1 DEF Dispatch, NoJob, NewRecord
      <4>2. CASE Reduce
        BY <2>1, <2>2, <4>2 DEF Reduce
      <4>3. QED BY <3>1, <4>1, <4>2
    <3>3. QED BY <2>1, <3>2
  <2>5. ASSUME NEW u \in Tasks, JobStep(u) PROVE RateKey[t] \notin cooling
    <3>1. CASE Attempt(u)
      <4>1. u = t
        BY <2>1, <2>2, <3>1 DEF Attempt
      <4>2. CASE job[t].record.attempts > 0
        BY <3>1, <4>1, <4>2 DEF Attempt, SpacedRetry
      <4>3. CASE job[t].record.attempts = 0
        BY <3>1, <4>1, <4>3 DEF Attempt, Working, Inv, CoolOK
      <4>4. QED BY <2>1, <4>2, <4>3
    <3>2. CASE ~Attempt(u)
      <4>1. u = t
        BY <2>1, <2>2, <2>5, <3>2 DEF JobStep, JobStops, HandlerReturns, HandlerSucceeds,
           HandlerTimesOut, HandlerFails, HandlerRetries, JobEnds
      <4>2. job[t].record \in Record
        BY <2>1 DEF Job
      <4>3. job'[t].record.attempts = job[t].record.attempts
        <5>1. CASE JobStops(t)
          BY <2>1, <4>2, <5>1 DEF JobStops, JobEnds, Record
        <5>2. CASE HandlerSucceeds(t)
          BY <2>1, <4>2, <5>2 DEF HandlerSucceeds, JobEnds, Record
        <5>3. CASE HandlerTimesOut(t)
          BY <2>1, <4>2, <5>3 DEF HandlerTimesOut, JobEnds, Record
        <5>4. CASE HandlerFails(t)
          <6>1. CASE \E why \in {"Failed", "Cancelled"} :
                       JobEnds(t, [job[t].record EXCEPT !.state = why])
            BY <2>1, <4>2, <6>1 DEF JobEnds, Record
          <6>2. CASE JobEnds(t, [job[t].record EXCEPT !.state = "Failed", !.retryable = TRUE])
            BY <2>1, <4>2, <6>2 DEF JobEnds, Record
          <6>3. QED BY <5>4, <6>1, <6>2 DEF HandlerFails
        <5>5. CASE HandlerRetries(t)
          BY <2>1, <4>2, <5>5 DEF HandlerRetries, Record
        <5>6. QED BY <2>5, <3>2, <4>1, <5>1, <5>2, <5>3, <5>4, <5>5 DEF JobStep, HandlerReturns
      <4>4. QED BY <2>1, <4>3
    <3>3. QED BY <3>1, <3>2
  <2>6. QED
    BY <2>3, <2>4, <2>5 DEF Next, Cancel, DeadlinePasses, IntervalPasses, Crash, Done, vars
<1>2. QED BY <1>1, AlwaysInv, PTL DEF Spec, Spaced
=============================================================================
