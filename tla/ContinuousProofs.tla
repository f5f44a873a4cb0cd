-------------------------- MODULE ContinuousProofs --------------------------
(***************************************************************************)
(* Continuous collection, for any targets, limits and histories: retention  *)
(* works from a list that is out of date and still deletes only what is     *)
(* superseded, alerts are decided once, and reports are true and archived.  *)
(***************************************************************************)
EXTENDS Continuous, FiniteSetTheorems, SequenceTheorems, WellFoundedInduction, TLAPS

-----------------------------------------------------------------------------
(* The inductive invariant. *)

Listing == {"collect", "running", "decide", "retain"}
Reporting == {"analyse", "check", "archive", "write"}
Normalising == {"normalise"} \cup Reporting

Job == [scan : Scans \cup {NoScan}, hint : 0..MaxActs + 1, seen : 0..MaxActs + 1,
        state : {"none", "current", "stale"}, retry : BOOLEAN]

\* The types TypeOK leaves open.
Typed ==
    /\ TypeOK
    /\ job \in Job
    /\ last \in [Targets -> Report] /\ before \in [Targets -> Report]
    /\ pc \in {"collect", "running", "decide"} => todo \subseteq Configured
    /\ pc \in {"retain"} \cup Normalising => todo \subseteq Created
    /\ pc \in {"running"} \cup Reporting => job.scan \in Created

StoreOK ==
    /\ \E n \in 0..MaxScans : Created = 1..n
    /\ \A s \in Scans :
         /\ s \notin Created => status[s] = "NONE"
         /\ status[s] \in {"NONE", "RUNNING"} => revision[s] = 0
         /\ revision[s] <= acts + 1
         /\ s \in removed => status[s] = "NONE"
         /\ status[s] = "FINISHED" => s \in finished
         /\ status[s] \in {"RUNNING", "ABORTED"} => s \notin finished

\* What the list says of the scans, however old it is.
ListOK ==
    \A s \in Scans :
        /\ records[s] # "NONE" => s \in Created
        /\ records[s] = "FINISHED" => s \in finished
        /\ records[s] = "ABORTED" => s \notin finished
        /\ records[s] \in {"FINISHED", "ABORTED"} => status[s] # "RUNNING"

Gone(s) == s \in Created /\ status[s] = "NONE" /\ s \notin removed

\* Newer scans make a scan neither its target's newest, nor its newest finished one, nor
\* one that an alert still to be decided compares with: the alert over it is decided, or
\* the operator deleted the scan it would be compared with.
Superseded(s) ==
    /\ \E u \in Of(target[s]) : u > s
    /\ s \in finished =>
         \E u \in finished \cap Of(target[s]) : u > s /\ u \in ToSet(decisions) \cup removed

\* The alert over the finished scans the list holds of t is decided or cannot be.
Passed(t) ==
    Earlier(t) # NoScan =>
        Later(t) \in ToSet(decisions) \cup removed \/ Earlier(t) \in removed

PlanOK ==
    /\ \A s \in Scans : Gone(s) => Superseded(s)
    /\ pc = "retain" =>
         \A s \in todo : status[s] # "RUNNING" /\ (Superseded(s) \/ s \in removed)
    /\ pc = "decide" => \A t \in Configured \ todo : Passed(t)
    /\ pc \in {"collect", "running", "decide"} =>
         \A s \in Scans : records[s] # "NONE" => ~Gone(s)

\* Retention leaves the newest scan the list holds of a target.
LatestOK ==
    pc \in Listing =>
        /\ \A s \in Scans : records[s] # "NONE" /\ Gone(s) =>
              \E u \in Of(target[s]) : u > s /\ records[u] # "NONE"
        /\ pc = "retain" => \A s \in todo : \E u \in Of(target[s]) : u > s
           /\ records[u] # "NONE"

\* The history kept is the end of what was decided.  In record_alerts, what was decided
\* since the history was read is of targets already passed.
AlertOK ==
    /\ ToSet(decisions) \subseteq finished
    /\ Len(alerts) = IF Len(decisions) <= MAX_ALERT_HISTORY_ENTRIES
                     THEN Len(decisions) ELSE MAX_ALERT_HISTORY_ENTRIES
    /\ \A i \in 1..Len(alerts) : alerts[i] = decisions[Len(decisions) - Len(alerts) + i]
    /\ decided \subseteq ToSet(decisions)
    /\ pc = "decide" =>
         \E k \in 0..Len(decisions) : \A i \in 1..Len(decisions) :
            /\ i > k => target[decisions[i]] \notin todo
            /\ i <= k /\ i + MAX_ALERT_HISTORY_ENTRIES > k => decisions[i] \in decided
    /\ DecidedOnce

\* What is being normalised is the newest the list held of its target, and the revision
\* it was read at is not from the future.
JobOK ==
    /\ pc \in Normalising =>
         /\ \A s \in todo : status[s] # "RUNNING" /\ ~Gone(s)
         /\ \A s, u \in todo : target[s] = target[u] => s = u
    /\ pc \in Reporting =>
         /\ status[job.scan] # "RUNNING" /\ ~Gone(job.scan)
         /\ \A s \in todo : target[s] # target[job.scan]
         /\ status[job.scan] # "NONE" => job.hint <= revision[job.scan]
    /\ pc = "check" /\ status[job.scan] # "NONE" =>
         job.hint <= job.seen /\ job.seen <= revision[job.scan]
    /\ pc \in {"archive", "write"} /\ job.state = "current" => job.seen = job.hint

\* Scans of t the cycle may still write a report of.
Candidates(t) ==
    {s \in Of(t) : pc \in Normalising /\ (s \in todo \/ (pc \in Reporting /\ s = job.scan))}

\* t has a report, and the operator deleted none of its scans.
Whole(t) == removed \cap Of(t) = {} /\ last[t].state = "current"

\* The evidence of the last report has changed.
Renewed(t) == status[last[t].scan] # "NONE" /\ revision[last[t].scan] > last[t].hint

\* The slot holds the last report or a marker.
SlotOK(t) ==
    /\ last[t].state # "stale"
    /\ last[t].state = "current" => last[t].scan \in Of(t)
    /\ slot[t].state = "current" => slot[t] = last[t] /\ slot[t].seen = slot[t].hint
    /\ Whole(t) /\ status[last[t].scan] # "NONE" => last[t].hint <= revision[last[t].scan]

\* Nothing the cycle holds is older than the last report, and where the report was
\* invalidated although its evidence is as it was, all of it is newer.
Ahead(t) ==
    /\ Whole(t) =>
         /\ \A s \in Candidates(t) : s >= last[t].scan
         /\ pc \in Listing => \E s \in Of(t) : s >= last[t].scan /\ records[s] # "NONE"
    /\ Whole(t) /\ slot[t].state # "current" /\ ~Renewed(t) =>
         /\ \E u \in Of(t) : u > last[t].scan
         /\ \A s \in Candidates(t) : s > last[t].scan
         /\ pc \in Listing => \E s \in Of(t) : s > last[t].scan /\ records[s] # "NONE"
    /\ Whole(t) /\ pc \in Reporting /\ target[job.scan] = t =>
         job.scan > last[t].scan \/ job.hint > last[t].hint

Writing(t) == pc = "write" /\ target[job.scan] = t

\* Until a report is replaced, and where its replacement may have been cut short, what was
\* archived is the last one.
ArchiveOK(t) ==
    removed \cap Of(t) = {} =>
        previous[t] = IF slot[t].state = "current" /\ t \notin torn /\ ~Writing(t)
                      THEN before[t] ELSE last[t]

ReportsOK == \A t \in Targets : SlotOK(t) /\ Ahead(t) /\ ArchiveOK(t)

\* The inductive invariant.
Inv ==
    /\ Typed /\ StoreOK
    /\ ListOK /\ PlanOK /\ LatestOK
    /\ AlertOK
    /\ JobOK /\ ReportsOK

-----------------------------------------------------------------------------
(* Operators. *)

\* The bounds are naturals.
LEMMA Bounds ==
    /\ MaxScans \in Nat /\ MaxActs \in Nat /\ MaxCrashes \in Nat
    /\ MAX_ALERT_HISTORY_ENTRIES \in Nat \ {0}
  BY ContinuousParameters

\* The types of what the store keeps.
LEMMA StoreTypes ==
    ASSUME Typed
    PROVE  /\ status \in [Scans -> Status] /\ target \in [Scans -> Targets \cup {NoTarget}]
           /\ revision \in [Scans -> 0..MaxActs + 1] /\ observed \in [Scans -> 0..MaxActs + 1]
           /\ usable \subseteq Created /\ mine \subseteq Created
           /\ finished \subseteq Created /\ removed \subseteq Created
           /\ acts \in Nat /\ acts \in 0..MaxActs
  <1>1. acts \in 0..MaxActs
    BY DEF Typed, TypeOK
  <1>2. acts \in Nat
    BY <1>1, Bounds
  <1> QED
    BY <1>1, <1>2 DEF Typed, TypeOK

\* A non-empty set of naturals has a least element.
LEMMA LeastExists ==
    ASSUME NEW S, S \subseteq Nat, S # {}
    PROVE  \E x \in S : \A y \in S : x <= y
  <1> DEFINE R == OpToRel(<, Nat)
  <1>1. IsWellFoundedOn(R, Nat)
    BY NatLessThanWellFounded
  <1>2. \A x, y \in Nat : y < x => <<y, x>> \in R
    BY DEF OpToRel
  <1> HIDE DEF R
  <1>3. PICK x \in S : \A y \in S : ~ (<<y, x>> \in R)
    BY <1>1, WFMin, Zenon
  <1>4. \A y \in S : ~ (y < x)
    BY <1>2, <1>3
  <1> QED
    BY <1>4

\* A non-empty set of scans has a newest one.
LEMMA MaxExists ==
    ASSUME NEW S \in SUBSET Scans, S # {}
    PROVE  \E x \in S : \A y \in S : x >= y
  <1> DEFINE D == {MaxScans - x : x \in S}
  <1>1. MaxScans \in Nat /\ \A x \in S : x \in 1..MaxScans
    BY ContinuousParameters DEF Scans
  <1>2. \A x \in S : MaxScans - x \in Nat
    BY <1>1
  <1>3. D \subseteq Nat
    BY <1>2
  <1>4. D # {}
    OBVIOUS
  <1> HIDE DEF D
  <1>5. PICK d \in D : \A e \in D : d <= e
    BY <1>3, <1>4, LeastExists
  <1>6. PICK x \in S : d = MaxScans - x
    BY <1>5 DEF D
  <1>7. \A y \in S : MaxScans - x <= MaxScans - y
    BY <1>5, <1>6 DEF D
  <1> QED
    BY <1>1, <1>7

\* What Newest and Min return.
LEMMA NewestOf ==
    ASSUME NEW S \in SUBSET Scans
    PROVE  /\ S = {} => Newest(S) = NoScan
           /\ S # {} => Newest(S) \in S /\ \A y \in S : Newest(S) >= y
           /\ Newest(S) # NoScan <=> S # {}
           /\ Newest(S) \in Scans \cup {NoScan}
  <1>1. S # {} => Newest(S) \in S /\ \A y \in S : Newest(S) >= y
    BY MaxExists DEF Newest, Max
  <1>2. NoScan \notin Scans
    BY DEF Scans, NoScan
  <1> QED
    BY <1>1, <1>2 DEF Newest

LEMMA MinOf ==
    ASSUME NEW S \in SUBSET Scans, S # {}
    PROVE  Min(S) \in S
  <1>1. S \subseteq Nat
    BY ContinuousParameters DEF Scans
  <1> QED
    BY <1>1, LeastExists DEF Min

\* The elements of a sequence.
LEMMA InSeq ==
    ASSUME NEW S, NEW q \in Seq(S)
    PROVE  /\ ToSet(q) \subseteq S
           /\ \A x : x \in ToSet(q) <=> \E i \in 1..Len(q) : q[i] = x
  <1>1. DOMAIN q = 1..Len(q)
    BY LenProperties
  <1>2. \A i \in 1..Len(q) : q[i] \in S
    BY ElementOfSeq
  <1> QED
    BY <1>1, <1>2 DEF ToSet

\* append_history keeps the newest entries.
LEMMA AppendedOf ==
    ASSUME alerts \in Seq(Scans), NEW s \in Scans
    PROVE  \E k \in Nat :
             /\ k = IF Len(alerts) + 1 <= MAX_ALERT_HISTORY_ENTRIES
                    THEN Len(alerts) + 1 ELSE MAX_ALERT_HISTORY_ENTRIES
             /\ Appended(s) \in Seq(Scans)
             /\ Len(Appended(s)) = k
             /\ \A i \in 1..k : Appended(s)[i] = Append(alerts, s)[(Len(alerts) + 1) - k + i]
  <1> DEFINE all == Append(alerts, s)
             n == Len(alerts) + 1
             k == IF n <= MAX_ALERT_HISTORY_ENTRIES THEN n ELSE MAX_ALERT_HISTORY_ENTRIES
  <1>1. all \in Seq(Scans) /\ Len(all) = n /\ n \in Nat
    BY AppendProperties, LenProperties
  <1>2. k \in 1..n
    BY <1>1, ContinuousParameters, LenProperties
  <1>3. Min({n, MAX_ALERT_HISTORY_ENTRIES}) = k
    BY <1>1, ContinuousParameters DEF Min
  <1>4. Appended(s) = SubSeq(all, n - k + 1, n)
    BY <1>1, <1>3 DEF Appended
  <1> HIDE DEF all, n, k
  <1>5. /\ SubSeq(all, n - k + 1, n) \in Seq(Scans)
        /\ Len(SubSeq(all, n - k + 1, n)) = k
        /\ \A i \in 1..k : SubSeq(all, n - k + 1, n)[i] = all[n - k + i]
    <2>1. /\ n - k + 1 \in 1..n + 1 /\ n \in 0..Len(all)
          /\ n - k + 1 \in 1..(n+1)
          /\ n - (n - k + 1) + 1 = k
      BY <1>1, <1>2
    <2>2. \A i \in (n - k + 1)..n : all[i] \in Scans
      BY <1>1, <1>2, ElementOfSeq
    <2> QED
      BY <1>1, <1>2, <2>1, <2>2, SubSeqProperties
  <1>6. k \in Nat /\ k = IF Len(alerts) + 1 <= MAX_ALERT_HISTORY_ENTRIES
                         THEN Len(alerts) + 1 ELSE MAX_ALERT_HISTORY_ENTRIES
    BY <1>1, <1>2 DEF n, k
  <1>7. \A i \in 1..k : Appended(s)[i] = Append(alerts, s)[(Len(alerts) + 1) - k + i]
    <2>1. \A i \in 1..k : Appended(s)[i] = all[n - k + i]
      BY <1>4, <1>5
    <2>2. n = Len(alerts) + 1 /\ all = Append(alerts, s)
      BY DEF all, n
    <2> QED
      BY <2>1, <2>2, Zenon
  <1> QED
    BY <1>4, <1>5, <1>6, <1>7

\* What a new scan's number is.
LEMMA NewScan ==
    ASSUME Typed, StoreOK, Cardinality(Created) + 1 \in Scans
    PROVE  LET s == Cardinality(Created) + 1
           IN  /\ s \notin Created
               /\ \A u \in Created : u < s
               /\ Created = 1..(s - 1) /\ s \in 1..MaxScans
  <1>1. PICK n \in 0..MaxScans : Created = 1..n
    BY DEF StoreOK
  <1>2. MaxScans \in Nat
    BY ContinuousParameters
  <1>3. n \in Nat /\ Cardinality(1..n) = n
    BY <1>1, <1>2, FS_Interval
  <1> QED
    BY <1>1, <1>2, <1>3 DEF Scans

LEMMA StartStep ==
    ASSUME Typed, StoreOK, NEW t \in Targets, NEW owned \in BOOLEAN, Start(t, owned),
           acts' \in {acts, acts + 1}, UNCHANGED <<finished, removed>>
    PROVE  LET s == Cardinality(Created) + 1
           IN  /\ s \in Scans /\ s \notin Created
               /\ Created' = Created \cup {s}
               /\ \A u \in Scans : u # s => target'[u] = target[u] /\ status'[u] = status[u]
               /\ target'[s] = t /\ status'[s] = "RUNNING" /\ status[s] = "NONE"
               /\ target' \in [Scans -> Targets \cup {NoTarget}]
               /\ status' \in [Scans -> Status]
               /\ mine' \subseteq Created'
               /\ StoreOK'
  <1> DEFINE s == Cardinality(Created) + 1
  <1>1. s \in Scans
    BY DEF Start
  <1>2. s \notin Created /\ Created = 1..(s - 1) /\ s \in 1..MaxScans
    BY <1>1, NewScan
  <1>3. /\ target' = [target EXCEPT ![s] = t] /\ status' = [status EXCEPT ![s] = "RUNNING"]
        /\ mine' \subseteq mine \cup {s} /\ UNCHANGED <<revision, usable>>
    BY DEF Start
  <1> HIDE DEF s
  <1>4. /\ target \in [Scans -> Targets \cup {NoTarget}] /\ status \in [Scans -> Status]
        /\ mine \subseteq Created /\ NoTarget \notin Targets
    BY ContinuousParameters DEF Typed, TypeOK
  <1>5. /\ \A u \in Scans : u # s => target'[u] = target[u] /\ status'[u] = status[u]
        /\ target'[s] = t /\ status'[s] = "RUNNING"
        /\ target' \in [Scans -> Targets \cup {NoTarget}]
        /\ status' \in [Scans -> Status]
    BY <1>1, <1>3, <1>4 DEF Status
  <1>6. Created' = Created \cup {s}
    BY <1>1, <1>4, <1>5 DEF Created
  <1>7. status[s] = "NONE" /\ revision[s] = 0 /\ s \notin finished /\ s \notin removed
    BY <1>1, <1>2 DEF StoreOK, Typed, TypeOK
  <1>8. Created' = 1..s /\ s \in 0..MaxScans
    BY <1>2, <1>6
  <1>9. revision' = revision /\ \A u \in Scans : revision[u] \in Nat /\ acts \in Nat
    BY <1>3, ContinuousParameters DEF Typed, TypeOK
  <1>10. StoreOK'
    <2>1. \E n \in 0..MaxScans : Created' = 1..n
      BY <1>8
    <2>2. ASSUME NEW u \in Scans
          PROVE  /\ u \notin Created' => status'[u] = "NONE"
                 /\ status'[u] \in {"NONE", "RUNNING"} => revision'[u] = 0
                 /\ revision'[u] <= acts' + 1
                 /\ u \in removed' => status'[u] = "NONE"
                 /\ status'[u] = "FINISHED" => u \in finished'
                 /\ status'[u] \in {"RUNNING", "ABORTED"} => u \notin finished'
      BY <1>5, <1>6, <1>7, <1>9 DEF StoreOK
    <2> QED
      BY <2>1, <2>2 DEF StoreOK
  <1> QED
    BY <1>1, <1>2, <1>3, <1>4, <1>5, <1>6, <1>7, <1>10 DEF s

\* What latest, the reports to renew, prunable and the scans to compare return.
LEMMA LatestOf ==
    ASSUME Typed, NEW t \in Targets
    PROVE  /\ Latest(records, t) \in Scans \cup {NoScan}
           /\ Latest(records, t) # NoScan =>
                /\ Latest(records, t) \in Of(t)
                /\ records[Latest(records, t)] # "NONE"
           /\ \A u \in Of(t) : records[u] # "NONE" => u <= Latest(records, t)
  <1> DEFINE S == {s \in Of(t) : records[s] # "NONE"}
  <1>1. S \in SUBSET Scans
    BY DEF Of, Created
  <1>2. Latest(records, t) = Newest(S)
    BY DEF Latest
  <1> HIDE DEF S
  <1>3. Latest(records, t) \in Scans \cup {NoScan}
    BY <1>1, <1>2, NewestOf
  <1>4. Latest(records, t) # NoScan => Latest(records, t) \in S
    BY <1>1, <1>2, NewestOf
  <1>5. \A u \in S : u <= Latest(records, t)
    <2>1. S # {} => Latest(records, t) \in S /\ \A y \in S : Latest(records, t) >= y
      BY <1>1, <1>2, NewestOf
    <2>2. \A y \in S : y \in Int
      BY <1>1 DEF Scans
    <2> QED
      BY <2>1, <2>2
  <1> QED
    BY <1>3, <1>4, <1>5 DEF S

LEMMA NormalisedOf ==
    ASSUME Typed, NEW s \in Normalised
    PROVE  /\ s \in Created /\ target[s] \in Targets
           /\ records[s] \in {"FINISHED", "ABORTED"}
           /\ \A u \in Of(target[s]) : records[u] # "NONE" => u <= s
  <1>1. PICK t \in Targets : s = Latest(records, t) /\ s # NoScan /\ Ended(records, s)
    BY ContinuousParameters DEF Normalised
  <1>2. s \in Of(t)
    BY <1>1, LatestOf
  <1>3. target[s] = t
    BY <1>2 DEF Of
  <1> QED
    BY <1>1, <1>2, <1>3, LatestOf DEF Of, Ended

LEMMA PrunableOf ==
    ASSUME Typed, NEW s \in Prunable
    PROVE  /\ s \in Created /\ target[s] \in Configured
           /\ records[s] \in {"FINISHED", "ABORTED"}
           /\ s # Later(target[s])
           /\ \E u \in Of(target[s]) : u > s /\ records[u] # "NONE"
  <1>1. /\ s \in Scans /\ Ended(records, s) /\ target[s] \in Configured /\ Newer(s) >= keep
        /\ s # Later(target[s])
    BY DEF Prunable, BeyondKept
  <1>2. s \in Created
    BY <1>1, ContinuousParameters DEF Created
  <1> DEFINE N == {u \in Of(target[s]) : records[u] # "NONE" /\ u > s}
  <1>3. Newer(s) # 0
    BY <1>1, ContinuousParameters
  <1>4. N # {}
    BY <1>3, FS_EmptySet DEF Newer
  <1>5. \E u \in Of(target[s]) : u > s /\ records[u] # "NONE"
    BY <1>4
  <1> QED
    BY <1>1, <1>2, <1>5 DEF Ended

LEMMA LaterOf ==
    ASSUME Typed, NEW t \in Targets
    PROVE  /\ Later(t) \in Scans \cup {NoScan} /\ Earlier(t) \in Scans \cup {NoScan}
           /\ Later(t) # NoScan => Later(t) \in FinishedOf(t)
           /\ \A u \in FinishedOf(t) : u <= Later(t)
           /\ Earlier(t) # NoScan <=> \E u \in FinishedOf(t) : u # Later(t)
           /\ Earlier(t) # NoScan => Later(t) # NoScan /\ Later(t) \in Scans
  <1>1. FinishedOf(t) \in SUBSET Scans /\ FinishedOf(t) \ {Later(t)} \in SUBSET Scans
    BY DEF FinishedOf, Of, Created
  <1>2. \A u \in FinishedOf(t) : u \in Int
    BY <1>1 DEF Scans
  <1>3. Later(t) = Newest(FinishedOf(t)) /\ Earlier(t) = Newest(FinishedOf(t) \ {Later(t)})
    BY DEF Later, Earlier
  <1>4. /\ Later(t) # NoScan <=> FinishedOf(t) # {}
        /\ FinishedOf(t) # {} =>
             Later(t) \in FinishedOf(t) /\ \A y \in FinishedOf(t) : Later(t) >= y
        /\ Later(t) \in Scans \cup {NoScan}
    BY <1>1, <1>3, NewestOf
  <1>5. /\ Earlier(t) # NoScan <=> FinishedOf(t) \ {Later(t)} # {}
        /\ Earlier(t) \in Scans \cup {NoScan}
    BY <1>1, <1>3, NewestOf
  <1>6. \A u \in FinishedOf(t) : u <= Later(t)
    BY <1>1, <1>2, <1>4 DEF Scans
  <1> QED
    BY <1>4, <1>5, <1>6

LEMMA EarlierOf ==
    ASSUME Typed, NEW t \in Targets, Earlier(t) # NoScan
    PROVE  /\ Earlier(t) \in FinishedOf(t) /\ Earlier(t) \in Scans
           /\ \A u \in FinishedOf(t) : u # Later(t) => u <= Earlier(t)
  <1>1. FinishedOf(t) \ {Later(t)} \in SUBSET Scans
    BY DEF FinishedOf, Of, Created
  <1>2. /\ Earlier(t) \in FinishedOf(t) \ {Later(t)}
        /\ \A y \in FinishedOf(t) \ {Later(t)} : Earlier(t) >= y
    BY <1>1, NewestOf DEF Earlier
  <1> QED
    BY <1>1, <1>2 DEF Scans

\* Initially.
LEMMA TypedInit == Init => Typed /\ StoreOK
  <1> SUFFICES ASSUME Init PROVE Typed /\ StoreOK
    OBVIOUS
  <1>1. /\ Created = {} /\ MaxActs \in Nat /\ MaxScans \in Nat /\ MaxCrashes \in Nat
        /\ MAX_ALERT_HISTORY_ENTRIES \in Nat \ {0}
    BY ContinuousParameters DEF Init, Created
  <1>2. alerts \in Seq(Scans) /\ Len(alerts) = 0 /\ decisions \in Seq(Scans)
    BY EmptySeq DEF Init
  <1>3. NoReport \in Report /\ NoJob \in Job
    BY <1>1 DEF NoReport, NoJob, Report, Job
  <1>4. TypeOK
    <2>1. /\ slot \in [Targets -> Report] /\ previous \in [Targets -> Report]
      BY <1>3 DEF Init
    <2>2. job.scan \in Scans \cup {NoScan}
      BY <1>3 DEF Init, Job
    <2> QED
      BY <1>1, <1>2, <2>1, <2>2 DEF Init, TypeOK, Status
  <1>5. Typed
    BY <1>1, <1>3, <1>4 DEF Init, Typed, Normalising, Reporting
  <1>6. 1..0 = {}
    OBVIOUS
  <1>7. StoreOK
    <2>1. 0 \in 0..MaxScans /\ Created = 1..0
      BY <1>1, <1>6
    <2>2. \A s \in Scans : status[s] = "NONE" /\ revision[s] = 0
      BY DEF Init
    <2>3. removed = {} /\ acts = 0
      BY DEF Init
    <2>4. \A s \in Scans : revision[s] <= acts + 1
      BY <2>2, <2>3
    <2> QED
      BY <2>1, <2>2, <2>3, <2>4 DEF StoreOK
  <1> QED
    BY <1>5, <1>7

-----------------------------------------------------------------------------
(* The scans. *)

\* How scans may change in a step, whoever takes it.
Moves ==
    /\ \A s \in Created : s \in Created' /\ target'[s] = target[s]
    /\ \A s \in Scans :
         \/ status'[s] = status[s]
         \/ s \notin Created /\ status'[s] = "RUNNING"
         \/ status[s] = "RUNNING" /\ status'[s] \in {"FINISHED", "ABORTED"}
         \/ status[s] \in {"FINISHED", "ABORTED"} /\ status'[s] = "NONE"
    /\ finished \subseteq finished' /\ removed \subseteq removed'
    /\ \A s \in finished' : s \in finished \/ status[s] = "RUNNING"
    /\ \A s \in Scans : status'[s] # "NONE" => revision[s] <= revision'[s]
    /\ \A s \in Scans : Gone(s)' => Gone(s) \/ (pc = "retain" /\ s \in todo)

StoreStep == StoreOK' /\ Moves

\* Nothing happens to the scans.
LEMMA SameStore ==
    ASSUME Typed, StoreOK,
           UNCHANGED <<status, target, revision, usable, mine, finished, removed, acts>>
    PROVE  StoreStep /\ Created' = Created
  <1>1. Created' = Created /\ \A s \in Scans : Gone(s)' <=> Gone(s)
    BY DEF Created, Gone
  <1>2. StoreOK'
    BY <1>1 DEF StoreOK
  <1>3. \A s \in Scans : revision[s] <= revision'[s]
    BY StoreTypes, Bounds
  <1> QED
    BY <1>1, <1>2, <1>3 DEF StoreStep, Moves

\* One is created, deleted, ended, edited or left by a dead process.
LEMMA StartMoves ==
    ASSUME Typed, StoreOK, NEW t \in Targets, NEW owned \in BOOLEAN, Start(t, owned),
           acts' \in {acts, acts + 1}, UNCHANGED <<finished, removed>>
    PROVE  StoreStep
  <1> DEFINE s == Cardinality(Created) + 1
  <1>1. /\ s \in Scans /\ s \notin Created
        /\ Created' = Created \cup {s}
        /\ \A u \in Scans : u # s => target'[u] = target[u] /\ status'[u] = status[u]
        /\ target'[s] = t /\ status'[s] = "RUNNING" /\ status[s] = "NONE"
        /\ StoreOK'
    BY StartStep
  <1>2. revision' = revision
    BY DEF Start
  <1> HIDE DEF s
  <1>3. \A u \in Scans : revision[u] <= revision'[u]
    BY <1>2, ContinuousParameters DEF Typed, TypeOK
  <1>4. \A u \in Scans : Gone(u)' => Gone(u)
    BY <1>1 DEF Gone
  <1>5. Created \subseteq Scans
    BY DEF Created
  <1> QED
    BY <1>1, <1>3, <1>4, <1>5 DEF StoreStep, Moves

LEMMA DeleteMoves ==
    ASSUME Typed, StoreOK, NEW s \in Scans, Delete(s), UNCHANGED finished,
           acts' \in {acts, acts + 1},
           \/ removed' = removed \cup {s} /\ Ended(status, s)
           \/ removed' = removed /\ pc = "retain" /\ s \in todo
    PROVE  StoreStep /\ Created' = Created /\ status' \in [Scans -> Status]
           /\ revision' \in [Scans -> 0..MaxActs + 1] /\ usable' \subseteq usable
  <1>1. Created' = Created
    BY DEF Delete, Created
  <1>2. acts \in Nat /\ MaxActs \in Nat /\ revision \in [Scans -> 0..MaxActs + 1]
        /\ status \in [Scans -> Status]
    BY StoreTypes, Bounds
  <1>3. CASE Ended(status, s)
    <2>1. /\ status' = [status EXCEPT ![s] = "NONE"]
          /\ revision' = [revision EXCEPT ![s] = 0]
          /\ usable' = usable \ {s}
          /\ UNCHANGED <<target, mine>>
      BY <1>3 DEF Delete
    <2>2. /\ status' \in [Scans -> Status] /\ revision' \in [Scans -> 0..MaxActs + 1]
          /\ status'[s] = "NONE" /\ revision'[s] = 0
          /\ \A u \in Scans : u # s => status'[u] = status[u] /\ revision'[u] = revision[u]
      BY <1>2, <2>1 DEF Status
    <2>3. status[s] \in {"FINISHED", "ABORTED"}
      BY <1>3 DEF Ended
    <2>4. StoreOK'
      <3>1. \E n \in 0..MaxScans : Created' = 1..n
        BY <1>1 DEF StoreOK
      <3>2. ASSUME NEW u \in Scans
            PROVE  /\ u \notin Created' => status'[u] = "NONE"
                   /\ status'[u] \in {"NONE", "RUNNING"} => revision'[u] = 0
                   /\ revision'[u] <= acts' + 1
                   /\ u \in removed' => status'[u] = "NONE"
                   /\ status'[u] = "FINISHED" => u \in finished'
                   /\ status'[u] \in {"RUNNING", "ABORTED"} => u \notin finished'
        <4>1. CASE u = s
          <5>1. status'[u] = "NONE" /\ revision'[u] = 0 /\ acts' \in Nat
            BY <1>2, <2>2, <4>1
          <5>2. revision'[u] <= acts' + 1
            <6>1. \A n \in Nat : 0 <= n + 1
              OBVIOUS
            <6> QED
              BY <5>1, <6>1, Zenon
          <5> QED
            BY <5>1, <5>2, Zenon
        <4>2. CASE u # s
          BY <1>1, <1>2, <2>2, <4>2 DEF StoreOK
        <4> QED
          BY <4>1, <4>2
      <3> QED
        BY <3>1, <3>2 DEF StoreOK
    <2>5. \A u \in Scans : Gone(u)' => Gone(u) \/ (pc = "retain" /\ u \in todo)
      BY <1>1, <2>2 DEF Gone
    <2>6. Moves
      <3>1. \A u \in Scans : status'[u] # "NONE" => revision[u] <= revision'[u]
        BY <1>2, <2>2
      <3> QED
        BY <1>1, <2>1, <2>2, <2>3, <2>5, <3>1 DEF Moves
    <2> QED
      BY <1>1, <2>1, <2>2, <2>4, <2>6 DEF StoreStep
  <1>4. CASE ~Ended(status, s)
    <2>1. UNCHANGED <<status, revision, usable, target, mine>> /\ removed' = removed
      BY <1>4 DEF Delete
    <2>2. StoreOK'
      BY <1>1, <1>2, <2>1 DEF StoreOK
    <2>3. \A u \in Scans : revision[u] <= revision'[u]
      BY <1>2, <2>1
    <2>4. \A u \in Scans : Gone(u)' <=> Gone(u)
      BY <1>1, <2>1 DEF Gone
    <2> QED
      BY <1>1, <1>2, <2>1, <2>2, <2>3, <2>4 DEF StoreStep, Moves
  <1> QED
    BY <1>3, <1>4

LEMMA EndMoves ==
    ASSUME Typed, StoreOK, NEW s \in Scans, ScanEnds(s)
    PROVE  StoreStep /\ Created' = Created /\ Typed'
  <1>1. Created' = Created /\ s \in Created
    BY DEF ScanEnds, Created, StoreOK
  <1>2. acts \in Nat /\ MaxActs \in Nat /\ revision \in [Scans -> 0..MaxActs + 1]
        /\ status \in [Scans -> Status] /\ usable \subseteq Created /\ mine \subseteq Created
        /\ finished \subseteq Created
    BY StoreTypes, Bounds
  <1>3. PICK end \in {"FINISHED", "ABORTED"} :
        /\ status' = [status EXCEPT ![s] = end]
        /\ finished' = IF end = "FINISHED" THEN finished \cup {s} ELSE finished
        /\ usable' \subseteq usable \cup {s}
    BY DEF ScanEnds
  <1>4. /\ status[s] = "RUNNING" /\ revision' = [revision EXCEPT ![s] = 1]
        /\ mine' \subseteq mine
        /\ UNCHANGED <<target, removed, acts, pc, job, todo, crashes>>
    BY DEF ScanEnds, reports, memory, cycle, alerting, history, bounds
  <1>5. /\ status' \in [Scans -> Status] /\ revision' \in [Scans -> 0..MaxActs + 1]
        /\ status'[s] = end /\ revision'[s] = 1
        /\ \A u \in Scans : u # s => status'[u] = status[u] /\ revision'[u] = revision[u]
    BY <1>2, <1>3, <1>4 DEF Status
  <1>6. revision[s] = 0 /\ s \notin finished /\ s \notin removed
    BY <1>4 DEF StoreOK
  <1>7. StoreOK'
    <2>1. \E n \in 0..MaxScans : Created' = 1..n
      BY <1>1 DEF StoreOK
    <2>2. ASSUME NEW u \in Scans
          PROVE  /\ u \notin Created' => status'[u] = "NONE"
                 /\ status'[u] \in {"NONE", "RUNNING"} => revision'[u] = 0
                 /\ revision'[u] <= acts' + 1
                 /\ u \in removed' => status'[u] = "NONE"
                 /\ status'[u] = "FINISHED" => u \in finished'
                 /\ status'[u] \in {"RUNNING", "ABORTED"} => u \notin finished'
      <3>1. CASE u = s
        BY <1>1, <1>2, <1>3, <1>4, <1>5, <1>6, <3>1
      <3>2. CASE u # s
        BY <1>1, <1>2, <1>3, <1>4, <1>5, <3>2 DEF StoreOK
      <3> QED
        BY <3>1, <3>2
    <2> QED
      BY <2>1, <2>2 DEF StoreOK
  <1>8. Moves
    <2>1. \A u \in Scans : status'[u] # "NONE" => revision[u] <= revision'[u]
      BY <1>2, <1>5, <1>6
    <2>2. \A u \in Scans : Gone(u)' => Gone(u)
      BY <1>1, <1>3, <1>4, <1>5 DEF Gone
    <2> QED
      BY <1>1, <1>3, <1>4, <1>5, <2>1, <2>2 DEF Moves
  <1>9. Typed'
    <2>1. usable' \subseteq Created' /\ mine' \subseteq Created' /\ finished' \subseteq Created'
      BY <1>1, <1>2, <1>3, <1>4
    <2> QED
      BY <1>1, <1>4, <1>5, <2>1
         DEF ScanEnds, Typed, TypeOK, reports, memory, cycle, alerting, bounds
  <1> QED
    BY <1>1, <1>7, <1>8, <1>9 DEF StoreStep

LEMMA EditMoves ==
    ASSUME Typed, StoreOK, NEW s \in Scans, OperatorEdits(s)
    PROVE  StoreStep /\ Created' = Created /\ Typed'
  <1>1. Created' = Created
    BY DEF OperatorEdits, Created
  <1>2. acts \in Nat /\ MaxActs \in Nat /\ revision \in [Scans -> 0..MaxActs + 1]
        /\ usable \subseteq Created
    BY StoreTypes, Bounds
  <1>3. /\ status[s] \in {"FINISHED", "ABORTED"} /\ acts < MaxActs /\ acts' = acts + 1
        /\ revision' = [revision EXCEPT ![s] = revision[s] + 1]
        /\ usable' \subseteq usable \cup {s}
        /\ UNCHANGED <<status, target, mine, finished, removed, pc, job, todo, crashes>>
    BY DEF OperatorEdits, Acts, Ended, reports, memory, cycle, alerting, history
  <1>4. revision[s] <= acts + 1 /\ revision[s] \in Nat /\ s \in Created
    BY <1>2, <1>3 DEF StoreOK
  <1>5. /\ revision' \in [Scans -> 0..MaxActs + 1] /\ revision'[s] = revision[s] + 1
        /\ \A u \in Scans : u # s => revision'[u] = revision[u]
    BY <1>2, <1>3, <1>4
  <1>6. StoreOK'
    <2>1. \E n \in 0..MaxScans : Created' = 1..n
      BY <1>1 DEF StoreOK
    <2>2. ASSUME NEW u \in Scans
          PROVE  /\ u \notin Created' => status'[u] = "NONE"
                 /\ status'[u] \in {"NONE", "RUNNING"} => revision'[u] = 0
                 /\ revision'[u] <= acts' + 1
                 /\ u \in removed' => status'[u] = "NONE"
                 /\ status'[u] = "FINISHED" => u \in finished'
                 /\ status'[u] \in {"RUNNING", "ABORTED"} => u \notin finished'
      <3>1. CASE u = s
        BY <1>1, <1>2, <1>3, <1>4, <1>5, <3>1 DEF StoreOK
      <3>2. CASE u # s
        BY <1>1, <1>2, <1>3, <1>5, <3>2 DEF StoreOK
      <3> QED
        BY <3>1, <3>2
    <2> QED
      BY <2>1, <2>2 DEF StoreOK
  <1>7. Moves
    <2>1. \A u \in Scans : revision[u] <= revision'[u]
      BY <1>2, <1>4, <1>5
    <2>2. \A u \in Scans : Gone(u)' <=> Gone(u)
      BY <1>1, <1>3 DEF Gone
    <2> QED
      BY <1>1, <1>3, <2>1, <2>2 DEF Moves
  <1>8. Typed'
    <2>1. usable' \subseteq Created' /\ acts' \in 0..MaxActs
      BY <1>1, <1>2, <1>3, <1>4
    <2>2. UNCHANGED <<reports, memory, cycle, alerting, history, pc, crashes>>
      BY DEF OperatorEdits, Acts
    <2> QED
      BY <1>1, <1>3, <1>5, <2>1, <2>2
         DEF Typed, TypeOK, reports, memory, cycle, alerting, history
  <1> QED
    BY <1>1, <1>6, <1>7, <1>8 DEF StoreStep

LEMMA LaunchMoves ==
    ASSUME Typed, StoreOK, NEW m \in {"Background", "Foreground"}, Launch(m)
    PROVE  StoreStep /\ Created' = Created /\ Typed'
  <1>1. Created' = Created
    BY DEF Launch, Created
  <1>2. acts \in Nat /\ MaxActs \in Nat /\ revision \in [Scans -> 0..MaxActs + 1]
        /\ status \in [Scans -> Status] /\ usable \subseteq Created /\ mine \subseteq Created
    BY StoreTypes, Bounds
  <1> DEFINE left == {s \in mine : status[s] = "RUNNING"}
  <1>3. /\ status' = [s \in Scans |-> IF s \in left THEN "ABORTED" ELSE status[s]]
        /\ revision' = [s \in Scans |-> IF s \in left THEN 1 ELSE revision[s]]
        /\ usable' \subseteq usable \cup left /\ mine' = {} /\ pc' = "ready" /\ pc = "off"
        /\ mode' = m
        /\ UNCHANGED <<target, finished, removed, acts, crashes, job, todo>>
    BY DEF Launch, Goes, reports, memory, alerting, history, bounds
  <1>4. /\ status' \in [Scans -> Status] /\ revision' \in [Scans -> 0..MaxActs + 1]
    BY <1>2, <1>3 DEF Status
  <1>5. ASSUME NEW u \in Scans
        PROVE  \/ u \in left /\ status[u] = "RUNNING" /\ status'[u] = "ABORTED"
                  /\ revision'[u] = 1
               \/ status'[u] = status[u] /\ revision'[u] = revision[u]
    BY <1>3
  <1> HIDE DEF left
  <1>6. StoreOK'
    <2>1. \E n \in 0..MaxScans : Created' = 1..n
      BY <1>1 DEF StoreOK
    <2>2. ASSUME NEW u \in Scans
          PROVE  /\ u \notin Created' => status'[u] = "NONE"
                 /\ status'[u] \in {"NONE", "RUNNING"} => revision'[u] = 0
                 /\ revision'[u] <= acts' + 1
                 /\ u \in removed' => status'[u] = "NONE"
                 /\ status'[u] = "FINISHED" => u \in finished'
                 /\ status'[u] \in {"RUNNING", "ABORTED"} => u \notin finished'
      BY <1>1, <1>2, <1>3, <1>5 DEF StoreOK
    <2> QED
      BY <2>1, <2>2 DEF StoreOK
  <1>7. Moves
    <2>1. \A u \in Scans : revision[u] <= revision'[u]
      <3> SUFFICES ASSUME NEW u \in Scans PROVE revision[u] <= revision'[u]
        OBVIOUS
      <3>1. status[u] = "RUNNING" => revision[u] = 0
        BY DEF StoreOK
      <3> QED
        BY <1>2, <1>5, <3>1
    <2>2. \A u \in Scans : Gone(u)' => Gone(u)
      BY <1>1, <1>3, <1>5 DEF Gone
    <2> QED
      BY <1>1, <1>3, <1>5, <2>1, <2>2 DEF Moves
  <1>8. left \subseteq Created
    BY <1>2 DEF left
  <1>9. Typed'
    BY <1>1, <1>2, <1>3, <1>4, <1>8
       DEF Launch, Typed, TypeOK, reports, memory, alerting, history, bounds, Normalising,
          Reporting
  <1> QED
    BY <1>1, <1>6, <1>7, <1>9 DEF StoreStep

-----------------------------------------------------------------------------
(* Types. *)

Frame == <<status, target, revision, usable, mine, finished, removed, acts>>

\* Types of what the controller assigns.
LEMMA ReportTypes == Stale \in Report /\ NoReport \in Report /\ NoJob \in Job
  BY ContinuousParameters DEF Stale, NoReport, NoJob, Report, Job

LEMMA UnreadType == Unread \in [Scans -> Status]
  BY DEF Unread, Status

\* What a job may become.
LEMMA JobTypes ==
    ASSUME Typed
    PROVE  /\ \A s \in Scans \cup {NoScan} : [job EXCEPT !.scan = s] \in Job
           /\ \A s \in Scans : [NoJob EXCEPT !.scan = s, !.state = "stale"] \in Job
           /\ \A s \in Scans, h \in 0..MaxActs + 1 :
                [NoJob EXCEPT !.scan = s, !.hint = h] \in Job
           /\ \A h \in 0..MaxActs + 1 : [job EXCEPT !.seen = h] \in Job
           /\ \A r \in {"current", "stale"}, b \in BOOLEAN :
                [job EXCEPT !.state = r, !.retry = b] \in Job
  BY ReportTypes DEF Typed, Job, NoJob

LEMMA ListTypes ==
    ASSUME Typed
    PROVE  /\ [s \in Scans |-> IF status[s] = "NONE" THEN 0 ELSE observed[s]]
                  \in [Scans -> 0..MaxActs + 1]
           /\ \A s \in Scans : [observed EXCEPT ![s] = revision[s]] \in [Scans -> 0..MaxActs + 1]
           /\ [s \in Scans |-> 0] \in [Scans -> 0..MaxActs + 1]
  <1>1. 0 \in 0..MaxActs + 1
    BY Bounds
  <1> QED
    BY <1>1, StoreTypes

\* The steps of the controller that leave the scans alone.
LEMMA CycleTyped ==
    ASSUME Typed, StoreOK,
           \/ Begin \/ RunReturns \/ Collected \/ Recorded \/ Retained \/ CycleEnds
           \/ \E t \in Configured : \/ NotDue(t) \/ Join(t) \/ CollectFails(t)
                                    \/ NothingToDecide(t) \/ Skipped(t) \/ Unrecorded(t)
           \/ \E k \in Targets \cup Scans : RetryPasses(k)
    PROVE  Typed' /\ UNCHANGED Frame
  <1> USE DEF store, reports, memory, cycle, alerting, history, bounds, Goes, Frame
  <1>0. job \in Job /\ job.scan \in Scans \cup {NoScan} /\ NoJob.scan = NoScan
    BY DEF Typed, Job, NoJob
  <1>1. CASE Begin
    <2>1. UNCHANGED Frame /\ Created' = Created
      BY <1>1 DEF Begin, Lists, Created
    <2> QED
      BY <1>1, <2>1, ListTypes DEF Begin, Lists, Typed, TypeOK, Normalising, Reporting
  <1>2. ASSUME NEW t \in Configured, NotDue(t) \/ Join(t) \/ CollectFails(t)
        PROVE  Typed' /\ UNCHANGED Frame
    <2>1. UNCHANGED Frame /\ Created' = Created /\ pc = "collect"
      BY <1>2 DEF NotDue, Join, CollectFails, Due, Created
    <2> QED
      BY <1>2, <2>1 DEF NotDue, Join, CollectFails, Due, Typed, TypeOK, Normalising, Reporting
  <1>3. CASE RunReturns
    <2>1. UNCHANGED Frame /\ Created' = Created /\ pc = "running" /\ pc' = "collect"
             /\ job' = NoJob
      BY <1>3 DEF RunReturns, Created
    <2> QED
      BY <1>0, <1>3, <2>1, ReportTypes DEF RunReturns, Typed, TypeOK, Normalising, Reporting
  <1>4. CASE Collected
    <2>1. UNCHANGED Frame /\ Created' = Created /\ pc' = "decide" /\ todo' = Configured
          /\ UNCHANGED <<slot, previous, last, before, torn, alerts, decisions, mode, job,
             crashes>>
      BY <1>4 DEF Collected, Lists, Created
    <2>2. decided' \subseteq Scans
      BY <1>4, InSeq DEF Collected, Typed, TypeOK
    <2>3. records' \in [Scans -> Status] /\ observed' \in [Scans -> 0..MaxActs + 1]
      BY <1>4, ListTypes DEF Collected, Lists, Typed, TypeOK
    <2> QED
      BY <2>1, <2>2, <2>3 DEF Typed, TypeOK, Normalising, Reporting
  <1>5. ASSUME NEW t \in Configured, NothingToDecide(t) \/ Skipped(t)
        PROVE  Typed' /\ UNCHANGED Frame
    <2>1. UNCHANGED Frame /\ Created' = Created /\ pc = "decide" /\ pc' = pc
      BY <1>5 DEF NothingToDecide, Skipped, Created
    <2> QED
      BY <1>5, <2>1 DEF NothingToDecide, Skipped, Typed, TypeOK, Normalising, Reporting
  <1>6. ASSUME (\E t \in Configured : Unrecorded(t)) \/ Retained
        PROVE  Typed' /\ UNCHANGED Frame
    <2>1. UNCHANGED Frame /\ Created' = Created /\ pc' = "normalise" /\ records' = Unread
          /\ UNCHANGED <<slot, previous, last, before, torn, alerts, decisions, mode, job,
                         observed, crashes>>
          /\ todo' = Normalised
      BY <1>6 DEF Unrecorded, Retained, Created
    <2>2. decided' \subseteq Scans
      BY <1>6 DEF Unrecorded, Retained, Typed, TypeOK
    <2>3. todo' \subseteq Created'
      BY <2>1, NormalisedOf
    <2> QED
      BY <2>1, <2>2, <2>3, UnreadType DEF Typed, TypeOK, Normalising, Reporting
  <1>7. CASE Recorded
    <2>1. UNCHANGED Frame /\ Created' = Created /\ pc' = "retain" /\ todo' = Prunable
          /\ decided' = {}
          /\ UNCHANGED <<slot, previous, last, before, torn, alerts, decisions, mode, job,
             records,
                         observed, crashes>>
      BY <1>7 DEF Recorded, Created
    <2>2. todo' \subseteq Created'
      BY <2>1, PrunableOf
    <2> QED
      BY <2>1, <2>2 DEF Typed, TypeOK, Normalising, Reporting
  <1>8. CASE CycleEnds
    <2>1. UNCHANGED Frame /\ Created' = Created /\ pc' \in {"asleep", "off"}
          /\ UNCHANGED <<slot, previous, last, before, torn, alerts, decisions, crashes>>
      BY <1>8 DEF CycleEnds, Ends, Created
    <2>2. \/ UNCHANGED <<mode, records, todo, decided, job, observed>>
          \/ /\ mode' = "Background" /\ records' = Unread /\ todo' = {} /\ decided' = {}
             /\ job' = NoJob /\ observed' = [s \in Scans |-> 0]
      BY <1>8 DEF CycleEnds, Ends
    <2> QED
      BY <1>0, <2>1, <2>2, UnreadType, ReportTypes, ListTypes DEF Typed, TypeOK, Normalising,
         Reporting
  <1>9. CASE \E k \in Targets \cup Scans : RetryPasses(k)
    <2>1. UNCHANGED Frame /\ Created' = Created
      BY <1>9 DEF RetryPasses, Created
    <2> QED
      BY <1>9, <2>1 DEF RetryPasses, Typed, TypeOK
  <1> QED
    BY <1>1, <1>2, <1>3, <1>4, <1>5, <1>6, <1>7, <1>8, <1>9

\* A decision keeps the bound of the history.
LEMMA DecideTyped ==
    ASSUME Typed, StoreOK, NEW t \in Configured, Decide(t)
    PROVE  Typed' /\ UNCHANGED Frame /\ Later(t) \in Scans
  <1> USE DEF store, reports, memory, cycle, alerting, history, bounds, Frame
  <1>1. UNCHANGED Frame /\ Created' = Created /\ pc = "decide" /\ pc' = pc
        /\ todo' = todo \ {t}
        /\ UNCHANGED <<slot, previous, last, before, torn, mode, job, records, decided,
                         observed, crashes>>
    BY DEF Decide, Created
  <1>2. Later(t) \in Scans
    BY LaterOf, ContinuousParameters DEF Decide, Undecided
  <1>3. /\ alerts' \in Seq(Scans) /\ Len(alerts') <= MAX_ALERT_HISTORY_ENTRIES
    <2>1. alerts \in Seq(Scans) /\ Len(alerts) \in Nat /\ MAX_ALERT_HISTORY_ENTRIES \in Nat
      BY LenProperties, Bounds DEF Typed, TypeOK
    <2>2. alerts' = Appended(Later(t))
      BY DEF Decide
    <2>3. /\ Appended(Later(t)) \in Seq(Scans)
          /\ Len(Appended(Later(t))) = IF Len(alerts) + 1 <= MAX_ALERT_HISTORY_ENTRIES
                                       THEN Len(alerts) + 1 ELSE MAX_ALERT_HISTORY_ENTRIES
      BY <1>2, <2>1, AppendedOf
    <2> QED
      BY <2>1, <2>2, <2>3
  <1>4. decisions' \in Seq(Scans)
    BY <1>2, AppendProperties DEF Decide, Typed, TypeOK
  <1> QED
    BY <1>1, <1>2, <1>3, <1>4 DEF Typed, TypeOK, Normalising, Reporting

\* The steps of a report.
LEMMA ReportTyped ==
    ASSUME Typed, StoreOK, (\E s \in Scans : Inspect(s)) \/ Analyse \/ Check \/ Archive \/ Write
    PROVE  Typed' /\ UNCHANGED Frame
  <1> USE DEF store, reports, memory, cycle, alerting, history, bounds, Goes, Frame
  <1>0. /\ job \in Job /\ job.scan \in Scans \cup {NoScan} /\ NoJob.scan = NoScan
        /\ job.hint \in 0..MaxActs + 1 /\ job.seen \in 0..MaxActs + 1
    BY DEF Typed, Job, NoJob
  <1>1. ASSUME NEW s \in Scans, Inspect(s) PROVE Typed' /\ UNCHANGED Frame
    <2>1. UNCHANGED Frame /\ Created' = Created /\ pc = "normalise" /\ s \in todo
          /\ todo' = todo \ {s}
          /\ UNCHANGED <<slot, previous, last, before, torn, alerts, decisions, mode, records,
                         decided, crashes>>
      BY <1>1 DEF Inspect, Created
    <2>2. s \in Created /\ todo \subseteq Created
      BY <2>1 DEF Typed, Normalising
    <2>3. observed' \in [Scans -> 0..MaxActs + 1]
      BY <1>1, ListTypes DEF Inspect, Typed, TypeOK
    <2>4. \/ UNCHANGED <<job, pc>>
          \/ job' = [NoJob EXCEPT !.scan = s, !.state = "stale"] /\ pc' = "archive"
          \/ job' = [NoJob EXCEPT !.scan = s, !.hint = revision[s]] /\ pc' = "analyse"
      BY <1>1 DEF Inspect
    <2>5. revision[s] \in 0..MaxActs + 1
      BY DEF Typed, TypeOK
    <2>6. job' \in Job /\ (pc' # pc => job'.scan = s)
          /\ pc' \in {"normalise", "archive", "analyse"}
      BY <1>0, <2>1, <2>4, <2>5, JobTypes DEF NoJob
    <2>7. job'.scan \in Scans \cup {NoScan}
      BY <2>6 DEF Job
    <2> QED
      BY <2>1, <2>2, <2>3, <2>6, <2>7 DEF Typed, TypeOK, Normalising, Reporting
  <1>2. CASE Analyse \/ Check
    <2>1. UNCHANGED Frame /\ Created' = Created /\ pc \in {"analyse", "check"}
          /\ pc' \in {"archive", "check"}
          /\ UNCHANGED <<slot, previous, last, before, torn, alerts, decisions, mode,
             records, todo,
                         observed, decided, crashes>>
      BY <1>2 DEF Analyse, Check, Replace, Created
    <2>2. job.scan \in Created /\ todo \subseteq Created /\ Created \subseteq Scans
      BY <2>1 DEF Typed, Normalising, Reporting, Created
    <2>3. revision[job.scan] \in 0..MaxActs + 1
      BY <2>2 DEF Typed, TypeOK
    <2>4. \/ job' = [job EXCEPT !.seen = revision[job.scan]]
          \/ \E r \in {"current", "stale"}, b \in BOOLEAN :
               job' = [job EXCEPT !.state = r, !.retry = b]
      BY <1>2 DEF Analyse, Check, Replace
    <2>5. job' \in Job /\ job'.scan = job.scan
      <3>1. CASE job' = [job EXCEPT !.seen = revision[job.scan]]
        <4>1. job' \in Job
          BY <2>3, <3>1, JobTypes
        <4>2. job'.scan = job.scan
          BY <1>0, <3>1 DEF Job
        <4> QED
          BY <4>1, <4>2
      <3>2. ASSUME NEW r \in {"current", "stale"}, NEW b \in BOOLEAN,
                   job' = [job EXCEPT !.state = r, !.retry = b]
            PROVE  job' \in Job /\ job'.scan = job.scan
        <4>1. job' \in Job
          BY <3>2, JobTypes
        <4>2. job'.scan = job.scan
          BY <1>0, <3>2 DEF Job
        <4> QED
          BY <4>1, <4>2
      <3> QED
        BY <2>4, <3>1, <3>2
    <2> QED
      BY <2>1, <2>2, <2>5 DEF Typed, TypeOK, Normalising, Reporting
  <1>3. CASE Archive
    <2>1. UNCHANGED Frame /\ Created' = Created /\ pc = "archive" /\ pc' = "write"
          /\ UNCHANGED <<slot, last, before, torn, alerts, decisions, mode, records, todo, job,
                         observed, decided, crashes>>
      BY <1>3 DEF Archive, Created
    <2>2. previous' \in [Targets -> Report]
      BY <1>3 DEF Archive, Typed, TypeOK
    <2> QED
      BY <2>1, <2>2 DEF Typed, TypeOK, Normalising, Reporting
  <1>4. CASE Write
    <2>1. UNCHANGED Frame /\ Created' = Created /\ pc = "write" /\ pc' = "normalise"
             /\ job' = NoJob
          /\ UNCHANGED <<previous, alerts, decisions, mode, records, todo, decided, crashes>>
      BY <1>4 DEF Write, Created
    <2>2. job.scan \in Scans /\ target[job.scan] \in Targets
      BY <2>1 DEF Typed, TypeOK, Reporting, Created
    <2>3. [state |-> "current", scan |-> job.scan, hint |-> job.hint,
             seen |-> job.seen] \in Report
      BY <1>0 DEF Report
    <2>4. /\ slot' \in [Targets -> Report] /\ last' \in [Targets -> Report]
          /\ before' \in [Targets -> Report]
      <3> DEFINE t == target[job.scan]
                 report == [state |-> "current", scan |-> job.scan, hint |-> job.hint,
                            seen |-> job.seen]
      <3>1. /\ slot' = [slot EXCEPT ![t] = report] \/ slot' = [slot EXCEPT ![t] = Stale]
            /\ last' = last \/ last' = [last EXCEPT ![t] = report]
            /\ before' = before \/ before' = [before EXCEPT ![t] = last[t]]
        BY <1>4 DEF Write
      <3>2. t \in Targets /\ report \in Report /\ Stale \in Report
        BY <2>2, <2>3, ReportTypes
      <3> HIDE DEF t, report
      <3>3. /\ slot \in [Targets -> Report] /\ last \in [Targets -> Report]
            /\ before \in [Targets -> Report]
        BY DEF Typed, TypeOK
      <3>4. last[t] \in Report
        BY <3>2, <3>3
      <3> QED
        BY <3>1, <3>2, <3>3, <3>4
    <2>5. observed' \in [Scans -> 0..MaxActs + 1] /\ torn' \subseteq Targets
      BY <1>0, <1>4, <2>2 DEF Write, Typed, TypeOK
    <2> QED
      BY <1>0, <2>1, <2>4, <2>5, ReportTypes DEF Typed, TypeOK, Normalising, Reporting
  <1> QED
    BY <1>1, <1>2, <1>3, <1>4

\* A crash, or nothing.
LEMMA OtherTyped ==
    ASSUME Typed, StoreOK, Crash \/ UNCHANGED vars
    PROVE  Typed' /\ UNCHANGED Frame
  <1> USE DEF store, reports, memory, cycle, alerting, history, bounds, Goes, Frame
  <1>1. CASE Crash
    <2>1. UNCHANGED Frame /\ Created' = Created /\ pc' = "off" /\ job' = NoJob
             /\ records' = Unread
          /\ todo' = {} /\ decided' = {} /\ mode' = "Background"
          /\ observed' = [s \in Scans |-> 0]
          /\ UNCHANGED <<slot, previous, last, before, alerts, decisions>>
      BY <1>1 DEF Crash, Ends, Created
    <2>2. crashes' \in 0..MaxCrashes
      BY <1>1, ContinuousParameters DEF Crash, Typed, TypeOK
    <2>3. torn' \subseteq Targets
      <3>1. pc = "write" => job.scan \in Created
        BY DEF Typed, Reporting
      <3>2. pc = "write" => target[job.scan] \in Targets
        BY <3>1 DEF Created, Typed, TypeOK
      <3> QED
        BY <1>1, <3>2 DEF Crash, Typed, TypeOK
    <2>4. NoJob.scan = NoScan
      BY DEF NoJob
    <2> QED
      BY <2>1, <2>2, <2>3, <2>4, ReportTypes, UnreadType, ListTypes DEF Typed, TypeOK,
         Normalising, Reporting
  <1>2. CASE UNCHANGED vars
    BY <1>2 DEF vars, Typed, TypeOK, Created
  <1> QED
    BY <1>1, <1>2

\* The steps that change the scans: an operator's, retention's and the controller's.
LEMMA StartTyped ==
    ASSUME Typed, StoreOK, NEW t \in Targets,
           OperatorStarts(t) \/ (t \in Configured /\ Collect(t))
    PROVE  Typed' /\ StoreStep
  <1> USE DEF store, reports, memory, cycle, alerting, history, bounds, Goes
  <1>1. PICK owned \in BOOLEAN : Start(t, owned)
    BY DEF OperatorStarts, Collect
  <1>2. acts' \in {acts, acts + 1} /\ acts' \in 0..MaxActs /\ crashes' = crashes
    <2>1. acts \in 0..MaxActs /\ MaxActs \in Nat
      BY StoreTypes, Bounds
    <2>2. CASE OperatorStarts(t)
      BY <2>1, <2>2 DEF OperatorStarts, Acts
    <2>3. CASE Collect(t)
      BY <2>1, <2>3 DEF Collect, Due
    <2> QED
      BY <2>2, <2>3
  <1>3. UNCHANGED <<finished, removed, slot, previous, last, before, torn, alerts, decisions,
           mode,
                    records, decided, observed, usable, revision>>
    BY <1>1 DEF OperatorStarts, Collect, Due, Start
  <1> DEFINE s == Cardinality(Created) + 1
  <1>4. /\ s \in Scans /\ s \notin Created
        /\ Created' = Created \cup {s}
        /\ target' \in [Scans -> Targets \cup {NoTarget}]
        /\ status' \in [Scans -> Status]
        /\ mine' \subseteq Created'
    BY <1>1, <1>2, <1>3, StartStep
  <1>5. StoreStep
    BY <1>1, <1>2, <1>3, StartMoves
  <1>6. \/ UNCHANGED <<pc, job, todo>>
        \/ pc = "collect" /\ pc' = pc /\ job' = job /\ todo' = todo \ {t}
        \/ pc = "collect" /\ pc' = "running" /\ todo' = todo \ {t}
           /\ job' = [job EXCEPT !.scan = s]
    BY DEF OperatorStarts, Collect, Due
  <1> HIDE DEF s
  <1>7. job' \in Job /\ (pc' # pc => job'.scan = s) /\ (pc' = pc => job' = job)
    <2>1. job \in Job /\ [job EXCEPT !.scan = s] \in Job
      BY <1>4, JobTypes DEF Typed
    <2>2. [job EXCEPT !.scan = s].scan = s
      BY <2>1 DEF Job
    <2> QED
      BY <1>6, <2>1, <2>2
  <1>8. job'.scan \in Scans \cup {NoScan}
    BY <1>7 DEF Job
  <1>9. Typed'
    BY <1>2, <1>3, <1>4, <1>6, <1>7, <1>8 DEF Typed, TypeOK, Normalising, Reporting
  <1> QED
    BY <1>5, <1>9

LEMMA DeleteTyped ==
    ASSUME Typed, StoreOK, (\E s \in Scans : OperatorDeletes(s)) \/ Retain
    PROVE  Typed' /\ StoreStep /\ Created' = Created
  <1> USE DEF store, reports, memory, cycle, alerting, history, bounds
  <1>1. ASSUME NEW s \in Scans, OperatorDeletes(s) PROVE Typed' /\ StoreStep
                  /\ Created' = Created
    <2>1. /\ Delete(s) /\ finished' = finished /\ acts' = acts + 1 /\ acts < MaxActs
          /\ removed' = removed \cup {s} /\ Ended(status, s)
          /\ UNCHANGED <<slot, previous, last, before, torn, alerts, decisions, mode, pc,
             job, todo,
                         records, decided, observed, crashes>>
      BY <1>1 DEF OperatorDeletes, Acts
    <2>2. /\ StoreStep /\ Created' = Created /\ status' \in [Scans -> Status]
          /\ revision' \in [Scans -> 0..MaxActs + 1] /\ usable' \subseteq usable
      BY <2>1, DeleteMoves
    <2>3. UNCHANGED <<target, mine>>
      BY <2>1 DEF Delete
    <2>4. s \in Created /\ acts' \in 0..MaxActs
      <3>1. s \in Created
        BY <2>1 DEF StoreOK, Ended
      <3> QED
        BY <2>1, <3>1, StoreTypes, Bounds
    <2> QED
      BY <2>1, <2>2, <2>3, <2>4 DEF Typed, TypeOK
  <1>2. CASE Retain
    <2>1. pc = "retain" /\ todo # {} /\ todo \in SUBSET Scans /\ todo \subseteq Created
      BY <1>2 DEF Retain, Typed, Created
    <2>2. Min(todo) \in todo /\ Min(todo) \in Scans
      BY <2>1, MinOf
    <2>3. /\ Delete(Min(todo)) /\ todo' = todo \ {Min(todo)}
          /\ UNCHANGED <<slot, previous, last, before, torn, alerts, decisions, mode, pc, job,
                         records, decided, observed, crashes, finished, removed, acts>>
      BY <1>2 DEF Retain
    <2>4. /\ StoreStep /\ Created' = Created /\ status' \in [Scans -> Status]
          /\ revision' \in [Scans -> 0..MaxActs + 1] /\ usable' \subseteq usable
      BY <2>1, <2>2, <2>3, DeleteMoves
    <2>5. UNCHANGED <<target, mine>>
      BY <2>3 DEF Delete
    <2> QED
      BY <2>1, <2>3, <2>4, <2>5 DEF Typed, TypeOK, Normalising, Reporting
  <1> QED
    BY <1>1, <1>2

\* Every step keeps the types, and moves the scans as Moves says.
LEMMA TypedStep == Typed /\ StoreOK /\ [Next]_vars => Typed' /\ StoreStep
  <1> SUFFICES ASSUME Typed, StoreOK, [Next]_vars PROVE Typed' /\ StoreStep
    OBVIOUS
  <1>1. CASE Typed' /\ UNCHANGED Frame
    BY <1>1, SameStore DEF Frame
  <1>2. ASSUME NEW t \in Configured,
           \/ NotDue(t) \/ Join(t) \/ CollectFails(t)
           \/ NothingToDecide(t) \/ Skipped(t) \/ Unrecorded(t) \/ Decide(t)
        PROVE  Typed' /\ UNCHANGED Frame
    BY <1>2, CycleTyped, DecideTyped
  <1>3. ASSUME Begin \/ RunReturns \/ Collected \/ Recorded \/ Retained \/ CycleEnds
               \/ (\E k \in Targets \cup Scans : RetryPasses(k))
        PROVE  Typed' /\ UNCHANGED Frame
    BY <1>3, CycleTyped
  <1> QED
    BY <1>1, <1>2, <1>3, ReportTyped, OtherTyped, StartTyped, DeleteTyped, EndMoves, EditMoves,
       LaunchMoves, ContinuousParameters DEF Next, Controller

-----------------------------------------------------------------------------
(* Kinds of steps. *)

\* What the cycle has in hand, and what it leaves behind.
Hand == <<records, todo, decided, job>>
Kept == UNCHANGED <<slot, previous, last, before, torn>>

\* The kinds of steps, by what they do to the cycle.
Environment == UNCHANGED <<Hand, pc, alerts, decisions>> /\ Kept
Launching == pc = "off" /\ pc' = "ready" /\ UNCHANGED <<Hand, alerts, decisions>> /\ Kept
Collecting ==
    /\ {pc, pc'} \subseteq {"collect", "running"} /\ todo' \subseteq todo
    /\ UNCHANGED <<records, decided, alerts, decisions>> /\ Kept
Listed ==
    /\ pc \in {"ready", "asleep", "collect"} /\ todo' = Configured /\ UNCHANGED job
    /\ \/ pc' = "collect" /\ records' = status /\ decided' = decided
       \/ pc' = "decide" /\ records' = status /\ decided' = ToSet(alerts)
       \/ pc = "collect" /\ pc' = "decide" /\ records' = records /\ decided' = ToSet(alerts)
    /\ UNCHANGED <<alerts, decisions>> /\ Kept /\ UNCHANGED Frame
Decided(t) ==
    /\ pc = "decide" /\ pc' = "decide" /\ t \in todo /\ todo' = todo \ {t}
    /\ \/ ~Undecided(t) /\ UNCHANGED <<alerts, decisions>>
       \/ Undecided(t) /\ alerts' = Appended(Later(t))
          /\ decisions' = Append(decisions, Later(t))
    /\ UNCHANGED <<records, decided, job>> /\ Kept /\ UNCHANGED Frame
Skips(t) ==
    /\ pc = "decide" /\ pc' = "decide" /\ t \in todo /\ todo' = todo \ {t}
    /\ Undecided(t) /\ ~Readable(t)
    /\ UNCHANGED <<records, decided, job, alerts, decisions>> /\ Kept /\ UNCHANGED Frame
Planned ==
    /\ pc = "decide" /\ todo = {} /\ pc' = "retain" /\ todo' = Prunable /\ decided' = {}
    /\ UNCHANGED <<records, job, alerts, decisions>> /\ Kept /\ UNCHANGED Frame
Retaining ==
    /\ pc = "retain" /\ pc' = "retain" /\ todo' \subseteq todo /\ target' = target
    /\ UNCHANGED <<records, decided, job, alerts, decisions>> /\ Kept
ToReports ==
    /\ pc \in {"decide", "retain"} /\ pc' = "normalise" /\ todo' = Normalised
    /\ records' = Unread /\ decided' \in {decided, {}}
    /\ UNCHANGED <<job, alerts, decisions>> /\ Kept /\ UNCHANGED Frame
Reports ==
    /\ \/ \E s \in Scans : Inspect(s)
       \/ Analyse \/ Check \/ Archive \/ Write
    /\ {pc, pc'} \subseteq Normalising /\ UNCHANGED <<records, decided, alerts, decisions>>
    /\ UNCHANGED Frame
Stops ==
    /\ pc' \in {"off", "asleep"} /\ todo' = {}
    /\ \/ UNCHANGED <<records, decided, job>>
       \/ records' = Unread /\ decided' = {} /\ job' = NoJob
    /\ UNCHANGED <<alerts, decisions>> /\ UNCHANGED <<slot, previous, last, before>>
    /\ torn' = (IF pc = "write" THEN torn \cup {target[job.scan]} ELSE torn)
    /\ UNCHANGED Frame

\* Every step is of one of the kinds.
LEMMA Kinds ==
    ASSUME Typed, StoreOK, [Next]_vars
    PROVE  \/ Environment \/ Launching \/ Collecting \/ Listed
              \/ (\E t \in Configured : Decided(t) \/ Skips(t))
           \/ Planned \/ Retaining \/ ToReports \/ Reports \/ Stops
  <1> USE DEF Hand, Kept, Frame, store, reports, memory, cycle, alerting, history, bounds, Goes
  <1>1. CASE UNCHANGED vars
    BY <1>1 DEF vars, Environment
  <1>2. CASE (\E t \in Targets : OperatorStarts(t))
                \/ (\E k \in Targets \cup Scans : RetryPasses(k))
    BY <1>2 DEF OperatorStarts, RetryPasses, Environment
  <1>3. CASE \E s \in Scans : ScanEnds(s) \/ OperatorEdits(s) \/ OperatorDeletes(s)
    BY <1>3 DEF ScanEnds, OperatorEdits, OperatorDeletes, Environment
  <1>4. CASE Launch("Background") \/ Launch("Foreground")
    BY <1>4 DEF Launch, Launching
  <1>5. CASE \E t \in Configured : NotDue(t) \/ Join(t) \/ CollectFails(t)
    BY <1>5 DEF NotDue, Join, CollectFails, Due, Collecting
  <1>6. CASE \E t \in Configured : Collect(t)
    BY <1>6 DEF Collect, Due, Collecting
  <1>7. CASE RunReturns
    BY <1>7 DEF RunReturns, Collecting
  <1>8. CASE Begin
    BY <1>8 DEF Begin, Lists, Listed
  <1>9. CASE Collected
    BY <1>9 DEF Collected, Lists, Listed
  <1>10. CASE \E t \in Configured : NothingToDecide(t) \/ Decide(t)
    BY <1>10 DEF NothingToDecide, Decide, Decided
  <1>11. CASE (\E t \in Configured : Unrecorded(t)) \/ Retained
    BY <1>11 DEF Unrecorded, Retained, ToReports
  <1>19. CASE \E t \in Configured : Skipped(t)
    BY <1>19 DEF Skipped, Skips
  <1>12. CASE Recorded
    BY <1>12 DEF Recorded, Planned
  <1>13. CASE Retain
    BY <1>13 DEF Retain, Delete, Retaining
  <1>14. CASE \E s \in Scans : Inspect(s)
    BY <1>14 DEF Inspect, Reports, Normalising, Reporting
  <1>15. CASE Analyse \/ Check
    BY <1>15 DEF Analyse, Check, Replace, Reports, Normalising, Reporting
  <1>16. CASE Archive \/ Write
    BY <1>16 DEF Archive, Write, Reports, Normalising, Reporting
  <1>17. CASE CycleEnds
    BY <1>17 DEF CycleEnds, Ends, Stops
  <1>18. CASE Crash
    BY <1>18 DEF Crash, Ends, Stops
  <1> QED
    BY <1>1, <1>2, <1>3, <1>4, <1>5, <1>6, <1>7, <1>8, <1>9, <1>10, <1>11, <1>12, <1>13, <1>14,
       <1>15, <1>16, <1>17, <1>18, <1>19 DEF Next, Controller

-----------------------------------------------------------------------------
(* Lists, retention and alerts. *)

\* A list read once stays true in what it says of ended scans.
LEMMA ListStep ==
    ASSUME Typed, StoreOK, Moves, ListOK, [Next]_vars
    PROVE  ListOK'
  <1>0. Created \subseteq Scans /\ NoTarget \notin Targets
    BY ContinuousParameters DEF Created
  <1>1. CASE records' = records
    <2> SUFFICES ASSUME NEW s \in Scans
                 PROVE  /\ records[s] # "NONE" => s \in Created'
                        /\ records[s] = "FINISHED" => s \in finished'
                        /\ records[s] = "ABORTED" => s \notin finished'
                        /\ records[s] \in {"FINISHED", "ABORTED"} => status'[s] # "RUNNING"
      BY <1>1 DEF ListOK
    <2>1. /\ s \in Created => s \in Created'
          /\ s \in finished => s \in finished'
          /\ s \in finished' => s \in finished \/ status[s] = "RUNNING"
          /\ status'[s] = "RUNNING" => status[s] = "RUNNING" \/ s \notin Created
      BY <1>0 DEF Moves
    <2> QED
      BY <2>1 DEF ListOK
  <1>2. CASE records' = Unread
    BY <1>2 DEF ListOK, Unread
  <1>3. CASE records' = status /\ UNCHANGED Frame
    BY <1>3 DEF ListOK, Frame, StoreOK, Created
  <1>4. \/ records' = records \/ records' = Unread \/ (records' = status /\ UNCHANGED Frame)
    BY Kinds DEF Environment, Launching, Collecting, Listed, Skips, Decided, Planned, Retaining,
       ToReports, Reports, Stops, Hand
  <1> QED
    BY <1>1, <1>2, <1>3, <1>4

\* The decisions only grow.
LEMMA DecisionsGrow ==
    ASSUME Typed, StoreOK, [Next]_vars
    PROVE  /\ ToSet(decisions) \subseteq ToSet(decisions')
           /\ \A t \in Configured : Decided(t) /\ Undecided(t) => Later(t) \in ToSet(decisions')
  <1>1. ASSUME NEW t \in Configured, Decided(t), Undecided(t)
        PROVE  ToSet(decisions) \subseteq ToSet(decisions') /\ Later(t) \in ToSet(decisions')
    <2>1. Later(t) \in Scans /\ decisions \in Seq(Scans)
          /\ decisions' = Append(decisions, Later(t))
      BY <1>1, LaterOf, ContinuousParameters DEF Decided, Undecided, Typed, TypeOK
    <2>2. /\ decisions' \in Seq(Scans) /\ Len(decisions') = Len(decisions) + 1
          /\ \A i \in 1..Len(decisions) : decisions'[i] = decisions[i]
          /\ decisions'[Len(decisions) + 1] = Later(t) /\ Len(decisions) \in Nat
      BY <2>1, AppendProperties, LenProperties
    <2>3. /\ \A x : x \in ToSet(decisions) <=> \E i \in 1..Len(decisions) : decisions[i] = x
          /\ \A x : x \in ToSet(decisions') <=> \E i \in 1..Len(decisions') : decisions'[i] = x
      <3>1. decisions \in Seq(Scans) /\ decisions' \in Seq(Scans)
        BY <2>1, <2>2
      <3> QED
        BY <3>1, InSeq, Zenon
    <2> QED
      BY <2>2, <2>3
  <1>2. decisions' = decisions \/ \E t \in Configured : Decided(t) /\ Undecided(t)
    BY Kinds DEF Environment, Launching, Collecting, Listed, Skips, Decided, Planned, Retaining,
       ToReports, Reports, Stops
  <1> QED
    BY <1>1, <1>2

\* A scan superseded stays so, as one that has ended.
LEMMA SupersededStays ==
    ASSUME Typed, StoreOK, Moves, [Next]_vars,
           NEW s \in Created, status[s] # "RUNNING", Superseded(s)
    PROVE  Superseded(s)'
  <1> DEFINE N == {u \in Created' : target'[u] = target[s]}
  <1>1. /\ target'[s] = target[s] /\ (s \in finished' => s \in finished)
        /\ Of(target[s]) \subseteq N
        /\ finished \subseteq finished' /\ removed \subseteq removed'
    BY DEF Moves, Of, Created
  <1>2. Superseded(s)' <=>
          /\ \E u \in N : u > s
          /\ s \in finished' =>
               \E u \in finished' \cap N : u > s /\ u \in ToSet(decisions') \cup removed'
    BY <1>1 DEF Superseded, Of
  <1> HIDE DEF N
  <1> QED
    BY <1>1, <1>2, DecisionsGrow DEF Superseded

\* While the list is kept, what it says of a target's finished scans is kept.
LEMMA SameLater ==
    ASSUME Typed, Moves, ListOK, records' = records, NEW t \in Targets
    PROVE  FinishedOf(t)' = FinishedOf(t) /\ Later(t)' = Later(t) /\ Earlier(t)' = Earlier(t)
  <1>1. \A s \in Scans : records[s] = "FINISHED" => s \in Created /\ s \in Created'
                            /\ target'[s] = target[s]
    BY DEF ListOK, Moves
  <1>2. FinishedOf(t)' = FinishedOf(t)
    BY <1>1 DEF FinishedOf, Of, Created
  <1> QED
    BY <1>2 DEF Later, Earlier

\* What retention plans to delete is superseded, once every alert is decided.
LEMMA PlannedIsSuperseded ==
    ASSUME Typed, StoreOK, ListOK, PlanOK, pc = "decide", todo = {}, NEW s \in Prunable
    PROVE  s \in Created /\ status[s] # "RUNNING" /\ (Superseded(s) \/ s \in removed)
  <1> DEFINE t == target[s]
  <1>1. /\ s \in Created /\ s \in Scans /\ t \in Configured /\ t \in Targets
        /\ records[s] \in {"FINISHED", "ABORTED"} /\ s # Later(t)
        /\ \E u \in Of(t) : u > s
    BY PrunableOf, ContinuousParameters DEF Created
  <1> HIDE DEF t
  <1>2. status[s] # "RUNNING" /\ (s \in finished => records[s] = "FINISHED")
    BY <1>1 DEF ListOK
  <1>3. ASSUME s \in finished, s \notin removed
        PROVE  \E u \in finished \cap Of(t) : u > s /\ u \in ToSet(decisions) \cup removed
    <2>1. s \in FinishedOf(t)
      BY <1>1, <1>2, <1>3 DEF FinishedOf, Of, t
    <2>2. /\ Earlier(t) # NoScan /\ Later(t) \in FinishedOf(t) /\ s <= Later(t)
          /\ Later(t) \in Scans
      BY <1>1, <2>1, LaterOf
    <2>3. Later(t) \in ToSet(decisions) \cup removed \/ Earlier(t) \in removed
      BY <1>1, <2>2 DEF PlanOK, Passed
    <2>4. Later(t) \in finished \cap Of(t) /\ Later(t) > s
      BY <1>1, <2>2 DEF FinishedOf, Of, ListOK, Scans
    <2>5. ASSUME Earlier(t) \in removed
          PROVE  Earlier(t) \in finished \cap Of(t) /\ Earlier(t) > s
      <3>1. Earlier(t) \in FinishedOf(t) /\ s <= Earlier(t) /\ Earlier(t) \in Scans
        BY <1>1, <2>1, <2>2, EarlierOf
      <3>2. s # Earlier(t)
        BY <1>3, <2>5
      <3> QED
        BY <1>1, <3>1, <3>2 DEF FinishedOf, Of, ListOK, Scans
    <2> QED
      BY <2>3, <2>4, <2>5
  <1> QED
    BY <1>1, <1>2, <1>3 DEF Superseded, t

\* Deletions stay confined to superseded scans.
LEMMA PlanStep ==
    ASSUME Typed, StoreOK, Moves, ListOK, PlanOK, AlertOK, Typed', [Next]_vars
    PROVE  PlanOK'
  <1>0. Created \subseteq Scans /\ Configured \subseteq Targets
    BY ContinuousParameters DEF Created
  <1>1. ASSUME NEW s \in Scans, Gone(s)' PROVE Superseded(s)'
    <2>1. CASE Gone(s)
      BY <2>1, SupersededStays DEF PlanOK, Gone
    <2>2. CASE pc = "retain" /\ s \in todo
      <3>1. /\ s \in Created /\ status[s] # "RUNNING"
            /\ Superseded(s) \/ s \in removed
        BY <2>2 DEF PlanOK, Typed
      <3>2. s \notin removed
        BY <1>1 DEF Gone, Moves
      <3> QED
        BY <3>1, <3>2, SupersededStays
    <2> QED
      BY <1>1, <2>1, <2>2 DEF Moves
  <1>2. ASSUME pc' = "retain", NEW s \in todo'
        PROVE  status'[s] # "RUNNING" /\ (Superseded(s)' \/ s \in removed')
    <2>1. (pc = "retain" /\ todo' \subseteq todo) \/ Planned
      BY <1>2, Kinds DEF Environment, Launching, Collecting, Listed, Skips, Decided, Retaining,
         ToReports, Reports, Stops, Hand, Normalising, Reporting
    <2>2. s \in Created /\ status[s] # "RUNNING" /\ (Superseded(s) \/ s \in removed)
      BY <1>2, <2>1, PlannedIsSuperseded DEF PlanOK, Typed, Planned
    <2>3. Superseded(s)' \/ s \in removed'
      BY <2>2, SupersededStays DEF Moves
    <2>4. status'[s] # "RUNNING"
      BY <1>0, <2>2 DEF Moves
    <2> QED
      BY <2>3, <2>4
  <1>3. ASSUME pc' = "decide", NEW t \in Configured \ todo' PROVE Passed(t)'
    <2>1. \/ pc = "decide" /\ records' = records /\ todo' = todo
          \/ todo' = Configured
          \/ \E x \in Configured : Decided(x) \/ Skips(x)
      BY <1>3, Kinds DEF Environment, Launching, Collecting, Listed, Planned, Retaining,
         ToReports, Reports, Stops, Hand, Normalising, Reporting
    <2>2. ASSUME pc = "decide", records' = records, Passed(t) PROVE Passed(t)'
      <3>1. Later(t)' = Later(t) /\ Earlier(t)' = Earlier(t)
        BY <1>0, <2>2, SameLater
      <3>2. removed \subseteq removed'
        BY DEF Moves
      <3> QED
        BY <2>2, <3>1, <3>2, DecisionsGrow DEF Passed
    <2>3. CASE pc = "decide" /\ records' = records /\ todo' = todo
      BY <1>3, <2>2, <2>3 DEF PlanOK
    <2>4. ASSUME NEW x \in Configured, Decided(x) PROVE Passed(t)'
      <3>1. records' = records /\ pc = "decide" /\ todo' = todo \ {x}
        BY <2>4 DEF Decided
      <3>2. Later(t)' = Later(t) /\ Earlier(t)' = Earlier(t)
        BY <1>0, <3>1, SameLater
      <3>3. CASE t # x
        BY <1>3, <2>2, <3>1, <3>3 DEF PlanOK
      <3>4. CASE t = x /\ Undecided(t)
        BY <2>4, <3>2, <3>4, DecisionsGrow DEF Passed
      <3>5. CASE t = x /\ ~Undecided(t)
        <4>1. Earlier(t) # NoScan => Later(t) \in decided
          BY <3>5 DEF Undecided
        <4>2. decided \subseteq ToSet(decisions)
          BY DEF AlertOK
        <4> QED
          BY <3>2, <4>1, <4>2, DecisionsGrow DEF Passed
      <3> QED
        BY <3>3, <3>4, <3>5
    <2>5. ASSUME NEW x \in Configured, Skips(x) PROVE Passed(t)'
      <3>1. records' = records /\ pc = "decide" /\ todo' = todo \ {x}
        BY <2>5 DEF Skips
      <3>2. CASE t # x
        BY <1>3, <2>2, <3>1, <3>2 DEF PlanOK
      <3>3. CASE t = x
        <4>1. /\ Earlier(t) # NoScan /\ Later(t) # NoScan
              /\ {status[Earlier(t)], status[Later(t)]} \cap {"NONE"} # {}
          BY <1>0, <2>5, <3>3, LaterOf DEF Skips, Undecided, Readable
        <4>2. /\ Later(t) \in FinishedOf(t) /\ Earlier(t) \in FinishedOf(t)
          BY <1>0, <4>1, LaterOf, EarlierOf
        <4>3. \A s \in FinishedOf(t) : s \in Created /\ s \in Scans /\ records[s] = "FINISHED"
          BY <1>0 DEF FinishedOf, Of
        <4>4. ASSUME NEW s \in FinishedOf(t), status[s] = "NONE" PROVE s \in removed
          BY <3>1, <4>3, <4>4 DEF PlanOK, Gone
        <4>5. Passed(t)
          BY <4>1, <4>2, <4>4 DEF Passed
        <4> QED
          BY <2>2, <3>1, <4>5
      <3> QED
        BY <3>2, <3>3
    <2> QED
      BY <1>3, <2>1, <2>3, <2>4, <2>5
  <1>4. ASSUME pc' \in {"collect", "running", "decide"}, NEW s \in Scans, records'[s] # "NONE"
        PROVE  ~Gone(s)'
    <2>1. \/ pc \in {"collect", "running", "decide"} /\ records' = records
          \/ records' = status /\ UNCHANGED Frame
      BY <1>4, Kinds DEF Environment, Launching, Collecting, Listed, Skips, Decided, Planned,
         Retaining, ToReports, Reports, Stops, Hand, Normalising, Reporting
    <2>2. CASE pc \in {"collect", "running", "decide"} /\ records' = records
      <3>1. ~Gone(s) /\ pc # "retain"
        BY <1>4, <2>2 DEF PlanOK
      <3> QED
        BY <3>1 DEF Moves
    <2>3. CASE records' = status /\ UNCHANGED Frame
      BY <1>4, <2>3 DEF Gone, Frame
    <2> QED
      BY <2>1, <2>2, <2>3
  <1> QED
    BY <1>1, <1>2, <1>3, <1>4 DEF PlanOK

\* Every step keeps LatestOK.
LEMMA LatestStep ==
    ASSUME Typed, StoreOK, StoreStep, ListOK, PlanOK, LatestOK, Typed', [Next]_vars
    PROVE  LatestOK'
  <1> SUFFICES ASSUME pc' \in Listing PROVE LatestOK'
    BY DEF LatestOK
  <1>0. Created \subseteq Scans /\ Created' \subseteq Scans /\ Moves
    BY DEF Created, StoreStep
  <1>1. \/ pc \in Listing /\ records' = records
        \/ records' = status /\ UNCHANGED Frame /\ pc' # "retain"
    BY Kinds DEF Environment, Launching, Collecting, Listed, Skips, Decided, Planned, Retaining,
       ToReports, Reports, Stops, Hand, Listing, Normalising, Reporting
  <1>2. CASE records' = status /\ UNCHANGED Frame /\ pc' # "retain"
    <2>1. \A s \in Scans : ~(records'[s] # "NONE" /\ Gone(s)')
      BY <1>2 DEF Gone, Frame
    <2> QED
      BY <1>2, <2>1 DEF LatestOK
  <1>3. CASE pc \in Listing /\ records' = records
    <2>1. ASSUME NEW s \in Created, \E u \in Of(target[s]) : u > s /\ records[u] # "NONE"
          PROVE  \E u \in Of(target[s])' : u > s /\ records'[u] # "NONE"
      <3>1. PICK u \in Of(target[s]) : u > s /\ records[u] # "NONE"
        BY <2>1
      <3>2. u \in Created' /\ target'[u] = target[s] /\ target'[s] = target[s]
        BY <1>0, <3>1 DEF Of, Moves
      <3>3. u \in Of(target[s])'
        BY <3>2 DEF Of
      <3> QED
        BY <1>3, <3>1, <3>3
    <2>2. ASSUME NEW s \in Scans, records'[s] # "NONE", Gone(s)'
          PROVE  \E u \in Of(target[s])' : u > s /\ records'[u] # "NONE"
      <3>1. Gone(s) \/ (pc = "retain" /\ s \in todo)
        BY <1>0, <2>2 DEF Moves
      <3>2. s \in Created
        BY <3>1 DEF Gone, Typed
      <3> QED
        BY <1>3, <2>1, <2>2, <3>1, <3>2 DEF LatestOK
    <2>3. ASSUME pc' = "retain", NEW s \in todo'
          PROVE  \E u \in Of(target[s])' : u > s /\ records'[u] # "NONE"
      <3>1. (pc = "retain" /\ todo' \subseteq todo) \/ Planned
        BY <2>3, Kinds DEF Environment, Launching, Collecting, Listed, Skips, Decided,
           Retaining, ToReports, Reports, Stops, Hand, Normalising, Reporting
      <3>2. s \in Created /\ \E u \in Of(target[s]) : u > s /\ records[u] # "NONE"
        BY <1>3, <2>3, <3>1, PrunableOf DEF LatestOK, Typed, Planned
      <3> QED
        BY <2>1, <3>2
    <2> QED
      BY <2>2, <2>3 DEF LatestOK
  <1> QED
    BY <1>1, <1>2, <1>3

\* A target's newest scan and its newest finished one are not superseded.
LEMMA BaselineFromPlan == Typed /\ StoreOK /\ PlanOK => BaselineKept
  <1> SUFFICES ASSUME Typed, StoreOK, PlanOK, NEW t \in Targets,
                      NEW s \in {Newest(Of(t)), Newest(finished \cap Of(t))},
                      s # NoScan, ~ (s \in removed \/ status[s] # "NONE")
               PROVE  FALSE
    BY DEF BaselineKept
  <1>1. Of(t) \in SUBSET Scans /\ finished \cap Of(t) \in SUBSET Scans
    BY DEF Of, Created
  <1>2. PICK S \in {Of(t), finished \cap Of(t)} : s = Newest(S) /\ s \in S
           /\ \A y \in S : s >= y
    BY <1>1, NewestOf
  <1>3. s \in Of(t) /\ s \in Scans /\ target[s] = t /\ Superseded(s)
    BY <1>1, <1>2 DEF Of, PlanOK, Gone
  <1>4. \E u \in S : u > s
    BY <1>2, <1>3 DEF Superseded
  <1> QED
    BY <1>1, <1>2, <1>4 DEF Scans

\* Nor is the one that an undecided alert compares with.
LEMMA ComparedFromPlan == Typed /\ StoreOK /\ PlanOK => ComparedKept
  <1> SUFFICES ASSUME Typed, StoreOK, PlanOK, NEW t \in Configured
               PROVE  LET later == Newest(finished \cap Of(t))
                          earlier == Newest((finished \cap Of(t)) \ {later})
                      IN  earlier # NoScan /\ later \notin ToSet(decisions) =>
                            status[earlier] = "FINISHED" \/ {earlier, later} \cap removed # {}
    BY DEF ComparedKept
  <1> DEFINE F == finished \cap Of(t)
             later == Newest(F)
             earlier == Newest(F \ {later})
  <1>1. F \in SUBSET Scans /\ F \ {later} \in SUBSET Scans
    BY DEF Of, Created
  <1>2. ASSUME earlier # NoScan, later \notin ToSet(decisions), {earlier, later} \cap removed = {}
        PROVE  status[earlier] = "FINISHED"
    <2>1. /\ earlier \in F \ {later} /\ \A y \in F \ {later} : earlier >= y
      BY <1>1, <1>2, NewestOf
    <2>2. earlier \in Scans /\ earlier \in finished /\ earlier \in Created
             /\ target[earlier] = t
          /\ status[earlier] \in Status
      BY <1>1, <2>1 DEF Of, Typed, TypeOK
    <2>3. CASE status[earlier] = "NONE"
      <3>1. Superseded(earlier)
        BY <1>2, <2>2, <2>3 DEF PlanOK, Gone
      <3>2. PICK u \in F : u > earlier /\ u \in ToSet(decisions) \cup removed
        BY <2>2, <3>1 DEF Superseded
      <3>3. u # later /\ u \in Scans
        BY <1>1, <1>2, <3>2
      <3> QED
        BY <2>1, <2>2, <3>2, <3>3 DEF Scans
    <2> QED
      BY <2>2, <2>3 DEF StoreOK, Status
  <1> QED
    BY <1>2

\* A decision is recorded: the history stays the end of what was decided.
LEMMA DecisionRecorded ==
    ASSUME Typed, StoreOK, ListOK, AlertOK, NEW t \in Configured, Decided(t), Undecided(t)
    PROVE  AlertOK'
  <1> DEFINE s == Later(t)
             n == Len(decisions)
             a == Len(alerts)
             M == MAX_ALERT_HISTORY_ENTRIES
  <1>1. /\ s \in Scans /\ s \in finished /\ target[s] = t /\ s \notin decided
        /\ t \in todo /\ todo' = todo \ {t} /\ pc = "decide" /\ pc' = "decide"
        /\ alerts' = Appended(s) /\ decisions' = Append(decisions, s)
        /\ decided' = decided /\ finished' = finished /\ target' = target
    <2>1. s \in FinishedOf(t) /\ s \in Scans
      BY LaterOf, ContinuousParameters DEF Undecided
    <2> QED
      BY <2>1 DEF FinishedOf, Of, ListOK, Decided, Undecided, Frame
  <1>2. /\ alerts \in Seq(Scans) /\ decisions \in Seq(Scans)
        /\ n \in Nat /\ a \in Nat /\ M \in Nat \ {0}
        /\ a = (IF n <= M THEN n ELSE M)
        /\ \A i \in 1..a : alerts[i] = decisions[n - a + i]
    BY ContinuousParameters, LenProperties DEF Typed, TypeOK, AlertOK
  <1>3. /\ decisions' \in Seq(Scans) /\ Len(decisions') = n + 1
        /\ \A i \in 1..n : decisions'[i] = decisions[i]
        /\ decisions'[n + 1] = s
    BY <1>1, <1>2, AppendProperties
  <1> DEFINE all == Append(alerts, s)
  <1>4. /\ Len(all) = a + 1 /\ \A i \in 1..a : all[i] = alerts[i]
        /\ all[a + 1] = s
    BY <1>1, <1>2, AppendProperties
  <1>5. PICK m \in Nat :
          /\ m = (IF a + 1 <= M THEN a + 1 ELSE M)
          /\ Len(alerts') = m /\ \A i \in 1..m : alerts'[i] = all[(a + 1) - m + i]
    BY <1>1, <1>2, AppendedOf
  <1> HIDE DEF s, n, a, all
  <1>6. \A i \in 1..(a + 1) : all[i] = decisions'[n - a + i]
    <2> SUFFICES ASSUME NEW i \in 1..(a + 1) PROVE all[i] = decisions'[n - a + i]
      OBVIOUS
    <2>1. CASE i = a + 1
      BY <1>2, <1>3, <1>4, <2>1
    <2>2. CASE i \in 1..a
      <3>1. n - a + i \in 1..n
        BY <1>2, <2>2
      <3> QED
        BY <1>2, <1>3, <1>4, <2>2, <3>1
    <2> QED
      BY <1>2, <2>1, <2>2
  <1>7. m = IF n + 1 <= M THEN n + 1 ELSE M
    BY <1>2, <1>5
  <1>8. \A i \in 1..m : alerts'[i] = decisions'[n + 1 - m + i]
    <2> SUFFICES ASSUME NEW i \in 1..m PROVE alerts'[i] = decisions'[n + 1 - m + i]
      OBVIOUS
    <2>1. (a + 1) - m + i \in 1..(a + 1) /\ n - a + ((a + 1) - m + i) = n + 1 - m + i
      BY <1>2, <1>5
    <2> QED
      BY <1>5, <1>6, <2>1
  <1>9. /\ \A x : x \in ToSet(decisions) <=> \E i \in 1..n : decisions[i] = x
        /\ \A x : x \in ToSet(decisions') <=> \E i \in 1..(n + 1) : decisions'[i] = x
    BY <1>2, <1>3, InSeq DEF n
  <1>10. ToSet(decisions') \subseteq finished' /\ decided' \subseteq ToSet(decisions')
    <2>1. ToSet(decisions) \subseteq finished /\ decided \subseteq ToSet(decisions)
      BY DEF AlertOK
    <2>2. ToSet(decisions') \subseteq ToSet(decisions) \cup {s}
             /\ ToSet(decisions) \subseteq ToSet(decisions')
      <3>1. ASSUME NEW x \in ToSet(decisions') PROVE x \in ToSet(decisions) \cup {s}
        <4>1. PICK i \in 1..(n + 1) : decisions'[i] = x
          BY <1>9
        <4>2. i \in 1..n \/ i = n + 1
          BY <1>2
        <4> QED
          BY <1>3, <1>9, <4>1, <4>2
      <3>2. \A i \in 1..n : i \in 1..(n + 1)
        BY <1>2
      <3>3. ASSUME NEW x \in ToSet(decisions) PROVE x \in ToSet(decisions')
        BY <1>3, <1>9, <3>2
      <3> QED
        BY <3>1, <3>3
    <2> QED
      BY <1>1, <2>1, <2>2
  <1>11. PICK k \in 0..n : \A i \in 1..n :
            /\ i > k => target[decisions[i]] \notin todo
            /\ i <= k /\ i + M > k => decisions[i] \in decided
    BY <1>1 DEF AlertOK, n
  <1>12. \E l \in 0..(n + 1) : \A i \in 1..(n + 1) :
            /\ i > l => target'[decisions'[i]] \notin todo'
            /\ i <= l /\ i + M > l => decisions'[i] \in decided'
    <2>1. k \in 0..(n + 1)
      BY <1>2
    <2>2. ASSUME NEW i \in 1..(n + 1)
          PROVE  /\ i > k => target'[decisions'[i]] \notin todo'
                 /\ i <= k /\ i + M > k => decisions'[i] \in decided'
      <3>1. CASE i = n + 1
        BY <1>1, <1>2, <1>3, <3>1
      <3>2. CASE i \in 1..n
        BY <1>1, <1>3, <1>11, <3>2
      <3>3. i = n + 1 \/ i \in 1..n
        BY <1>2
      <3> QED
        BY <3>1, <3>2, <3>3
    <2> QED
      BY <2>1, <2>2
  <1>13. DecidedOnce'
    <2>1. DOMAIN decisions = 1..n /\ DOMAIN decisions' = 1..(n + 1)
      BY <1>2, <1>3, LenProperties DEF n
    <2>2. ASSUME NEW i \in 1..(n + 1), NEW j \in 1..(n + 1), i < j,
                    decisions'[i] = decisions'[j]
          PROVE  j - i > M
      <3>1. CASE j \in 1..n
        <4>1. i \in 1..n
          BY <1>2, <2>2, <3>1
        <4>2. decisions[i] = decisions[j]
          BY <1>3, <2>2, <3>1, <4>1
        <4>3. DecidedOnce
          BY DEF AlertOK
        <4> QED
          BY <2>1, <2>2, <3>1, <4>1, <4>2, <4>3 DEF DecidedOnce
      <3>2. CASE j = n + 1
        <4>1. i \in 1..n /\ decisions[i] = s
          BY <1>2, <1>3, <2>2, <3>2
        <4>2. i <= k /\ ~(i + M > k)
          BY <1>1, <1>2, <1>11, <4>1
        <4> QED
          BY <1>2, <3>2, <4>1, <4>2
      <3>3. j = n + 1 \/ j \in 1..n
        BY <1>2
      <3> QED
        BY <3>1, <3>2, <3>3
    <2> QED
      BY <2>1, <2>2 DEF DecidedOnce
  <1>14. /\ Len(alerts') = IF Len(decisions') <= M THEN Len(decisions') ELSE M
         /\ \A i \in 1..Len(alerts') : alerts'[i] = decisions'[Len(decisions') - Len(alerts') + i]
    <2>1. Len(alerts') = m /\ Len(decisions') = n + 1
      BY <1>3, <1>5
    <2>2. Len(alerts') = IF Len(decisions') <= M THEN Len(decisions') ELSE M
      BY <1>7, <2>1
    <2>3. \A i \in 1..Len(alerts') : alerts'[i] = decisions'[Len(decisions') - Len(alerts') + i]
      BY <1>2, <1>8, <2>1
    <2> QED
      BY <2>2, <2>3
  <1>15. \E l \in 0..Len(decisions') : \A i \in 1..Len(decisions') :
            /\ i > l => target'[decisions'[i]] \notin todo'
            /\ i <= l /\ i + M > l => decisions'[i] \in decided'
    BY <1>3, <1>12
  <1> QED
    BY <1>10, <1>13, <1>14, <1>15 DEF AlertOK

\* What the history holds was decided, and all that was decided lately is in it.
LEMMA HistoryRead ==
    ASSUME Typed, AlertOK
    PROVE  /\ ToSet(alerts) \subseteq ToSet(decisions)
           /\ \A i \in 1..Len(decisions) :
                i + MAX_ALERT_HISTORY_ENTRIES > Len(decisions) => decisions[i] \in ToSet(alerts)
  <1> DEFINE n == Len(decisions)
             a == Len(alerts)
             M == MAX_ALERT_HISTORY_ENTRIES
  <1>1. /\ alerts \in Seq(Scans) /\ decisions \in Seq(Scans)
        /\ n \in Nat /\ a \in Nat /\ M \in Nat \ {0}
        /\ a = (IF n <= M THEN n ELSE M)
        /\ \A i \in 1..a : alerts[i] = decisions[n - a + i]
    BY ContinuousParameters, LenProperties DEF Typed, TypeOK, AlertOK
  <1>2. /\ \A x : x \in ToSet(decisions) <=> \E i \in 1..n : decisions[i] = x
        /\ \A x : x \in ToSet(alerts) <=> \E i \in 1..a : alerts[i] = x
    BY <1>1, InSeq
  <1> HIDE DEF n, a
  <1>3. \A i \in 1..a : n - a + i \in 1..n
    BY <1>1
  <1>4. ToSet(alerts) \subseteq ToSet(decisions)
    BY <1>1, <1>2, <1>3
  <1>5. ASSUME NEW i \in 1..n, i + M > n PROVE decisions[i] \in ToSet(alerts)
    <2> DEFINE p == i + a - n
    <2>1. p \in 1..a /\ n - a + p = i
      BY <1>1, <1>5
    <2> HIDE DEF p
    <2>2. alerts[p] = decisions[i]
      BY <1>1, <2>1
    <2> QED
      BY <1>2, <2>1, <2>2
  <1> QED
    BY <1>4, <1>5 DEF n

\* Every step keeps AlertOK.
LEMMA AlertStep ==
    ASSUME Typed, StoreOK, Moves, ListOK, AlertOK, [Next]_vars
    PROVE  AlertOK'
  <1>1. CASE \E t \in Configured : Decided(t) /\ Undecided(t)
    BY <1>1, DecisionRecorded
  <1>2. CASE UNCHANGED <<alerts, decisions>>
    <2> DEFINE n == Len(decisions)
    <2>1. decisions \in Seq(Scans) /\ n \in Nat
             /\ \A i \in 1..n : decisions[i] \in ToSet(decisions)
      BY InSeq, LenProperties DEF Typed, TypeOK
    <2>2. \A i \in 1..n : target'[decisions[i]] = target[decisions[i]]
      BY <2>1 DEF AlertOK, Typed, TypeOK, Moves
    <2>3. decided' \subseteq ToSet(decisions)
      <3>1. decided' \in {decided, {}, ToSet(alerts)}
        BY Kinds DEF Environment, Launching, Collecting, Listed, Skips, Decided, Planned,
           Retaining, ToReports, Reports, Stops, Hand
      <3> QED
        BY <3>1, HistoryRead DEF AlertOK
    <2>4. ASSUME pc' = "decide"
          PROVE  \E k \in 0..n : \A i \in 1..n :
                    /\ i > k => target'[decisions[i]] \notin todo'
                    /\ i <= k /\ i + MAX_ALERT_HISTORY_ENTRIES > k => decisions[i] \in decided'
      <3>1. (pc = "decide" /\ todo' \subseteq todo /\ decided' = decided)
               \/ decided' = ToSet(alerts)
        BY <2>4, Kinds DEF Environment, Launching, Collecting, Listed, Skips, Decided, Planned,
           Retaining,
           ToReports, Reports, Stops, Hand, Normalising, Reporting
      <3>2. CASE pc = "decide" /\ todo' \subseteq todo /\ decided' = decided
        BY <2>2, <3>2 DEF AlertOK
      <3>3. CASE decided' = ToSet(alerts)
        <4>1. n \in 0..n /\ \A i \in 1..n : ~(i > n)
          BY <2>1
        <4> QED
          BY <3>3, <4>1, HistoryRead
      <3> QED
        BY <3>1, <3>2, <3>3
    <2>5. ToSet(decisions) \subseteq finished' /\ DecidedOnce'
      BY <1>2 DEF AlertOK, Moves, DecidedOnce
    <2> QED
      BY <1>2, <2>3, <2>4, <2>5 DEF AlertOK
  <1>3. UNCHANGED <<alerts, decisions>> \/ \E t \in Configured : Decided(t) /\ Undecided(t)
    BY Kinds DEF Environment, Launching, Collecting, Listed, Skips, Decided, Planned, Retaining,
       ToReports, Reports, Stops, Hand
  <1> QED
    BY <1>1, <1>2, <1>3

-----------------------------------------------------------------------------
(* Reports. *)

\* Scans that are there, or that the operator removed, stay so outside retention.
LEMMA StaysThere ==
    ASSUME Typed, Moves, pc # "retain", NEW s \in Created, status[s] # "RUNNING", ~Gone(s)
    PROVE  /\ status'[s] # "RUNNING" /\ ~Gone(s)' /\ target'[s] = target[s]
           /\ status'[s] # "NONE" => status[s] # "NONE" /\ revision[s] <= revision'[s]
  <1>1. s \in Scans
    BY DEF Created
  <1> QED
    BY <1>1 DEF Moves

\* Steps of others leave a job as it is.
LEMMA JobSame ==
    ASSUME Typed, StoreOK, Moves, JobOK, Typed', UNCHANGED <<pc, todo, job>>
    PROVE  JobOK'
  <1> USE DEF Normalising, Reporting
  <1>1. ASSUME pc \in Normalising
        PROVE  /\ \A s \in todo : status'[s] # "RUNNING" /\ ~Gone(s)' /\ target'[s] = target[s]
               /\ \A s, u \in todo : target'[s] = target'[u] => s = u
    <2>1. \A s \in todo : s \in Created /\ status[s] # "RUNNING" /\ ~Gone(s)
      BY <1>1 DEF JobOK, Typed
    <2>2. \A s \in todo : status'[s] # "RUNNING" /\ ~Gone(s)' /\ target'[s] = target[s]
      BY <1>1, <2>1, StaysThere
    <2> QED
      BY <1>1, <2>2 DEF JobOK
  <1>2. ASSUME pc \in Reporting
        PROVE  /\ status'[job.scan] # "RUNNING" /\ ~Gone(job.scan)'
               /\ \A s \in todo : target'[s] # target'[job.scan]
               /\ status'[job.scan] # "NONE" =>
                    status[job.scan] # "NONE" /\ revision[job.scan] <= revision'[job.scan]
    <2>1. job.scan \in Created /\ status[job.scan] # "RUNNING" /\ ~Gone(job.scan)
      BY <1>2 DEF JobOK, Typed
    <2>2. /\ status'[job.scan] # "RUNNING" /\ ~Gone(job.scan)'
             /\ target'[job.scan] = target[job.scan]
          /\ status'[job.scan] # "NONE" =>
               status[job.scan] # "NONE" /\ revision[job.scan] <= revision'[job.scan]
      BY <1>2, <2>1, StaysThere
    <2> QED
      BY <1>1, <1>2, <2>2 DEF JobOK
  <1>3. ASSUME pc \in Reporting, status'[job.scan] # "NONE"
        PROVE  /\ job.hint <= revision'[job.scan]
               /\ pc = "check" => job.hint <= job.seen /\ job.seen <= revision'[job.scan]
    <2>0. job.scan \in Scans
      BY <1>3 DEF Typed, Created
    <2>1. status[job.scan] # "NONE" /\ revision[job.scan] <= revision'[job.scan]
      BY <1>2, <1>3
    <2>2. job.hint \in Nat /\ job.seen \in Nat /\ revision[job.scan] \in Nat
      <3>1. job \in Job
        BY DEF Typed
      <3>2. job.hint \in Nat /\ job.seen \in Nat
        BY <3>1, Bounds DEF Job
      <3> QED
        BY <2>0, <3>2, StoreTypes, Bounds
    <2>3. revision'[job.scan] \in Int
      <3>1. revision' \in [Scans -> 0..MaxActs + 1]
        BY DEF Typed, TypeOK
      <3> QED
        BY <2>0, <3>1, Bounds
    <2> QED
      BY <1>3, <2>1, <2>2, <2>3 DEF JobOK
  <1> QED
    BY <1>1, <1>2, <1>3 DEF JobOK

\* Retention leaves the newest of the list: what the cycle goes on to normalise is there.
LEMMA NormalisedThere ==
    ASSUME Typed, StoreOK, ListOK, LatestOK, pc \in Listing
    PROVE  /\ \A s \in Normalised : s \in Created /\ status[s] # "RUNNING" /\ ~Gone(s)
           /\ \A s, u \in Normalised : target[s] = target[u] => s = u
  <1>0. Created \subseteq Scans /\ Scans \subseteq Int
    BY DEF Created, Scans
  <1>1. ASSUME NEW s \in Normalised PROVE s \in Created /\ status[s] # "RUNNING" /\ ~Gone(s)
    <2>1. /\ s \in Created /\ records[s] \in {"FINISHED", "ABORTED"}
          /\ \A u \in Of(target[s]) : records[u] # "NONE" => u <= s
      BY NormalisedOf
    <2>2. ~ \E u \in Of(target[s]) : u > s /\ records[u] # "NONE"
      BY <1>0, <2>1 DEF Of
    <2> QED
      BY <1>0, <2>1, <2>2 DEF ListOK, LatestOK
  <1>2. ASSUME NEW s \in Normalised, NEW u \in Normalised, target[s] = target[u]
        PROVE  s = u
    <2>1. /\ s \in Created /\ records[s] # "NONE"
          /\ \A v \in Of(target[s]) : records[v] # "NONE" => v <= s
      BY NormalisedOf
    <2>2. /\ u \in Created /\ records[u] # "NONE"
          /\ \A v \in Of(target[u]) : records[v] # "NONE" => v <= u
      BY NormalisedOf
    <2>3. u <= s /\ s <= u
      BY <1>2, <2>1, <2>2 DEF Of
    <2> QED
      BY <1>0, <2>1, <2>2, <2>3
  <1> QED
    BY <1>1, <1>2

\* The steps of a report keep JobOK.
LEMMA JobReports ==
    ASSUME Typed, StoreOK, JobOK, Typed', Reports
    PROVE  JobOK'
  <1> USE DEF Goes
  <1>0. /\ UNCHANGED <<status, target, revision, removed>> /\ \A s : Gone(s)' <=> Gone(s)
        /\ pc \in Normalising /\ pc' \in Normalising
    BY DEF Reports, Frame, Gone, Created
  <1>1. /\ \A s \in todo : status[s] # "RUNNING" /\ ~Gone(s) /\ s \in Created
        /\ \A s, u \in todo : target[s] = target[u] => s = u
    BY <1>0 DEF JobOK, Typed
  <1>2. todo' \subseteq todo
    BY DEF Reports, Inspect, Analyse, Check, Archive, Write, cycle
  <1>3. /\ \A s \in todo' : status'[s] # "RUNNING" /\ ~Gone(s)'
        /\ \A s, u \in todo' : target'[s] = target'[u] => s = u
    BY <1>0, <1>1, <1>2
  <1>4. job \in Job /\ Scans \subseteq Int /\ \A s \in Scans : revision[s] \in Nat
    <2>1. Scans \subseteq Int
      BY DEF Scans
    <2>2. job \in Job /\ revision \in [Scans -> 0..MaxActs + 1]
      BY DEF Typed, TypeOK
    <2> QED
      BY <2>1, <2>2, ContinuousParameters
  <1>5. ASSUME NEW s \in Scans, Inspect(s) PROVE JobOK'
    <2>1. pc = "normalise" /\ s \in todo /\ todo' = todo \ {s}
      BY <1>5 DEF Inspect
    <2>2. \A u \in todo' : target'[u] # target'[s]
      BY <1>0, <1>1, <2>1
    <2>3. CASE pc' = "normalise"
      BY <1>3, <2>3 DEF JobOK, Reporting
    <2>4. CASE pc' = "archive"
      <3>1. status[s] = "NONE" /\ job' = [NoJob EXCEPT !.scan = s, !.state = "stale"]
        BY <1>5, <2>1, <2>4 DEF Inspect
      <3>2. job'.scan = s /\ job'.state = "stale"
        BY <3>1 DEF NoJob
      <3> QED
        BY <1>0, <1>1, <1>3, <2>1, <2>2, <2>4, <3>1, <3>2 DEF JobOK, Reporting
    <2>5. CASE pc' = "analyse"
      <3>1. job' = [NoJob EXCEPT !.scan = s, !.hint = revision[s]]
        BY <1>5, <2>1, <2>5 DEF Inspect
      <3>2. job'.scan = s /\ job'.hint = revision[s]
        BY <3>1 DEF NoJob
      <3>3. job'.hint <= revision'[job'.scan]
        BY <1>0, <1>4, <3>2
      <3> QED
        BY <1>0, <1>1, <1>3, <2>1, <2>2, <2>5, <3>2, <3>3 DEF JobOK, Reporting
    <2> QED
      BY <1>5, <2>1, <2>3, <2>4, <2>5 DEF Inspect
  <1>6. ASSUME pc \in Reporting, pc' \in Reporting, job'.scan = job.scan, job'.hint = job.hint,
               pc' = "check" => pc = "analyse" /\ job'.seen = revision[job.scan],
               pc' \in {"archive", "write"} /\ job'.state = "current" => job'.seen = job'.hint
        PROVE  JobOK'
    <2>1. /\ status[job.scan] # "RUNNING" /\ ~Gone(job.scan)
          /\ \A s \in todo : target[s] # target[job.scan]
          /\ status[job.scan] # "NONE" => job.hint <= revision[job.scan]
          /\ job.scan \in Scans
      BY <1>6 DEF JobOK, Typed, Created
    <2>2. revision[job.scan] <= revision[job.scan]
      <3>1. revision[job.scan] \in Nat
        BY <1>4, <2>1
      <3> QED
        BY <3>1
    <2> QED
      BY <1>0, <1>2, <1>3, <1>6, <2>1, <2>2 DEF JobOK
  <1>7. CASE Analyse
    <2>1. /\ pc = "analyse"
          /\ \/ job' = [job EXCEPT !.state = "stale", !.retry = TRUE] /\ pc' = "archive"
             \/ job' = [job EXCEPT !.seen = revision[job.scan]] /\ pc' = "check"
      BY <1>7 DEF Analyse, Replace
    <2>2. /\ job'.scan = job.scan /\ job'.hint = job.hint
          /\ pc' = "check" => job'.seen = revision[job.scan]
          /\ pc' = "archive" => job'.state = "stale"
      BY <1>4, <2>1 DEF Job
    <2> QED
      BY <1>6, <2>1, <2>2 DEF Reporting
  <1>8. CASE Check
    <2>1. /\ pc = "check" /\ pc' = "archive"
          /\ \/ job' = [job EXCEPT !.state = "stale", !.retry = TRUE]
             \/ job' = [job EXCEPT !.state = "current", !.retry = FALSE] /\ Unchanged
      BY <1>8 DEF Check, Replace
    <2>2. /\ job'.scan = job.scan /\ job'.hint = job.hint /\ job'.seen = job.seen
          /\ job'.state = "current" => Unchanged
      BY <1>4, <2>1 DEF Job
    <2>3. Unchanged => job.seen = job.hint
      <3>1. job.hint \in Int /\ job.seen \in Int
        BY <1>4 DEF Job
      <3> QED
        BY <2>1, <3>1 DEF Unchanged, JobOK
    <2> QED
      BY <1>6, <2>1, <2>2, <2>3 DEF Reporting
  <1>9. CASE Archive
    <2>1. pc = "archive" /\ pc' = "write" /\ job' = job
      BY <1>9 DEF Archive, cycle
    <2> QED
      BY <1>6, <2>1 DEF Reporting, JobOK
  <1>10. CASE Write
    BY <1>3, <1>10 DEF Write, JobOK, Reporting
  <1> QED
    BY <1>5, <1>7, <1>8, <1>9, <1>10 DEF Reports

\* Every step keeps JobOK.
LEMMA JobStep ==
    ASSUME Typed, StoreOK, Moves, ListOK, LatestOK, JobOK, Typed', [Next]_vars
    PROVE  JobOK'
  <1>1. CASE Environment
    BY <1>1, JobSame DEF Environment, Hand
  <1>2. CASE ToReports
    <2>1. /\ pc \in Listing /\ todo' = Normalised /\ pc' = "normalise"
          /\ UNCHANGED <<status, target, removed>> /\ \A s : Gone(s)' <=> Gone(s)
      BY <1>2 DEF ToReports, Listing, Frame, Gone, Created
    <2> QED
      BY <2>1, NormalisedThere DEF JobOK, Reporting
  <1>3. CASE Reports
    BY <1>3, JobReports
  <1>4. CASE pc' \notin Normalising
    BY <1>4 DEF JobOK, Normalising, Reporting
  <1>5. \/ Environment \/ ToReports \/ Reports \/ pc' \notin Normalising
    BY Kinds DEF Launching, Collecting, Listed, Skips, Decided, Planned, Retaining, Stops,
       Normalising, Reporting
  <1> QED
    BY <1>1, <1>2, <1>3, <1>4, <1>5

\* What a step leaves of a target's scans.
LEMMA WholeBefore ==
    ASSUME Typed, Moves, NEW t \in Targets
    PROVE  /\ removed' \cap Of(t)' = {} => removed \cap Of(t) = {}
           /\ Of(t) \subseteq Of(t)'
           /\ \A s \in Created : s \in Of(t)' <=> s \in Of(t)
           /\ \A s \in Of(t) : status'[s] # "NONE" =>
                status[s] = "NONE" \/ revision[s] <= revision'[s]
           /\ \A s \in Of(t) : status'[s] # "NONE" => status[s] # "NONE"
  <1>1. Created \subseteq Scans
    BY DEF Created
  <1>2. \A s \in Created : s \in Created' /\ target'[s] = target[s]
    BY DEF Moves
  <1>3. Of(t) \subseteq Of(t)' /\ \A s \in Created : s \in Of(t)' <=> s \in Of(t)
    BY <1>2 DEF Of
  <1>4. \A s \in Of(t) : s \in Created /\ s \in Scans
    BY <1>1 DEF Of
  <1> QED
    BY <1>3, <1>4 DEF Moves

\* Steps that leave the report of t alone, and what the cycle holds of it.
Passive ==
    /\ pc' \in Normalising => pc' = pc /\ UNCHANGED <<todo, job>>
    /\ pc' \in Listing => pc \in Listing /\ records' = records

\* Steps that leave the reports alone; a deletion is of a scan with a newer one listed.
LEMMA SlotPassive ==
    ASSUME Typed, StoreOK, Moves, PlanOK, LatestOK, Typed', Passive, NEW t \in Targets,
           UNCHANGED <<slot, last>>, SlotOK(t), Ahead(t)
    PROVE  SlotOK(t)' /\ Ahead(t)'
  <1> DEFINE l == last[t].scan
             h == last[t].hint
  <1>0. /\ Created \subseteq Scans /\ Scans \subseteq Int /\ Of(t) \subseteq Created
        /\ l \in Int /\ h \in Int
    <2>1. last[t] \in Report
      BY DEF Typed
    <2> QED
      BY <2>1 DEF Created, Of, Scans, Report, NoScan
  <1>1. \A s \in Scans : revision[s] \in Int /\ revision'[s] \in Int
    <2>1. revision \in [Scans -> 0..MaxActs + 1] /\ revision' \in [Scans -> 0..MaxActs + 1]
      BY DEF Typed, TypeOK
    <2> QED
      BY <2>1, ContinuousParameters
  <1>2. Whole(t)' => Whole(t) /\ l \in Of(t) /\ l \in Scans /\ l \notin removed'
    BY <1>0, WholeBefore DEF Whole, SlotOK
  <1>3. Candidates(t)' \subseteq Candidates(t)
    <2>1. ASSUME NEW s \in Candidates(t)' PROVE s \in Candidates(t)
      <3>1. pc' = pc /\ pc \in Normalising /\ UNCHANGED <<todo, job>>
        BY <2>1 DEF Candidates, Passive
      <3>2. s \in Created
        BY <2>1, <3>1 DEF Candidates, Typed, Normalising
      <3> QED
        BY <2>1, <3>1, <3>2, WholeBefore DEF Candidates
    <2> QED
      BY <2>1
  <1>4. SlotOK(t)'
    <2>1. last'[t].state = "current" => last'[t].scan \in Of(t)'
      BY WholeBefore DEF SlotOK
    <2>2. Whole(t)' /\ status'[l] # "NONE" => h <= revision'[l]
      BY <1>0, <1>1, <1>2, WholeBefore DEF SlotOK
    <2> QED
      BY <2>1, <2>2 DEF SlotOK
  <1>5. ASSUME Whole(t)'
        PROVE  /\ \A s \in Candidates(t)' : s >= l
               /\ pc' \in Listing => \E s \in Of(t)' : s >= l /\ records'[s] # "NONE"
    BY <1>2, <1>3, <1>5, WholeBefore DEF Ahead, Passive
  <1>6. ASSUME Whole(t)', slot[t].state # "current", ~Renewed(t)'
        PROVE  /\ \E u \in Of(t)' : u > l
               /\ \A s \in Candidates(t)' : s > l
               /\ pc' \in Listing => \E s \in Of(t)' : s > l /\ records'[s] # "NONE"
    <2>1. CASE ~Renewed(t)
      BY <1>2, <1>3, <1>6, <2>1, WholeBefore DEF Ahead, Passive
    <2>2. CASE Renewed(t)
      <3>1. status[l] # "NONE" /\ revision[l] > h
        BY <2>2 DEF Renewed
      <3>2. status'[l] = "NONE"
        <4>1. ~(status'[l] # "NONE" /\ revision'[l] > h)
          BY <1>6 DEF Renewed
        <4>2. status'[l] # "NONE" => revision[l] <= revision'[l]
          BY <1>2, <1>6, <3>1, WholeBefore
        <4>3. revision[l] \in Int /\ revision'[l] \in Int
          BY <1>1, <1>2, <1>6
        <4> QED
          BY <1>0, <3>1, <4>1, <4>2, <4>3
      <3>3. pc = "retain" /\ l \in todo
        <4>1. Gone(l)' /\ ~Gone(l)
          BY <1>2, <1>6, <3>1, <3>2, WholeBefore DEF Gone, Of
        <4> QED
          BY <1>2, <1>6, <4>1 DEF Moves
      <3>4. \E u \in Of(t) : u > l /\ records[u] # "NONE"
        <4>1. target[l] = t
          BY <1>2, <1>6 DEF Of
        <4> QED
          BY <3>3, <4>1 DEF LatestOK, Listing
      <3>5. Candidates(t)' = {}
        BY <3>3 DEF Candidates, Passive, Normalising, Reporting
      <3> QED
        BY <3>4, <3>5, WholeBefore DEF Passive
    <2> QED
      BY <2>1, <2>2
  <1>7. ASSUME Whole(t)', pc' \in Reporting, target'[job'.scan] = t
        PROVE  job'.scan > l \/ job'.hint > h
    <2>1. pc' = pc /\ job' = job /\ job.scan \in Created
      BY <1>7 DEF Passive, Normalising, Typed
    <2>2. target[job.scan] = t
      BY <1>7, <2>1 DEF Moves
    <2> QED
      BY <1>2, <1>7, <2>1, <2>2 DEF Ahead
  <1> QED
    BY <1>4, <1>5, <1>6, <1>7 DEF Ahead

\* A step that changes no scan and no report of t.
LEMMA SlotFrame ==
    ASSUME NEW t \in Targets, UNCHANGED Frame, slot'[t] = slot[t], last'[t] = last[t]
    PROVE  /\ Of(t)' = Of(t) /\ (Whole(t)' <=> Whole(t)) /\ (Renewed(t)' <=> Renewed(t))
           /\ SlotOK(t) => SlotOK(t)'
  <1>1. Of(t)' = Of(t)
    BY DEF Frame, Of, Created
  <1>2. Whole(t)' <=> Whole(t)
    BY <1>1 DEF Frame, Whole
  <1>3. Renewed(t)' <=> Renewed(t)
    BY DEF Frame, Renewed
  <1> QED
    BY <1>1, <1>2, <1>3 DEF Frame, SlotOK

\* The list is read: a target's newest scan is in it.
LEMMA SlotListed ==
    ASSUME Typed, StoreOK, PlanOK, NEW t \in Targets, SlotOK(t), Ahead(t),
           UNCHANGED Frame, UNCHANGED <<slot, last>>, records' = status, pc' \notin Normalising
    PROVE  SlotOK(t)' /\ Ahead(t)'
  <1> DEFINE l == last[t].scan
             n == Newest(Of(t))
  <1>0. Of(t) \in SUBSET Scans /\ Scans \subseteq Int /\ l \in Int
    <2>1. last[t] \in Report
      BY DEF Typed
    <2> QED
      BY <2>1 DEF Of, Created, Scans, Report, NoScan
  <1>1. /\ Of(t)' = Of(t) /\ (Whole(t)' <=> Whole(t)) /\ (Renewed(t)' <=> Renewed(t))
        /\ SlotOK(t)'
    BY SlotFrame
  <1>2. Candidates(t)' = {} /\ pc' \notin Reporting
    BY DEF Candidates, Normalising
  <1>3. ASSUME Whole(t)
        PROVE  /\ n \in Of(t) /\ status[n] # "NONE" /\ \A u \in Of(t) : n >= u
               /\ l \in Of(t)
    <2>1. l \in Of(t)
      BY <1>3 DEF SlotOK, Whole
    <2>2. n \in Of(t) /\ \A u \in Of(t) : n >= u
      BY <1>0, <2>1, NewestOf
    <2>3. n # NoScan /\ n \notin removed
      BY <1>0, <1>3, <2>2 DEF Whole, Scans, NoScan
    <2> QED
      BY <2>1, <2>2, <2>3, BaselineFromPlan DEF BaselineKept
  <1>4. Whole(t) => \E s \in Of(t) : s >= l /\ status[s] # "NONE"
    BY <1>3
  <1>5. Whole(t) /\ (\E u \in Of(t) : u > l) => \E s \in Of(t) : s > l /\ status[s] # "NONE"
    <2> SUFFICES ASSUME Whole(t), NEW u \in Of(t), u > l
                 PROVE  \E s \in Of(t) : s > l /\ status[s] # "NONE"
      OBVIOUS
    <2>1. n >= u /\ n \in Int /\ u \in Int
      BY <1>0, <1>3
    <2>2. n > l
      BY <1>0, <2>1
    <2> QED
      BY <1>3, <2>2
  <1> QED
    BY <1>1, <1>2, <1>4, <1>5 DEF Ahead

\* The newest scans of the list are taken up.
LEMMA SlotToReports ==
    ASSUME Typed, StoreOK, NEW t \in Targets, SlotOK(t), Ahead(t), ToReports
    PROVE  SlotOK(t)' /\ Ahead(t)'
  <1> DEFINE l == last[t].scan
  <1>0. Of(t) \in SUBSET Scans /\ Scans \subseteq Int /\ l \in Int
    <2>1. last[t] \in Report
      BY DEF Typed
    <2> QED
      BY <2>1 DEF Of, Created, Scans, Report, NoScan
  <1>1. /\ Of(t)' = Of(t) /\ (Whole(t)' <=> Whole(t)) /\ (Renewed(t)' <=> Renewed(t))
        /\ SlotOK(t)'
    BY SlotFrame DEF ToReports, Kept
  <1>2. /\ pc \in Listing /\ pc' = "normalise" /\ todo' = Normalised
        /\ pc' \notin Listing /\ pc' \notin Reporting /\ UNCHANGED <<slot, last>>
    BY DEF ToReports, Kept, Listing, Reporting
  <1>3. ASSUME NEW s \in Candidates(t)'
        PROVE  s \in Of(t) /\ \A u \in Of(t) : records[u] # "NONE" => u <= s
    <2>1. s \in Normalised /\ s \in Of(t)
      BY <1>1, <1>2, <1>3 DEF Candidates
    <2> QED
      BY <2>1, NormalisedOf DEF Of
  <1>4. ASSUME Whole(t), NEW s \in Candidates(t)' PROVE s >= l
    <2>1. PICK u \in Of(t) : u >= l /\ records[u] # "NONE"
      BY <1>2, <1>4 DEF Ahead
    <2>2. u <= s /\ u \in Int /\ s \in Int
      BY <1>0, <1>3, <2>1
    <2> QED
      BY <1>0, <2>1, <2>2
  <1>5. ASSUME Whole(t), slot[t].state # "current", ~Renewed(t), NEW s \in Candidates(t)'
        PROVE  s > l
    <2>1. PICK u \in Of(t) : u > l /\ records[u] # "NONE"
      BY <1>2, <1>5 DEF Ahead
    <2>2. u <= s /\ u \in Int /\ s \in Int
      BY <1>0, <1>3, <2>1
    <2> QED
      BY <1>0, <2>1, <2>2
  <1> QED
    BY <1>1, <1>2, <1>4, <1>5 DEF Ahead

\* A scan is looked at: its report is derived again only where the scan is newer than the
\* last report or its evidence has changed.
LEMMA SlotInspect ==
    ASSUME Typed, StoreOK, JobOK, NEW t \in Targets, SlotOK(t), Ahead(t),
           NEW s \in Scans, Inspect(s), Reports
    PROVE  SlotOK(t)' /\ Ahead(t)'
  <1> DEFINE l == last[t].scan
             h == last[t].hint
  <1>0. Of(t) \in SUBSET Scans /\ Scans \subseteq Int /\ l \in Int /\ h \in Int
           /\ last[t] \in Report
        /\ s \in Int /\ revision[s] \in Int
    <2>1. last[t] \in Report /\ revision[s] \in 0..MaxActs + 1
      BY DEF Typed, TypeOK
    <2> QED
      BY <2>1, ContinuousParameters DEF Of, Created, Scans, Report, NoScan
  <1>1. UNCHANGED Frame /\ UNCHANGED <<slot, last>>
    BY DEF Reports, Inspect, reports
  <1>2. /\ Of(t)' = Of(t) /\ (Whole(t)' <=> Whole(t)) /\ (Renewed(t)' <=> Renewed(t))
        /\ SlotOK(t)'
    BY <1>1, SlotFrame
  <1>3. pc = "normalise" /\ s \in todo /\ todo' = todo \ {s} /\ pc' \in {"normalise",
           "archive", "analyse"}
        /\ pc' \notin Listing
    BY DEF Inspect, Goes, Listing
  <1>4. pc' # "normalise" => job'.scan = s
    BY <1>3 DEF Inspect, Goes, NoJob
  <1>5. Candidates(t)' \subseteq Candidates(t)
    BY <1>2, <1>3, <1>4 DEF Candidates, Normalising, Reporting
  <1>6. ASSUME Whole(t), pc' \in Reporting, target[s] = t PROVE s > l \/ job'.hint > h
    <2>1. s \in Created /\ ~Gone(s) /\ s \in Of(t) /\ s \notin removed
      BY <1>3, <1>6 DEF Typed, JobOK, Normalising, Of, Whole
    <2>2. status[s] # "NONE"
      BY <2>1 DEF Gone
    <2>3. /\ job' = [NoJob EXCEPT !.scan = s, !.hint = revision[s]] /\ ~AlreadyCurrent(s)
      BY <1>3, <1>6, <2>2 DEF Inspect, Reporting
    <2>4. job'.hint = revision[s]
      BY <2>3 DEF NoJob
    <2>5. s \in Candidates(t)
      BY <1>3, <2>1 DEF Candidates, Normalising
    <2>6. CASE s = l
      <3>1. h <= revision[s]
        BY <1>6, <2>2, <2>6 DEF SlotOK
      <3>2. CASE slot[t].state = "current"
        <4>1. slot[t] = last[t]
          BY <3>2 DEF SlotOK
        <4>2. h # revision[s]
          BY <1>6, <2>3, <2>6, <3>2, <4>1 DEF AlreadyCurrent
        <4> QED
          BY <1>0, <2>4, <3>1, <4>2
      <3>3. CASE slot[t].state # "current"
        <4>1. Renewed(t)
          <5>1. ~(s > l)
            BY <1>0, <2>6
          <5> QED
            BY <1>6, <2>5, <3>3, <5>1 DEF Ahead
        <4> QED
          BY <2>4, <2>6, <4>1 DEF Renewed
      <3> QED
        BY <3>2, <3>3
    <2>7. CASE s # l
      BY <1>0, <1>6, <2>5, <2>7 DEF Ahead
    <2> QED
      BY <2>6, <2>7
  <1>7. Whole(t)' /\ pc' \in Reporting /\ target'[job'.scan] = t => job'.scan > l
           \/ job'.hint > h
    BY <1>1, <1>2, <1>4, <1>6 DEF Frame, Reporting
  <1> QED
    BY <1>1, <1>2, <1>3, <1>5, <1>7 DEF Ahead

\* The report is analysed, checked and archived.
LEMMA SlotWork ==
    ASSUME Typed, StoreOK, NEW t \in Targets, SlotOK(t), Ahead(t), Reports,
           Analyse \/ Check \/ Archive
    PROVE  SlotOK(t)' /\ Ahead(t)'
  <1>1. UNCHANGED Frame /\ UNCHANGED <<slot, last, todo>> /\ pc \in Reporting
           /\ pc' \in Reporting
        /\ target' = target
    BY DEF Reports, Analyse, Check, Archive, Replace, reports, cycle, Goes, Reporting, Frame
  <1>2. /\ Of(t)' = Of(t) /\ (Whole(t)' <=> Whole(t)) /\ (Renewed(t)' <=> Renewed(t))
        /\ SlotOK(t)'
    BY <1>1, SlotFrame
  <1>3. job'.scan = job.scan /\ job'.hint = job.hint
    <2>1. job \in Job
      BY DEF Typed
    <2>2. \/ job' = job
          \/ job' = [job EXCEPT !.seen = revision[job.scan]]
          \/ \E r \in {"current", "stale"}, b \in BOOLEAN :
               job' = [job EXCEPT !.state = r, !.retry = b]
      BY DEF Analyse, Check, Archive, Replace, cycle
    <2> QED
      BY <2>1, <2>2 DEF Job
  <1>4. Candidates(t)' = Candidates(t) /\ pc' \notin Listing
    BY <1>1, <1>2, <1>3 DEF Candidates, Normalising, Reporting, Listing
  <1> QED
    BY <1>1, <1>2, <1>3, <1>4 DEF Ahead

\* What Write does to the reports.
LEMMA Written ==
    ASSUME Typed, Write, Reports
    PROVE  LET t == target[job.scan]
               report == [state |-> "current", scan |-> job.scan, hint |-> job.hint,
                          seen |-> job.seen]
           IN  /\ pc = "write" /\ pc' = "normalise" /\ UNCHANGED <<todo, previous>>
               /\ job.scan \in Of(t) /\ job.scan \in Scans /\ t \in Targets
               /\ \A u \in Targets \ {t} : /\ slot'[u] = slot[u] /\ last'[u] = last[u]
                                           /\ before'[u] = before[u]
                                           /\ u \in torn' <=> u \in torn
               /\ t \notin torn'
               /\ \/ /\ job.state = "current" /\ slot'[t] = report /\ last'[t] = report
                     /\ before'[t] = IF report = last[t] THEN before[t] ELSE last[t]
                  \/ /\ slot'[t] = Stale /\ last'[t] = last[t] /\ before'[t] = before[t]
  <1> DEFINE t == target[job.scan]
             report == [state |-> "current", scan |-> job.scan, hint |-> job.hint,
                        seen |-> job.seen]
  <1>1. /\ pc = "write" /\ pc' = "normalise" /\ UNCHANGED <<todo, previous>>
        /\ torn' = torn \ {t}
        /\ \/ /\ job.state = "current" /\ slot' = [slot EXCEPT ![t] = report]
              /\ last' = [last EXCEPT ![t] = report]
              /\ before' = IF report = last[t] THEN before ELSE [before EXCEPT ![t] = last[t]]
           \/ slot' = [slot EXCEPT ![t] = Stale] /\ UNCHANGED <<last, before>>
    BY DEF Write, Goes
  <1>2. job.scan \in Of(t) /\ job.scan \in Scans /\ t \in Targets
    BY <1>1 DEF Typed, TypeOK, Reporting, Of, Created
  <1>3. /\ slot \in [Targets -> Report] /\ last \in [Targets -> Report]
        /\ before \in [Targets -> Report]
    BY DEF Typed, TypeOK
  <1> HIDE DEF t, report
  <1>4. \A u \in Targets \ {t} : /\ slot'[u] = slot[u] /\ last'[u] = last[u]
                                 /\ before'[u] = before[u]
                                 /\ u \in torn' <=> u \in torn
    BY <1>1, <1>3
  <1>5. \/ /\ job.state = "current" /\ slot'[t] = report /\ last'[t] = report
           /\ before'[t] = IF report = last[t] THEN before[t] ELSE last[t]
        \/ /\ slot'[t] = Stale /\ last'[t] = last[t] /\ before'[t] = before[t]
    BY <1>1, <1>2, <1>3
  <1>6. t \notin torn'
    BY <1>1
  <1> QED
    BY <1>1, <1>2, <1>4, <1>5, <1>6 DEF t, report

\* The report or the marker is written.
LEMMA SlotWrite ==
    ASSUME Typed, StoreOK, JobOK, NEW t \in Targets, SlotOK(t), Ahead(t), Write, Reports
    PROVE  SlotOK(t)' /\ Ahead(t)'
  <1> DEFINE l == last[t].scan
             h == last[t].hint
             s == job.scan
             report == [state |-> "current", scan |-> job.scan, hint |-> job.hint,
                        seen |-> job.seen]
  <1>1. UNCHANGED Frame /\ Of(t)' = Of(t)
    BY DEF Reports, Frame, Of, Created
  <1>2. /\ pc = "write" /\ pc' = "normalise" /\ todo' = todo
        /\ pc' \notin Listing /\ pc' \notin Reporting /\ pc' \in Normalising
        /\ pc \in Reporting /\ pc \in Normalising
    BY Written DEF Listing, Reporting, Normalising
  <1>3. Candidates(t)' = todo \cap Of(t)
    BY <1>1, <1>2 DEF Candidates
  <1>4. CASE target[s] # t
    <2>1. slot'[t] = slot[t] /\ last'[t] = last[t]
      BY <1>4, Written
    <2>2. /\ Of(t)' = Of(t) /\ (Whole(t)' <=> Whole(t)) /\ (Renewed(t)' <=> Renewed(t))
          /\ SlotOK(t)'
      BY <1>1, <2>1, SlotFrame
    <2>3. Candidates(t)' \subseteq Candidates(t)
      BY <1>2, <1>3 DEF Candidates
    <2> QED
      BY <1>2, <2>1, <2>2, <2>3 DEF Ahead
  <1>5. CASE target[s] = t
    <2>0. /\ s \in Of(t) /\ s \in Scans /\ s \in Int /\ l \in Int /\ h \in Int
          /\ job.hint \in Int /\ revision[s] \in Int
      <3>1. s \in Of(t) /\ s \in Scans
        BY <1>5, Written
      <3>2. last[t] \in Report /\ job \in Job /\ revision[s] \in 0..MaxActs + 1
        BY <3>1 DEF Typed, TypeOK
      <3> QED
        BY <3>1, <3>2, ContinuousParameters DEF Report, Job, Scans, NoScan
    <2>1. Candidates(t)' = {}
      BY <1>2, <1>3, <1>5 DEF JobOK, Of
    <2>2. status[s] # "NONE" => job.hint <= revision[s]
      BY <1>2 DEF JobOK
    <2>3. CASE job.state = "current" /\ slot'[t] = report /\ last'[t] = report
      <3>1. report.seen = report.hint /\ report.state = "current" /\ report.scan = s
            /\ report.hint = job.hint
        BY <1>2, <2>3 DEF JobOK
      <3> HIDE DEF report
      <3>2. SlotOK(t)'
        BY <1>1, <2>0, <2>2, <2>3, <3>1 DEF SlotOK, Frame
      <3>3. Ahead(t)'
        BY <1>2, <2>1, <2>3, <3>1 DEF Ahead
      <3> QED
        BY <3>2, <3>3
    <2>4. CASE slot'[t] = Stale /\ last'[t] = last[t]
      <3>1. slot'[t].state = "stale"
        BY <2>4 DEF Stale, NoReport
      <3>2. (Whole(t)' <=> Whole(t)) /\ (Renewed(t)' <=> Renewed(t))
        BY <1>1, <2>4 DEF Whole, Renewed, Frame
      <3>3. SlotOK(t)'
        BY <1>1, <2>4, <3>1, <3>2 DEF SlotOK, Frame
      <3>4. ASSUME Whole(t), ~Renewed(t) PROVE s > l
        <4>1. s > l \/ job.hint > h
          BY <1>2, <1>5, <3>4 DEF Ahead
        <4>2. s >= l
          BY <1>2, <2>0, <3>4 DEF Ahead, Candidates
        <4>3. CASE s = l
          <5>1. s \notin removed /\ ~Gone(s) /\ s \in Created
            BY <1>2, <2>0, <3>4 DEF Whole, JobOK, Of
          <5>2. status[s] # "NONE"
            BY <5>1 DEF Gone
          <5>3. ~(revision[s] > h)
            BY <3>4, <4>3, <5>2 DEF Renewed
          <5> QED
            BY <2>0, <2>2, <4>1, <5>2, <5>3
        <4> QED
          BY <2>0, <4>2, <4>3
      <3>5. Ahead(t)'
        BY <1>1, <1>2, <2>0, <2>1, <2>4, <3>2, <3>4 DEF Ahead
      <3> QED
        BY <3>3, <3>5
    <2> QED
      BY <1>5, <2>3, <2>4, Written
  <1> QED
    BY <1>4, <1>5

\* Steps that leave the reports alone keep what is archived.
LEMMA ArchiveSame ==
    ASSUME Typed, Moves, NEW t \in Targets, ArchiveOK(t), Kept, Writing(t)' <=> Writing(t)
    PROVE  ArchiveOK(t)'
  <1>1. removed' \cap Of(t)' = {} => removed \cap Of(t) = {}
    BY WholeBefore
  <1> QED
    BY <1>1 DEF ArchiveOK, Kept

\* Archiving and writing: a report is never replaced by an equal one.
LEMMA ArchiveReports ==
    ASSUME Typed, StoreOK, Moves, JobOK, NEW t \in Targets, SlotOK(t), Ahead(t),
              ArchiveOK(t), Reports
    PROVE  ArchiveOK(t)'
  <1>0. removed' \cap Of(t)' = removed \cap Of(t) /\ target' = target
    BY DEF Reports, Frame, Of, Created
  <1>1. CASE (\E s \in Scans : Inspect(s)) \/ Analyse \/ Check
    <2>1. Kept /\ pc # "write" /\ pc' # "write"
      BY <1>1 DEF Inspect, Analyse, Check, Replace, Goes, reports, Kept
    <2> QED
      BY <2>1, ArchiveSame DEF Writing
  <1>2. CASE Archive
    <2> DEFINE u == target[job.scan]
    <2>1. /\ pc = "archive" /\ pc' = "write" /\ UNCHANGED <<slot, last, before, torn, job>>
          /\ previous' = IF slot[u].state = "current" THEN [previous EXCEPT ![u] = slot[u]]
                         ELSE previous
      BY <1>2 DEF Archive, Goes, cycle
    <2>2. previous \in [Targets -> Report] /\ u \in Targets
      BY <2>1 DEF Typed, TypeOK, Reporting, Created
    <2>3. Writing(t)' <=> t = u
      BY <1>0, <2>1 DEF Writing
    <2>4. ~Writing(t)
      BY <2>1 DEF Writing
    <2> HIDE DEF u
    <2>5. CASE t = u
      <3>1. slot[t].state = "current" => previous'[t] = last[t]
        BY <2>1, <2>2, <2>5 DEF SlotOK
      <3>2. slot[t].state # "current" => previous'[t] = previous[t]
        BY <2>1, <2>5
      <3>3. removed \cap Of(t) = {} => previous'[t] = last[t]
        BY <3>1, <3>2 DEF ArchiveOK
      <3> QED
        BY <1>0, <2>1, <2>3, <2>5, <3>3 DEF ArchiveOK
    <2>6. CASE t # u
      <3>1. previous'[t] = previous[t]
        BY <2>1, <2>2, <2>6
      <3> QED
        BY <1>0, <2>1, <2>3, <2>4, <2>6, <3>1 DEF ArchiveOK
    <2> QED
      BY <2>5, <2>6
  <1>3. CASE Write
    <2> DEFINE u == target[job.scan]
               report == [state |-> "current", scan |-> job.scan, hint |-> job.hint,
                          seen |-> job.seen]
    <2>1. /\ pc = "write" /\ pc' = "normalise" /\ previous' = previous /\ u \in Targets
          /\ job.scan \in Of(u)
      BY <1>3, Written
    <2>2. ~Writing(t)' /\ (Writing(t) <=> t = u)
      BY <2>1 DEF Writing
    <2>3. CASE t # u
      <3>1. slot'[t] = slot[t] /\ last'[t] = last[t] /\ before'[t] = before[t]
            /\ (t \in torn' <=> t \in torn)
        BY <1>3, <2>3, Written
      <3> QED
        BY <1>0, <2>1, <2>2, <2>3, <3>1 DEF ArchiveOK
    <2>4. CASE t = u
      <3>1. /\ t \notin torn'
            /\ \/ /\ slot'[t] = report /\ last'[t] = report
                  /\ before'[t] = IF report = last[t] THEN before[t] ELSE last[t]
               \/ slot'[t] = Stale /\ last'[t] = last[t]
        BY <1>3, <2>4, Written
      <3>2. removed \cap Of(t) = {} => previous[t] = last[t]
        BY <2>2, <2>4 DEF ArchiveOK
      <3>3. removed \cap Of(t) = {} => report # last[t]
        <4> SUFFICES ASSUME removed \cap Of(t) = {}, report = last[t] PROVE FALSE
          OBVIOUS
        <4>1. last[t].state = "current" /\ last[t].scan = job.scan /\ last[t].hint = job.hint
          OBVIOUS
        <4>2. job.scan > last[t].scan \/ job.hint > last[t].hint
          BY <2>1, <2>4, <4>1 DEF Whole, Ahead, Reporting
        <4>3. job.scan \in Int /\ job.hint \in Int
          <5>1. job \in Job
            BY DEF Typed
          <5> QED
            BY <5>1 DEF Job, Scans, NoScan
        <4> QED
          BY <4>1, <4>2, <4>3
      <3>4. report.state = "current" /\ Stale.state = "stale"
        BY DEF Stale, NoReport
      <3> HIDE DEF report
      <3> QED
        BY <1>0, <2>1, <2>2, <3>1, <3>2, <3>3, <3>4 DEF ArchiveOK
    <2> QED
      BY <2>3, <2>4
  <1> QED
    BY <1>1, <1>2, <1>3 DEF Reports

\* Every step keeps ReportsOK.
LEMMA ReportsStep ==
    ASSUME Typed, StoreOK, Moves, PlanOK, LatestOK, JobOK, ReportsOK, Typed', [Next]_vars
    PROVE  ReportsOK'
  <1> SUFFICES ASSUME NEW t \in Targets, SlotOK(t), Ahead(t), ArchiveOK(t)
               PROVE  SlotOK(t)' /\ Ahead(t)' /\ ArchiveOK(t)'
    BY DEF ReportsOK
  <1>1. CASE Reports
    BY <1>1, SlotInspect, SlotWork, SlotWrite, ArchiveReports DEF Reports
  <1>2. ASSUME Passive, UNCHANGED <<slot, last>> PROVE SlotOK(t)' /\ Ahead(t)'
    BY <1>2, SlotPassive
  <1>3. CASE Environment
    <2>1. Passive /\ Kept /\ (Writing(t)' <=> Writing(t))
      <3>1. pc = "write" => target'[job.scan] = target[job.scan]
        BY DEF Typed, Reporting, Moves
      <3> QED
        BY <1>3, <3>1 DEF Environment, Passive, Hand, Writing
    <2> QED
      BY <1>2, <2>1, ArchiveSame DEF Kept
  <1>4. CASE \/ Launching \/ Collecting \/ Planned \/ Retaining
                \/ (\E u \in Configured : Decided(u) \/ Skips(u))
    <2>1. Passive /\ Kept /\ pc # "write" /\ pc' # "write"
      BY <1>4 DEF Launching, Collecting, Planned, Retaining, Decided, Skips, Passive, Hand,
         Listing, Normalising, Reporting
    <2> QED
      BY <1>2, <2>1, ArchiveSame DEF Kept, Writing
  <1>5. CASE Listed
    <2>1. /\ Kept /\ pc # "write" /\ pc' # "write" /\ UNCHANGED Frame /\ pc' \notin Normalising
          /\ Passive \/ records' = status
      BY <1>5 DEF Listed, Passive, Listing, Normalising, Reporting
    <2>2. SlotOK(t)' /\ Ahead(t)'
      BY <1>2, <2>1, SlotListed DEF Kept
    <2> QED
      BY <2>1, <2>2, ArchiveSame DEF Writing
  <1>6. CASE ToReports
    <2>1. Kept /\ pc # "write" /\ pc' # "write"
      BY <1>6 DEF ToReports
    <2> QED
      BY <1>6, <2>1, SlotToReports, ArchiveSame DEF Writing
  <1>7. CASE Stops
    <2>1. Passive /\ UNCHANGED <<slot, previous, last, before>> /\ pc' # "write"
          /\ torn' = (IF pc = "write" THEN torn \cup {target[job.scan]} ELSE torn)
      BY <1>7 DEF Stops, Passive, Listing, Normalising, Reporting
    <2>2. t \in torn' <=> t \in torn \/ Writing(t)
      BY <2>1 DEF Writing
    <2>3. ~Writing(t)'
      BY <2>1 DEF Writing
    <2>4. ArchiveOK(t)'
      BY <2>1, <2>2, <2>3, WholeBefore DEF ArchiveOK
    <2> QED
      BY <1>2, <2>1, <2>4
  <1> QED
    BY <1>1, <1>3, <1>4, <1>5, <1>6, <1>7, Kinds

-----------------------------------------------------------------------------
(* The invariant holds. *)

\* Init and every step establish the invariant.
LEMMA InvInit == Init => Inv
  <1> SUFFICES ASSUME Init PROVE Inv
    OBVIOUS
  <1>1. Typed /\ StoreOK
    BY TypedInit
  <1>2. /\ Created = {} /\ pc = "off" /\ \A s : ~Gone(s)
        /\ pc \notin Listing /\ pc \notin Normalising /\ pc \notin Reporting
    BY DEF Init, Created, Gone, Listing, Normalising, Reporting
  <1>3. ListOK
    BY DEF Init, ListOK
  <1>4. PlanOK /\ LatestOK
    BY <1>2 DEF PlanOK, LatestOK
  <1>5. AlertOK
    <2>1. alerts = <<>> /\ decisions = <<>> /\ decided = {}
      BY DEF Init
    <2>2. Len(decisions) = 0 /\ Len(alerts) = 0 /\ decisions \in Seq(Scans)
             /\ DOMAIN decisions = {}
      BY <2>1, EmptySeq
    <2>3. ToSet(decisions) = {}
      BY <2>2 DEF ToSet
    <2>4. MAX_ALERT_HISTORY_ENTRIES \in Nat
      BY ContinuousParameters
    <2> QED
      BY <1>2, <2>1, <2>2, <2>3, <2>4 DEF AlertOK, DecidedOnce
  <1>6. JobOK
    BY <1>2 DEF JobOK
  <1>7. ReportsOK
    <2> SUFFICES ASSUME NEW t \in Targets PROVE SlotOK(t) /\ Ahead(t) /\ ArchiveOK(t)
      BY DEF ReportsOK
    <2>1. slot[t] = NoReport /\ last[t] = NoReport /\ before[t] = NoReport
             /\ previous[t] = NoReport
      BY DEF Init
    <2>2. NoReport.state = "none"
      BY DEF NoReport
    <2> QED
      BY <2>1, <2>2 DEF SlotOK, Ahead, ArchiveOK, Whole
  <1> QED
    BY <1>1, <1>3, <1>4, <1>5, <1>6, <1>7 DEF Inv

LEMMA InvStep == Inv /\ [Next]_vars => Inv'
  <1> SUFFICES ASSUME Inv, [Next]_vars PROVE Inv'
    OBVIOUS
  <1>1. Typed' /\ StoreStep
    BY TypedStep DEF Inv
  <1>2. Moves /\ StoreOK'
    BY <1>1 DEF StoreStep
  <1>3. ListOK'
    BY <1>2, ListStep DEF Inv
  <1>4. PlanOK'
    BY <1>1, <1>2, PlanStep DEF Inv
  <1>5. LatestOK'
    BY <1>1, LatestStep DEF Inv
  <1>6. AlertOK'
    BY <1>2, AlertStep DEF Inv
  <1>7. JobOK'
    BY <1>1, <1>2, JobStep DEF Inv
  <1>8. ReportsOK'
    BY <1>1, <1>2, ReportsStep DEF Inv
  <1> QED
    BY <1>1, <1>2, <1>3, <1>4, <1>5, <1>6, <1>7, <1>8 DEF Inv

\* The invariant holds of any targets, limits and numbers of scans and crashes.
THEOREM ControllerInv == Spec => []Inv
  BY InvInit, InvStep, PTL DEF Spec

\* retain plans from a list read before scans ended and others began, and deletes later:
\* whatever happens in between, it is never a target's newest or newest finished scan.
THEOREM NewestSurviveRetention == Spec => []BaselineKept
  <1>1. Inv => BaselineKept
    BY BaselineFromPlan DEF Inv
  <1> QED
    BY <1>1, ControllerInv, PTL

\* record_alerts before retain: the scan an undecided alert compares with outlives every
\* cycle, also those in which a decision fails or that are cut short.
THEOREM ComparedSurviveRetention == Spec => []ComparedKept
  <1>1. Inv => ComparedKept
    BY ComparedFromPlan DEF Inv
  <1> QED
    BY <1>1, ControllerInv, PTL

\* record_alerts and append_history: the history stays bounded, and no scan is decided
\* twice within its length, across restarts.
THEOREM AlertsAreDecidedOnce == Spec => []AlertsKept
  <1>1. Inv => AlertsKept
    BY DEF Inv, Typed, AlertOK, AlertsKept
  <1> QED
    BY <1>1, ControllerInv, PTL

\* normalise_one: a current report was derived at the revision it names, whoever edits the
\* evidence meanwhile.
THEOREM ReportsAreTrue == Spec => []ReportTrue
  <1>1. Inv => ReportTrue
    BY DEF Inv, ReportsOK, SlotOK, ReportTrue
  <1> QED
    BY <1>1, ControllerInv, PTL

\* archive_previous: .previous.json holds the last different report, through invalidations,
\* retention and restarts.
THEOREM PreviousReportsAreKept == Spec => []PreviousKept
  <1>1. Inv => PreviousKept
    BY DEF Inv, ReportsOK, ArchiveOK, Writing, PreviousKept
  <1> QED
    BY <1>1, ControllerInv, PTL

=============================================================================
