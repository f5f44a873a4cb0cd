------------------------ MODULE CircuitBreakerProofs ------------------------
(***************************************************************************)
(* The breakers keep their promises for any hosts, fetches and limits.      *)
(***************************************************************************)
EXTENDS CircuitBreaker, SequenceTheorems, WellFoundedInduction, TLAPS

\* Max and Min of two numbers.
LEMMA MaxOfTwo ==
    ASSUME NEW a \in Nat, NEW b \in Nat
    PROVE  Max({a, b}) = IF a >= b THEN a ELSE b
<1>1. CASE a >= b
  <2>1. \A x \in {a, b} : (\A y \in {a, b} : x >= y) <=> x = a
    BY <1>1
  <2>2. QED BY <1>1, <2>1 DEF Max
<1>2. CASE ~(a >= b)
  <2>1. \A x \in {a, b} : (\A y \in {a, b} : x >= y) <=> x = b
    BY <1>2
  <2>2. QED BY <1>2, <2>1 DEF Max
<1>3. QED BY <1>1, <1>2

LEMMA MinOfTwo ==
    ASSUME NEW a \in Nat, NEW b \in Nat
    PROVE  Min({a, b}) = IF a <= b THEN a ELSE b
<1>1. CASE a <= b
  <2>1. \A x \in {a, b} : (\A y \in {a, b} : x <= y) <=> x = a
    BY <1>1
  <2>2. QED BY <1>1, <2>1 DEF Min
<1>2. CASE ~(a <= b)
  <2>1. \A x \in {a, b} : (\A y \in {a, b} : x <= y) <=> x = b
    BY <1>2
  <2>2. QED BY <1>2, <2>1 DEF Min
<1>3. QED BY <1>1, <1>2

\* Counting one more failure stays within the counter and reaches the threshold when
\* it should.
LEMMA FailedCounts ==
    ASSUME NEW n \in 0..MaxFailures
    PROVE  /\ Failed(n) \in 0..MaxFailures
           /\ Failed(n) = n + 1 \/ Failed(n) >= FAILURE_THRESHOLD
BY MinOfTwo, BreakerAssumption DEF Failed

-----------------------------------------------------------------------------
\* What makes ClosedIsHealthy and PauseBounded inductive: the types, and that no fetch
\* carries a time of the future.
Inv ==
    /\ Typed
    /\ ClosedIsHealthy
    /\ PauseBounded
    /\ \A f \in Fetches : fetch[f] # Idle => fetch[f].now <= clock

\* A breaker that keeps the invariant at time t.
Sound(b, t) ==
    /\ b \in Breaker
    /\ b.state = "Closed" => b.failures < FAILURE_THRESHOLD
    /\ \E pause \in RetryAfters \cup {COOLDOWN_SECS, 1} : b.retry_at <= t + pause

LEMMA DefaultSound == \A t \in Nat : Sound(Default, t)
BY BreakerAssumption DEF Sound, Default, Breaker

LEMMA InitInv == Init => Inv
<1> SUFFICES ASSUME Init PROVE Inv
  OBVIOUS
<1>1. \A h \in Hosts : Sound(breaker[h], clock)
  BY DefaultSound DEF Init
<1>2. Typed
  BY BreakerAssumption DEF Init, Typed, Default, Breaker, Idle, Fetch
<1>3. QED
  BY <1>1, <1>2 DEF Init, Inv, Sound, ClosedIsHealthy, PauseBounded, Closed, Idle

\* A failure reported with a time that has passed leaves the breaker sound.
LEMMA FailureSound ==
    ASSUME NEW t \in Nat, NEW b, Sound(b, t), NEW now \in 0..t
    PROVE  Sound(OnFailure(b, now), t)
<1> DEFINE n == Failed(b.failures)
<1>1. n \in 0..MaxFailures /\ (n = b.failures + 1 \/ n >= FAILURE_THRESHOLD)
  BY FailedCounts DEF Sound, Breaker
<1> HIDE DEF n
<1>2. CASE b.state = "HalfOpen" \/ n >= FAILURE_THRESHOLD
  <2>1. OnFailure(b, now) = Open(n, now + COOLDOWN_SECS)
    BY <1>2 DEF OnFailure, n
  <2>2. Sound(Open(n, now + COOLDOWN_SECS), t)
    BY <1>1, BreakerAssumption DEF Sound, Open, Breaker
  <2>3. QED BY <2>1, <2>2
<1>3. CASE ~(b.state = "HalfOpen" \/ n >= FAILURE_THRESHOLD)
  <2>1. OnFailure(b, now) = [b EXCEPT !.failures = n]
    BY <1>3 DEF OnFailure, n
  <2> DEFINE c == [b EXCEPT !.failures = n]
  <2>2. /\ c \in Breaker
        /\ c.failures = n /\ c.retry_at = b.retry_at
    BY <1>1 DEF Sound, Breaker
  <2>3. Sound(c, t)
    <3> HIDE DEF c
    <3> QED BY <1>1, <1>3, <2>2, BreakerAssumption DEF Sound, Breaker
  <2>4. QED BY <2>1, <2>3
<1>4. QED BY <1>2, <1>3

\* So does a pause the provider asked for.
LEMMA RateLimitedSound ==
    ASSUME NEW t \in Nat, NEW b, Sound(b, t), NEW now \in 0..t, NEW after \in RetryAfters
    PROVE  Sound(OnRateLimited(b, now, after), t)
<1>1. Failed(b.failures) \in 0..MaxFailures
  BY FailedCounts DEF Sound, Breaker
<1>2. Max({after, 1}) \in Nat /\ Max({after, 1}) \in RetryAfters \cup {1}
  BY MaxOfTwo, BreakerAssumption
<1>3. QED
  BY <1>1, <1>2, BreakerAssumption DEF Sound, OnRateLimited, Open, Breaker

\* And a probe.
LEMMA ProbeSound ==
    ASSUME NEW t \in Nat, NEW b, Sound(b, t), NEW now \in 0..t
    PROVE  Sound(HalfOpen(b, now), t)
BY BreakerAssumption DEF Sound, Breaker, HalfOpen

\* Whichever host an entry makes room by, breakers stay sound if the new one is.
LEMMA EntrySound ==
    ASSUME Inv, NEW h \in Hosts, NEW b, Sound(b, clock), Entry(h, b)
    PROVE  /\ breaker' \in [Hosts -> Breaker]
           /\ \A x \in Hosts : Sound(breaker'[x], clock)
<1>1. \A x \in Hosts : Sound(breaker[x], clock)
  BY DEF Inv, Typed, ClosedIsHealthy, Closed, PauseBounded, Sound
<1>2. Sound(Default, clock)
  BY DefaultSound, BreakerAssumption DEF Inv, Typed
<1>3. \A x \in Hosts : breaker'[x] \in {b, Default, breaker[x]}
  BY DEF Entry
<1>4. \A x \in Hosts : Sound(breaker'[x], clock)
  BY <1>1, <1>2, <1>3
<1>5. breaker' = [x \in Hosts |-> breaker'[x]]
  BY DEF Entry
<1>6. QED BY <1>4, <1>5 DEF Sound

\* A fetch that asks or is on its way names a host and a time that has passed.
LEMMA FetchKnown ==
    ASSUME Inv, NEW f \in Fetches, fetch[f].at \in {"asks", "sent"}
    PROVE  /\ fetch[f].host \in Hosts
           /\ fetch[f].now \in 0..clock
           /\ clock \in Nat
           /\ Sound(breaker[fetch[f].host], clock)
<1>1. fetch[f] # Idle
  BY DEF Idle
<1>2. fetch[f].host \in Hosts /\ fetch[f].now \in 0..MaxTime
  BY <1>1 DEF Inv, Typed, Fetch
<1>3. clock \in Nat /\ fetch[f].now <= clock
  BY <1>1, BreakerAssumption DEF Inv, Typed
<1>4. QED
  BY <1>2, <1>3, BreakerAssumption DEF Inv, Typed, ClosedIsHealthy, Closed, PauseBounded, Sound

\* A step at an unchanged time that leaves sound breakers and a fetch with its old time,
\* or idle, keeps the invariant.
LEMMA StepKeepsInv ==
    ASSUME Inv, clock' = clock, quota' \in [Hosts -> Nat],
           breaker' \in [Hosts -> Breaker], \A x \in Hosts : Sound(breaker'[x], clock),
           fetch' \in [Fetches -> Fetch],
           \A f \in Fetches : fetch'[f] # Idle => fetch'[f].now <= clock
    PROVE  Inv'
<1>1. Typed'
  BY DEF Inv, Typed
<1>2. ClosedIsHealthy' /\ PauseBounded'
  BY DEF Sound, ClosedIsHealthy, Closed, PauseBounded
<1>3. QED BY <1>1, <1>2 DEF Inv

LEMMA OwedTyped ==
    ASSUME NEW pauses \in [Hosts -> Nat], Owed(pauses)
    PROVE  quota' \in [Hosts -> Nat]
BY DEF Owed

LEMMA SendKeepsFetches ==
    ASSUME Inv, NEW f \in Fetches, fetch[f].at = "asks",
           fetch' = [fetch EXCEPT ![f].at = "sent"]
    PROVE  /\ fetch' \in [Fetches -> Fetch]
           /\ \A g \in Fetches : fetch'[g] # Idle => fetch'[g].now <= clock
<1>1. fetch[f] \in [at : {"asks", "sent"}, host : Hosts, now : 0..MaxTime]
  BY DEF Inv, Typed, Fetch, Idle
<1>2. /\ fetch'[f] \in [at : {"asks", "sent"}, host : Hosts, now : 0..MaxTime]
      /\ fetch'[f].now = fetch[f].now
  BY <1>1 DEF Inv, Typed
<1>3. fetch[f] # Idle
  BY DEF Idle
<1>4. \A g \in Fetches : g # f => fetch'[g] = fetch[g]
  BY DEF Inv, Typed
<1>5. fetch' \in [Fetches -> Fetch]
  BY <1>2, <1>4 DEF Inv, Typed, Fetch
<1>6. QED BY <1>2, <1>3, <1>4, <1>5 DEF Inv

LEMMA EndKeepsFetches ==
    ASSUME Inv, NEW f \in Fetches, fetch' = [fetch EXCEPT ![f] = Idle]
    PROVE  /\ fetch' \in [Fetches -> Fetch]
           /\ \A g \in Fetches : fetch'[g] # Idle => fetch'[g].now <= clock
BY DEF Inv, Typed, Fetch

\* A report of a sound breaker.
LEMMA ReportKeepsInv ==
    ASSUME Inv, NEW f \in Fetches, NEW b, Sound(b, clock), Report(f, b),
           quota' \in [Hosts -> Nat]
    PROVE  Inv'
<1>1. fetch[f].host \in Hosts
  BY FetchKnown DEF Report
<1>2. breaker' \in [Hosts -> Breaker] /\ \A x \in Hosts : Sound(breaker'[x], clock)
  BY <1>1, EntrySound DEF Report
<1>3. QED
  BY <1>2, EndKeepsFetches, StepKeepsInv DEF Report

LEMMA FetchStepKeepsInv ==
    ASSUME Inv, NEW f \in Fetches,
           \/ Call(f) \/ Send(f) \/ Suppress(f)
           \/ Succeeds(f) \/ Fails(f) \/ RateLimited(f) \/ Errs(f)
    PROVE  Inv'
<1> USE BreakerAssumption
<1>0. /\ quota \in [Hosts -> Nat] /\ breaker \in [Hosts -> Breaker]
      /\ clock \in Nat /\ \A x \in Hosts : Sound(breaker[x], clock)
  BY DEF Inv, Typed, ClosedIsHealthy, Closed, PauseBounded, Sound
<1>1. CASE Call(f)
  <2>1. PICK h \in Hosts :
          fetch' = [fetch EXCEPT ![f] = [at |-> "asks", host |-> h, now |-> clock]]
    BY <1>1 DEF Call
  <2>2. fetch' \in [Fetches -> Fetch]
    BY <2>1 DEF Inv, Typed, Fetch
  <2>3. \A g \in Fetches : fetch'[g] # Idle => fetch'[g].now <= clock
    BY <1>0, <2>1 DEF Inv, Typed
  <2>4. QED BY <1>0, <1>1, <2>2, <2>3, StepKeepsInv DEF Call
<1>2. CASE Send(f)
  <2> DEFINE h == fetch[f].host
             now == fetch[f].now
             b == IF breaker[h].state = "Closed" THEN breaker[h] ELSE HalfOpen(breaker[h], now)
  <2>1. h \in Hosts /\ now \in 0..clock /\ Sound(breaker[h], clock)
    BY <1>2, FetchKnown DEF Send
  <2>2. Sound(b, clock)
    BY <1>0, <2>1, ProbeSound
  <2>3. Entry(h, b)
    BY <1>2 DEF Send
  <2>4. breaker' \in [Hosts -> Breaker] /\ \A x \in Hosts : Sound(breaker'[x], clock)
    BY <2>1, <2>2, <2>3, EntrySound
  <2>5. quota' \in [Hosts -> Nat]
    BY <1>0, <1>2, OwedTyped DEF Send
  <2>6. QED BY <1>0, <1>2, <2>4, <2>5, SendKeepsFetches, StepKeepsInv DEF Send
<1>3. CASE Suppress(f)
  <2>1. fetch[f].host \in Hosts /\ Sound(breaker[fetch[f].host], clock)
    BY <1>3, FetchKnown DEF Suppress
  <2>2. breaker' \in [Hosts -> Breaker] /\ \A x \in Hosts : Sound(breaker'[x], clock)
    BY <1>3, <2>1, EntrySound DEF Suppress
  <2>3. quota' \in [Hosts -> Nat]
    BY <1>0, <1>3, OwedTyped DEF Suppress
  <2>4. QED BY <1>0, <1>3, <2>2, <2>3, EndKeepsFetches, StepKeepsInv DEF Suppress
<1>4. CASE Succeeds(f)
  BY <1>0, <1>4, DefaultSound, OwedTyped, ReportKeepsInv DEF Succeeds, OnSuccess
<1>5. CASE Fails(f)
  <2>1. /\ Sound(breaker[fetch[f].host], clock)
        /\ fetch[f].now \in 0..clock
    BY <1>5, FetchKnown DEF Fails, Report
  <2>2. Sound(OnFailure(breaker[fetch[f].host], fetch[f].now), clock)
    BY <1>0, <2>1, FailureSound
  <2>3. QED BY <1>0, <1>5, <2>2, OwedTyped, ReportKeepsInv DEF Fails
<1>6. CASE RateLimited(f)
  <2>1. PICK after \in RetryAfters :
          /\ Report(f, OnRateLimited(breaker[fetch[f].host], fetch[f].now, after))
          /\ Owed(IF Alone(f) THEN [quota EXCEPT ![fetch[f].host] = fetch[f].now + after]
                              ELSE quota)
    BY <1>6 DEF RateLimited
  <2>2. /\ fetch[f].host \in Hosts
        /\ Sound(breaker[fetch[f].host], clock)
        /\ fetch[f].now \in 0..clock
    BY <2>1, FetchKnown DEF Report
  <2>3. Sound(OnRateLimited(breaker[fetch[f].host], fetch[f].now, after), clock)
    BY <1>0, <2>2, RateLimitedSound
  <2>4. (IF Alone(f) THEN [quota EXCEPT ![fetch[f].host] = fetch[f].now + after] ELSE quota)
          \in [Hosts -> Nat]
    <3>1. fetch[f].now + after \in Nat
      <4>1. after \in Nat
        BY BreakerAssumption
      <4>2. fetch[f].now \in Nat
        BY <1>0, <2>2
      <4>3. QED BY <4>1, <4>2
    <3>2. [quota EXCEPT ![fetch[f].host] = fetch[f].now + after] \in [Hosts -> Nat]
      BY <1>0, <3>1
    <3>3. CASE Alone(f)
      BY <3>2, <3>3
    <3>4. CASE ~Alone(f)
      BY <1>0, <3>4
    <3>5. QED BY <3>3, <3>4
  <2>5. quota' \in [Hosts -> Nat]
    BY <2>1, <2>4, OwedTyped
  <2>6. QED BY <2>1, <2>3, <2>5, ReportKeepsInv
<1>7. CASE Errs(f)
  BY <1>0, <1>7, EndKeepsFetches, StepKeepsInv DEF Errs
<1>8. QED BY <1>1, <1>2, <1>3, <1>4, <1>5, <1>6, <1>7

LEMMA TickKeepsInv == Inv /\ Tick => Inv'
<1> SUFFICES ASSUME Inv, Tick PROVE Inv'
  OBVIOUS
<1>1. clock \in Nat /\ clock' = clock + 1 /\ Typed'
  BY BreakerAssumption DEF Inv, Typed, Tick
<1>2. ClosedIsHealthy'
  BY DEF Inv, Tick, ClosedIsHealthy, Closed
<1>3. PauseBounded'
  <2> SUFFICES ASSUME NEW h \in Hosts
               PROVE  \E pause \in RetryAfters \cup {COOLDOWN_SECS, 1} :
                        breaker'[h].retry_at <= clock' + pause
    BY DEF PauseBounded
  <2>1. PICK pause \in RetryAfters \cup {COOLDOWN_SECS, 1} :
          breaker[h].retry_at <= clock + pause
    BY DEF Inv, PauseBounded
  <2>2. breaker[h].retry_at \in Nat /\ pause \in Nat
    BY BreakerAssumption DEF Inv, Typed, Breaker
  <2>3. breaker'[h].retry_at <= clock' + pause
    BY <1>1, <2>1, <2>2 DEF Tick
  <2>4. QED BY <2>3
<1>4. \A f \in Fetches : fetch'[f] # Idle => fetch'[f].now <= clock'
  <2> SUFFICES ASSUME NEW f \in Fetches, fetch[f] # Idle PROVE fetch[f].now <= clock + 1
    BY <1>1 DEF Tick
  <2>1. fetch[f].now \in Nat /\ fetch[f].now <= clock
    BY BreakerAssumption DEF Inv, Typed, Fetch
  <2>2. QED BY <1>1, <2>1
<1>5. QED BY <1>1, <1>2, <1>3, <1>4 DEF Inv

LEMMA NextKeepsInv == Inv /\ [Next]_vars => Inv'
<1> SUFFICES ASSUME Inv, [Next]_vars PROVE Inv'
  OBVIOUS
<1>1. CASE Tick
  BY <1>1, TickKeepsInv
<1>2. ASSUME NEW f \in Fetches,
             \/ Call(f) \/ Send(f) \/ Suppress(f)
             \/ Succeeds(f) \/ Fails(f) \/ RateLimited(f) \/ Errs(f)
      PROVE  Inv'
  BY <1>2, FetchStepKeepsInv
<1>3. CASE UNCHANGED vars
  BY <1>3 DEF vars, Inv, Typed, ClosedIsHealthy, Closed, PauseBounded
<1>4. QED BY <1>1, <1>2, <1>3 DEF Next

LEMMA InvHolds == Spec => []Inv
<1>1. Init => Inv
  BY InitInv
<1>2. Inv /\ [Next]_vars => Inv'
  BY NextKeepsInv
<1>3. QED BY <1>1, <1>2, PTL DEF Spec

\* Breaker, for any threshold, cooldown and pauses providers ask for, in whatever order
\* concurrent fetches report: one whose host failed FAILURE_THRESHOLD times in a row is
\* not Closed, and retry_at is never further away than one answer can ask for, so no host
\* is shut out by unreported probes.
THEOREM BreakersAreKept == Spec => []BreakersKept
<1>1. Inv => BreakersKept
  BY DEF Inv, BreakersKept
<1>2. QED BY <1>1, InvHolds, PTL

\* A set of naturals that is not empty has a least element.
LEMMA LeastExists ==
    ASSUME NEW S, S \subseteq Nat, S # {}
    PROVE  \E x \in S : \A y \in S : x <= y
<1> DEFINE R == OpToRel(<, Nat)
<1>1. IsWellFoundedOn(R, Nat)
  BY NatLessThanWellFounded
<1>2. \A x, y \in Nat : y < x => <<y, x>> \in R
  BY DEF OpToRel
<1> HIDE DEF R
<1>3. PICK x \in S : \A y \in S : ~(<<y, x>> \in R)
  BY <1>1, WFMin, Zenon
<1>4. \A y \in S : ~(y < x)
  BY <1>2, <1>3
<1>5. QED BY <1>4

\* What SequencesExt's RemoveAt leaves.
LEMMA Removed ==
    ASSUME NEW S, NEW s \in Seq(S), NEW i \in 1..Len(s)
    PROVE  /\ RemoveAt(s, i) \in Seq(S)
           /\ Len(RemoveAt(s, i)) = Len(s) - 1
           /\ \A j \in 1..(i - 1) : RemoveAt(s, i)[j] = s[j]
           /\ \A j \in i..(Len(s) - 1) : RemoveAt(s, i)[j] = s[j + 1]
<1> DEFINE a == SubSeq(s, 1, i - 1)
           b == SubSeq(s, i + 1, Len(s))
<1>1. a \in Seq(S) /\ Len(a) = i - 1 /\ \A j \in 1..(i - 1) : a[j] = s[j]
  OBVIOUS
<1>2. b \in Seq(S) /\ Len(b) = Len(s) - i /\ \A j \in 1..(Len(s) - i) : b[j] = s[i + j]
  OBVIOUS
<1> HIDE DEF a, b
<1>3. /\ a \o b \in Seq(S) /\ Len(a \o b) = Len(a) + Len(b)
      /\ \A j \in 1..(Len(a) + Len(b)) : (a \o b)[j] = IF j <= Len(a) THEN a[j] ELSE b[j - Len(a)]
  BY <1>1, <1>2, ConcatProperties
<1>4. RemoveAt(s, i) = a \o b
  BY DEF RemoveAt, a, b
<1>5. \A j \in i..(Len(s) - 1) :
        /\ j \in 1..(Len(a) + Len(b)) /\ ~(j <= Len(a))
        /\ j - Len(a) \in 1..(Len(s) - i) /\ i + (j - Len(a)) = j + 1
  BY <1>1, <1>2
<1>6. \A j \in i..(Len(s) - 1) : (a \o b)[j] = s[j + 1]
  BY <1>2, <1>3, <1>5
<1>7. \A j \in 1..(i - 1) : (a \o b)[j] = s[j]
  BY <1>1, <1>2, <1>3
<1>8. Len(a \o b) = Len(s) - 1
  BY <1>1, <1>2, <1>3
<1>9. QED BY <1>3, <1>4, <1>6, <1>7, <1>8

-----------------------------------------------------------------------------
(* The order of use. *)

\* Each known host has one place in the order of use.
RecencyOK == used \in Seq(Hosts) /\ \A i, j \in 1..Len(used) : used[i] = used[j] => i = j

\* The least recently used host of a set is one of it.
LEMMA OldestIsOne ==
    ASSUME RecencyOK, NEW S, S \cap Known # {}
    PROVE  Oldest(S) \in 1..Len(used) /\ used[Oldest(S)] \in S
<1> DEFINE places == {i \in 1..Len(used) : used[i] \in S}
<1>0. DOMAIN used = 1..Len(used) /\ Len(used) \in Nat
  BY DEF RecencyOK
<1>1. places # {} /\ places \subseteq Nat
  BY <1>0 DEF Known, ToSet
<1>2. PICK i \in places : \A j \in places : i <= j
  <2> HIDE DEF places
  <2>1. QED BY <1>1, LeastExists
<1>3. i \in DOMAIN used /\ used[i] \in S /\ \A j \in 1..(i - 1) : used[j] \notin S
  <2>1. \A j \in 1..(i - 1) : j \in 1..Len(used) /\ ~(i <= j)
    BY <1>0, <1>2
  <2>2. QED BY <1>0, <1>2, <2>1
<1>4. QED BY <1>0, <1>3 DEF Oldest

\* Without takes one host out, or none.
LEMMA WithoutOne ==
    ASSUME RecencyOK, NEW S, \A x, y \in S \cap Known : x = y
    PROVE  /\ Without(S) \in Seq(Hosts)
           /\ \A i, j \in 1..Len(Without(S)) : Without(S)[i] = Without(S)[j] => i = j
           /\ ToSet(Without(S)) = Known \ S
<1>1. CASE S \cap Known = {}
  BY <1>1 DEF Without, RecencyOK, Known
<1>2. CASE S \cap Known # {}
  <2> DEFINE k == Oldest(S)
             r == RemoveAt(used, k)
  <2>1. k \in 1..Len(used) /\ used[k] \in S
    BY <1>2, OldestIsOne
  <2>2. used \in Seq(Hosts) /\ Len(used) \in Nat /\ DOMAIN used = 1..Len(used)
    BY DEF RecencyOK
  <2> HIDE DEF k
  <2>3. /\ r \in Seq(Hosts) /\ Len(r) = Len(used) - 1
        /\ \A j \in 1..(k - 1) : r[j] = used[j]
        /\ \A j \in k..(Len(used) - 1) : r[j] = used[j + 1]
    BY <2>1, <2>2, Removed
  <2>4. Without(S) = r
    BY <1>2 DEF Without, k
  <2> HIDE DEF r
  <2> DEFINE from(j) == IF j < k THEN j ELSE j + 1
  <2>5. \A j \in 1..Len(r) : from(j) \in 1..Len(used) /\ from(j) # k /\ r[j] = used[from(j)]
    BY <2>1, <2>2, <2>3
  <2>6. \A i, j \in 1..Len(r) : r[i] = r[j] => i = j
    <3> SUFFICES ASSUME NEW i \in 1..Len(r), NEW j \in 1..Len(r), r[i] = r[j] PROVE i = j
      OBVIOUS
    <3>1. from(i) = from(j)
      <4> HIDE DEF from
      <4>1. QED BY <2>5 DEF RecencyOK
    <3>2. QED BY <2>1, <2>3, <3>1
  <2>7. \A i \in 1..Len(used) : i # k => \E j \in 1..Len(r) : i = from(j)
    <3> SUFFICES ASSUME NEW i \in 1..Len(used), i # k PROVE \E j \in 1..Len(r) : i = from(j)
      OBVIOUS
    <3>1. CASE i < k
      <4>1. i \in 1..Len(r) /\ from(i) = i
        BY <2>1, <2>2, <2>3, <3>1
      <4> HIDE DEF from
      <4>2. QED BY <4>1
    <3>2. CASE ~(i < k)
      <4>1. i - 1 \in 1..Len(r) /\ from(i - 1) = i
        BY <2>1, <2>2, <2>3, <3>2
      <4> HIDE DEF from
      <4>2. QED BY <4>1
    <3>3. QED BY <3>1, <3>2
  <2> HIDE DEF from
  <2>8. \A x \in ToSet(r) : x \in Known /\ x \notin S
    <3> SUFFICES ASSUME NEW j \in 1..Len(r) PROVE r[j] \in Known /\ r[j] \notin S
      BY <2>2, <2>3 DEF ToSet
    <3>1. r[j] = used[from(j)] /\ from(j) \in 1..Len(used) /\ from(j) # k
      BY <2>5
    <3>2. r[j] \in Known /\ used[k] \in Known
      BY <2>1, <2>2, <3>1 DEF Known, ToSet
    <3>3. r[j] # used[k]
      BY <2>1, <3>1 DEF RecencyOK
    <3>4. QED BY <2>1, <3>2, <3>3
  <2>9. \A x \in Known \ S : x \in ToSet(r)
    <3> SUFFICES ASSUME NEW i \in 1..Len(used), used[i] \notin S PROVE used[i] \in ToSet(r)
      BY <2>2 DEF Known, ToSet
    <3>1. i # k
      BY <2>1
    <3>2. PICK j \in 1..Len(r) : i = from(j)
      BY <2>7, <3>1
    <3>3. r[j] = used[i] /\ j \in DOMAIN r
      BY <2>3, <2>5, <3>2
    <3>4. QED BY <3>3 DEF ToSet
  <2>10. QED BY <2>3, <2>4, <2>6, <2>8, <2>9
<1>3. QED BY <1>1, <1>2

\* The host that makes room is a known one, and a closed one if there is any.
LEMMA VictimIs ==
    ASSUME RecencyOK, NEW h \in Hosts, NEW v \in Victims(h)
    PROVE  /\ v \in Known /\ v # h /\ Victims(h) = {v}
           /\ Closed(v) \/ \A x \in Known : ~Closed(x)
<1>1. Full /\ h \notin Known /\ Victims(h) = {used[Oldest(Evictable)]}
  BY DEF Victims
<1>2. Known # {}
  <2>1. Len(used) \in Nat /\ Len(used) # 0 /\ DOMAIN used = 1..Len(used)
    BY <1>1, BreakerAssumption DEF Full, RecencyOK
  <2>2. used[1] \in Known
    BY <2>1 DEF Known, ToSet
  <2>3. QED BY <2>2
<1>3. Evictable \cap Known # {}
  BY <1>2 DEF Evictable
<1>4. v \in Evictable
  BY <1>1, <1>3, OldestIsOne
<1>5. QED BY <1>1, <1>4 DEF Evictable

\* An entry makes its host the one used last, and takes out at most the victim.
LEMMA EntryOrder ==
    ASSUME RecencyOK, NEW h \in Hosts, NEW b, Entry(h, b)
    PROVE  /\ RecencyOK'
           /\ h \in ToSet(used')
           /\ \A v \in Victims(h) : v \notin ToSet(used')
<1> DEFINE S == {h} \cup Victims(h)
           r == Without(S)
<1>1. \A x, y \in S \cap Known : x = y
  BY VictimIs DEF Victims
<1>2. used' = Append(r, h)
  BY DEF Entry
<1> HIDE DEF S
<1>3. /\ r \in Seq(Hosts)
      /\ \A i, j \in 1..Len(r) : r[i] = r[j] => i = j
      /\ ToSet(r) = Known \ S
  BY <1>1, WithoutOne
<1> HIDE DEF r
<1>4. /\ used' \in Seq(Hosts) /\ Len(used') = Len(r) + 1
      /\ \A i \in 1..Len(r) : used'[i] = r[i]
      /\ used'[Len(r) + 1] = h
      /\ Len(r) \in Nat /\ DOMAIN r = 1..Len(r) /\ DOMAIN used' = 1..Len(used')
  BY <1>2, <1>3, AppendProperties
<1>5. \A i \in 1..Len(r) : r[i] \in Known \ S
  BY <1>3, <1>4 DEF ToSet
<1>6. \A i \in 1..Len(used') : i \in 1..Len(r) \/ i = Len(r) + 1
  BY <1>4
<1>7. h \in S /\ Victims(h) \subseteq S
  BY DEF S
<1>8. \A i, j \in 1..Len(used') : used'[i] = used'[j] => i = j
  BY <1>3, <1>4, <1>5, <1>6, <1>7
<1>9. h \in ToSet(used')
  BY <1>4 DEF ToSet
<1>10. \A v \in Victims(h) : v \notin ToSet(used')
  <2>1. \A v \in Victims(h) : v # h
    BY VictimIs
  <2>2. QED BY <1>4, <1>5, <1>6, <1>7, <2>1 DEF ToSet
<1>11. QED BY <1>4, <1>8, <1>9, <1>10 DEF RecencyOK

-----------------------------------------------------------------------------
(* Pauses.  Beside Inv, what makes QuotaHeld inductive. *)

\* While a pause is owed the host's breaker is not closed and waits for its end, and no
\* answer that could end it is under way.
QuotaOK ==
    \A h \in Hosts : quota[h] > clock =>
        /\ ~Closed(h) /\ breaker[h].retry_at >= quota[h]
        /\ \A f \in Fetches : fetch[f].at = "sent" => fetch[f].host # h

\* A host other than the one whose entry is used keeps its breaker while it is owed a pause.
LEMMA EntryKeepsPauses ==
    ASSUME RecencyOK, QuotaOK, clock \in Nat, NEW h \in Hosts, NEW b, Entry(h, b),
           NEW pauses \in [Hosts -> Nat], Owed(pauses),
           \A x \in Hosts : x # h => pauses[x] = quota[x]
    PROVE  /\ breaker'[h] = b /\ quota'[h] = pauses[h]
           /\ \A x \in Hosts : x # h /\ quota'[x] > clock =>
                quota'[x] = quota[x] /\ breaker'[x] = breaker[x]
<1>1. breaker'[h] = b /\ quota'[h] = pauses[h]
  <2>1. h \notin Victims(h)
    BY VictimIs
  <2>2. breaker'[h] = b
    BY <2>1 DEF Entry
  <2>3. h \in ToSet(used')
    BY EntryOrder
  <2>4. quota'[h] = pauses[h]
    BY <2>3 DEF Owed
  <2>5. QED BY <2>2, <2>4
<1>2. ASSUME NEW x \in Hosts, x # h, quota'[x] > clock
      PROVE  quota'[x] = quota[x] /\ breaker'[x] = breaker[x]
  <2>1. quota'[x] = pauses[x] /\ quota[x] > clock
    BY <1>2 DEF Owed
  <2>2. ~Closed(x)
    BY <2>1 DEF QuotaOK
  <2>3. x \notin Victims(h)
    <3> SUFFICES ASSUME x \in Victims(h) PROVE FALSE
      OBVIOUS
    <3>1. x \in Known /\ \A y \in Known : ~Closed(y)
      BY <2>2, VictimIs
    <3>2. x \notin ToSet(used')
      BY EntryOrder
    <3>3. quota'[x] = 0
      BY <3>1, <3>2 DEF Owed
    <3>4. QED BY <1>2, <3>3
  <2>4. QED BY <1>2, <2>1, <2>3 DEF Entry
<1>3. QED BY <1>1, <1>2

\* What every step keeps, past and beside Inv.
QuotaInv == Inv /\ RecencyOK /\ QuotaOK

\* A fetch whose host's breaker lets it through has waited for the end of the pause.
LEMMA AllowedIsDue ==
    ASSUME QuotaInv, NEW f \in Fetches, fetch[f].at = "asks",
           Allows(breaker[fetch[f].host], fetch[f].now)
    PROVE  quota[fetch[f].host] <= clock
<1> DEFINE h == fetch[f].host
<1>1. h \in Hosts /\ fetch[f].now \in 0..clock /\ clock \in Nat
  BY FetchKnown DEF QuotaInv
<1>2. quota[h] \in Nat /\ breaker[h].retry_at \in Nat
  BY <1>1 DEF QuotaInv, Inv, Typed, Breaker
<1> HIDE DEF h
<1>3. SUFFICES ASSUME quota[h] > clock PROVE FALSE
  BY <1>1, <1>2 DEF h
<1>4. ~Closed(h) /\ breaker[h].retry_at >= quota[h]
  BY <1>1, <1>3 DEF QuotaInv, QuotaOK
<1>5. fetch[f].now >= breaker[h].retry_at
  BY <1>4 DEF Allows, Closed, h
<1>6. QED BY <1>1, <1>2, <1>3, <1>4, <1>5

\* A host to which a request is under way is owed no pause.
LEMMA SentIsDue ==
    ASSUME QuotaInv, NEW f \in Fetches, fetch[f].at = "sent"
    PROVE  quota[fetch[f].host] <= clock
<1>1. fetch[f].host \in Hosts /\ clock \in Nat
  BY FetchKnown DEF QuotaInv
<1>2. quota[fetch[f].host] \in Nat
  BY <1>1 DEF QuotaInv, Inv, Typed
<1>3. QED BY <1>1, <1>2 DEF QuotaInv, QuotaOK

\* A use of h's entry keeps the pauses owed to other hosts, and to h as far as its new
\* breaker does.
LEMMA EntryKeepsQuota ==
    ASSUME QuotaInv, NEW h \in Hosts, NEW b, Entry(h, b), clock' = clock,
           NEW pauses \in [Hosts -> Nat], Owed(pauses),
           \A x \in Hosts : x # h => pauses[x] = quota[x],
           pauses[h] > clock => b.state # "Closed" /\ b.retry_at >= pauses[h],
           \A x \in Hosts, g \in Fetches :
             (IF x = h THEN pauses[x] ELSE quota[x]) > clock /\ fetch'[g].at = "sent"
               => fetch'[g].host # x
    PROVE  RecencyOK' /\ QuotaOK'
<1>1. clock \in Nat
  BY BreakerAssumption DEF QuotaInv, Inv, Typed
<1>2. RecencyOK'
  BY EntryOrder DEF QuotaInv
<1>3. /\ breaker'[h] = b /\ quota'[h] = pauses[h]
      /\ \A x \in Hosts : x # h /\ quota'[x] > clock =>
           quota'[x] = quota[x] /\ breaker'[x] = breaker[x]
  BY <1>1, EntryKeepsPauses DEF QuotaInv
<1>4. \A x \in Hosts : quota'[x] > clock =>
        /\ breaker'[x].state # "Closed" /\ breaker'[x].retry_at >= quota'[x]
        /\ \A g \in Fetches : fetch'[g].at = "sent" => fetch'[g].host # x
  BY <1>3 DEF QuotaInv, QuotaOK, Closed
<1>5. QED BY <1>2, <1>4 DEF QuotaOK, Closed

\* An answer ends the fetch; only a fetch that is sent is under way after it.
LEMMA ReportKeepsQuota ==
    ASSUME QuotaInv, NEW f \in Fetches, NEW b, Report(f, b),
           NEW pauses \in [Hosts -> Nat], Owed(pauses),
           \A x \in Hosts : x # fetch[f].host => pauses[x] = quota[x],
           LET h == fetch[f].host
           IN  pauses[h] > clock =>
                 b.state # "Closed" /\ b.retry_at >= pauses[h] /\ Alone(f)
    PROVE  RecencyOK' /\ QuotaOK'
<1> DEFINE h == fetch[f].host
<1>1. h \in Hosts
  BY FetchKnown DEF QuotaInv, Report
<1>2. \A g \in Fetches : fetch'[g].at = "sent" => g # f /\ fetch'[g] = fetch[g]
  BY DEF Report, Idle, QuotaInv, Inv, Typed
<1>3. \A x \in Hosts, g \in Fetches :
        (IF x = h THEN pauses[x] ELSE quota[x]) > clock /\ fetch'[g].at = "sent"
          => fetch'[g].host # x
  BY <1>2 DEF QuotaInv, QuotaOK, Alone
<1>4. Entry(h, b) /\ clock' = clock
  BY DEF Report
<1>5. QED
  <2> HIDE DEF h
  <2>1. /\ \A x \in Hosts : x # h => pauses[x] = quota[x]
        /\ pauses[h] > clock => b.state # "Closed" /\ b.retry_at >= pauses[h]
    BY DEF h
  <2>2. QED BY <1>1, <1>3, <1>4, <2>1, EntryKeepsQuota

\* One step of a fetch.
LEMMA FetchStepKeepsQuota ==
    ASSUME QuotaInv, NEW f \in Fetches,
           \/ Call(f) \/ Send(f) \/ Suppress(f)
           \/ Succeeds(f) \/ Fails(f) \/ RateLimited(f) \/ Errs(f)
    PROVE  RecencyOK' /\ QuotaOK'
<1> DEFINE h == fetch[f].host
<1>0. quota \in [Hosts -> Nat] /\ clock \in Nat /\ fetch \in [Fetches -> Fetch]
  BY BreakerAssumption DEF QuotaInv, Inv, Typed
<1>1. CASE Call(f) \/ Errs(f)
  <2>1. \A g \in Fetches : fetch'[g].at = "sent" => fetch'[g] = fetch[g]
    BY <1>0, <1>1 DEF Call, Errs, Idle
  <2>2. UNCHANGED <<clock, breaker, used, quota>>
    BY <1>1 DEF Call, Errs
  <2>3. QED BY <2>1, <2>2 DEF QuotaInv, RecencyOK, QuotaOK, Closed
<1>2. CASE Send(f)
  <2> DEFINE b == IF breaker[h].state = "Closed" THEN breaker[h]
                  ELSE HalfOpen(breaker[h], fetch[f].now)
  <2>1. h \in Hosts /\ quota[h] <= clock /\ quota[h] \in Nat
    BY <1>0, <1>2, FetchKnown, AllowedIsDue DEF QuotaInv, Send
  <2>2. Entry(h, b) /\ Owed(quota) /\ clock' = clock
    BY <1>2 DEF Send
  <2>3. \A g \in Fetches : IF g = f THEN fetch'[g].host = h ELSE fetch'[g] = fetch[g]
    BY <1>0, <1>2 DEF Send, Fetch, Idle
  <2> HIDE DEF h, b
  <2>4. \A x \in Hosts, g \in Fetches :
          (IF x = h THEN quota[x] ELSE quota[x]) > clock /\ fetch'[g].at = "sent"
            => fetch'[g].host # x
    BY <1>0, <2>1, <2>3 DEF QuotaInv, QuotaOK
  <2>5. ~(quota[h] > clock)
    BY <1>0, <2>1
  <2>6. QED BY <1>0, <2>1, <2>2, <2>4, <2>5, EntryKeepsQuota
<1>3. CASE Suppress(f)
  <2>1. h \in Hosts
    BY <1>3, FetchKnown DEF QuotaInv, Suppress
  <2>2. Entry(h, breaker[h]) /\ Owed(quota) /\ clock' = clock
    BY <1>3 DEF Suppress
  <2>3. \A g \in Fetches : fetch'[g].at = "sent" => fetch'[g] = fetch[g]
    BY <1>0, <1>3 DEF Suppress, Idle
  <2> HIDE DEF h
  <2>4. \A x \in Hosts, g \in Fetches :
          (IF x = h THEN quota[x] ELSE quota[x]) > clock /\ fetch'[g].at = "sent"
            => fetch'[g].host # x
    BY <2>3 DEF QuotaInv, QuotaOK
  <2>5. quota[h] > clock => breaker[h].state # "Closed" /\ breaker[h].retry_at >= quota[h]
    BY <2>1 DEF QuotaInv, QuotaOK, Closed
  <2>6. QED BY <1>0, <2>1, <2>2, <2>4, <2>5, EntryKeepsQuota
<1>4. CASE Succeeds(f) \/ Fails(f)
  <2>1. PICK b : Report(f, b) /\ Owed(quota)
    BY <1>4 DEF Succeeds, Fails
  <2>2. quota[h] <= clock /\ quota[h] \in Nat
    BY <1>0, <2>1, SentIsDue, FetchKnown DEF Report, QuotaInv
  <2>3. ~(quota[h] > clock)
    BY <1>0, <2>2
  <2>4. QED BY <1>0, <2>1, <2>3, ReportKeepsQuota
<1>5. CASE RateLimited(f)
  <2>1. PICK after \in RetryAfters :
          /\ Report(f, OnRateLimited(breaker[h], fetch[f].now, after))
          /\ Owed(IF Alone(f) THEN [quota EXCEPT ![h] = fetch[f].now + after] ELSE quota)
    BY <1>5 DEF RateLimited
  <2> DEFINE b == OnRateLimited(breaker[h], fetch[f].now, after)
             pauses == IF Alone(f) THEN [quota EXCEPT ![h] = fetch[f].now + after] ELSE quota
  <2>2. /\ h \in Hosts /\ fetch[f].now \in Nat /\ after \in Nat
        /\ quota[h] <= clock /\ quota[h] \in Nat
    BY <1>0, <2>1, SentIsDue, FetchKnown, BreakerAssumption DEF Report, QuotaInv
  <2>3. b.state # "Closed" /\ b.retry_at >= fetch[f].now + after
    BY <2>2, MaxOfTwo DEF OnRateLimited, Open
  <2>4. /\ pauses \in [Hosts -> Nat]
        /\ \A x \in Hosts : x # h => pauses[x] = quota[x]
        /\ IF Alone(f) THEN pauses[h] = fetch[f].now + after ELSE pauses[h] = quota[h]
    BY <1>0, <2>2
  <2>5. Report(f, b) /\ Owed(pauses)
    BY <2>1
  <2> HIDE DEF b, pauses
  <2>6. pauses[h] > clock => b.state # "Closed" /\ b.retry_at >= pauses[h] /\ Alone(f)
    BY <1>0, <2>2, <2>3, <2>4
  <2>7. QED BY <2>4, <2>5, <2>6, ReportKeepsQuota
<1>6. QED BY <1>1, <1>2, <1>3, <1>4, <1>5

LEMMA QuotaInvHolds == Spec => []QuotaInv
<1>1. Init => QuotaInv
  <2> SUFFICES ASSUME Init PROVE QuotaInv
    OBVIOUS
  <2>1. RecencyOK /\ QuotaOK
    BY DEF Init, RecencyOK, QuotaOK
  <2>2. QED BY <2>1, InitInv DEF QuotaInv
<1>2. QuotaInv /\ [Next]_vars => QuotaInv'
  <2> SUFFICES ASSUME QuotaInv, [Next]_vars PROVE QuotaInv'
    OBVIOUS
  <2>1. Inv'
    BY NextKeepsInv DEF QuotaInv
  <2>2. CASE Tick
    <3>1. clock \in Nat /\ clock' = clock + 1 /\ UNCHANGED <<breaker, used, fetch, quota>>
      BY <2>2, BreakerAssumption DEF QuotaInv, Inv, Typed, Tick
    <3>2. \A h \in Hosts : quota[h] \in Nat /\ (quota'[h] > clock' => quota[h] > clock)
      BY <3>1 DEF QuotaInv, Inv, Typed
    <3>3. RecencyOK' /\ QuotaOK'
      BY <3>1, <3>2 DEF QuotaInv, RecencyOK, QuotaOK, Closed
    <3>4. QED BY <2>1, <3>3 DEF QuotaInv
  <2>3. ASSUME NEW f \in Fetches,
               \/ Call(f) \/ Send(f) \/ Suppress(f)
               \/ Succeeds(f) \/ Fails(f) \/ RateLimited(f) \/ Errs(f)
        PROVE  QuotaInv'
    BY <2>1, <2>3, FetchStepKeepsQuota DEF QuotaInv
  <2>4. CASE UNCHANGED vars
    BY <2>1, <2>4 DEF vars, QuotaInv, RecencyOK, QuotaOK, Closed
  <2>5. QED BY <2>2, <2>3, <2>4 DEF Next
<1>3. QED BY <1>1, <1>2, PTL DEF Spec

\* Breaker::allow and BreakerRegistry::entry, for any hosts, table, pauses and concurrent
\* fetches: no request goes to a host before the end of the pause it is owed.
THEOREM QuotasAreHeld == Spec => QuotaHeld
<1> DEFINE Held == \A f \in Fetches :
                     fetch[f].at = "asks" /\ fetch'[f].at = "sent" =>
                       clock >= quota[fetch[f].host]
<1>1. QuotaInv /\ [Next]_vars => [Held]_vars
  <2> SUFFICES ASSUME QuotaInv, Next, NEW f \in Fetches,
                      fetch[f].at = "asks", fetch'[f].at = "sent"
               PROVE  clock >= quota[fetch[f].host]
    OBVIOUS
  <2>1. Send(f)
    <3>1. fetch \in [Fetches -> Fetch]
      BY DEF QuotaInv, Inv, Typed
    <3>2. ~Tick
      BY DEF Tick
    <3>3. PICK g \in Fetches :
            \/ Call(g) \/ Send(g) \/ Suppress(g)
            \/ Succeeds(g) \/ Fails(g) \/ RateLimited(g) \/ Errs(g)
      BY <3>2 DEF Next
    <3>4. ~Call(g)
      BY <3>1 DEF Call
    <3>5. ~(Suppress(g) \/ Errs(g))
      BY <3>1 DEF Suppress, Errs, Idle
    <3>6. ~(Succeeds(g) \/ Fails(g) \/ RateLimited(g))
      BY <3>1 DEF Succeeds, Fails, RateLimited, Report, Idle
    <3>7. Send(g)
      BY <3>3, <3>4, <3>5, <3>6
    <3>8. g = f
      BY <3>1, <3>7 DEF Send
    <3>9. QED BY <3>7, <3>8
  <2>2. quota[fetch[f].host] <= clock
    BY <2>1, AllowedIsDue DEF Send
  <2>3. QED BY <2>2
<1>2. QED BY <1>1, QuotaInvHolds, PTL DEF Spec, QuotaHeld
=============================================================================
