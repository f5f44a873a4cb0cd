--------------------------- MODULE CircuitBreaker ---------------------------
(***************************************************************************)
(* The per-host circuit breakers (src/circuit.rs) and the paced fetches     *)
(* that share them (fetch_hops and record_breaker_health in src/fetch.rs).  *)
(* A fetch is given the time its caller read, and uses it both to ask the   *)
(* breaker and, when its answer comes, to report to it.                     *)
(***************************************************************************)
EXTENDS Naturals, Sequences, FiniteSets, FiniteSetsExt, SequencesExt

CONSTANTS
    Hosts,
    Fetches,                 \* fetches under way at once
    FAILURE_THRESHOLD,
    COOLDOWN_SECS,
    MAX_BREAKER_HOSTS,
    RetryAfters,             \* the pauses a provider asks for
    MaxFailures,             \* bound: where consecutive_failures saturates
    MaxTime                  \* bound: the last second

ASSUME BreakerAssumption ==
    /\ {FAILURE_THRESHOLD, COOLDOWN_SECS, MAX_BREAKER_HOSTS} \subseteq Nat \ {0}
    /\ MaxFailures \in Nat /\ MaxFailures >= FAILURE_THRESHOLD
    /\ RetryAfters \subseteq Nat
    /\ MaxTime \in Nat

VARIABLES
    clock,
    breaker,     \* BreakerRegistry.hosts; Default for a host without an entry
    used,        \* the hosts with an entry, least recently used first
    fetch,       \* each fetch: whether it asks or is on its way, its host and its time
    quota        \* history: the end of the pause each host is owed

vars == <<clock, breaker, used, fetch, quota>>

Breaker == [state : {"Closed", "Open", "HalfOpen"}, failures : 0..MaxFailures, retry_at : Nat]
Default == [state |-> "Closed", failures |-> 0, retry_at |-> 0]
Idle    == [at |-> "idle"]
Fetch   == {Idle} \cup [at : {"asks", "sent"}, host : Hosts, now : 0..MaxTime]

\* The types of all but the order of use, which is a sequence of hosts.
Typed ==
    /\ clock \in 0..MaxTime
    /\ breaker \in [Hosts -> Breaker]
    /\ fetch \in [Fetches -> Fetch]
    /\ quota \in [Hosts -> Nat]

Init ==
    /\ clock = 0
    /\ breaker = [h \in Hosts |-> Default]
    /\ used = <<>>
    /\ fetch = [f \in Fetches |-> Idle]
    /\ quota = [h \in Hosts |-> 0]

-----------------------------------------------------------------------------
(* The registry.  Each operation holds its mutex.                            *)

Known == ToSet(used)
Closed(h) == breaker[h].state = "Closed"

\* Mutant: the least recently used host goes, whatever its breaker.
MutEvictable == Known

\* Closed breakers go first.
Evictable == IF \E h \in Known : Closed(h) THEN {h \in Known : Closed(h)} ELSE Known

Full == Len(used) >= MAX_BREAKER_HOSTS

\* The place of the least recently used host of S.
Oldest(S) == CHOOSE i \in DOMAIN used : used[i] \in S /\ \A j \in 1..(i - 1) : used[j] \notin S

\* The host whose entry makes room for one of `h`, if any.
Victims(h) == IF Full /\ h \notin Known THEN {used[Oldest(Evictable)]} ELSE {}

\* The others' order of use.
Without(S) == IF S \cap Known = {} THEN used ELSE RemoveAt(used, Oldest(S))

\* entry(h), its breaker becoming `b`.
Entry(h, b) ==
    /\ breaker' = [x \in Hosts |-> CASE x = h          -> b
                                     [] x \in Victims(h) -> Default
                                     [] OTHER          -> breaker[x]]
    /\ used' = Append(Without({h} \cup Victims(h)), h)

\* saturating_add(1)
Failed(n) == Min({n + 1, MaxFailures})

Open(n, until) == [state |-> "Open", failures |-> n, retry_at |-> until]

HalfOpen(b, now) ==
    [state |-> "HalfOpen", failures |-> b.failures, retry_at |-> now + COOLDOWN_SECS]

OnSuccess(b) == Default

OnFailure(b, now) ==
    IF b.state = "HalfOpen" \/ Failed(b.failures) >= FAILURE_THRESHOLD
      THEN Open(Failed(b.failures), now + COOLDOWN_SECS)
      ELSE [b EXCEPT !.failures = Failed(@)]

\* Mutant: the pause is added to the one that runs.
MutOnRateLimited(b, now, after) == Open(Failed(b.failures), Max({b.retry_at, now}) + after)

OnRateLimited(b, now, after) == Open(Failed(b.failures), now + Max({after, 1}))

-----------------------------------------------------------------------------
(* A paced fetch.                                                            *)

\* A pause is owed until the table has to forget the host: until it makes room when no
\* breaker is closed.
Owed(pauses) ==
    quota' = [h \in Hosts |->
                IF h \in Known \ ToSet(used') /\ (\A x \in Known : ~Closed(x)) THEN 0 ELSE pauses[h]]

\* Its caller reads the clock.
Call(f) ==
    /\ fetch[f].at = "idle"
    /\ \E h \in Hosts : fetch' = [fetch EXCEPT ![f] = [at |-> "asks", host |-> h, now |-> clock]]
    /\ UNCHANGED <<clock, breaker, used, quota>>

Allows(b, now) == b.state = "Closed" \/ now >= b.retry_at

\* allow_host lets it through, as a probe unless the breaker is closed ...
Send(f) ==
    /\ fetch[f].at = "asks"
    /\ LET h == fetch[f].host
           b == breaker[h]
           now == fetch[f].now
       IN  /\ Allows(b, now)
           /\ Entry(h, IF b.state = "Closed" THEN b ELSE HalfOpen(b, now))
    /\ fetch' = [fetch EXCEPT ![f].at = "sent"]
    /\ Owed(quota)
    /\ UNCHANGED clock

\* ... or the request is not sent.
Suppress(f) ==
    /\ fetch[f].at = "asks"
    /\ LET h == fetch[f].host
       IN  /\ ~Allows(breaker[h], fetch[f].now)
           /\ Entry(h, breaker[h])
    /\ fetch' = [fetch EXCEPT ![f] = Idle]
    /\ Owed(quota)
    /\ UNCHANGED clock

\* record_breaker_health of the final outcome.
Report(f, b) ==
    /\ fetch[f].at = "sent"
    /\ Entry(fetch[f].host, b)
    /\ fetch' = [fetch EXCEPT ![f] = Idle]
    /\ UNCHANGED clock

Succeeds(f) == Report(f, OnSuccess(breaker[fetch[f].host])) /\ Owed(quota)

Fails(f) == Report(f, OnFailure(breaker[fetch[f].host], fetch[f].now)) /\ Owed(quota)

\* No other request to the host is under way, whose answer could end the pause.
Alone(f) == \A g \in Fetches \ {f} : fetch[g].at = "sent" => fetch[g].host # fetch[f].host

RateLimited(f) ==
    \E after \in RetryAfters :
        /\ Report(f, OnRateLimited(breaker[fetch[f].host], fetch[f].now, after))
        /\ Owed(IF Alone(f) THEN [quota EXCEPT ![fetch[f].host] = fetch[f].now + after]
                            ELSE quota)

\* The fetch ends in an error of its own (a blocked address, a bad URL): nothing is
\* reported, not even about a probe.
Errs(f) ==
    /\ fetch[f].at = "sent"
    /\ fetch' = [fetch EXCEPT ![f] = Idle]
    /\ UNCHANGED <<clock, breaker, used, quota>>

Tick ==
    /\ clock < MaxTime
    /\ clock' = clock + 1
    /\ UNCHANGED <<breaker, used, fetch, quota>>

Next ==
    \/ Tick
    \/ \E f \in Fetches :
         \/ Call(f) \/ Send(f) \/ Suppress(f)
         \/ Succeeds(f) \/ Fails(f) \/ RateLimited(f) \/ Errs(f)

Spec == Init /\ [][Next]_vars

-----------------------------------------------------------------------------
\* A host that failed FAILURE_THRESHOLD times in a row is not treated as healthy,
\* whichever fetches the failures and pauses came from and in whatever order.
ClosedIsHealthy ==
    \A h \in Hosts : Closed(h) => breaker[h].failures < FAILURE_THRESHOLD

\* No pause outlasts what one answer can ask for: probes whose outcome is never
\* reported, and late answers, cannot shut a host out.
PauseBounded ==
    \A h \in Hosts : \E pause \in RetryAfters \cup {COOLDOWN_SECS, 1} :
        breaker[h].retry_at <= clock + pause

\* A breaker neither passes for healthy too early nor shuts its host out.
BreakersKept == ClosedIsHealthy /\ PauseBounded

\* "after one exhausted quota no further request goes to api.github.com until the
\* reset": so it is for every host whose requests are sent one at a time, whatever the
\* other hosts do to the table, "a host still being backed off is dropped only when no
\* breaker is closed" included.
QuotaHeld ==
    [][\A f \in Fetches :
         fetch[f].at = "asks" /\ fetch'[f].at = "sent" => clock >= quota[fetch[f].host]]_vars
=============================================================================
