----------------------------- MODULE LookupPool -----------------------------
(***************************************************************************)
(* Lookup jobs on scoped threads (src/concurrent.rs, `all` and `pair`),     *)
(* each job one request to a provider as HibpClient::get_json makes it      *)
(* (src/hibp/client.rs) under the provider's shared RateLimiter.            *)
(*                                                                         *)
(* Thread 0 is the caller, which works on jobs only where the code makes it *)
(* (no thread could be started, or the second half of a pair); threads 1,   *)
(* 2, ... are the spawned workers in the order they start.  The operating   *)
(* system may refuse any thread and any job may panic.                      *)
(***************************************************************************)
EXTENDS RateLimiter, FiniteSets

CONSTANTS
    JobCount,           \* jobs of an `all` call; a pair has two
    Keyed,              \* jobs whose request needs a key, and so passes the limiter
    MAX_PARALLEL_JOBS,
    max_429_retries,
    max_retry_after,
    MaxPlanChanges      \* bound: subscription answers that set the limit

Jobs == 1..JobCount
Threads == 0..MAX_PARALLEL_JOBS

ASSUME PoolParameters ==
    /\ JobCount \in Nat /\ JobCount >= 2 /\ Keyed \subseteq Jobs
    /\ MAX_PARALLEL_JOBS \in Nat \ {0}
    /\ {max_429_retries, max_retry_after, MaxPlanChanges} \subseteq Nat

VARIABLES
    call,      \* the function called: "all" or "pair"
    main,      \* where the caller is
    workers,   \* threads that were started
    nextIndex, \* `next` of all(), the shared job counter
    slots,     \* jobs still in their slot
    pc,        \* where a thread is
    job,       \* the job a thread holds, 0 for none
    retries,   \* 429s the job's request was answered with so far
    nap,       \* time left of a thread's sleep
    result,    \* what a job came to
    runs,      \* history: times a job was run
    plans      \* history: plan changes so far

thread == <<pc, job, retries, nap>>
pool == <<call, main, workers, nextIndex, slots, thread, result, runs>>
poolVars == <<pool, limiter, plans>>

PoolTypeOK ==
    /\ LimiterTypeOK
    /\ call \in {"all", "pair"}
    /\ main \in {"spawn", "drain", "second", "join", "first", "answered", "unwound"}
    /\ workers \subseteq Threads \ {0}
    /\ nextIndex \in Nat
    /\ slots \subseteq Jobs
    /\ pc \in [Threads -> {"none", "claim", "acquire", "asleep", "send", "pausing", "ended"}]
    /\ job \in [Threads -> Jobs \cup {0}]
    /\ retries \in [Threads -> 0..max_429_retries]
    /\ nap \in [Threads -> Nat]
    /\ result \in [Jobs -> {"none", "answer", "limited", "panic"}]
    /\ runs \in [Jobs -> Nat]
    /\ plans \in 0..MaxPlanChanges

\* The jobs of this call.
Called == IF call = "pair" THEN {1, 2} ELSE Jobs

PoolInit ==
    /\ LimiterInit
    /\ call \in {"all", "pair"}
    /\ main = "spawn"
    /\ workers = {}
    /\ nextIndex = 1
    /\ slots = Called
    /\ pc = [t \in Threads |-> "none"]
    /\ job = [t \in Threads |-> 0]
    /\ retries = [t \in Threads |-> 0]
    /\ nap = [t \in Threads |-> 0]
    /\ result = [j \in Jobs |-> "none"]
    /\ runs = [j \in Jobs |-> 0]
    /\ plans = 0

-----------------------------------------------------------------------------
(* The caller. *)

\* Threads `all` tries to start; a pair starts one, for its first job.
Wanted == IF call = "pair" THEN 1 ELSE Least(JobCount, MAX_PARALLEL_JOBS)

\* Thread t begins job j: a keyed request asks the limiter first.
Begin(t, j) ==
    /\ slots' = slots \ {j}
    /\ job' = [job EXCEPT ![t] = j]
    /\ retries' = [retries EXCEPT ![t] = 0]
    /\ runs' = [runs EXCEPT ![j] = @ + 1]
    /\ pc' = [pc EXCEPT ![t] = IF j \in Keyed THEN "acquire" ELSE "send"]

Spawn ==
    /\ main = "spawn" /\ Cardinality(workers) < Wanted
    /\ LET t == Cardinality(workers) + 1 IN
       /\ workers' = workers \cup {t}
       /\ pc' = [pc EXCEPT ![t] = "claim"]
    /\ UNCHANGED <<call, main, nextIndex, slots, job, retries, nap, result, runs, limiter, plans>>

\* The loop over the threads breaks at the first refusal; with no thread at all the
\* caller drains the jobs itself.
SpawnRefused ==
    /\ main = "spawn" /\ call = "all" /\ Cardinality(workers) < Wanted
    /\ main' = IF workers = {} THEN "drain" ELSE "join"
    /\ pc' = IF workers = {} THEN [pc EXCEPT ![0] = "claim"] ELSE pc
    /\ UNCHANGED <<call, workers, nextIndex, slots, job, retries, nap, result, runs, limiter, plans>>

SpawnedAll ==
    /\ main = "spawn" /\ call = "all" /\ Cardinality(workers) = Wanted
    /\ main' = "join"
    /\ UNCHANGED <<call, workers, nextIndex, slots, thread, result, runs, limiter, plans>>

Drained ==
    /\ main = "drain" /\ pc[0] = "ended"
    /\ main' = "join"
    /\ UNCHANGED <<call, workers, nextIndex, slots, thread, result, runs, limiter, plans>>

AllEnded == \A t \in workers : pc[t] = "ended"

\* The scope has joined every worker; the results are read in order and the first
\* panic among them is resumed.
AllReturns ==
    /\ main = "join" /\ call = "all" /\ AllEnded
    /\ main' = IF \E j \in Called : result[j] = "panic" THEN "unwound" ELSE "answered"
    /\ UNCHANGED <<call, workers, nextIndex, slots, thread, result, runs, limiter, plans>>

\* pair: with or without a thread for the first job, the caller runs the second.
PairSecond ==
    /\ main = "spawn" /\ call = "pair"
    /\ main' = "second"
    /\ Begin(0, 2)
    /\ UNCHANGED <<call, workers, nextIndex, nap, result, limiter, plans>>

\* finish: the first job's slot is still full when its thread never started.  A panic
\* of the second job unwinds past finish.
PairFirst ==
    /\ main = "second" /\ pc[0] = "ended" /\ result[2] # "panic"
    /\ workers = {}
    /\ main' = "first"
    /\ Begin(0, 1)
    /\ UNCHANGED <<call, workers, nextIndex, nap, result, limiter, plans>>

\* The scope waits for the thread even while a panic unwinds.
PairReturns ==
    /\ call = "pair" /\ pc[0] = "ended" /\ AllEnded
    /\ \/ main = "first"
       \/ main = "second" /\ (workers # {} \/ result[2] = "panic")
    /\ main' = IF \E j \in Called : result[j] = "panic" THEN "unwound" ELSE "answered"
    /\ UNCHANGED <<call, workers, nextIndex, slots, thread, result, runs, limiter, plans>>

-----------------------------------------------------------------------------
(* A thread and its job. *)

\* drain: fetch_add hands every index out once; past the last slot the worker ends.
Claim(t) ==
    /\ pc[t] = "claim" /\ call = "all"
    /\ nextIndex' = nextIndex + 1
    /\ IF nextIndex \in slots
       THEN Begin(t, nextIndex)
       ELSE /\ pc' = [pc EXCEPT ![t] = IF nextIndex \in Jobs THEN "claim" ELSE "ended"]
            /\ UNCHANGED <<slots, job, retries, runs>>
    /\ UNCHANGED <<call, main, workers, nap, result, limiter, plans>>

\* start: a pair's thread takes the one job in the slot.
TakeFirst(t) ==
    /\ pc[t] = "claim" /\ call = "pair"
    /\ Begin(t, 1)
    /\ UNCHANGED <<call, main, workers, nextIndex, nap, result, limiter, plans>>

\* The job ends: a worker of `all` claims the next one, any other thread is done.
EndJob(t, outcome) ==
    /\ result' = [result EXCEPT ![job[t]] = outcome]
    /\ job' = [job EXCEPT ![t] = 0]
    /\ pc' = [pc EXCEPT ![t] = IF call = "all" THEN "claim" ELSE "ended"]

Acquire(t) ==
    /\ pc[t] = "acquire"
    /\ Grant
    /\ pc' = [pc EXCEPT ![t] = "send"]
    /\ UNCHANGED <<call, main, workers, nextIndex, slots, job, retries, nap, result, runs, plans>>

\* A server block or a spent window: sleep, and look again.
Sleep(t) ==
    /\ pc[t] = "acquire"
    /\ \E d \in 1..Most(Window, max_retry_after) :
        /\ Held(max_retry_after, d) \/ Spent(d)
        /\ nap' = [nap EXCEPT ![t] = d]
    /\ NoGrant
    /\ pc' = [pc EXCEPT ![t] = "asleep"]
    /\ UNCHANGED <<call, main, workers, nextIndex, slots, job, retries, result, runs, plans>>

\* A block longer than max_retry_after ends the job at once.
Refuse(t) ==
    /\ pc[t] = "acquire" /\ Refused(max_retry_after)
    /\ EndJob(t, "limited")
    /\ UNCHANGED <<call, main, workers, nextIndex, slots, retries, nap, runs, limiter, plans>>

\* sleep(d) returns once d has passed, at whatever time after that.
Wake(t) ==
    /\ pc[t] \in {"asleep", "pausing"} /\ nap[t] = 0
    /\ pc' = [pc EXCEPT ![t] = IF pc[t] = "asleep" THEN "acquire" ELSE "send"]
    /\ UNCHANGED <<call, main, workers, nextIndex, slots, job, retries, nap, result, runs,
                   limiter, plans>>

\* Any answer but a 429, an answer that cannot be decoded, or a failed send.
Answered(t) ==
    /\ pc[t] = "send"
    /\ EndJob(t, "answer")
    /\ UNCHANGED <<call, main, workers, nextIndex, slots, retries, nap, runs, limiter, plans>>

\* A defect: the job's panic is not caught, so its thread dies.
MutPanics(t) ==
    /\ pc[t] = "send"
    /\ result' = [result EXCEPT ![job[t]] = "panic"]
    /\ job' = [job EXCEPT ![t] = 0]
    /\ pc' = [pc EXCEPT ![t] = "ended"]
    /\ UNCHANGED <<call, main, workers, nextIndex, slots, retries, nap, runs, limiter, plans>>

\* catch_unwind keeps a panic of the job as its outcome.
Panics(t) ==
    /\ pc[t] = "send"
    /\ EndJob(t, "panic")
    /\ UNCHANGED <<call, main, workers, nextIndex, slots, retries, nap, runs, limiter, plans>>

\* A defect: the retries of a 429 are not counted.
MutTooMany(t, d) ==
    /\ pc[t] = "send"
    /\ BlockFor(d)
    /\ IF d <= max_retry_after
       THEN /\ pc' = [pc EXCEPT ![t] = IF job[t] \in Keyed THEN "acquire" ELSE "pausing"]
            /\ nap' = [nap EXCEPT ![t] = IF job[t] \in Keyed THEN 0 ELSE d]
            /\ UNCHANGED <<job, result, retries>>
       ELSE EndJob(t, "limited") /\ UNCHANGED <<retries, nap>>
    /\ UNCHANGED <<call, main, workers, nextIndex, slots, runs, plans>>

\* 429: every caller is paused.  A pause the job may sit out, within its retries, sends
\* it round again: a keyed one through the limiter, which sits the pause out, any other
\* after a sleep of its own.
TooMany(t, d) ==
    /\ pc[t] = "send"
    /\ BlockFor(d)
    /\ IF d <= max_retry_after /\ retries[t] < max_429_retries
       THEN /\ retries' = [retries EXCEPT ![t] = @ + 1]
            /\ pc' = [pc EXCEPT ![t] = IF job[t] \in Keyed THEN "acquire" ELSE "pausing"]
            /\ nap' = [nap EXCEPT ![t] = IF job[t] \in Keyed THEN 0 ELSE d]
            /\ UNCHANGED <<job, result>>
       ELSE EndJob(t, "limited") /\ UNCHANGED <<retries, nap>>
    /\ UNCHANGED <<call, main, workers, nextIndex, slots, runs, plans>>

\* subscription_status read the plan's rate.
PlanChanges ==
    /\ plans < MaxPlanChanges
    /\ plans' = plans + 1
    /\ \E n \in PlanLimits : SetLimit(n)
    /\ UNCHANGED pool

\* Time passes while anything is timed.
Tick ==
    /\ recent # <<>> \/ pause > 0 \/ blocked > 0 \/ \E t \in Threads : nap[t] > 0
    /\ LimiterTick
    /\ nap' = [t \in Threads |-> Sooner(nap[t])]
    /\ UNCHANGED <<call, main, workers, nextIndex, slots, pc, job, retries, result, runs, plans>>

-----------------------------------------------------------------------------

Caller ==
    \/ Spawn \/ SpawnRefused \/ SpawnedAll \/ Drained \/ AllReturns
    \/ PairSecond \/ PairFirst \/ PairReturns

Thread(t) ==
    \/ Claim(t) \/ TakeFirst(t) \/ Acquire(t) \/ Sleep(t) \/ Refuse(t) \/ Wake(t)
    \/ Answered(t) \/ Panics(t) \/ \E d \in RetryAfters : TooMany(t, d)

Returned == main \in {"answered", "unwound"}

PoolNext ==
    \/ Caller
    \/ \E t \in Threads : Thread(t)
    \/ PlanChanges
    \/ Tick

\* The operating system runs every thread and time passes.  Nothing is assumed of the
\* provider: any request may be answered with a 429.
PoolFairness ==
    /\ WF_poolVars(Caller)
    /\ \A t \in Threads : WF_poolVars(Thread(t))
    /\ WF_poolVars(Tick)

PoolSpec == PoolInit /\ [][PoolNext]_poolVars /\ PoolFairness

-----------------------------------------------------------------------------
(* Properties. *)

\* concurrent.rs: "Every job runs once, including when the OS refuses thread creation".
\* When the call answers every job ran once and came to something; it unwinds only
\* after a panic, with no thread left at work and, in `all`, no job left unrun.
EveryJobOnce ==
    /\ \A j \in Jobs : runs[j] <= 1
    /\ Returned => \A t \in Threads : pc[t] \in {"none", "ended"}
    /\ main = "answered" => \A j \in Called : result[j] \in {"answer", "limited"}
    /\ main = "unwound" =>
        /\ \E j \in Called : result[j] = "panic"
        /\ call = "all" => \A j \in Called : result[j] # "none"

\* Under a limit no send is granted that would be one too many of any window, however
\* threads, plan changes and pauses interleave.
WindowKept == [][Len(recent') > Len(recent) => Len(recent') <= limit]_poolVars

\* "Hold every caller for at least d": no keyed send is granted inside a pause a 429
\* asked for, whichever request was told and whatever shorter pause followed.
PauseKept == [][\A t \in Threads : pc[t] = "acquire" /\ pc'[t] = "send" => pause = 0]_poolVars

\* The types hold, and every job runs once.
JobsKept == PoolTypeOK /\ EveryJobOnce

\* A grant breaks neither a window nor a pause.
GrantsKept == WindowKept /\ PauseKept
=============================================================================
