----------------------------- MODULE RateLimiter -----------------------------
(***************************************************************************)
(* The sliding-window request budget of src/rate_limit.rs, one per keyed    *)
(* provider and process.  The actions are what a thread does in one section *)
(* under the `state` mutex; which thread does it, and what it does next, is *)
(* its caller's (LookupPool).                                               *)
(*                                                                         *)
(* Instants are kept relative to now: an entry of `sent` is the age of that *)
(* send, capped at Window, and blocked is the time blocked_until is away,   *)
(* 0 when it is None or past.                                               *)
(***************************************************************************)
EXTENDS Naturals, Sequences

CONSTANTS
    Window,          \* RateLimiter.window
    InitialLimits,   \* limits the process may start with, 0 for none
    PlanLimits,      \* limits a subscription answer may set
    RetryAfters,     \* pauses a 429 may ask for
    MAX_RETRY_AFTER  \* fetch::MAX_RETRY_AFTER_SECS

ASSUME LimiterParameters ==
    /\ Window \in Nat \ {0} /\ MAX_RETRY_AFTER \in Nat
    /\ InitialLimits \subseteq Nat /\ PlanLimits \subseteq Nat \ {0}
    /\ RetryAfters \subseteq Nat

VARIABLES
    limit,    \* RateLimiter.limit
    sent,     \* State.sent, oldest first
    blocked,  \* State.blocked_until
    recent,   \* history: ages of the sends granted under a limit, Window old at most
    pause     \* history: time left of the longest pause a 429 asked for

limiter == <<limit, sent, blocked, recent, pause>>

Least(a, b) == IF a < b THEN a ELSE b
Most(a, b) == IF a < b THEN b ELSE a

LimiterTypeOK ==
    /\ limit \in InitialLimits \cup PlanLimits
    /\ sent \in Seq(0..Window) /\ recent \in Seq(0..Window)
    /\ blocked \in 0..MAX_RETRY_AFTER /\ pause \in 0..MAX_RETRY_AFTER

LimiterInit ==
    /\ limit \in InitialLimits
    /\ sent = <<>> /\ blocked = 0
    /\ recent = <<>> /\ pause = 0

-----------------------------------------------------------------------------

\* The first entry, from the oldest on, that is still in the window.
FirstInWindow(ages) ==
    CHOOSE i \in 1..(Len(ages) + 1) :
        /\ \A j \in 1..(i - 1) : ages[j] >= Window
        /\ i <= Len(ages) => ages[i] < Window

\* What is left of the window once the entries that left it are popped from the front.
InWindow(ages) == SubSeq(ages, FirstInWindow(ages), Len(ages))

\* A server block with more than max_wait left is not sat out: Err(remaining).
Refused(max_wait) == blocked > max_wait

\* A shorter server block is slept out.
Held(max_wait, nap) == 0 < blocked /\ blocked <= max_wait /\ nap = blocked

\* The window is spent: sleep until its oldest entry leaves it.
Spent(nap) ==
    /\ blocked = 0 /\ limit # 0
    /\ Len(InWindow(sent)) >= limit
    /\ nap = Window - Head(InWindow(sent))

\* A send may go now.
Free == blocked = 0 /\ (limit = 0 \/ Len(InWindow(sent)) < limit)

\* Ok(()): under a limit the send is recorded.
Grant ==
    /\ Free
    /\ sent' = IF limit = 0 THEN sent ELSE Append(InWindow(sent), 0)
    /\ recent' = IF limit = 0 THEN recent ELSE Append(recent, 0)
    /\ UNCHANGED <<limit, blocked, pause>>

\* A turn of the loop that grants nothing still pops the entries that left the window,
\* unless a block or no limit ends the turn before that.
NoGrant ==
    /\ sent' = IF blocked > 0 \/ limit = 0 THEN sent ELSE InWindow(sent)
    /\ UNCHANGED <<limit, blocked, recent, pause>>

\* block_for: the later end of the two pauses stands.
BlockFor(d) ==
    LET capped == Least(d, MAX_RETRY_AFTER) IN
    /\ blocked' = Most(blocked, capped)
    /\ pause' = Most(pause, capped)
    /\ UNCHANGED <<limit, sent, recent>>

\* A defect: a new plan starts with an empty window.
MutSetLimit(n) == limit' = n /\ sent' = <<>> /\ UNCHANGED <<blocked, recent, pause>>

\* set_limit: the timestamps are retained.
SetLimit(n) == limit' = n /\ UNCHANGED <<sent, blocked, recent, pause>>

\* Time passes.
Older(ages) == [i \in DOMAIN ages |-> Least(ages[i] + 1, Window)]
Sooner(left) == IF left = 0 THEN 0 ELSE left - 1

LimiterTick ==
    /\ sent' = Older(sent)
    /\ recent' = InWindow(Older(recent))
    /\ blocked' = Sooner(blocked)
    /\ pause' = Sooner(pause)
    /\ UNCHANGED limit
=============================================================================
