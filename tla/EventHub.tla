------------------------------ MODULE EventHub ------------------------------
(***************************************************************************)
(* The broadcast hub of the server (src/serve_events.rs) and the            *)
(* connections of /api/events that read from it (stream_events in           *)
(* src/web_server.rs).  An event is the sequence number the hub gives it.   *)
(***************************************************************************)
EXTENDS Naturals, Sequences

CONSTANTS
    Clients,
    CAPACITY,
    MaxEvents        \* bound: events published

ASSUME HubAssumption == CAPACITY \in Nat \ {0} /\ MaxEvents \in Nat

VARIABLES
    events,          \* Ring.events, oldest first
    next,            \* Ring.next
    unnotified,      \* publishers between unlocking the ring and notify_all
    at,              \* each connection: away, running, or asleep in wait_timeout
    cursor,          \* Subscription.cursor
    since,           \* history: the cursor it subscribed with
    got,             \* history: what it was sent, in order
    told             \* history: the newest resync covers the events below this

ring    == <<events, next>>
history == <<since, got, told>>
vars    == <<ring, unnotified, at, cursor, history>>

TypeOK ==
    /\ events \in Seq(0..MaxEvents) /\ Len(events) <= CAPACITY
    /\ next \in 0..MaxEvents
    /\ unnotified \in 0..MaxEvents
    /\ at \in [Clients -> {"away", "running", "asleep"}]
    /\ cursor \in [Clients -> 0..MaxEvents]
    /\ since \in [Clients -> 0..MaxEvents]
    /\ got \in [Clients -> Seq(0..MaxEvents)]
    /\ told \in [Clients -> 0..MaxEvents]

Init ==
    /\ events = <<>> /\ next = 0
    /\ unnotified = 0
    /\ at = [c \in Clients |-> "away"]
    /\ cursor = [c \in Clients |-> 0]
    /\ since = [c \in Clients |-> 0]
    /\ got = [c \in Clients |-> <<>>]
    /\ told = [c \in Clients |-> 0]

-----------------------------------------------------------------------------
\* The buffer after a push, its oldest event dropped when it is over full.
Newest(s) == IF Len(s) > CAPACITY THEN Tail(s) ELSE s

\* Mutant: waiters are notified only of the first event in an empty buffer.
MutOwesNotify == events = <<>>

\* A publisher wakes the waiters, whatever the buffer held.
OwesNotify == TRUE

\* publish, up to the release of the lock.
Publish ==
    /\ next < MaxEvents
    /\ events' = Newest(Append(events, next))
    /\ next' = next + 1
    /\ unnotified' = IF OwesNotify THEN unnotified + 1 ELSE unnotified
    /\ UNCHANGED <<at, cursor, history>>

Woken == [c \in Clients |-> IF at[c] = "asleep" THEN "running" ELSE at[c]]

\* notify_all
Notify ==
    /\ unnotified > 0
    /\ unnotified' = unnotified - 1
    /\ at' = Woken
    /\ UNCHANGED <<ring, cursor, history>>

Subscribe(c) ==
    /\ at[c] = "away"
    /\ at' = [at EXCEPT ![c] = "running"]
    /\ cursor' = [cursor EXCEPT ![c] = next]
    /\ since' = [since EXCEPT ![c] = next]
    /\ got' = [got EXCEPT ![c] = <<>>]
    /\ told' = [told EXCEPT ![c] = 0]
    /\ UNCHANGED <<ring, unnotified>>

Oldest == IF events = <<>> THEN next ELSE Head(events)

\* Mutant: off by one.
MutLagged(c) == Oldest > cursor[c] + 1

Lagged(c) == Oldest > cursor[c]

After == next

\* The events recv's filter keeps: the buffer ascends, so they are the ones from its first
\* at or after the cursor on.
FromCursor(c) ==
    LET first == CHOOSE i \in 1..(Len(events) + 1) :
                    /\ \A j \in 1..(i - 1) : events[j] < cursor[c]
                    /\ i <= Len(events) => events[i] >= cursor[c]
    IN  SubSeq(events, first, Len(events))

\* recv finds events after the cursor; stream_events writes one frame of them, after
\* a resync if some were missed.
Receive(c) ==
    /\ at[c] = "running"
    /\ next > cursor[c]
    /\ got' = [got EXCEPT ![c] = @ \o FromCursor(c)]
    /\ told' = IF Lagged(c) THEN [told EXCEPT ![c] = Oldest] ELSE told
    /\ cursor' = [cursor EXCEPT ![c] = After]
    /\ UNCHANGED <<ring, unnotified, at, since>>

\* recv finds nothing and waits.
Wait(c) ==
    /\ at[c] = "running"
    /\ next <= cursor[c]
    /\ at' = [at EXCEPT ![c] = "asleep"]
    /\ UNCHANGED <<ring, unnotified, cursor, history>>

\* The wait times out; recv looks again before it returns an empty batch, and a
\* keepalive is written.
Timeout(c) ==
    /\ at[c] = "asleep"
    /\ at' = [at EXCEPT ![c] = "running"]
    /\ UNCHANGED <<ring, unnotified, cursor, history>>

\* A write failed, or the stream lasted EVENTS_STREAM_MAX.
Leave(c) ==
    /\ at[c] = "running"
    /\ at' = [at EXCEPT ![c] = "away"]
    /\ UNCHANGED <<ring, unnotified, cursor, history>>

Next ==
    \/ Publish
    \/ Notify
    \/ \E c \in Clients :
         Subscribe(c) \/ Receive(c) \/ Wait(c) \/ Timeout(c) \/ Leave(c)

Spec == Init /\ [][Next]_vars

\* Threads run; no wait is assumed to time out and no client to leave.
FairSpec ==
    Spec /\ WF_vars(Notify) /\ \A c \in Clients : WF_vars(Receive(c)) /\ WF_vars(Wait(c))

-----------------------------------------------------------------------------
\* "a consumer that falls behind that far is told it lagged ... rather than miss state
\* silently": whatever was published since a connection subscribed and before its
\* cursor was sent to it, or is covered by a resync.
NoSilentLoss ==
    \A c \in Clients :
        at[c] # "away" =>
            \A e \in since[c]..(cursor[c] - 1) :
                e < told[c] \/ \E i \in 1..Len(got[c]) : got[c][i] = e

\* A connection is sent each event at most once, in the order of publication.
InOrder == \A c \in Clients : \A i, j \in 1..Len(got[c]) : i < j => got[c][i] < got[c][j]

\* An event published while a connection waits reaches it without its wait timing
\* out: no wakeup is lost between unlocking the ring and notify_all.
Delivered ==
    \A c \in Clients : at[c] # "away" /\ next > cursor[c] ~> next = cursor[c] \/ at[c] = "away"

\* The types hold, and what a connection was sent is what was published since it
\* subscribed, in order and once, up to what it was told to fetch again.
StreamTrue == TypeOK /\ NoSilentLoss /\ InOrder
=============================================================================
