---------------------------- MODULE MCHubAndPool ----------------------------
(***************************************************************************)
(* The event hub and the lookup pool share no state and call nothing of     *)
(* each other, so their interleavings show no more than each does alone:    *)
(* in a behaviour one of the two moves, `moving`, and the other stays in    *)
(* its first state.                                                         *)
(***************************************************************************)
EXTENDS EventHub, LookupPool

VARIABLE moving

Hub == moving = "hub" /\ UNCHANGED <<poolVars, moving>>
Pool == moving = "pool" /\ UNCHANGED <<vars, moving>>

BothInit ==
    /\ Init /\ PoolInit
    /\ \/ moving = "pool"
       \/ moving = "hub" /\ limit = 0 /\ call = "all"

BothNext == (Hub /\ Next) \/ (Pool /\ PoolNext)

both == <<vars, poolVars, moving>>

\* The fairness of EventHub and of LookupPool, for the one that moves.
BothSpec ==
    /\ BothInit /\ [][BothNext]_both
    /\ WF_both(Hub /\ Notify)
    /\ \A c \in Clients : WF_both(Hub /\ Receive(c)) /\ WF_both(Hub /\ Wait(c))
    /\ WF_both(Pool /\ Caller)
    /\ \A t \in Threads : WF_both(Pool /\ Thread(t))
    /\ WF_both(Pool /\ Tick)

\* The call returns although threads are refused, jobs panic and every request is
\* answered with a 429: retries are bounded and no sleep is for ever.
CallReturns == moving = "pool" ~> Returned
=============================================================================
