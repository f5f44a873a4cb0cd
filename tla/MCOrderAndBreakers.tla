------------------------- MODULE MCOrderAndBreakers -------------------------
(***************************************************************************)
(* Every dependency graph of three tasks with one name that no task has, in *)
(* one kind of behaviour, and few hosts and fetches with short cooldowns in *)
(* the other.  The two parts share no state: one of them moves, `moving`,   *)
(* and the other stays in a first state.                                    *)
(***************************************************************************)
EXTENDS GraphOrder, CircuitBreaker

VARIABLE moving

Sorting == moving = "order" /\ UNCHANGED <<vars, moving>>
Fetching == moving = "breakers" /\ UNCHANGED <<orderVars, moving>>

BothInit ==
    /\ OrderInit /\ Init
    /\ moving \in {"order", "breakers"}
    /\ moving = "breakers" => \A t \in Tasks : deps[t] = {}

BothNext == (Sorting /\ OrderNext) \/ (Fetching /\ Next)

BothSpec == BothInit /\ [][BothNext]_<<orderVars, vars, moving>>

Symmetry == Permutations(Hosts) \cup Permutations(Fetches)
=============================================================================
