----------------------------- MODULE GraphOrder -----------------------------
(***************************************************************************)
(* GraphDefinition::validate (src/graph_exec.rs): which dependency graphs    *)
(* are refused, and the order GraphExec runs the others in.  A task is its   *)
(* place in the alphabetical order of the ids.  Its dependencies are a set:  *)
(* validate refuses a list that names one twice.  The limits on the size and *)
(* form of a task's other fields are left out.                               *)
(***************************************************************************)
EXTENDS Naturals, Sequences, FiniteSets

CONSTANTS
    N,           \* the tasks are 1..N
    Unknown      \* names of no task

ASSUME OrderAssumption == N \in Nat \ {0} /\ Unknown \cap (1..N) = {} /\ IsFiniteSet(Unknown)

Tasks == 1..N

VARIABLES
    deps,        \* TaskSpec.dependencies
    verdict,     \* not reached yet, or validate's answer
    indegree,
    ready,
    order

orderVars == <<deps, verdict, indegree, ready, order>>

TypeOK ==
    /\ deps \in [Tasks -> SUBSET (Tasks \cup Unknown)]
    /\ verdict \in {"checking", "sorting", "malformed", "cycle", "accepted"}
    /\ indegree \in [Tasks -> Nat]
    /\ ready \subseteq Tasks
    /\ order \in Seq(Tasks)

OrderInit ==
    /\ deps \in [Tasks -> SUBSET (Tasks \cup Unknown)]
    /\ verdict = "checking"
    /\ indegree = [t \in Tasks |-> 0]
    /\ ready = {}
    /\ order = <<>>

-----------------------------------------------------------------------------
\* A task depends on itself or on a task that is not there.
Malformed == \E t \in Tasks : t \in deps[t] \/ deps[t] \cap Unknown # {}

Refuse ==
    /\ verdict = "checking"
    /\ Malformed
    /\ verdict' = "malformed"
    /\ UNCHANGED <<deps, indegree, ready, order>>

\* Mutant: one dependency is not counted.
MutWaits(t) == IF deps[t] = {} THEN 0 ELSE Cardinality(deps[t]) - 1

Waits(t) == Cardinality(deps[t])

Begin ==
    /\ verdict = "checking"
    /\ ~Malformed
    /\ verdict' = "sorting"
    /\ indegree' = [t \in Tasks |-> Waits(t)]
    /\ ready' = {t \in Tasks : Waits(t) = 0}
    /\ UNCHANGED <<deps, order>>

\* ready.pop_first()
Popped == CHOOSE t \in ready : \A u \in ready : t <= u

\* Mutant: a dependent is released one dependency early.
MutReleased(t) == indegree[t] <= 2

\* The task loses its last dependency.
Released(t) == indegree[t] = 1

Pop ==
    /\ verdict = "sorting"
    /\ ready # {}
    /\ LET children == {t \in Tasks : Popped \in deps[t]}
       IN  /\ order' = Append(order, Popped)
           /\ indegree' = [t \in Tasks |-> IF t \in children THEN indegree[t] - 1
                                                             ELSE indegree[t]]
           /\ ready' = (ready \ {Popped}) \cup {t \in children : Released(t)}
    /\ UNCHANGED <<deps, verdict>>

\* Mutant: a cycle is looked for only when nothing was ordered.
MutSorted == order # <<>>

Sorted == Len(order) = N

End ==
    /\ verdict = "sorting"
    /\ ready = {}
    /\ verdict' = IF Sorted THEN "accepted" ELSE "cycle"
    /\ UNCHANGED <<deps, indegree, ready, order>>

Done == verdict \in {"malformed", "cycle", "accepted"} /\ UNCHANGED orderVars

OrderNext == Refuse \/ Begin \/ Pop \/ End \/ Done

OrderSpec == OrderInit /\ [][OrderNext]_orderVars

-----------------------------------------------------------------------------
Placed == {order[i] : i \in 1..Len(order)}

\* What the loop maintains: indegree counts the dependencies not yet ordered, so it is
\* never decremented below zero, and ready holds exactly the tasks that wait for none.
Counted ==
    verdict \in {"sorting", "cycle", "accepted"} =>
        /\ \A t \in Tasks : indegree[t] = Cardinality(deps[t] \ Placed)
        /\ ready = {t \in Tasks \ Placed : deps[t] \subseteq Placed}

\* Every task comes after all its dependencies, and once: GraphExec's scan of the
\* order meets a dependency before its dependents.
DependenciesOrdered ==
    \A i \in 1..Len(order) :
        /\ deps[order[i]] \subseteq {order[j] : j \in 1..(i - 1)}
        /\ \A j \in 1..(i - 1) : order[j] # order[i]

\* The reference: no set of tasks each of which depends on another of the set.
Acyclic ==
    ~ \E S \in (SUBSET Tasks) \ {{}} : \A t \in S : deps[t] \cap S # {}

\* A graph is refused as cyclic exactly when it is, and an accepted order holds
\* every task.
CycleFound ==
    /\ verdict = "cycle" => ~Acyclic
    /\ verdict = "accepted" => Acyclic /\ Placed = Tasks
=============================================================================
