---------------------------- MODULE MCGraphExec ----------------------------
(* A small task graph for GraphExec. *)
EXTENDS GraphExec

\* a and b write the same file, c waits for both, d for a; a and c ask one provider, a
\* with a retry, and d costs more than is left beside b.
FourTasks == {"a", "b", "c", "d"}
FourInOrder == <<"a", "b", "c", "d">>
JoinDeps ==
    [t \in FourTasks |-> CASE t = "c" -> {"a", "b"} [] t = "d" -> {"a"} [] OTHER -> {}]
JoinUnits == [t \in FourTasks |-> IF t = "d" THEN 3 ELSE 1]
JoinFile == [t \in FourTasks |-> IF t \in {"a", "b"} THEN {"file"} ELSE {}]
JoinProvider == [t \in FourTasks |-> IF t \in {"a", "c"} THEN "provider" ELSE NoKey]
JoinRetry == [t \in FourTasks |-> IF t = "a" THEN 1 ELSE 0]
=============================================================================
