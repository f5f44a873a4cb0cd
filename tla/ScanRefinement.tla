--------------------------- MODULE ScanRefinement ---------------------------
(***************************************************************************)
(* ScanService implements ScanLife.                                         *)
(***************************************************************************)
EXTENDS ScanService

\* What a client reads of a scan.  A stop counts from its delivery, although the
\* request itself may fail to be saved; a removal counts from delete()'s last check.
LifeOf(s) ==
    IF deleting[s] # "no" THEN "removing"
    ELSE IF row[s] = "NONE" THEN "none"
    ELSE IF row[s] = "FINISHED" THEN "finished"
    ELSE IF row[s] \in EndedStatus THEN "unfinished"
    ELSE IF s \in stopped THEN "asked"
    ELSE "active"

Life == INSTANCE ScanLife WITH
    life <- [s \in Scans |-> LifeOf(s)],
    saved <- [s \in Scans |-> deleting[s] = "no" /\ results[s] = "final"]

\* Through workers, stops, faults, crashes, recovery and deletion a client sees nothing
\* but a scan's life: it ends once, never as FINISHED after a delivered stop or
\* without its final results, and neither a late stop nor a later process's sweep
\* changes how it ended.
ImplementsLife == Life!Spec
=============================================================================
