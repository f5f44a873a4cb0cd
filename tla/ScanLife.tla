------------------------------- MODULE ScanLife -------------------------------
(***************************************************************************)
(* What the scan service promises of a saved scan, without its threads,     *)
(* locks, places, faults or restarts: the contract the comments of          *)
(* src/scan_service.rs and src/scan_store.rs give their clients.            *)
(*                                                                         *)
(* A scan is created active, may be asked to stop, ends once, and ends      *)
(* finished only if nobody's stop came first and its final results are      *)
(* saved; an end is kept until somebody asks for the scan to be removed.    *)
(***************************************************************************)
CONSTANT Scans

VARIABLES
    life,   \* what a client reads of the scan
    saved   \* whether its final results can be read

Lives == {"none", "active", "asked", "finished", "unfinished", "removing"}

Init ==
    /\ life = [s \in Scans |-> "none"]
    /\ saved = [s \in Scans |-> FALSE]

Becomes(s, from, to) ==
    /\ life[s] \in from
    /\ life' = [life EXCEPT ![s] = to]

Create(s) == Becomes(s, {"none"}, "active") /\ UNCHANGED saved

\* The service had no thread to give it and says so at once.
CreateRefused(s) == Becomes(s, {"none"}, "unfinished") /\ UNCHANGED saved

Save(s) ==
    /\ life[s] \in {"active", "asked"}
    /\ saved' = [saved EXCEPT ![s] = TRUE]
    /\ UNCHANGED life

AskToStop(s) == Becomes(s, {"active"}, "asked") /\ UNCHANGED saved

\* Whoever was asked to stop does not finish.
Finish(s) == saved[s] /\ Becomes(s, {"active"}, "finished") /\ UNCHANGED saved

\* Stopped, failed, or found by a later process.
GiveUp(s) == Becomes(s, {"active", "asked"}, "unfinished") /\ UNCHANGED saved

\* From here on the scan may be read half removed, or not at all.
Remove(s) ==
    /\ life[s] # "none" /\ Becomes(s, Lives, "removing")
    /\ saved' = [saved EXCEPT ![s] = FALSE]

Next ==
    \E s \in Scans :
        \/ Create(s) \/ CreateRefused(s) \/ Save(s) \/ AskToStop(s)
        \/ Finish(s) \/ GiveUp(s) \/ Remove(s)

Spec == Init /\ [][Next]_<<life, saved>>
=============================================================================
