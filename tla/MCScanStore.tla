---------------------------- MODULE MCScanStore ----------------------------
\* Instances of ScanStore.
EXTENDS ScanStore, TLC

CONSTANTS p1, p2, p3, c1, c2, c3, c4

\* Three processes, of which the first and the third have one id in turn.  The first has
\* two threads; the third may be hidden from the second.
ReusedPid == (p1 :> 1) @@ (p2 :> 2) @@ (p3 :> 1)
AllSeen == [p \in Procs |-> Procs]
HiddenFrom2 == (p1 :> Procs) @@ (p2 :> {p1, p2}) @@ (p3 :> Procs)
Threads == (c1 :> p1) @@ (c2 :> p1) @@ (c3 :> p2) @@ (c4 :> p3)
MainThread == (p1 :> c1) @@ (p2 :> c3) @@ (p3 :> c4)

\* The third process comes only to a store that holds more than its limit.
LateThird == p3 \in ran' \ ran => Cardinality(dirs) > MAX_SCANS

\* Two processes, the first with two threads.
PidsOfTwo == (p1 :> 1) @@ (p2 :> 2)
ThreadsOfTwo == (c1 :> p1) @@ (c2 :> p1) @@ (c3 :> p2)
MainOfTwo == (p1 :> c1) @@ (p2 :> c3)

ScanIds == Permutations(Scans)
=============================================================================
