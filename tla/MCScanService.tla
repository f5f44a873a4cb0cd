---------------------------- MODULE MCScanService ----------------------------
(* Small instances of ScanService: interchangeable scans of one request.     *)
EXTENDS ScanRefinement, TLC

\* Every scan is for the same request, so any two of them could be joined.
OneTarget == [s \in Scans |-> "target"]

Symmetry == Permutations(Scans)
=============================================================================
