--------------------------- MODULE MCBuildSession ---------------------------
(* Instances of BuildSession for TLC.                                      *)
EXTENDS BuildSession, TLC

CONSTANTS root1

\* Every scope belongs to the same project.
OneRoot == [s \in Scopes |-> root1]

\* Requests, records and items are interchangeable; no liveness run uses this.
Interchangeable == Permutations(Requests) \cup Permutations(Recs) \cup Permutations(Items)
=============================================================================
