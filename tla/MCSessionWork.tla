--------------------------- MODULE MCSessionWork ----------------------------
(* A small instance of SessionWork. *)
EXTENDS SessionWork, TLC

Interchangeable ==
    Permutations(Requests) \cup Permutations(Dims) \cup Permutations(Completions)
=============================================================================
