-------------------------- MODULE MCPluginServer --------------------------
(* Small instances of PluginServer. *)
EXTENDS PluginServer, TLC

\* The projects are interchangeable, and so are the calls before they start.
Symmetry == Permutations(Calls) \cup Permutations(Projects)
===========================================================================
