-------------------------- MODULE MCStagingSweep --------------------------
(* A small instance of StagingSweep. *)
EXTENDS StagingSweep, TLC

CONSTANTS i1, i2

\* The first driver can have more to do than Cap, the last one less.
Work == [promote |-> {i1, i2}, timeouts |-> {}, proposals |-> {}, decay |-> {i1}]
===========================================================================
