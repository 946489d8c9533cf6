--------------------------- MODULE MCReplication ---------------------------
(***************************************************************************)
(* Instances of Replication for TLC: at most one global object, and one or *)
(* two heap addresses.                                                     *)
(***************************************************************************)
EXTENDS Replication
=============================================================================
