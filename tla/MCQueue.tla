------------------------------ MODULE MCQueue ------------------------------
(***************************************************************************)
(* Instance of Queue for TLC; it adds nothing to the specification.        *)
(***************************************************************************)
EXTENDS Queue
=============================================================================
