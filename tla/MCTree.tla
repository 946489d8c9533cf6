------------------------------- MODULE MCTree -------------------------------
(***************************************************************************)
(* An instance of Tree for TLC: trees of up to five nodes over a stack of  *)
(* four.                                                                   *)
(***************************************************************************)
EXTENDS Tree
=============================================================================
