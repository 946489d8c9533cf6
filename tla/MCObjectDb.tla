----------------------------- MODULE MCObjectDb -----------------------------
(***************************************************************************)
(* Instance of ObjectDb for TLC: records of global and of heap objects, in *)
(* any order.                                                              *)
(***************************************************************************)
EXTENDS ObjectDb

CONSTANTS StaticRec, DynRec

MCRec == StaticRec \cup DynRec
MCDynamic == [r \in MCRec |-> r \in DynRec]
=============================================================================
