---------------------------- MODULE MCStandbyBoot ----------------------------
(***************************************************************************)
(* Instance of StandbyBoot for TLC: two global objects, in this order.     *)
(***************************************************************************)
EXTENDS StandbyBoot

CONSTANTS g, h
MCOrder == <<g, h>>
=============================================================================
