------------------------------- MODULE MCWire -------------------------------
(***************************************************************************)
(* An instance of Wire for TLC: a structure with a pointer and an embedded *)
(* structure whose pointer is not its last field.                          *)
(***************************************************************************)
EXTENDS Wire

MCFields == <<"PTR", "EMB">>
MCInner == <<"PTR", "DATA">>
=============================================================================
