---------------------------- MODULE MCBulkSync ----------------------------
(***************************************************************************)
(* Instances of BulkSync for TLC.  g is a global object, x and y are heap  *)
(* objects; every object has two fields.                                   *)
(***************************************************************************)
EXTENDS BulkSync, TLC

CONSTANTS g, x, y,
          Gtypes, Xtypes, Ytypes  \* field types of the three objects

MCObj == {g, x, y}
MCStatic == {g}
MCDtype == g :> Gtypes @@ x :> Xtypes @@ y :> Ytypes
\* Every kind of pointer is in an OBJ_PTR and in a VOID_PTR.
MCStores == g :> Values @@ x :> Values \ {NotTha} @@ y :> Values \ {Foreign}

\* Field types of the instances.
VoidObj == <<"VOID_PTR", "OBJ_PTR">>
ObjData == <<"OBJ_PTR", "DATA">>
VoidData == <<"VOID_PTR", "DATA">>
=============================================================================
