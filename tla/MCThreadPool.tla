---------------------------- MODULE MCThreadPool ----------------------------
(***************************************************************************)
(* Instance of ThreadPool for TLC: ids 0 and 1, which a pool of two slots  *)
(* accepts, the second one twice, and 2, which it does not.                *)
(***************************************************************************)
EXTENDS ThreadPool, TLC

CONSTANTS a, b, c, d
MCSelfId == (a :> 0) @@ (b :> 1) @@ (c :> 2) @@ (d :> 1)
=============================================================================
