---------------------------- MODULE MCCheckpoint ----------------------------
(***************************************************************************)
(* Instances of Checkpoint for TLC: one global object and two heap         *)
(* addresses.                                                              *)
(***************************************************************************)
EXTENDS Checkpoint, TLC

\* Addresses only matter by their identity.
Symmetry == Permutations(Heap)
=============================================================================
