----------------------------- MODULE Directory -----------------------------
(***************************************************************************)
(* What the object database promises: a list of records, newest first,     *)
(* from which any record can be taken out, and a clean that takes out the  *)
(* dynamic ones, one at a time, and nothing else until it is done.         *)
(***************************************************************************)
EXTENDS Naturals, Sequences

CONSTANTS
    Rec,        \* records that can be registered
    Dynamic     \* Dynamic[r]: the object of record r is a heap object

VARIABLES list, cleaning

dirVars == <<list, cleaning>>

Without(s, i) == SubSeq(s, 1, i - 1) \o SubSeq(s, i + 1, Len(s))

DirInit == list = <<>> /\ cleaning = FALSE

Register(r) ==
    /\ ~cleaning
    /\ \A i \in 1..Len(list) : list[i] # r
    /\ list' = <<r>> \o list
    /\ UNCHANGED cleaning

Unregister(i) ==
    /\ cleaning => Dynamic[list[i]]
    /\ list' = Without(list, i)
    /\ UNCHANGED cleaning

CleanBegin == ~cleaning /\ cleaning' = TRUE /\ UNCHANGED list

CleanEnd ==
    /\ cleaning
    /\ \A i \in 1..Len(list) : ~Dynamic[list[i]]
    /\ cleaning' = FALSE
    /\ UNCHANGED list

DirNext ==
    \/ \E r \in Rec : Register(r)
    \/ \E i \in 1..Len(list) : Unregister(i)
    \/ CleanBegin
    \/ CleanEnd

DirSpec == DirInit /\ [][DirNext]_dirVars
=============================================================================
