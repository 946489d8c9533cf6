----------------------------- MODULE HeapGraph -----------------------------
(***************************************************************************)
(* The application heap as a graph: the nodes are registered objects and   *)
(* succ[o] is the set of registered objects that a pointer field of o      *)
(* refers to.  Reachability is defined by closed sets instead of paths, so *)
(* that TLC can evaluate it and the provers need no induction to use it.   *)
(***************************************************************************)

\* S is closed: no pointer of a member of S leaves S.
Closed(S, succ) == \A o \in S : succ[o] \subseteq S

\* The objects reachable from R: those that no closed superset of R leaves out.
ReachableFrom(R, succ) ==
    {o \in DOMAIN succ : \A C \in SUBSET DOMAIN succ :
                            (R \subseteq C /\ Closed(C, succ)) => o \in C}

\* There is a chain of zero or more pointers from a to b.
Reaches(a, b, succ) == b \in ReachableFrom({a}, succ)
=============================================================================
