------------------------------ MODULE HeapSync ------------------------------
(***************************************************************************)
(* What a bulk sync promises, without saying how the object graph is       *)
(* walked: the start fixes a graph, the objects that are not hidden, and   *)
(* until the commit every object of it that is reachable from a            *)
(* static object is sent exactly once, nothing else is sent, and an object *)
(* is sent only after the objects it points to, unless it is itself        *)
(* reachable from the one that is missing (a cycle cannot be ordered).     *)
(* tha_sync.c:946-951 and 1014 state this of tha_bulk_sync.                *)
(***************************************************************************)
EXTENDS HeapGraph

CONSTANT Obj

VARIABLES roots,    \* the static objects to start from
          succ,     \* succ[o]: objects to visit that o points to
          synced,   \* objects sent by the bulk sync in progress
          mode      \* "app": the application runs, "scan": bulk sync in
                    \* progress, "crashed": the process is gone

hsVars == <<roots, succ, synced, mode>>

HSInit == /\ roots = {}
          /\ succ = [o \in Obj |-> {}]
          /\ synced = {}
          /\ mode = "app"

\* The application changes its heap; never while a bulk sync runs.
Mutate == /\ mode = "app"
          /\ roots' \in SUBSET Obj
          /\ succ' \in [Obj -> SUBSET Obj]
          /\ UNCHANGED <<synced, mode>>

\* Some objects may be hidden from this sync, which the graph then leaves out.
Begin == /\ mode = "app"
         /\ mode' = "scan"
         /\ synced' = {}
         /\ roots' \in SUBSET Obj
         /\ succ' \in [Obj -> SUBSET Obj]

Send(o) == /\ mode = "scan"
           /\ o \in ReachableFrom(roots, succ) \ synced
           /\ \A t \in succ[o] : t \in synced \/ Reaches(t, o, succ)
           /\ synced' = synced \cup {o}
           /\ UNCHANGED <<roots, succ, mode>>

Commit == /\ mode = "scan"
          /\ synced = ReachableFrom(roots, succ)
          /\ mode' = "app"
          /\ synced' = {}
          /\ UNCHANGED <<roots, succ>>

Crash == /\ mode = "scan"
         /\ mode' = "crashed"
         /\ UNCHANGED <<roots, succ, synced>>

HSNext == Mutate \/ Begin \/ (\E o \in Obj : Send(o)) \/ Commit \/ Crash

HSSpec == HSInit /\ [][HSNext]_hsVars
=============================================================================
