---------------------------- MODULE BoundedQueue ----------------------------
(***************************************************************************)
(* What DS/Queue promises: a first-in first-out queue of at most Capacity  *)
(* pointers.  A call on a full or an empty queue is refused and changes    *)
(* nothing.                                                                *)
(***************************************************************************)
EXTENDS Naturals, Sequences

CONSTANTS Elem, Capacity, Refused

VARIABLES
    q,      \* the elements, oldest first
    ret     \* the last call and its result

bqVars == <<q, ret>>

Result(call, val) == [call |-> call, val |-> val]

BQInit == q = <<>> /\ ret = Result("initQ", Refused)

Put(e) == IF Len(q) < Capacity
          THEN q' = Append(q, e) /\ ret' = Result("enqueue", e)
          ELSE q' = q /\ ret' = Result("enqueue", Refused)

\* NULL is never an element.
PutNull == q' = q /\ ret' = Result("enqueue_NULL", Refused)

Get == IF q # <<>>
       THEN q' = Tail(q) /\ ret' = Result("deque", Head(q))
       ELSE q' = q /\ ret' = Result("deque", Refused)

BQNext == (\E e \in Elem : Put(e)) \/ PutNull \/ Get

BQSpec == BQInit /\ [][BQNext]_bqVars
=============================================================================
