------------------------------- MODULE Queue -------------------------------
(***************************************************************************)
(* DS/Queue/Queue.c: a queue in an array of Size pointers.  Elements enter *)
(* at rear and leave at front, both of which move down and wrap from 0 to  *)
(* Size - 1.  When the queue is empty front and rear are the same slot,    *)
(* and the next element is stored there without moving either.             *)
(***************************************************************************)
EXTENDS Integers, Sequences

CONSTANTS
    Size,   \* Q_DEFAULT_SIZE
    Elem,   \* pointers that are enqueued
    Null    \* NULL: the content of an unused slot, and a refused call

ASSUME SizeAssumption == Size \in Nat \ {0}
ASSUME NullAssumption == Null \notin Elem

Index == 0..(Size - 1)

VARIABLES
    elem,   \* the array
    front,
    rear,
    count,
    ret     \* the last call and the element it put in or took out

qvars == <<elem, front, rear, count, ret>>

Result(call, val) == [call |-> call, val |-> val]

\* initQ.
QInit == /\ elem = [i \in Index |-> Null]
         /\ front = Size - 1
         /\ rear = Size - 1
         /\ count = 0
         /\ ret = Result("initQ", Null)

Empty == count = 0

\* Mutant: one element too many is let in.
FullLate == count > Size

Full == count = Size

\* Mutant: the wrap stops one short.
BelowShort(i) == IF i = 0 THEN Size - 2 ELSE i - 1

\* The slot below i.
Below(i) == IF i = 0 THEN Size - 1 ELSE i - 1

Store(i, e) == /\ elem' = [elem EXCEPT ![i] = e]
               /\ rear' = i
               /\ count' = count + 1
               /\ ret' = Result("enqueue", e)
               /\ UNCHANGED front

\* enqueue of a pointer that is not NULL.
EnqueueFull(e) == /\ Full
                  /\ ret' = Result("enqueue", Null)
                  /\ UNCHANGED <<elem, front, rear, count>>
EnqueueFirst(e) == ~Full /\ Empty /\ Store(rear, e)
EnqueueNext(e) == ~Full /\ ~Empty /\ Store(Below(rear), e)

\* enqueue of NULL: refused, whatever the queue holds.
EnqueueNull == /\ ret' = Result("enqueue_NULL", Null)
               /\ UNCHANGED <<elem, front, rear, count>>

\* deque.
DequeEmpty == /\ Empty
              /\ ret' = Result("deque", Null)
              /\ UNCHANGED <<elem, front, rear, count>>

Take == /\ ret' = Result("deque", elem[front])
        /\ elem' = [elem EXCEPT ![front] = Null]
        /\ count' = count - 1
        /\ UNCHANGED rear

\* Mutant: the last element is taken out like any other.
DequeLastMoves == ~Empty /\ front = rear /\ Take /\ front' = Below(front)

DequeLast == ~Empty /\ front = rear /\ Take /\ UNCHANGED front
DequeNext == ~Empty /\ front # rear /\ Take /\ front' = Below(front)

QNext == \/ \E e \in Elem : EnqueueFull(e) \/ EnqueueFirst(e) \/ EnqueueNext(e)
         \/ EnqueueNull
         \/ DequeEmpty
         \/ DequeLast
         \/ DequeNext

QSpec == QInit /\ [][QNext]_qvars

(***************************************************************************)
(* Properties.                                                             *)
(***************************************************************************)

\* Every variable stays in its set.
QTypeOK == /\ elem \in [Index -> Elem \cup {Null}]
           /\ front \in Index
           /\ rear \in Index
           /\ count \in 0..Size
           /\ ret \in [call : {"initQ", "enqueue", "enqueue_NULL", "deque"},
                       val : Elem \cup {Null}]

\* The slot of the k-th oldest element, counted from 0.
SlotOf(k) == IF k <= front THEN front - k ELSE front - k + Size

\* front, rear and count agree on which slots are in use, and just those hold
\* a pointer: print_Queue, which skips the NULL slots, shows the queue.
RingInv ==
    /\ rear = IF Empty THEN front ELSE SlotOf(count - 1)
    /\ \A i \in Index : elem[i] # Null <=> \E k \in 0..(count - 1) : i = SlotOf(k)

\* The queue is a bounded FIFO queue: every call returns what it should.
Contents == [k \in 1..count |-> elem[SlotOf(k - 1)]]
BQ == INSTANCE BoundedQueue WITH q <- Contents, Capacity <- Size, Refused <- Null
ImplementsBoundedQueue == BQ!BQSpec
=============================================================================
