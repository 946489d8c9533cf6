--------------------------- MODULE Library_proofs ---------------------------
(***************************************************************************)
(* Proofs about the libraries that stand on their own.                     *)
(*                                                                         *)
(* Queue, for every size and every set of elements: the indices always     *)
(* describe the queue, and the array implements the bounded first-in       *)
(* first-out queue of BoundedQueue.                                        *)
(*                                                                         *)
(* ThreadPool, for any number of threads, any ids and any size of the      *)
(* pool: its invariants.                                                   *)
(*                                                                         *)
(* Tree, for any number of nodes, any values and any size of the stack:    *)
(* the tree stays a search tree, removeHalfNodes removes what it should,   *)
(* and the traversals with a stack agree with the recursive ones and stay  *)
(* within their arrays.                                                    *)
(***************************************************************************)
EXTENDS Queue, ThreadPool, Tree, SequenceTheorems, FiniteSetTheorems, WellFoundedInduction, TLAPS

(***************************************************************************)
(* The queue.                                                              *)
(***************************************************************************)

QInv == QTypeOK /\ RingInv

(***************************************************************************)
(* Arithmetic of the ring.                                                 *)
(***************************************************************************)

\* The k-th slot is a slot of the array.
LEMMA SlotInIndex ==
    ASSUME QTypeOK, NEW k \in 0..(Size - 1) PROVE SlotOf(k) \in Index
  BY SizeAssumption DEF QTypeOK, SlotOf, Index

\* Different elements are in different slots.
LEMMA SlotInjective ==
    ASSUME QTypeOK, NEW j \in 0..(Size - 1), NEW k \in 0..(Size - 1), SlotOf(j) = SlotOf(k)
    PROVE  j = k
  BY SizeAssumption DEF QTypeOK, SlotOf, Index

\* Below is the slot of the next element.
LEMMA BelowSlot ==
    ASSUME QTypeOK, NEW k \in 0..(Size - 1), k + 1 <= Size - 1
    PROVE  Below(SlotOf(k)) = SlotOf(k + 1)
  BY SizeAssumption DEF QTypeOK, SlotOf, Index, Below

\* When front moves down, every element keeps its slot and is one place nearer
\* to the front.
LEMMA SlotAfterDeque ==
    ASSUME QTypeOK, front' = Below(front), NEW k \in 0..(Size - 2)
    PROVE  SlotOf(k)' = SlotOf(k + 1)
  BY SizeAssumption DEF QTypeOK, SlotOf, Index, Below

\* rear is the slot of the youngest element.
LEMMA RearSlot ==
    ASSUME QTypeOK, RingInv, ~Empty
    PROVE  /\ rear = SlotOf(count - 1)
           /\ count \in 1..Size
           /\ count - 1 \in 0..(Size - 1)
  BY SizeAssumption DEF QTypeOK, RingInv, Empty

\* The oldest element is at front.
LEMMA FrontSlot == ASSUME QTypeOK PROVE SlotOf(0) = front
  BY DEF QTypeOK, SlotOf, Index

\* Front and rear are the same slot just when there is one element.
LEMMA LastElement ==
    ASSUME QTypeOK, RingInv, ~Empty
    PROVE  front = rear <=> count = 1
  <1>1. rear = SlotOf(count - 1) /\ count - 1 \in 0..(Size - 1) /\ count \in 1..Size
    BY RearSlot
  <1>2. front = SlotOf(0) /\ 0 \in 0..(Size - 1)
    BY FrontSlot, SizeAssumption
  <1>3. front = rear => count - 1 = 0
    BY <1>1, <1>2, SlotInjective
  <1> QED BY <1>1, <1>2, <1>3

(***************************************************************************)
(* Sequences given as functions.                                           *)
(***************************************************************************)

\* A function that continues s with e is s with e appended.
LEMMA AppendedFunction ==
    ASSUME NEW S, NEW s \in Seq(S), NEW e \in S,
           NEW t \in [1..(Len(s) + 1) -> S],
           \A k \in 1..(Len(s) + 1) : t[k] = IF k <= Len(s) THEN s[k] ELSE e
    PROVE  t = Append(s, e)
  <1>1. Len(s) \in Nat
    BY LenProperties
  <1>2. t \in Seq(S) /\ Len(t) = Len(s) + 1
    BY <1>1
  <1>3. /\ Append(s, e) \in Seq(S)
        /\ Len(Append(s, e)) = Len(s) + 1
        /\ \A k \in 1..(Len(s) + 1) :
              Append(s, e)[k] = IF k <= Len(s) THEN s[k] ELSE e
    BY <1>1
  <1>4. \A k \in 1..Len(t) : t[k] = Append(s, e)[k]
    BY <1>2, <1>3
  <1> QED BY <1>2, <1>3, <1>4, SeqEqual

\* A function that is s moved down by one is the tail of s.
LEMMA TailFunction ==
    ASSUME NEW S, NEW s \in Seq(S), s # <<>>,
           NEW t \in [1..(Len(s) - 1) -> S],
           \A k \in 1..(Len(s) - 1) : t[k] = s[k + 1]
    PROVE  t = Tail(s)
  <1>1. Len(s) \in Nat \ {0}
    BY EmptySeq
  <1>2. t \in Seq(S) /\ Len(t) = Len(s) - 1
    BY <1>1
  <1>3. /\ Tail(s) \in Seq(S)
        /\ Len(Tail(s)) = Len(s) - 1
        /\ \A k \in 1..Len(Tail(s)) : Tail(s)[k] = s[k + 1]
    BY HeadTailProperties
  <1> QED BY <1>2, <1>3, SeqEqual

\* The abstract queue, as a sequence.
LEMMA ContentsSeq ==
    ASSUME QInv
    PROVE  /\ Contents \in Seq(Elem \cup {Null})
           /\ Len(Contents) = count
           /\ \A k \in 1..count : Contents[k] = elem[SlotOf(k - 1)]
           /\ Empty <=> Contents = <<>>
  <1>1. count \in Nat /\ Size \in Nat /\ count <= Size
    BY SizeAssumption DEF QInv, QTypeOK
  <1>2. ASSUME NEW k \in 1..count PROVE elem[SlotOf(k - 1)] \in Elem \cup {Null}
    <2>1. k - 1 \in 0..(Size - 1)
      BY <1>1
    <2>2. SlotOf(k - 1) \in Index
      BY <2>1, SlotInIndex DEF QInv
    <2> QED BY <2>2 DEF QInv, QTypeOK
  <1>3. Contents \in [1..count -> Elem \cup {Null}]
    BY <1>2 DEF Contents
  <1>4. Contents \in Seq(Elem \cup {Null}) /\ Len(Contents) = count
    BY <1>1, <1>3
  <1>5. Empty <=> Contents = <<>>
    BY <1>1, <1>4, EmptySeq DEF Empty
  <1> QED BY <1>4, <1>5 DEF Contents

(***************************************************************************)
(* Where the next element goes: the slot of place count, which is free.    *)
(***************************************************************************)

LEMMA EnqueueSlot ==
    ASSUME QTypeOK, RingInv, ~Full,
           NEW i, i = IF Empty THEN rear ELSE Below(rear)
    PROVE  /\ count \in 0..(Size - 1)
           /\ i = SlotOf(count)
           /\ i \in Index
           /\ \A k \in 0..(count - 1) : i # SlotOf(k)
  <1>1. count \in 0..(Size - 1) /\ Size \in Nat
    BY SizeAssumption DEF QTypeOK, Full
  <1>2. i = SlotOf(count)
    <2>1. CASE Empty
      BY <2>1, FrontSlot DEF RingInv, Empty
    <2>2. CASE ~Empty
      <3>1. rear = SlotOf(count - 1) /\ count - 1 \in 0..(Size - 1)
        BY <2>2, RearSlot
      <3>2. (count - 1) + 1 = count /\ (count - 1) + 1 <= Size - 1
        BY <1>1
      <3> QED BY <2>2, <3>1, <3>2, BelowSlot
    <2> QED BY <2>1, <2>2
  <1>3. \A k \in 0..(count - 1) : i # SlotOf(k)
    <2> SUFFICES ASSUME NEW k \in 0..(count - 1), i = SlotOf(k) PROVE FALSE
      OBVIOUS
    <2>1. k \in 0..(Size - 1)
      BY <1>1
    <2>2. k = count
      BY <1>1, <1>2, <2>1, SlotInjective
    <2> QED BY <1>1, <2>2
  <1> QED BY <1>1, <1>2, <1>3, SlotInIndex

\* What storing an element does, whichever of the two cases of enqueue it is.
LEMMA StoreStep ==
    ASSUME QInv, ~Full, NEW e \in Elem,
           Store(IF Empty THEN rear ELSE Below(rear), e)
    PROVE  QInv' /\ Contents' = Append(Contents, e)
  <1> DEFINE i == IF Empty THEN rear ELSE Below(rear)
  <1>1. /\ count \in 0..(Size - 1)
        /\ i = SlotOf(count)
        /\ i \in Index
        /\ \A k \in 0..(count - 1) : i # SlotOf(k)
        /\ Size \in Nat
        /\ count \in Nat
    BY EnqueueSlot, SizeAssumption DEF QInv
  <1>2. /\ elem' = [elem EXCEPT ![i] = e] /\ rear' = i /\ count' = count + 1
        /\ front' = front /\ ret' = Result("enqueue", e)
    BY DEF Store
  <1> HIDE DEF i
  <1>3. QTypeOK'
    BY <1>1, <1>2, SizeAssumption DEF QInv, QTypeOK, Result
  <1>4. \A k \in Int : SlotOf(k)' = SlotOf(k)
    BY <1>2 DEF SlotOf
  <1>5. RingInv'
    <2>1. rear' = (IF Empty THEN front ELSE SlotOf(count - 1))'
      BY <1>1, <1>2, <1>4 DEF Empty
    <2>2. ASSUME NEW j \in Index
          PROVE  elem'[j] # Null <=> \E k \in 0..(count' - 1) : j = SlotOf(k)'
      <3>1. CASE j = i
        <4>1. elem'[j] = e /\ e # Null
          BY <1>2, <1>1, <3>1, NullAssumption DEF QInv, QTypeOK
        <4>2. \E k \in 0..(count' - 1) : j = SlotOf(k)
          BY <1>1, <1>2, <3>1
        <4>3. \A k \in 0..(count' - 1) : SlotOf(k)' = SlotOf(k)
          BY <1>4
        <4> QED BY <4>1, <4>2, <4>3
      <3>2. CASE j # i
        <4>1. elem'[j] = elem[j]
          BY <1>2, <3>2 DEF QInv, QTypeOK
        <4>2. elem[j] # Null <=> \E k \in 0..(count - 1) : j = SlotOf(k)
          BY DEF QInv, RingInv
        <4>3. 0..(count' - 1) = 0..(count - 1) \cup {count}
          BY <1>1, <1>2
        <4>4. j # SlotOf(count)
          BY <1>1, <3>2
        <4>5. \A k \in 0..(count' - 1) : SlotOf(k)' = SlotOf(k)
          BY <1>4, <4>3, <1>1
        <4> QED BY <4>1, <4>2, <4>3, <4>4, <4>5
      <3> QED BY <3>1, <3>2
    <2> QED BY <2>1, <2>2 DEF RingInv
  <1>6. Contents' = Append(Contents, e)
    <2>1. Contents \in Seq(Elem \cup {Null}) /\ Len(Contents) = count
      BY ContentsSeq
    <2>2. Contents' = [k \in 1..(count + 1) |-> elem'[SlotOf(k - 1)]]
      BY <1>2, <1>4 DEF Contents
    <2>3. ASSUME NEW k \in 1..(count + 1)
          PROVE  elem'[SlotOf(k - 1)] = IF k <= count THEN Contents[k] ELSE e
      <3>1. CASE k <= count
        <4>1. k - 1 \in 0..(count - 1) /\ k \in 1..count /\ k - 1 \in 0..(Size - 1)
          BY <3>1, <1>1
        <4>2. SlotOf(k - 1) # i /\ SlotOf(k - 1) \in Index
          BY <4>1, <1>1, SlotInIndex DEF QInv
        <4> QED BY <3>1, <4>1, <4>2, <1>2 DEF Contents, QInv, QTypeOK
      <3>2. CASE k > count
        <4>1. k - 1 = count
          BY <3>2, <1>1
        <4>2. elem'[i] = e
          BY <1>1, <1>2 DEF QInv, QTypeOK
        <4> QED BY <3>2, <4>1, <4>2, <1>1
      <3> QED BY <3>1, <3>2, <1>1
    <2>4. \A k \in 1..(count + 1) :
              Contents'[k] = IF k <= count THEN Contents[k] ELSE e
      BY <2>2, <2>3
    <2>5. Contents' \in [1..(count + 1) -> Elem \cup {Null}]
      <3>1. \A k \in 1..count : Contents[k] \in Elem \cup {Null}
        BY <2>1, ElementOfSeq
      <3>2. \A k \in 1..(count + 1) : Contents'[k] \in Elem \cup {Null}
        BY <2>4, <3>1, <1>1
      <3> QED BY <2>2, <3>2
    <2> QED BY <2>1, <2>4, <2>5, AppendedFunction
  <1> QED BY <1>3, <1>5, <1>6 DEF QInv

\* What taking an element out does, whichever of the two cases of deque it is.
LEMMA TakeStep ==
    ASSUME QInv, ~Empty, Take,
           front' = IF count = 1 THEN front ELSE Below(front)
    PROVE  /\ QInv'
           /\ Contents # <<>>
           /\ Contents' = Tail(Contents)
           /\ ret' = Result("deque", Head(Contents))
  <1>1. /\ rear = SlotOf(count - 1)
        /\ count \in 1..Size
        /\ count - 1 \in 0..(Size - 1)
        /\ SlotOf(0) = front
        /\ front \in Index
        /\ front \in Nat
        /\ count \in Nat
        /\ Size \in Nat \ {0}
    BY RearSlot, FrontSlot, SizeAssumption DEF QInv, QTypeOK, Index
  <1>2. /\ elem' = [elem EXCEPT ![front] = Null]
        /\ count' = count - 1 /\ rear' = rear
        /\ ret' = Result("deque", elem[front])
    BY DEF Take
  <1>3. QTypeOK'
    <2>1. front' \in Index
      BY <1>1, SizeAssumption DEF Below, Index
    <2> QED BY <1>1, <1>2, <2>1, SizeAssumption DEF QInv, QTypeOK, Result
  \* The element of place k + 1 is now that of place k.
  <1>4. \A k \in 0..(count - 2) : SlotOf(k)' = SlotOf(k + 1)
    <2> SUFFICES ASSUME NEW k \in 0..(count - 2) PROVE SlotOf(k)' = SlotOf(k + 1)
      OBVIOUS
    <2>1. count # 1 /\ k \in 0..(Size - 2)
      BY <1>1
    <2> QED BY <2>1, SlotAfterDeque DEF QInv
  <1>5. RingInv'
    <2>1. rear' = (IF Empty THEN front ELSE SlotOf(count - 1))'
      <3>1. CASE count = 1
        BY <3>1, <1>1, <1>2 DEF Empty
      <3>2. CASE count # 1
        <4>1. count - 2 \in 0..(count - 2) /\ (count - 2) + 1 = count - 1
          BY <3>2, <1>1
        <4>2. PICK k \in 0..(count - 2) : k = count - 2
          BY <4>1
        <4>3. SlotOf(k)' = rear'
          BY <4>1, <4>2, <1>4, <1>1, <1>2
        <4>4. SlotOf(count - 1)' = SlotOf(k)'
          BY <4>2, <1>1, <1>2 DEF SlotOf
        <4> QED BY <3>2, <4>3, <4>4, <1>1, <1>2 DEF Empty
      <3> QED BY <3>1, <3>2
    <2>2. ASSUME NEW j \in Index
          PROVE  elem'[j] # Null <=> \E k \in 0..(count' - 1) : j = SlotOf(k)'
      <3>1. elem[j] # Null <=> \E k \in 0..(count - 1) : j = SlotOf(k)
        BY DEF QInv, RingInv
      <3>2. elem'[j] # Null <=> elem[j] # Null /\ j # front
        BY <1>2 DEF QInv, QTypeOK
      <3>3. \A k \in 1..(count - 1) : SlotOf(k) # front
        <4> SUFFICES ASSUME NEW k \in 1..(count - 1), SlotOf(k) = front PROVE FALSE
          OBVIOUS
        <4>1. k \in 0..(Size - 1) /\ 0 \in 0..(Size - 1)
          BY <1>1
        <4>2. k = 0
          BY <4>1, <1>1, SlotInjective DEF QInv
        <4> QED BY <4>2
      <3>4. 0..(count - 1) = {0} \cup 1..(count - 1)
        BY <1>1
      <3>5. elem'[j] # Null <=> \E k \in 1..(count - 1) : j = SlotOf(k)
        BY <3>1, <3>2, <3>3, <3>4, <1>1
      <3>6. ASSUME NEW k \in 1..(count - 1), j = SlotOf(k)
            PROVE  \E m \in 0..(count' - 1) : j = SlotOf(m)'
        <4>1. k - 1 \in 0..(count - 2) /\ (k - 1) + 1 = k /\ k - 1 \in 0..(count' - 1)
          BY <1>1, <1>2
        <4>2. SlotOf(k - 1)' = SlotOf(k)
          BY <4>1, <1>4
        <4> QED BY <4>1, <4>2, <3>6
      <3>7. ASSUME NEW m \in 0..(count' - 1), j = SlotOf(m)'
            PROVE  \E k \in 1..(count - 1) : j = SlotOf(k)
        <4>1. m \in 0..(count - 2) /\ m + 1 \in 1..(count - 1)
          BY <1>1, <1>2
        <4> QED BY <4>1, <1>4, <3>7
      <3> QED BY <3>5, <3>6, <3>7
    <2> QED BY <2>1, <2>2 DEF RingInv
  <1>6. /\ Contents \in Seq(Elem \cup {Null}) /\ Len(Contents) = count
        /\ Contents # <<>>
        /\ Contents[1] = elem[front]
    BY ContentsSeq, <1>1
  <1>7. Contents' = Tail(Contents)
    <2>1. Contents' = [k \in 1..(count - 1) |-> elem'[SlotOf(k - 1)']]
      BY <1>2 DEF Contents, SlotOf
    <2>2. ASSUME NEW k \in 1..(count - 1)
          PROVE  elem'[SlotOf(k - 1)'] = Contents[k + 1]
      <3>1. k - 1 \in 0..(count - 2) /\ (k - 1) + 1 = k /\ k + 1 \in 1..count
            /\ k \in 0..(Size - 1) /\ 0 \in 0..(Size - 1)
        BY <1>1
      <3>2. SlotOf(k - 1)' = SlotOf(k)
        BY <3>1, <1>4
      <3>3. SlotOf(k) # front /\ SlotOf(k) \in Index
        BY <3>1, <1>1, SlotInjective, SlotInIndex DEF QInv
      <3>4. Contents[k + 1] = elem[SlotOf(k)]
        BY <3>1 DEF Contents
      <3> QED BY <3>2, <3>3, <3>4, <1>2 DEF QInv, QTypeOK
    <2>3. Contents' \in [1..(count - 1) -> Elem \cup {Null}]
      <3>1. \A k \in 1..(count - 1) : k + 1 \in 1..Len(Contents)
        BY <1>1, <1>6
      <3>2. \A k \in 1..(count - 1) : Contents[k + 1] \in Elem \cup {Null}
        BY <3>1, <1>6, ElementOfSeq
      <3> QED BY <2>1, <2>2, <3>2
    <2>4. \A k \in 1..(Len(Contents) - 1) : Contents'[k] = Contents[k + 1]
      BY <2>1, <2>2, <1>6
    <2> QED BY <2>3, <2>4, <1>6, TailFunction
  <1> QED BY <1>3, <1>5, <1>6, <1>7, <1>1, <1>2 DEF QInv

(***************************************************************************)
(* The invariant and the refinement.                                       *)
(***************************************************************************)

\* A call that is refused changes nothing but its result.
LEMMA RefusedStep ==
    ASSUME QInv, UNCHANGED <<elem, front, rear, count>>,
           NEW c \in {"enqueue", "enqueue_NULL", "deque"}, ret' = Result(c, Null)
    PROVE  QInv' /\ Contents' = Contents
  <1>1. QTypeOK'
    BY DEF QInv, QTypeOK, Result
  <1>2. RingInv'
    BY DEF QInv, RingInv, Empty, SlotOf
  <1>3. Contents' = Contents
    BY DEF Contents, SlotOf
  <1> QED BY <1>1, <1>2, <1>3 DEF QInv

LEMMA QInitHolds == QInit => QInv
  BY SizeAssumption DEF QInit, QInv, QTypeOK, RingInv, Empty, Index, Result

\* Every call keeps the invariant and does to Contents what BoundedQueue says.
LEMMA CallStep == ASSUME QInv, QNext PROVE QInv' /\ BQ!BQNext
  <1>0. Len(Contents) = count /\ (Empty <=> Contents = <<>>) /\ count \in 0..Size
        /\ \A c, v : BQ!Result(c, v) = Result(c, v)
    BY ContentsSeq DEF QInv, QTypeOK, Result, BQ!Result
  <1>1. ASSUME NEW e \in Elem, EnqueueFull(e)
        PROVE  QInv' /\ BQ!BQNext
    <2>1. QInv' /\ Contents' = Contents /\ ret' = Result("enqueue", Null)
      BY <1>1, RefusedStep DEF EnqueueFull
    <2>2. ~(Len(Contents) < Size)
      BY <1>1, <1>0, SizeAssumption DEF EnqueueFull, Full
    <2> QED BY <2>1, <2>2, <1>0 DEF BQ!BQNext, BQ!Put
  <1>2. ASSUME NEW e \in Elem, EnqueueFirst(e) \/ EnqueueNext(e)
        PROVE  QInv' /\ BQ!BQNext
    <2>1. ~Full /\ Store(IF Empty THEN rear ELSE Below(rear), e)
      BY <1>2 DEF EnqueueFirst, EnqueueNext
    <2>2. QInv' /\ Contents' = Append(Contents, e) /\ ret' = Result("enqueue", e)
      BY <2>1, StoreStep DEF Store
    <2>3. Len(Contents) < Size
      BY <2>1, <1>0, SizeAssumption DEF Full
    <2> QED BY <2>2, <2>3, <1>0 DEF BQ!BQNext, BQ!Put
  <1>3. CASE EnqueueNull
    <2>1. QInv' /\ Contents' = Contents /\ ret' = Result("enqueue_NULL", Null)
      BY <1>3, RefusedStep DEF EnqueueNull
    <2> QED BY <2>1, <1>0 DEF BQ!BQNext, BQ!PutNull
  <1>4. CASE DequeEmpty
    <2>1. QInv' /\ Contents' = Contents /\ ret' = Result("deque", Null)
      BY <1>4, RefusedStep DEF DequeEmpty
    <2> QED BY <2>1, <1>0, <1>4 DEF BQ!BQNext, BQ!Get, DequeEmpty
  <1>5. CASE DequeLast \/ DequeNext
    <2>1. ~Empty /\ Take /\ front' = IF front = rear THEN front ELSE Below(front)
      BY <1>5 DEF DequeLast, DequeNext
    <2>2. front = rear <=> count = 1
      BY <2>1, LastElement DEF QInv
    <2>3. /\ QInv' /\ Contents # <<>> /\ Contents' = Tail(Contents)
          /\ ret' = Result("deque", Head(Contents))
      BY <2>1, <2>2, TakeStep
    <2> QED BY <2>3, <1>0 DEF BQ!BQNext, BQ!Get
  <1> QED BY <1>1, <1>2, <1>3, <1>4, <1>5 DEF QNext

LEMMA QStutter == ASSUME QInv, UNCHANGED qvars PROVE QInv' /\ UNCHANGED BQ!bqVars
  BY DEF QInv, qvars, QTypeOK, RingInv, Empty, SlotOf, BQ!bqVars, Contents

LEMMA QInvariance == QSpec => []QInv
  <1>1. QInv /\ [QNext]_qvars => QInv'
    BY CallStep, QStutter
  <1> QED BY QInitHolds, <1>1, PTL DEF QSpec

\* Every variable of the queue stays in its set.
THEOREM QTypeCorrect == QSpec => []QTypeOK
  BY QInvariance, PTL DEF QInv

\* front, rear and count always agree on which slots are in use, and just those
\* hold a pointer.
THEOREM RingHolds == QSpec => []RingInv
  BY QInvariance, PTL DEF QInv

\* The array is a bounded FIFO queue: no call loses, doubles or reorders an
\* element, at any fill level and any position of the indices.
THEOREM RefinesBoundedQueue == QSpec => ImplementsBoundedQueue
  <1>1. QInit => BQ!BQInit
    BY DEF QInit, BQ!BQInit, Contents, Result, BQ!Result
  <1>2. QInv /\ [QNext]_qvars => [BQ!BQNext]_BQ!bqVars
    BY CallStep, QStutter
  <1> QED BY QInvariance, <1>1, <1>2, PTL DEF QSpec, ImplementsBoundedQueue, BQ!BQSpec

(***************************************************************************)
(* The thread pool.                                                        *)
(***************************************************************************)

\* The clauses of ThreadPool!TypeOK that relate the variables.
Exclusive == \A p \in Thread : Inside(p) => holder = p
Unique == \A i, j \in Occupied : SelfId[slot[i]] = SelfId[slot[j]] => i = j

Typed ==
    /\ slot \in [Slot -> Thread \cup {None}]
    /\ holder \in Thread \cup {None}
    /\ call \in [Thread -> [op : Op, who : Thread, at : Slot \cup {-1}, calm : BOOLEAN]]
    /\ isWaiting \in [Thread -> BOOLEAN]
    /\ spurious \in [Thread -> BOOLEAN]

\* All that the steps rely on.
IInv == Typed /\ Exclusive /\ Unique /\ ScanFindsBlocked /\ StuckHasCause /\ FlagHasCause

LEMMA InitHolds == Init => IInv
  <1> SUFFICES ASSUME Init PROVE IInv
    OBVIOUS
  <1> USE ThreadAssumption, SelfIdAssumption, PoolSizeAssumption DEF Init, Idle, Call
  <1>1. Typed
    BY DEF Typed, Op, Slot
  <1>2. Exclusive /\ FlagHasCause
    BY DEF Exclusive, Inside, FlagHasCause, In
  <1>3. Unique
    BY DEF Unique, Occupied
  <1>4. ScanFindsBlocked /\ StuckHasCause
    BY DEF ScanFindsBlocked, StuckHasCause
  <1> QED
    BY <1>1, <1>2, <1>3, <1>4 DEF IInv

LEMMA StartPreserves ==
    ASSUME IInv, NEW p \in Thread, NEW t \in Thread, NEW op \in {"add", "remove", "find", "empty"}, Start(p, op, t)
    PROVE  IInv'
  <1> USE ThreadAssumption, SelfIdAssumption, PoolSizeAssumption DEF In, Idle, Call, Returns, Who, Slot
  <1>1. Typed'
    BY DEF IInv, Typed, Op, Start
  <1>2. Exclusive'
    BY DEF IInv, Typed, Exclusive, Inside, Start
  <1>3. Unique'
    BY DEF IInv, Typed, Unique, Occupied, Start
  <1>4. ScanFindsBlocked'
    BY DEF IInv, Typed, ScanFindsBlocked, Occupied, Start
  <1>5. StuckHasCause'
    BY DEF IInv, Typed, Exclusive, StuckHasCause, Inside, Occupied, Start
  <1>6. FlagHasCause'
    BY DEF IInv, Typed, FlagHasCause, Start
  <1> QED
    BY <1>1, <1>2, <1>3, <1>4, <1>5, <1>6 DEF IInv

LEMMA RemoveRefusedPreserves ==
    ASSUME IInv, NEW p \in Thread, RemoveRefused(p)
    PROVE  IInv'
  <1> USE ThreadAssumption, SelfIdAssumption, PoolSizeAssumption DEF In, Idle, Call, Returns, Who, Slot
  <1>1. Typed'
    BY DEF IInv, Typed, Op, RemoveRefused
  <1>2. Exclusive'
    BY DEF IInv, Typed, Exclusive, Inside, RemoveRefused
  <1>3. Unique'
    BY DEF IInv, Typed, Unique, Occupied, RemoveRefused
  <1>4. ScanFindsBlocked'
    BY DEF IInv, Typed, ScanFindsBlocked, Occupied, RemoveRefused
  <1>5. StuckHasCause'
    BY DEF IInv, Typed, Exclusive, StuckHasCause, Inside, Occupied, RemoveRefused
  <1>6. FlagHasCause'
    BY DEF IInv, Typed, FlagHasCause, RemoveRefused
  <1> QED
    BY <1>1, <1>2, <1>3, <1>4, <1>5, <1>6 DEF IInv

LEMMA LockPreserves ==
    ASSUME IInv, NEW p \in Thread, NEW op, NEW locked \in {"adding", "removing", "finding", "looking"}, Lock(p, op, locked),
                  op \in {"add", "remove", "find", "empty"}
    PROVE  IInv'
  <1> USE ThreadAssumption, SelfIdAssumption, PoolSizeAssumption DEF In, Idle, Call, Returns, Who, Slot
  <1>1. Typed'
    BY ZenonT(40) DEF IInv, Typed, Op, Lock
  <1>2. Exclusive'
    BY DEF IInv, Typed, Exclusive, Inside, Lock
  <1>3. Unique'
    BY DEF IInv, Typed, Unique, Occupied, Lock
  <1>4. ScanFindsBlocked'
    BY DEF IInv, Typed, ScanFindsBlocked, Occupied, Lock
  <1>5. StuckHasCause'
    BY DEF IInv, Typed, Exclusive, StuckHasCause, Inside, Occupied, Lock
  <1>6. FlagHasCause'
    BY DEF IInv, Typed, FlagHasCause, Lock
  <1> QED
    BY <1>1, <1>2, <1>3, <1>4, <1>5, <1>6 DEF IInv

LEMMA AddPreserves ==
    ASSUME IInv, NEW p \in Thread, Add(p)
    PROVE  IInv'
  <1> USE ThreadAssumption, SelfIdAssumption, PoolSizeAssumption DEF In, Idle, Call, Returns, Who, Slot
  <1>1. Typed'
    BY DEF IInv, Typed, Op, Add, Unlock
  <1>2. Exclusive'
    BY DEF IInv, Typed, Exclusive, Inside, Add, Unlock
  <1>3. Unique'
    <2>1. CASE slot' = slot
      BY <2>1 DEF IInv, Unique, Occupied
    <2>2. ASSUME SlotsOf(Who(p)) = {}, NEW k, slot' = [slot EXCEPT ![k] = Who(p)]
          PROVE  Unique'
      BY <2>2 DEF IInv, Typed, Unique, Occupied, SlotsOf
    <2> QED
      BY <2>1, <2>2 DEF Add
  <1>4. ScanFindsBlocked'
    BY DEF IInv, Typed, ScanFindsBlocked, Occupied, Add, Unlock
  <1>5. StuckHasCause'
    BY DEF IInv, Typed, Exclusive, StuckHasCause, Inside, Occupied, Add, Unlock
  <1>6. FlagHasCause'
    BY DEF IInv, Typed, FlagHasCause, Add, Unlock
  <1> QED
    BY <1>1, <1>2, <1>3, <1>4, <1>5, <1>6 DEF IInv

LEMMA RemovePreserves ==
    ASSUME IInv, NEW p \in Thread, Remove(p)
    PROVE  IInv'
  <1> USE ThreadAssumption, SelfIdAssumption, PoolSizeAssumption DEF In, Idle, Call, Returns, Who, Slot
  <1>1. Typed'
    BY ZenonT(40) DEF IInv, Typed, Op, Remove, Unlock
  <1>2. Exclusive'
    BY DEF IInv, Typed, Exclusive, Inside, Remove, Unlock
  <1>3. Unique'
    BY DEF IInv, Typed, Unique, Occupied, Remove, Unlock
  <1>4. ScanFindsBlocked'
    <2>1. CASE SlotsOf(Who(p)) = {}
      <3>1. slot' = slot /\ call'[p] = Idle(p)
        BY <2>1 DEF IInv, Typed, Remove
      <3>2. \A q \in Thread \ {p} : /\ call'[q].op = call[q].op
                                    /\ call'[q].at = call[q].at
                                    /\ call'[q].calm => call[q].calm
        BY <2>1 DEF IInv, Typed, Remove
      <3> QED
        BY SMTT(30), <3>1, <3>2 DEF IInv, Typed, ScanFindsBlocked, Occupied
    <2>2. CASE SlotsOf(Who(p)) # {}
      <3>1. \A q \in Thread : ~call'[q].calm
        BY <2>2 DEF IInv, Typed, Remove
      <3> QED
        BY <3>1 DEF ScanFindsBlocked
    <2> QED
      BY <2>1, <2>2
  <1>5. StuckHasCause'
    BY DEF IInv, Typed, Exclusive, StuckHasCause, Inside, Occupied, Remove, Unlock
  <1>6. FlagHasCause'
    BY DEF IInv, Typed, FlagHasCause, Remove, Unlock
  <1> QED
    BY <1>1, <1>2, <1>3, <1>4, <1>5, <1>6 DEF IInv

LEMMA FindPreserves ==
    ASSUME IInv, NEW p \in Thread, Find(p)
    PROVE  IInv'
  <1> USE ThreadAssumption, SelfIdAssumption, PoolSizeAssumption DEF In, Idle, Call, Returns, Who, Slot
  <1>1. Typed'
    BY DEF IInv, Typed, Op, Find, Unlock
  <1>2. Exclusive'
    BY DEF IInv, Typed, Exclusive, Inside, Find, Unlock
  <1>3. Unique'
    BY DEF IInv, Typed, Unique, Occupied, Find, Unlock
  <1>4. ScanFindsBlocked'
    BY DEF IInv, Typed, ScanFindsBlocked, Occupied, Find, Unlock
  <1>5. StuckHasCause'
    BY DEF IInv, Typed, Exclusive, StuckHasCause, Inside, Occupied, Find, Unlock
  <1>6. FlagHasCause'
    BY DEF IInv, Typed, FlagHasCause, Find, Unlock
  <1> QED
    BY <1>1, <1>2, <1>3, <1>4, <1>5, <1>6 DEF IInv

LEMMA LookPreserves ==
    ASSUME IInv, NEW p \in Thread, Look(p)
    PROVE  IInv'
  <1> USE ThreadAssumption, SelfIdAssumption, PoolSizeAssumption DEF In, Idle, Call, Returns, Who, Slot
  <1>1. Typed'
    BY DEF IInv, Typed, Op, Look
  <1>2. Exclusive'
    BY DEF IInv, Typed, Exclusive, Inside, Look
  <1>3. Unique'
    BY DEF IInv, Typed, Unique, Occupied, Look
  <1>4. ScanFindsBlocked'
    BY DEF IInv, Typed, ScanFindsBlocked, Occupied, Look
  <1>5. StuckHasCause'
    BY DEF IInv, Typed, Exclusive, StuckHasCause, Inside, Occupied, Look
  <1>6. FlagHasCause'
    BY DEF IInv, Typed, FlagHasCause, Look
  <1> QED
    BY <1>1, <1>2, <1>3, <1>4, <1>5, <1>6 DEF IInv

LEMMA PeekPreserves ==
    ASSUME IInv, NEW p \in Thread, Peek(p)
    PROVE  IInv'
  <1> USE ThreadAssumption, SelfIdAssumption, PoolSizeAssumption DEF In, Idle, Call, Returns, Who, Slot
  <1>1. Typed'
    BY DEF IInv, Typed, Op, Peek
  <1>2. Exclusive'
    BY DEF IInv, Typed, Exclusive, Inside, Peek
  <1>3. Unique'
    BY DEF IInv, Typed, Unique, Occupied, Peek
  <1>4. ScanFindsBlocked'
    <2>1. Occupied' = Occupied /\ Occupied \subseteq Slot
      BY DEF Occupied, Peek
    <2>2. call'[p].op = "peek" /\ call'[p].at = PoolSize - 1 /\ (call'[p].calm <=> Occupied # {})
      BY DEF IInv, Typed, Peek
    <2>3. \A q \in Thread \ {p} : call'[q] = call[q]
      BY DEF IInv, Typed, Peek
    <2>4. \A i \in Slot : i <= PoolSize - 1
      OBVIOUS
    <2> QED
      BY <2>1, <2>2, <2>3, <2>4 DEF IInv, ScanFindsBlocked
  <1>5. StuckHasCause'
    BY DEF IInv, Typed, Exclusive, StuckHasCause, Inside, Occupied, Peek
  <1>6. FlagHasCause'
    BY DEF IInv, Typed, FlagHasCause, Peek
  <1> QED
    BY <1>1, <1>2, <1>3, <1>4, <1>5, <1>6 DEF IInv

LEMMA PeekTestPreserves ==
    ASSUME IInv, NEW p \in Thread, PeekTest(p)
    PROVE  IInv'
  <1> USE ThreadAssumption, SelfIdAssumption, PoolSizeAssumption DEF In, Idle, Call, Returns, Who, Slot
  <1>1. Typed'
    <2>1. call[p] \in [op : Op, who : Thread, at : Slot \cup {-1}, calm : BOOLEAN]
      BY DEF IInv, Typed
    <2>2. call[p].at - 1 \in Slot \cup {-1}
      BY <2>1 DEF PeekTest
    <2>3. call' \in [Thread -> [op : Op, who : Thread, at : Slot \cup {-1}, calm : BOOLEAN]]
      <3>1. CASE call' = [call EXCEPT ![p].at = @ - 1]
        BY <2>2, <3>1 DEF IInv, Typed
      <3>2. CASE call' = [call EXCEPT ![p].op = "take"]
        BY ZenonT(40), <3>2 DEF IInv, Typed, Op
      <3> QED
        BY <3>1, <3>2 DEF PeekTest
    <2> QED
      BY <2>3 DEF IInv, Typed, PeekTest
  <1>2. Exclusive'
    BY DEF IInv, Typed, Exclusive, Inside, PeekTest
  <1>3. Unique'
    BY DEF IInv, Typed, Unique, Occupied, PeekTest
  <1>4. ScanFindsBlocked'
    BY DEF IInv, Typed, ScanFindsBlocked, Occupied, PeekTest
  <1>5. StuckHasCause'
    BY DEF IInv, Typed, Exclusive, StuckHasCause, Inside, Occupied, PeekTest
  <1>6. FlagHasCause'
    BY DEF IInv, Typed, FlagHasCause, PeekTest
  <1> QED
    BY <1>1, <1>2, <1>3, <1>4, <1>5, <1>6 DEF IInv

LEMMA PeekReturnPreserves ==
    ASSUME IInv, NEW p \in Thread, PeekReturn(p)
    PROVE  IInv'
  <1> USE ThreadAssumption, SelfIdAssumption, PoolSizeAssumption DEF In, Idle, Call, Returns, Who, Slot
  <1>1. Typed'
    BY DEF IInv, Typed, Op, PeekReturn
  <1>2. Exclusive'
    BY DEF IInv, Typed, Exclusive, Inside, PeekReturn
  <1>3. Unique'
    BY DEF IInv, Typed, Unique, Occupied, PeekReturn
  <1>4. ScanFindsBlocked'
    BY DEF IInv, Typed, ScanFindsBlocked, Occupied, PeekReturn
  <1>5. StuckHasCause'
    BY DEF IInv, Typed, Exclusive, StuckHasCause, Inside, Occupied, PeekReturn
  <1>6. FlagHasCause'
    BY DEF IInv, Typed, FlagHasCause, PeekReturn
  <1> QED
    BY <1>1, <1>2, <1>3, <1>4, <1>5, <1>6 DEF IInv

LEMMA WaitPreserves ==
    ASSUME IInv, NEW p \in Thread, Wait(p)
    PROVE  IInv'
  <1> USE ThreadAssumption, SelfIdAssumption, PoolSizeAssumption DEF In, Idle, Call, Returns, Who, Slot
  <1>1. Typed'
    BY ZenonT(40) DEF IInv, Typed, Op, Wait
  <1>2. Exclusive'
    BY DEF IInv, Typed, Exclusive, Inside, Wait
  <1>3. Unique'
    BY DEF IInv, Typed, Unique, Occupied, Wait
  <1>4. ScanFindsBlocked'
    BY DEF IInv, Typed, ScanFindsBlocked, Occupied, Wait
  <1>5. StuckHasCause'
    BY DEF IInv, Typed, Exclusive, StuckHasCause, Inside, Occupied, Wait
  <1>6. FlagHasCause'
    BY DEF IInv, Typed, FlagHasCause, Wait
  <1> QED
    BY <1>1, <1>2, <1>3, <1>4, <1>5, <1>6 DEF IInv

LEMMA SleepPreserves ==
    ASSUME IInv, NEW p \in Thread, Sleep(p)
    PROVE  IInv'
  <1> USE ThreadAssumption, SelfIdAssumption, PoolSizeAssumption DEF In, Idle, Call, Returns, Who, Slot
  <1>1. Typed'
    BY ZenonT(40) DEF IInv, Typed, Op, Sleep
  <1>2. Exclusive'
    BY DEF IInv, Typed, Exclusive, Inside, Sleep
  <1>3. Unique'
    BY DEF IInv, Typed, Unique, Occupied, Sleep
  <1>4. ScanFindsBlocked'
    BY DEF IInv, Typed, ScanFindsBlocked, Occupied, Sleep
  <1>5. StuckHasCause'
    BY DEF IInv, Typed, Exclusive, StuckHasCause, Inside, Occupied, Sleep
  <1>6. FlagHasCause'
    BY DEF IInv, Typed, FlagHasCause, Sleep
  <1> QED
    BY <1>1, <1>2, <1>3, <1>4, <1>5, <1>6 DEF IInv

LEMMA WakeUpPreserves ==
    ASSUME IInv, NEW p \in Thread, WakeUp(p)
    PROVE  IInv'
  <1> USE ThreadAssumption, SelfIdAssumption, PoolSizeAssumption DEF In, Idle, Call, Returns, Who, Slot
  <1>1. Typed'
    BY DEF IInv, Typed, Op, WakeUp
  <1>2. Exclusive'
    BY DEF IInv, Typed, Exclusive, Inside, WakeUp
  <1>3. Unique'
    BY DEF IInv, Typed, Unique, Occupied, WakeUp
  <1>4. ScanFindsBlocked'
    BY DEF IInv, Typed, ScanFindsBlocked, Occupied, WakeUp
  <1>5. StuckHasCause'
    BY DEF IInv, Typed, Exclusive, StuckHasCause, Inside, Occupied, WakeUp
  <1>6. FlagHasCause'
    BY DEF IInv, Typed, FlagHasCause, WakeUp
  <1> QED
    BY <1>1, <1>2, <1>3, <1>4, <1>5, <1>6 DEF IInv

LEMMA SignalPreserves ==
    ASSUME IInv, NEW p \in Thread, NEW t \in Thread, Signal(p, t)
    PROVE  IInv'
  <1> USE ThreadAssumption, SelfIdAssumption, PoolSizeAssumption DEF In, Idle, Call, Returns, Who, Slot
  <1>1. Typed'
    BY DEF IInv, Typed, Op, Signal
  <1>2. Exclusive'
    BY DEF IInv, Typed, Exclusive, Inside, Signal
  <1>3. Unique'
    BY DEF IInv, Typed, Unique, Occupied, Signal
  <1>4. ScanFindsBlocked'
    BY DEF IInv, Typed, ScanFindsBlocked, Occupied, Signal
  <1>5. StuckHasCause'
    BY DEF IInv, Typed, Exclusive, StuckHasCause, Inside, Occupied, Signal
  <1>6. FlagHasCause'
    BY DEF IInv, Typed, FlagHasCause, Signal
  <1> QED
    BY <1>1, <1>2, <1>3, <1>4, <1>5, <1>6 DEF IInv

LEMMA SignalMarkPreserves ==
    ASSUME IInv, NEW p \in Thread, SignalMark(p)
    PROVE  IInv'
  <1> USE ThreadAssumption, SelfIdAssumption, PoolSizeAssumption DEF In, Idle, Call, Returns, Who, Slot
  <1>1. Typed'
    BY DEF IInv, Typed, Op, SignalMark
  <1>2. Exclusive'
    BY DEF IInv, Typed, Exclusive, Inside, SignalMark
  <1>3. Unique'
    BY DEF IInv, Typed, Unique, Occupied, SignalMark
  <1>4. ScanFindsBlocked'
    BY DEF IInv, Typed, ScanFindsBlocked, Occupied, SignalMark
  <1>5. StuckHasCause'
    BY DEF IInv, Typed, Exclusive, StuckHasCause, Inside, Occupied, SignalMark
  <1>6. FlagHasCause'
    BY DEF IInv, Typed, FlagHasCause, SignalMark
  <1> QED
    BY <1>1, <1>2, <1>3, <1>4, <1>5, <1>6 DEF IInv

LEMMA Stutters == IInv /\ UNCHANGED vars => IInv'
  BY DEF IInv, Typed, Exclusive, Unique, ScanFindsBlocked, StuckHasCause, FlagHasCause,
         Inside, Occupied, In, Who, vars

LEMMA NextPreserves == IInv /\ [Next]_vars => IInv'
  <1> SUFFICES ASSUME IInv, Next PROVE IInv'
    BY Stutters
  <1>1. PICK p \in Thread : PoolStep(p) \/ WaitStep(p)
    BY ThreadAssumption DEF Next
  <1>2. CASE PoolStep(p)
    <2>1. ASSUME NEW op \in {"add", "remove", "find", "empty"}, NEW t \in Thread, Start(p, op, t)
          PROVE  IInv'
      BY <2>1, StartPreserves
    <2>2. ASSUME NEW op \in {"add", "remove", "find", "empty"},
                 NEW locked \in {"adding", "removing", "finding", "looking"}, Lock(p, op, locked)
          PROVE  IInv'
      BY <2>2, LockPreserves
    <2> QED
      BY <1>2, <2>1, <2>2, RemoveRefusedPreserves, AddPreserves, RemovePreserves, FindPreserves,
         LookPreserves, PeekPreserves, PeekTestPreserves, PeekReturnPreserves DEF PoolStep
  <1>3. CASE WaitStep(p)
    BY <1>3, WaitPreserves, SleepPreserves, WakeUpPreserves, SignalPreserves,
       SignalMarkPreserves DEF WaitStep
  <1> QED
    BY <1>1, <1>2, <1>3

LEMMA Invariance == Spec => []IInv
  BY InitHolds, NextPreserves, PTL DEF Spec

\* Every variable stays in its set, the mutex excludes, and no two slots of the
\* pool hold threads with the same id, for any number of threads.
THEOREM TypeCorrect == Spec => []TypeOK
  <1>1. IInv => TypeOK
    BY DEF IInv, Typed, Exclusive, Unique, TypeOK
  <1> QED
    BY <1>1, Invariance, PTL

\* The scan of get_blocked_thread_from_pool, without a lock, misses the blocked
\* threads only if one has been removed meanwhile.
THEOREM ScanFindsBlockedHolds == Spec => []ScanFindsBlocked
  <1>1. IInv => ScanFindsBlocked
    BY DEF IInv
  <1> QED
    BY <1>1, Invariance, PTL

\* Only get_empty_slot_from_pool_mutex, when the last slot is in use, leaves the
\* mutex locked.
THEOREM StuckHasCauseHolds == Spec => []StuckHasCause
  <1>1. IInv => StuckHasCause
    BY DEF IInv
  <1> QED
    BY <1>1, Invariance, PTL

\* isWaiting of a thread that does not wait is about to be reset, or nobody
\* woke the thread.
THEOREM FlagHasCauseHolds == Spec => []FlagHasCause
  <1>1. IInv => FlagHasCause
    BY DEF IInv
  <1> QED
    BY <1>1, Invariance, PTL

(***************************************************************************)
(* Trees.  A child has a greater number than its parent, since nodes are   *)
(* numbered in the order of their allocation.                              *)
(***************************************************************************)

Follows(p, c) == c = Nil \/ p < c
Descends(l, r) ==
    /\ l \in [Node -> Link] /\ r \in [Node -> Link]
    /\ \A n \in Node : Follows(n, l[n]) /\ Follows(n, r[n])

LessThan == {ss \in Nat \X Nat : ss[1] < ss[2]}

\* A nonempty set of natural numbers has a least element.
LEMMA LeastNumber ==
    ASSUME NEW T, T \subseteq Nat, T # {}
    PROVE  \E x \in T : \A y \in T : x <= y
<1>1. IsWellFoundedOn(LessThan, Nat)
  BY NatLessThanWellFounded DEF OpToRel, LessThan
<1>2. PICK x \in T : \A y \in T : ~(<<y, x>> \in LessThan)
  BY <1>1, WFMin
<1>3. \A y \in T : ~(y < x)
  BY <1>2 DEF LessThan
<1> QED BY <1>3

\* A nonempty set of nodes has a greatest element.
LEMMA LastNode ==
    ASSUME NEW T, T \subseteq Node, T # {}
    PROVE  \E x \in T : \A y \in T : y <= x
<1> DEFINE D == {k \in Nat : MaxNodes - k \in T}
<1>1. PICK t \in T : t \in Node
  OBVIOUS
<1>2. MaxNodes - t \in D
  BY <1>1, MaxNodesAssumption DEF Node
<1>3. PICK k \in D : \A j \in D : k <= j
  <2>1. D \subseteq Nat /\ D # {}
    BY <1>2
  <2> HIDE DEF D
  <2> QED BY <2>1, LeastNumber
<1>4. \A y \in T : y <= MaxNodes - k
  <2> TAKE y \in T
  <2>1. y \in Node /\ MaxNodes - y \in Nat /\ MaxNodes - (MaxNodes - y) = y
    BY MaxNodesAssumption DEF Node
  <2>2. MaxNodes - y \in D
    BY <2>1
  <2> QED BY <1>3, <2>1, <2>2, MaxNodesAssumption
<1>5. MaxNodes - k \in T
  BY <1>3
<1> QED BY <1>4, <1>5

\* Induction over a tree: a set that contains Nil, and every node whose two
\* children it contains, contains every link.
LEMMA TreeInduction ==
    ASSUME NEW l, NEW r, Descends(l, r), NEW S, Nil \in S,
           \A n \in Node : l[n] \in S /\ r[n] \in S => n \in S
    PROVE  Link \subseteq S
<1> DEFINE T == Node \ S
<1>1. SUFFICES ASSUME T # {} PROVE FALSE
  BY DEF Link
<1>2. PICK x \in T : \A y \in T : y <= x
  <2>1. T \subseteq Node
    OBVIOUS
  <2> HIDE DEF T
  <2> QED BY <1>1, <2>1, LastNode
<1>3. x \in Node /\ l[x] \in Link /\ r[x] \in Link
  BY DEF Descends
<1>4. l[x] \in S
  BY <1>2, <1>3 DEF Descends, Follows, Link, Node
<1>5. r[x] \in S
  BY <1>2, <1>3 DEF Descends, Follows, Link, Node
<1> QED BY <1>3, <1>4, <1>5

\* A recursion over a tree, and that it has a solution.
Closed(g, V) == \A n \in Node, a \in V, b \in V : g[n][a][b] \in V
Folds(f, z, g, l, r) == f[Nil] = z /\ \A n \in Node : f[n] = g[n][f[l[n]]][f[r[n]]]

\* A function defined from the values at the children of a node exists.
LEMMA FoldExists ==
    ASSUME NEW l, NEW r, Descends(l, r), NEW V, NEW z \in V, NEW g, Closed(g, V)
    PROVE  \E f \in [Link -> V] : Folds(f, z, g, l, r)
<1> DEFINE Solves(f, k) == /\ f \in [Link -> V] /\ f[Nil] = z
                           /\ \A n \in Node : n > k => f[n] = g[n][f[l[n]]][f[r[n]]]
           T == {k \in 0..MaxNodes : \E f : Solves(f, k)}
<1>1. T \subseteq Nat /\ T # {}
  <2>1. Solves([n \in Link |-> z], MaxNodes)
    BY MaxNodesAssumption DEF Node, Link
  <2>2. MaxNodes \in T
    BY <2>1, MaxNodesAssumption
  <2> QED BY <2>2
<1>2. PICK k \in T : \A j \in T : k <= j
  <2> HIDE DEF T
  <2> QED BY <1>1, LeastNumber
<1>3. PICK f : Solves(f, k)
  BY <1>2
<1>4. k = 0
  <2> SUFFICES ASSUME k # 0 PROVE FALSE
    OBVIOUS
  <2>1. k \in Node /\ k - 1 \in 0..MaxNodes
    BY <1>2, MaxNodesAssumption DEF Node
  <2> DEFINE h == [f EXCEPT ![k] = g[k][f[l[k]]][f[r[k]]]]
  <2>2. l[k] \in Link /\ r[k] \in Link /\ k \in Link
    BY <2>1 DEF Descends, Link
  <2>3. g[k][f[l[k]]][f[r[k]]] \in V
    BY <1>3, <2>1, <2>2 DEF Closed
  <2>4. h \in [Link -> V] /\ h[Nil] = z /\ h[k] = g[k][f[l[k]]][f[r[k]]]
    BY <1>3, <2>1, <2>2, <2>3 DEF Node, Nil
  <2>5. \A c \in Link : (c = Nil \/ c > k) => h[c] = f[c]
    BY <1>3, <2>1 DEF Node, Nil, Link
  <2>6. \A n \in Node : n > k - 1 => h[n] = g[n][h[l[n]]][h[r[n]]]
    <3> SUFFICES ASSUME NEW n \in Node, n > k - 1 PROVE h[n] = g[n][h[l[n]]][h[r[n]]]
      OBVIOUS
    <3>0. n = k \/ n > k
      BY <2>1 DEF Node
    <3>1. /\ l[n] \in Link /\ (l[n] = Nil \/ l[n] > k)
          /\ r[n] \in Link /\ (r[n] = Nil \/ r[n] > k)
      BY <2>1, <3>0 DEF Descends, Follows, Node, Link, Nil
    <3>2. h[l[n]] = f[l[n]] /\ h[r[n]] = f[r[n]]
      BY <2>5, <3>1
    <3>3. CASE n = k
      BY <2>4, <3>2, <3>3
    <3>4. CASE n > k
      <4>1. h[n] = f[n] /\ f[n] = g[n][f[l[n]]][f[r[n]]]
        BY <1>3, <2>5, <3>4 DEF Link
      <4> QED BY <3>2, <4>1
    <3> QED BY Zenon, <3>0, <3>3, <3>4
  <2>7. Solves(h, k - 1)
    BY <2>4, <2>6
  <2>8. k - 1 \in T
    BY <2>1, <2>7
  <2> QED BY <1>2, <2>1, <2>8 DEF Node
<1>5. f \in [Link -> V] /\ f[Nil] = z
  BY <1>3
<1>6. \A n \in Node : f[n] = g[n][f[l[n]]][f[r[n]]]
  <2> TAKE n \in Node
  <2>1. n > k
    BY <1>4 DEF Node
  <2> QED BY <1>3, <2>1
<1>7. Folds(f, z, g, l, r)
  BY <1>5, <1>6 DEF Folds
<1> QED BY <1>5, <1>7

(***************************************************************************)
(* The recursive functions of Tree, for any links.                         *)
(***************************************************************************)

InorderOf(l, r) ==
    CHOOSE f : f = [n \in Link |-> IF n = Nil THEN <<>> ELSE f[l[n]] \o <<n>> \o f[r[n]]]
PreorderOf(l, r) ==
    CHOOSE f : f = [n \in Link |-> IF n = Nil THEN <<>> ELSE <<n>> \o f[l[n]] \o f[r[n]]]
PostorderOf(l, r) ==
    CHOOSE f : f = [n \in Link |-> IF n = Nil THEN <<>> ELSE f[l[n]] \o f[r[n]] \o <<n>>]
ReplacementOf(l, r) ==
    CHOOSE f : f = [n \in Link |-> IF n = Nil THEN Nil ELSE Kept(n, f[l[n]], f[r[n]])]

\* The functions of Tree are those of the present links.
LEMMA OfTree ==
    /\ Inorder = InorderOf(left, right)
    /\ Preorder = PreorderOf(left, right)
    /\ Postorder = PostorderOf(left, right)
    /\ Replacement = ReplacementOf(left, right)
  BY DEF Inorder, InorderOf, Preorder, PreorderOf, Postorder, PostorderOf, Replacement, ReplacementOf

\* And after a step those of the new links.
LEMMA OfTreePrimed ==
    /\ Inorder' = InorderOf(left', right')
    /\ Preorder' = PreorderOf(left', right')
    /\ Postorder' = PostorderOf(left', right')
    /\ Replacement' = ReplacementOf(left', right')
  BY DEF Inorder, InorderOf, Preorder, PreorderOf, Postorder, PostorderOf, Replacement, ReplacementOf

IsInorder(f, l, r) ==
    /\ f \in [Link -> Seq(Node)] /\ f[Nil] = <<>>
    /\ \A n \in Node : f[n] = f[l[n]] \o <<n>> \o f[r[n]]

\* _printInorder meets its recursive definition.
LEMMA InorderEquations ==
    ASSUME NEW l, NEW r, Descends(l, r), NEW f, f = InorderOf(l, r)
    PROVE  IsInorder(f, l, r)
<1> DEFINE g == [n \in Node |-> [a \in Seq(Node) |-> [b \in Seq(Node) |-> a \o <<n>> \o b]]]
<1>1. <<>> \in Seq(Node) /\ \A n \in Node, a \in Seq(Node), b \in Seq(Node) : g[n][a][b] \in Seq(Node)
  OBVIOUS
<1>2. \A n \in Node, a \in Seq(Node), b \in Seq(Node) :
         a \o <<n>> \o b \in Seq(Node)
  OBVIOUS
<1>3. \A n \in Node, a \in Seq(Node), b \in Seq(Node) : g[n][a][b] = a \o <<n>> \o b
  OBVIOUS
<1> DEFINE z == <<>>
<1>0. z = <<>> /\ z \in Seq(Node)
  BY <1>1
<1> HIDE DEF g, z
<1>4. PICK h \in [Link -> Seq(Node)] : h[Nil] = z /\ \A n \in Node : h[n] = g[n][h[l[n]]][h[r[n]]]
  <2>1. Closed(g, Seq(Node))
    BY <1>1 DEF Closed
  <2>2. PICK h \in [Link -> Seq(Node)] : Folds(h, z, g, l, r)
    BY <1>0, <2>1, FoldExists
  <2> QED BY <2>2 DEF Folds
<1>5. \A n \in Node : l[n] \in Link /\ r[n] \in Link
  BY DEF Descends
<1>6. h = [n \in Link |-> IF n = Nil THEN <<>> ELSE h[l[n]] \o <<n>> \o h[r[n]]]
  <2> DEFINE k == [n \in Link |-> IF n = Nil THEN <<>> ELSE h[l[n]] \o <<n>> \o h[r[n]]]
  <2> SUFFICES ASSUME NEW n \in Link PROVE h[n] = k[n]
    BY <1>4
  <2>1. n = Nil => h[n] = k[n]
    BY <1>0, <1>4
  <2>2. n # Nil => n \in Node
    BY DEF Link
  <2>3. n # Nil => h[l[n]] \in Seq(Node) /\ h[r[n]] \in Seq(Node)
    BY <1>4, <1>5, <2>2
  <2>4. n # Nil => h[n] = h[l[n]] \o <<n>> \o h[r[n]]
    BY <1>3, <1>4, <2>2, <2>3
  <2> QED BY <2>1, <2>4
<1>7. f = [n \in Link |-> IF n = Nil THEN <<>> ELSE f[l[n]] \o <<n>> \o f[r[n]]]
  <2>1. \E e : e = [n \in Link |-> IF n = Nil THEN <<>> ELSE e[l[n]] \o <<n>> \o e[r[n]]]
    BY <1>6
  <2> QED BY <2>1 DEF InorderOf
<1>8. f[Nil] = <<>> /\ \A n \in Node : f[n] = f[l[n]] \o <<n>> \o f[r[n]]
  <2>1. Nil \in Link /\ \A n \in Node : n \in Link /\ n # Nil
    BY DEF Link, Node, Nil
  <2> QED BY <1>7, <2>1
<1> DEFINE S == {n \in Link : f[n] \in Seq(Node)}
<1>9. Link \subseteq S
  <2>1. Nil \in S
    BY <1>1, <1>8 DEF Link
  <2>2. \A n \in Node : l[n] \in S /\ r[n] \in S => n \in S
    <3> SUFFICES ASSUME NEW n \in Node, f[l[n]] \in Seq(Node), f[r[n]] \in Seq(Node) PROVE f[n] \in Seq(Node)
      BY DEF Link
    <3>1. f[n] = f[l[n]] \o <<n>> \o f[r[n]]
      BY <1>8
    <3> QED BY Zenon, <1>2, <3>1
  <2> HIDE DEF S
  <2> QED BY <2>1, <2>2, TreeInduction
<1>10. f \in [Link -> Seq(Node)]
  <2>1. DOMAIN f = Link /\ f = [n \in Link |-> f[n]]
    BY <1>7
  <2> QED BY <1>9, <2>1
<1> QED BY <1>8, <1>10 DEF IsInorder

IsPreorder(f, l, r) ==
    /\ f \in [Link -> Seq(Node)] /\ f[Nil] = <<>>
    /\ \A n \in Node : f[n] = <<n>> \o f[l[n]] \o f[r[n]]

\* _printPreorder meets its recursive definition.
LEMMA PreorderEquations ==
    ASSUME NEW l, NEW r, Descends(l, r), NEW f, f = PreorderOf(l, r)
    PROVE  IsPreorder(f, l, r)
<1> DEFINE g == [n \in Node |-> [a \in Seq(Node) |-> [b \in Seq(Node) |-> <<n>> \o a \o b]]]
<1>1. <<>> \in Seq(Node) /\ \A n \in Node, a \in Seq(Node), b \in Seq(Node) : g[n][a][b] \in Seq(Node)
  OBVIOUS
<1>2. \A n \in Node, a \in Seq(Node), b \in Seq(Node) :
         <<n>> \o a \o b \in Seq(Node)
  OBVIOUS
<1>3. \A n \in Node, a \in Seq(Node), b \in Seq(Node) : g[n][a][b] = <<n>> \o a \o b
  OBVIOUS
<1> DEFINE z == <<>>
<1>0. z = <<>> /\ z \in Seq(Node)
  BY <1>1
<1> HIDE DEF g, z
<1>4. PICK h \in [Link -> Seq(Node)] : h[Nil] = z /\ \A n \in Node : h[n] = g[n][h[l[n]]][h[r[n]]]
  <2>1. Closed(g, Seq(Node))
    BY <1>1 DEF Closed
  <2>2. PICK h \in [Link -> Seq(Node)] : Folds(h, z, g, l, r)
    BY <1>0, <2>1, FoldExists
  <2> QED BY <2>2 DEF Folds
<1>5. \A n \in Node : l[n] \in Link /\ r[n] \in Link
  BY DEF Descends
<1>6. h = [n \in Link |-> IF n = Nil THEN <<>> ELSE <<n>> \o h[l[n]] \o h[r[n]]]
  <2> DEFINE k == [n \in Link |-> IF n = Nil THEN <<>> ELSE <<n>> \o h[l[n]] \o h[r[n]]]
  <2> SUFFICES ASSUME NEW n \in Link PROVE h[n] = k[n]
    BY <1>4
  <2>1. n = Nil => h[n] = k[n]
    BY <1>0, <1>4
  <2>2. n # Nil => n \in Node
    BY DEF Link
  <2>3. n # Nil => h[l[n]] \in Seq(Node) /\ h[r[n]] \in Seq(Node)
    BY <1>4, <1>5, <2>2
  <2>4. n # Nil => h[n] = <<n>> \o h[l[n]] \o h[r[n]]
    BY <1>3, <1>4, <2>2, <2>3
  <2> QED BY <2>1, <2>4
<1>7. f = [n \in Link |-> IF n = Nil THEN <<>> ELSE <<n>> \o f[l[n]] \o f[r[n]]]
  <2>1. \E e : e = [n \in Link |-> IF n = Nil THEN <<>> ELSE <<n>> \o e[l[n]] \o e[r[n]]]
    BY <1>6
  <2> QED BY <2>1 DEF PreorderOf
<1>8. f[Nil] = <<>> /\ \A n \in Node : f[n] = <<n>> \o f[l[n]] \o f[r[n]]
  <2>1. Nil \in Link /\ \A n \in Node : n \in Link /\ n # Nil
    BY DEF Link, Node, Nil
  <2> QED BY <1>7, <2>1
<1> DEFINE S == {n \in Link : f[n] \in Seq(Node)}
<1>9. Link \subseteq S
  <2>1. Nil \in S
    BY <1>1, <1>8 DEF Link
  <2>2. \A n \in Node : l[n] \in S /\ r[n] \in S => n \in S
    <3> SUFFICES ASSUME NEW n \in Node, f[l[n]] \in Seq(Node), f[r[n]] \in Seq(Node) PROVE f[n] \in Seq(Node)
      BY DEF Link
    <3>1. f[n] = <<n>> \o f[l[n]] \o f[r[n]]
      BY <1>8
    <3> QED BY Zenon, <1>2, <3>1
  <2> HIDE DEF S
  <2> QED BY <2>1, <2>2, TreeInduction
<1>10. f \in [Link -> Seq(Node)]
  <2>1. DOMAIN f = Link /\ f = [n \in Link |-> f[n]]
    BY <1>7
  <2> QED BY <1>9, <2>1
<1> QED BY <1>8, <1>10 DEF IsPreorder

IsPostorder(f, l, r) ==
    /\ f \in [Link -> Seq(Node)] /\ f[Nil] = <<>>
    /\ \A n \in Node : f[n] = f[l[n]] \o f[r[n]] \o <<n>>

\* _printPostorder meets its recursive definition.
LEMMA PostorderEquations ==
    ASSUME NEW l, NEW r, Descends(l, r), NEW f, f = PostorderOf(l, r)
    PROVE  IsPostorder(f, l, r)
<1> DEFINE g == [n \in Node |-> [a \in Seq(Node) |-> [b \in Seq(Node) |-> a \o b \o <<n>>]]]
<1>1. <<>> \in Seq(Node) /\ \A n \in Node, a \in Seq(Node), b \in Seq(Node) : g[n][a][b] \in Seq(Node)
  OBVIOUS
<1>2. \A n \in Node, a \in Seq(Node), b \in Seq(Node) :
         a \o b \o <<n>> \in Seq(Node)
  OBVIOUS
<1>3. \A n \in Node, a \in Seq(Node), b \in Seq(Node) : g[n][a][b] = a \o b \o <<n>>
  OBVIOUS
<1> DEFINE z == <<>>
<1>0. z = <<>> /\ z \in Seq(Node)
  BY <1>1
<1> HIDE DEF g, z
<1>4. PICK h \in [Link -> Seq(Node)] : h[Nil] = z /\ \A n \in Node : h[n] = g[n][h[l[n]]][h[r[n]]]
  <2>1. Closed(g, Seq(Node))
    BY <1>1 DEF Closed
  <2>2. PICK h \in [Link -> Seq(Node)] : Folds(h, z, g, l, r)
    BY <1>0, <2>1, FoldExists
  <2> QED BY <2>2 DEF Folds
<1>5. \A n \in Node : l[n] \in Link /\ r[n] \in Link
  BY DEF Descends
<1>6. h = [n \in Link |-> IF n = Nil THEN <<>> ELSE h[l[n]] \o h[r[n]] \o <<n>>]
  <2> DEFINE k == [n \in Link |-> IF n = Nil THEN <<>> ELSE h[l[n]] \o h[r[n]] \o <<n>>]
  <2> SUFFICES ASSUME NEW n \in Link PROVE h[n] = k[n]
    BY <1>4
  <2>1. n = Nil => h[n] = k[n]
    BY <1>0, <1>4
  <2>2. n # Nil => n \in Node
    BY DEF Link
  <2>3. n # Nil => h[l[n]] \in Seq(Node) /\ h[r[n]] \in Seq(Node)
    BY <1>4, <1>5, <2>2
  <2>4. n # Nil => h[n] = h[l[n]] \o h[r[n]] \o <<n>>
    BY <1>3, <1>4, <2>2, <2>3
  <2> QED BY <2>1, <2>4
<1>7. f = [n \in Link |-> IF n = Nil THEN <<>> ELSE f[l[n]] \o f[r[n]] \o <<n>>]
  <2>1. \E e : e = [n \in Link |-> IF n = Nil THEN <<>> ELSE e[l[n]] \o e[r[n]] \o <<n>>]
    BY <1>6
  <2> QED BY <2>1 DEF PostorderOf
<1>8. f[Nil] = <<>> /\ \A n \in Node : f[n] = f[l[n]] \o f[r[n]] \o <<n>>
  <2>1. Nil \in Link /\ \A n \in Node : n \in Link /\ n # Nil
    BY DEF Link, Node, Nil
  <2> QED BY <1>7, <2>1
<1> DEFINE S == {n \in Link : f[n] \in Seq(Node)}
<1>9. Link \subseteq S
  <2>1. Nil \in S
    BY <1>1, <1>8 DEF Link
  <2>2. \A n \in Node : l[n] \in S /\ r[n] \in S => n \in S
    <3> SUFFICES ASSUME NEW n \in Node, f[l[n]] \in Seq(Node), f[r[n]] \in Seq(Node) PROVE f[n] \in Seq(Node)
      BY DEF Link
    <3>1. f[n] = f[l[n]] \o f[r[n]] \o <<n>>
      BY <1>8
    <3> QED BY Zenon, <1>2, <3>1
  <2> HIDE DEF S
  <2> QED BY <2>1, <2>2, TreeInduction
<1>10. f \in [Link -> Seq(Node)]
  <2>1. DOMAIN f = Link /\ f = [n \in Link |-> f[n]]
    BY <1>7
  <2> QED BY <1>9, <2>1
<1> QED BY <1>8, <1>10 DEF IsPostorder

IsReplacement(f, l, r) ==
    /\ f \in [Link -> Link] /\ f[Nil] = Nil
    /\ \A n \in Node : f[n] = Kept(n, f[l[n]], f[r[n]])

\* _removeHalfNodes meets its recursive definition.
LEMMA ReplacementEquations ==
    ASSUME NEW l, NEW r, Descends(l, r), NEW f, f = ReplacementOf(l, r)
    PROVE  IsReplacement(f, l, r)
<1> DEFINE g == [n \in Node |-> [a \in Link |-> [b \in Link |-> Kept(n, a, b)]]]
<1>1. Nil \in Link /\ \A n \in Node, a \in Link, b \in Link : g[n][a][b] \in Link
  BY DEF Kept, Link
<1>2. \A n \in Node, a \in Link, b \in Link :
         Kept(n, a, b) \in Link
  BY DEF Kept, Link
<1>3. \A n \in Node, a \in Link, b \in Link : g[n][a][b] = Kept(n, a, b)
  OBVIOUS
<1> DEFINE z == Nil
<1>0. z = Nil /\ z \in Link
  BY <1>1
<1> HIDE DEF g, z
<1>4. PICK h \in [Link -> Link] : h[Nil] = z /\ \A n \in Node : h[n] = g[n][h[l[n]]][h[r[n]]]
  <2>1. Closed(g, Link)
    BY <1>1 DEF Closed
  <2>2. PICK h \in [Link -> Link] : Folds(h, z, g, l, r)
    BY <1>0, <2>1, FoldExists
  <2> QED BY <2>2 DEF Folds
<1>5. \A n \in Node : l[n] \in Link /\ r[n] \in Link
  BY DEF Descends
<1>6. h = [n \in Link |-> IF n = Nil THEN Nil ELSE Kept(n, h[l[n]], h[r[n]])]
  <2> DEFINE k == [n \in Link |-> IF n = Nil THEN Nil ELSE Kept(n, h[l[n]], h[r[n]])]
  <2> SUFFICES ASSUME NEW n \in Link PROVE h[n] = k[n]
    BY <1>4
  <2>1. n = Nil => h[n] = k[n]
    BY <1>0, <1>4
  <2>2. n # Nil => n \in Node
    BY DEF Link
  <2>3. n # Nil => h[l[n]] \in Link /\ h[r[n]] \in Link
    BY <1>4, <1>5, <2>2
  <2>4. n # Nil => h[n] = Kept(n, h[l[n]], h[r[n]])
    BY <1>3, <1>4, <2>2, <2>3
  <2> QED BY <2>1, <2>4
<1>7. f = [n \in Link |-> IF n = Nil THEN Nil ELSE Kept(n, f[l[n]], f[r[n]])]
  <2>1. \E e : e = [n \in Link |-> IF n = Nil THEN Nil ELSE Kept(n, e[l[n]], e[r[n]])]
    BY <1>6
  <2> QED BY <2>1 DEF ReplacementOf
<1>8. f[Nil] = Nil /\ \A n \in Node : f[n] = Kept(n, f[l[n]], f[r[n]])
  <2>1. Nil \in Link /\ \A n \in Node : n \in Link /\ n # Nil
    BY DEF Link, Node, Nil
  <2> QED BY <1>7, <2>1
<1> DEFINE S == {n \in Link : f[n] \in Link}
<1>9. Link \subseteq S
  <2>1. Nil \in S
    BY <1>1, <1>8 DEF Link
  <2>2. \A n \in Node : l[n] \in S /\ r[n] \in S => n \in S
    <3> SUFFICES ASSUME NEW n \in Node, f[l[n]] \in Link, f[r[n]] \in Link PROVE f[n] \in Link
      BY DEF Link
    <3>1. f[n] = Kept(n, f[l[n]], f[r[n]])
      BY <1>8
    <3> QED BY Zenon, <1>2, <3>1
  <2> HIDE DEF S
  <2> QED BY <2>1, <2>2, TreeInduction
<1>10. f \in [Link -> Link]
  <2>1. DOMAIN f = Link /\ f = [n \in Link |-> f[n]]
    BY <1>7
  <2> QED BY <1>9, <2>1
<1> QED BY <1>8, <1>10 DEF IsReplacement

(***************************************************************************)
(* The nodes of the subtrees, u[n] those of the subtree of n.              *)
(***************************************************************************)

Unders(u, l, r) == /\ u \in [Link -> SUBSET Node] /\ u[Nil] = {}
                   /\ \A n \in Node : u[n] = u[l[n]] \cup {n} \cup u[r[n]]

\* The nodes of a concatenation.
LEMMA ConcatNodes ==
    ASSUME NEW a \in Seq(Node), NEW b \in Seq(Node)
    PROVE  Range(a \o b) = Range(a) \cup Range(b)
<1>1. \A i \in 1..(Len(a) + Len(b)) : (a \o b)[i] = IF i <= Len(a) THEN a[i] ELSE b[i - Len(a)]
  OBVIOUS
<1>2. /\ DOMAIN (a \o b) = 1..(Len(a) + Len(b))
      /\ DOMAIN a = 1..Len(a) /\ DOMAIN b = 1..Len(b)
      /\ Len(a) \in Nat /\ Len(b) \in Nat
  OBVIOUS
<1>3. ASSUME NEW x \in Range(a \o b) PROVE x \in Range(a) \cup Range(b)
  <2>1. PICK i \in 1..(Len(a) + Len(b)) : x = (a \o b)[i]
    BY <1>2 DEF Range
  <2>2. CASE i <= Len(a)
    BY <1>1, <1>2, <2>1, <2>2 DEF Range
  <2>3. CASE i > Len(a)
    <3>1. x = b[i - Len(a)] /\ i - Len(a) \in 1..Len(b)
      BY <1>1, <1>2, <2>1, <2>3
    <3> QED BY <1>2, <3>1 DEF Range
  <2> QED BY <1>2, <2>2, <2>3
<1>4. ASSUME NEW x \in Range(a) PROVE x \in Range(a \o b)
  <2>1. PICK i \in 1..Len(a) : x = a[i]
    BY <1>2 DEF Range
  <2>2. i \in 1..(Len(a) + Len(b)) /\ x = (a \o b)[i]
    BY <1>1, <1>2, <2>1
  <2> QED BY <1>2, <2>2 DEF Range
<1>5. ASSUME NEW x \in Range(b) PROVE x \in Range(a \o b)
  <2>1. PICK i \in 1..Len(b) : x = b[i]
    BY <1>2 DEF Range
  <2>2. i + Len(a) \in 1..(Len(a) + Len(b)) /\ x = (a \o b)[i + Len(a)]
    BY <1>1, <1>2, <2>1
  <2> QED BY <1>2, <2>2 DEF Range
<1> QED BY <1>3, <1>4, <1>5

\* The nodes that are printed are those of the subtree.
LEMMA UndersExist ==
    ASSUME NEW l, NEW r, Descends(l, r), NEW f, f = InorderOf(l, r)
    PROVE  Unders([n \in Link |-> Range(f[n])], l, r)
<1> DEFINE u == [n \in Link |-> Range(f[n])]
<1>1. /\ f \in [Link -> Seq(Node)] /\ f[Nil] = <<>>
      /\ \A n \in Node : f[n] = f[l[n]] \o <<n>> \o f[r[n]]
  <2>1. IsInorder(f, l, r)
    BY InorderEquations
  <2> QED BY <2>1 DEF IsInorder
<1>3. u[Nil] = {}
  BY <1>1 DEF Link, Range
<1>4. \A n \in Link : u[n] \in SUBSET Node
  <2> TAKE n \in Link
  <2>1. f[n] \in Seq(Node)
    BY <1>1
  <2> QED BY <2>1 DEF Range
<1>5. ASSUME NEW n \in Node PROVE u[n] = u[l[n]] \cup {n} \cup u[r[n]]
  <2>1. n \in Link /\ l[n] \in Link /\ r[n] \in Link
    BY DEF Descends, Link
  <2>2. f[l[n]] \in Seq(Node) /\ f[r[n]] \in Seq(Node) /\ <<n>> \in Seq(Node)
    BY <1>1, <2>1
  <2>3. f[l[n]] \o <<n>> \in Seq(Node) /\ Range(<<n>>) = {n}
    BY <2>2 DEF Range
  <2>4. f[n] = (f[l[n]] \o <<n>>) \o f[r[n]]
    BY <1>1
  <2>5. Range(f[l[n]] \o <<n>>) = Range(f[l[n]]) \cup Range(<<n>>)
    BY <2>2, ConcatNodes
  <2>6. Range((f[l[n]] \o <<n>>) \o f[r[n]]) = Range(f[l[n]] \o <<n>>) \cup Range(f[r[n]])
    BY <2>2, <2>3, ConcatNodes
  <2>7. Range(f[n]) = Range(f[l[n]]) \cup {n} \cup Range(f[r[n]])
    BY <2>3, <2>4, <2>5, <2>6
  <2> QED BY <2>1, <2>7
<1> QED BY <1>3, <1>4, <1>5 DEF Unders

\* A node has the least number in its subtree, and no subtree of its own is greater.
LEMMA UnderOrder ==
    ASSUME NEW l, NEW r, Descends(l, r), NEW u, Unders(u, l, r)
    PROVE  \A n \in Link, m \in Node : m \in u[n] => n # Nil /\ n <= m /\ u[m] \subseteq u[n]
<1> DEFINE S == {n \in Link : \A m \in Node : m \in u[n] => n # Nil /\ n <= m /\ u[m] \subseteq u[n]}
<1>1. Nil \in S
  BY DEF Unders, Link
<1>2. ASSUME NEW n \in Node, l[n] \in S, r[n] \in S PROVE n \in S
  <2> SUFFICES ASSUME NEW m \in Node, m \in u[n] PROVE n # Nil /\ n <= m /\ u[m] \subseteq u[n]
    BY DEF Link
  <2>1. u[n] = u[l[n]] \cup {n} \cup u[r[n]] /\ n # Nil /\ n \in Nat /\ m \in Nat
    BY DEF Unders, Node, Nil
  <2>2. CASE m = n
    BY <2>1, <2>2
  <2>3. CASE m \in u[l[n]]
    <3>1. l[n] # Nil /\ l[n] <= m /\ u[m] \subseteq u[l[n]]
      BY <1>2, <2>3
    <3>2. n < l[n] /\ l[n] \in Nat
      BY <3>1 DEF Descends, Follows, Link, Node
    <3> QED BY <2>1, <3>1, <3>2
  <2>4. CASE m \in u[r[n]]
    <3>1. r[n] # Nil /\ r[n] <= m /\ u[m] \subseteq u[r[n]]
      BY <1>2, <2>4
    <3>2. n < r[n] /\ r[n] \in Nat
      BY <3>1 DEF Descends, Follows, Link, Node
    <3> QED BY <2>1, <3>1, <3>2
  <2> QED BY <2>1, <2>2, <2>3, <2>4
<1> HIDE DEF S
<1>3. Link \subseteq S
  BY <1>1, <1>2, TreeInduction
<1> QED BY <1>3 DEF S

\* A node is in its own subtree, but not in that of a child.
LEMMA UnderChild ==
    ASSUME NEW l, NEW r, Descends(l, r), NEW u, Unders(u, l, r), NEW n \in Node
    PROVE  /\ n \in u[n] /\ u[n] = u[l[n]] \cup {n} \cup u[r[n]]
           /\ l[n] \in Link /\ r[n] \in Link
           /\ n \notin u[l[n]] /\ n \notin u[r[n]]
           /\ l[n] # Nil => l[n] \in Node /\ l[n] \in u[n]
           /\ r[n] # Nil => r[n] \in Node /\ r[n] \in u[n]
<1>1. u[n] = u[l[n]] \cup {n} \cup u[r[n]]
  BY DEF Unders
<1>2. l[n] \in Link /\ r[n] \in Link
  BY DEF Descends
<1>3. n \notin u[l[n]]
  <2>1. n \in u[l[n]] => l[n] # Nil /\ l[n] <= n
    BY <1>2, UnderOrder
  <2>2. l[n] = Nil \/ n < l[n]
    BY DEF Descends, Follows
  <2> QED BY <1>2, <2>1, <2>2 DEF Link, Node
<1>4. n \notin u[r[n]]
  <2>1. n \in u[r[n]] => r[n] # Nil /\ r[n] <= n
    BY <1>2, UnderOrder
  <2>2. r[n] = Nil \/ n < r[n]
    BY DEF Descends, Follows
  <2> QED BY <1>2, <2>1, <2>2 DEF Link, Node
<1>5. \A m \in Node : m \in u[m]
  BY DEF Unders
<1>6. l[n] # Nil => l[n] \in Node /\ l[n] \in u[n]
  BY <1>1, <1>2, <1>5 DEF Link
<1>7. r[n] # Nil => r[n] \in Node /\ r[n] \in u[n]
  BY <1>1, <1>2, <1>5 DEF Link
<1> QED BY <1>1, <1>2, <1>3, <1>4, <1>5, <1>6, <1>7

\* The subtree of a node is a part of any subtree that it is in.
LEMMA UnderWithin ==
    ASSUME NEW l, NEW r, Descends(l, r), NEW u, Unders(u, l, r),
           NEW t \in Link, NEW n \in Node, n \in u[t]
    PROVE  u[n] \subseteq u[t] /\ u[l[n]] \subseteq u[t] /\ u[r[n]] \subseteq u[t]
<1>1. u[n] \subseteq u[t]
  BY UnderOrder
<1>2. u[n] = u[l[n]] \cup {n} \cup u[r[n]]
  BY UnderChild
<1> QED BY <1>1, <1>2

(***************************************************************************)
(* Search trees.                                                           *)
(***************************************************************************)

\* Smaller and equal values are to the left of a node, greater ones to the right.
Splits(u, l, r, v, n) == /\ \A m \in u[l[n]] : v[m] <= v[n]
                         /\ \A m \in u[r[n]] : v[n] < v[m]
Searches(u, l, r, v, t) == \A n \in u[t] : Splits(u, l, r, v, n)

\* A subtree of a search tree is a search tree.
LEMMA SearchesWithin ==
    ASSUME NEW l, NEW r, Descends(l, r), NEW u, Unders(u, l, r), NEW v,
           NEW t \in Link, Searches(u, l, r, v, t), NEW n \in Node, n \in u[t]
    PROVE  /\ Searches(u, l, r, v, n) /\ Splits(u, l, r, v, n)
           /\ Searches(u, l, r, v, l[n]) /\ Searches(u, l, r, v, r[n])
  BY UnderWithin DEF Searches

\* The two subtrees of a node have no node in common.
LEMMA Apart ==
    ASSUME NEW l, NEW r, Descends(l, r), NEW u, Unders(u, l, r), NEW v \in [Node -> Nat],
           NEW n \in Node, Splits(u, l, r, v, n)
    PROVE  u[l[n]] \cap u[r[n]] = {}
<1> SUFFICES ASSUME NEW m, m \in u[l[n]], m \in u[r[n]] PROVE FALSE
  OBVIOUS
<1>1. l[n] \in Link
  BY UnderChild
<1>2. m \in Node
  BY <1>1 DEF Unders
<1>3. v[m] <= v[n] /\ v[n] < v[m]
  BY DEF Splits
<1>4. v[m] \in Nat /\ v[n] \in Nat
  BY <1>2
<1> QED BY <1>3, <1>4

(***************************************************************************)
(* Insertion.                                                              *)
(***************************************************************************)

\* A node that has been allocated, and is not yet in a tree.
Fresh(l, r, k) == /\ l[k] = Nil /\ r[k] = Nil
                  /\ \A n \in Node : l[n] # k /\ r[n] # k

\* Node k is put below p.
Hangs(l, r, l2, r2, p, k) ==
    \/ l[p] = Nil /\ l2 = [l EXCEPT ![p] = k] /\ r2 = r
    \/ r[p] = Nil /\ r2 = [r EXCEPT ![p] = k] /\ l2 = l

Hung(l, r, l2, r2, p, k) ==
    /\ \A n \in Node : n # p => l2[n] = l[n] /\ r2[n] = r[n]
    /\ \/ l[p] = Nil /\ l2[p] = k /\ r2[p] = r[p]
       \/ r[p] = Nil /\ r2[p] = k /\ l2[p] = l[p]

\* With a new leaf the numbers still grow downwards.
LEMMA HangDescends ==
    ASSUME NEW l, NEW r, Descends(l, r), NEW l2, NEW r2, NEW p \in Node, NEW k \in Node, p < k,
           Hangs(l, r, l2, r2, p, k)
    PROVE  Descends(l2, r2) /\ Hung(l, r, l2, r2, p, k)
<1>1. k \in Link
  BY DEF Link
<1>2. l2 \in [Node -> Link] /\ r2 \in [Node -> Link]
  BY <1>1 DEF Descends, Hangs
<1>3. \A n \in Node : n # p => l2[n] = l[n] /\ r2[n] = r[n]
  BY DEF Descends, Hangs
<1>4. \/ l[p] = Nil /\ l2[p] = k /\ r2[p] = r[p]
      \/ r[p] = Nil /\ r2[p] = k /\ l2[p] = l[p]
  BY DEF Descends, Hangs
<1>5. ASSUME NEW n \in Node PROVE Follows(n, l2[n]) /\ Follows(n, r2[n])
  <2>1. Follows(n, l[n]) /\ Follows(n, r[n])
    BY DEF Descends
  <2> QED BY <1>3, <1>4, <2>1 DEF Follows
<1> QED BY <1>2, <1>3, <1>4, <1>5 DEF Descends, Hung

\* It is then in the subtrees in which p is.
LEMMA HangUnder ==
    ASSUME NEW l, NEW r, Descends(l, r), NEW u, Unders(u, l, r),
           NEW l2, NEW r2, NEW u2, Unders(u2, l2, r2),
           NEW p \in Node, NEW k \in Node, p < k, Fresh(l, r, k), Hangs(l, r, l2, r2, p, k)
    PROVE  /\ u2[k] = {k}
           /\ \A n \in Link : n # k => u2[n] = u[n] \cup IF p \in u[n] THEN {k} ELSE {}
<1>1. /\ Descends(l2, r2)
      /\ \A n \in Node : n # p => l2[n] = l[n] /\ r2[n] = r[n]
      /\ \/ l[p] = Nil /\ l2[p] = k /\ r2[p] = r[p]
         \/ r[p] = Nil /\ r2[p] = k /\ l2[p] = l[p]
  BY HangDescends DEF Hung
<1>2. k # p
  BY DEF Node
<1>3. u[Nil] = {} /\ u2[Nil] = {}
  BY DEF Unders
<1>4. u2[k] = {k}
  <2>1. l2[k] = Nil /\ r2[k] = Nil
    BY <1>1, <1>2 DEF Fresh
  <2>2. u2[k] = u2[l2[k]] \cup {k} \cup u2[r2[k]]
    BY DEF Unders
  <2> QED BY <1>3, <2>1, <2>2
<1> DEFINE S == {n \in Link : n # k => u2[n] = u[n] \cup IF p \in u[n] THEN {k} ELSE {}}
<1>5. Nil \in S
  BY <1>3 DEF Link
<1>6. ASSUME NEW n \in Node, l[n] \in S, r[n] \in S PROVE n \in S
  <2> SUFFICES ASSUME n # k PROVE u2[n] = u[n] \cup IF p \in u[n] THEN {k} ELSE {}
    BY DEF Link
  <2>1. l[n] # k /\ r[n] # k
    BY DEF Fresh
  <2>2. /\ u2[l[n]] = u[l[n]] \cup IF p \in u[l[n]] THEN {k} ELSE {}
        /\ u2[r[n]] = u[r[n]] \cup IF p \in u[r[n]] THEN {k} ELSE {}
    BY <1>6, <2>1
  <2>3. u2[n] = u2[l2[n]] \cup {n} \cup u2[r2[n]]
    BY DEF Unders
  <2>4. u[n] = u[l[n]] \cup {n} \cup u[r[n]] /\ n \notin u[l[n]] /\ n \notin u[r[n]]
    BY UnderChild
  <2>5. CASE n # p
    <3>1. l2[n] = l[n] /\ r2[n] = r[n]
      BY <1>1, <2>5
    <3>2. p \in u[n] <=> p \in u[l[n]] \/ p \in u[r[n]]
      BY <2>4, <2>5
    <3> QED BY <2>2, <2>3, <2>4, <3>1, <3>2
  <2>6. CASE n = p
    <3>1. u2[l[n]] = u[l[n]] /\ u2[r[n]] = u[r[n]]
      BY <2>2, <2>4, <2>6
    <3>2. CASE l[p] = Nil /\ l2[p] = k /\ r2[p] = r[p]
      BY <1>3, <1>4, <2>3, <2>4, <2>6, <3>1, <3>2
    <3>3. CASE r[p] = Nil /\ r2[p] = k /\ l2[p] = l[p]
      BY <1>3, <1>4, <2>3, <2>4, <2>6, <3>1, <3>3
    <3> QED BY <1>1, <3>2, <3>3
  <2> QED BY <2>5, <2>6
<1> HIDE DEF S
<1>7. Link \subseteq S
  BY <1>5, <1>6, TreeInduction
<1> QED BY <1>4, <1>7 DEF S

\* Where a value goes on from a node, and the node where its search ends.
Side(l, r, v, d, n) == IF d <= v[n] THEN l[n] ELSE r[n]
PlaceOf(l, r, v, d) ==
    CHOOSE f : f = [n \in Node |-> IF Side(l, r, v, d, n) = Nil THEN n ELSE f[Side(l, r, v, d, n)]]
IsPlace(f, l, r, v, d) ==
    \A n \in Node : f[n] = IF Side(l, r, v, d, n) = Nil THEN n ELSE f[Side(l, r, v, d, n)]

\* The search for a place meets its recursive definition.
LEMMA PlaceEquations ==
    ASSUME NEW l, NEW r, Descends(l, r), NEW v \in [Node -> Nat], NEW d \in Nat,
           NEW f, f = PlaceOf(l, r, v, d)
    PROVE  IsPlace(f, l, r, v, d)
<1> DEFINE Onward(n) == Side(l, r, v, d, n)
           g == [n \in Node |-> [a \in Link |-> [b \in Link |->
                    IF Onward(n) = Nil THEN n ELSE IF d <= v[n] THEN a ELSE b]]]
<1>1. \A n \in Node, a \in Link, b \in Link :
         g[n][a][b] = IF Onward(n) = Nil THEN n ELSE IF d <= v[n] THEN a ELSE b
  OBVIOUS
<1>2. \A n \in Node : l[n] \in Link /\ r[n] \in Link /\ n \in Link
  BY DEF Descends, Link
<1> HIDE DEF g
<1>3. Closed(g, Link)
  BY <1>1, <1>2 DEF Closed
<1>4. PICK h \in [Link -> Link] : Folds(h, Nil, g, l, r)
  <2>1. Nil \in Link
    BY DEF Link
  <2> QED BY <1>3, <2>1, FoldExists
<1>5. ASSUME NEW n \in Node PROVE h[n] = IF Onward(n) = Nil THEN n ELSE h[Onward(n)]
  <2>1. h[n] = g[n][h[l[n]]][h[r[n]]]
    BY <1>4 DEF Folds
  <2>2. h[l[n]] \in Link /\ h[r[n]] \in Link
    BY <1>2, <1>4
  <2>3. h[n] = IF Onward(n) = Nil THEN n ELSE IF d <= v[n] THEN h[l[n]] ELSE h[r[n]]
    BY <1>1, <2>1, <2>2
  <2> QED BY <2>3 DEF Side
<1> DEFINE e == [n \in Node |-> h[n]]
<1>6. ASSUME NEW n \in Node PROVE e[n] = IF Onward(n) = Nil THEN n ELSE e[Onward(n)]
  <2>1. Onward(n) \in Link
    BY <1>2 DEF Side
  <2>2. Onward(n) # Nil => e[Onward(n)] = h[Onward(n)]
    BY <2>1 DEF Link
  <2> QED BY <1>5, <2>2
<1>7. e = [n \in Node |-> IF Onward(n) = Nil THEN n ELSE e[Onward(n)]]
  <2> DEFINE k == [n \in Node |-> IF Onward(n) = Nil THEN n ELSE e[Onward(n)]]
  <2>1. \A n \in Node : e[n] = k[n]
    BY Zenon, <1>6
  <2>2. e = [n \in Node |-> e[n]] /\ k = [n \in Node |-> k[n]]
    OBVIOUS
  <2> HIDE DEF e, k
  <2>3. e = k
    BY <2>1, <2>2
  <2> QED BY <2>3 DEF k
<1> HIDE DEF e
<1>8. f = [n \in Node |-> IF Onward(n) = Nil THEN n ELSE f[Onward(n)]]
  BY Zenon, <1>7 DEF PlaceOf
<1>9. ASSUME NEW n \in Node PROVE f[n] = IF Onward(n) = Nil THEN n ELSE f[Onward(n)]
  BY Zenon, <1>8
<1> QED BY <1>9 DEF IsPlace

\* The search ends at a node of the subtree, with room where the value belongs;
\* and the value belongs where the node is, as seen from any node of the subtree.
Belongs(u, l, r, v, d, p, t) ==
    /\ p \in u[t] /\ Side(l, r, v, d, p) = Nil
    /\ \A n \in u[t] : /\ p \in u[l[n]] => d <= v[n]
                       /\ p \in u[r[n]] => v[n] < d

\* In a search tree the search ends at a node below which the value belongs.
LEMMA PlaceBelongs ==
    ASSUME NEW l, NEW r, Descends(l, r), NEW u, Unders(u, l, r), NEW v \in [Node -> Nat],
           NEW d \in Nat, NEW f, IsPlace(f, l, r, v, d)
    PROVE  \A t \in Node : Searches(u, l, r, v, t) => Belongs(u, l, r, v, d, f[t], t)
<1> DEFINE S == {t \in Link : t # Nil /\ Searches(u, l, r, v, t) => Belongs(u, l, r, v, d, f[t], t)}
<1>1. Nil \in S
  BY DEF Link
<1>2. ASSUME NEW t \in Node, l[t] \in S, r[t] \in S PROVE t \in S
  <2> SUFFICES ASSUME Searches(u, l, r, v, t) PROVE Belongs(u, l, r, v, d, f[t], t)
    BY DEF Link
  <2>1. /\ t \in u[t] /\ u[t] = u[l[t]] \cup {t} \cup u[r[t]]
        /\ t \notin u[l[t]] /\ t \notin u[r[t]] /\ l[t] \in Link /\ r[t] \in Link
    BY UnderChild
  <2>2. t \in Link /\ v[t] \in Nat
    BY DEF Link
  <2>3. /\ Splits(u, l, r, v, t)
        /\ Searches(u, l, r, v, l[t]) /\ Searches(u, l, r, v, r[t])
    BY <2>1, <2>2, SearchesWithin
  <2>4. u[l[t]] \cap u[r[t]] = {}
    BY <2>3, Apart
  <2>5. \A n \in u[l[t]] : n \in Node /\ n \in u[t] /\ u[l[n]] \subseteq u[l[t]] /\ u[r[n]] \subseteq u[l[t]]
    BY <2>1, UnderWithin DEF Unders
  <2>6. \A n \in u[r[t]] : n \in Node /\ n \in u[t] /\ u[l[n]] \subseteq u[r[t]] /\ u[r[n]] \subseteq u[r[t]]
    BY <2>1, UnderWithin DEF Unders
  <2>7. \A n \in u[t] : n \in Node /\ n \notin u[l[n]] /\ n \notin u[r[n]]
    BY <2>2, UnderChild DEF Unders
  <2>8. CASE Side(l, r, v, d, t) = Nil
    <3>1. f[t] = t
      BY <2>8 DEF IsPlace
    <3>2. \A n \in u[t] : t \notin u[l[n]] /\ t \notin u[r[n]]
      BY <2>1, <2>5, <2>6, <2>7
    <3> QED BY <2>1, <2>8, <3>1, <3>2 DEF Belongs
  <2>9. CASE d <= v[t] /\ l[t] # Nil
    <3>1. f[t] = f[l[t]] /\ Side(l, r, v, d, t) = l[t]
      BY <2>9 DEF IsPlace, Side
    <3>2. Belongs(u, l, r, v, d, f[l[t]], l[t])
      BY <1>2, <2>3, <2>9
    <3>3. \A n \in u[r[t]] : f[t] \notin u[l[n]] /\ f[t] \notin u[r[n]]
      BY <2>4, <2>6, <3>1, <3>2 DEF Belongs
    <3>4. f[t] \notin u[r[t]] /\ f[t] \in u[t]
      BY <2>1, <2>4, <3>1, <3>2 DEF Belongs
    <3>5. \A n \in u[t] : /\ f[t] \in u[l[n]] => d <= v[n]
                          /\ f[t] \in u[r[n]] => v[n] < d
      BY <2>1, <2>9, <3>1, <3>2, <3>3, <3>4 DEF Belongs
    <3>6. Side(l, r, v, d, f[t]) = Nil
      BY <3>1, <3>2 DEF Belongs
    <3> QED BY <3>4, <3>5, <3>6 DEF Belongs
  <2>10. CASE ~(d <= v[t]) /\ r[t] # Nil
    <3>1. f[t] = f[r[t]] /\ Side(l, r, v, d, t) = r[t]
      BY <2>10 DEF IsPlace, Side
    <3>2. Belongs(u, l, r, v, d, f[r[t]], r[t])
      BY <1>2, <2>3, <2>10
    <3>3. \A n \in u[l[t]] : f[t] \notin u[l[n]] /\ f[t] \notin u[r[n]]
      BY <2>4, <2>5, <3>1, <3>2 DEF Belongs
    <3>4. f[t] \notin u[l[t]] /\ f[t] \in u[t]
      BY <2>1, <2>4, <3>1, <3>2 DEF Belongs
    <3>5. v[t] < d
      BY <2>2, <2>10
    <3>6. \A n \in u[t] : /\ f[t] \in u[l[n]] => d <= v[n]
                          /\ f[t] \in u[r[n]] => v[n] < d
      BY <2>1, <3>1, <3>2, <3>3, <3>4, <3>5 DEF Belongs
    <3>7. Side(l, r, v, d, f[t]) = Nil
      BY <3>1, <3>2 DEF Belongs
    <3> QED BY <3>4, <3>6, <3>7 DEF Belongs
  <2> QED BY <2>8, <2>9, <2>10 DEF Side
<1> HIDE DEF S
<1>3. Link \subseteq S
  BY <1>1, <1>2, TreeInduction
<1>4. \A t \in Node : t \in Link /\ t # Nil
  BY DEF Link, Node, Nil
<1> QED BY <1>3, <1>4 DEF S

\* A value that is put where it belongs leaves a search tree.
LEMMA HangSearches ==
    ASSUME NEW l, NEW r, Descends(l, r), NEW u, Unders(u, l, r), NEW v \in [Node -> Nat],
           NEW l2, NEW r2, NEW u2, Unders(u2, l2, r2), NEW v2,
           NEW p \in Node, NEW k \in Node, p < k, Fresh(l, r, k), Hangs(l, r, l2, r2, p, k),
           NEW d \in Nat, v2 = [v EXCEPT ![k] = d],
           IF d <= v[p] THEN l2[p] = k ELSE r2[p] = k,
           NEW t \in Node, t # k, Searches(u, l, r, v, t), Belongs(u, l, r, v, d, p, t)
    PROVE  Searches(u2, l2, r2, v2, t)
<1>1. /\ u2[k] = {k}
      /\ \A n \in Link : n # k => u2[n] = u[n] \cup IF p \in u[n] THEN {k} ELSE {}
  BY HangUnder
<1>2. /\ Descends(l2, r2)
      /\ \A n \in Node : n # p => l2[n] = l[n] /\ r2[n] = r[n]
      /\ \/ l[p] = Nil /\ l2[p] = k /\ r2[p] = r[p]
         \/ r[p] = Nil /\ r2[p] = k /\ l2[p] = l[p]
  <2>1. Descends(l2, r2) /\ Hung(l, r, l2, r2, p, k)
    BY HangDescends
  <2> QED BY <2>1 DEF Hung
<1>3. /\ v2[k] = d
      /\ \A n \in Node : n # k => v2[n] = v[n]
  OBVIOUS
<1>4. \A n \in Node : l[n] # k /\ r[n] # k /\ l[n] \in Link /\ r[n] \in Link
  BY UnderChild DEF Fresh
<1>5. k # p /\ k # Nil /\ t \in Link /\ k \in Link
  BY DEF Node, Link, Nil
<1>6. \A n \in Link : k \notin u[n] \/ n = k
  <2> DEFINE S == {n \in Link : k \notin u[n] \/ n = k}
  <2>1. Nil \in S
    BY DEF Unders, Link
  <2>2. ASSUME NEW n \in Node, l[n] \in S, r[n] \in S PROVE n \in S
    BY <1>4, <2>2 DEF Unders, Link
  <2> HIDE DEF S
  <2>3. Link \subseteq S
    BY <2>1, <2>2, TreeInduction
  <2> QED BY <2>3 DEF S
<1> SUFFICES ASSUME NEW n, n \in u2[t] PROVE Splits(u2, l2, r2, v2, n)
  BY DEF Searches
<1>7. u2[t] = u[t] \cup {k}
  BY <1>1, <1>5 DEF Belongs
<1>8. CASE n = k
  <2>1. l2[k] = Nil /\ r2[k] = Nil
    BY <1>2, <1>5 DEF Fresh
  <2> QED BY <1>8, <2>1 DEF Splits, Unders
<1>9. CASE n \in u[t]
  <2>1. n \in Node /\ n # k
    BY <1>5, <1>6, <1>9 DEF Unders
  <2>2. Splits(u, l, r, v, n)
    BY <1>9 DEF Searches
  <2>3. /\ p \in u[l[n]] => d <= v[n]
        /\ p \in u[r[n]] => v[n] < d
    BY <1>9 DEF Belongs
  <2>4. \A m \in u[l[n]] : m \in Node /\ m # k /\ v2[m] = v[m]
    BY <1>3, <1>4, <1>6, <2>1 DEF Unders
  <2>5. \A m \in u[r[n]] : m \in Node /\ m # k /\ v2[m] = v[m]
    BY <1>3, <1>4, <1>6, <2>1 DEF Unders
  <2>6. v2[n] = v[n] /\ v[n] \in Nat
    BY <1>3, <2>1
  <2>7. u2[l[n]] = u[l[n]] \cup IF p \in u[l[n]] THEN {k} ELSE {}
    BY <1>1, <1>4, <2>1
  <2>8. u2[r[n]] = u[r[n]] \cup IF p \in u[r[n]] THEN {k} ELSE {}
    BY <1>1, <1>4, <2>1
  <2>9. \A m \in u2[l2[n]] : v2[m] <= v2[n]
    <3>1. CASE l2[n] = l[n]
      BY <1>3, <2>2, <2>3, <2>4, <2>6, <2>7, <3>1 DEF Splits
    <3>2. CASE l2[n] # l[n]
      <4>1. n = p /\ l2[p] = k /\ r2[p] = r[p]
        BY <1>2, <2>1, <3>2
      <4>2. d <= v[p]
        BY <1>4, <4>1
      <4> QED BY <1>1, <1>3, <2>6, <4>1, <4>2
    <3> QED BY <3>1, <3>2
  <2>10. \A m \in u2[r2[n]] : v2[n] < v2[m]
    <3>1. CASE r2[n] = r[n]
      BY <1>3, <2>2, <2>3, <2>5, <2>6, <2>8, <3>1 DEF Splits
    <3>2. CASE r2[n] # r[n]
      <4>1. n = p /\ r2[p] = k /\ l2[p] = l[p]
        BY <1>2, <2>1, <3>2
      <4>2. v[p] < d
        BY <1>4, <2>6, <4>1
      <4> QED BY <1>1, <1>3, <2>6, <4>1, <4>2
    <3> QED BY <3>1, <3>2
  <2> QED BY <2>9, <2>10 DEF Splits
<1> QED BY <1>7, <1>8, <1>9

(***************************************************************************)
(* Removal of half nodes.                                                  *)
(***************************************************************************)

\* A node is replaced by one of its subtree, and only nothing by nothing.
LEMMA ReplacementWithin ==
    ASSUME NEW l, NEW r, Descends(l, r), NEW u, Unders(u, l, r), NEW f, IsReplacement(f, l, r)
    PROVE  \A n \in Node : f[n] \in Node /\ f[n] \in u[n]
<1> DEFINE S == {n \in Link : n # Nil => f[n] \in Node /\ f[n] \in u[n]}
<1>1. Nil \in S
  BY DEF Link
<1>2. ASSUME NEW n \in Node, l[n] \in S, r[n] \in S PROVE n \in S
  <2> SUFFICES f[n] \in Node /\ f[n] \in u[n]
    BY DEF Link
  <2>1. f[n] = Kept(n, f[l[n]], f[r[n]]) /\ f[Nil] = Nil
    BY DEF IsReplacement
  <2>2. n \in u[n] /\ u[n] = u[l[n]] \cup {n} \cup u[r[n]] /\ l[n] \in Link /\ r[n] \in Link
    BY UnderChild
  <2>3. Nil \notin Node
    BY DEF Nil, Node
  <2>4. f[l[n]] # Nil => f[l[n]] \in Node /\ f[l[n]] \in u[n]
    BY <1>2, <2>1, <2>2
  <2>5. f[r[n]] # Nil => f[r[n]] \in Node /\ f[r[n]] \in u[n]
    BY <1>2, <2>1, <2>2
  <2> QED BY <2>1, <2>2, <2>4, <2>5 DEF Kept
<1> HIDE DEF S
<1>3. Link \subseteq S
  BY <1>1, <1>2, TreeInduction
<1>4. \A n \in Node : n \in Link /\ n # Nil
  BY DEF Link, Node, Nil
<1> QED BY <1>3, <1>4 DEF S

\* The links of the nodes of a tree t lead to the replacements.
Halved(l, r, l2, r2, f, t) ==
    /\ l2 = [n \in Node |-> IF n \in t THEN f[l[n]] ELSE l[n]]
    /\ r2 = [n \in Node |-> IF n \in t THEN f[r[n]] ELSE r[n]]

\* Without half nodes the numbers still grow downwards.
LEMMA HalvedDescends ==
    ASSUME NEW l, NEW r, Descends(l, r), NEW u, Unders(u, l, r), NEW f, IsReplacement(f, l, r),
           NEW t, NEW l2, NEW r2, Halved(l, r, l2, r2, f, t)
    PROVE  Descends(l2, r2)
<1>1. f[Nil] = Nil /\ \A n \in Link : f[n] \in Link
  BY DEF IsReplacement
<1>2. ASSUME NEW n \in Node, NEW c \in Link, Follows(n, c) PROVE Follows(n, f[c])
  <2>1. CASE c = Nil
    BY <1>1, <2>1 DEF Follows
  <2>2. CASE c # Nil
    <3>1. c \in Node /\ n < c
      BY <1>2, <2>2 DEF Follows, Link
    <3>2. f[c] \in Node /\ f[c] \in u[c]
      BY <3>1, ReplacementWithin
    <3>3. c <= f[c]
      BY <3>2, UnderOrder
    <3> QED BY <3>1, <3>2, <3>3 DEF Follows, Node
  <2> QED BY <2>1, <2>2
<1>3. \A n \in Node : l[n] \in Link /\ r[n] \in Link /\ Follows(n, l[n]) /\ Follows(n, r[n])
  BY DEF Descends
<1>4. \A n \in Node : /\ l2[n] = IF n \in t THEN f[l[n]] ELSE l[n]
                      /\ r2[n] = IF n \in t THEN f[r[n]] ELSE r[n]
  BY DEF Halved
<1>5. l2 \in [Node -> Link] /\ r2 \in [Node -> Link]
  BY <1>1, <1>3 DEF Halved
<1>6. ASSUME NEW n \in Node PROVE Follows(n, l2[n]) /\ Follows(n, r2[n])
  <2>1. Follows(n, f[l[n]]) /\ Follows(n, f[r[n]])
    BY <1>2, <1>3
  <2> QED BY <1>3, <1>4, <2>1
<1> QED BY <1>5, <1>6 DEF Descends

\* What is below the replacement was below the node, and none of it has one
\* child only.
LEMMA HalvedUnder ==
    ASSUME NEW l, NEW r, Descends(l, r), NEW u, Unders(u, l, r), NEW f, IsReplacement(f, l, r),
           NEW t \in Link, NEW l2, NEW r2, Halved(l, r, l2, r2, f, u[t]), NEW u2, Unders(u2, l2, r2)
    PROVE  \A n \in Link : u[n] \subseteq u[t] =>
              /\ u2[f[n]] \subseteq u[n]
              /\ \A m \in u2[f[n]] : (l2[m] = Nil) = (r2[m] = Nil)
<1> DEFINE S == {n \in Link : u[n] \subseteq u[t] =>
                     /\ u2[f[n]] \subseteq u[n]
                     /\ \A m \in u2[f[n]] : (l2[m] = Nil) = (r2[m] = Nil)}
<1>1. Nil \in S
  BY DEF Link, IsReplacement, Unders
<1>2. ASSUME NEW n \in Node, l[n] \in S, r[n] \in S PROVE n \in S
  <2> SUFFICES ASSUME u[n] \subseteq u[t]
               PROVE  /\ u2[f[n]] \subseteq u[n]
                      /\ \A m \in u2[f[n]] : (l2[m] = Nil) = (r2[m] = Nil)
    BY DEF Link
  <2>1. f[n] = Kept(n, f[l[n]], f[r[n]])
    BY DEF IsReplacement
  <2>2. n \in u[n] /\ u[n] = u[l[n]] \cup {n} \cup u[r[n]]
    BY UnderChild
  <2>3. /\ u2[f[l[n]]] \subseteq u[l[n]]
        /\ \A m \in u2[f[l[n]]] : (l2[m] = Nil) = (r2[m] = Nil)
    BY <1>2, <2>2
  <2>4. /\ u2[f[r[n]]] \subseteq u[r[n]]
        /\ \A m \in u2[f[r[n]]] : (l2[m] = Nil) = (r2[m] = Nil)
    BY <1>2, <2>2
  <2>5. CASE f[n] = f[l[n]] \/ f[n] = f[r[n]]
    BY <2>2, <2>3, <2>4, <2>5
  <2>6. CASE (f[l[n]] = Nil) = (f[r[n]] = Nil)
    <3>1. f[n] = n
      BY <2>1, <2>6 DEF Kept
    <3>2. l2[n] = f[l[n]] /\ r2[n] = f[r[n]]
      BY <2>2 DEF Halved
    <3>3. u2[n] = u2[l2[n]] \cup {n} \cup u2[r2[n]]
      BY DEF Unders
    <3> QED BY <2>2, <2>3, <2>4, <2>6, <3>1, <3>2, <3>3
  <2> QED BY <2>1, <2>5, <2>6 DEF Kept
<1> HIDE DEF S
<1>3. Link \subseteq S
  BY <1>1, <1>2, TreeInduction
<1> QED BY <1>3 DEF S

\* Without half nodes a search tree is still a search tree.
LEMMA HalvedSearches ==
    ASSUME NEW l, NEW r, Descends(l, r), NEW u, Unders(u, l, r), NEW f, IsReplacement(f, l, r),
           NEW t \in Link, NEW l2, NEW r2, Halved(l, r, l2, r2, f, u[t]), NEW u2, Unders(u2, l2, r2),
           NEW v, Searches(u, l, r, v, t)
    PROVE  Searches(u2, l2, r2, v, f[t])
<1> SUFFICES ASSUME NEW n, n \in u2[f[t]] PROVE Splits(u2, l2, r2, v, n)
  BY DEF Searches
<1>1. n \in u[t]
  BY HalvedUnder
<1>2. n \in Node
  BY <1>1 DEF Unders
<1>3. l2[n] = f[l[n]] /\ r2[n] = f[r[n]]
  BY <1>1, <1>2 DEF Halved
<1>4. u[l[n]] \subseteq u[t] /\ u[r[n]] \subseteq u[t]
  BY <1>1, <1>2, UnderWithin
<1>5. l[n] \in Link /\ r[n] \in Link
  BY <1>2, UnderChild
<1>6. u2[l2[n]] \subseteq u[l[n]] /\ u2[r2[n]] \subseteq u[r[n]]
  BY <1>3, <1>4, <1>5, HalvedUnder
<1>7. Splits(u, l, r, v, n)
  BY <1>1 DEF Searches
<1> QED BY <1>6, <1>7 DEF Splits

(***************************************************************************)
(* The tree of the application is always a search tree.                    *)
(***************************************************************************)

Nodes == [n \in Link |-> Under(n)]

\* No link leads to a node that is not allocated.
Allocated ==
    /\ root <= used
    /\ \A n \in Node : /\ left[n] <= used /\ right[n] <= used
                       /\ n > used => left[n] = Nil /\ right[n] = Nil

Trees == /\ Descends(left, right)
         /\ root \in Link /\ used \in 0..MaxNodes /\ data \in [Node -> Data \cup {0}]
         /\ Allocated
         /\ Searches(Nodes, left, right, data, root)

\* Nodes are the nodes of the subtrees.
LEMMA NodesUnders == Descends(left, right) => Unders(Nodes, left, right)
<1> SUFFICES ASSUME Descends(left, right) PROVE Unders(Nodes, left, right)
  OBVIOUS
<1>1. Nodes = [n \in Link |-> Range(Inorder[n])]
  BY DEF Nodes, Under
<1> QED BY <1>1, OfTree, UndersExist

\* And after a step those of the new subtrees.
LEMMA NodesUndersPrimed == Descends(left, right)' => Unders(Nodes', left', right')
<1> SUFFICES ASSUME Descends(left', right') PROVE Unders(Nodes', left', right')
  BY DEF Descends
<1>1. Nodes' = [n \in Link |-> Range(Inorder'[n])]
  BY DEF Nodes, Under
<1> QED BY <1>1, OfTreePrimed, UndersExist

\* AddNode hangs the node at the end of the search for its place.
LEMMA AddNodePlace ==
    ASSUME NEW n, NEW d, root # Nil, AddNode(n, d), NEW p, p = PlaceOf(left, right, data, d)[root]
    PROVE  /\ root' = root
           /\ IF d <= data[p]
              THEN left' = [left EXCEPT ![p] = n] /\ right' = right
              ELSE right' = [right EXCEPT ![p] = n] /\ left' = left
  BY DEF AddNode, PlaceOf, Side

\* The values compare as natural numbers.
LEMMA ValuesNatural == ASSUME Trees PROVE data \in [Node -> Nat]
<1>1. data \in [Node -> Data \cup {0}]
  BY DEF Trees
<1>2. ASSUME NEW n \in Node PROVE data[n] \in Nat
  <2>1. data[n] \in Data \/ data[n] = 0
    BY <1>1
  <2>2. \A x \in Data : x \in Nat
    BY DataAssumption
  <2> QED BY <2>1, <2>2
<1> QED BY <1>1, <1>2

\* The nodes of the tree are allocated.
LEMMA UnderAllocated ==
    ASSUME Trees
    PROVE  \A n \in Link : n <= used => \A m \in Nodes[n] : m \in Node /\ m <= used
<1>1. Descends(left, right) /\ Unders(Nodes, left, right)
  BY NodesUnders DEF Trees
<1> DEFINE u == Nodes
           S == {n \in Link : n <= used => \A m \in u[n] : m \in Node /\ m <= used}
<1>2. Nil \in S
  BY <1>1 DEF Link, Unders
<1>3. ASSUME NEW n \in Node, left[n] \in S, right[n] \in S PROVE n \in S
  <2>1. left[n] <= used /\ right[n] <= used
    BY DEF Trees, Allocated
  <2>2. u[n] = u[left[n]] \cup {n} \cup u[right[n]]
    BY <1>1 DEF Unders
  <2> HIDE DEF u
  <2> QED BY <1>3, <2>1, <2>2 DEF Link
<1> HIDE DEF S
<1>4. Link \subseteq S
  BY <1>1, <1>2, <1>3, TreeInduction
<1> QED BY <1>4 DEF S

\* The empty tree.
LEMMA TreesInit == TreeInit => Trees
<1> SUFFICES ASSUME TreeInit PROVE Trees
  OBVIOUS
<1>1. /\ root = Nil /\ used = 0
      /\ left = [n \in Node |-> Nil] /\ right = [n \in Node |-> Nil] /\ data = [n \in Node |-> 0]
  BY DEF TreeInit
<1>2. Nil \in Link /\ used \in 0..MaxNodes /\ Nil = 0
  BY <1>1, MaxNodesAssumption DEF Link, Nil
<1>3. Descends(left, right)
  BY <1>1, <1>2 DEF Descends, Follows
<1>4. Allocated
  BY <1>1, <1>2 DEF Allocated
<1>5. Nodes[Nil] = {}
  BY <1>3, NodesUnders DEF Unders
<1>6. Searches(Nodes, left, right, data, root)
  BY <1>1, <1>5 DEF Searches
<1>7. data \in [Node -> Data \cup {0}]
  BY <1>1
<1> QED BY <1>1, <1>2, <1>3, <1>4, <1>6, <1>7 DEF Trees

\* A step that leaves the tree alone.
LEMMA TreesKept == Trees /\ UNCHANGED tree => Trees'
<1> SUFFICES ASSUME Trees, UNCHANGED tree PROVE Trees'
  OBVIOUS
<1>1. root' = root /\ left' = left /\ right' = right /\ data' = data /\ used' = used
  BY DEF tree
<1>2. Nodes' = Nodes
  BY <1>1 DEF Nodes, Under, Inorder
<1>3. Searches(Nodes, left, right, data, root)'
  BY <1>1, <1>2 DEF Trees, Searches, Splits
<1>4. Descends(left, right)'
  BY <1>1 DEF Trees, Descends
<1>5. Allocated'
  BY <1>1 DEF Trees, Allocated
<1> QED BY <1>1, <1>3, <1>4, <1>5 DEF Trees

\* add_tree_node_by_value.
LEMMA TreesInsert ==
    ASSUME Trees, NEW d \in Data, Insert(d)
    PROVE  Trees'
<1> DEFINE k == used + 1
<1>1. /\ used < MaxNodes /\ used' = k /\ data' = [data EXCEPT ![k] = d] /\ AddNode(k, d)
  BY DEF Insert
<1>2. /\ Descends(left, right) /\ Unders(Nodes, left, right)
      /\ Searches(Nodes, left, right, data, root)
      /\ root \in Link /\ used \in Nat /\ data \in [Node -> Data \cup {0}]
  BY NodesUnders DEF Trees
<1>3. data \in [Node -> Nat] /\ d \in Nat
  BY ValuesNatural, DataAssumption
<1>4. k \in Node /\ k \in Link /\ used' \in 0..MaxNodes
  BY <1>1, <1>2, MaxNodesAssumption DEF Node, Link
<1>5. Fresh(left, right, k)
  <2>1. left[k] = Nil /\ right[k] = Nil
    BY <1>2, <1>4 DEF Trees, Allocated, Node
  <2>2. ASSUME NEW n \in Node PROVE left[n] # k /\ right[n] # k
    <3>1. left[n] <= used /\ right[n] <= used
      BY DEF Trees, Allocated
    <3> QED BY <1>2, <3>1
  <2> QED BY <2>1, <2>2 DEF Fresh
<1>6. data' \in [Node -> Data \cup {0}]
  BY <1>1, <1>2, <1>4
<1>7. CASE root = Nil
  <2>1. root' = k /\ left' = left /\ right' = right
    BY <1>1, <1>7 DEF AddNode
  <2>2. Descends(left, right)'
    BY <1>2, <2>1 DEF Descends
  <2>3. Unders(Nodes', left', right')
    BY <2>2, NodesUndersPrimed
  <2>4. Nodes'[k] = {k} /\ Nodes'[left'[k]] = {} /\ Nodes'[right'[k]] = {}
    BY <1>4, <1>5, <2>1, <2>3 DEF Unders, Fresh
  <2>5. Searches(Nodes', left', right', data', k)
    BY <2>4 DEF Searches, Splits
  <2>6. Searches(Nodes, left, right, data, root)'
    BY <2>1, <2>5 DEF Searches, Splits
  <2>7. Allocated'
    BY <1>1, <1>2, <1>4, <2>1 DEF Trees, Allocated, Link, Node, Nil, Descends
  <2> QED BY <1>4, <1>6, <2>1, <2>2, <2>6, <2>7 DEF Trees
<1>8. CASE root # Nil
  <2> DEFINE place == PlaceOf(left, right, data, d)
             p == place[root]
  <2>1. root \in Node
    BY <1>2, <1>8 DEF Link
  <2>2. Belongs(Nodes, left, right, data, d, p, root)
    <3>1. IsPlace(place, left, right, data, d)
      BY <1>2, <1>3, PlaceEquations
    <3> HIDE DEF place
    <3> QED BY <1>2, <1>3, <2>1, <3>1, PlaceBelongs
  <2>3. /\ root' = root
        /\ IF d <= data[p]
           THEN left' = [left EXCEPT ![p] = k] /\ right' = right
           ELSE right' = [right EXCEPT ![p] = k] /\ left' = left
    BY <1>1, <1>8, AddNodePlace
  <2> HIDE DEF p, place
  <2>4. p \in Node /\ p < k
    <3>1. p \in Nodes[root] /\ root <= used
      BY <2>2 DEF Belongs, Trees, Allocated
    <3> QED BY <1>2, <3>1, UnderAllocated DEF Node
  <2>5. Hangs(left, right, left', right', p, k)
    BY <2>2, <2>3 DEF Belongs, Side, Hangs
  <2>6. Descends(left', right') /\ Hung(left, right, left', right', p, k)
    BY <1>2, <1>4, <2>4, <2>5, HangDescends
  <2>7. Unders(Nodes', left', right')
    BY <2>6, NodesUndersPrimed DEF Descends
  <2>8. root # k
    BY <1>2, <2>1 DEF Trees, Allocated, Node
  <2>9. IF d <= data[p] THEN left'[p] = k ELSE right'[p] = k
    BY <1>2, <2>3, <2>4 DEF Descends
  <2>10. Searches(Nodes', left', right', data', root)
    <3>1. data' = [data EXCEPT ![k] = d]
      BY <1>1
    <3> HIDE DEF k
    <3> QED BY <1>2, <1>3, <1>4, <1>5, <2>1, <2>2, <2>4, <2>5, <2>7, <2>8, <2>9, <3>1, HangSearches
  <2>11. Searches(Nodes, left, right, data, root)'
    BY <2>3, <2>10 DEF Searches, Splits
  <2>12. Allocated'
    <3>1. root' <= used'
      BY <1>1, <1>2, <2>1, <2>3 DEF Trees, Allocated, Node
    <3>2. ASSUME NEW n \in Node
          PROVE  /\ left'[n] <= used' /\ right'[n] <= used'
                 /\ n > used' => left'[n] = Nil /\ right'[n] = Nil
      <4>1. /\ left[n] <= used /\ right[n] <= used
            /\ n > used => left[n] = Nil /\ right[n] = Nil
            /\ left[n] \in Nat /\ right[n] \in Nat /\ n \in Nat
        BY <1>2 DEF Trees, Allocated, Descends, Link, Node, Nil
      <4>2. CASE n # p
        BY <1>1, <1>2, <2>6, <4>1, <4>2 DEF Hung
      <4>3. CASE n = p
        BY <1>1, <1>2, <2>4, <2>6, <4>1, <4>3 DEF Hung, Nil
      <4> QED BY <4>2, <4>3
    <3> QED BY <3>1, <3>2 DEF Allocated
  <2>13. Descends(left, right)'
    BY <2>6 DEF Descends
  <2> QED BY <1>2, <1>4, <1>6, <2>3, <2>11, <2>12, <2>13 DEF Trees
<1> QED BY <1>7, <1>8

\* removeHalfNodes.
LEMMA TreesRemove ==
    ASSUME Trees, RemoveHalfNodes
    PROVE  /\ Trees'
           /\ \A n \in Nodes'[root'] : (left'[n] = Nil) = (right'[n] = Nil)
<1>1. /\ root # Nil /\ root' = Replacement[root] /\ data' = data /\ used' = used
      /\ left' = [n \in Node |-> IF n \in Under(root) THEN Replacement[left[n]] ELSE left[n]]
      /\ right' = [n \in Node |-> IF n \in Under(root) THEN Replacement[right[n]] ELSE right[n]]
  BY DEF RemoveHalfNodes
<1>2. /\ Descends(left, right) /\ Unders(Nodes, left, right)
      /\ Searches(Nodes, left, right, data, root)
      /\ root \in Node /\ root \in Link /\ used \in Nat
  BY <1>1, NodesUnders DEF Trees, Link
<1>3. IsReplacement(Replacement, left, right)
  BY <1>2, OfTree, ReplacementEquations
<1>4. Nodes[root] = Under(root)
  BY <1>2 DEF Nodes
<1>5. Halved(left, right, left', right', Replacement, Nodes[root])
  BY <1>1, <1>4 DEF Halved
<1>6. Descends(left', right')
  BY <1>2, <1>3, <1>5, HalvedDescends
<1>7. Unders(Nodes', left', right')
  BY <1>6, NodesUndersPrimed DEF Descends
<1>8. Searches(Nodes', left', right', data', root')
  BY <1>1, <1>2, <1>3, <1>5, <1>7, HalvedSearches
<1>9. \A n \in Nodes'[root'] : (left'[n] = Nil) = (right'[n] = Nil)
  BY <1>1, <1>2, <1>3, <1>5, <1>7, HalvedUnder
<1>10. \A n \in Link : n <= used => Replacement[n] \in Link /\ Replacement[n] <= used
  <2> SUFFICES ASSUME NEW n \in Link, n <= used PROVE Replacement[n] \in Link /\ Replacement[n] <= used
    OBVIOUS
  <2>1. CASE n = Nil
    BY <2>1, <1>3 DEF IsReplacement
  <2>2. CASE n \in Node
    <3>1. Replacement[n] \in Node /\ Replacement[n] \in Nodes[n]
      BY <1>2, <1>3, <2>2, ReplacementWithin
    <3> QED BY <3>1, UnderAllocated DEF Link
  <2> QED BY <2>1, <2>2 DEF Link
<1>11. Allocated'
  <2>1. root' \in Link /\ root' <= used'
    BY <1>1, <1>2, <1>10 DEF Trees, Allocated
  <2>2. ASSUME NEW n \in Node
        PROVE  /\ left'[n] <= used' /\ right'[n] <= used'
               /\ n > used' => left'[n] = Nil /\ right'[n] = Nil
    <3>1. /\ left[n] \in Link /\ right[n] \in Link /\ left[n] <= used /\ right[n] <= used
          /\ n > used => left[n] = Nil /\ right[n] = Nil
      BY DEF Trees, Allocated, Descends
    <3>2. /\ left'[n] = left[n] \/ left'[n] = Replacement[left[n]]
          /\ right'[n] = right[n] \/ right'[n] = Replacement[right[n]]
      BY <1>1
    <3>3. Replacement[Nil] = Nil
      BY <1>3 DEF IsReplacement
    <3>4. left'[n] <= used' /\ right'[n] <= used'
      BY <1>1, <1>10, <3>1, <3>2
    <3> QED BY <1>1, <3>1, <3>2, <3>3, <3>4
  <2> QED BY <2>1, <2>2 DEF Allocated
<1>12. Searches(Nodes, left, right, data, root)'
  BY <1>8 DEF Searches, Splits
<1>13. Descends(left, right)'
  BY <1>6 DEF Descends
<1>14. root' \in Link
  BY <1>1, <1>2, <1>3 DEF IsReplacement
<1>15. Trees'
  BY <1>1, <1>11, <1>12, <1>13, <1>14 DEF Trees
<1> QED BY <1>9, <1>15

(***************************************************************************)
(* What is printed: each node of the tree once, in the order of the values.*)
(***************************************************************************)

Ascends(s, v) == \A i, j \in 1..Len(s) : i < j => v[s[i]] <= v[s[j]]

\* Two sequences with nothing twice and nothing in common.
LEMMA ConcatInjective ==
    ASSUME NEW a \in Seq(Node), NEW b \in Seq(Node), IsInjective(a), IsInjective(b),
           Range(a) \cap Range(b) = {}
    PROVE  IsInjective(a \o b)
<1>1. /\ DOMAIN (a \o b) = 1..(Len(a) + Len(b))
      /\ DOMAIN a = 1..Len(a) /\ DOMAIN b = 1..Len(b)
      /\ Len(a) \in Nat /\ Len(b) \in Nat
  OBVIOUS
<1>2. \A i \in 1..(Len(a) + Len(b)) : (a \o b)[i] = IF i <= Len(a) THEN a[i] ELSE b[i - Len(a)]
  OBVIOUS
<1> SUFFICES ASSUME NEW i \in 1..(Len(a) + Len(b)), NEW j \in 1..(Len(a) + Len(b)),
                    (a \o b)[i] = (a \o b)[j]
             PROVE  i = j
  BY <1>1 DEF IsInjective
<1>3. CASE i <= Len(a) /\ j <= Len(a)
  BY <1>1, <1>2, <1>3 DEF IsInjective
<1>4. CASE i > Len(a) /\ j > Len(a)
  <2>1. i - Len(a) \in 1..Len(b) /\ j - Len(a) \in 1..Len(b) /\ b[i - Len(a)] = b[j - Len(a)]
    BY <1>1, <1>2, <1>4
  <2>2. i - Len(a) = j - Len(a)
    BY <1>1, <2>1 DEF IsInjective
  <2> QED BY <1>1, <2>2
<1>5. ASSUME NEW x \in 1..(Len(a) + Len(b)), NEW y \in 1..(Len(a) + Len(b)),
             (a \o b)[x] = (a \o b)[y], x <= Len(a), y > Len(a)
      PROVE  FALSE
  <2>1. x \in 1..Len(a) /\ y - Len(a) \in 1..Len(b) /\ a[x] = b[y - Len(a)]
    BY <1>1, <1>2, <1>5
  <2>2. a[x] \in Range(a) /\ b[y - Len(a)] \in Range(b)
    BY <1>1, <2>1 DEF Range
  <2> QED BY <2>1, <2>2
<1> QED BY <1>1, <1>3, <1>4, <1>5

\* Two sequences in order, the first before the second.
LEMMA ConcatAscends ==
    ASSUME NEW a \in Seq(Node), NEW b \in Seq(Node), NEW v \in [Node -> Nat],
           Ascends(a, v), Ascends(b, v), \A m \in Range(a), n \in Range(b) : v[m] <= v[n]
    PROVE  Ascends(a \o b, v)
<1>1. /\ Len(a \o b) = Len(a) + Len(b)
      /\ DOMAIN a = 1..Len(a) /\ DOMAIN b = 1..Len(b)
      /\ Len(a) \in Nat /\ Len(b) \in Nat
  OBVIOUS
<1>2. \A i \in 1..(Len(a) + Len(b)) : (a \o b)[i] = IF i <= Len(a) THEN a[i] ELSE b[i - Len(a)]
  OBVIOUS
<1> SUFFICES ASSUME NEW i \in 1..(Len(a) + Len(b)), NEW j \in 1..(Len(a) + Len(b)), i < j
             PROVE  v[(a \o b)[i]] <= v[(a \o b)[j]]
  BY <1>1 DEF Ascends
<1>3. CASE j <= Len(a)
  <2>1. i \in 1..Len(a) /\ j \in 1..Len(a) /\ (a \o b)[i] = a[i] /\ (a \o b)[j] = a[j]
    BY <1>1, <1>2, <1>3
  <2> QED BY <2>1 DEF Ascends
<1>4. CASE i > Len(a)
  <2>1. /\ i - Len(a) \in 1..Len(b) /\ j - Len(a) \in 1..Len(b) /\ i - Len(a) < j - Len(a)
        /\ (a \o b)[i] = b[i - Len(a)] /\ (a \o b)[j] = b[j - Len(a)]
    BY <1>1, <1>2, <1>4
  <2> QED BY <2>1 DEF Ascends
<1>5. CASE i <= Len(a) /\ j > Len(a)
  <2>1. /\ i \in 1..Len(a) /\ j - Len(a) \in 1..Len(b)
        /\ (a \o b)[i] = a[i] /\ (a \o b)[j] = b[j - Len(a)]
    BY <1>1, <1>2, <1>5
  <2>2. a[i] \in Range(a) /\ b[j - Len(a)] \in Range(b)
    BY <1>1, <2>1 DEF Range
  <2> QED BY <2>1, <2>2
<1> QED BY <1>1, <1>3, <1>4, <1>5

\* _printInorder prints a search tree in order, no node twice.
LEMMA InorderAscends ==
    ASSUME NEW l, NEW r, Descends(l, r), NEW f, IsInorder(f, l, r),
           NEW u, Unders(u, l, r), u = [n \in Link |-> Range(f[n])], NEW v \in [Node -> Nat]
    PROVE  \A t \in Link : Searches(u, l, r, v, t) => IsInjective(f[t]) /\ Ascends(f[t], v)
<1> DEFINE S == {t \in Link : Searches(u, l, r, v, t) => IsInjective(f[t]) /\ Ascends(f[t], v)}
<1>1. f \in [Link -> Seq(Node)] /\ f[Nil] = <<>>
  BY DEF IsInorder
<1>2. Nil \in S
  BY <1>1 DEF Link, IsInjective, Ascends
<1>3. ASSUME NEW t \in Node, l[t] \in S, r[t] \in S PROVE t \in S
  <2> SUFFICES ASSUME Searches(u, l, r, v, t) PROVE IsInjective(f[t]) /\ Ascends(f[t], v)
    BY DEF Link
  <2>1. /\ t \in u[t] /\ l[t] \in Link /\ r[t] \in Link /\ t \in Link
        /\ t \notin u[l[t]] /\ t \notin u[r[t]]
    BY UnderChild DEF Link
  <2>2. Searches(u, l, r, v, l[t]) /\ Searches(u, l, r, v, r[t]) /\ Splits(u, l, r, v, t)
    BY <2>1, SearchesWithin
  <2>3. /\ IsInjective(f[l[t]]) /\ Ascends(f[l[t]], v)
        /\ IsInjective(f[r[t]]) /\ Ascends(f[r[t]], v)
    BY <1>3, <2>2
  <2>4. u[l[t]] \cap u[r[t]] = {}
    BY <2>2, Apart
  <2> DEFINE a == f[l[t]]
             b == <<t>>
             c == f[r[t]]
  <2>5. a \in Seq(Node) /\ b \in Seq(Node) /\ c \in Seq(Node) /\ a \o b \in Seq(Node)
    BY <1>1, <2>1
  <2>6. f[t] = (a \o b) \o c
    BY DEF IsInorder
  <2>7. u[l[t]] = Range(a) /\ u[r[t]] = Range(c)
    BY <2>1
  <2>8. Range(b) = {t} /\ IsInjective(b) /\ Ascends(b, v)
    BY DEF Range, IsInjective, Ascends
  <2>9. Range(a \o b) = Range(a) \cup {t}
    BY <2>5, <2>8, ConcatNodes
  <2>10. /\ \A m \in Range(a) : m \in Node /\ v[m] <= v[t]
         /\ \A m \in Range(c) : m \in Node /\ v[t] < v[m]
    BY <2>1, <2>2, <2>7 DEF Splits, Unders
  <2>11. v[t] \in Nat /\ \A m \in Node : v[m] \in Nat
    OBVIOUS
  <2> HIDE DEF a, b, c
  <2>12. IsInjective(a \o b)
    BY <2>1, <2>3, <2>5, <2>7, <2>8, ConcatInjective DEF a
  <2>13. IsInjective((a \o b) \o c)
    BY <2>1, <2>3, <2>4, <2>5, <2>7, <2>9, <2>12, ConcatInjective DEF c
  <2>14. Ascends(a \o b, v)
    BY <2>3, <2>5, <2>8, <2>10, ConcatAscends DEF a
  <2>15. \A m \in Range(a \o b), n \in Range(c) : v[m] <= v[n]
    BY <2>9, <2>10, <2>11
  <2>16. Ascends((a \o b) \o c, v)
    BY <2>3, <2>5, <2>14, <2>15, ConcatAscends DEF c
  <2> QED BY <2>6, <2>13, <2>16
<1> HIDE DEF S
<1>4. Link \subseteq S
  BY <1>2, <1>3, TreeInduction
<1> QED BY <1>4 DEF S

\* Every printer prints as many nodes as the others.
LEMMA PrintLengths ==
    ASSUME NEW l, NEW r, Descends(l, r), NEW f, IsInorder(f, l, r),
           NEW g, IsPreorder(g, l, r), NEW h, IsPostorder(h, l, r)
    PROVE  \A t \in Link : Len(g[t]) = Len(f[t]) /\ Len(h[t]) = Len(f[t])
<1> DEFINE S == {t \in Link : Len(g[t]) = Len(f[t]) /\ Len(h[t]) = Len(f[t])}
<1>1. f[Nil] = <<>> /\ g[Nil] = <<>> /\ h[Nil] = <<>>
  BY DEF IsInorder, IsPreorder, IsPostorder
<1>2. Nil \in S
  BY <1>1 DEF Link
<1>3. ASSUME NEW t \in Node, l[t] \in S, r[t] \in S PROVE t \in S
  <2>1. l[t] \in Link /\ r[t] \in Link /\ t \in Link
    BY DEF Descends, Link
  <2>2. ASSUME NEW a \in Seq(Node), NEW b \in Seq(Node)
        PROVE  /\ Len(a \o <<t>> \o b) = Len(a) + Len(b) + 1
               /\ Len(<<t>> \o a \o b) = Len(a) + Len(b) + 1
               /\ Len(a \o b \o <<t>>) = Len(a) + Len(b) + 1
    OBVIOUS
  <2>3. Len(f[t]) = Len(f[l[t]]) + Len(f[r[t]]) + 1
    BY <2>1, <2>2 DEF IsInorder
  <2>4. Len(g[t]) = Len(g[l[t]]) + Len(g[r[t]]) + 1
    BY <2>1, <2>2 DEF IsPreorder
  <2>5. Len(h[t]) = Len(h[l[t]]) + Len(h[r[t]]) + 1
    BY <2>1, <2>2 DEF IsPostorder
  <2> QED BY <1>3, <2>1, <2>3, <2>4, <2>5
<1> HIDE DEF S
<1>4. Link \subseteq S
  BY <1>2, <1>3, TreeInduction
<1> QED BY <1>4 DEF S

(***************************************************************************)
(* Looking for a value.                                                    *)
(***************************************************************************)

FoundOf(l, r, v, d) ==
    CHOOSE f : f = [n \in Link |-> IF n = Nil \/ v[n] = d THEN n
                                  ELSE IF d > v[n] THEN f[r[n]] ELSE f[l[n]]]
IsFound(f, l, r, v, d) ==
    /\ f \in [Link -> Link] /\ f[Nil] = Nil
    /\ \A n \in Node : f[n] = IF v[n] = d THEN n ELSE IF d > v[n] THEN f[r[n]] ELSE f[l[n]]

\* getNodePtrBST meets its recursive definition.
LEMMA FoundEquations ==
    ASSUME NEW l, NEW r, Descends(l, r), NEW v, NEW d, NEW f, f = FoundOf(l, r, v, d)
    PROVE  IsFound(f, l, r, v, d)
<1> DEFINE g == [n \in Node |-> [a \in Link |-> [b \in Link |->
                    IF v[n] = d THEN n ELSE IF d > v[n] THEN b ELSE a]]]
<1>1. \A n \in Node, a \in Link, b \in Link :
         g[n][a][b] = IF v[n] = d THEN n ELSE IF d > v[n] THEN b ELSE a
  OBVIOUS
<1>2. Nil \in Link /\ \A n \in Node : n \in Link /\ n # Nil /\ l[n] \in Link /\ r[n] \in Link
  BY DEF Descends, Link, Node, Nil
<1> HIDE DEF g
<1>3. Closed(g, Link)
  BY <1>1, <1>2 DEF Closed
<1>4. PICK h \in [Link -> Link] : Folds(h, Nil, g, l, r)
  BY <1>2, <1>3, FoldExists
<1>5. h[Nil] = Nil /\ \A n \in Node : h[n] = g[n][h[l[n]]][h[r[n]]]
  BY <1>4 DEF Folds
<1> DEFINE e == [n \in Link |-> IF n = Nil \/ v[n] = d THEN n
                               ELSE IF d > v[n] THEN h[r[n]] ELSE h[l[n]]]
<1>6. ASSUME NEW n \in Link PROVE h[n] = e[n]
  <2>1. CASE n = Nil
    BY <1>5, <2>1
  <2>2. CASE n \in Node
    <3>1. h[l[n]] \in Link /\ h[r[n]] \in Link
      BY <1>2, <1>4, <2>2
    <3>2. h[n] = IF v[n] = d THEN n ELSE IF d > v[n] THEN h[r[n]] ELSE h[l[n]]
      BY <1>1, <1>5, <2>2, <3>1
    <3> QED BY <1>2, <2>2, <3>2
  <2> QED BY <2>1, <2>2 DEF Link
<1>7. h = [n \in Link |-> h[n]] /\ e = [n \in Link |-> e[n]]
  BY <1>4
<1> HIDE DEF e
<1>8. h = e
  BY <1>6, <1>7
<1>9. h = [n \in Link |-> IF n = Nil \/ v[n] = d THEN n
                         ELSE IF d > v[n] THEN h[r[n]] ELSE h[l[n]]]
  BY <1>8 DEF e
<1>10. f = [n \in Link |-> IF n = Nil \/ v[n] = d THEN n
                          ELSE IF d > v[n] THEN f[r[n]] ELSE f[l[n]]]
  BY Zenon, <1>9 DEF FoundOf
<1>11. f[Nil] = Nil
  BY Zenon, <1>2, <1>10
<1>12. ASSUME NEW n \in Node
       PROVE  f[n] = IF v[n] = d THEN n ELSE IF d > v[n] THEN f[r[n]] ELSE f[l[n]]
  <2>1. n \in Link /\ n # Nil
    BY <1>2
  <2> QED BY Zenon, <1>10, <2>1
<1> DEFINE S == {n \in Link : f[n] \in Link}
<1>13. Nil \in S
  BY <1>2, <1>11
<1>14. ASSUME NEW n \in Node, l[n] \in S, r[n] \in S PROVE n \in S
  <2>1. f[l[n]] \in Link /\ f[r[n]] \in Link /\ n \in Link
    BY <1>2, <1>14
  <2>2. f[n] \in Link
    BY Zenon, <1>12, <2>1
  <2> QED BY <2>1, <2>2
<1> HIDE DEF S
<1>15. Link \subseteq S
  BY <1>13, <1>14, TreeInduction
<1>16. f \in [Link -> Link]
  <2>1. \A n \in Link : f[n] \in Link
    BY <1>15 DEF S
  <2>2. f = [n \in Link |-> f[n]]
    BY <1>10
  <2> QED BY <2>1, <2>2
<1> QED BY <1>11, <1>12, <1>16 DEF IsFound

\* A value is found in a search tree just when it is there.
LEMMA FoundRight ==
    ASSUME NEW l, NEW r, Descends(l, r), NEW u, Unders(u, l, r), NEW v \in [Node -> Nat],
           NEW d \in Nat, NEW f, IsFound(f, l, r, v, d)
    PROVE  \A t \in Link : Searches(u, l, r, v, t) =>
              IF \E n \in u[t] : v[n] = d THEN f[t] \in u[t] /\ v[f[t]] = d ELSE f[t] = Nil
<1> DEFINE Right(t) == IF \E n \in u[t] : v[n] = d THEN f[t] \in u[t] /\ v[f[t]] = d ELSE f[t] = Nil
           S == {t \in Link : Searches(u, l, r, v, t) => Right(t)}
<1>1. Nil \in S
  BY DEF Link, IsFound, Unders
<1>2. ASSUME NEW t \in Node, l[t] \in S, r[t] \in S PROVE t \in S
  <2> SUFFICES ASSUME Searches(u, l, r, v, t) PROVE Right(t)
    BY DEF Link
  <2>1. /\ t \in u[t] /\ u[t] = u[l[t]] \cup {t} \cup u[r[t]]
        /\ l[t] \in Link /\ r[t] \in Link /\ t \in Link
    BY UnderChild DEF Link
  <2>2. Searches(u, l, r, v, l[t]) /\ Searches(u, l, r, v, r[t]) /\ Splits(u, l, r, v, t)
    BY <2>1, SearchesWithin
  <2>3. Right(l[t]) /\ Right(r[t])
    BY <1>2, <2>2
  <2>4. f[t] = IF v[t] = d THEN t ELSE IF d > v[t] THEN f[r[t]] ELSE f[l[t]]
    BY DEF IsFound
  <2>5. \A n \in u[t] : n \in Node /\ v[n] \in Nat
    BY <2>1 DEF Unders
  <2>6. CASE v[t] = d
    BY <2>1, <2>4, <2>6
  <2>7. CASE d > v[t]
    <3>1. \A n \in u[t] : v[n] = d => n \in u[r[t]]
      BY <2>1, <2>2, <2>5, <2>7 DEF Splits
    <3>2. f[t] = f[r[t]]
      BY <2>4, <2>7
    <3> QED BY <2>1, <2>3, <3>1, <3>2
  <2>8. CASE d < v[t]
    <3>1. \A n \in u[t] : v[n] = d => n \in u[l[t]]
      BY <2>1, <2>2, <2>5, <2>8 DEF Splits
    <3>2. f[t] = f[l[t]]
      BY <2>4, <2>8
    <3> QED BY <2>1, <2>3, <3>1, <3>2
  <2> QED BY <2>1, <2>5, <2>6, <2>7, <2>8
<1> HIDE DEF S
<1>3. Link \subseteq S
  BY <1>1, <1>2, TreeInduction
<1> QED BY <1>3 DEF S

(***************************************************************************)
(* The lowest common ancestor.                                             *)
(***************************************************************************)

Joined(n, a, b, T) == IF (a # Nil /\ b # Nil) \/ n \in T THEN n ELSE IF a # Nil THEN a ELSE b
AncestorOf(l, r, v, d1, d2) ==
    CHOOSE f : f = [n \in Link |->
                      IF n = Nil THEN Nil
                      ELSE IF (f[l[n]] # Nil /\ f[r[n]] # Nil) \/ v[n] \in {d1, d2} THEN n
                      ELSE IF f[l[n]] # Nil THEN f[l[n]] ELSE f[r[n]]]
IsAncestor(f, l, r, T) ==
    f[Nil] = Nil /\ \A n \in Node : f[n] = Joined(n, f[l[n]], f[r[n]], T)
Holding(v, d1, d2) == {n \in Node : v[n] \in {d1, d2}}

\* _LowestCommonAncestor meets its recursive definition.
LEMMA AncestorEquations ==
    ASSUME NEW l, NEW r, Descends(l, r), NEW v, NEW d1, NEW d2, NEW f, f = AncestorOf(l, r, v, d1, d2)
    PROVE  IsAncestor(f, l, r, Holding(v, d1, d2))
<1> DEFINE T == Holding(v, d1, d2)
           g == [n \in Node |-> [a \in Link |-> [b \in Link |-> Joined(n, a, b, T)]]]
           E(h) == [n \in Link |->
                      IF n = Nil THEN Nil
                      ELSE IF (h[l[n]] # Nil /\ h[r[n]] # Nil) \/ v[n] \in {d1, d2} THEN n
                      ELSE IF h[l[n]] # Nil THEN h[l[n]] ELSE h[r[n]]]
<1>1. \A n \in Node, a \in Link, b \in Link : g[n][a][b] = Joined(n, a, b, T)
  OBVIOUS
<1>2. Nil \in Link /\ \A n \in Node : n \in Link /\ n # Nil /\ l[n] \in Link /\ r[n] \in Link
  BY DEF Descends, Link, Node, Nil
<1>3. \A n \in Node : n \in T <=> v[n] \in {d1, d2}
  BY DEF Holding
<1> HIDE DEF g, T
<1>4. Closed(g, Link)
  BY <1>1, <1>2 DEF Closed, Joined
<1>5. PICK h \in [Link -> Link] : Folds(h, Nil, g, l, r)
  BY <1>2, <1>4, FoldExists
<1>6. h[Nil] = Nil /\ \A n \in Node : h[n] = g[n][h[l[n]]][h[r[n]]]
  BY <1>5 DEF Folds
<1> DEFINE e == E(h)
<1>7. ASSUME NEW n \in Link PROVE h[n] = e[n]
  <2>1. CASE n = Nil
    BY <1>6, <2>1
  <2>2. CASE n \in Node
    <3>1. h[l[n]] \in Link /\ h[r[n]] \in Link
      BY <1>2, <1>5, <2>2
    <3>2. h[n] = Joined(n, h[l[n]], h[r[n]], T)
      BY <1>1, <1>6, <2>2, <3>1
    <3>3. n # Nil /\ (n \in T <=> v[n] \in {d1, d2})
      BY <1>2, <1>3, <2>2
    <3> QED BY <3>2, <3>3 DEF Joined
  <2> QED BY <2>1, <2>2 DEF Link
<1>8. h = [n \in Link |-> h[n]] /\ e = [n \in Link |-> e[n]]
  BY <1>5
<1> HIDE DEF e
<1>9. h = e
  BY <1>7, <1>8
<1>10. h = E(h)
  BY <1>9 DEF e
<1>11. f = E(f)
  BY Zenon, <1>10 DEF AncestorOf
<1>12. f[Nil] = Nil
  BY Zenon, <1>2, <1>11
<1>13. ASSUME NEW n \in Node PROVE f[n] = Joined(n, f[l[n]], f[r[n]], T)
  <2>1. n \in Link /\ n # Nil
    BY <1>2
  <2>2. f[n] = IF (f[l[n]] # Nil /\ f[r[n]] # Nil) \/ v[n] \in {d1, d2} THEN n
               ELSE IF f[l[n]] # Nil THEN f[l[n]] ELSE f[r[n]]
    BY Zenon, <1>11, <2>1
  <2>3. n \in T <=> v[n] \in {d1, d2}
    BY <1>3
  <2> QED BY Zenon, <2>2, <2>3 DEF Joined
<1> QED BY <1>12, <1>13 DEF IsAncestor, T

\* What is returned for a subtree in which of T are at most x and y.
Lowest(u, l, r, f, T, x, y, t) ==
    /\ x \notin T \cap u[t] /\ y \notin T \cap u[t] => f[t] = Nil
    /\ x \in T \cap u[t] /\ (y = x \/ y \notin T \cap u[t]) => f[t] = x
    /\ y \in T \cap u[t] /\ (y = x \/ x \notin T \cap u[t]) => f[t] = y
    /\ x \in T \cap u[t] /\ y \in T \cap u[t] =>
          /\ f[t] \in u[t] /\ {x, y} \subseteq u[f[t]]
          /\ ~({x, y} \subseteq u[l[f[t]]]) /\ ~({x, y} \subseteq u[r[f[t]]])

\* For two nodes it returns the lowest node above both.
LEMMA AncestorRight ==
    ASSUME NEW l, NEW r, Descends(l, r), NEW u, Unders(u, l, r), NEW v \in [Node -> Nat],
           NEW T, NEW f, IsAncestor(f, l, r, T), NEW x \in Node, NEW y \in Node
    PROVE  \A t \in Link : Searches(u, l, r, v, t) /\ T \cap u[t] \subseteq {x, y} =>
              Lowest(u, l, r, f, T, x, y, t)
<1> DEFINE S == {t \in Link : Searches(u, l, r, v, t) /\ T \cap u[t] \subseteq {x, y} =>
                                Lowest(u, l, r, f, T, x, y, t)}
<1>0. Nil \notin Node
  BY DEF Nil, Node
<1>1. Nil \in S
  BY DEF Link, IsAncestor, Unders, Lowest
<1>2. ASSUME NEW t \in Node, l[t] \in S, r[t] \in S PROVE t \in S
  <2> SUFFICES ASSUME Searches(u, l, r, v, t), T \cap u[t] \subseteq {x, y}
               PROVE  Lowest(u, l, r, f, T, x, y, t)
    BY DEF Link
  <2>1. /\ t \in u[t] /\ u[t] = u[l[t]] \cup {t} \cup u[r[t]]
        /\ t \notin u[l[t]] /\ t \notin u[r[t]]
        /\ l[t] \in Link /\ r[t] \in Link /\ t \in Link
    BY UnderChild DEF Link
  <2>2. Searches(u, l, r, v, l[t]) /\ Searches(u, l, r, v, r[t]) /\ Splits(u, l, r, v, t)
    BY <2>1, SearchesWithin
  <2>3. u[l[t]] \cap u[r[t]] = {}
    BY <2>2, Apart
  <2>4. Lowest(u, l, r, f, T, x, y, l[t]) /\ Lowest(u, l, r, f, T, x, y, r[t])
    BY <1>2, <2>1, <2>2
  <2>5. f[t] = Joined(t, f[l[t]], f[r[t]], T)
    BY DEF IsAncestor
  <2>6. \A n \in u[t] : n \in Node /\ n \in u[n] /\ n \notin u[l[n]] /\ n \notin u[r[n]]
    BY <2>1, UnderChild DEF Unders
  <2>7. (x \in T /\ x \in u[l[t]]) \/ (y \in T /\ y \in u[l[t]]) <=> f[l[t]] # Nil
    <3>1. \A n \in u[l[t]] : n \in Node /\ n # Nil
      BY <1>0, <2>1, <2>6
    <3> QED BY <1>0, <2>4, <3>1 DEF Lowest
  <2>8. (x \in T /\ x \in u[r[t]]) \/ (y \in T /\ y \in u[r[t]]) <=> f[r[t]] # Nil
    <3>1. \A n \in u[r[t]] : n \in Node /\ n # Nil
      BY <1>0, <2>1, <2>6
    <3> QED BY <1>0, <2>4, <3>1 DEF Lowest
  <2>9. CASE t \in T
    <3>1. f[t] = t /\ (t = x \/ t = y)
      BY <2>1, <2>5, <2>9 DEF Joined
    <3> QED BY <2>1, <2>6, <2>9, <3>1 DEF Lowest
  <2>10. CASE t \notin T /\ f[l[t]] # Nil /\ f[r[t]] # Nil
    <3>1. f[t] = t
      BY <2>5, <2>10 DEF Joined
    <3>2. \/ x \in T /\ x \in u[l[t]] /\ y \in T /\ y \in u[r[t]]
          \/ y \in T /\ y \in u[l[t]] /\ x \in T /\ x \in u[r[t]]
      BY <2>3, <2>7, <2>8, <2>10
    <3>3. x # y /\ x \in T \cap u[t] /\ y \in T \cap u[t]
      BY <2>1, <2>3, <3>2
    <3>4. ~({x, y} \subseteq u[l[t]]) /\ ~({x, y} \subseteq u[r[t]])
      BY <2>3, <3>2
    <3> QED BY <2>1, <3>1, <3>3, <3>4 DEF Lowest
  <2>11. CASE t \notin T /\ f[r[t]] = Nil
    <3>1. f[t] = f[l[t]]
      BY <2>5, <2>11 DEF Joined
    <3>2. T \cap u[t] \cap {x, y} = T \cap u[l[t]] \cap {x, y}
      BY <2>1, <2>8, <2>11
    <3>3. /\ x \in T \cap u[t] <=> x \in T \cap u[l[t]]
          /\ y \in T \cap u[t] <=> y \in T \cap u[l[t]]
      BY <3>2
    <3> QED BY <2>1, <2>4, <3>1, <3>3 DEF Lowest
  <2>12. CASE t \notin T /\ f[l[t]] = Nil
    <3>1. f[t] = f[r[t]]
      BY <2>5, <2>12 DEF Joined
    <3>2. T \cap u[t] \cap {x, y} = T \cap u[r[t]] \cap {x, y}
      BY <2>1, <2>7, <2>12
    <3>3. /\ x \in T \cap u[t] <=> x \in T \cap u[r[t]]
          /\ y \in T \cap u[t] <=> y \in T \cap u[r[t]]
      BY <3>2
    <3> QED BY <2>1, <2>4, <3>1, <3>3 DEF Lowest
  <2> QED BY <2>9, <2>10, <2>11, <2>12
<1> HIDE DEF S
<1>3. Link \subseteq S
  BY <1>1, <1>2, TreeInduction
<1> QED BY <1>3 DEF S

(***************************************************************************)
(* SearchTree.                                                             *)
(***************************************************************************)

\* What follows from the invariant of the tree.
LEMMA TreeFacts ==
    ASSUME Trees
    PROVE  /\ Descends(left, right) /\ Unders(Nodes, left, right)
           /\ Searches(Nodes, left, right, data, root)
           /\ root \in Link /\ data \in [Node -> Nat]
           /\ IsInorder(Inorder, left, right)
           /\ Nodes = [n \in Link |-> Range(Inorder[n])]
           /\ \A n \in Link : Under(n) = Nodes[n]
           /\ IsInjective(Inorder[root]) /\ Ascends(Inorder[root], data)
<1>1. /\ Descends(left, right) /\ Unders(Nodes, left, right)
      /\ Searches(Nodes, left, right, data, root) /\ root \in Link
  BY NodesUnders DEF Trees
<1>2. data \in [Node -> Nat]
  BY ValuesNatural
<1>3. IsInorder(Inorder, left, right)
  BY <1>1, OfTree, InorderEquations
<1>4. Nodes = [n \in Link |-> Range(Inorder[n])] /\ \A n \in Link : Under(n) = Nodes[n]
  BY DEF Nodes, Under
<1>5. IsInjective(Inorder[root]) /\ Ascends(Inorder[root], data)
  BY <1>1, <1>2, <1>3, <1>4, InorderAscends
<1> QED BY <1>1, <1>2, <1>3, <1>4, <1>5

\* getNodePtrBST finds each value that is in the tree and no other.
LEMMA TreesFind ==
    ASSUME Trees, NEW d \in Data
    PROVE  IF \E n \in Under(root) : data[n] = d
           THEN Found(d) \in Under(root) /\ data[Found(d)] = d
           ELSE Found(d) = Nil
<1> DEFINE f == FoundOf(left, right, data, d)
<1>1. Found(d) = f[root]
  BY DEF Found, FoundOf
<1>2. /\ Descends(left, right) /\ Unders(Nodes, left, right)
      /\ Searches(Nodes, left, right, data, root)
      /\ root \in Link /\ data \in [Node -> Nat] /\ Under(root) = Nodes[root]
  BY TreeFacts
<1>3. IsFound(f, left, right, data, d)
  BY <1>2, FoundEquations
<1>4. d \in Nat
  BY DataAssumption
<1> HIDE DEF f
<1>5. IF \E n \in Nodes[root] : data[n] = d
      THEN f[root] \in Nodes[root] /\ data[f[root]] = d
      ELSE f[root] = Nil
  BY <1>2, <1>3, <1>4, FoundRight
<1> QED BY <1>1, <1>2, <1>5

\* LowestCommonAncestor returns the lowest node above two values.
LEMMA TreesAncestor == Trees => LowestAncestor
<1> SUFFICES ASSUME Trees, NEW m \in Under(root), NEW n \in Under(root),
                    \A k \in Under(root) : data[k] \in {data[m], data[n]} => k \in {m, n}
             PROVE  LET a == Ancestor(data[m], data[n])
                    IN  /\ {m, n} \subseteq Under(a)
                        /\ \A c \in {left[a], right[a]} : ~({m, n} \subseteq Under(c))
  BY DEF LowestAncestor
<1> DEFINE f == AncestorOf(left, right, data, data[m], data[n])
           T == Holding(data, data[m], data[n])
           a == f[root]
<1>1. Ancestor(data[m], data[n]) = a
  BY DEF Ancestor, AncestorOf
<1>2. /\ Descends(left, right) /\ Unders(Nodes, left, right)
      /\ Searches(Nodes, left, right, data, root)
      /\ root \in Link /\ data \in [Node -> Nat] /\ \A c \in Link : Under(c) = Nodes[c]
  BY TreeFacts
<1>3. IsAncestor(f, left, right, T)
  BY <1>2, AncestorEquations
<1>4. Nodes[root] \subseteq Node /\ m \in Nodes[root] /\ n \in Nodes[root]
  BY <1>2 DEF Unders
<1>5. T \cap Nodes[root] \subseteq {m, n} /\ m \in T /\ n \in T
  BY <1>2, <1>4 DEF Holding
<1> HIDE DEF f, T
<1>6. Lowest(Nodes, left, right, f, T, m, n, root)
  BY <1>2, <1>3, <1>4, <1>5, AncestorRight
<1>7. /\ a \in Nodes[root] /\ {m, n} \subseteq Nodes[a]
      /\ ~({m, n} \subseteq Nodes[left[a]]) /\ ~({m, n} \subseteq Nodes[right[a]])
  BY <1>4, <1>5, <1>6 DEF Lowest
<1>8. a \in Node /\ a \in Link /\ left[a] \in Link /\ right[a] \in Link
  BY <1>2, <1>4, <1>7 DEF Descends, Link
<1> HIDE DEF a
<1>9. {m, n} \subseteq Under(a) /\ \A c \in {left[a], right[a]} : ~({m, n} \subseteq Under(c))
  BY <1>2, <1>7, <1>8
<1> QED BY <1>1, <1>9

\* Both, and the order of the values.
LEMMA TreesSearch == Trees => SearchTree
<1> SUFFICES ASSUME Trees PROVE SearchTree
  OBVIOUS
<1>1. \A i \in 1..(Len(Inorder[root]) - 1) : data[Inorder[root][i]] <= data[Inorder[root][i + 1]]
  <2>1. Ascends(Inorder[root], data) /\ Inorder[root] \in Seq(Node)
    BY TreeFacts DEF IsInorder
  <2> SUFFICES ASSUME NEW i \in 1..(Len(Inorder[root]) - 1)
               PROVE  data[Inorder[root][i]] <= data[Inorder[root][i + 1]]
    OBVIOUS
  <2>2. Len(Inorder[root]) \in Nat
    BY <2>1
  <2>3. i \in 1..Len(Inorder[root]) /\ i + 1 \in 1..Len(Inorder[root]) /\ i < i + 1
    BY <2>2
  <2> QED BY <2>1, <2>3 DEF Ascends
<1>2. \A d \in Data : IF \E n \in Under(root) : data[n] = d
                     THEN Found(d) \in Under(root) /\ data[Found(d)] = d
                     ELSE Found(d) = Nil
  BY TreesFind
<1> QED BY <1>1, <1>2, TreesAncestor DEF SearchTree

(***************************************************************************)
(* The traversals with a stack.                                            *)
(***************************************************************************)

\* What is printed of a node before its left subtree, between its subtrees and
\* after its right subtree.
Early(k, n) == IF k = "pre" THEN <<n>> ELSE <<>>
Amid(k, n) == IF k = "in" THEN <<n>> ELSE <<>>
Late(k, n) == IF k = "post" THEN <<n>> ELSE <<>>

Order(k) == CASE k = "pre" -> Preorder [] k = "in" -> Inorder [] k = "post" -> Postorder

IsOrder(f, k, l, r) ==
    /\ f \in [Link -> Seq(Node)] /\ f[Nil] = <<>>
    /\ \A n \in Node :
          f[n] = Early(k, n) \o (f[l[n]] \o (Amid(k, n) \o (f[r[n]] \o Late(k, n))))

\* The three parts are sequences of nodes.
LEMMA Parts ==
    ASSUME NEW k, NEW n \in Node
    PROVE  Early(k, n) \in Seq(Node) /\ Amid(k, n) \in Seq(Node) /\ Late(k, n) \in Seq(Node)
  BY DEF Early, Amid, Late

\* Concatenation is associative.
LEMMA Associative ==
    ASSUME NEW a \in Seq(Node), NEW b \in Seq(Node), NEW c \in Seq(Node)
    PROVE  (a \o b) \o c = a \o (b \o c)
<1>1. /\ DOMAIN a = 1..Len(a) /\ DOMAIN b = 1..Len(b) /\ DOMAIN c = 1..Len(c)
      /\ Len(a) \in Nat /\ Len(b) \in Nat /\ Len(c) \in Nat
  OBVIOUS
<1> DEFINE x == (a \o b) \o c
           y == a \o (b \o c)
<1>2. x \in Seq(Node) /\ y \in Seq(Node) /\ Len(x) = Len(y)
  OBVIOUS
<1>3. \A i \in 1..Len(x) : x[i] = y[i]
  OBVIOUS
<1>4. QED
  BY <1>2, <1>3

\* The empty sequence is neutral.
LEMMA Neutral ==
    ASSUME NEW a \in Seq(Node)
    PROVE  <<>> \o a = a /\ a \o <<>> = a
  OBVIOUS

\* The three recursive traversals, in these terms.
LEMMA OrderEquations ==
    ASSUME NEW k \in {"pre", "in", "post"}, Descends(left, right)
    PROVE  IsOrder(Order(k), k, left, right)
<1>1. /\ IsInorder(Inorder, left, right) /\ IsPreorder(Preorder, left, right)
      /\ IsPostorder(Postorder, left, right)
  BY OfTree, InorderEquations, PreorderEquations, PostorderEquations
<1>2. \A n \in Node : left[n] \in Link /\ right[n] \in Link
  BY DEF Descends
<1>3. ASSUME NEW n \in Node, NEW a \in Seq(Node), NEW b \in Seq(Node)
      PROVE  /\ <<n>> \o a \o b = <<n>> \o (a \o (<<>> \o (b \o <<>>)))
             /\ a \o <<n>> \o b = <<>> \o (a \o (<<n>> \o (b \o <<>>)))
             /\ a \o b \o <<n>> = <<>> \o (a \o (<<>> \o (b \o <<n>>)))
  <2>1. <<n>> \in Seq(Node) /\ a \o b \in Seq(Node) /\ b \o <<n>> \in Seq(Node)
        /\ <<n>> \o b \in Seq(Node) /\ a \o (b \o <<n>>) \in Seq(Node) /\ a \o (<<n>> \o b) \in Seq(Node)
    OBVIOUS
  <2>2. <<n>> \o a \o b = <<n>> \o (a \o b) /\ a \o <<n>> \o b = a \o (<<n>> \o b)
        /\ a \o b \o <<n>> = a \o (b \o <<n>>)
    BY <2>1, Associative
  <2>3. /\ b \o <<>> = b /\ <<>> \o b = b /\ <<>> \o (b \o <<n>>) = b \o <<n>>
        /\ <<>> \o (a \o (b \o <<n>>)) = a \o (b \o <<n>>)
        /\ <<>> \o (a \o (<<n>> \o b)) = a \o (<<n>> \o b)
    BY <2>1, Neutral
  <2>4. QED
    BY <2>2, <2>3
<1>4. CASE k = "pre"
  <2>1. Order(k) = Preorder
    BY <1>4 DEF Order
  <2>2. \A n \in Node : /\ Early(k, n) = <<n>>
                       /\ Amid(k, n) = <<>>
                       /\ Late(k, n) = <<>>
    BY <1>4 DEF Early, Amid, Late
  <2>3. /\ Preorder \in [Link -> Seq(Node)] /\ Preorder[Nil] = <<>>
        /\ \A n \in Node : Preorder[left[n]] \in Seq(Node) /\ Preorder[right[n]] \in Seq(Node)
    BY <1>1, <1>2 DEF IsPreorder
  <2>4. ASSUME NEW n \in Node
        PROVE  Preorder[n] = Early(k, n) \o (Preorder[left[n]] \o (Amid(k, n) \o (Preorder[right[n]] \o Late(k, n))))
    <3> DEFINE a == Preorder[left[n]]
               b == Preorder[right[n]]
    <3>1. Preorder[n] = <<n>> \o a \o b
      BY <1>1 DEF IsPreorder
    <3>2. a \in Seq(Node) /\ b \in Seq(Node)
      BY <2>3
    <3> HIDE DEF a, b
    <3>3. <<n>> \o a \o b = <<n>> \o (a \o (<<>> \o (b \o <<>>)))
      BY <1>3, <3>2
    <3>4. QED
      BY <2>2, <3>1, <3>3 DEF a, b
  <2>5. QED
    BY <2>1, <2>3, <2>4 DEF IsOrder
<1>5. CASE k = "in"
  <2>1. Order(k) = Inorder
    BY <1>5 DEF Order
  <2>2. \A n \in Node : /\ Early(k, n) = <<>>
                       /\ Amid(k, n) = <<n>>
                       /\ Late(k, n) = <<>>
    BY <1>5 DEF Early, Amid, Late
  <2>3. /\ Inorder \in [Link -> Seq(Node)] /\ Inorder[Nil] = <<>>
        /\ \A n \in Node : Inorder[left[n]] \in Seq(Node) /\ Inorder[right[n]] \in Seq(Node)
    BY <1>1, <1>2 DEF IsInorder
  <2>4. ASSUME NEW n \in Node
        PROVE  Inorder[n] = Early(k, n) \o (Inorder[left[n]] \o (Amid(k, n) \o (Inorder[right[n]] \o Late(k, n))))
    <3> DEFINE a == Inorder[left[n]]
               b == Inorder[right[n]]
    <3>1. Inorder[n] = a \o <<n>> \o b
      BY <1>1 DEF IsInorder
    <3>2. a \in Seq(Node) /\ b \in Seq(Node)
      BY <2>3
    <3> HIDE DEF a, b
    <3>3. a \o <<n>> \o b = <<>> \o (a \o (<<n>> \o (b \o <<>>)))
      BY <1>3, <3>2
    <3>4. QED
      BY <2>2, <3>1, <3>3 DEF a, b
  <2>5. QED
    BY <2>1, <2>3, <2>4 DEF IsOrder
<1>6. CASE k = "post"
  <2>1. Order(k) = Postorder
    BY <1>6 DEF Order
  <2>2. \A n \in Node : /\ Early(k, n) = <<>>
                       /\ Amid(k, n) = <<>>
                       /\ Late(k, n) = <<n>>
    BY <1>6 DEF Early, Amid, Late
  <2>3. /\ Postorder \in [Link -> Seq(Node)] /\ Postorder[Nil] = <<>>
        /\ \A n \in Node : Postorder[left[n]] \in Seq(Node) /\ Postorder[right[n]] \in Seq(Node)
    BY <1>1, <1>2 DEF IsPostorder
  <2>4. ASSUME NEW n \in Node
        PROVE  Postorder[n] = Early(k, n) \o (Postorder[left[n]] \o (Amid(k, n) \o (Postorder[right[n]] \o Late(k, n))))
    <3> DEFINE a == Postorder[left[n]]
               b == Postorder[right[n]]
    <3>1. Postorder[n] = a \o b \o <<n>>
      BY <1>1 DEF IsPostorder
    <3>2. a \in Seq(Node) /\ b \in Seq(Node)
      BY <2>3
    <3> HIDE DEF a, b
    <3>3. a \o b \o <<n>> = <<>> \o (a \o (<<>> \o (b \o <<n>>)))
      BY <1>3, <3>2
    <3>4. QED
      BY <2>2, <3>1, <3>3 DEF a, b
  <2>5. QED
    BY <2>1, <2>3, <2>4 DEF IsOrder
<1>7. QED
  BY <1>4, <1>5, <1>6

\* What is still to be printed of a node and its right subtree when the traversal
\* comes back to it.
Pending(k, f, r, vis, n) ==
    IF vis[n] THEN Late(k, n) ELSE Amid(k, n) \o (f[r[n]] \o Late(k, n))

\* What is pending is a sequence of nodes.
LEMMA PendingNodes ==
    ASSUME NEW k, NEW l, NEW r, Descends(l, r), NEW f, IsOrder(f, k, l, r), NEW vis, NEW n \in Node
    PROVE  Pending(k, f, r, vis, n) \in Seq(Node)
<1>1. f[r[n]] \in Seq(Node)
  BY DEF IsOrder, Descends
<1>2. Amid(k, n) \o (f[r[n]] \o Late(k, n)) \in Seq(Node)
  BY <1>1, Parts
<1>3. QED
  BY <1>2, Parts DEF Pending

\* The nodes on the stack are nodes of the tree, each above the next.
Chain(path, a, U, t) ==
    /\ path \in [1..(StackSize + 1) -> Node]
    /\ \A i \in 1..t : path[i] \in U /\ (i <= StackSize => a[i].base = path[i])
    /\ \A i, j \in 1..t : i < j => path[i] < path[j]

\* What the d lowest of them still have to print: todo[i] for the first i.
Owed(path, todo, p, d) ==
    /\ todo \in [0..(StackSize + 1) -> Seq(Node)] /\ todo[0] = <<>>
    /\ \A i \in 1..d : todo[i] = p[path[i]] \o todo[i - 1]

\* Array b is a with n on top of t elements.
Stacked(b, a, t, n) == \A i \in 1..StackSize : b[i].base = IF i = t + 1 THEN n ELSE a[i].base
AllBelow(path, t, n) == \A i \in 1..t : path[i] < n
Grown(q, path, t, n) == q[t + 1] = n /\ \A i \in 1..t : q[i] = path[i]

\* A node below all of the chain is pushed.
LEMMA ChainPush ==
    ASSUME NEW U, NEW t \in Nat, t <= StackSize, NEW path, NEW a, Chain(path, a, U, t),
           NEW n \in Node, n \in U, AllBelow(path, t, n), NEW b, Stacked(b, a, t, n)
    PROVE  /\ Chain([path EXCEPT ![t + 1] = n], b, U, t + 1)
           /\ Grown([path EXCEPT ![t + 1] = n], path, t, n)
<1> DEFINE q == [path EXCEPT ![t + 1] = n]
<1>1. StackSize \in Nat /\ path \in [1..(StackSize + 1) -> Node]
  BY StackSizeAssumption DEF Chain
<1>2. q \in [1..(StackSize + 1) -> Node] /\ q[t + 1] = n /\ \A i \in 1..t : q[i] = path[i]
  BY <1>1
<1> HIDE DEF q
<1>3. ASSUME NEW i \in 1..(t + 1)
      PROVE  q[i] \in U /\ (i <= StackSize => b[i].base = q[i])
  <2>1. CASE i = t + 1
    BY <1>1, <1>2, <2>1 DEF Stacked
  <2>2. CASE i # t + 1
    BY <1>1, <1>2, <2>2 DEF Chain, Stacked
  <2>3. QED
    BY <2>1, <2>2
<1>4. ASSUME NEW i \in 1..(t + 1), NEW j \in 1..(t + 1), i < j
      PROVE  q[i] < q[j]
  <2>1. i \in 1..t
    BY <1>4
  <2>2. CASE j = t + 1
    BY <1>2, <2>1, <2>2 DEF AllBelow
  <2>3. CASE j # t + 1
    BY <1>2, <1>4, <2>1, <2>3 DEF Chain
  <2>4. QED
    BY <2>2, <2>3
<1>5. Chain(q, b, U, t + 1)
  BY <1>2, <1>3, <1>4 DEF Chain
<1>6. QED
  BY <1>2, <1>5 DEF q, Grown

\* The last node of the chain is popped.
LEMMA ChainPop ==
    ASSUME NEW U, NEW t \in Nat, t > 0, NEW path, NEW a, Chain(path, a, U, t)
    PROVE  Chain(path, a, U, t - 1)
  BY DEF Chain

Agree(q, p2, path, p, d) == \A i \in 1..d : q[i] = path[i] /\ p2[q[i]] = p[q[i]]

Topped(next, todo, q, p2, d) == next = [todo EXCEPT ![d + 1] = p2[q[d + 1]] \o todo[d]]

\* The next node of the chain owes what is pending for it.
LEMMA OwedNext ==
    ASSUME NEW path, NEW todo, NEW p, NEW d \in Nat, d <= StackSize, Owed(path, todo, p, d),
           NEW q, NEW p2, Agree(q, p2, path, p, d),
           p2[q[d + 1]] \in Seq(Node), NEW next, Topped(next, todo, q, p2, d)
    PROVE  Owed(q, next, p2, d + 1)
<1> DEFINE x == p2[q[d + 1]]
           new == x \o todo[d]
<1>1. StackSize \in Nat /\ todo \in [0..(StackSize + 1) -> Seq(Node)] /\ todo[0] = <<>>
  BY StackSizeAssumption DEF Owed
<1>2. todo[d] \in Seq(Node)
  BY <1>1
<1>3. new \in Seq(Node)
  BY <1>2
<1> HIDE DEF new
<1>4. next \in [0..(StackSize + 1) -> Seq(Node)] /\ next[d + 1] = new /\ \A i \in 0..d : next[i] = todo[i]
  <2>1. next = [todo EXCEPT ![d + 1] = new]
    BY DEF new, Topped
  <2>2. d + 1 \in 0..(StackSize + 1) /\ d + 1 \notin 0..d /\ \A i \in 0..d : i \in 0..(StackSize + 1)
    BY <1>1
  <2>3. next \in [0..(StackSize + 1) -> Seq(Node)]
    BY <1>1, <1>3, <2>1, <2>2
  <2>4. next[d + 1] = new
    BY <1>1, <2>1, <2>2
  <2>5. \A i \in 0..d : next[i] = todo[i]
    BY <1>1, <2>1, <2>2
  <2>6. QED
    BY <2>3, <2>4, <2>5
<1>5. ASSUME NEW i \in 1..(d + 1)
      PROVE  next[i] = p2[q[i]] \o next[i - 1]
  <2>1. CASE i = d + 1
    <3>1. i - 1 = d /\ d \in 0..d
      BY <2>1
    <3>2. next[i - 1] = todo[d]
      BY <1>4, <3>1
    <3>3. QED
      BY <1>4, <2>1, <3>2 DEF new
  <2>2. CASE i # d + 1
    <3>1. i \in 1..d /\ i \in 0..d /\ i - 1 \in 0..d
      BY <2>2
    <3>2. QED
      BY <1>4, <3>1 DEF Owed, Agree
  <2>3. QED
    BY <2>1, <2>2
<1>6. next[0] = <<>>
  BY <1>1, <1>4
<1>7. Owed(q, next, p2, d + 1)
  BY <1>4, <1>5, <1>6 DEF Owed
<1>8. QED
  BY <1>7

\* What is owed depends on the chain and its nodes only.
LEMMA OwedKept ==
    ASSUME NEW path, NEW todo, NEW p, NEW d \in Nat, Owed(path, todo, p, d),
           NEW e \in Nat, e <= d,
           NEW q, NEW p2, Agree(q, p2, path, p, e)
    PROVE  Owed(q, todo, p2, e)
<1>1. \A i \in 1..e : i \in 1..d
  OBVIOUS
<1>2. \A i \in 1..e : todo[i] = p2[q[i]] \o todo[i - 1]
  BY <1>1 DEF Owed, Agree
<1>3. QED
  BY <1>2 DEF Owed

\* The traversal is at node c, the last of the chain: of what is printed in all,
\* o has been printed, and x is next for c.
At(path, todo, c, x, a, t, p, o, all, U) ==
    /\ t \in Nat \ {0} /\ t <= StackSize + 1 /\ path[t] = c
    /\ Chain(path, a, U, t)
    /\ Owed(path, todo, p, t - 1)
    /\ o \in Seq(Node) /\ x \in Seq(Node)
    /\ o \o (x \o todo[t - 1]) = all

\* The traversal goes back to the last node of the chain.
Back(path, todo, a, t, p, o, all, U) ==
    /\ t \in Nat /\ t <= StackSize
    /\ Chain(path, a, U, t)
    /\ Owed(path, todo, p, t)
    /\ o \in Seq(Node)
    /\ o \o todo[t] = all

Elsewhere(p2, p, c) == \A m \in Node : m # c => p2[m] = p[m]
Made(x, e, y, p2, c) == x = e \o (y \o p2[c])
Went(n, y, b, t, p2, o, e, all, U) ==
    \E path, todo : At(path, todo, n, y, b, t + 1, p2, o \o e, all, U)

\* From a node to its child, after e has been printed.
LEMMA GoDown ==
    ASSUME NEW path, NEW todo, NEW c, NEW x, NEW a, NEW t, NEW p, NEW o, NEW all, NEW U,
           At(path, todo, c, x, a, t, p, o, all, U), t <= StackSize,
           NEW n \in Node, n \in U, c < n,
           NEW b, Stacked(b, a, t, n),
           NEW p2, Elsewhere(p2, p, c), p2[c] \in Seq(Node),
           NEW e \in Seq(Node), NEW y \in Seq(Node), Made(x, e, y, p2, c)
    PROVE  Went(n, y, b, t, p2, o, e, all, U)
<1> DEFINE q == [path EXCEPT ![t + 1] = n]
           d == t - 1
           v == p2[c]
           next == [todo EXCEPT ![d + 1] = v \o todo[d]]
<1>1. /\ t \in Nat \ {0} /\ path[t] = c /\ Chain(path, a, U, t)
      /\ Owed(path, todo, p, d) /\ o \in Seq(Node) /\ o \o (x \o todo[d]) = all
  BY DEF At
<1>2. t \in Nat /\ d \in Nat /\ d <= StackSize /\ d + 1 = t /\ StackSize \in Nat
  BY <1>1, StackSizeAssumption
<1>3. /\ path \in [1..(StackSize + 1) -> Node] /\ \A i, j \in 1..t : i < j => path[i] < path[j]
  BY <1>1 DEF Chain
<1>4. \A i \in 1..t : path[i] \in Node
  BY <1>2, <1>3
<1>5. \A i \in 1..d : path[i] < c
  BY <1>1, <1>2, <1>3
<1>6. AllBelow(path, t, n)
  <2>1. SUFFICES ASSUME NEW i \in 1..t PROVE path[i] < n
    BY DEF AllBelow
  <2>2. i = t \/ i \in 1..d
    BY <1>2
  <2>3. path[i] \in Nat /\ c \in Nat /\ n \in Nat
    BY <1>1, <1>4 DEF Node
  <2>4. QED
    BY <1>1, <1>5, <2>2, <2>3
<1>16. Chain(q, b, U, t + 1) /\ Grown(q, path, t, n)
  BY <1>1, <1>2, <1>6, ChainPush
<1> HIDE DEF q
<1>7. q[t + 1] = n /\ \A i \in 1..t : q[i] = path[i]
  BY <1>16 DEF Grown
<1>8. q[d + 1] = c
  BY <1>1, <1>2, <1>7
<1>9. Agree(q, p2, path, p, d)
  <2>1. SUFFICES ASSUME NEW i \in 1..d PROVE q[i] = path[i] /\ p2[q[i]] = p[q[i]]
    BY DEF Agree
  <2>2. i \in 1..t
    BY <1>2
  <2>3. path[i] \in Node /\ path[i] # c /\ q[i] = path[i]
    BY <1>4, <1>5, <1>7, <2>2 DEF Node
  <2>4. QED
    BY <2>3 DEF Elsewhere
<1>17. v = p2[q[d + 1]] /\ v \in Seq(Node)
  BY <1>8
<1>18. next = [todo EXCEPT ![d + 1] = v \o todo[d]]
  OBVIOUS
<1> HIDE DEF d, next, v
<1>10. Owed(q, next, p2, d + 1) /\ next[d + 1] = v \o todo[d]
  <2>1. d \in Nat /\ d <= StackSize /\ Owed(path, todo, p, d) /\ p2[q[d + 1]] \in Seq(Node)
    BY <1>1, <1>2, <1>17
  <2>2. Topped(next, todo, q, p2, d)
    BY <1>17, <1>18 DEF Topped
  <2>3. Owed(q, next, p2, d + 1)
    BY <1>9, <2>1, <2>2, OwedNext
  <2>4. todo \in [0..(StackSize + 1) -> Seq(Node)] /\ d + 1 \in 0..(StackSize + 1)
    BY <1>2, <2>1 DEF Owed
  <2>5. next[d + 1] = v \o todo[d]
    BY <1>18, <2>4
  <2>6. QED
    BY <2>3, <2>5
<1> USE DEF d, v
<1>11. todo[d] \in Seq(Node)
  BY <1>1, <1>2 DEF Owed
<1> HIDE DEF d
<1> DEFINE z == todo[d]
           r == p2[c]
<1>12. z \in Seq(Node) /\ r \in Seq(Node) /\ next[t] = r \o z /\ x = e \o (y \o r) /\ o \o (x \o z) = all
  BY <1>1, <1>2, <1>8, <1>10, <1>11 DEF Made
<1> HIDE DEF z, r
<1>13. (o \o e) \o (y \o (r \o z)) = all
  <2>1. y \o r \in Seq(Node) /\ y \o (r \o z) \in Seq(Node) /\ r \o z \in Seq(Node) /\ (y \o r) \o z \in Seq(Node)
    BY <1>12
  <2>2. (o \o e) \o (y \o (r \o z)) = o \o (e \o (y \o (r \o z)))
    <3> DEFINE w == y \o (r \o z)
    <3>1. w \in Seq(Node) /\ o \in Seq(Node)
      BY <1>1, <2>1
    <3> HIDE DEF w
    <3>2. (o \o e) \o w = o \o (e \o w)
      BY <3>1, Associative
    <3>3. QED
      BY <3>2 DEF w
  <2>3. y \o (r \o z) = (y \o r) \o z
    BY <1>12, Associative
  <2>4. e \o ((y \o r) \o z) = (e \o (y \o r)) \o z
    BY <1>12, <2>1, Associative
  <2>5. QED
    BY <1>12, <2>2, <2>3, <2>4
<1>14. At(q, next, n, y, b, t + 1, p2, o \o e, all, U)
  <2>1. t + 1 \in Nat \ {0} /\ t + 1 <= StackSize + 1 /\ (t + 1) - 1 = t
    BY <1>2
  <2>2. Owed(q, next, p2, t)
    BY <1>2, <1>10
  <2>3. o \o e \in Seq(Node)
    BY <1>1
  <2>4. QED
    BY <1>7, <1>12, <1>13, <1>16, <2>1, <2>2, <2>3 DEF At
<1>15. QED
  BY <1>14 DEF Went

\* From a node to the one below it on the stack, after x has been printed.
LEMMA GoUp ==
    ASSUME NEW path, NEW todo, NEW c, NEW x, NEW a, NEW t, NEW p, NEW o, NEW all, NEW U,
           At(path, todo, c, x, a, t, p, o, all, U),
           NEW p2, Elsewhere(p2, p, c)
    PROVE  Back(path, todo, a, t - 1, p2, o \o x, all, U)
<1> DEFINE d == t - 1
<1>1. /\ t \in Nat \ {0} /\ t <= StackSize + 1 /\ path[t] = c /\ Chain(path, a, U, t)
      /\ Owed(path, todo, p, d) /\ o \in Seq(Node) /\ x \in Seq(Node) /\ o \o (x \o todo[d]) = all
  BY DEF At
<1>2. t \in Nat /\ t > 0 /\ d \in Nat /\ d <= StackSize /\ d + 1 = t /\ StackSize \in Nat
  BY <1>1, StackSizeAssumption
<1>3. /\ path \in [1..(StackSize + 1) -> Node] /\ \A i, j \in 1..t : i < j => path[i] < path[j]
  BY <1>1 DEF Chain
<1>4. \A i \in 1..d : path[i] \in Node /\ path[i] # c
  <2>1. SUFFICES ASSUME NEW i \in 1..d PROVE path[i] \in Node /\ path[i] # c
    OBVIOUS
  <2>2. i \in 1..t /\ t \in 1..t /\ i < t /\ i \in 1..(StackSize + 1)
    BY <1>1, <1>2
  <2>3. path[i] \in Node /\ path[i] < path[t]
    BY <1>3, <2>2
  <2>4. QED
    BY <1>1, <2>3 DEF Node
<1>5. Agree(path, p2, path, p, d)
  BY <1>4 DEF Agree, Elsewhere
<1>6. Owed(path, todo, p2, d)
  BY <1>1, <1>2, <1>5, OwedKept
<1>7. Chain(path, a, U, d)
  BY <1>1, <1>2, ChainPop
<1>8. todo[d] \in Seq(Node)
  BY <1>1, <1>2 DEF Owed
<1>9. (o \o x) \o todo[d] = all /\ o \o x \in Seq(Node)
  <2> DEFINE z == todo[d]
  <2>1. z \in Seq(Node) /\ o \in Seq(Node) /\ x \in Seq(Node) /\ o \o (x \o z) = all
    BY <1>1, <1>8
  <2> HIDE DEF z
  <2>2. (o \o x) \o z = o \o (x \o z)
    BY <2>1, Associative
  <2>3. o \o x \in Seq(Node)
    BY <2>1
  <2>4. QED
    BY <2>1, <2>2, <2>3 DEF z
<1>10. QED
  BY <1>2, <1>6, <1>7, <1>9 DEF Back

\* Back at a node, what is pending for it comes next.
LEMMA BackAt ==
    ASSUME NEW path, NEW todo, NEW a, NEW t, NEW p, NEW o, NEW all, NEW U,
           Back(path, todo, a, t, p, o, all, U), t > 0, \A m \in Node : p[m] \in Seq(Node)
    PROVE  /\ path[t] \in Node /\ path[t] \in U /\ path[t] = a[t].base
           /\ At(path, todo, path[t], p[path[t]], a, t, p, o, all, U)
<1>1. /\ t \in Nat /\ t <= StackSize /\ Chain(path, a, U, t) /\ Owed(path, todo, p, t)
      /\ o \in Seq(Node) /\ o \o todo[t] = all /\ StackSize \in Nat
  BY StackSizeAssumption DEF Back
<1>2. t \in 1..t /\ t \in 1..(StackSize + 1)
  BY <1>1
<1>3. path[t] \in Node /\ path[t] \in U /\ path[t] = a[t].base
  BY <1>1, <1>2 DEF Chain
<1>4. todo[t] = p[path[t]] \o todo[t - 1]
  BY <1>1, <1>2 DEF Owed
<1>5. Owed(path, todo, p, t - 1)
  <2>1. \A i \in 1..(t - 1) : i \in 1..t
    BY <1>1
  <2>2. QED
    BY <1>1, <2>1 DEF Owed
<1>6. t \in Nat \ {0} /\ t <= StackSize + 1 /\ p[path[t]] \in Seq(Node)
  BY <1>1, <1>3
<1>7. o \o (p[path[t]] \o todo[t - 1]) = all
  BY <1>1, <1>4
<1>8. QED
  BY <1>1, <1>3, <1>5, <1>6, <1>7 DEF At

\* The words of the stack.
Word == [base : Node \cup {Zero}, inc : Nat]

\* What each node has still to print when the traversal comes back to it.
Pends == [n \in Node |-> Pending(kind, Order(kind), right, visited, n)]

Types ==
    /\ root \in Link /\ cur \in Link
    /\ visited \in [Node -> BOOLEAN]
    /\ kind \in {"pre", "in", "post"}
    /\ pc \in {"idle", "push", "descend", "iterate", "dead"}
    /\ out \in Seq(Node)
    /\ top \in 0..(StackSize + 1)
    /\ array \in [1..(StackSize + 1) -> Word]

Descent == \E path, todo : At(path, todo, cur, Order(kind)[cur], array, top, Pends, out,
                              Order(kind)[root], Nodes[root])
Ascent == \E path, todo : Back(path, todo, array, top, Pends, out,
                               Order(kind)[root], Nodes[root])

Walk ==
    /\ pc = "push" => root \in Node /\ cur = root /\ top = 0 /\ out = <<>>
    /\ pc = "descend" => Descent
    /\ pc = "iterate" => Ascent
    /\ pc = "dead" => StackSize < Cardinality(Under(root))

\* push stores the node on top of the others, in the array or behind it.
LEMMA PushRight ==
    ASSUME array \in [1..(StackSize + 1) -> Word], top \in 0..(StackSize + 1),
           NEW n \in Node, St!Push(n)
    PROVE  /\ top <= StackSize /\ top' = top + 1 /\ top' \in 0..(StackSize + 1)
           /\ Stacked(array', array, top, n)
           /\ array' \in [1..(StackSize + 1) -> Word]
<1> DEFINE N == StackSize + 1
           w == [base |-> n, inc |-> 0]
           mid == [array EXCEPT ![top + 1] = w]
           last == [mid[N] EXCEPT !.inc = mid[N].inc + 1]
<1>1. /\ top <= StackSize /\ top' = top + 1 /\ StackSize \in Nat
      /\ array' = [mid EXCEPT ![N] = last]
  BY StackSizeAssumption DEF St!Push, St!Room, St!Stored, St!Pointer, St!Plus1
<1>2. top + 1 \in 1..N /\ N \in 1..N /\ top' \in 0..N
  BY <1>1
<1>3. w \in Word /\ w.base = n
  BY DEF Word
<1> HIDE DEF w
<1>4. mid \in [1..N -> Word] /\ mid[top + 1] = w /\ \A i \in 1..N : i # top + 1 => mid[i] = array[i]
  BY <1>2, <1>3
<1> HIDE DEF mid
<1>5. mid[N] \in Word
  BY <1>2, <1>4
<1>6. last \in Word
  BY <1>5 DEF Word
<1> HIDE DEF last
<1>7. array' \in [1..N -> Word] /\ \A i \in 1..N : i # N => array'[i] = mid[i]
  BY <1>1, <1>4, <1>6
<1>8. Stacked(array', array, top, n)
  <2>1. SUFFICES ASSUME NEW i \in 1..StackSize
                 PROVE  array'[i].base = IF i = top + 1 THEN n ELSE array[i].base
    BY DEF Stacked
  <2>2. i \in 1..N /\ i # N
    BY <1>1
  <2>3. array'[i] = mid[i]
    BY <1>7, <2>2
  <2>4. QED
    BY <1>3, <1>4, <2>2, <2>3
<1>9. QED
  BY <1>1, <1>2, <1>7, <1>8

\* While the tree stays, so do its traversals.
LEMMA OrderKept ==
    ASSUME UNCHANGED tree
    PROVE  /\ root' = root /\ left' = left /\ right' = right
           /\ \A k : Order(k)' = Order(k)
           /\ Nodes' = Nodes /\ Under(root)' = Under(root)
<1>1. root' = root /\ left' = left /\ right' = right
  BY DEF tree
<1>2. Inorder' = Inorder /\ Preorder' = Preorder /\ Postorder' = Postorder
  BY <1>1, OfTree, OfTreePrimed
<1>3. \A k : Order(k)' = Order(k)
  BY <1>2 DEF Order
<1>4. Nodes' = Nodes /\ Under(root)' = Under(root)
  BY <1>1, <1>2 DEF Nodes, Under
<1>5. QED
  BY <1>1, <1>3, <1>4

\* What is pending is a sequence of nodes, for every node.
LEMMA PendsNodes ==
    ASSUME Trees, kind \in {"pre", "in", "post"}
    PROVE  \A n \in Node : /\ Pends[n] \in Seq(Node)
                           /\ Pends[n] = Pending(kind, Order(kind), right, visited, n)
<1>1. Descends(left, right) /\ IsOrder(Order(kind), kind, left, right)
  BY OrderEquations DEF Trees
<1>2. QED
  BY <1>1, PendingNodes DEF Pends

\* A node other than c is not touched.
LEMMA PendsKept ==
    ASSUME Trees, kind \in {"pre", "in", "post"}, UNCHANGED <<tree, kind>>,
           NEW c \in Node, \A m \in Node : m # c => visited'[m] = visited[m]
    PROVE  /\ Elsewhere(Pends', Pends, c)
           /\ Pends'[c] = Pending(kind, Order(kind), right, visited', c)
           /\ Pends'[c] \in Seq(Node)
<1>1. Descends(left, right) /\ IsOrder(Order(kind), kind, left, right)
  BY OrderEquations DEF Trees
<1>2. right' = right /\ kind' = kind /\ Order(kind)' = Order(kind)
  BY OrderKept
<1>3. \A m \in Node : Pends'[m] = Pending(kind, Order(kind), right, visited', m)
  BY <1>2 DEF Pends, Pending
<1>4. \A m \in Node : m # c => Pends'[m] = Pends[m]
  BY <1>3 DEF Pends, Pending
<1>5. QED
  BY <1>1, <1>3, <1>4, PendingNodes DEF Elsewhere

\* All that is printed is as long as the tree is large.
LEMMA TreeSize ==
    ASSUME Trees, NEW k \in {"pre", "in", "post"}
    PROVE  /\ IsFiniteSet(Under(root)) /\ Cardinality(Under(root)) \in Nat
           /\ Order(k)[root] \in Seq(Node) /\ Len(Order(k)[root]) = Cardinality(Under(root))
<1>1. /\ Descends(left, right) /\ root \in Link /\ IsInorder(Inorder, left, right)
      /\ IsInjective(Inorder[root])
  BY TreeFacts
<1>2. IsPreorder(Preorder, left, right) /\ IsPostorder(Postorder, left, right)
  BY <1>1, OfTree, PreorderEquations, PostorderEquations
<1> DEFINE s == Inorder[root]
<1>3. s \in Seq(Node)
  BY <1>1 DEF IsInorder
<1>4. Len(Preorder[root]) = Len(s) /\ Len(Postorder[root]) = Len(s)
  BY <1>1, <1>2, PrintLengths
<1>5. Under(root) = Range(s)
  BY DEF Under
<1> HIDE DEF s
<1>6. /\ IsFiniteSet(Range(s)) /\ Cardinality(Range(s)) = Len(s)
  <2>1. Len(s) \in Nat /\ DOMAIN s = 1..Len(s)
    BY <1>3
  <2>2. IsFiniteSet(1..Len(s)) /\ Cardinality(1..Len(s)) = Len(s)
    <3>1. \A n \in Nat : IsFiniteSet(1..n) /\ Cardinality(1..n) = n
      BY FS_Interval
    <3>2. QED
      BY <2>1, <3>1
  <2>3. s \in Surjection(1..Len(s), Range(s)) /\ s \in Injection(1..Len(s), Range(s))
    BY <1>1, <1>3, <2>1 DEF s, Surjection, Injection, IsInjective, Range
  <2>4. s \in Bijection(1..Len(s), Range(s))
    BY <2>3 DEF Bijection
  <2>5. QED
    BY <2>2, <2>4, FS_Bijection DEF ExistsBijection
<1>7. Order(k)[root] \in Seq(Node) /\ Len(Order(k)[root]) = Len(s)
  BY <1>1, <1>2, <1>3, <1>4 DEF Order, IsPreorder, IsPostorder, s
<1>8. QED
  BY <1>3, <1>5, <1>6, <1>7

\* A chain is no longer than the tree is large.
LEMMA ChainLength ==
    ASSUME NEW path, NEW a, NEW U, IsFiniteSet(U), NEW t \in Nat, t <= StackSize + 1,
           Chain(path, a, U, t)
    PROVE  t <= Cardinality(U)
<1> DEFINE f == [i \in 1..t |-> path[i]]
<1>1. /\ path \in [1..(StackSize + 1) -> Node]
      /\ \A i \in 1..t : path[i] \in U
      /\ \A i, j \in 1..t : i < j => path[i] < path[j]
  BY DEF Chain
<1>2. \A i \in 1..t : path[i] \in Nat
  BY <1>1, StackSizeAssumption DEF Node
<1>3. \A i, j \in 1..t : path[i] = path[j] => i = j
  <2>1. SUFFICES ASSUME NEW i \in 1..t, NEW j \in 1..t, path[i] = path[j], i # j PROVE FALSE
    OBVIOUS
  <2>2. i < j \/ j < i
    BY <2>1
  <2>3. QED
    BY <1>1, <1>2, <2>1, <2>2
<1>4. f \in Injection(1..t, U)
  BY <1>1, <1>3 DEF Injection, IsInjective
<1>5. IsFiniteSet(1..t) /\ Cardinality(1..t) = t
  BY FS_Interval
<1>6. QED
  BY <1>4, <1>5, FS_Injection DEF ExistsInjection

\* Conditions that the steps of a traversal have in common.
Ready == Types /\ Trees

\* The length of a concatenation.
LEMMA ConcatLength ==
    ASSUME NEW a \in Seq(Node), NEW b \in Seq(Node)
    PROVE  Len(a \o b) = Len(a) + Len(b) /\ Len(a) \in Nat /\ Len(b) \in Nat
  OBVIOUS

\* What has been printed is no longer than all that is printed.
LEMMA PrintedWithin ==
    ASSUME Ready, NEW o \in Seq(Node), NEW rest \in Seq(Node), o \o rest = Order(kind)[root]
    PROVE  Len(o) <= Cardinality(Under(root))
<1>1. Len(Order(kind)[root]) = Cardinality(Under(root))
  BY TreeSize DEF Ready, Types
<1>2. Len(o \o rest) = Len(o) + Len(rest) /\ Len(o) \in Nat /\ Len(rest) \in Nat
  BY ConcatLength
<1>3. QED
  BY <1>1, <1>2

\* Down from c to its child n, after e has been printed and b noted in c.
LEMMA WalkDown ==
    ASSUME Ready, UNCHANGED <<tree, kind>>,
           NEW path, NEW todo, NEW c \in Node, NEW x,
           At(path, todo, c, x, array, top, Pends, out, Order(kind)[root], Nodes[root]),
           NEW n \in Node, n \in {left[c], right[c]}, St!Push(n), cur' = n,
           NEW b \in BOOLEAN, visited' = [visited EXCEPT ![c] = b],
           NEW e \in Seq(Node), x = e \o (Order(kind)[n] \o Pending(kind, Order(kind), right, visited', c)),
           NEW s, Emit(s, "descend"), s = e
    PROVE  Types' /\ Walk'
<1>1. /\ root \in Link /\ visited \in [Node -> BOOLEAN] /\ kind \in {"pre", "in", "post"}
      /\ out \in Seq(Node) /\ top \in 0..(StackSize + 1) /\ StackSize \in Nat
      /\ array \in [1..(StackSize + 1) -> Word] /\ Trees
  BY StackSizeAssumption DEF Ready, Types
<1>2. Descends(left, right) /\ Unders(Nodes, left, right) /\ IsOrder(Order(kind), kind, left, right)
  BY <1>1, OrderEquations, TreeFacts
<1>3. /\ top <= StackSize /\ top' = top + 1 /\ top' \in 0..(StackSize + 1)
      /\ Stacked(array', array, top, n) /\ array' \in [1..(StackSize + 1) -> Word]
  BY <1>1, PushRight
<1>4. /\ Elsewhere(Pends', Pends, c)
      /\ Pends'[c] = Pending(kind, Order(kind), right, visited', c)
      /\ Pends'[c] \in Seq(Node)
  BY <1>1, PendsKept
<1>5. c \in Nodes[root]
  BY <1>3 DEF At, Chain
<1>6. n \in Nodes[root] /\ c < n
  <2>1. c < n
    BY <1>2 DEF Descends, Follows, Nil, Node
  <2>2. n \in Nodes[c] /\ Nodes[c] \subseteq Nodes[root]
    BY <1>1, <1>2, <1>5, UnderChild, UnderWithin DEF Nil, Node
  <2>3. QED
    BY <2>1, <2>2
<1> DEFINE y == Order(kind)[n]
           all == Order(kind)[root]
<1>7. y \in Seq(Node) /\ Made(x, e, y, Pends', c)
  BY <1>2, <1>4 DEF IsOrder, Link, Made
<1> HIDE DEF y, all
<1>8. \E path2, todo2 : At(path2, todo2, n, y, array', top + 1, Pends', out \o e, all, Nodes[root])
  <2>1. At(path, todo, c, x, array, top, Pends, out, all, Nodes[root]) /\ top <= StackSize
    BY <1>3 DEF all
  <2>2. n \in Nodes[root] /\ c < n /\ Stacked(array', array, top, n)
    BY <1>3, <1>6
  <2>3. Elsewhere(Pends', Pends, c) /\ Pends'[c] \in Seq(Node)
    BY <1>4
  <2>4. Went(n, y, array', top, Pends', out, e, all, Nodes[root])
    BY <1>7, <2>1, <2>2, <2>3, GoDown
  <2> QED BY <2>4 DEF Went
<1>9. /\ root' = root /\ Order(kind)' = Order(kind) /\ Nodes' = Nodes
      /\ Under(root)' = Under(root) /\ kind' = kind
  BY OrderKept
<1>10. out' = out \o e /\ pc' = IF Len(out') > StackSize THEN "dead" ELSE "descend"
  BY DEF Emit
<1>11. Descent'
  BY <1>3, <1>8, <1>9, <1>10 DEF Descent, y, all
<1>12. Len(out') <= Cardinality(Under(root)) /\ out' \in Seq(Node)
  <2>1. PICK path2, todo2 : At(path2, todo2, n, y, array', top + 1, Pends', out \o e, all, Nodes[root])
    BY <1>8
  <2> DEFINE o == out \o e
             rest == y \o todo2[top]
  <2>6. (top + 1) - 1 = top
    BY <1>1
  <2>7. todo2 \in [0..(StackSize + 1) -> Seq(Node)]
    BY <2>1 DEF At, Owed
  <2>8. o \in Seq(Node) /\ o \o (y \o todo2[(top + 1) - 1]) = all
    BY <2>1 DEF At
  <2> HIDE DEF o
  <2>2. o \in Seq(Node) /\ todo2 \in [0..(StackSize + 1) -> Seq(Node)] /\ o \o (y \o todo2[top]) = all
    BY <2>6, <2>7, <2>8
  <2>3. rest \in Seq(Node) /\ o \o rest = all
    BY <1>1, <1>7, <2>2
  <2> HIDE DEF rest, o
  <2>4. Len(o) <= Cardinality(Under(root))
    BY <2>2, <2>3, PrintedWithin DEF all
  <2>5. QED
    BY <1>10, <2>2, <2>4 DEF o
<1>13. pc' \in {"descend", "dead"} /\ (pc' = "dead" => StackSize < Cardinality(Under(root)))
  <2>1. Cardinality(Under(root)) \in Nat /\ Len(out') \in Nat
    BY <1>1, <1>12, TreeSize
  <2>2. QED
    BY <1>1, <1>10, <1>12, <2>1
<1>14. Walk'
  BY <1>9, <1>11, <1>13 DEF Walk
<1>15. visited' \in [Node -> BOOLEAN] /\ cur' \in Link
  BY <1>1 DEF Link
<1>16. Types'
  BY <1>1, <1>3, <1>9, <1>12, <1>13, <1>15 DEF Types
<1>17. QED
  BY <1>14, <1>16

\* Back from c, after what it still had to print has been printed.
LEMMA WalkUp ==
    ASSUME Ready, UNCHANGED <<tree, kind>>,
           NEW path, NEW todo, NEW c \in Node, NEW x,
           At(path, todo, c, x, array, top, Pends, out, Order(kind)[root], Nodes[root]),
           St!Pop, cur' \in Link, visited' \in [Node -> BOOLEAN],
           \A m \in Node : m # c => visited'[m] = visited[m],
           NEW s, Emit(s, "iterate"), s = x
    PROVE  Types' /\ Walk'
<1>1. /\ root \in Link /\ kind \in {"pre", "in", "post"}
      /\ out \in Seq(Node) /\ top \in 0..(StackSize + 1) /\ StackSize \in Nat
      /\ array \in [1..(StackSize + 1) -> Word] /\ Trees
  BY StackSizeAssumption DEF Ready, Types
<1>2. top > 0 /\ top' = top - 1 /\ array' = array
  BY DEF St!Pop
<1>3. top' \in 0..(StackSize + 1)
  BY <1>1, <1>2
<1>4. Elsewhere(Pends', Pends, c)
  BY <1>1, PendsKept
<1> DEFINE all == Order(kind)[root]
<1>5. Back(path, todo, array, top - 1, Pends', out \o x, all, Nodes[root])
  BY <1>4, GoUp
<1>6. /\ root' = root /\ Order(kind)' = Order(kind) /\ Nodes' = Nodes
      /\ Under(root)' = Under(root) /\ kind' = kind
  BY OrderKept
<1>7. out' = out \o x /\ pc' = IF Len(out') > StackSize THEN "dead" ELSE "iterate"
  BY DEF Emit
<1>8. Ascent'
  BY <1>2, <1>5, <1>6, <1>7 DEF Ascent
<1>9. Len(out') <= Cardinality(Under(root)) /\ out' \in Seq(Node)
  <2> DEFINE o == out \o x
             rest == todo[top - 1]
  <2>1. o \in Seq(Node) /\ todo \in [0..(StackSize + 1) -> Seq(Node)] /\ top - 1 \in 0..(StackSize + 1)
        /\ o \o rest = all
    BY <1>1, <1>2, <1>5 DEF Back, Owed
  <2>2. rest \in Seq(Node)
    BY <2>1
  <2> HIDE DEF rest, o
  <2>3. Len(o) <= Cardinality(Under(root))
    BY <2>1, <2>2, PrintedWithin DEF all
  <2>4. QED
    BY <1>7, <2>1, <2>3 DEF o
<1>10. pc' \in {"iterate", "dead"} /\ (pc' = "dead" => StackSize < Cardinality(Under(root)))
  <2>1. Cardinality(Under(root)) \in Nat /\ Len(out') \in Nat
    BY <1>1, <1>9, TreeSize
  <2>2. QED
    BY <1>1, <1>7, <1>9, <2>1
<1>11. Walk'
  BY <1>6, <1>8, <1>10 DEF Walk
<1>12. Types'
  BY <1>1, <1>2, <1>3, <1>6, <1>9, <1>10 DEF Types
<1>13. QED
  BY <1>11, <1>12

\* The node of the traversal is on top of the stack.
LEMMA AtTop ==
    ASSUME NEW path, NEW todo, NEW c, NEW x, NEW p, NEW o, NEW all, NEW U,
           At(path, todo, c, x, array, top, p, o, all, U)
    PROVE  c \in Node /\ (top <= StackSize => Above = c)
<1>1. /\ top \in Nat \ {0} /\ top <= StackSize + 1 /\ path[top] = c /\ Chain(path, array, U, top)
      /\ StackSize \in Nat
  BY StackSizeAssumption DEF At
<1>2. top \in 1..top /\ top \in 1..(StackSize + 1)
  BY <1>1
<1>3. QED
  BY <1>1, <1>2 DEF Chain, Above

\* The steps of the traversals, one by one.
LEMMA WalkDescendLeft ==
    ASSUME Ready, Walk, DescendLeft
    PROVE  Types' /\ Walk'
<1>1. /\ pc = "descend" /\ top <= StackSize /\ left[cur] # Nil /\ St!Push(left[cur])
      /\ visited' = [visited EXCEPT ![cur] = FALSE] /\ cur' = left[cur]
      /\ Emit(IF kind = "pre" THEN <<Above>> ELSE <<>>, "descend") /\ UNCHANGED <<tree, kind>>
  BY DEF DescendLeft, Descending
<1>2. PICK path, todo : At(path, todo, cur, Order(kind)[cur], array, top, Pends, out,
                           Order(kind)[root], Nodes[root])
  BY <1>1 DEF Walk, Descent
<1>3. cur \in Node /\ Above = cur
  BY <1>1, <1>2, AtTop
<1> DEFINE f == Order(kind)
           s == IF kind = "pre" THEN <<Above>> ELSE <<>>
           n == left[cur]
<1>4. IsOrder(f, kind, left, right) /\ Descends(left, right)
  BY OrderEquations DEF Ready, Types, Trees
<1>5. n \in Node /\ f[n] \in Seq(Node) /\ f[right[cur]] \in Seq(Node)
  BY <1>1, <1>3, <1>4 DEF Descends, IsOrder, Link
<1>6. f[cur] = Early(kind, cur) \o (f[n] \o Pending(kind, f, right, visited', cur))
  <2>1. visited'[cur] = FALSE
    BY <1>1, <1>3 DEF Ready, Types
  <2>2. Pending(kind, f, right, visited', cur)
           = Amid(kind, cur) \o (f[right[cur]] \o Late(kind, cur))
    BY <2>1 DEF Pending
  <2>3. QED
    BY <1>3, <1>4, <2>2 DEF IsOrder
<1>7. s = Early(kind, cur)
  BY <1>3 DEF Early
<1>8. Early(kind, cur) \in Seq(Node)
  BY <1>3, Parts
<1> HIDE DEF s
<1>9. Emit(s, "descend")
  BY <1>1 DEF s
<1>10. QED
  BY <1>1, <1>2, <1>3, <1>5, <1>6, <1>7, <1>8, <1>9, WalkDown

LEMMA WalkDescendRight ==
    ASSUME Ready, Walk, DescendRight
    PROVE  Types' /\ Walk'
<1>1. /\ pc = "descend" /\ top <= StackSize /\ left[cur] = Nil /\ right[cur] # Nil
      /\ St!Push(right[cur]) /\ visited' = [visited EXCEPT ![cur] = TRUE] /\ cur' = right[cur]
      /\ Emit(IF kind = "post" THEN <<>> ELSE <<Above>>, "descend") /\ UNCHANGED <<tree, kind>>
  BY DEF DescendRight, Descending
<1>2. PICK path, todo : At(path, todo, cur, Order(kind)[cur], array, top, Pends, out,
                           Order(kind)[root], Nodes[root])
  BY <1>1 DEF Walk, Descent
<1>3. cur \in Node /\ Above = cur
  BY <1>1, <1>2, AtTop
<1> DEFINE f == Order(kind)
           s == IF kind = "post" THEN <<>> ELSE <<Above>>
           n == right[cur]
           e == Early(kind, cur) \o Amid(kind, cur)
<1>4. IsOrder(f, kind, left, right) /\ Descends(left, right)
  BY OrderEquations DEF Ready, Types, Trees
<1>5. n \in Node /\ f[n] \in Seq(Node) /\ f[left[cur]] = <<>>
  BY <1>1, <1>3, <1>4 DEF Descends, IsOrder, Link
<1>6. f[cur] = e \o (f[n] \o Pending(kind, f, right, visited', cur))
  <2>1. visited'[cur] = TRUE
    BY <1>1, <1>3 DEF Ready, Types
  <2>2. Pending(kind, f, right, visited', cur) = Late(kind, cur)
    BY <2>1 DEF Pending
  <2>3. f[cur] = Early(kind, cur) \o (<<>> \o (Amid(kind, cur) \o (f[n] \o Late(kind, cur))))
    BY <1>3, <1>4, <1>5 DEF IsOrder
  <2> DEFINE a == Early(kind, cur)
             b == Amid(kind, cur)
             z == f[n] \o Late(kind, cur)
  <2>4. a \in Seq(Node) /\ b \in Seq(Node) /\ z \in Seq(Node)
    BY <1>3, <1>5, Parts
  <2> HIDE DEF a, b, z
  <2>5. b \o z \in Seq(Node)
    BY <2>4
  <2>6. <<>> \o (b \o z) = b \o z
    BY <2>5, Neutral
  <2>7. a \o (b \o z) = (a \o b) \o z
    BY <2>4, Associative
  <2>8. QED
    BY <2>2, <2>3, <2>6, <2>7 DEF a, b, z
<1>7. s = e
  <2>1. Early(kind, cur) = IF kind = "pre" THEN <<cur>> ELSE <<>>
    BY DEF Early
  <2>2. Amid(kind, cur) = IF kind = "in" THEN <<cur>> ELSE <<>>
    BY DEF Amid
  <2>3. <<cur>> \o <<>> = <<cur>> /\ <<>> \o <<cur>> = <<cur>> /\ <<>> \o <<>> = <<>>
    BY <1>3
  <2>4. kind \in {"pre", "in", "post"}
    BY DEF Ready, Types
  <2>5. QED
    BY <1>3, <2>1, <2>2, <2>3, <2>4
<1>8. e \in Seq(Node)
  BY <1>3, Parts
<1> HIDE DEF s, e
<1>9. Emit(s, "descend")
  BY <1>1 DEF s
<1>10. QED
  BY <1>1, <1>2, <1>3, <1>5, <1>6, <1>7, <1>8, <1>9, WalkDown

LEMMA WalkLeaf ==
    ASSUME Ready, Walk, Leaf
    PROVE  Types' /\ Walk'
<1>1. /\ pc = "descend" /\ top <= StackSize /\ left[cur] = Nil /\ right[cur] = Nil /\ St!Pop
      /\ visited' = IF kind = "in" THEN [visited EXCEPT ![Above] = TRUE] ELSE visited
      /\ Emit(<<Above>>, "iterate") /\ UNCHANGED <<tree, kind>> /\ cur' = cur
  BY DEF Leaf, Descending
<1>2. PICK path, todo : At(path, todo, cur, Order(kind)[cur], array, top, Pends, out,
                           Order(kind)[root], Nodes[root])
  BY <1>1 DEF Walk, Descent
<1>3. cur \in Node /\ Above = cur
  BY <1>1, <1>2, AtTop
<1> DEFINE f == Order(kind)
           s == <<Above>>
<1>4. IsOrder(f, kind, left, right)
  BY OrderEquations DEF Ready, Types, Trees
<1>5. s = f[cur]
  <2>1. f[cur] = Early(kind, cur) \o (<<>> \o (Amid(kind, cur) \o (<<>> \o Late(kind, cur))))
    BY <1>1, <1>3, <1>4 DEF IsOrder
  <2>2. /\ Early(kind, cur) = IF kind = "pre" THEN <<cur>> ELSE <<>>
        /\ Amid(kind, cur) = IF kind = "in" THEN <<cur>> ELSE <<>>
        /\ Late(kind, cur) = IF kind = "post" THEN <<cur>> ELSE <<>>
    BY DEF Early, Amid, Late
  <2>3. <<cur>> \o <<>> = <<cur>> /\ <<>> \o <<cur>> = <<cur>> /\ <<>> \o <<>> = <<>>
    BY <1>3
  <2>4. kind \in {"pre", "in", "post"}
    BY DEF Ready, Types
  <2>5. QED
    BY <1>3, <2>1, <2>2, <2>3, <2>4
<1>6. visited' \in [Node -> BOOLEAN] /\ \A m \in Node : m # cur => visited'[m] = visited[m]
  BY <1>1, <1>3 DEF Ready, Types
<1>7. cur' \in Link
  BY <1>1 DEF Ready, Types
<1> HIDE DEF s
<1>8. Emit(s, "iterate")
  BY <1>1 DEF s
<1>9. QED
  BY <1>1, <1>2, <1>3, <1>5, <1>6, <1>7, <1>8, WalkUp

\* The node to which the traversal goes back.
LEMMA AscentAt ==
    ASSUME Ready, Walk, pc = "iterate", top > 0
    PROVE  /\ top <= StackSize /\ Above \in Node /\ Above \in Nodes[root]
           /\ \E path, todo :
                At(path, todo, Above, Pends[Above], array, top, Pends, out, Order(kind)[root], Nodes[root])
<1>1. PICK path, todo : Back(path, todo, array, top, Pends, out, Order(kind)[root], Nodes[root])
  BY DEF Walk, Ascent
<1>2. \A m \in Node : Pends[m] \in Seq(Node)
  BY PendsNodes DEF Ready, Types
<1>3. /\ path[top] \in Node /\ path[top] \in Nodes[root] /\ path[top] = array[top].base
      /\ At(path, todo, path[top], Pends[path[top]], array, top, Pends, out, Order(kind)[root], Nodes[root])
  BY <1>1, <1>2, BackAt
<1>4. top <= StackSize
  BY <1>1 DEF Back
<1>5. Above = path[top]
  BY <1>3 DEF Above
<1>6. QED
  BY <1>3, <1>4, <1>5

LEMMA WalkTurnRight ==
    ASSUME Ready, Walk, TurnRight
    PROVE  Types' /\ Walk'
<1> DEFINE c == Above
           f == Order(kind)
           s == IF kind = "in" THEN <<c>> ELSE <<>>
           n == right[c]
<1>1. /\ pc = "iterate" /\ top > 0 /\ ~visited[c] /\ n # Nil /\ St!Push(n)
      /\ visited' = [visited EXCEPT ![c] = TRUE] /\ cur' = n
      /\ Emit(s, "descend") /\ UNCHANGED <<tree, kind>>
  BY DEF TurnRight, Iterating
<1>2. c \in Node
  BY <1>1, AscentAt
<1>3. PICK path, todo : At(path, todo, c, Pends[c], array, top, Pends, out, f[root], Nodes[root])
  BY <1>1, AscentAt
<1> HIDE DEF c
<1>4. IsOrder(f, kind, left, right) /\ Descends(left, right)
  BY OrderEquations DEF Ready, Types, Trees
<1>5. n \in Node /\ f[n] \in Seq(Node)
  BY <1>1, <1>2, <1>4 DEF Descends, IsOrder, Link
<1>6. Pends[c] = Amid(kind, c) \o (f[n] \o Pending(kind, f, right, visited', c))
  <2>1. visited'[c] = TRUE
    BY <1>1, <1>2 DEF Ready, Types
  <2>2. Pending(kind, f, right, visited', c) = Late(kind, c)
    BY <2>1 DEF Pending
  <2>3. Pends[c] = Amid(kind, c) \o (f[n] \o Late(kind, c))
    BY <1>1, <1>2 DEF Pends, Pending
  <2>4. QED
    BY <2>2, <2>3
<1>7. s = Amid(kind, c)
  BY DEF Amid
<1>8. Amid(kind, c) \in Seq(Node)
  BY <1>2, Parts
<1> HIDE DEF s
<1>9. QED
  BY <1>1, <1>2, <1>3, <1>5, <1>6, <1>7, <1>8, WalkDown

LEMMA WalkClimb ==
    ASSUME Ready, Walk, Climb
    PROVE  Types' /\ Walk'
<1> DEFINE c == Above
           f == Order(kind)
           s == IF kind = "post" \/ (kind = "in" /\ ~visited[c]) THEN <<c>> ELSE <<>>
<1>1. /\ pc = "iterate" /\ top > 0 /\ (visited[c] \/ right[c] = Nil) /\ St!Pop
      /\ visited' = [visited EXCEPT ![c] = TRUE] /\ cur' = c
      /\ Emit(s, "iterate") /\ UNCHANGED <<tree, kind>>
  BY DEF Climb, Iterating
<1>2. c \in Node
  BY <1>1, AscentAt
<1>3. PICK path, todo : At(path, todo, c, Pends[c], array, top, Pends, out, f[root], Nodes[root])
  BY <1>1, AscentAt
<1> HIDE DEF c
<1>4. IsOrder(f, kind, left, right)
  BY OrderEquations DEF Ready, Types, Trees
<1>5. s = Pends[c]
  <2>1. Amid(kind, c) = (IF kind = "in" THEN <<c>> ELSE <<>>) /\ Late(kind, c) = IF kind = "post" THEN <<c>> ELSE <<>>
    BY DEF Amid, Late
  <2>2. <<c>> \o <<>> = <<c>> /\ <<>> \o <<c>> = <<c>> /\ <<>> \o <<>> = <<>>
    BY <1>2
  <2>3. kind \in {"pre", "in", "post"}
    BY DEF Ready, Types
  <2>4. CASE visited[c]
    <3>1. Pends[c] = Late(kind, c)
      BY <1>2, <2>4 DEF Pends, Pending
    <3>2. QED
      BY <2>1, <2>3, <2>4, <3>1
  <2>5. CASE ~visited[c]
    <3>1. f[right[c]] = <<>>
      BY <1>1, <1>4, <2>5 DEF IsOrder
    <3>2. Pends[c] = Amid(kind, c) \o (<<>> \o Late(kind, c))
      BY <1>2, <2>5, <3>1 DEF Pends, Pending
    <3>3. QED
      BY <2>1, <2>2, <2>3, <2>5, <3>2
  <2>6. QED
    BY <2>4, <2>5
<1>6. visited' \in [Node -> BOOLEAN] /\ \A m \in Node : m # c => visited'[m] = visited[m]
  BY <1>1, <1>2 DEF Ready, Types
<1>7. cur' \in Link
  BY <1>1, <1>2 DEF Link
<1> HIDE DEF s
<1>8. QED
  BY <1>1, <1>2, <1>3, <1>5, <1>6, <1>7, WalkUp

LEMMA WalkPushRoot ==
    ASSUME Ready, Walk, PushRoot
    PROVE  Types' /\ Walk'
<1>1. /\ pc = "push" /\ St!Push(root) /\ pc' = "descend"
      /\ UNCHANGED <<tree, visited, kind, cur, out>>
      /\ root \in Node /\ cur = root /\ top = 0 /\ out = <<>>
  BY DEF PushRoot, Walk
<1>2. /\ visited \in [Node -> BOOLEAN] /\ kind \in {"pre", "in", "post"} /\ StackSize \in Nat
      /\ array \in [1..(StackSize + 1) -> Word] /\ Trees
  BY StackSizeAssumption DEF Ready, Types
<1>3. top' = 1 /\ Stacked(array', array, 0, root) /\ array' \in [1..(StackSize + 1) -> Word]
  BY <1>1, <1>2, PushRight
<1> DEFINE path == [i \in 1..(StackSize + 1) |-> root]
           todo == [i \in 0..(StackSize + 1) |-> <<>>]
           all == Order(kind)[root]
<1>4. Descends(left, right) /\ Unders(Nodes, left, right) /\ IsOrder(Order(kind), kind, left, right)
  BY <1>2, OrderEquations, TreeFacts
<1>5. all \in Seq(Node) /\ root \in Nodes[root]
  BY <1>1, <1>4, UnderChild DEF IsOrder, Link
<1>6. Chain(path, array', Nodes[root], 1)
  <2>1. path \in [1..(StackSize + 1) -> Node] /\ \A i \in 1..1 : path[i] = root
    BY <1>1, <1>2
  <2>2. \A i \in 1..1 : i <= StackSize => array'[i].base = path[i]
    BY <1>2, <1>3, <2>1 DEF Stacked
  <2> HIDE DEF path
  <2>3. \A i, j \in 1..1 : i < j => path[i] < path[j]
    OBVIOUS
  <2>4. QED
    BY <1>5, <2>1, <2>2, <2>3 DEF Chain
<1>7. Owed(path, todo, Pends', 0)
  <2>1. todo \in [0..(StackSize + 1) -> Seq(Node)] /\ todo[0] = <<>>
    BY <1>2
  <2>2. QED
    BY <2>1 DEF Owed
<1>8. out \o (all \o todo[0]) = all
  <2>1. todo[0] = <<>>
    BY <1>2
  <2>2. QED
    BY <1>1, <1>5, <2>1, Neutral
<1>9. path[1] = root /\ out \in Seq(Node) /\ 1 \in Nat \ {0} /\ 1 <= StackSize + 1
  BY <1>2 DEF Ready, Types
<1> HIDE DEF path, todo
<1>10. At(path, todo, root, all, array', 1, Pends', out, all, Nodes[root])
  <2>1. 1 - 1 = 0
    OBVIOUS
  <2>2. Owed(path, todo, Pends', 1 - 1) /\ out \o (all \o todo[1 - 1]) = all
    BY <1>7, <1>8, <2>1
  <2>3. QED
    BY <1>5, <1>6, <1>9, <2>2 DEF At
<1>11. /\ root' = root /\ Order(kind)' = Order(kind) /\ Nodes' = Nodes /\ kind' = kind
       /\ out' = out /\ cur' = cur
  BY <1>1, OrderKept
<1>12. Descent'
  BY <1>1, <1>3, <1>10, <1>11 DEF Descent, all
<1>13. Walk'
  BY <1>1, <1>12 DEF Walk
<1>14. Types'
  BY <1>1, <1>2, <1>3, <1>11 DEF Ready, Types
<1>15. QED
  BY <1>13, <1>14

LEMMA WalkStart ==
    ASSUME Ready, NEW k \in {"pre", "in", "post"}, StartTraversal(k)
    PROVE  Types' /\ Walk'
<1>1. /\ root # Nil /\ kind' = k /\ cur' = root /\ out' = <<>> /\ pc' = "push" /\ St!Reset
      /\ UNCHANGED <<tree, visited>>
  BY DEF StartTraversal
<1>2. root' = root /\ visited' = visited /\ root \in Node /\ root \in Link
  BY <1>1 DEF tree, Ready, Types, Link
<1>3. top' = 0 /\ array' \in [1..(StackSize + 1) -> Word]
  <2>1. top' = 0 /\ array' = [i \in 1..(StackSize + 1) |-> [base |-> Zero, inc |-> 0]]
    BY <1>1 DEF St!Reset, St!Number
  <2>2. QED
    BY <2>1 DEF Word
<1>4. top' \in 0..(StackSize + 1) /\ out' \in Seq(Node)
  BY <1>1, <1>3, StackSizeAssumption
<1>5. Walk'
  BY <1>1, <1>2, <1>3 DEF Walk
<1>6. Types'
  BY <1>1, <1>2, <1>3, <1>4 DEF Types, Ready
<1>7. QED
  BY <1>5, <1>6

LEMMA WalkDie ==
    ASSUME Ready, Walk, Die
    PROVE  Types' /\ Walk'
<1>1. /\ pc = "descend" /\ top > StackSize /\ pc' = "dead"
      /\ UNCHANGED <<tree, visited, kind, cur, out, stack>>
  BY DEF Die
<1>2. PICK path, todo : At(path, todo, cur, Order(kind)[cur], array, top, Pends, out,
                           Order(kind)[root], Nodes[root])
  BY <1>1 DEF Walk, Descent
<1>3. Chain(path, array, Nodes[root], top) /\ top \in Nat /\ top <= StackSize + 1
  BY <1>2 DEF At
<1>4. Nodes[root] = Under(root) /\ root' = root /\ Under(root)' = Under(root)
  BY <1>1, OrderKept, TreeFacts DEF Ready, Types
<1>5. IsFiniteSet(Under(root)) /\ Cardinality(Under(root)) \in Nat
  BY TreeSize DEF Ready
<1>6. top <= Cardinality(Under(root))
  BY <1>3, <1>4, <1>5, ChainLength
<1>7. StackSize < Cardinality(Under(root))
  BY <1>1, <1>3, <1>5, <1>6, StackSizeAssumption
<1>8. Walk'
  BY <1>1, <1>4, <1>7 DEF Walk
<1>9. Types'
  BY <1>1, <1>4 DEF Types, Ready, stack
<1>10. QED
  BY <1>8, <1>9

LEMMA WalkFinish ==
    ASSUME Ready, Finish
    PROVE  Types' /\ Walk'
<1>1. pc' = "idle" /\ cur' = Nil /\ UNCHANGED <<tree, visited, kind, out, stack>>
  BY DEF Finish
<1>2. root' = root /\ Nil \in Link
  BY <1>1 DEF tree, Link
<1>3. QED
  BY <1>1, <1>2 DEF Types, Ready, Walk, stack

\* The tree changes only while no traversal is under way.
LEMMA WalkChange ==
    ASSUME Ready, pc = "idle", UNCHANGED <<visited, kind, pc, cur, out, stack>>, root' \in Link
    PROVE  Types' /\ Walk'
  BY DEF Types, Ready, Walk, stack

\* A step that changes nothing.
LEMMA WalkStutter ==
    ASSUME Ready, Walk, UNCHANGED treevars
    PROVE  Types' /\ Walk'
<1>1. UNCHANGED tree /\ UNCHANGED <<visited, kind, pc, cur, out>> /\ UNCHANGED stack
  BY DEF treevars
<1>2. /\ root' = root /\ right' = right /\ kind' = kind /\ visited' = visited /\ cur' = cur
      /\ pc' = pc /\ out' = out /\ array' = array /\ top' = top
      /\ Order(kind)' = Order(kind) /\ Nodes' = Nodes /\ Under(root)' = Under(root)
  BY <1>1, OrderKept DEF stack
<1>3. Pends' = Pends
  BY <1>2 DEF Pends, Pending
<1>4. Types'
  BY <1>2 DEF Types, Ready
<1>5. Descent' = Descent
  BY <1>2, <1>3 DEF Descent
<1>6. Ascent' = Ascent
  BY <1>2, <1>3 DEF Ascent
<1>7. QED
  BY <1>2, <1>4, <1>5, <1>6 DEF Walk

\* The inductive invariant.
TreeInvariant == Types /\ Trees /\ Walk

\* It holds at the start.
LEMMA TreeInvariantInit == TreeInit => TreeInvariant
<1> SUFFICES ASSUME TreeInit PROVE TreeInvariant
  OBVIOUS
<1>1. Trees
  BY TreesInit
<1>2. array = [i \in 1..(StackSize + 1) |-> [base |-> Zero, inc |-> 0]] /\ top = 0
  BY DEF TreeInit, St!Init, St!Number
<1>3. array \in [1..(StackSize + 1) -> Word] /\ top \in 0..(StackSize + 1)
  BY <1>2, StackSizeAssumption DEF Word
<1>4. Types
  BY <1>3 DEF TreeInit, Types, Link
<1>5. Walk
  BY DEF TreeInit, Walk
<1>6. QED
  BY <1>1, <1>4, <1>5 DEF TreeInvariant

\* Every step preserves it.
LEMMA TreeInvariantStep == TreeInvariant /\ [TreeNext]_treevars => TreeInvariant'
<1> SUFFICES ASSUME TreeInvariant, [TreeNext]_treevars PROVE TreeInvariant'
  OBVIOUS
<1>1. Ready /\ Trees /\ Walk
  BY DEF TreeInvariant, Ready
<1>2. ASSUME NEW d \in Data, Insert(d) PROVE TreeInvariant'
  <2>1. Trees'
    BY <1>1, <1>2, TreesInsert
  <2>2. pc = "idle" /\ UNCHANGED <<visited, kind, pc, cur, out, stack>>
    BY <1>2 DEF Insert
  <2>3. QED
    BY <1>1, <2>1, <2>2, WalkChange DEF TreeInvariant, Trees
<1>3. CASE RemoveHalfNodes
  <2>1. Trees'
    BY <1>1, <1>3, TreesRemove
  <2>2. pc = "idle" /\ UNCHANGED <<visited, kind, pc, cur, out, stack>>
    BY <1>3 DEF RemoveHalfNodes
  <2>3. QED
    BY <1>1, <2>1, <2>2, WalkChange DEF TreeInvariant, Trees
<1>4. ASSUME NEW k \in {"pre", "in", "post"}, StartTraversal(k) PROVE TreeInvariant'
  <2>1. UNCHANGED tree
    BY <1>4 DEF StartTraversal
  <2>2. QED
    BY <1>1, <1>4, <2>1, WalkStart, TreesKept DEF TreeInvariant
<1>5. CASE Traverse
  <2>1. UNCHANGED tree
    BY <1>5 DEF Traverse, PushRoot, Die, DescendLeft, DescendRight, Leaf, TurnRight, Climb, Finish
  <2>2. Types' /\ Walk'
    BY <1>1, <1>5, WalkPushRoot, WalkDie, WalkDescendLeft, WalkDescendRight, WalkLeaf,
       WalkTurnRight, WalkClimb, WalkFinish DEF Traverse
  <2>3. QED
    BY <1>1, <2>1, <2>2, TreesKept DEF TreeInvariant
<1>6. CASE UNCHANGED treevars
  BY <1>1, <1>6, WalkStutter, TreesKept DEF TreeInvariant, treevars
<1>7. QED
  BY <1>2, <1>3, <1>4, <1>5, <1>6 DEF TreeNext

\* So it always holds.
LEMMA TreeInvariantHolds == TreeSpec => []TreeInvariant
  BY TreeInvariantInit, TreeInvariantStep, PTL DEF TreeSpec

\* Every variable stays in its set, and no node has two parents.
THEOREM TreeTypeCorrect == TreeSpec => []TreeTypeOK
<1>1. TreeInvariant => TreeTypeOK
  <2> SUFFICES ASSUME TreeInvariant PROVE TreeTypeOK
    OBVIOUS
  <2>1. IsInjective(Inorder[root])
    BY TreeFacts DEF TreeInvariant
  <2>2. left \in [Node -> Link] /\ right \in [Node -> Link]
    BY DEF TreeInvariant, Trees, Descends
  <2>3. QED
    BY <2>1, <2>2 DEF TreeInvariant, Types, Trees, TreeTypeOK
<1>2. QED
  BY <1>1, TreeInvariantHolds, PTL

\* Insertion and removal of half nodes keep the order of the values, so that
\* getNodePtrBST and LowestCommonAncestor find what they look for.
THEOREM SearchTreeHolds == TreeSpec => []SearchTree
<1>1. TreeInvariant => SearchTree
  BY TreesSearch DEF TreeInvariant
<1>2. QED
  BY <1>1, TreeInvariantHolds, PTL

\* A tree of at most MAX_STACK_SIZE nodes overflows neither the stack nor the
\* output of a traversal.
THEOREM SafeWithinLimitHolds == TreeSpec => []SafeWithinLimit
<1>1. TreeInvariant => SafeWithinLimit
  <2> SUFFICES ASSUME TreeInvariant, Cardinality(Under(root)) <= StackSize, pc = "dead" PROVE FALSE
    BY DEF SafeWithinLimit
  <2>1. StackSize < Cardinality(Under(root))
    BY DEF TreeInvariant, Walk
  <2>2. Cardinality(Under(root)) \in Nat
    BY TreeSize DEF TreeInvariant
  <2>3. QED
    BY <2>1, <2>2, StackSizeAssumption
<1>2. QED
  BY <1>1, TreeInvariantHolds, PTL

\* PreorderNR, InorderNR and PostorderNR visit the nodes in the order of their
\* recursive counterparts, whatever isVisited was before.
THEOREM AgreesWithRecursionHolds == TreeSpec => AgreesWithRecursion
<1>1. TreeInvariant /\ [TreeNext]_treevars => [pc = "iterate" /\ pc' = "idle" => out = Printed(kind)]_treevars
  <2> SUFFICES ASSUME TreeInvariant, TreeNext, pc = "iterate", pc' = "idle"
               PROVE  out = Printed(kind)
    OBVIOUS
  <2>1. Finish
    BY DEF TreeNext, Traverse, Insert, RemoveHalfNodes, StartTraversal, PushRoot, Die,
           DescendLeft, DescendRight, Leaf, TurnRight, Climb, Emit, Descending, Iterating
  <2>2. top = 0
    BY <2>1 DEF Finish
  <2>3. PICK path, todo : Back(path, todo, array, top, Pends, out, Order(kind)[root], Nodes[root])
    BY DEF TreeInvariant, Walk, Ascent
  <2>4. out \in Seq(Node) /\ todo[0] = <<>> /\ out \o todo[0] = Order(kind)[root]
    BY <2>2, <2>3 DEF Back, Owed
  <2>5. out = Order(kind)[root]
    BY <2>4, Neutral
  <2>6. kind \in {"pre", "in", "post"}
    BY DEF TreeInvariant, Types
  <2>7. QED
    BY <2>5, <2>6 DEF Order, Printed
<1>2. QED
  BY <1>1, TreeInvariantHolds, PTL DEF TreeSpec, AgreesWithRecursion

\* Exactly the nodes with no or two children are left.
Thinned(u, u2, l, r, f, t) ==
    \A n \in Link : u[n] \subseteq u[t] =>
       u2[f[n]] = {m \in u[n] : (l[m] = Nil) = (r[m] = Nil)}

LEMMA HalvedWhole ==
    ASSUME NEW l, NEW r, Descends(l, r), NEW u, Unders(u, l, r), NEW f, IsReplacement(f, l, r),
           NEW t \in Link, NEW l2, NEW r2, Halved(l, r, l2, r2, f, u[t]), NEW u2, Unders(u2, l2, r2)
    PROVE  Thinned(u, u2, l, r, f, t)
<1> DEFINE T(n) == {m \in u[n] : (l[m] = Nil) = (r[m] = Nil)}
           S == {n \in Link : u[n] \subseteq u[t] => u2[f[n]] = T(n)}
<1>1. Nil \in S
  BY DEF Link, IsReplacement, Unders
<1>2. ASSUME NEW n \in Node, l[n] \in S, r[n] \in S PROVE n \in S
  <2> SUFFICES ASSUME u[n] \subseteq u[t] PROVE u2[f[n]] = T(n)
    BY DEF Link
  <2>1. f[n] = Kept(n, f[l[n]], f[r[n]]) /\ f[Nil] = Nil
    BY DEF IsReplacement
  <2>2. n \in u[n] /\ u[n] = u[l[n]] \cup {n} \cup u[r[n]] /\ l[n] \in Link /\ r[n] \in Link
    BY UnderChild
  <2>3. u2[f[l[n]]] = T(l[n]) /\ u2[f[r[n]]] = T(r[n])
    BY <1>2, <2>2
  <2>4. (f[l[n]] = Nil <=> l[n] = Nil) /\ (f[r[n]] = Nil <=> r[n] = Nil)
    BY <2>1, <2>2, ReplacementWithin DEF Link, Nil, Node
  <2>5. u2[Nil] = {} /\ u[Nil] = {}
    BY DEF Unders
  <2>6. T(n) = T(l[n]) \cup T(r[n]) \cup IF (l[n] = Nil) = (r[n] = Nil) THEN {n} ELSE {}
    BY <2>2
  <2>7. CASE (l[n] = Nil) = (r[n] = Nil)
    <3>1. f[n] = n
      BY <2>1, <2>4, <2>7 DEF Kept
    <3>2. l2[n] = f[l[n]] /\ r2[n] = f[r[n]]
      BY <2>2 DEF Halved
    <3>3. u2[n] = u2[l2[n]] \cup {n} \cup u2[r2[n]]
      BY DEF Unders
    <3> HIDE DEF T
    <3> QED BY <2>3, <2>6, <2>7, <3>1, <3>2, <3>3
  <2>8. CASE l[n] = Nil /\ r[n] # Nil
    <3>1. f[n] = f[r[n]] /\ T(l[n]) = {}
      BY <2>1, <2>4, <2>5, <2>8 DEF Kept
    <3> HIDE DEF T
    <3> QED BY <2>3, <2>6, <2>8, <3>1
  <2>9. CASE l[n] # Nil /\ r[n] = Nil
    <3>1. f[n] = f[l[n]] /\ T(r[n]) = {}
      BY <2>1, <2>4, <2>5, <2>9 DEF Kept
    <3> HIDE DEF T
    <3> QED BY <2>3, <2>6, <2>9, <3>1
  <2> QED BY <2>7, <2>8, <2>9
<1> HIDE DEF S
<1>3. Link \subseteq S
  BY <1>1, <1>2, TreeInduction
<1> QED BY <1>3 DEF S, Thinned

\* The order of two elements in a concatenation.
LEMMA BeforeConcat ==
    ASSUME NEW a \in Seq(Node), NEW b \in Seq(Node), NEW m, NEW n
    PROVE  Before(a \o b, m, n) <=> \/ Before(a, m, n) \/ Before(b, m, n)
                                    \/ m \in Range(a) /\ n \in Range(b)
<1>1. /\ DOMAIN a = 1..Len(a) /\ DOMAIN b = 1..Len(b)
      /\ Len(a) \in Nat /\ Len(b) \in Nat
  OBVIOUS
<1> DEFINE c == a \o b
<1>2. /\ DOMAIN c = 1..(Len(a) + Len(b))
      /\ \A i \in 1..Len(a) : c[i] = a[i]
      /\ \A i \in 1..Len(b) : c[Len(a) + i] = b[i]
  OBVIOUS
<1> HIDE DEF c
<1>3. ASSUME Before(c, m, n)
      PROVE  Before(a, m, n) \/ Before(b, m, n) \/ (m \in Range(a) /\ n \in Range(b))
  <2>1. PICK i \in DOMAIN c, j \in DOMAIN c : i < j /\ c[i] = m /\ c[j] = n
    BY <1>3 DEF Before
  <2>2. CASE i <= Len(a) /\ j <= Len(a)
    <3>1. i \in 1..Len(a) /\ j \in 1..Len(a)
      BY <1>1, <1>2, <2>1, <2>2
    <3>2. a[i] = m /\ a[j] = n
      BY <1>2, <2>1, <3>1
    <3> QED BY <1>1, <2>1, <3>1, <3>2 DEF Before
  <2>3. CASE i <= Len(a) /\ j > Len(a)
    <3>1. i \in 1..Len(a) /\ j - Len(a) \in 1..Len(b) /\ Len(a) + (j - Len(a)) = j
      BY <1>1, <1>2, <2>1, <2>3
    <3>2. a[i] = m /\ b[j - Len(a)] = n
      BY <1>2, <2>1, <3>1
    <3> QED BY <1>1, <3>1, <3>2 DEF Range
  <2>4. CASE i > Len(a)
    <3>1. /\ i - Len(a) \in 1..Len(b) /\ Len(a) + (i - Len(a)) = i
          /\ j - Len(a) \in 1..Len(b) /\ Len(a) + (j - Len(a)) = j
          /\ i - Len(a) < j - Len(a)
      BY <1>1, <1>2, <2>1, <2>4
    <3>2. b[i - Len(a)] = m /\ b[j - Len(a)] = n
      BY <1>2, <2>1, <3>1
    <3> QED BY <1>1, <3>1, <3>2 DEF Before
  <2> QED BY <1>1, <1>2, <2>1, <2>2, <2>3, <2>4
<1>4. ASSUME Before(a, m, n) PROVE Before(c, m, n)
  <2>1. PICK i \in DOMAIN a, j \in DOMAIN a : i < j /\ a[i] = m /\ a[j] = n
    BY <1>4 DEF Before
  <2>2. i \in DOMAIN c /\ j \in DOMAIN c /\ c[i] = m /\ c[j] = n
    BY <1>1, <1>2, <2>1
  <2> QED BY <2>1, <2>2 DEF Before
<1>5. ASSUME Before(b, m, n) PROVE Before(c, m, n)
  <2>1. PICK i \in DOMAIN b, j \in DOMAIN b : i < j /\ b[i] = m /\ b[j] = n
    BY <1>5 DEF Before
  <2>2. /\ Len(a) + i \in DOMAIN c /\ Len(a) + j \in DOMAIN c /\ Len(a) + i < Len(a) + j
        /\ c[Len(a) + i] = m /\ c[Len(a) + j] = n
    BY <1>1, <1>2, <2>1
  <2> QED BY <2>2 DEF Before
<1>6. ASSUME m \in Range(a), n \in Range(b) PROVE Before(c, m, n)
  <2>1. PICK i \in DOMAIN a, j \in DOMAIN b : a[i] = m /\ b[j] = n
    BY <1>6 DEF Range
  <2>2. /\ i \in DOMAIN c /\ Len(a) + j \in DOMAIN c /\ i < Len(a) + j
        /\ c[i] = m /\ c[Len(a) + j] = n
    BY <1>1, <1>2, <2>1
  <2> QED BY <2>2 DEF Before
<1> QED BY <1>3, <1>4, <1>5, <1>6 DEF c

\* The order of two elements around a node.
LEMMA BeforeAround ==
    ASSUME NEW a \in Seq(Node), NEW b \in Seq(Node), NEW k \in Node, NEW m, NEW n
    PROVE  Before(a \o <<k>> \o b, m, n) <=>
              \/ Before(a, m, n) \/ Before(b, m, n)
              \/ m \in Range(a) /\ n = k
              \/ m \in Range(a) /\ n \in Range(b)
              \/ m = k /\ n \in Range(b)
<1> DEFINE s == <<k>>
           c == a \o s
<1>1. s \in Seq(Node) /\ Len(s) = 1 /\ DOMAIN s = 1..1 /\ s[1] = k
  OBVIOUS
<1>2. ~Before(s, m, n)
  <2> HIDE DEF s
  <2> QED BY <1>1 DEF Before
<1>3. \A x : x \in Range(s) <=> x = k
  <2> HIDE DEF s
  <2> QED BY <1>1 DEF Range
<1> HIDE DEF s
<1>4. c \in Seq(Node) /\ Range(c) = Range(a) \cup Range(s)
  BY <1>1, ConcatNodes
<1>5. Before(c, m, n) <=> Before(a, m, n) \/ Before(s, m, n) \/ (m \in Range(a) /\ n \in Range(s))
  BY <1>1, BeforeConcat
<1> HIDE DEF c
<1>6. Before(c \o b, m, n) <=> Before(c, m, n) \/ Before(b, m, n) \/ (m \in Range(c) /\ n \in Range(b))
  BY <1>4, BeforeConcat
<1>7. Before(c \o b, m, n) <=>
              \/ Before(a, m, n) \/ Before(b, m, n)
              \/ m \in Range(a) /\ n = k
              \/ m \in Range(a) /\ n \in Range(b)
              \/ m = k /\ n \in Range(b)
  BY <1>2, <1>3, <1>4, <1>5, <1>6
<1> QED BY <1>7 DEF c, s

\* What is left keeps its order.
LEMMA HalvedOrder ==
    ASSUME NEW l, NEW r, Descends(l, r), NEW u, Unders(u, l, r), NEW f, IsReplacement(f, l, r),
           NEW t \in Link, NEW l2, NEW r2, Halved(l, r, l2, r2, f, u[t]), Descends(l2, r2),
           NEW u2, Unders(u2, l2, r2),
           NEW g, IsInorder(g, l, r), u = [n \in Link |-> Range(g[n])],
           NEW g2, IsInorder(g2, l2, r2), u2 = [n \in Link |-> Range(g2[n])]
    PROVE  \A n \in Link : u[n] \subseteq u[t] =>
              \A x, y : Before(g2[f[n]], x, y) => Before(g[n], x, y)
<1> DEFINE S == {n \in Link : u[n] \subseteq u[t] =>
                                \A x, y : Before(g2[f[n]], x, y) => Before(g[n], x, y)}
<1>1. Nil \in S
  BY DEF Link, IsReplacement, IsInorder
<1>2. ASSUME NEW n \in Node, l[n] \in S, r[n] \in S PROVE n \in S
  <2> SUFFICES ASSUME u[n] \subseteq u[t], NEW x, NEW y, Before(g2[f[n]], x, y)
               PROVE  Before(g[n], x, y)
    BY DEF Link
  <2>1. f[n] = Kept(n, f[l[n]], f[r[n]]) /\ \A m \in Link : f[m] \in Link
    BY DEF IsReplacement
  <2>2. n \in u[n] /\ u[n] = u[l[n]] \cup {n} \cup u[r[n]] /\ l[n] \in Link /\ r[n] \in Link
    BY UnderChild
  <2>3. /\ Before(g2[f[l[n]]], x, y) => Before(g[l[n]], x, y)
        /\ Before(g2[f[r[n]]], x, y) => Before(g[r[n]], x, y)
    BY <1>2, <2>2
  <2>4. u2[f[l[n]]] \subseteq u[l[n]] /\ u2[f[r[n]]] \subseteq u[r[n]]
    <3>1. u[l[n]] \subseteq u[t] /\ u[r[n]] \subseteq u[t]
      BY <2>2
    <3> DEFINE p == l[n]
               q == r[n]
    <3>2. p \in Link /\ q \in Link /\ u[p] \subseteq u[t] /\ u[q] \subseteq u[t]
      BY <2>2, <3>1
    <3> HIDE DEF p, q
    <3>3. u2[f[p]] \subseteq u[p] /\ u2[f[q]] \subseteq u[q]
      BY <3>2, HalvedUnder
    <3> QED BY <3>3 DEF p, q
  <2> DEFINE a == g[l[n]]
             b == g[r[n]]
             a2 == g2[f[l[n]]]
             b2 == g2[f[r[n]]]
  <2>5. /\ a \in Seq(Node) /\ b \in Seq(Node) /\ a2 \in Seq(Node) /\ b2 \in Seq(Node)
        /\ g[n] = a \o <<n>> \o b
    BY <2>1, <2>2 DEF IsInorder
  <2>6. /\ u[l[n]] = Range(a) /\ u[r[n]] = Range(b)
        /\ u2[f[l[n]]] = Range(a2) /\ u2[f[r[n]]] = Range(b2)
    BY <2>1, <2>2
  <2>7. CASE f[n] = f[l[n]] \/ f[n] = f[r[n]]
    <3>1. Before(a, x, y) \/ Before(b, x, y)
      BY <2>3, <2>7
    <3> HIDE DEF a, b
    <3> QED BY <2>5, <3>1, BeforeAround
  <2>8. CASE (f[l[n]] = Nil) = (f[r[n]] = Nil)
    <3>1. f[n] = n
      BY <2>1, <2>8 DEF Kept
    <3>2. l2[n] = f[l[n]] /\ r2[n] = f[r[n]]
      BY <2>2 DEF Halved
    <3>3. g2[n] = a2 \o <<n>> \o b2
      BY <3>2 DEF IsInorder
    <3>4. Range(a2) \subseteq Range(a) /\ Range(b2) \subseteq Range(b)
      BY <2>4, <2>6
    <3>5. (Before(a2, x, y) => Before(a, x, y)) /\ (Before(b2, x, y) => Before(b, x, y))
      BY <2>3
    <3>6. Before(a2 \o <<n>> \o b2, x, y)
      BY <3>1, <3>3
    <3> HIDE DEF a, b, a2, b2
    <3>7. \/ Before(a2, x, y) \/ Before(b2, x, y)
          \/ x \in Range(a2) /\ y = n
          \/ x \in Range(a2) /\ y \in Range(b2)
          \/ x = n /\ y \in Range(b2)
      BY <2>5, <3>6, BeforeAround
    <3>8. \/ Before(a, x, y) \/ Before(b, x, y)
          \/ x \in Range(a) /\ y = n
          \/ x \in Range(a) /\ y \in Range(b)
          \/ x = n /\ y \in Range(b)
      BY <3>4, <3>5, <3>7
    <3> QED BY <2>5, <3>8, BeforeAround
  <2> QED BY <2>1, <2>7, <2>8 DEF Kept
<1> HIDE DEF S
<1>3. Link \subseteq S
  BY <1>1, <1>2, TreeInduction
<1> QED BY <1>3 DEF S

\* removeHalfNodes on the tree of the application.
LEMMA TreesHalved ==
    ASSUME Trees, RemoveHalfNodes
    PROVE  /\ Under(root)' = {n \in Under(root) : Whole(n)}
           /\ \A m, n \in Under(root)' : Before(Inorder[root], m, n)' => Before(Inorder[root], m, n)
           /\ \A n \in Under(root)' : Whole(n)'
<1>1. /\ root' = Replacement[root]
      /\ left' = [n \in Node |-> IF n \in Under(root) THEN Replacement[left[n]] ELSE left[n]]
      /\ right' = [n \in Node |-> IF n \in Under(root) THEN Replacement[right[n]] ELSE right[n]]
  BY DEF RemoveHalfNodes
<1>2. /\ Descends(left, right) /\ Unders(Nodes, left, right)
      /\ root \in Link /\ IsInorder(Inorder, left, right)
      /\ Nodes = [n \in Link |-> Range(Inorder[n])] /\ Under(root) = Nodes[root]
  BY TreeFacts
<1>3. IsReplacement(Replacement, left, right)
  BY <1>2, OfTree, ReplacementEquations
<1>4. Halved(left, right, left', right', Replacement, Nodes[root])
  BY <1>1, <1>2 DEF Halved
<1>5. Descends(left', right')
  BY <1>2, <1>3, <1>4, HalvedDescends
<1>6. Unders(Nodes', left', right')
  BY <1>5, NodesUndersPrimed DEF Descends
<1>7. IsInorder(Inorder', left', right')
  BY <1>5, OfTreePrimed, InorderEquations
<1>8. Nodes' = [n \in Link |-> Range(Inorder'[n])]
  BY DEF Nodes, Under
<1>9. root' \in Link /\ Under(root)' = Nodes'[root']
  BY <1>1, <1>2, <1>3 DEF IsReplacement, Nodes
<1>10. Nodes'[Replacement[root]] = {m \in Nodes[root] : (left[m] = Nil) = (right[m] = Nil)}
  <2>1. Thinned(Nodes, Nodes', left, right, Replacement, root)
    BY <1>2, <1>3, <1>4, <1>6, HalvedWhole
  <2>2. root \in Link /\ Nodes[root] \subseteq Nodes[root]
    BY <1>2
  <2> QED BY <2>1, <2>2 DEF Thinned
<1>11. Under(root)' = {n \in Under(root) : Whole(n)}
  BY <1>1, <1>2, <1>9, <1>10 DEF Whole
<1>12. \A x, y : Before(Inorder'[Replacement[root]], x, y) => Before(Inorder[root], x, y)
  BY <1>2, <1>3, <1>4, <1>5, <1>6, <1>7, <1>8, HalvedOrder
<1>13. \A m, n : Before(Inorder[root], m, n)' => Before(Inorder[root], m, n)
  BY <1>1, <1>12 DEF Before
<1>14. \A n \in Under(root)' : Whole(n)'
  BY <1>9, TreesRemove DEF Whole
<1> QED BY <1>11, <1>13, <1>14

\* removeHalfNodes keeps the leaves and the nodes with two children in their
\* order, and leaves no node with one child.
THEOREM RemovesHalfNodesHolds == TreeSpec => RemovesHalfNodes
<1> DEFINE Right == /\ Under(root)' = {n \in Under(root) : Whole(n)}
                    /\ \A m, n \in Under(root)' :
                          Before(Inorder[root], m, n)' => Before(Inorder[root], m, n)
                    /\ \A n \in Under(root)' : Whole(n)'
<1>1. TreeInvariant /\ [TreeNext]_treevars => [used' = used /\ tree' # tree => Right]_treevars
  <2> SUFFICES ASSUME TreeInvariant, TreeNext, used' = used, tree' # tree PROVE Right
    OBVIOUS
  <2>1. \A d \in Data : ~Insert(d)
    <3>1. used \in Nat
      BY DEF TreeInvariant, Trees
    <3> QED BY <3>1 DEF Insert
  <2>2. ~Traverse /\ \A k \in {"pre", "in", "post"} : ~StartTraversal(k)
    BY DEF Traverse, StartTraversal, PushRoot, Die, DescendLeft, DescendRight, Leaf, TurnRight,
           Climb, Finish
  <2>3. RemoveHalfNodes
    BY <2>1, <2>2 DEF TreeNext
  <2> QED BY <2>3, TreesHalved DEF TreeInvariant
<1>2. QED
  BY <1>1, TreeInvariantHolds, PTL DEF TreeSpec, RemovesHalfNodes
=============================================================================
