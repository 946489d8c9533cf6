-------------------------- MODULE BulkSync_proofs --------------------------
(***************************************************************************)
(* Proofs about BulkSync, for every heap: any set of addresses, any field  *)
(* types, any number of fields.                                            *)
(***************************************************************************)
EXTENDS BulkSync, SequenceTheorems, TLAPS

(***************************************************************************)
(* Reachability.                                                           *)
(***************************************************************************)

\* Roots are reachable.
LEMMA RootsReachable ==
  ASSUME NEW succ, NEW R, NEW o \in R, o \in DOMAIN succ
  PROVE  o \in ReachableFrom(R, succ)
BY DEF ReachableFrom

\* What a reachable object points to is reachable.
LEMMA ReachableStep ==
  ASSUME NEW succ, NEW R, NEW o \in ReachableFrom(R, succ),
         NEW t \in succ[o], t \in DOMAIN succ
  PROVE  t \in ReachableFrom(R, succ)
BY DEF ReachableFrom, Closed

\* Reachability is the least closed set.
LEMMA ReachableLeast ==
  ASSUME NEW succ, NEW R, NEW C \in SUBSET DOMAIN succ,
         R \subseteq C, Closed(C, succ)
  PROVE  ReachableFrom(R, succ) \subseteq C
BY DEF ReachableFrom

(***************************************************************************)
(* Type correctness.                                                       *)
(***************************************************************************)

\* Taking one position out of a sequence leaves a sequence of the others.
LEMMA RemoveProperties ==
  ASSUME NEW S, NEW s \in Seq(S), NEW n \in 1..Len(s)
  PROVE  LET r == SubSeq(s, 1, n - 1) \o SubSeq(s, n + 1, Len(s))
         IN  /\ r \in Seq(S)
             /\ RangeOf(s) \ {s[n]} \subseteq RangeOf(r)
<1> DEFINE a == SubSeq(s, 1, n - 1)
           b == SubSeq(s, n + 1, Len(s))
           r == a \o b
<1>1. Len(s) \in Nat /\ n \in Nat /\ n >= 1 /\ n <= Len(s)
  BY LenProperties
<1>2. /\ a \in Seq(S)
      /\ Len(a) = n - 1
      /\ \A i \in 1..(n - 1) : a[i] = s[i]
  <2>1. \A i \in 1..(n - 1) : s[i] \in S
    BY <1>1, ElementOfSeq
  <2> QED BY <1>1, <2>1, SubSeqProperties
<1>3. /\ b \in Seq(S)
      /\ Len(b) = Len(s) - n
      /\ \A i \in 1..(Len(s) - n) : b[i] = s[n + i]
  <2>1. \A i \in (n + 1)..Len(s) : s[i] \in S
    BY <1>1, ElementOfSeq
  <2>2. /\ b \in Seq(S)
        /\ Len(b) = IF n + 1 <= Len(s) THEN Len(s) - (n + 1) + 1 ELSE 0
        /\ \A i \in 1..(Len(s) - (n + 1) + 1) : b[i] = s[n + 1 + i - 1]
    BY <1>1, <2>1, SubSeqProperties
  <2> QED BY <1>1, <2>2
<1>4. /\ r \in Seq(S)
      /\ Len(r) = Len(a) + Len(b)
      /\ \A i \in 1..(Len(a) + Len(b)) :
            r[i] = IF i <= Len(a) THEN a[i] ELSE b[i - Len(a)]
  BY <1>2, <1>3, ConcatProperties
<1>5. ASSUME NEW i \in 1..Len(s), i # n
      PROVE  s[i] \in RangeOf(r)
  <2> HIDE DEF a, b, r
  <2>1. CASE i < n
    <3>1. i \in 1..Len(r) /\ r[i] = s[i]
      BY <1>1, <1>2, <1>3, <1>4, <2>1
    <3> QED BY <3>1 DEF RangeOf
  <2>2. CASE i > n
    <3>1. i - n \in 1..(Len(s) - n) /\ n + (i - n) = i
      BY <1>1, <2>2
    <3>2. b[i - n] = s[i]
      BY <1>3, <3>1
    <3>3. /\ i - 1 \in 1..(Len(a) + Len(b))
          /\ ~(i - 1 <= Len(a))
          /\ (i - 1) - Len(a) = i - n
      BY <1>1, <1>2, <1>3, <2>2
    <3>4. r[i - 1] = s[i] /\ i - 1 \in 1..Len(r)
      BY <1>4, <3>2, <3>3
    <3> QED BY <3>4 DEF RangeOf
  <2> QED BY <1>1, <1>5, <2>1, <2>2
<1> HIDE DEF r
<1>6. RangeOf(s) \ {s[n]} \subseteq RangeOf(r)
  BY <1>5 DEF RangeOf
<1> QED BY <1>4, <1>6 DEF r

\* Popping the last element of a sequence.
LEMMA PopProperties ==
  ASSUME NEW S, NEW s \in Seq(S), s # <<>>
  PROVE  LET p == SubSeq(s, 1, Len(s) - 1)
         IN  /\ p \in Seq(S)
             /\ Len(s) \in Nat \ {0}
             /\ Len(p) = Len(s) - 1
             /\ \A i \in 1..(Len(s) - 1) : p[i] = s[i]
<1>1. Len(s) \in Nat \ {0}
  BY EmptySeq
<1> DEFINE m == Len(s) - 1
           p == SubSeq(s, 1, m)
<1>2. m \in Nat
  BY <1>1
<1>3. \A i \in 1..m : s[i] \in S
  BY <1>1, ElementOfSeq
<1> HIDE DEF m
<1>4. /\ p \in Seq(S)
      /\ Len(p) = IF 1 <= m THEN m - 1 + 1 ELSE 0
      /\ \A i \in 1..(m - 1 + 1) : p[i] = s[1 + i - 1]
  BY <1>2, <1>3, SubSeqProperties
<1> HIDE DEF p
<1>5. Len(p) = m /\ \A i \in 1..m : p[i] = s[i]
  BY <1>2, <1>4
<1> QED BY <1>1, <1>4, <1>5 DEF m, p

\* The frame on top of a non-empty call stack.
LEMMA TopIsFrame ==
  ASSUME TypeOK, stack # <<>>
  PROVE  /\ Len(stack) \in Nat \ {0}
         /\ Len(stack) \in 1..Len(stack)
         /\ Top \in Frame
         /\ Top.obj \in Obj /\ Top.slot \in 1..(NSlots + 1)
<1>1. Len(stack) \in Nat \ {0}
  BY EmptySeq DEF TypeOK
<1>2. Top \in Frame
  BY <1>1, ElementOfSeq DEF TypeOK, Top
<1> QED BY <1>1, <1>2 DEF Frame

\* Advancing the loop counter of the top frame touches nothing else.
LEMMA AdvancedProperties ==
  ASSUME TypeOK, stack # <<>>, Top.slot <= NSlots
  PROVE  /\ Advanced \in Seq(Frame)
         /\ Len(Advanced) = Len(stack)
         /\ \A k \in 1..Len(stack) :
              /\ Advanced[k].obj = stack[k].obj
              /\ k # Len(stack) => Advanced[k].slot = stack[k].slot
         /\ Advanced[Len(stack)].slot = Top.slot + 1
<1> DEFINE f == [Top EXCEPT !.slot = @ + 1]
<1>1. f \in Frame /\ f.obj = Top.obj /\ f.slot = Top.slot + 1
  BY TopIsFrame, NSlotsAssumption DEF Frame
<1>2. Advanced = [stack EXCEPT ![Len(stack)] = f]
  BY DEF Advanced, Top
<1>3. /\ Advanced \in Seq(Frame)
      /\ Len(Advanced) = Len(stack)
      /\ \A k \in 1..Len(stack) :
            Advanced[k] = IF k = Len(stack) THEN f ELSE stack[k]
  BY <1>1, <1>2, TopIsFrame, ExceptSeq DEF TypeOK
<1> HIDE DEF f
<1> QED BY <1>1, <1>3, TopIsFrame DEF Top

\* Registered objects are at object addresses, never at NULL.
LEMMA LiveIsObj == TypeOK => Live \subseteq Obj
BY ElementOfSeq DEF Live, RangeOf, TypeOK

\* No step leaves the type invariant.
LEMMA TypeStep == TypeOK /\ [Next]_vars => TypeOK'
<1> SUFFICES ASSUME TypeOK, [Next]_vars PROVE TypeOK'
  OBVIOUS
<1> USE StaticAssumption, NSlotsAssumption, DtypeAssumption
<1>1. ASSUME NEW o \in Obj, AddObject(o) PROVE TypeOK'
  <2>1. <<o>> \o db \in Seq(Obj)
    BY ConcatProperties DEF TypeOK
  <2>2. [i \in Slots |-> Null] \in [Slots -> Values]
    BY DEF Values
  <2> QED BY <1>1, <2>1, <2>2 DEF AddObject, TypeOK, scanVars
<1>2. ASSUME NEW o \in Obj, NEW i \in Slots, NEW v \in Values, AppWrite(o, i, v)
      PROVE  TypeOK'
  BY <1>2 DEF AppWrite, TypeOK, scanVars
<1>3. ASSUME NEW n \in 1..Len(db), HaFree(n) PROVE TypeOK'
  <2>1. db' \in Seq(Obj)
    BY <1>3, RemoveProperties DEF HaFree, TypeOK
  <2> QED BY <1>3, <2>1 DEF HaFree, TypeOK, scanVars
<1>4. ASSUME NEW S \in SUBSET (Live \ dirty), MarkChangedObjects(S) PROVE TypeOK'
  <2>1. Live \subseteq Obj
    BY ElementOfSeq DEF Live, RangeOf, TypeOK
  <2> QED BY <1>4, <2>1 DEF MarkChangedObjects, TypeOK, scanVars
<1>5. CASE HaSync
  BY <1>5 DEF HaSync, TypeOK, scanVars
<1>6. CASE BulkStart
  BY <1>6 DEF BulkStart, TypeOK
<1>7. CASE ScanSkip
  BY <1>7 DEF ScanSkip, TypeOK
<1>8. CASE ScanEnter
  <2>1. db[cur] \in Obj
    BY <1>8, ElementOfSeq, LenProperties DEF ScanEnter, Scanning, TypeOK
  <2>2. [obj |-> db[cur], slot |-> 1] \in Frame
    BY <2>1 DEF Frame
  <2>3. stack' \in Seq(Frame)
    BY <1>8, <2>2 DEF ScanEnter
  <2> QED BY <1>8, <2>1, <2>3 DEF ScanEnter, TypeOK
<1>9. CASE SlotPass
  <2>1. stack' \in Seq(Frame)
    BY <1>9, AdvancedProperties DEF SlotPass, InField
  <2> QED BY <1>9, <2>1 DEF SlotPass, TypeOK
<1>10. CASE SlotDescend
  <2>1. Field \in Obj
    BY <1>10, ElementOfSeq DEF SlotDescend, Live, RangeOf, TypeOK
  <2>2. [obj |-> Field, slot |-> 1] \in Frame
    BY <2>1 DEF Frame
  <2>3. Advanced \in Seq(Frame)
    BY <1>10, AdvancedProperties DEF SlotDescend, InField
  <2>4. stack' \in Seq(Frame)
    BY <1>10, <2>2, <2>3, AppendProperties DEF SlotDescend
  <2> QED BY <1>10, <2>1, <2>4 DEF SlotDescend, TypeOK
<1>11. CASE SlotCrash
  BY <1>11 DEF SlotCrash, TypeOK
<1>12. CASE SlotReturn
  <2>1. sent' \in Seq(Obj)
    BY <1>12, TopIsFrame, AppendProperties DEF SlotReturn, TypeOK
  <2>2. stack' \in Seq(Frame)
    BY <1>12, PopProperties DEF SlotReturn, TypeOK
  <2> QED BY <1>12, <2>1, <2>2 DEF SlotReturn, TypeOK
<1>13. CASE Finish
  BY <1>13 DEF Finish, TypeOK
<1>14. CASE UNCHANGED vars
  BY <1>14 DEF vars, TypeOK
<1> QED
  BY <1>1, <1>2, <1>3, <1>4, <1>5, <1>6, <1>7, <1>8, <1>9, <1>10, <1>11, <1>12,
     <1>13, <1>14 DEF Next, AppStep, ScanStep

\* Every variable of a bulk sync stays in its set, for every heap.
THEOREM TypeCorrect == Spec => []TypeOK
<1>1. Init => TypeOK
  BY NSlotsAssumption DEF Init, TypeOK, Values
<1> QED BY <1>1, TypeStep, PTL DEF Spec

(***************************************************************************)
(* The inductive invariant.                                                *)
(***************************************************************************)

\* While db, the pointers and the marks from before the scan do not change,
\* neither does the object graph.
LEMMA FrozenHeap ==
  ASSUME UNCHANGED <<db, ptr, pre>>
  PROVE  /\ Live' = Live
         /\ Roots' = Roots
         /\ Succ' = Succ
         /\ \A o : Targets(o)' = Targets(o)
         /\ ReachableFrom(Roots, Succ)' = ReachableFrom(Roots, Succ)
         /\ \A a, b : Reaches(a, b, Succ)' = Reaches(a, b, Succ)
<1>1. Live' = Live
  BY DEF Live, RangeOf
<1>2. Roots' = Roots
  BY <1>1 DEF Roots, Visible
<1>3. \A o : Targets(o)' = Targets(o)
  BY <1>1 DEF Targets, Visible
<1>4. Succ' = Succ
  BY <1>1, <1>3 DEF Succ
<1>5. ReachableFrom(Roots, Succ)' = ReachableFrom(Roots, Succ)
  BY <1>2, <1>4 DEF ReachableFrom, Closed
<1>6. \A a, b : Reaches(a, b, Succ)' = Reaches(a, b, Succ)
  BY <1>4 DEF Reaches, ReachableFrom, Closed
<1> QED BY <1>1, <1>2, <1>3, <1>4, <1>5, <1>6

\* The graph seen through Succ.
LEMMA SuccProperties ==
  /\ DOMAIN Succ = Obj
  /\ \A o \in Obj \cap Live : Succ[o] = Targets(o)
  /\ \A o \in Obj : Succ[o] \subseteq Targets(o)
  /\ \A o \in Obj : Succ[o] \subseteq Live
BY DEF Succ, Targets, Visible

\* The application's operations keep the invariant: no scan is going on.
LEMMA AppStepInv ==
  ASSUME IInv, TypeOK', AppStep PROVE IInv'
<1>1. phase = "app" /\ UNCHANGED scanVars
  BY DEF AppStep, AddObject, AppWrite, HaFree, MarkChangedObjects, HaSync
<1>2. dirty' \subseteq Live'
  <2>1. ASSUME NEW o \in Obj, AddObject(o)
        PROVE  dirty' \subseteq Live'
    <3>1. db' \in Seq(Obj) /\ Len(db') = 1 + Len(db) /\ Len(db) \in Nat
      BY <2>1, ConcatProperties DEF AddObject, IInv, TypeOK
    <3>2. \A i \in 1..Len(db) : db'[i + 1] = db[i] /\ i + 1 \in 1..Len(db')
      BY <2>1, <3>1, ConcatProperties DEF AddObject, IInv, TypeOK
    <3>3. Live \subseteq Live'
      BY <3>2 DEF Live, RangeOf
    <3> QED BY <2>1, <3>3 DEF AddObject, IInv
  <2>2. ASSUME NEW n \in 1..Len(db), HaFree(n)
        PROVE  dirty' \subseteq Live'
    <3>0. RangeOf(db) \ {db[n]} \subseteq RangeOf(db')
      BY <2>2, RemoveProperties DEF HaFree, IInv, TypeOK
    <3>1. Live \ {db[n]} \subseteq Live'
      BY <3>0 DEF Live
    <3> QED BY <2>2, <3>1 DEF HaFree, IInv
  <2>3. ASSUME NEW o \in Obj, NEW i \in Slots, NEW v \in Values, AppWrite(o, i, v)
        PROVE  dirty' \subseteq Live'
    BY <2>3 DEF AppWrite, IInv, Live, RangeOf
  <2>4. ASSUME NEW S \in SUBSET (Live \ dirty), MarkChangedObjects(S)
        PROVE  dirty' \subseteq Live'
    BY <2>4 DEF MarkChangedObjects, IInv, Live, RangeOf
  <2>5. CASE HaSync
    BY <2>5 DEF HaSync
  <2> QED BY <2>1, <2>2, <2>3, <2>4, <2>5 DEF AppStep
<1>3. SentOnce'
  BY <1>1 DEF scanVars, IInv, SentOnce
<1>4. phase' = "app" /\ stack' = <<>>
  BY <1>1 DEF scanVars, IInv
<1> QED BY <1>2, <1>3, <1>4 DEF IInv, BottomUp, CrashHasCause

\* tha_bulk_sync starts with nothing visited.
LEMMA BulkStartInv ==
  ASSUME IInv, TypeOK', BulkStart PROVE IInv'
<1>1. Sent' = {} /\ OnStack' = {}
  BY DEF BulkStart, Sent, OnStack, RangeOf
<1>2. ScanInv'
  <2>1. Marking' /\ Justified' /\ StackOnce' /\ Chain'
    BY <1>1 DEF BulkStart, Marking, Justified, StackOnce, Chain
  <2>2. RootsSeen'
    BY DEF BulkStart, RootsSeen
  <2>3. TargetsSeen'
    BY <1>1 DEF BulkStart, TargetsSeen
  <2> QED BY <2>1, <2>2, <2>3 DEF ScanInv
<1>3. SentOnce' /\ BottomUp'
  BY DEF BulkStart, SentOnce, BottomUp
<1>4. dirty' \subseteq Live'
  BY DEF BulkStart, IInv, Live, RangeOf
<1> QED BY <1>2, <1>3, <1>4 DEF BulkStart, IInv, CrashHasCause

\* The outer loop passes a record it need not visit.
LEMMA ScanSkipInv ==
  ASSUME IInv, TypeOK', ScanSkip PROVE IInv'
<1> USE FrozenHeap DEF ScanSkip, Scanning
<1>1. ScanInv /\ Sent' = Sent /\ OnStack' = OnStack
  BY DEF IInv, Sent, OnStack, RangeOf
<1>2. RootsSeen'
  BY <1>1 DEF IInv, ScanInv, RootsSeen, TypeOK
<1>3. Marking' /\ StackOnce' /\ Justified' /\ Chain'
  BY <1>1 DEF ScanInv, Marking, StackOnce, Justified, Chain
<1>4. TargetsSeen'
  BY <1>1 DEF ScanInv, TargetsSeen
<1>5. SentOnce' /\ BottomUp' /\ dirty' \subseteq Live'
  BY ZenonT(40), <1>1 DEF IInv, SentOnce, BottomUp
<1> QED BY <1>1, <1>2, <1>3, <1>4, <1>5 DEF IInv, ScanInv, CrashHasCause

\* The outer loop visits an unmarked static object.
LEMMA ScanEnterInv ==
  ASSUME IInv, TypeOK', ScanEnter PROVE IInv'
<1> DEFINE r == db[cur]
<1> USE DEF ScanEnter, Scanning
<1>1. ScanInv /\ Sent' = Sent /\ OnStack = {} /\ OnStack' = {r}
  BY DEF IInv, Sent, OnStack, RangeOf
<1>2. r \in Live /\ r \in Roots /\ r \in Obj
  <2>1. cur \in 1..Len(db) /\ r \in Obj
    BY ElementOfSeq, LenProperties DEF IInv, TypeOK
  <2>2. r \notin pre
    BY <1>1 DEF ScanInv, Marking
  <2> QED BY <2>1, <2>2 DEF Live, RangeOf, Roots, Visible
<1>3. Marking' /\ StackOnce'
  BY <1>1 DEF ScanInv, Marking, StackOnce
<1>4. RootsSeen'
  BY <1>1 DEF IInv, ScanInv, RootsSeen, TypeOK
<1>5. Justified'
  <2>1. r \in ReachableFrom(Roots, Succ)
    BY <1>2, RootsReachable, SuccProperties
  <2> QED BY <1>1, <2>1, FrozenHeap DEF ScanInv, Justified
<1>6. Chain'
  <2>1. Reaches(r, r, Succ)
    BY <1>2, RootsReachable, SuccProperties DEF Reaches
  <2> QED BY <2>1, FrozenHeap DEF Chain
<1>7. TargetsSeen'
  BY <1>1, FrozenHeap DEF ScanInv, TargetsSeen, Slots
<1>8. SentOnce' /\ BottomUp' /\ dirty' \subseteq Live'
  BY ZenonT(40), <1>1, <1>2, FrozenHeap DEF IInv, SentOnce, BottomUp
<1> QED BY <1>1, <1>3, <1>4, <1>5, <1>6, <1>7, <1>8 DEF IInv, ScanInv, CrashHasCause

\* A field that leads nowhere is passed.
LEMMA SlotPassInv ==
  ASSUME IInv, TypeOK', SlotPass PROVE IInv'
<1> USE DEF SlotPass, InField
<1>1. ScanInv /\ TypeOK /\ stack # <<>> /\ Top.slot <= NSlots
  BY DEF IInv
<1>2. /\ Len(stack') = Len(stack)
      /\ \A k \in 1..Len(stack) :
           /\ stack'[k].obj = stack[k].obj
           /\ k # Len(stack) => stack'[k].slot = stack[k].slot
      /\ stack'[Len(stack)].slot = Top.slot + 1
  BY <1>1, AdvancedProperties
<1>3. OnStack' = OnStack /\ Sent' = Sent
  BY <1>2 DEF OnStack, Sent, RangeOf
<1>4. Marking' /\ StackOnce' /\ RootsSeen' /\ Justified'
  BY <1>1, <1>2, <1>3, FrozenHeap
     DEF ScanInv, Marking, StackOnce, RootsSeen, Justified
<1>5. Chain'
  BY <1>1, <1>2, FrozenHeap DEF ScanInv, Chain
<1>6. TargetsSeen'
  <2>1. \A o \in Sent' : Targets(o)' \subseteq dirty'
    BY <1>1, <1>3, FrozenHeap DEF ScanInv, TargetsSeen
  <2>2. ASSUME NEW k \in 1..Len(stack), NEW i \in Slots,
               i < stack'[k].slot, Dtype[stack[k].obj][i] \in PtrDtypes,
               ptr[stack[k].obj][i] \in Live
        PROVE  ptr[stack[k].obj][i] \in dirty
    <3>1. CASE i < stack[k].slot
      BY <1>1, <2>2, <3>1 DEF ScanInv, TargetsSeen
    <3>2. CASE ~(i < stack[k].slot)
      <4>1. k = Len(stack)
        BY <1>2, <2>2, <3>2
      <4>2. i = Top.slot
        BY <1>1, <1>2, <2>2, <3>2, <4>1, TopIsFrame, NSlotsAssumption DEF Top, Slots
      <4> QED BY <1>1, <2>2, <4>1, <4>2, NullAssumption, LiveIsObj
              DEF Nowhere, Top, Field, FieldDtype, PtrDtypes, IInv
    <3> QED BY <3>1, <3>2
  <2> QED BY <1>2, <2>1, <2>2, FrozenHeap DEF TargetsSeen
<1>7. SentOnce' /\ BottomUp' /\ dirty' \subseteq Live'
  BY <1>3, FrozenHeap DEF IInv, SentOnce, BottomUp
<1> QED BY <1>4, <1>5, <1>6, <1>7 DEF IInv, ScanInv, CrashHasCause

\* A field leads to an unmarked object: the recursion goes one level deeper.
LEMMA SlotDescendInv ==
  ASSUME IInv, TypeOK', SlotDescend PROVE IInv'
<1> DEFINE n == Len(stack)
           t == Field
<1> USE DEF SlotDescend, InField
<1>1. ScanInv /\ TypeOK /\ stack # <<>> /\ Top.slot <= NSlots
  BY DEF IInv
<1>2. /\ n \in Nat \ {0} /\ n \in 1..n
      /\ Top.obj \in Obj /\ Top.slot \in Slots
      /\ FieldDtype \in PtrDtypes /\ t \in Live /\ t \in Obj /\ t \notin dirty
  BY <1>1, TopIsFrame, LiveIsObj, NSlotsAssumption DEF Slots
<1>3. /\ Advanced \in Seq(Frame)
      /\ Len(Advanced) = n
      /\ \A k \in 1..n : /\ Advanced[k].obj = stack[k].obj
                         /\ k # n => Advanced[k].slot = stack[k].slot
      /\ Advanced[n].slot = Top.slot + 1
  BY <1>1, AdvancedProperties
<1>4. /\ Len(stack') = n + 1
      /\ \A k \in 1..n : stack'[k] = Advanced[k]
      /\ stack'[n + 1].obj = t /\ stack'[n + 1].slot = 1
  <2>1. [obj |-> t, slot |-> 1] \in Frame
    BY <1>2, NSlotsAssumption DEF Frame
  <2> QED BY <1>3, <2>1, AppendProperties
<1>5. 1..(n + 1) = (1..n) \cup {n + 1} /\ n + 1 \notin 1..n
  BY <1>2
<1>6. OnStack' = OnStack \cup {t} /\ Sent' = Sent
  <2>1. \A k \in 1..n : stack'[k].obj = stack[k].obj
    BY <1>3, <1>4
  <2> QED BY <1>4, <1>5, <2>1 DEF OnStack, Sent, RangeOf
<1>7. Top.obj \in OnStack /\ t \in Targets(Top.obj) /\ t \in Succ[Top.obj]
  <2>0. t \notin pre
    BY <1>1 DEF IInv, ScanInv, Marking
  <2>1. Top.obj \in OnStack /\ t \in Targets(Top.obj)
    BY <1>2, <2>0 DEF Top, OnStack, Targets, Visible, Field, FieldDtype
  <2>2. Top.obj \in Live
    BY <1>1, <2>1 DEF IInv, ScanInv, Marking
  <2> QED BY <1>2, <2>1, <2>2, SuccProperties
<1> HIDE DEF n, t
<1>8. Marking'
  BY <1>1, <1>2, <1>6 DEF ScanInv, Marking, t
<1>9. StackOnce'
  <2>1. \A k \in 1..n : stack[k].obj # t
    BY <1>1, <1>2 DEF ScanInv, Marking, OnStack, n
  <2> QED BY <1>1, <1>3, <1>4, <1>5, <2>1 DEF ScanInv, StackOnce, n
<1>10. RootsSeen'
  BY <1>1 DEF ScanInv, RootsSeen
<1>11. Justified'
  <2>1. t \in ReachableFrom(Roots, Succ)
    BY <1>1, <1>2, <1>7, ReachableStep, SuccProperties DEF ScanInv, Justified
  <2> QED BY <1>1, <1>6, <2>1, FrozenHeap DEF ScanInv, Justified
<1>12. Chain'
  <2>1. \A k \in 1..n : Reaches(stack[k].obj, t, Succ)
    <3>1. \A k \in 1..n : Reaches(stack[k].obj, Top.obj, Succ)
      BY <1>1, <1>2 DEF ScanInv, Chain, Top, n
    <3> QED BY <1>2, <1>7, <3>1, ReachableStep, SuccProperties DEF Reaches
  <2>2. Reaches(t, t, Succ)
    BY <1>2, RootsReachable, SuccProperties DEF Reaches
  <2>3. ASSUME NEW j \in 1..(n + 1), NEW k \in 1..(n + 1), j <= k
        PROVE  Reaches(stack'[j].obj, stack'[k].obj, Succ)
    <3>1. CASE k \in 1..n
      <4>1. j \in 1..n
        BY <1>2, <2>3, <3>1
      <4> QED BY <1>1, <1>3, <1>4, <2>3, <3>1, <4>1 DEF ScanInv, Chain, n
    <3>2. CASE k = n + 1
      BY <1>3, <1>4, <1>5, <2>1, <2>2, <2>3, <3>2
    <3> QED BY <1>5, <3>1, <3>2
  <2> QED BY <1>4, <2>3, FrozenHeap DEF Chain
<1>13. TargetsSeen'
  <2>1. \A o \in Sent' : Targets(o)' \subseteq dirty'
    BY <1>1, <1>6, FrozenHeap DEF ScanInv, TargetsSeen
  <2>2. ASSUME NEW k \in 1..n, NEW i \in Slots,
               i < Advanced[k].slot, Dtype[stack[k].obj][i] \in PtrDtypes,
               ptr[stack[k].obj][i] \in Live
        PROVE  ptr[stack[k].obj][i] \in dirty \cup {t}
    <3>1. CASE i < stack[k].slot
      BY <1>1, <2>2, <3>1 DEF ScanInv, TargetsSeen, n
    <3>2. CASE ~(i < stack[k].slot)
      <4>1. k = n
        BY <1>3, <2>2, <3>2
      <4>2. i = Top.slot
        BY <1>2, <1>3, <2>2, <3>2, <4>1 DEF Top, Slots, n
      <4> QED BY <4>1, <4>2 DEF Top, Field, t, n
    <3> QED BY <3>1, <3>2
  <2>3. \A i \in Slots : ~(i < stack'[n + 1].slot)
    BY <1>4 DEF Slots
  <2>4. \A k \in 1..n : stack'[k] = Advanced[k] /\ stack'[k].obj = stack[k].obj
    BY <1>3, <1>4
  <2>5. dirty' = dirty \cup {t}
    BY DEF t
  <2> QED BY <1>4, <1>5, <2>1, <2>2, <2>3, <2>4, <2>5, FrozenHeap DEF TargetsSeen
<1>14. SentOnce' /\ dirty' \subseteq Live'
  BY <1>2, <1>6, FrozenHeap DEF IInv, SentOnce, t
<1>15. BottomUp'
  <2>1. UNCHANGED <<sent, phase>>
    BY DEF SlotDescend
  <2> QED BY <1>2, <2>1, FrozenHeap DEF IInv, BottomUp
<1> QED BY <1>8, <1>9, <1>10, <1>11, <1>12, <1>13, <1>14, <1>15 DEF IInv, ScanInv, CrashHasCause

\* The process dies in the middle of the scan, on a field of a visited object.
LEMMA SlotCrashInv ==
  ASSUME IInv, TypeOK', SlotCrash PROVE IInv'
<1> USE DEF SlotCrash, InField
<1>1. ScanInv /\ TypeOK /\ stack # <<>>
  BY DEF IInv
<1>2. Sent' = Sent /\ OnStack' = OnStack
  BY DEF Sent, OnStack, RangeOf
<1>3. ScanInv'
  <2>1. Marking' /\ StackOnce' /\ RootsSeen' /\ Justified' /\ Chain'
    BY <1>1, <1>2, FrozenHeap
       DEF ScanInv, Marking, StackOnce, RootsSeen, Justified, Chain
  <2>2. TargetsSeen'
    BY <1>1, <1>2, FrozenHeap DEF ScanInv, TargetsSeen
  <2> QED BY <2>1, <2>2 DEF ScanInv
<1>4. CrashHasCause'
  <2>1. Top.obj \in ReachableFrom(Roots, Succ) /\ Top.slot \in Slots
    BY <1>1, TopIsFrame, NSlotsAssumption
       DEF ScanInv, Justified, OnStack, Top, Slots
  <2>2. /\ Dtype[Top.obj][Top.slot] = "OBJ_PTR"
        /\ ptr[Top.obj][Top.slot] \notin Live \cup Nowhere
    BY DEF Field, FieldDtype
  <2> QED BY <2>1, <2>2, FrozenHeap DEF CrashHasCause
<1>5. SentOnce' /\ BottomUp' /\ dirty' \subseteq Live'
  BY FrozenHeap DEF IInv, SentOnce, BottomUp
<1> QED BY <1>3, <1>4, <1>5 DEF IInv

\* An activation that has passed all fields has only marked targets.
LEMMA TopTargetsMarked ==
  ASSUME IInv, phase = "scan", stack # <<>>, Top.slot > NSlots
  PROVE  Targets(Top.obj) \subseteq dirty
<1>1. TypeOK /\ TargetsSeen
  BY DEF IInv, ScanInv
<1>2. \A i \in Slots : i < Top.slot
  BY <1>1, TopIsFrame, NSlotsAssumption DEF Slots
<1> QED BY <1>1, <1>2, TopIsFrame DEF TargetsSeen, Targets, Visible, Top

\* What an activation that returns leaves on the stack and in sent.
LEMMA ReturnEffect ==
  ASSUME IInv, SlotReturn
  PROVE  /\ Len(stack) \in Nat \ {0}
         /\ Len(stack') = Len(stack) - 1
         /\ \A k \in 1..(Len(stack) - 1) : stack'[k] = stack[k]
         /\ Len(sent) \in Nat
         /\ Len(sent') = Len(sent) + 1
         /\ \A k \in 1..Len(sent) : sent'[k] = sent[k]
         /\ sent'[Len(sent) + 1] = Top.obj
         /\ Sent' = Sent \cup {Top.obj}
         /\ OnStack = OnStack' \cup {Top.obj}
         /\ Top.obj \notin OnStack' /\ Top.obj \notin Sent
<1> USE DEF SlotReturn
<1>1. ScanInv /\ TypeOK /\ stack # <<>>
  BY DEF IInv
<1>2. /\ Len(stack) \in Nat \ {0}
      /\ Len(stack') = Len(stack) - 1
      /\ \A k \in 1..(Len(stack) - 1) : stack'[k] = stack[k]
  BY <1>1, PopProperties DEF TypeOK
<1>3. /\ Len(sent) \in Nat
      /\ Len(sent') = Len(sent) + 1
      /\ \A k \in 1..Len(sent) : sent'[k] = sent[k]
      /\ sent'[Len(sent) + 1] = Top.obj
  BY <1>1, TopIsFrame, AppendProperties, LenProperties DEF TypeOK
<1>4. Sent' = Sent \cup {Top.obj}
  <2>1. 1..(Len(sent) + 1) = (1..Len(sent)) \cup {Len(sent) + 1}
    BY <1>3
  <2> QED BY <1>3, <2>1 DEF Sent, RangeOf
<1>5. 1..Len(stack) = (1..(Len(stack) - 1)) \cup {Len(stack)}
      /\ Len(stack) \notin 1..(Len(stack) - 1)
  BY <1>2
<1>6. OnStack = OnStack' \cup {Top.obj}
  BY <1>2, <1>5 DEF OnStack, Top
<1>7. Top.obj \notin OnStack'
  BY SMTT(30), <1>1, <1>2, <1>5 DEF ScanInv, StackOnce, OnStack, Top
<1>8. Top.obj \notin Sent
  BY <1>1, <1>6 DEF ScanInv, Marking
<1> QED BY <1>2, <1>3, <1>4, <1>6, <1>7, <1>8

\* The object an activation returns from leads back to every object it points
\* to that is not sent: that object is below it on the stack.
LEMMA ReturnBottomUp ==
  ASSUME IInv, SlotReturn, NEW t \in Targets(Top.obj)
  PROVE  t \in Sent \/ Reaches(t, Top.obj, Succ)
<1>1. t \in Sent \cup OnStack
  BY TopTargetsMarked DEF SlotReturn, IInv, ScanInv, Marking, Targets, Visible
<1>2. ASSUME NEW k \in 1..Len(stack), t = stack[k].obj
      PROVE  Reaches(t, Top.obj, Succ)
  BY <1>2, ReturnEffect DEF SlotReturn, IInv, ScanInv, Chain, Top
<1> QED BY <1>1, <1>2 DEF OnStack

\* All fields of an object seen: it is sent and the recursion returns.
LEMMA SlotReturnInv ==
  ASSUME IInv, TypeOK', SlotReturn PROVE IInv'
<1> DEFINE n == Len(stack)
           m == Len(sent)
<1>1. ScanInv /\ TypeOK /\ stack # <<>> /\ phase = "scan"
  BY DEF IInv, SlotReturn
<1>2. /\ UNCHANGED <<db, ptr, dirty, pre, phase, cur>>
      /\ n \in Nat \ {0} /\ Len(stack') = n - 1
      /\ \A k \in 1..(n - 1) : stack'[k] = stack[k] /\ k \in 1..n
      /\ m \in Nat /\ Len(sent') = m + 1
      /\ \A k \in 1..m : sent'[k] = sent[k]
      /\ sent'[m + 1] = Top.obj
      /\ 1..(m + 1) = (1..m) \cup {m + 1} /\ m + 1 \notin 1..m
  BY ReturnEffect DEF SlotReturn
<1>3. /\ Sent' = Sent \cup {Top.obj}
      /\ OnStack = OnStack' \cup {Top.obj}
      /\ Top.obj \notin OnStack' /\ Top.obj \notin Sent
  BY ReturnEffect
<1> HIDE DEF n, m
<1>4. Marking'
  BY <1>1, <1>2, <1>3 DEF ScanInv, Marking
<1>5. StackOnce' /\ RootsSeen' /\ Chain'
  BY <1>1, <1>2, FrozenHeap DEF ScanInv, StackOnce, RootsSeen, Chain, n
<1>6. Justified'
  BY <1>1, <1>2, <1>3, FrozenHeap DEF ScanInv, Justified
<1>7. TargetsSeen'
  <2>1. \A o \in Sent' : Targets(o) \subseteq dirty
    BY <1>1, <1>3, TopTargetsMarked DEF ScanInv, TargetsSeen, SlotReturn
  <2> QED BY SMTT(90), <1>1, <1>2, <2>1, FrozenHeap DEF ScanInv, TargetsSeen, n
<1>8. SentOnce'
  <2>1. \A k \in 1..m : sent[k] # Top.obj
    BY <1>3 DEF Sent, RangeOf, m
  <2> QED BY <1>2, <2>1 DEF IInv, SentOnce, m
<1>9. BottomUp'
  <2>1. ASSUME NEW i \in 1..m, NEW t \in Targets(sent[i])
        PROVE  \/ \E j \in 1..i : sent'[j] = t
               \/ Reaches(t, sent[i], Succ)
    <3>1. \A j \in 1..i : j \in 1..m
      BY <1>2
    <3> QED BY <1>1, <1>2, <2>1, <3>1 DEF IInv, BottomUp, m
  <2>2. ASSUME NEW t \in Targets(Top.obj)
        PROVE  \/ \E j \in 1..(m + 1) : sent'[j] = t
               \/ Reaches(t, Top.obj, Succ)
    <3>1. t \in Sent \/ Reaches(t, Top.obj, Succ)
      BY ReturnBottomUp
    <3>2. t \in Sent => \E j \in 1..(m + 1) : sent'[j] = t
      BY <1>2 DEF Sent, RangeOf, m
    <3> QED BY <3>1, <3>2
  <2> QED BY <1>2, <2>1, <2>2, FrozenHeap DEF BottomUp
<1>10. dirty' \subseteq Live'
  BY <1>2, FrozenHeap DEF IInv
<1> QED BY <1>1, <1>2, <1>4, <1>5, <1>6, <1>7, <1>8, <1>9, <1>10
        DEF IInv, ScanInv, CrashHasCause

\* The commit clears every dirty bit.
LEMMA FinishInv ==
  ASSUME IInv, TypeOK', Finish PROVE IInv'
<1> USE DEF Finish, ScanDone
<1>1. SentOnce' /\ BottomUp'
  BY DEF IInv, SentOnce, BottomUp
<1> QED BY <1>1 DEF IInv, CrashHasCause

LEMMA StutterInv ==
  ASSUME IInv, TypeOK', UNCHANGED vars PROVE IInv'
<1> USE DEF vars
<1>1. Sent' = Sent /\ OnStack' = OnStack
  BY DEF Sent, OnStack, RangeOf
<1>2. (phase # "app" => ScanInv)'
  BY <1>1, FrozenHeap DEF IInv, ScanInv, Marking, StackOnce, RootsSeen,
     TargetsSeen, Justified, Chain
<1>3. SentOnce' /\ BottomUp' /\ dirty' \subseteq Live' /\ CrashHasCause'
  BY FrozenHeap DEF IInv, SentOnce, BottomUp, CrashHasCause
<1> QED BY <1>2, <1>3 DEF IInv

\* IInv is inductive.
LEMMA InvStep == IInv /\ [Next]_vars => IInv'
<1> SUFFICES ASSUME IInv, [Next]_vars PROVE IInv'
  OBVIOUS
<1>1. TypeOK'
  BY TypeStep DEF IInv
<1> QED BY <1>1, AppStepInv, BulkStartInv, ScanSkipInv, ScanEnterInv, SlotPassInv,
        SlotDescendInv, SlotCrashInv, SlotReturnInv, FinishInv, StutterInv
        DEF Next, ScanStep

LEMMA InitInv == Init => IInv
<1> SUFFICES ASSUME Init PROVE IInv
  OBVIOUS
<1>1. TypeOK
  BY NSlotsAssumption DEF Init, TypeOK, Values
<1> QED BY <1>1 DEF Init, IInv, SentOnce, BottomUp, CrashHasCause

\* The inductive invariant holds of every behaviour.
THEOREM Invariance == Spec => []IInv
BY InitInv, InvStep, PTL DEF Spec

(***************************************************************************)
(* The properties.                                                         *)
(***************************************************************************)

\* No bulk sync of any heap sends an object twice.
THEOREM SentOnceHolds == Spec => []SentOnce
<1>1. IInv => SentOnce
  BY DEF IInv
<1> QED BY <1>1, Invariance, PTL

\* Leaf objects go first, up to cycles, in every bulk sync of every heap.
THEOREM BottomUpHolds == Spec => []BottomUp
<1>1. IInv => BottomUp
  BY DEF IInv
<1> QED BY <1>1, Invariance, PTL

\* A scan only crashes on an unregistered OBJ_PTR of a reachable object.
THEOREM CrashHasCauseHolds == Spec => []CrashHasCause
<1>1. IInv => CrashHasCause
  BY DEF IInv
<1> QED BY <1>1, Invariance, PTL

\* At the end of a scan what was sent is what could be reached.
LEMMA DoneIsComplete ==
  ASSUME IInv, ScanDone
  PROVE  Sent = ReachableFrom(Roots, Succ)
<1>1. TypeOK /\ ScanInv /\ OnStack = {} /\ Sent = dirty \ pre
  BY DEF IInv, ScanInv, Marking, ScanDone, OnStack
<1>2. Sent \subseteq ReachableFrom(Roots, Succ)
  BY <1>1 DEF ScanInv, Justified
<1>3. Roots \subseteq Sent
  <2>1. ASSUME NEW o \in Roots PROVE o \in Sent
    <3>1. PICK i \in 1..Len(db) : o = db[i] /\ o \in Static \ pre
      BY <2>1 DEF Roots, Visible, Live, RangeOf
    <3>2. i < cur
      BY <1>1, LenProperties DEF ScanDone, TypeOK
    <3> QED BY <1>1, <3>1, <3>2 DEF ScanInv, RootsSeen
  <2> QED BY <2>1
<1>4. Closed(Sent, Succ)
  <2>1. \A o \in Sent : Targets(o) \subseteq Sent
    BY <1>1 DEF ScanInv, TargetsSeen, Targets, Visible
  <2>2. Sent \subseteq Obj
    BY ElementOfSeq DEF IInv, TypeOK, Sent, RangeOf
  <2> QED BY <2>1, <2>2, SuccProperties DEF Closed
<1>5. Sent \in SUBSET DOMAIN Succ
  BY SuccProperties, ElementOfSeq DEF IInv, TypeOK, Sent, RangeOf
<1> QED BY <1>2, <1>3, <1>4, <1>5, ReachableLeast

\* A bulk sync sends exactly the objects that the static objects lead to in the
\* graph that the marks left visible, on every heap.
THEOREM CompleteHolds == Spec => []Complete
<1>1. IInv => Complete
  BY DoneIsComplete DEF Complete
<1> QED BY <1>1, Invariance, PTL

(***************************************************************************)
(* The refinement of HeapSync.                                             *)
(***************************************************************************)

\* The graph of the scan is one of registered objects.
LEMMA GraphType ==
  ASSUME TypeOK'
  PROVE  Roots' \in SUBSET Obj /\ Succ' \in [Obj -> SUBSET Obj]
<1>1. Roots' \in SUBSET Obj
  BY StaticAssumption DEF Roots
<1>2. (Live \subseteq Obj)'
  BY ElementOfSeq DEF Live, RangeOf, TypeOK
<1>3. Succ' \in [Obj -> SUBSET Obj]
  BY <1>2 DEF Succ, Targets, Visible
<1> QED BY <1>1, <1>3

\* Outside a scan any change of the heap is a step of the abstract heap.
LEMMA MapsToMutate ==
  ASSUME IInv, TypeOK', AppStep PROVE [HS!HSNext]_(HS!hsVars)
<1>1. phase = "app" /\ UNCHANGED scanVars
  BY DEF AppStep, AddObject, AppWrite, HaFree, MarkChangedObjects, HaSync
<1>2. Sent' = Sent /\ phase' = phase
  BY <1>1 DEF Sent, RangeOf, scanVars
<1> QED BY <1>1, <1>2, GraphType DEF HS!HSNext, HS!Mutate, HS!hsVars

\* The return of an activation is the send of its object.
LEMMA MapsToSend ==
  ASSUME IInv, SlotReturn PROVE HS!Send(Top.obj)
<1> USE DEF SlotReturn
<1>1. TypeOK /\ stack # <<>> /\ ScanInv
  BY DEF IInv
<1>2. Top.obj \in ReachableFrom(Roots, Succ)
  BY <1>1, TopIsFrame DEF ScanInv, Justified, OnStack, Top
<1>3. \A t \in Succ[Top.obj] : t \in Sent \/ Reaches(t, Top.obj, Succ)
  BY <1>1, TopIsFrame, SuccProperties, ReturnBottomUp
<1>4. Top.obj \notin Sent /\ Sent' = Sent \cup {Top.obj}
  BY ReturnEffect
<1>5. UNCHANGED <<Roots, Succ, phase>> /\ phase = "scan"
  BY FrozenHeap
<1>6. \A R, succ : HS!ReachableFrom(R, succ) = ReachableFrom(R, succ)
  BY DEF HS!ReachableFrom, ReachableFrom, HS!Closed, Closed
<1>7. \A a, b, succ : HS!Reaches(a, b, succ) = Reaches(a, b, succ)
  BY <1>6 DEF HS!Reaches, Reaches
<1> QED BY <1>2, <1>3, <1>4, <1>5, <1>6, <1>7 DEF HS!Send

\* Every step of the scan is a step of HeapSync or changes nothing in it.
LEMMA StepMaps ==
  ASSUME IInv, TypeOK', [Next]_vars PROVE [HS!HSNext]_(HS!hsVars)
<1>1. CASE AppStep
  BY <1>1, MapsToMutate
<1>2. CASE BulkStart
  <2>1. Sent' = {}
    BY <1>2 DEF BulkStart, Sent, RangeOf
  <2> QED BY <1>2, <2>1, GraphType DEF BulkStart, HS!HSNext, HS!Begin
<1>3. CASE ScanSkip \/ ScanEnter \/ SlotPass \/ SlotDescend \/ UNCHANGED vars
  <2>1. UNCHANGED <<db, ptr, pre, sent, phase>>
    BY <1>3 DEF ScanSkip, ScanEnter, SlotPass, SlotDescend, vars
  <2>2. UNCHANGED <<Roots, Succ, Sent, phase>>
    BY <2>1, FrozenHeap DEF Sent, RangeOf
  <2> QED BY <2>2 DEF HS!hsVars
<1>4. CASE SlotCrash
  <2>1. UNCHANGED <<Roots, Succ, Sent>>
    BY <1>4, FrozenHeap DEF SlotCrash, Sent, RangeOf
  <2> QED BY <1>4, <2>1 DEF SlotCrash, InField, HS!HSNext, HS!Crash
<1>5. CASE SlotReturn
  <2>1. Top.obj \in Obj
    BY <1>5, TopIsFrame DEF SlotReturn, IInv
  <2> QED BY <1>5, <2>1, MapsToSend DEF HS!HSNext
<1>6. CASE Finish
  <2>1. UNCHANGED <<Roots, Succ>> /\ Sent' = {}
    BY <1>6, FrozenHeap DEF Finish, Sent, RangeOf
  <2>2. Sent = ReachableFrom(Roots, Succ)
    BY <1>6, DoneIsComplete DEF Finish, IInv
  <2>3. Sent = HS!ReachableFrom(Roots, Succ)
    BY <2>2 DEF HS!ReachableFrom, ReachableFrom, HS!Closed, Closed
  <2> QED BY <1>6, <2>1, <2>3 DEF Finish, ScanDone, HS!HSNext, HS!Commit
<1> QED BY <1>1, <1>2, <1>3, <1>4, <1>5, <1>6 DEF Next, ScanStep

\* tha_bulk_sync does what HeapSync promises, whatever the heap and whatever
\* the application marked before.
THEOREM RefinesHeapSync == Spec => ImplementsHeapSync
<1>1. Init => HS!HSInit
  <2> SUFFICES ASSUME Init PROVE HS!HSInit
    OBVIOUS
  <2>1. Live = {} /\ Sent = {}
    BY DEF Init, Live, Sent, RangeOf
  <2> QED BY <2>1 DEF Init, HS!HSInit, Roots, Visible, Succ
<1>2. IInv /\ IInv' /\ [Next]_vars => [HS!HSNext]_(HS!hsVars)
  BY StepMaps DEF IInv
<1> QED BY <1>1, <1>2, Invariance, PTL DEF Spec, ImplementsHeapSync, HS!HSSpec
=============================================================================
