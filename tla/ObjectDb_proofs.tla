--------------------------- MODULE ObjectDb_proofs ---------------------------
(***************************************************************************)
(* The doubly linked list of the object database is well formed after any  *)
(* sequence of calls, and no loop over it stands on a freed record, for    *)
(* any set of records.                                                     *)
(***************************************************************************)
EXTENDS ObjectDb, WellFoundedInduction, TLAPS

\* What taking one element out of a sequence leaves.
LEMMA WithoutFacts ==
    ASSUME NEW S, NEW s \in Seq(S), NEW i \in 1..Len(s)
    PROVE  /\ Without(s, i) \in Seq(S)
           /\ Len(Without(s, i)) = Len(s) - 1
           /\ \A k \in 1..(Len(s) - 1) :
                  Without(s, i)[k] = IF k < i THEN s[k] ELSE s[k + 1]
<1> DEFINE a == SubSeq(s, 1, i - 1)
           b == SubSeq(s, i + 1, Len(s))
<1>1. a \in Seq(S) /\ Len(a) = i - 1 /\ \A k \in 1..(i - 1) : a[k] = s[k]
  OBVIOUS
<1>2. b \in Seq(S) /\ Len(b) = Len(s) - i /\ \A k \in 1..(Len(s) - i) : b[k] = s[i + k]
  OBVIOUS
<1> HIDE DEF a, b
<1>3. a \o b \in Seq(S) /\ Len(a \o b) = Len(s) - 1
  <2>1. a \in Seq(S) /\ b \in Seq(S)
    BY <1>1, <1>2
  <2>2. a \o b \in Seq(S) /\ Len(a \o b) = Len(a) + Len(b)
    BY <2>1
  <2>3. Len(s) \in Nat /\ i \in Nat
    OBVIOUS
  <2> QED BY <2>2, <2>3, <1>1, <1>2
<1>4. ASSUME NEW k \in 1..(Len(s) - 1)
      PROVE  (a \o b)[k] = IF k < i THEN s[k] ELSE s[k + 1]
  <2>1. CASE k < i
    BY <1>1, <1>2, <2>1
  <2>2. CASE ~(k < i)
    <3>1. (a \o b)[k] = b[k - (i - 1)]
      BY <1>1, <1>2, <2>2
    <3>2. k - (i - 1) \in 1..(Len(s) - i) /\ i + (k - (i - 1)) = k + 1
      BY <2>2
    <3> QED BY <3>1, <3>2, <1>2, <2>2
  <2> QED BY <2>1, <2>2
<1> QED BY <1>3, <1>4 DEF Without, a, b

\* What putting an element in front of a sequence gives.
LEMMA ConsFacts ==
    ASSUME NEW S, NEW s \in Seq(S), NEW e \in S
    PROVE  /\ <<e>> \o s \in Seq(S)
           /\ Len(<<e>> \o s) = Len(s) + 1
           /\ (<<e>> \o s)[1] = e
           /\ \A k \in 1..Len(s) : (<<e>> \o s)[k + 1] = s[k]
OBVIOUS

\* Every registered record has a position.
LEMMA PosFacts ==
    ASSUME TypeOK, Linked, NEW r \in live
    PROVE  Pos(r) \in 1..Len(order) /\ order[Pos(r)] = r
BY DEF Linked, Pos

\* What a removal of r leaves.
RemovedFacts(r) ==
    /\ order' = Without(order, Pos(r))
    /\ order' \in Seq(Rec)
    /\ count' \in Nat
    /\ next' \in [Rec -> Rec \cup {Null}]
    /\ prev' \in [Rec -> Rec \cup {Null}]
    /\ head' \in Rec \cup {Null}
    /\ live' \in SUBSET Rec
    /\ Linked'

\* A removal, of any of the four kinds, takes one record out of the order and
\* leaves a well-formed list.
LEMMA RemoveFacts ==
    ASSUME TypeOK, Linked, NEW r \in live, Remove(r)
    PROVE  RemovedFacts(r)
<1> DEFINE n == Len(order)
           p == Pos(r)
<1>1. p \in 1..n /\ order[p] = r
  BY PosFacts
<1>2. n \in Nat /\ order \in Seq(Rec) /\ r \in Rec
  BY DEF TypeOK
<1>3. order' = Without(order, p)
  BY DEF Remove, RemoveOnly, RemoveFirst, RemoveLast, RemoveMiddle, Unlinked
<1>4. /\ order' \in Seq(Rec)
      /\ Len(order') = n - 1
      /\ \A k \in 1..(n - 1) : order'[k] = IF k < p THEN order[k] ELSE order[k + 1]
  BY <1>1, <1>2, <1>3, WithoutFacts
<1>5. /\ count' = n - 1
      /\ live' = live \ {r}
  BY DEF Remove, RemoveOnly, RemoveFirst, RemoveLast, RemoveMiddle, Unlinked, Linked
<1>6. \A i, j \in 1..n : i # j => order[i] # order[j]
  BY DEF Linked
<1>7. live' = {order'[i] : i \in 1..Len(order')}
  <2>1. ASSUME NEW x \in live' PROVE \E k \in 1..(n - 1) : order'[k] = x
    <3>1. PICK i \in 1..n : order[i] = x
      BY <2>1, <1>5 DEF Linked
    <3>2. i # p
      BY <3>1, <2>1, <1>5, <1>1
    <3>3. CASE i < p
      BY <3>1, <3>3, <1>1, <1>4
    <3>4. CASE i > p
      <4>1. i - 1 \in 1..(n - 1) /\ ~(i - 1 < p) /\ (i - 1) + 1 = i
        BY <3>4, <1>1
      <4> QED BY <4>1, <3>1, <1>4
    <3> QED BY <3>2, <3>3, <3>4, <1>1
  <2>2. ASSUME NEW k \in 1..(n - 1) PROVE order'[k] \in live'
    <3>1. PICK i \in 1..n : order'[k] = order[i] /\ i # p
      <4>1. CASE k < p
        BY <4>1, <1>4, <1>2
      <4>2. CASE ~(k < p)
        <5>1. k + 1 \in 1..n /\ k + 1 # p
          BY <4>2, <1>1, <1>2
        <5> QED BY <5>1, <4>2, <1>4
      <4> QED BY <4>1, <4>2
    <3>2. order[i] \in live /\ order[i] # r
      BY <3>1, <1>1, <1>6 DEF Linked
    <3> QED BY <3>1, <3>2, <1>5
  <2> QED BY <2>1, <2>2, <1>4
<1>8. \A i, j \in 1..(n - 1) : i # j => order'[i] # order'[j]
  <2> SUFFICES ASSUME NEW i \in 1..(n - 1), NEW j \in 1..(n - 1), i # j
               PROVE  order'[i] # order'[j]
    OBVIOUS
  <2>1. PICK a \in 1..n : a = IF i < p THEN i ELSE i + 1
    BY <1>2
  <2>2. PICK b \in 1..n : b = IF j < p THEN j ELSE j + 1
    BY <1>2
  <2>3. a # b
    BY <2>1, <2>2, <1>1
  <2>4. order'[i] = order[a] /\ order'[j] = order[b]
    BY <2>1, <2>2, <1>4
  <2> QED BY <2>3, <2>4, <1>6
\* The links, kind by kind.
<1> DEFINE Nw(k) == IF k \in 1..(n - 1) THEN order'[k] ELSE Null
           Od(k) == IF k \in 1..n THEN order[k] ELSE Null
<1>9. /\ head = Od(1)
      /\ count = n
      /\ \A k \in 1..n : next[order[k]] = Od(k + 1) /\ prev[order[k]] = Od(k - 1)
  BY DEF Linked, At
<1>10. \A k \in 1..n : order[k] \in Rec /\ order[k] # Null
  BY <1>2, NullAssumption
<1>11. /\ head' = Nw(1)
       /\ \A k \in 1..(n - 1) : next'[order'[k]] = Nw(k + 1) /\ prev'[order'[k]] = Nw(k - 1)
       /\ next' \in [Rec -> Rec \cup {Null}]
       /\ prev' \in [Rec -> Rec \cup {Null}]
       /\ head' \in Rec \cup {Null}
  <2>1. CASE RemoveOnly(r)
    <3>1. n = 1
      BY <2>1, <1>9 DEF RemoveOnly
    <3>2. 1..(n - 1) = {}
      BY <3>1
    <3> QED BY <2>1, <3>2 DEF RemoveOnly, TypeOK
  <2>2. CASE RemoveFirst(r)
    <3>1. p = 1 /\ n # 1
      BY <2>2, <1>1, <1>6, <1>9 DEF RemoveFirst
    <3>2. n >= 2 /\ next[r] = order[2]
      BY <3>1, <1>1, <1>2, <1>9
    <3>3. \A k \in 1..(n - 1) : order'[k] = order[k + 1]
      BY <3>1, <1>4
    <3>4. head' = order[2] /\ next' = next /\ prev' = [prev EXCEPT ![order[2]] = Null]
      BY <2>2, <3>2 DEF RemoveFirst
    <3>5. head' = Nw(1)
      BY <3>2, <3>3, <3>4
    <3>6. ASSUME NEW k \in 1..(n - 1)
          PROVE  next'[order'[k]] = Nw(k + 1) /\ prev'[order'[k]] = Nw(k - 1)
      <4>1. next'[order'[k]] = Od(k + 2)
        BY <3>3, <3>4, <1>9, <1>2
      <4>2. Od(k + 2) = Nw(k + 1)
        BY <3>3, <1>2
      <4>3. CASE k = 1
        BY <4>1, <4>2, <4>3, <3>3, <3>4, <1>10, <3>2 DEF TypeOK
      <4>4. CASE k # 1
        <5>1. order[k + 1] # order[2]
          BY <4>4, <1>6, <3>2
        <5>2. prev'[order'[k]] = prev[order[k + 1]]
          BY <5>1, <3>3, <3>4, <1>10, <1>2 DEF TypeOK
        <5>3. prev[order[k + 1]] = Od(k)
          BY <1>9, <1>2
        <5>4. Od(k) = Nw(k - 1)
          BY <4>4, <3>3, <1>2
        <5> QED BY <4>1, <4>2, <5>2, <5>3, <5>4
      <4> QED BY <4>3, <4>4
    <3> QED BY <3>4, <3>5, <3>6, <1>10, <3>2 DEF TypeOK
  <2>3. CASE RemoveLast(r)
    <3>1. p = n /\ p # 1
      BY <2>3, <1>1, <1>2, <1>9, <1>10 DEF RemoveLast
    <3>2. n >= 2 /\ prev[r] = order[n - 1]
      BY <3>1, <1>1, <1>2, <1>9
    <3>3. \A k \in 1..(n - 1) : order'[k] = order[k]
      BY <3>1, <1>4
    <3>4. head' = head /\ prev' = prev /\ next' = [next EXCEPT ![order[n - 1]] = Null]
      BY <2>3, <3>2 DEF RemoveLast
    <3>5. head' = Nw(1)
      BY <3>2, <3>3, <3>4, <1>9
    <3>6. ASSUME NEW k \in 1..(n - 1)
          PROVE  next'[order'[k]] = Nw(k + 1) /\ prev'[order'[k]] = Nw(k - 1)
      <4>1. prev'[order'[k]] = Nw(k - 1)
        BY <3>3, <3>4, <1>9, <1>2
      <4>2. CASE k = n - 1
        BY <4>1, <4>2, <3>3, <3>4, <1>10, <3>2 DEF TypeOK
      <4>3. CASE k # n - 1
        <5>1. order[k] # order[n - 1]
          BY <4>3, <1>6, <3>2
        <5>2. next'[order'[k]] = next[order[k]]
          BY <5>1, <3>3, <3>4, <1>10, <1>2 DEF TypeOK
        <5>3. next[order[k]] = Od(k + 1)
          BY <1>9, <1>2
        <5>4. Od(k + 1) = Nw(k + 1)
          BY <4>3, <3>3, <1>2
        <5> QED BY <4>1, <5>2, <5>3, <5>4
      <4> QED BY <4>2, <4>3
    <3> QED BY <3>4, <3>5, <3>6, <1>10, <3>2 DEF TypeOK
  <2>4. CASE RemoveMiddle(r)
    <3>1. p # 1 /\ p # n
      BY <2>4, <1>1, <1>2, <1>9 DEF RemoveMiddle
    <3>2. next[r] = order[p + 1] /\ prev[r] = order[p - 1]
      BY <3>1, <1>1, <1>2, <1>9
    <3>3. /\ head' = head
          /\ next' = [next EXCEPT ![order[p - 1]] = order[p + 1]]
          /\ prev' = [prev EXCEPT ![order[p + 1]] = order[p - 1]]
      BY <2>4, <3>2 DEF RemoveMiddle
    <3>4. head' = Nw(1)
      BY <3>1, <3>3, <1>1, <1>2, <1>4, <1>9
    <3>5. ASSUME NEW k \in 1..(n - 1)
          PROVE  next'[order'[k]] = Nw(k + 1)
      <4>1. CASE k < p - 1
        <5>1. order'[k] = order[k] /\ order[k] # order[p - 1] /\ Nw(k + 1) = order[k + 1]
          BY <4>1, <1>1, <1>2, <1>4, <1>6, <3>1
        <5> QED BY SMTT(30), <5>1, <4>1, <3>3, <1>1, <1>9, <1>10, <1>2 DEF TypeOK
      <4>2. CASE k = p - 1
        <5>1. order'[k] = order[p - 1] /\ Nw(k + 1) = order[p + 1]
          BY SMTT(30), <4>2, <1>1, <1>2, <1>4, <3>1
        <5>2. order[p - 1] \in Rec
          BY <1>10, <1>1, <3>1
        <5> QED BY <5>1, <5>2, <3>3 DEF TypeOK
      <4>3. CASE k >= p
        <5>1. order'[k] = order[k + 1] /\ order[k + 1] # order[p - 1] /\ Nw(k + 1) = Od(k + 2)
          <6>1. order'[k] = order[k + 1]
            BY <4>3, <1>1, <1>2, <1>4
          <6>2. p - 1 \in 1..n /\ k + 1 \in 1..n /\ p - 1 # k + 1
            BY <4>3, <1>1, <1>2, <3>1
          <6>3. CASE k + 1 \in 1..(n - 1)
            <7>1. order'[k + 1] = order[(k + 1) + 1]
              BY <6>3, <4>3, <1>1, <1>2, <1>4
            <7>2. (k + 1) + 1 = k + 2 /\ k + 2 \in 1..n
              BY <6>3, <1>2
            <7> QED BY <6>1, <6>2, <6>3, <7>1, <7>2, <1>6
          <6>4. CASE k + 1 \notin 1..(n - 1)
            <7>1. k + 2 \notin 1..n
              BY <6>4, <1>2
            <7> QED BY <6>1, <6>2, <6>4, <7>1, <1>6
          <6> QED BY <6>3, <6>4
        <5>2. next[order[k + 1]] = Od(k + 2)
          BY <1>9, <1>2
        <5>3. order[k + 1] \in Rec
          BY <1>10, <1>2
        <5> QED BY <5>1, <5>2, <5>3, <3>3 DEF TypeOK
      <4> QED BY <4>1, <4>2, <4>3, <1>1, <1>2
    <3>6. ASSUME NEW k \in 1..(n - 1)
          PROVE  prev'[order'[k]] = Nw(k - 1)
      <4>1. CASE k < p
        <5>1. order'[k] = order[k] /\ order[k] # order[p + 1] /\ Nw(k - 1) = Od(k - 1)
          BY <4>1, <1>1, <1>2, <1>4, <1>6, <3>1
        <5>2. prev[order[k]] = Od(k - 1)
          BY <1>9, <1>2
        <5>3. order[k] \in Rec
          BY <1>10, <1>2
        <5> QED BY <5>1, <5>2, <5>3, <3>3 DEF TypeOK
      <4>2. CASE k = p
        <5>1. order'[k] = order[p + 1] /\ Nw(k - 1) = order[p - 1]
          BY <4>2, <1>1, <1>2, <1>4, <3>1
        <5>2. order[p + 1] \in Rec
          BY <1>10, <1>1, <3>1
        <5> QED BY <5>1, <5>2, <3>3 DEF TypeOK
      <4>3. CASE k > p
        <5>1. order'[k] = order[k + 1] /\ order[k + 1] # order[p + 1] /\ Nw(k - 1) = order[k]
          <6>1. order'[k] = order[k + 1]
            BY <4>3, <1>1, <1>2, <1>4
          <6>2. p + 1 \in 1..n /\ k + 1 \in 1..n /\ p + 1 # k + 1
            BY <4>3, <1>1, <1>2, <3>1
          <6>3. k - 1 \in 1..(n - 1) /\ ~(k - 1 < p) /\ (k - 1) + 1 = k
            BY <4>3, <1>1, <1>2
          <6>4. order'[k - 1] = order[(k - 1) + 1]
            BY <6>3, <1>4
          <6> QED BY <6>1, <6>2, <6>3, <6>4, <1>6
        <5>2. prev[order[k + 1]] = order[k]
          BY <1>9, <1>2
        <5>3. order[k + 1] \in Rec
          BY <1>10, <1>2
        <5> QED BY <5>1, <5>2, <5>3, <3>3 DEF TypeOK
      <4> QED BY <4>1, <4>2, <4>3, <1>1, <1>2
    <3>7. order[p - 1] \in Rec /\ order[p + 1] \in Rec
      BY <1>10, <1>1, <3>1
    <3> QED BY <3>3, <3>4, <3>5, <3>6, <3>7 DEF TypeOK
  <2> QED BY <2>1, <2>2, <2>3, <2>4 DEF Remove
<1>12. Linked'
  BY <1>2, <1>4, <1>5, <1>7, <1>8, <1>11 DEF Linked, At
<1>13. count' \in Nat /\ live' \in SUBSET Rec
  BY <1>1, <1>2, <1>5 DEF TypeOK
<1> QED BY <1>3, <1>4, <1>11, <1>12, <1>13 DEF RemovedFacts

(***************************************************************************)
(* The invariant.                                                          *)
(***************************************************************************)

LEMMA InitInv == Init => IInv
BY DEF Init, IInv, TypeOK, Linked, Cursor, At

\* ha_reg_object puts the record in front of the order.
LEMMA RegisterStep ==
    ASSUME IInv, NEW r \in Rec, HaRegObject(r)
    PROVE  IInv'
<1> USE DEF IInv
<1> DEFINE n == Len(order)
<1>1. /\ order' \in Seq(Rec)
      /\ Len(order') = n + 1
      /\ order'[1] = r
      /\ \A k \in 1..n : order'[k + 1] = order[k]
  BY ConsFacts DEF HaRegObject, TypeOK
<1>2. n \in Nat /\ r \notin live /\ r # Null
  BY NullAssumption DEF HaRegObject, TypeOK
<1>3. \A k \in 1..n : order[k] \in live /\ order[k] \in Rec /\ order[k] # r
  BY <1>2 DEF Linked, TypeOK
<1>4. /\ next' = [next EXCEPT ![r] = head]
      /\ head # Null => prev' = [prev EXCEPT ![r] = Null, ![head] = r]
      /\ head = Null => prev' = [prev EXCEPT ![r] = Null]
      /\ head' = r /\ count' = count + 1 /\ live' = live \cup {r}
  BY DEF HaRegObject
<1>5. head = IF n = 0 THEN Null ELSE order[1]
  BY <1>2 DEF Linked, At
<1>6. TypeOK'
  BY <1>1, <1>4, <1>2 DEF HaRegObject, TypeOK
<1>7. \A k \in 2..(n + 1) : k - 1 \in 1..n /\ order'[k] = order[k - 1]
  <2> SUFFICES ASSUME NEW k \in 2..(n + 1)
               PROVE  k - 1 \in 1..n /\ order'[k] = order[k - 1]
    OBVIOUS
  <2>1. k - 1 \in 1..n /\ (k - 1) + 1 = k
    BY <1>2
  <2> QED BY <2>1, <1>1
<1>8. Linked'
  <2>1. live' = {order'[i] : i \in 1..(n + 1)}
    <3>1. ASSUME NEW x \in live PROVE \E k \in 1..(n + 1) : order'[k] = x
      <4>1. PICK k \in 1..n : order[k] = x
        BY DEF Linked
      <4>2. k + 1 \in 1..(n + 1)
        BY <1>2
      <4> QED BY <4>1, <4>2, <1>1
    <3>2. 1 \in 1..(n + 1)
      BY <1>2
    <3>3. ASSUME NEW k \in 1..(n + 1) PROVE order'[k] \in live'
      <4>1. CASE k = 1
        BY <4>1, <1>1, <1>4
      <4>2. CASE k # 1
        <5>1. k \in 2..(n + 1)
          BY <4>2, <1>2
        <5> QED BY <5>1, <1>3, <1>4, <1>7
      <4> QED BY <4>1, <4>2
    <3> QED BY <3>1, <3>2, <3>3, <1>1, <1>4
  <2>2. \A i, j \in 1..(n + 1) : i # j => order'[i] # order'[j]
    <3> SUFFICES ASSUME NEW i \in 1..(n + 1), NEW j \in 1..(n + 1), i # j
                 PROVE  order'[i] # order'[j]
      OBVIOUS
    <3>1. CASE i = 1
      BY SMTT(30), <3>1, <1>1, <1>2, <1>3, <1>7
    <3>2. CASE j = 1
      BY <3>2, <1>1, <1>2, <1>3, <1>7
    <3>3. CASE i # 1 /\ j # 1
      <4>1. i - 1 \in 1..n /\ j - 1 \in 1..n /\ i - 1 # j - 1
        BY <3>3, <1>2
      <4>2. order'[i] = order[i - 1] /\ order'[j] = order[j - 1]
        BY <3>3, <1>2, <1>7
      <4> QED BY <4>1, <4>2 DEF Linked
    <3> QED BY <3>1, <3>2, <3>3
  <2> DEFINE Nw(k) == IF k \in 1..(n + 1) THEN order'[k] ELSE Null
             Od(k) == IF k \in 1..n THEN order[k] ELSE Null
  <2>3. \A k \in 1..n : next[order[k]] = Od(k + 1) /\ prev[order[k]] = Od(k - 1)
    BY DEF Linked, At
  <2>4. \A k \in 2..(n + 2) : Nw(k) = Od(k - 1)
    <3> SUFFICES ASSUME NEW k \in 2..(n + 2) PROVE Nw(k) = Od(k - 1)
      OBVIOUS
    <3>1. CASE k \in 2..(n + 1)
      BY <3>1, <1>2, <1>7
    <3>2. CASE k = n + 2
      <4>1. k \notin 1..(n + 1) /\ k - 1 \notin 1..n
        BY <3>2, <1>2
      <4> QED BY <4>1
    <3> QED BY <3>1, <3>2, <1>2
  <2>5. ASSUME NEW k \in 1..(n + 1)
        PROVE  next'[order'[k]] = Nw(k + 1) /\ prev'[order'[k]] = Nw(k - 1)
    <3>1. CASE k = 1
      <4>1. next'[r] = head /\ prev'[r] = Null
        BY <1>2, <1>3, <1>4, <1>5 DEF TypeOK
      <4>2. 0 \notin 1..(n + 1) /\ Od(1) = head /\ Nw(2) = Od(1)
        <5>1. Nw(2) = Od(2 - 1)
          BY <2>4, <1>2
        <5> QED BY <5>1, <1>5, <1>2
      <4> QED BY <4>1, <4>2, <3>1, <1>1
    <3>2. CASE k # 1
      <4>1. k \in 2..(n + 1) /\ k - 1 \in 1..n /\ order'[k] = order[k - 1]
        BY <3>2, <1>2, <1>7
      <4>2. order[k - 1] \in Rec /\ order[k - 1] # r
        BY <4>1, <1>3
      <4>3. next'[order'[k]] = Od((k - 1) + 1)
        BY <4>1, <4>2, <1>4, <2>3 DEF TypeOK
      <4>4. k + 1 \in 2..(n + 2) /\ (k - 1) + 1 = k /\ (k + 1) - 1 = k
        BY <4>1, <1>2
      <4>5. Nw(k + 1) = Od(k)
        <5>1. Nw(k + 1) = Od((k + 1) - 1)
          BY <2>4, <4>4
        <5> QED BY <5>1, <4>4
      <4>6. head # Null
        BY <4>1, <1>2, <1>3, <1>5, NullAssumption
      <4>7. CASE k = 2
        <5>1. order[k - 1] = head /\ Nw(k - 1) = r
          BY <4>7, <4>1, <1>1, <1>2, <1>5
        <5> QED BY <5>1, <4>1, <4>2, <4>3, <4>4, <4>5, <4>6, <1>4 DEF TypeOK
      <4>8. CASE k # 2
        <5>1. k - 1 # 1 /\ 1 \in 1..n
          BY <4>8, <4>1, <1>2
        <5>2. order[k - 1] # head
          BY <5>1, <4>1, <1>5, <1>2 DEF Linked
        <5>3. prev'[order'[k]] = prev[order[k - 1]]
          BY <5>2, <4>1, <4>2, <4>6, <1>4 DEF TypeOK
        <5>4. prev[order[k - 1]] = Od((k - 1) - 1)
          BY <4>1, <2>3
        <5>5. Nw(k - 1) = Od((k - 1) - 1)
          <6>1. k - 1 \in 2..(n + 2)
            BY <4>1, <5>1, <1>2
          <6> QED BY <6>1, <2>4
        <5> QED BY <5>3, <5>4, <5>5, <4>3, <4>4, <4>5
      <4> QED BY <4>7, <4>8
    <3> QED BY <3>1, <3>2
  <2>6. count' = n + 1
    BY <1>4 DEF Linked
  <2> QED BY <2>1, <2>2, <2>5, <2>6, <1>1, <1>2, <1>4 DEF Linked, At
<1>9. Cursor'
  BY DEF HaRegObject, Cursor
<1> QED BY <1>6, <1>8, <1>9

\* Whatever position p a static prefix reaches, the record at the end of it is
\* live, or the list is at its end.
LEMMA CursorLive ==
    ASSUME TypeOK, Linked, NEW i \in 1..(Len(order) + 1), cur = At(i), cur # Null
    PROVE  i \in 1..Len(order) /\ cur = order[i] /\ cur \in live
           /\ Pos(cur) = i /\ next[cur] = At(i + 1) /\ prev[cur] = At(i - 1)
<1>1. i \in 1..Len(order) /\ cur = order[i]
  BY DEF At
<1>2. cur \in live
  BY <1>1 DEF Linked
<1>3. Pos(cur) = i
  BY <1>1, <1>2, PosFacts DEF Linked
<1> QED BY <1>1, <1>2, <1>3 DEF Linked

\* The heap object at the head is removed: the cursor is the new head.
LEMMA CleanFirstStep ==
    ASSUME IInv, CleanFirst
    PROVE  IInv'
<1>1. TypeOK /\ Linked /\ Cursor /\ pc = "first" /\ cur # Null /\ Remove(cur)
  BY DEF IInv, CleanFirst
<1>2. cur = At(1)
  BY <1>1 DEF Cursor
<1>3. 1 \in 1..(Len(order) + 1)
  BY <1>1 DEF TypeOK
<1>4. cur \in live
  BY <1>1, <1>2, <1>3, CursorLive
<1>5. RemovedFacts(cur)
  BY <1>1, <1>4, RemoveFacts
<1>6. TypeOK'
  BY <1>1, <1>5 DEF CleanFirst, TypeOK, RemovedFacts
<1>7. Linked' /\ cur' = head'
  BY <1>5 DEF CleanFirst, RemovedFacts
<1>8. Cursor'
  BY <1>1, <1>7 DEF CleanFirst, Cursor, Linked
<1> QED BY <1>6, <1>7, <1>8 DEF IInv

\* The heap object behind a static prefix is removed: the cursor is the record
\* that takes its place.
LEMMA CleanRemoveStep ==
    ASSUME IInv, CleanRemove
    PROVE  IInv'
<1> DEFINE n == Len(order)
<1>1. TypeOK /\ Linked /\ Cursor /\ pc = "loop" /\ cur # Null /\ Dynamic[cur] /\ Remove(cur)
  BY DEF IInv, CleanRemove
<1>2. n \in Nat
  BY <1>1 DEF TypeOK
<1>3. PICK i \in 1..(n + 1) : cur = At(i) /\ \A j \in 1..(i - 1) : StaticAt(j)
  BY <1>1 DEF Cursor
<1>4. /\ i \in 1..n /\ cur = order[i] /\ cur \in live
      /\ Pos(cur) = i /\ prev[cur] = At(i - 1)
  BY <1>1, <1>3, CursorLive
<1>5. order # <<>>
  BY <1>4, <1>2
<1>6. i # 1
  BY <1>1, <1>4, <1>5 DEF Cursor, StaticAt
<1>7. i - 1 \in 1..n /\ prev[cur] = order[i - 1]
  BY <1>4, <1>6, <1>2 DEF At
<1>8. /\ RemovedFacts(cur)
      /\ order' = Without(order, i)
  BY <1>1, <1>4, RemoveFacts DEF RemovedFacts
<1>9. /\ Len(order') = n - 1
      /\ \A k \in 1..(n - 1) : order'[k] = IF k < i THEN order[k] ELSE order[k + 1]
  BY <1>1, <1>4, <1>8, WithoutFacts DEF TypeOK
<1>10. i - 1 \in 1..(n - 1) /\ order'[i - 1] = order[i - 1]
  BY <1>9, <1>7, <1>4, <1>2
<1>11. cur' = At(i)'
  <2>1. next'[order'[i - 1]] = At((i - 1) + 1)'
    BY <1>8, <1>9, <1>10 DEF RemovedFacts, Linked
  <2>2. (i - 1) + 1 = i
    BY <1>4
  <2> QED BY <2>1, <2>2, <1>7, <1>10 DEF CleanRemove
<1>12. \A j \in 1..(i - 1) : StaticAt(j)'
  BY <1>3, <1>4, <1>9, <1>2 DEF StaticAt
<1>13. TypeOK'
  <2>1. cur' \in Rec \cup {Null}
    BY <1>8, <1>11 DEF At, RemovedFacts
  <2> QED BY <2>1, <1>1, <1>8 DEF CleanRemove, TypeOK, RemovedFacts
<1>14. Cursor'
  <2>1. pc' = "loop"
    BY <1>1 DEF CleanRemove
  <2>2. i \in 1..(Len(order') + 1)
    BY <1>4, <1>9, <1>2
  <2>3. 1 \in 1..(i - 1)
    BY <1>4, <1>6, <1>2
  <2> QED BY <2>1, <2>2, <2>3, <1>11, <1>12 DEF Cursor
<1> QED BY <1>8, <1>13, <1>14 DEF IInv, RemovedFacts

\* The steps that change neither the list nor the cursor's part of it.
LEMMA WalkStep ==
    ASSUME IInv, CleanFirstDone \/ CleanKeep \/ CleanLoopDone \/ CleanReset \/ CleanReturn
    PROVE  IInv'
<1> DEFINE n == Len(order)
<1>1. TypeOK /\ Linked /\ Cursor /\ n \in Nat
  BY DEF IInv, TypeOK
<1>2. CASE CleanFirstDone
  <2>1. 1 \in 1..(n + 1) /\ cur = At(1)
    BY <1>1, <1>2 DEF Cursor, CleanFirstDone
  <2>2. order # <<>> => StaticAt(1)
    <3>1. SUFFICES ASSUME order # <<>> PROVE StaticAt(1)
      OBVIOUS
    <3>2. 1 \in 1..n
      BY <3>1, <1>1 DEF TypeOK
    <3>3. cur = order[1] /\ cur # Null
      BY <3>2, <2>1, <1>1, NullAssumption DEF At, TypeOK
    <3> QED BY <3>3, <1>2 DEF CleanFirstDone, StaticAt
  <2>3. 1..(1 - 1) = {}
    OBVIOUS
  <2>4. Cursor'
    BY <2>1, <2>2, <2>3, <1>2 DEF Cursor, CleanFirstDone, links, At, StaticAt
  <2> QED BY <2>4, <1>1, <1>2 DEF CleanFirstDone, links, IInv, TypeOK, Linked, At
<1>3. CASE CleanKeep
  <2>1. PICK i \in 1..(n + 1) : cur = At(i) /\ \A j \in 1..(i - 1) : StaticAt(j)
    BY <1>1, <1>3 DEF Cursor, CleanKeep
  <2>2. i \in 1..n /\ cur = order[i] /\ next[cur] = At(i + 1)
    BY <1>1, <1>3, <2>1, CursorLive DEF CleanKeep
  <2>3. \A j \in 1..((i + 1) - 1) : StaticAt(j)
    BY <1>3, <2>1, <2>2 DEF CleanKeep, StaticAt
  <2>4. i + 1 \in 1..(n + 1) /\ cur' = At(i + 1)
    BY <2>2, <1>1, <1>3 DEF CleanKeep
  <2>5. Cursor'
    BY <2>3, <2>4, <1>1, <1>3 DEF Cursor, CleanKeep, links, At, StaticAt
  <2> QED BY <2>5, <1>1, <1>3 DEF CleanKeep, links, IInv, TypeOK, Linked, At
<1>4. CASE CleanLoopDone
  <2>1. PICK i \in 1..(n + 1) : cur = At(i) /\ \A j \in 1..(i - 1) : StaticAt(j)
    BY <1>1, <1>4 DEF Cursor, CleanLoopDone
  <2>2. i \notin 1..n
    BY <1>1, <1>4, <2>1, NullAssumption DEF CleanLoopDone, At, TypeOK
  <2>3. \A j \in 1..n : StaticAt(j)
    BY <2>1, <2>2, <1>1
  <2>4. 1 \in 1..(n + 1) /\ head = At(1) /\ 1..(1 - 1) = {}
    BY <1>1 DEF Linked
  <2>5. Cursor'
    BY <2>3, <2>4, <1>4 DEF Cursor, CleanLoopDone, links, At, StaticAt
  <2> QED BY <2>5, <1>1, <1>4 DEF CleanLoopDone, links, IInv, TypeOK, Linked, At
<1>5. CASE CleanReset
  <2>1. PICK i \in 1..(n + 1) : cur = At(i) /\ \A j \in 1..(i - 1) : order[j] \in zeroed
    BY <1>1, <1>5 DEF Cursor, CleanReset
  <2>2. i \in 1..n /\ cur = order[i] /\ next[cur] = At(i + 1)
    BY <1>1, <1>5, <2>1, CursorLive DEF CleanReset
  <2>3. \A j \in 1..((i + 1) - 1) : order[j] \in zeroed'
    BY <1>5, <2>1, <2>2 DEF CleanReset
  <2>4. i + 1 \in 1..(n + 1) /\ cur' = At(i + 1)
    BY <2>2, <1>1, <1>5 DEF CleanReset
  <2>5. Cursor'
    BY <2>3, <2>4, <1>1, <1>5 DEF Cursor, CleanReset, links, At, StaticAt
  <2> QED BY <2>5, <1>1, <1>5 DEF CleanReset, links, IInv, TypeOK, Linked, At
<1>6. CASE CleanReturn
  BY <1>1, <1>6 DEF CleanReturn, links, IInv, TypeOK, Linked, At, Cursor
<1> QED BY <1>2, <1>3, <1>4, <1>5, <1>6

\* The lookups.
LEMMA LookupInv ==
    ASSUME IInv, LookupStart \/ LookupStep
    PROVE  IInv'
<1> DEFINE n == Len(order)
<1>1. TypeOK /\ Linked /\ Cursor /\ n \in Nat
  BY DEF IInv, TypeOK
<1>2. CASE LookupStart
  <2>1. count = n /\ n - count + 1 = 1
    BY <1>1 DEF Linked
  <2> QED BY <2>1, <1>1, <1>2 DEF LookupStart, links, IInv, TypeOK, Linked, At, Cursor
<1>3. CASE LookupNext
  <2> DEFINE i == n - left + 1
  <2>1. left \in 1..n /\ cur = At(i)
    BY <1>1, <1>3 DEF LookupNext, Cursor, TypeOK
  <2>2. i \in 1..n /\ n - (left - 1) + 1 = i + 1 /\ left - 1 \in Nat /\ left - 1 <= n
    BY <2>1, <1>1
  <2>3. cur = order[i]
    BY <2>1, <2>2 DEF At
  <2>4. cur' = At(i + 1)
    BY <1>1, <1>3, <2>2, <2>3 DEF LookupNext, Linked
  <2>5. cur' \in Rec \cup {Null}
    BY <2>4, <1>1 DEF At, TypeOK
  <2>6. TypeOK' /\ Linked'
    BY <2>2, <2>5, <1>1, <1>3 DEF LookupNext, links, TypeOK, Linked, At
  <2>7. pc' = "lookup" /\ left' = left - 1 /\ order' = order
    BY <1>3 DEF LookupNext, links
  <2>8. left' <= Len(order') /\ Len(order') - left' + 1 = i + 1
    BY <2>2, <2>7
  <2>9. Cursor'
    BY <2>4, <2>7, <2>8 DEF Cursor, At
  <2> QED BY <2>6, <2>9 DEF IInv
<1>4. CASE LookupReturn
  BY <1>1, <1>4 DEF LookupReturn, links, IInv, TypeOK, Linked, At, Cursor
<1> QED BY <1>2, <1>3, <1>4 DEF LookupStep

LEMMA InvStep == IInv /\ [Next]_vars => IInv'
<1> SUFFICES ASSUME IInv, [Next]_vars PROVE IInv'
  OBVIOUS
<1>1. TypeOK /\ Linked /\ Cursor
  BY DEF IInv
<1>2. ASSUME NEW r \in Rec, HaRegObject(r) PROVE IInv'
  BY <1>2, RegisterStep
<1>3. ASSUME NEW r \in Rec, Write(r) PROVE IInv'
  BY <1>1, <1>3 DEF Write, links, IInv, TypeOK, Linked, At, Cursor
<1>4. ASSUME NEW r \in Rec, HaFree(r) PROVE IInv'
  <2>1. r \in live /\ Remove(r) /\ pc = "idle" /\ UNCHANGED <<zeroed, pc, cur, left>>
    BY <1>4 DEF HaFree
  <2>2. RemovedFacts(r)
    BY <1>1, <2>1, RemoveFacts
  <2> QED BY <1>1, <2>1, <2>2 DEF RemovedFacts, IInv, TypeOK, Cursor
<1>5. CASE LookupStart \/ LookupStep
  BY <1>5, LookupInv
<1>6. CASE CleanStart
  BY <1>1, <1>6 DEF CleanStart, links, IInv, TypeOK, Linked, At, Cursor
<1>7. CASE CleanStep
  BY <1>7, CleanFirstStep, CleanRemoveStep, WalkStep DEF CleanStep
<1>8. CASE UNCHANGED vars
  BY <1>1, <1>8 DEF vars, links, IInv, TypeOK, Linked, At, Cursor, StaticAt
<1> QED BY <1>2, <1>3, <1>4, <1>5, <1>6, <1>7, <1>8 DEF Next

(***************************************************************************)
(* Theorems.                                                               *)
(***************************************************************************)

\* The inductive invariant holds for every set of records and every sequence
\* of registrations, removals, lookups and cleans.
THEOREM Invariance == Spec => []IInv
BY InitInv, InvStep, PTL DEF Spec

\* Every variable of the database stays in its set.
THEOREM TypeCorrect == Spec => []TypeOK
<1>1. IInv => TypeOK
  BY DEF IInv
<1> QED BY <1>1, Invariance, PTL

\* The doubly linked list is well formed after every call and after every turn
\* of a clean (ha_reg_object, tha_remove_object_db_rec).
THEOREM LinkedHolds == Spec => []Linked
<1>1. IInv => Linked
  BY DEF IInv
<1> QED BY <1>1, Invariance, PTL

\* No lookup and no loop of a clean ever reads a record that was freed.
THEOREM NoStaleCursorHolds == Spec => []NoStaleCursor
<1>1. IInv => NoStaleCursor
  <2> SUFFICES ASSUME IInv PROVE NoStaleCursor
    OBVIOUS
  <2>1. TypeOK /\ Linked /\ Cursor /\ Len(order) \in Nat
    BY DEF IInv, TypeOK
  <2>2. cur # Null => \E i \in 1..(Len(order) + 1) : cur = At(i)
    <3>1. CASE pc = "lookup"
      <4>1. Len(order) - left + 1 \in 1..(Len(order) + 1)
        BY <3>1, <2>1 DEF Cursor, TypeOK
      <4> QED BY <4>1, <3>1, <2>1 DEF Cursor
    <3>2. CASE pc = "first"
      <4>1. 1 \in 1..(Len(order) + 1)
        BY <2>1
      <4> QED BY <4>1, <3>2, <2>1 DEF Cursor
    <3>3. CASE pc \in {"idle", "loop", "reset"}
      BY <3>3, <2>1 DEF Cursor
    <3> QED BY <3>1, <3>2, <3>3, <2>1 DEF TypeOK
  <2>3. cur # Null => cur \in live
    BY <2>1, <2>2, CursorLive
  <2>4. pc = "lookup" /\ left > 0 => cur # Null
    <3> SUFFICES ASSUME pc = "lookup", left > 0 PROVE cur # Null
      OBVIOUS
    <3>1. Len(order) - left + 1 \in 1..Len(order)
      BY <2>1 DEF Cursor, TypeOK
    <3>2. cur \in Rec
      BY <3>1, <2>1 DEF Cursor, At, TypeOK
    <3> QED BY <3>2, NullAssumption
  <2> QED BY <2>3, <2>4 DEF NoStaleCursor
<1> QED BY <1>1, Invariance, PTL

\* When a clean has gone through the list, no heap object is left in it and
\* every object that is was reset.
THEOREM CleanLeavesHolds == Spec => []CleanLeaves
<1>1. IInv => CleanLeaves
  <2> SUFFICES ASSUME IInv, pc = "reset", cur = Null,
                      NEW k \in 1..Len(order)
               PROVE  ~Dynamic[order[k]] /\ order[k] \in zeroed
    BY DEF CleanLeaves
  <2>1. TypeOK /\ Cursor /\ Len(order) \in Nat
    BY DEF IInv, TypeOK
  <2>2. PICK i \in 1..(Len(order) + 1) :
            cur = At(i) /\ \A j \in 1..(i - 1) : order[j] \in zeroed
    BY <2>1 DEF Cursor
  <2>3. i \notin 1..Len(order)
    BY <2>1, <2>2, NullAssumption DEF At, TypeOK
  <2>4. k \in 1..(i - 1)
    BY <2>1, <2>2, <2>3
  <2> QED BY <2>1, <2>2, <2>4 DEF Cursor, StaticAt
<1> QED BY <1>1, Invariance, PTL
(***************************************************************************)
(* The database implements the directory.                                  *)
(***************************************************************************)

LessThan == {ss \in Nat \X Nat : ss[1] < ss[2]}

\* A nonempty set of natural numbers has a least element.
LEMMA LeastNumber ==
    ASSUME NEW T, T \subseteq Nat, T # {}
    PROVE  \E x \in T : \A y \in T : x <= y
<1>1. IsWellFoundedOn(LessThan, Nat)
  BY NatLessThanWellFounded DEF OpToRel, LessThan
<1>2. PICK x \in T : \A y \in T : ~(<<y, x>> \in LessThan)
  BY <1>1, WFMin
<1>3. \A y \in T : ~(y < x)
  BY <1>2 DEF LessThan
<1> QED BY <1>3

\* The equation that the walk along next is defined by.
IsWalk(f) == f = [i \in 1..count |-> IF i = 1 THEN head
                                     ELSE IF f[i - 1] = Null THEN Null
                                     ELSE next[f[i - 1]]]

\* In a well-formed list the walk finds the records in their order: order is a
\* solution of its equation, and there is no other, since two solutions cannot
\* differ at a first position.
LEMMA WalkIsOrder ==
    ASSUME TypeOK, Linked
    PROVE  Walk = order
<1> DEFINE n == Len(order)
<1>1. order \in Seq(Rec) /\ n \in Nat /\ count = n
  BY DEF TypeOK, Linked
<1>2. order = [i \in 1..n |-> order[i]]
  BY <1>1
<1>3. ASSUME NEW i \in 1..n
      PROVE  order[i] = IF i = 1 THEN head
                        ELSE IF order[i - 1] = Null THEN Null ELSE next[order[i - 1]]
  <2>1. CASE i = 1
    BY <2>1, <1>1 DEF Linked, At
  <2>2. CASE i # 1
    <3>1. i - 1 \in 1..n /\ (i - 1) + 1 = i
      BY <2>2, <1>1
    <3>2. next[order[i - 1]] = At((i - 1) + 1)
      BY <3>1 DEF Linked
    <3>3. order[i - 1] # Null
      BY <3>1, <1>1, NullAssumption
    <3> QED BY <2>2, <3>1, <3>2, <3>3 DEF At
  <2> QED BY <2>1, <2>2
<1>4. IsWalk(order)
  BY <1>1, <1>2, <1>3 DEF IsWalk
<1>5. Walk = CHOOSE f : IsWalk(f)
  BY DEF Walk, IsWalk
<1>6. IsWalk(Walk)
  BY <1>4, <1>5
<1> DEFINE w == Walk
           D == {i \in 1..n : w[i] # order[i]}
<1>7. /\ w = [i \in 1..n |-> w[i]]
      /\ \A i \in 1..n : w[i] = IF i = 1 THEN head
                                ELSE IF w[i - 1] = Null THEN Null ELSE next[w[i - 1]]
  <2> HIDE DEF w
  <2>1. IsWalk(w)
    BY <1>6 DEF w
  <2> QED BY <2>1, <1>1 DEF IsWalk
<1> HIDE DEF w
<1>8. D = {}
  <2>1. SUFFICES ASSUME D # {} PROVE FALSE
    OBVIOUS
  <2>2. D \subseteq Nat
    BY <1>1
  <2>3. PICK i \in D : \A j \in D : i <= j
    <3> HIDE DEF D
    <3> QED BY <2>1, <2>2, LeastNumber
  <2>4. i \in 1..n /\ w[i] # order[i]
    OBVIOUS
  <2>5. i # 1
    BY <2>4, <1>3, <1>7
  <2>6. i - 1 \in 1..n /\ i - 1 \notin D
    BY <2>3, <2>4, <2>5, <1>1
  <2>7. w[i - 1] = order[i - 1]
    BY <2>6
  <2> QED BY <2>4, <2>5, <2>7, <1>3, <1>7
<1>9. \A i \in 1..n : w[i] = order[i]
  BY <1>8
<1>10. w = [i \in 1..n |-> order[i]]
  BY <1>7, <1>9
<1> QED BY <1>2, <1>10 DEF w

\* What the walk finds, and the other variable of the directory.
WalkedAll == Walk = order
Cleaning == pc \in {"first", "loop", "reset"}

\* Taking out a record, by any of the four branches, is Unregister.
LEMMA RemoveMaps ==
    ASSUME IInv, Walk = order, Walk' = order', NEW r \in live, Remove(r), Dynamic[r],
           Cleaning' = Cleaning
    PROVE  \E i \in 1..Len(Walk) : Dir!Unregister(i)
<1>1. TypeOK /\ Linked /\ Walk = order /\ Walk' = order'
  BY DEF IInv
<1>2. Pos(r) \in 1..Len(order) /\ order[Pos(r)] = r
  BY <1>1, PosFacts
<1>3. order' = Without(order, Pos(r))
  BY <1>1, RemoveFacts DEF RemovedFacts
<1>4. Dir!Unregister(Pos(r))
  BY <1>1, <1>2, <1>3 DEF Dir!Unregister, Dir!Without, Without, Cleaning
<1> QED BY <1>1, <1>2, <1>4

\* Registrations map to Register, removals to Unregister, the start and the end
\* of a clean to CleanBegin and CleanEnd, and the turns of the loops, lookups and
\* stores into objects to nothing.
LEMMA MapsToDirectory ==
    ASSUME IInv, Walk = order, Walk' = order', [Next]_vars
    PROVE  [Dir!DirNext]_(Dir!dirVars)
<1>1. TypeOK /\ Linked /\ Cursor /\ Walk = order /\ Walk' = order'
  BY DEF IInv
<1>2. ASSUME order' = order, Cleaning' = Cleaning PROVE UNCHANGED Dir!dirVars
  BY <1>1, <1>2 DEF Dir!dirVars, Cleaning
<1>3. ASSUME NEW r \in Rec, HaRegObject(r) PROVE Dir!DirNext
  <2>1. \A i \in 1..Len(order) : order[i] # r
    BY <1>1, <1>3 DEF HaRegObject, Linked
  <2>2. Dir!Register(r)
    BY <1>1, <1>3, <2>1 DEF HaRegObject, Dir!Register
  <2> QED BY <2>2 DEF Dir!DirNext
<1>4. ASSUME NEW r \in Rec, Write(r) PROVE order' = order /\ Cleaning' = Cleaning
  BY <1>4 DEF Write, links, Cleaning
<1>5. ASSUME NEW r \in Rec, HaFree(r) PROVE Dir!DirNext
  <2>1. r \in live /\ Remove(r) /\ Dynamic[r] /\ Cleaning' = Cleaning
    BY <1>5 DEF HaFree, Cleaning
  <2> QED BY <2>1, RemoveMaps DEF Dir!DirNext
<1>6. CASE LookupStart \/ LookupStep
  <2>1. order' = order /\ Cleaning' = Cleaning
    BY <1>6 DEF LookupStart, LookupStep, LookupNext, LookupReturn, links, Cleaning
  <2> QED BY <2>1, <1>2
<1>7. CASE CleanStart
  BY <1>1, <1>7 DEF CleanStart, links, Dir!DirNext, Dir!CleanBegin
<1>8. CASE CleanFirst \/ CleanRemove
  <2>1. Remove(cur) /\ Dynamic[cur] /\ Cleaning' = Cleaning
    BY <1>8 DEF CleanFirst, CleanRemove, Cleaning
  <2>2. cur \in live
    <3>1. cur # Null /\ \E i \in 1..(Len(order) + 1) : cur = At(i)
      <4>1. 1 \in 1..(Len(order) + 1)
        BY <1>1 DEF TypeOK
      <4> QED BY <4>1, <1>1, <1>8 DEF CleanFirst, CleanRemove, Cursor
    <3> QED BY <3>1, <1>1, CursorLive
  <2> QED BY <2>1, <2>2, RemoveMaps DEF Dir!DirNext
<1>9. CASE CleanFirstDone \/ CleanKeep \/ CleanLoopDone \/ CleanReset
  <2>1. order' = order /\ Cleaning' = Cleaning
    BY <1>9 DEF CleanFirstDone, CleanKeep, CleanLoopDone, CleanReset, links, Cleaning
  <2> QED BY <2>1, <1>2
<1>10. CASE CleanReturn
  <2>1. \A i \in 1..Len(order) : ~Dynamic[order[i]]
    BY <1>1, <1>10 DEF CleanReturn, Cursor, StaticAt
  <2>2. order' = order /\ pc = "reset" /\ pc' = "idle"
    BY <1>10 DEF CleanReturn, links
  <2>3. Dir!CleanEnd
    BY <1>1, <2>1, <2>2 DEF Dir!CleanEnd
  <2> QED BY <2>3 DEF Dir!DirNext
<1>11. CASE UNCHANGED vars
  <2>1. order' = order /\ Cleaning' = Cleaning
    BY <1>11 DEF vars, Cleaning
  <2> QED BY <2>1, <1>2
<1> QED BY <1>2, <1>3, <1>4, <1>5, <1>6, <1>7, <1>8, <1>9, <1>10, <1>11 DEF Next, CleanStep

\* What any walk of count records along next finds behaves as the directory:
\* nothing is lost or moved but by the call that asks for it, and a clean
\* ends with no heap object in it.
THEOREM RefinesDirectory == Spec => ImplementsDirectory
<1>1. Init => Dir!DirInit
  <2> SUFFICES ASSUME Init PROVE Dir!DirInit
    OBVIOUS
  <2>1. IInv
    BY InitInv
  <2>2. Walk = order
    BY <2>1, WalkIsOrder DEF IInv
  <2> QED BY <2>2 DEF Init, Dir!DirInit
<1>2. IInv => WalkedAll
  BY WalkIsOrder DEF IInv, WalkedAll
<1>3. IInv /\ WalkedAll /\ WalkedAll' /\ [Next]_vars => [Dir!DirNext]_(Dir!dirVars)
  BY MapsToDirectory DEF WalkedAll
<1> QED BY <1>1, <1>2, <1>3, Invariance, PTL DEF Spec, ImplementsDirectory, Dir!DirSpec
=============================================================================
