--------------------------- MODULE Receiver_proofs ---------------------------
(***************************************************************************)
(* Lemmas about the operators of Receiver: what each handler does to the   *)
(* records of the machine that takes the message, and what a sequence of   *)
(* messages does to it.  The handlers are stated by what a lookup finds    *)
(* before and after, so that nobody who cites them needs to look into the  *)
(* list.                                                                   *)
(*                                                                         *)
(* The induction theorems of the library take a predicate as a parameter.  *)
(* The lemmas on sequences of messages go through a set instead: the set   *)
(* of the numbers for which a statement holds contains 0 and the successor *)
(* of each of its elements, so it has no least element outside.            *)
(***************************************************************************)
EXTENDS Receiver, FiniteSetTheorems, SequenceTheorems, WellFoundedInduction, TLAPS

(***************************************************************************)
(* Induction.                                                              *)
(***************************************************************************)

LessThan == {ss \in Nat \X Nat : ss[1] < ss[2]}

\* The order of the natural numbers is well founded.
LEMMA LessThanWellFounded == IsWellFoundedOn(LessThan, Nat)
BY NatLessThanWellFounded DEF OpToRel, LessThan

\* A nonempty set of natural numbers has a least element.
LEMMA LeastNumber ==
    ASSUME NEW T, T \subseteq Nat, T # {}
    PROVE  \E x \in T : \A y \in T : x <= y
<1>1. PICK x \in T : \A y \in T : ~(<<y, x>> \in LessThan)
  BY LessThanWellFounded, WFMin
<1>2. \A y \in T : ~(y < x)
  BY <1>1 DEF LessThan
<1> QED BY <1>2

\* Induction, over the set of numbers that have a property.
LEMMA NatSetInduction ==
    ASSUME NEW S, 0 \in S, \A n \in Nat : n \in S => n + 1 \in S
    PROVE  Nat \subseteq S
<1> DEFINE T == Nat \ S
<1>1. SUFFICES ASSUME T # {} PROVE FALSE
  OBVIOUS
<1>2. PICK x \in T : \A y \in T : x <= y
  <2>1. T \subseteq Nat
    OBVIOUS
  <2> HIDE DEF T
  <2> QED BY <1>1, <2>1, LeastNumber
<1>3. x # 0 /\ x - 1 \in Nat
  OBVIOUS
<1>4. x - 1 \in T
  <2>1. (x - 1) + 1 = x
    OBVIOUS
  <2> QED BY <1>3, <2>1
<1> QED BY <1>2, <1>3, <1>4

\* Min and Max of a nonempty set of positions.
LEMMA MinFacts ==
    ASSUME NEW n \in Nat, NEW S, S \subseteq 1..n, S # {}
    PROVE  Min(S) \in S /\ \A x \in S : Min(S) <= x
<1>1. S \subseteq Nat
  OBVIOUS
<1>2. \E x \in S : \A y \in S : x <= y
  BY <1>1, LeastNumber
<1> QED BY <1>2 DEF Min

LEMMA MaxFacts ==
    ASSUME NEW n \in Nat, NEW S, S \subseteq 1..n, S # {}
    PROVE  Max(S) \in S /\ \A x \in S : Max(S) >= x
<1> DEFINE T == {k \in Nat : n - k \in S}
<1>1. T # {}
  <2>1. PICK x \in S : TRUE
    OBVIOUS
  <2>2. n - x \in Nat /\ n - (n - x) = x
    BY <2>1
  <2> QED BY <2>1, <2>2
<1>2. PICK k \in T : \A y \in T : k <= y
  <2>1. T \subseteq Nat
    OBVIOUS
  <2> HIDE DEF T
  <2> QED BY <1>1, <2>1, LeastNumber
<1>3. ASSUME NEW y \in S PROVE n - k >= y
  <2>1. n - y \in T
    <3>1. n - y \in Nat /\ n - (n - y) = y
      OBVIOUS
    <3> QED BY <3>1
  <2>2. k <= n - y /\ k \in Nat /\ y \in 1..n
    BY <1>2, <2>1
  <2> QED BY <2>2
<1>4. \E x \in S : \A y \in S : x >= y
  BY <1>2, <1>3
<1> QED BY <1>4 DEF Max

(***************************************************************************)
(* Sequences of messages.                                                  *)
(***************************************************************************)

\* state is what After builds: the states that s goes through.
States(state, s, msgs) ==
    state = [n \in 0..Len(msgs) |-> IF n = 0 THEN s ELSE Deliver(state[n - 1], msgs[n])]

\* The recursion of After is well defined.
LEMMA StatesExist ==
    ASSUME NEW s, NEW msgs, Len(msgs) \in Nat
    PROVE  \E state : States(state, s, msgs)
<1> DEFINE Upto(f, k) == f = [n \in 0..k |-> IF n = 0 THEN s ELSE Deliver(f[n - 1], msgs[n])]
           S == {k \in Nat : \E f : Upto(f, k)}
<1>1. 0 \in S
  <2>1. Upto([n \in 0..0 |-> s], 0)
    OBVIOUS
  <2> QED BY <2>1
<1>2. ASSUME NEW k \in Nat, k \in S PROVE k + 1 \in S
  <2>1. PICK f : Upto(f, k)
    BY <1>2
  <2> DEFINE g == [n \in 0..(k + 1) |-> IF n = k + 1 THEN Deliver(f[k], msgs[k + 1]) ELSE f[n]]
  <2>2. \A n \in 0..k : g[n] = f[n]
    OBVIOUS
  <2>3. Upto(g, k + 1)
    <3> SUFFICES ASSUME NEW n \in 0..(k + 1)
                 PROVE  g[n] = IF n = 0 THEN s ELSE Deliver(g[n - 1], msgs[n])
      BY Zenon DEF g
    <3>1. CASE n = 0
      BY <2>1, <2>2, <3>1
    <3>2. CASE n \in 1..k
      BY <2>1, <2>2, <3>2
    <3>3. CASE n = k + 1
      BY <2>2, <3>3
    <3> QED BY <3>1, <3>2, <3>3
  <2> HIDE DEF g, Upto
  <2> QED BY <2>3
<1>3. Nat \subseteq S
  <2> HIDE DEF S
  <2> QED BY <1>1, <1>2, NatSetInduction
<1> QED BY <1>3 DEF States

\* After is the last of a sequence of states, each of which follows from the
\* one before.
LEMMA AfterStates ==
    ASSUME NEW s, NEW msgs, Len(msgs) \in Nat
    PROVE  \E state : /\ After(s, msgs) = state[Len(msgs)]
                      /\ state[0] = s
                      /\ \A n \in 1..Len(msgs) : state[n] = Deliver(state[n - 1], msgs[n])
<1> DEFINE state == CHOOSE f : States(f, s, msgs)
<1>1. States(state, s, msgs)
  BY StatesExist
<1>2. After(s, msgs) = state[Len(msgs)]
  BY DEF After, States
<1> HIDE DEF state
<1>3. state[0] = s /\ \A n \in 1..Len(msgs) : state[n] = Deliver(state[n - 1], msgs[n])
  BY <1>1 DEF States
<1> QED BY <1>2, <1>3

\* And there is only one such sequence.
LEMMA AfterIs ==
    ASSUME NEW s, NEW msgs, Len(msgs) \in Nat, NEW state, state[0] = s,
           \A n \in 1..Len(msgs) : state[n] = Deliver(state[n - 1], msgs[n])
    PROVE  After(s, msgs) = state[Len(msgs)]
<1>1. PICK other : /\ After(s, msgs) = other[Len(msgs)]
                   /\ other[0] = s
                   /\ \A n \in 1..Len(msgs) : other[n] = Deliver(other[n - 1], msgs[n])
  BY AfterStates
<1> DEFINE S == {n \in Nat : n <= Len(msgs) => other[n] = state[n]}
<1>2. 0 \in S
  BY <1>1
<1>3. ASSUME NEW n \in Nat, n \in S PROVE n + 1 \in S
  <2>1. CASE n + 1 <= Len(msgs)
    <3>1. n + 1 \in 1..Len(msgs) /\ (n + 1) - 1 = n
      BY <2>1
    <3>2. other[n + 1] = Deliver(other[n], msgs[n + 1]) /\ state[n + 1] = Deliver(state[n], msgs[n + 1])
      BY <1>1, <3>1
    <3>3. other[n] = state[n]
      BY <1>3, <2>1
    <3> QED BY <3>2, <3>3
  <2> QED BY <2>1
<1>4. Nat \subseteq S
  <2> HIDE DEF S
  <2> QED BY <1>2, <1>3, NatSetInduction
<1> QED BY <1>1, <1>4

LEMMA AfterEmpty ==
    ASSUME NEW s
    PROVE  After(s, <<>>) = s
<1>1. Len(<<>>) = 0
  OBVIOUS
<1> QED BY <1>1, AfterStates

\* A family of sets of states that the messages lead through.
LEMMA AfterStays ==
    ASSUME NEW s, NEW msgs, Len(msgs) \in Nat, NEW good, s \in good[0],
           \A n \in 1..Len(msgs) : \A t \in good[n - 1] : Deliver(t, msgs[n]) \in good[n]
    PROVE  After(s, msgs) \in good[Len(msgs)]
<1>1. PICK state : /\ After(s, msgs) = state[Len(msgs)]
                   /\ state[0] = s
                   /\ \A n \in 1..Len(msgs) : state[n] = Deliver(state[n - 1], msgs[n])
  BY AfterStates
<1> DEFINE S == {n \in Nat : n <= Len(msgs) => state[n] \in good[n]}
<1>2. 0 \in S
  BY <1>1
<1>3. ASSUME NEW n \in Nat, n \in S PROVE n + 1 \in S
  <2>1. CASE n + 1 <= Len(msgs)
    <3>1. n + 1 \in 1..Len(msgs) /\ (n + 1) - 1 = n /\ state[n] \in good[n]
      BY <1>3, <2>1
    <3>2. state[n + 1] = Deliver(state[n], msgs[n + 1])
      BY <1>1, <3>1
    <3>3. Deliver(state[n], msgs[n + 1]) \in good[n + 1]
      BY <3>1
    <3> QED BY <3>2, <3>3
  <2> QED BY <2>1
<1>4. Nat \subseteq S
  <2> HIDE DEF S
  <2> QED BY <1>2, <1>3, NatSetInduction
<1> QED BY <1>1, <1>4

\* One sequence of messages after another.
LEMMA AfterConcat ==
    ASSUME NEW T, NEW s, NEW a \in Seq(T), NEW b \in Seq(T)
    PROVE  After(s, a \o b) = After(After(s, a), b)
<1>1. PICK first : /\ After(s, a) = first[Len(a)]
                   /\ first[0] = s
                   /\ \A n \in 1..Len(a) : first[n] = Deliver(first[n - 1], a[n])
  <2>1. Len(a) \in Nat
    OBVIOUS
  <2> QED BY <2>1, AfterStates
<1>2. PICK second : /\ After(After(s, a), b) = second[Len(b)]
                    /\ second[0] = After(s, a)
                    /\ \A n \in 1..Len(b) : second[n] = Deliver(second[n - 1], b[n])
  <2> DEFINE t == After(s, a)
  <2> HIDE DEF t
  <2>1. \E second : /\ After(t, b) = second[Len(b)]
                    /\ second[0] = t
                    /\ \A n \in 1..Len(b) : second[n] = Deliver(second[n - 1], b[n])
    BY AfterStates
  <2> QED BY <2>1 DEF t
<1> DEFINE state == [n \in 0..(Len(a) + Len(b)) |-> IF n <= Len(a) THEN first[n] ELSE second[n - Len(a)]]
<1>3. Len(a \o b) = Len(a) + Len(b) /\ Len(a) \in Nat /\ Len(b) \in Nat
  OBVIOUS
<1>4. state[0] = s
  BY <1>1, <1>3
<1>5. ASSUME NEW n \in 1..Len(a \o b)
      PROVE  state[n] = Deliver(state[n - 1], (a \o b)[n])
  <2>1. CASE n <= Len(a)
    BY <1>1, <1>3, <2>1
  <2>2. CASE n = Len(a) + 1
    <3>1. state[n] = second[1] /\ state[n - 1] = first[Len(a)]
      BY <1>3, <2>2
    <3>2. (a \o b)[n] = b[1] /\ 1 \in 1..Len(b)
      BY <1>3, <2>2
    <3>3. second[1] = Deliver(second[0], b[1])
      BY <1>2, <3>2
    <3> QED BY <1>1, <1>2, <3>1, <3>2, <3>3
  <2>3. CASE n > Len(a) + 1
    <3>1. n - Len(a) \in 1..Len(b) /\ (n - 1) - Len(a) = (n - Len(a)) - 1
      BY <1>3, <2>3
    <3>2. state[n] = second[n - Len(a)] /\ state[n - 1] = second[(n - Len(a)) - 1]
      BY <1>3, <2>3, <3>1
    <3>3. (a \o b)[n] = b[n - Len(a)]
      BY <1>3, <2>3
    <3> QED BY <1>2, <3>1, <3>2, <3>3
  <2> QED BY <1>3, <2>1, <2>2, <2>3
<1>6. After(s, a \o b) = state[Len(a \o b)]
  <2> DEFINE c == a \o b
  <2>1. Len(c) \in Nat
    BY <1>3
  <2>3. \A n \in 1..Len(c) : state[n] = Deliver(state[n - 1], c[n])
    BY Zenon, <1>5
  <2>2. After(s, c) = state[Len(c)]
    <3> HIDE DEF state, c
    <3> QED BY <1>4, <2>1, <2>3, AfterIs
  <2> QED BY <2>2
<1>7. state[Len(a) + Len(b)] = second[Len(b)]
  <2>1. CASE Len(b) = 0
    BY <1>1, <1>2, <1>3, <2>1
  <2>2. CASE Len(b) # 0
    BY <1>3, <2>2
  <2> QED BY <2>1, <2>2
<1> QED BY <1>2, <1>3, <1>6, <1>7

LEMMA AfterOne ==
    ASSUME NEW s, NEW m
    PROVE  After(s, <<m>>) = Deliver(s, m)
<1>1. PICK state : /\ After(s, <<m>>) = state[1]
                   /\ state[0] = s
                   /\ state[1] = Deliver(state[0], m)
  BY AfterStates
<1> QED BY <1>1

LEMMA AfterAppend ==
    ASSUME NEW T, NEW s, NEW c \in Seq(T), NEW m \in T
    PROVE  After(s, Append(c, m)) = Deliver(After(s, c), m)
<1> DEFINE one == <<m>>
<1>1. Append(c, m) = c \o one /\ one \in Seq(T)
  OBVIOUS
<1>2. After(s, c \o one) = After(After(s, c), one)
  <2> HIDE DEF one
  <2> QED BY <1>1, AfterConcat
<1> QED BY <1>1, <1>2, AfterOne

\* A message taken from the socket leaves what the whole of them leads to.
LEMMA AfterTail ==
    ASSUME NEW T, NEW s, NEW c \in Seq(T), c # <<>>
    PROVE  After(s, c) = After(Deliver(s, Head(c)), Tail(c))
<1>1. c = <<Head(c)>> \o Tail(c) /\ <<Head(c)>> \in Seq(T) /\ Tail(c) \in Seq(T)
  OBVIOUS
<1> DEFINE one == <<Head(c)>>
           rest == Tail(c)
<1>2. After(s, one \o rest) = After(After(s, one), rest)
  <2> HIDE DEF one, rest
  <2>1. one \in Seq(T) /\ rest \in Seq(T)
    BY <1>1 DEF one, rest
  <2> QED BY <2>1, AfterConcat
<1>3. After(s, one) = Deliver(s, Head(c))
  BY AfterOne
<1> QED BY <1>1, <1>2, <1>3

(***************************************************************************)
(* Lists.                                                                  *)
(***************************************************************************)

LEMMA ConsFacts ==
    ASSUME NEW T, NEW c \in Seq(T), NEW e \in T
    PROVE  /\ Cons(e, c) \in Seq(T)
           /\ Len(Cons(e, c)) = Len(c) + 1
           /\ Cons(e, c)[1] = e
           /\ \A i \in DOMAIN c : i + 1 \in DOMAIN Cons(e, c) /\ Cons(e, c)[i + 1] = c[i]
           /\ \A i \in DOMAIN Cons(e, c) : i # 1 => i - 1 \in DOMAIN c /\ Cons(e, c)[i] = c[i - 1]
BY DEF Cons

LEMMA RemoveAtFacts ==
    ASSUME NEW T, NEW c \in Seq(T), NEW i \in DOMAIN c
    PROVE  /\ RemoveAt(c, i) \in Seq(T)
           /\ Len(RemoveAt(c, i)) = Len(c) - 1
           /\ \A j \in DOMAIN RemoveAt(c, i) :
                 RemoveAt(c, i)[j] = IF j < i THEN c[j] ELSE c[j + 1]
<1> DEFINE before == SubSeq(c, 1, i - 1)
           after == SubSeq(c, i + 1, Len(c))
<1>1. i \in Nat /\ 1 <= i /\ i <= Len(c) /\ Len(c) \in Nat
  OBVIOUS
<1>2. before \in Seq(T) /\ Len(before) = i - 1 /\ \A j \in 1..(i - 1) : before[j] = c[j]
  BY <1>1
<1>3. after \in Seq(T) /\ Len(after) = Len(c) - i /\ \A j \in 1..(Len(c) - i) : after[j] = c[i + j]
  BY <1>1
<1>4. RemoveAt(c, i) = before \o after
  BY DEF RemoveAt
<1> HIDE DEF before, after
<1>5. before \o after \in Seq(T) /\ Len(before \o after) = Len(c) - 1
  BY <1>1, <1>2, <1>3
<1>6. ASSUME NEW j \in 1..(Len(c) - 1)
      PROVE  (before \o after)[j] = IF j < i THEN c[j] ELSE c[j + 1]
  BY <1>1, <1>2, <1>3
<1>7. DOMAIN (before \o after) = 1..(Len(c) - 1)
  BY <1>1, <1>5
<1> QED BY <1>4, <1>5, <1>6, <1>7

\* q takes its elements from different positions of c, and leaves out none of
\* the elements of S.
TakenFrom(q, c) ==
    \E embed \in [DOMAIN q -> DOMAIN c] :
        /\ \A j \in DOMAIN q : q[j] = c[embed[j]]
        /\ \A j, k \in DOMAIN q : j # k => embed[j] # embed[k]
HasAll(q, c, S) == \A i \in DOMAIN c : c[i] \in S => \E j \in DOMAIN q : q[j] = c[i]

LEMMA OnlyFacts ==
    ASSUME NEW T, NEW c \in Seq(T), NEW S
    PROVE  /\ Only(c, S) \in Seq(T \cap S)
           /\ HasAll(Only(c, S), c, S)
           /\ TakenFrom(Only(c, S), c)
<1> DEFINE Upto(f, k) ==
               f = [n \in 0..k |-> IF n = 0 THEN <<>>
                                   ELSE IF c[n] \in S THEN Append(f[n - 1], c[n])
                                   ELSE f[n - 1]]
           Kept(q, n) ==
               /\ q \in Seq(T \cap S)
               /\ \A i \in 1..n : c[i] \in S => \E j \in DOMAIN q : q[j] = c[i]
               /\ \E embed \in [DOMAIN q -> 1..n] :
                     /\ \A j \in DOMAIN q : q[j] = c[embed[j]]
                     /\ \A j, k \in DOMAIN q : j # k => embed[j] # embed[k]
           M == {k \in Nat : k <= Len(c) => \E f : Upto(f, k)}
<1>1. 0 \in M
  <2>1. Upto([n \in 0..0 |-> <<>>], 0)
    OBVIOUS
  <2> QED BY <2>1
<1>2. ASSUME NEW k \in Nat, k \in M PROVE k + 1 \in M
  <2>1. CASE k + 1 <= Len(c)
    <3>1. PICK f : Upto(f, k)
      BY SMTT(30), <1>2, <2>1
    <3> DEFINE g == [n \in 0..(k + 1) |->
                        IF n = k + 1 THEN IF c[n] \in S THEN Append(f[k], c[n]) ELSE f[k]
                        ELSE f[n]]
    <3>2. \A n \in 0..k : g[n] = f[n]
      OBVIOUS
    <3>3. Upto(g, k + 1)
      <4> SUFFICES ASSUME NEW n \in 0..(k + 1)
                   PROVE  g[n] = IF n = 0 THEN <<>>
                                 ELSE IF c[n] \in S THEN Append(g[n - 1], c[n])
                                 ELSE g[n - 1]
        BY Zenon DEF g
      <4>1. CASE n = 0
        BY <3>1, <3>2, <4>1
      <4>2. CASE n \in 1..k
        <5>1. n - 1 \in 0..k /\ n \in 0..k /\ n # 0
          BY <4>2
        <5>2. f[n] = IF c[n] \in S THEN Append(f[n - 1], c[n]) ELSE f[n - 1]
          BY <3>1, <5>1
        <5>3. g[n] = f[n] /\ g[n - 1] = f[n - 1]
          BY <3>2, <5>1
        <5> QED BY <5>1, <5>2, <5>3
      <4>3. CASE n = k + 1
        BY <3>2, <4>3
      <4> QED BY <4>1, <4>2, <4>3
    <3> HIDE DEF g, Upto
    <3> QED BY <3>3
  <2> QED BY <2>1
<1>3. Nat \subseteq M
  <2> HIDE DEF M
  <2> QED BY <1>1, <1>2, NatSetInduction
<1> DEFINE kept == CHOOSE f : Upto(f, Len(c))
<1>4. Upto(kept, Len(c))
  <2>1. Len(c) \in M
    BY <1>3
  <2>2. \E f : Upto(f, Len(c))
    BY <2>1
  <2> QED BY <2>2
<1>5. Only(c, S) = kept[Len(c)]
  BY DEF Only
<1> HIDE DEF kept
<1> DEFINE N == {n \in Nat : n <= Len(c) => Kept(kept[n], n)}
<1>6. 0 \in N
  <2>1. kept[0] = <<>>
    BY <1>4
  <2>2. Kept(<<>>, 0)
    <3> DEFINE none == <<>>
               nowhere == [j \in {} |-> 1]
    <3>1. none \in Seq(T \cap S) /\ DOMAIN none = {}
      OBVIOUS
    <3>2. nowhere \in [{} -> 1..0]
      OBVIOUS
    <3> HIDE DEF none, nowhere
    <3>3. \E embed \in [DOMAIN none -> 1..0] :
             /\ \A j \in DOMAIN none : none[j] = c[embed[j]]
             /\ \A j, k \in DOMAIN none : j # k => embed[j] # embed[k]
      BY <3>1, <3>2, Zenon
    <3>4. \A i \in 1..0 : FALSE
      OBVIOUS
    <3>5. Kept(none, 0)
      BY <3>1, <3>3, <3>4
    <3> QED BY <3>5 DEF none
  <2> HIDE DEF Kept
  <2> QED BY <2>1, <2>2
<1>7. ASSUME NEW n \in Nat, n \in N PROVE n + 1 \in N
  <2> SUFFICES ASSUME n + 1 <= Len(c) PROVE Kept(kept[n + 1], n + 1)
    OBVIOUS
  <2> DEFINE q == kept[n]
  <2>1. Kept(q, n)
    <3> HIDE DEF Kept
    <3> QED BY <1>7
  <2>2. kept[n + 1] = IF c[n + 1] \in S THEN Append(q, c[n + 1]) ELSE q
    <3>1. n + 1 \in 0..Len(c) /\ n + 1 # 0 /\ (n + 1) - 1 = n
      OBVIOUS
    <3> QED BY <1>4, <3>1
  <2> HIDE DEF q
  <2>3. PICK embed \in [DOMAIN q -> 1..n] :
                     /\ \A j \in DOMAIN q : q[j] = c[embed[j]]
                     /\ \A j, k \in DOMAIN q : j # k => embed[j] # embed[k]
    BY <2>1
  <2>4. CASE c[n + 1] \notin S
    <3>1. embed \in [DOMAIN q -> 1..(n + 1)]
      BY <2>3
    <3>2. \A i \in 1..(n + 1) : c[i] \in S => \E j \in DOMAIN q : q[j] = c[i]
      BY <2>1, <2>4
    <3>3. kept[n + 1] = q
      BY <2>2, <2>4
    <3> HIDE DEF kept
    <3> QED BY SMTT(30), <2>1, <2>3, <3>1, <3>2, <3>3
  <2>5. CASE c[n + 1] \in S
    <3> DEFINE r == Append(q, c[n + 1])
               more == [j \in 1..(Len(q) + 1) |-> IF j = Len(q) + 1 THEN n + 1 ELSE embed[j]]
    <3>1. c[n + 1] \in T \cap S /\ q \in Seq(T \cap S) /\ Len(q) \in Nat
      BY <2>1, <2>5
    <3>2. /\ r \in Seq(T \cap S) /\ DOMAIN r = 1..(Len(q) + 1) /\ r[Len(q) + 1] = c[n + 1]
          /\ \A j \in DOMAIN q : j \in DOMAIN r /\ r[j] = q[j]
      BY <3>1
    <3>3. \A i \in 1..(n + 1) : c[i] \in S => \E j \in DOMAIN r : r[j] = c[i]
      <4> SUFFICES ASSUME NEW i \in 1..(n + 1), c[i] \in S PROVE \E j \in DOMAIN r : r[j] = c[i]
        OBVIOUS
      <4>1. CASE i = n + 1
        BY <3>1, <3>2, <4>1
      <4>2. CASE i \in 1..n
        <5>1. PICK j \in DOMAIN q : q[j] = c[i]
          BY <2>1, <4>2
        <5> QED BY <3>2, <5>1
      <4> QED BY <4>1, <4>2
    <3>4. more \in [DOMAIN r -> 1..(n + 1)]
      BY <2>3, <3>1, <3>2
    <3>5. \A j \in DOMAIN r : r[j] = c[more[j]]
      BY <2>3, <3>1, <3>2
    <3>6. \A j, k \in DOMAIN r : j # k => more[j] # more[k]
      BY <2>3, <3>1, <3>2
    <3>7. kept[n + 1] = r
      BY <2>2, <2>5
    <3> HIDE DEF more, r
    <3> QED BY <3>2, <3>3, <3>4, <3>5, <3>6, <3>7
  <2> QED BY <2>4, <2>5
<1>8. Nat \subseteq N
  <2> HIDE DEF N
  <2> QED BY <1>6, <1>7, NatSetInduction
<1>9. Kept(kept[Len(c)], Len(c))
  BY <1>8
<1>10. DOMAIN c = 1..Len(c)
  OBVIOUS
<1> QED BY SMTT(30), <1>5, <1>9, <1>10 DEF TakenFrom, HasAll

(***************************************************************************)
(* Machines.  The values of the fields and the locations of the objects    *)
(* are parameters, because the machines of different modules have          *)
(* different ones.                                                         *)
(***************************************************************************)

Record(V, L) == [id : Addr, loc : L, val : V, ptr : L \cup {Null, Dangling}]
Entry(L) == [from : L \cup {Dangling}, target : Addr]
Machine(V, L) == [db : Seq(Record(V, L)), orphans : Seq(Entry(L)),
                  status : {"up", "segfault", "corrupt"}]

\* The obj_ids of the records, head first.
IdsOf(s) == [i \in DOMAIN s.db |-> s.db[i].id]
Has(s, a) == Lookup(s, a) # 0
Obj(s, a) == s.db[Lookup(s, a)]
\* Every object lives somewhere else.
DistinctLocs(s) == \A i, j \in DOMAIN s.db : i # j => s.db[i].loc # s.db[j].loc

\* What calloc returns: a location where nothing lives.
LEMMA FreshLocFacts ==
    ASSUME NEW T, NEW s, s.db \in Seq(T)
    PROVE  /\ FreshLoc(s) \in Nat \ {0}
           /\ \A i \in DOMAIN s.db : s.db[i].loc # FreshLoc(s)
<1> DEFINE n == Len(s.db)
           P(l) == \A i \in DOMAIN s.db : s.db[i].loc # l
<1>1. n \in Nat /\ DOMAIN s.db = 1..n
  OBVIOUS
<1> HIDE DEF n
<1>2. \E l \in 1..(n + 1) : P(l)
  <2> SUFFICES ASSUME \A l \in 1..(n + 1) : ~P(l) PROVE FALSE
    OBVIOUS
  <2> DEFINE where == [l \in 1..(n + 1) |-> CHOOSE i \in 1..n : s.db[i].loc = l]
  <2>1. \A l \in 1..(n + 1) : where[l] \in 1..n /\ s.db[where[l]].loc = l
    BY <1>1
  <2>2. where \in [1..(n + 1) -> 1..n]
    BY <2>1
  <2>3. /\ IsFiniteSet(1..(n + 1)) /\ Cardinality(1..(n + 1)) = n + 1
        /\ IsFiniteSet(1..n) /\ Cardinality(1..n) = n
    <3>1. 1 \in Int /\ n \in Int /\ n + 1 \in Int /\ ~(1 > n + 1) /\ (1 > n => n = 0)
      BY <1>1
    <3> QED BY <3>1, FS_Interval
  <2> HIDE DEF where
  <2>4. \E x, y \in 1..(n + 1) : x # y /\ where[x] = where[y]
    <3> DEFINE more == 1..(n + 1)
               fewer == 1..n
    <3>1. Cardinality(fewer) < Cardinality(more)
      BY <1>1, <2>3
    <3>2. IsFiniteSet(more) /\ IsFiniteSet(fewer) /\ where \in [more -> fewer]
      BY <2>2, <2>3
    <3>3. \E x, y \in more : x # y /\ where[x] = where[y]
      <4> HIDE DEF more, fewer
      <4> QED BY <3>1, <3>2, FS_PigeonHole
    <3> QED BY <3>3
  <2> QED BY <2>1, <2>4
<1>3. FreshLoc(s) = CHOOSE l \in 1..(n + 1) : P(l)
  BY DEF FreshLoc, n
<1>4. FreshLoc(s) \in 1..(n + 1) /\ P(FreshLoc(s))
  BY <1>2, <1>3
<1> QED BY <1>1, <1>4

\* The first record with an obj_id.
LEMMA LookupFacts ==
    ASSUME NEW T, NEW s, s.db \in Seq(T), NEW a
    PROVE  /\ Lookup(s, a) \in Nat
           /\ Lookup(s, a) # 0 => Lookup(s, a) \in DOMAIN s.db /\ s.db[Lookup(s, a)].id = a
           /\ \A i \in DOMAIN s.db : s.db[i].id = a => Lookup(s, a) # 0 /\ Lookup(s, a) <= i
<1> DEFINE n == Len(s.db)
           I == {i \in 1..n : s.db[i].id = a}
<1>1. n \in Nat /\ DOMAIN s.db = 1..n
  OBVIOUS
<1>2. Lookup(s, a) = IF I # {} THEN Min(I) ELSE 0
  BY DEF Lookup, SelectInSeq
<1>3. I # {} => Min(I) \in I /\ \A i \in I : Min(I) <= i
  <2>1. I \subseteq 1..n
    OBVIOUS
  <2> HIDE DEF I, n
  <2> QED BY <1>1, <2>1, MinFacts
<1> HIDE DEF n
<1>4. CASE I = {}
  BY <1>1, <1>2, <1>4 DEF n
<1>5. CASE I # {}
  <2>1. Lookup(s, a) \in I /\ \A i \in I : Lookup(s, a) <= i
    BY <1>2, <1>3, <1>5
  <2>2. Lookup(s, a) \in 1..n /\ s.db[Lookup(s, a)].id = a
    BY <2>1
  <2>3. \A i \in 1..n : s.db[i].id = a => Lookup(s, a) <= i
    BY <2>1
  <2> QED BY <1>1, <2>2, <2>3 DEF n
<1> QED BY <1>4, <1>5

LEMMA LookupFound ==
    ASSUME NEW T, NEW s, s.db \in Seq(T), NEW k \in DOMAIN s.db,
           \A i \in DOMAIN s.db : i < k => s.db[i].id # s.db[k].id
    PROVE  Lookup(s, s.db[k].id) = k
<1> DEFINE a == s.db[k].id
           l == Lookup(s, a)
<1>1. l \in DOMAIN s.db /\ s.db[l].id = a /\ l <= k
  BY LookupFacts
<1>2. ~(l < k)
  BY <1>1
<1>3. l \in Nat /\ k \in Nat
  BY <1>1
<1> QED BY <1>1, <1>2, <1>3

LEMMA LookupAbsent ==
    ASSUME NEW T, NEW s, s.db \in Seq(T), NEW a, \A i \in DOMAIN s.db : s.db[i].id # a
    PROVE  Lookup(s, a) = 0
BY LookupFacts

\* Lookups depend on the obj_ids only.
LEMMA LookupSame ==
    ASSUME NEW T, NEW s, NEW t, s.db \in Seq(T), t.db \in Seq(T),
           DOMAIN t.db = DOMAIN s.db, \A i \in DOMAIN s.db : t.db[i].id = s.db[i].id
    PROVE  \A a : Lookup(t, a) = Lookup(s, a)
<1> TAKE a
<1>1. /\ Lookup(s, a) \in Nat
      /\ Lookup(s, a) # 0 => Lookup(s, a) \in DOMAIN s.db /\ s.db[Lookup(s, a)].id = a
      /\ \A i \in DOMAIN s.db : s.db[i].id = a => Lookup(s, a) # 0 /\ Lookup(s, a) <= i
  BY LookupFacts
<1>2. /\ Lookup(t, a) \in Nat
      /\ Lookup(t, a) # 0 => Lookup(t, a) \in DOMAIN t.db /\ t.db[Lookup(t, a)].id = a
      /\ \A i \in DOMAIN t.db : t.db[i].id = a => Lookup(t, a) # 0 /\ Lookup(t, a) <= i
  BY LookupFacts
<1> QED BY <1>1, <1>2

\* With every obj_id in the list once, each is found where it is.
LEMMA LookupIn ==
    ASSUME NEW T, NEW s, s.db \in Seq(T),
           \A i, j \in DOMAIN s.db : i # j => s.db[i].id # s.db[j].id,
           NEW k \in DOMAIN s.db
    PROVE  Lookup(s, s.db[k].id) = k
<1>1. \A i \in DOMAIN s.db : i < k => s.db[i].id # s.db[k].id
  OBVIOUS
<1> QED BY <1>1, LookupFound

\* t has the records of s, up to their contents.
SameShape(s, t) ==
    /\ DOMAIN t.db = DOMAIN s.db
    /\ \A i \in DOMAIN s.db : t.db[i].id = s.db[i].id /\ t.db[i].loc = s.db[i].loc

LEMMA SameShapeFacts ==
    ASSUME NEW T, NEW s, NEW t, s.db \in Seq(T), t.db \in Seq(T), SameShape(s, t)
    PROVE  /\ \A a : Lookup(t, a) = Lookup(s, a)
           /\ \A a : Has(s, a) => LocOf(t, a) = LocOf(s, a)
           /\ IdsOf(t) = IdsOf(s)
           /\ DistinctLocs(s) => DistinctLocs(t)
<1>1. DOMAIN t.db = DOMAIN s.db /\ \A i \in DOMAIN s.db : t.db[i].id = s.db[i].id
  BY DEF SameShape
<1>2. \A a : Lookup(t, a) = Lookup(s, a)
  BY ZenonT(40), <1>1, LookupSame
<1>3. \A a : Has(s, a) => LocOf(t, a) = LocOf(s, a)
  BY <1>2, LookupFacts DEF SameShape, Has, LocOf
<1> QED BY <1>2, <1>3 DEF SameShape, IdsOf, DistinctLocs

LEMMA IdsOfFacts ==
    ASSUME NEW V, NEW L, NEW s, s.db \in Seq(Record(V, L))
    PROVE  /\ IdsOf(s) \in Seq(Addr)
           /\ Len(IdsOf(s)) = Len(s.db)
           /\ \A i \in DOMAIN s.db : IdsOf(s)[i] = s.db[i].id
<1> DEFINE n == Len(s.db)
<1>1. n \in Nat /\ DOMAIN s.db = 1..n
  OBVIOUS
<1>2. \A i \in 1..n : s.db[i].id \in Addr
  <2>1. \A i \in 1..n : s.db[i] \in Record(V, L)
    BY <1>1
  <2> QED BY <2>1 DEF Record
<1> HIDE DEF n
<1>3. IdsOf(s) = [i \in 1..n |-> s.db[i].id]
  BY <1>1 DEF IdsOf
<1>4. IdsOf(s) \in Seq(Addr) /\ Len(IdsOf(s)) = n
  BY <1>1, <1>2, <1>3
<1> QED BY <1>1, <1>3, <1>4 DEF n

\* tha_create_object: a new object at the head of the list, and nothing else.
LEMMA CreateFacts ==
    ASSUME NEW V, NEW L, Zero \in V, NEW s \in Machine(V, L), NEW a \in Addr, NEW l \in L
    PROVE  LET t == Create(s, a, l)
           IN  /\ t \in Machine(V, L)
               /\ t.orphans = s.orphans /\ t.status = s.status
               /\ Has(t, a) /\ Obj(t, a) = [id |-> a, loc |-> l, val |-> Zero, ptr |-> Null]
               /\ \A x : x # a => /\ Has(t, x) <=> Has(s, x)
                                  /\ Has(s, x) => Obj(t, x) = Obj(s, x)
               /\ IdsOf(t) = Cons(a, IdsOf(s))
               /\ (DistinctLocs(s) /\ \A i \in DOMAIN s.db : s.db[i].loc # l) => DistinctLocs(t)
<1> DEFINE t == Create(s, a, l)
           r == [id |-> a, loc |-> l, val |-> Zero, ptr |-> Null]
<1>1. s.db \in Seq(Record(V, L)) /\ r \in Record(V, L)
  BY DEF Machine, Record
<1>2. t = [s EXCEPT !.db = Cons(r, s.db)]
  BY DEF Create
<1>3. t.db = Cons(r, s.db) /\ t.orphans = s.orphans /\ t.status = s.status
  BY <1>2 DEF Machine
<1>4. /\ t.db \in Seq(Record(V, L)) /\ Len(t.db) = Len(s.db) + 1 /\ t.db[1] = r
      /\ \A i \in DOMAIN s.db : i + 1 \in DOMAIN t.db /\ t.db[i + 1] = s.db[i]
      /\ \A i \in DOMAIN t.db : i # 1 => i - 1 \in DOMAIN s.db /\ t.db[i] = s.db[i - 1]
  <2> DEFINE d == s.db
             c == Cons(r, d)
             R == Record(V, L)
  <2> HIDE DEF d, r, R
  <2>1. d \in Seq(R) /\ r \in R
    BY <1>1 DEF d, R
  <2>2. /\ c \in Seq(R) /\ Len(c) = Len(d) + 1 /\ c[1] = r
        /\ \A i \in DOMAIN d : i + 1 \in DOMAIN c /\ c[i + 1] = d[i]
        /\ \A i \in DOMAIN c : i # 1 => i - 1 \in DOMAIN d /\ c[i] = d[i - 1]
    BY <2>1 DEF Cons
  <2> HIDE DEF c, t
  <2>3. t.db = c
    BY <1>3 DEF c, d
  <2> QED BY <2>2, <2>3 DEF d, R
<1>5. t \in Machine(V, L)
  BY <1>2, <1>3, <1>4 DEF Machine
<1> HIDE DEF t, r
<1>6. r.id = a /\ r.loc = l
  BY DEF r
<1>7. Lookup(t, a) = 1
  <2>1. 1 \in DOMAIN t.db /\ \A i \in DOMAIN t.db : ~(i < 1)
    BY <1>1, <1>4
  <2> QED BY <1>4, <1>6, <2>1, LookupFound
<1>8. ASSUME NEW x, x # a
      PROVE  /\ Has(t, x) <=> Has(s, x)
             /\ Has(s, x) => Obj(t, x) = Obj(s, x)
  <2> DEFINE k == Lookup(s, x)
  <2>1. CASE k # 0
    <3>1. k \in DOMAIN s.db /\ s.db[k].id = x /\ \A i \in DOMAIN s.db : s.db[i].id = x => k <= i
      BY <1>1, <2>1, LookupFacts
    <3> HIDE DEF k
    <3>2. k + 1 \in DOMAIN t.db /\ t.db[k + 1] = s.db[k]
      BY <1>4, <3>1
    <3>3. ASSUME NEW i \in DOMAIN t.db, i < k + 1 PROVE t.db[i].id # t.db[k + 1].id
      <4>1. i \in Nat /\ k \in Nat
        BY <1>1, <1>4, <3>1
      <4>2. CASE i = 1
        BY <1>4, <1>6, <1>8, <3>1, <3>2, <4>2
      <4>3. CASE i # 1
        <5>1. i - 1 \in DOMAIN s.db /\ t.db[i] = s.db[i - 1]
          BY <1>4, <4>3
        <5> QED BY <3>1, <3>2, <3>3, <4>1, <5>1
      <4> QED BY <4>2, <4>3
    <3>4. Lookup(t, x) = k + 1
      <4>1. Lookup(t, t.db[k + 1].id) = k + 1
        BY ZenonT(40), <1>4, <3>2, <3>3, LookupFound
      <4> QED BY <3>1, <3>2, <4>1
    <3>5. k \in Nat
      BY <1>1, <3>1
    <3> QED BY <2>1, <3>2, <3>4, <3>5 DEF Has, Obj, k
  <2>2. CASE k = 0
    <3>1. \A i \in DOMAIN s.db : s.db[i].id # x
      BY <1>1, <2>2, LookupFacts
    <3>2. \A i \in DOMAIN t.db : t.db[i].id # x
      BY <1>4, <1>6, <1>8, <3>1
    <3>3. Lookup(t, x) = 0
      BY <1>4, <3>2, LookupAbsent
    <3> QED BY <2>2, <3>3 DEF Has
  <2> QED BY <2>1, <2>2
<1>9. IdsOf(t) = Cons(a, IdsOf(s))
  <2>1. IdsOf(s) \in Seq(Addr) /\ Len(IdsOf(s)) = Len(s.db) /\ \A i \in DOMAIN s.db : IdsOf(s)[i] = s.db[i].id
    BY <1>1, IdsOfFacts
  <2>2. IdsOf(t) \in Seq(Addr) /\ Len(IdsOf(t)) = Len(t.db) /\ \A i \in DOMAIN t.db : IdsOf(t)[i] = t.db[i].id
    <3>1. t.db \in Seq(Record(V, L))
      BY <1>4
    <3> QED BY <3>1, IdsOfFacts
  <2> DEFINE ids == IdsOf(s)
             tids == IdsOf(t)
             c == Cons(a, ids)
  <2> HIDE DEF ids, tids
  <2>3. /\ c \in Seq(Addr) /\ Len(c) = Len(ids) + 1 /\ c[1] = a
        /\ \A i \in DOMAIN c : i # 1 => i - 1 \in DOMAIN ids /\ c[i] = ids[i - 1]
    <3>1. ids \in Seq(Addr)
      BY <2>1 DEF ids
    <3> QED BY <3>1, ConsFacts
  <2> HIDE DEF c
  <2>4. ids \in Seq(Addr) /\ Len(ids) = Len(s.db) /\ \A i \in DOMAIN s.db : ids[i] = s.db[i].id
    BY <2>1 DEF ids
  <2>5. tids \in Seq(Addr) /\ Len(tids) = Len(s.db) + 1 /\ \A i \in DOMAIN t.db : tids[i] = t.db[i].id
    BY <1>4, <2>2 DEF tids
  <2>6. Len(s.db) \in Nat /\ DOMAIN s.db = 1..Len(s.db) /\ DOMAIN t.db = 1..(Len(s.db) + 1)
    BY <1>1, <1>4
  <2>7. ASSUME NEW i \in 1..(Len(s.db) + 1) PROVE tids[i] = c[i]
    <3>1. CASE i = 1
      BY <1>4, <1>6, <2>3, <2>5, <2>6, <3>1
    <3>2. CASE i # 1
      <4>1. i \in DOMAIN t.db /\ i \in DOMAIN c /\ i - 1 \in DOMAIN s.db
        BY <2>3, <2>4, <2>6, <3>2
      <4> QED BY ZenonT(40), <1>4, <2>3, <2>4, <2>5, <3>2, <4>1
    <3> QED BY <3>1, <3>2
  <2>8. tids = c
    <3> DEFINE n == Len(s.db) + 1
    <3> HIDE DEF tids
    <3>1. tids \in Seq(Addr) /\ c \in Seq(Addr) /\ Len(tids) = n /\ Len(c) = n
      BY <2>3, <2>4, <2>5
    <3>2. \A i \in 1..n : tids[i] = c[i]
      BY <2>7
    <3> HIDE DEF n
    <3>3. tids = [i \in 1..n |-> tids[i]] /\ c = [i \in 1..n |-> c[i]]
      BY <3>1
    <3>4. [i \in 1..n |-> tids[i]] = [i \in 1..n |-> c[i]]
      BY <3>2
    <3> QED BY <3>3, <3>4
  <2> QED BY <2>8 DEF c, ids, tids
<1>10. ASSUME DistinctLocs(s), \A i \in DOMAIN s.db : s.db[i].loc # l PROVE DistinctLocs(t)
  <2> SUFFICES ASSUME NEW i \in DOMAIN t.db, NEW j \in DOMAIN t.db, i # j
               PROVE  t.db[i].loc # t.db[j].loc
    BY DEF DistinctLocs
  <2>1. i \in Int /\ j \in Int
    BY <1>4
  <2>2. CASE i = 1
    BY <1>4, <1>6, <1>10, <2>1, <2>2
  <2>3. CASE j = 1
    BY <1>4, <1>6, <1>10, <2>1, <2>3
  <2>4. CASE i # 1 /\ j # 1
    <3>1. i - 1 # j - 1
      BY <2>1
    <3> QED BY SMTT(30), <1>4, <1>10, <2>4, <3>1 DEF DistinctLocs
  <2> QED BY <2>2, <2>3, <2>4
<1>11. Has(t, a) /\ Obj(t, a) = r
  BY <1>4, <1>7 DEF Has, Obj
<1> QED BY <1>3, <1>5, <1>8, <1>9, <1>10, <1>11 DEF t, r

\* The pointer of m refers to an object that s does not know.
IsOrphan(s, m) == "ptr" \in m.fields /\ m.ptr \in Addr /\ ~Has(s, m.ptr)
Pointee(s, m) == IF m.ptr = Null \/ IsOrphan(s, m) THEN Null ELSE LocOf(s, m.ptr)

\* An UPDATE or BULK message with its fields.
IsUpdate(V, m) ==
    /\ m.id \in Addr
    /\ "val" \in m.fields => m.val \in V
    /\ "ptr" \in m.fields => m.ptr \in Addr \cup {Null, NotTha}

\* t is s with the fields that m carries in the k-th record.
Updated(s, t, m, k) ==
    /\ \A i \in DOMAIN s.db : i # k => t.db[i] = s.db[i]
    /\ k # 0 => /\ t.db[k].val = IF "val" \in m.fields THEN m.val ELSE s.db[k].val
                /\ t.db[k].ptr = IF "ptr" \in m.fields /\ m.ptr # NotTha
                                 THEN Pointee(s, m) ELSE s.db[k].ptr
    /\ t.orphans = IF k # 0 /\ IsOrphan(s, m)
                   THEN Cons([from |-> s.db[k].loc, target |-> m.ptr], s.orphans)
                   ELSE s.orphans

\* tha_update_object: the fields of one object, and the list of orphan pointers.
LEMMA UpdateFacts ==
    ASSUME NEW V, NEW L, NEW s \in Machine(V, L), NEW m, IsUpdate(V, m)
    PROVE  /\ Update(s, m) \in Machine(V, L)
           /\ Update(s, m).status = s.status
           /\ SameShape(s, Update(s, m))
           /\ Updated(s, Update(s, m), m, Lookup(s, m.id))
<1> DEFINE t == Update(s, m)
           k == Lookup(s, m.id)
           d == s.db
           R == Record(V, L)
<1>1. d \in Seq(R) /\ s.orphans \in Seq(Entry(L))
  BY DEF Machine
<1>2. k # 0 => k \in DOMAIN d /\ d[k].id = m.id
  BY <1>1, LookupFacts
<1>3. CASE k = 0
  <2>1. t = s
    BY <1>3 DEF Update
  <2>2. \A i \in DOMAIN s.db : i # k => t.db[i] = s.db[i]
    BY <2>1
  <2>3. t.orphans = s.orphans
    BY <2>1
  <2>4. Updated(s, t, m, k)
    <3> HIDE DEF t, k
    <3> QED BY <1>3, <2>2, <2>3 DEF Updated
  <2> QED BY <2>1, <2>4 DEF SameShape
<1>4. CASE k # 0
  <2> DEFINE v == IF "val" \in m.fields THEN m.val ELSE d[k].val
             p == IF "ptr" \in m.fields /\ m.ptr # NotTha THEN Pointee(s, m) ELSE d[k].ptr
             r == [d[k] EXCEPT !.val = v, !.ptr = p]
             e == [from |-> d[k].loc, target |-> m.ptr]
             o == IF IsOrphan(s, m) THEN Cons(e, s.orphans) ELSE s.orphans
  <2>1. d[k] \in R
    BY <1>1, <1>2, <1>4
  <2>2. d[k].loc \in L /\ d[k].val \in V /\ d[k].ptr \in L \cup {Null, Dangling} /\ d[k].id \in Addr
    BY <2>1 DEF Record
  <2>3. v \in V
    BY <2>2 DEF IsUpdate
  <2>4. p \in L \cup {Null, Dangling}
    <3>1. CASE "ptr" \in m.fields /\ m.ptr # NotTha
      <4>1. CASE m.ptr = Null \/ IsOrphan(s, m)
        BY <3>1, <4>1 DEF Pointee
      <4>2. CASE ~(m.ptr = Null \/ IsOrphan(s, m))
        <5>1. m.ptr \in Addr /\ Has(s, m.ptr)
          BY <3>1, <4>2 DEF IsOrphan, IsUpdate
        <5>2. Lookup(s, m.ptr) \in DOMAIN d
          BY <1>1, <5>1, LookupFacts DEF Has
        <5>3. d[Lookup(s, m.ptr)] \in R
          BY <1>1, <5>2
        <5>4. LocOf(s, m.ptr) \in L
          BY <5>3 DEF LocOf, Record
        <5> QED BY <3>1, <4>2, <5>4 DEF Pointee
      <4> QED BY <4>1, <4>2
    <3>2. CASE ~("ptr" \in m.fields /\ m.ptr # NotTha)
      BY <2>2, <3>2
    <3> QED BY <3>1, <3>2
  <2>5. t = [s EXCEPT !.db[k].val = v, !.db[k].ptr = p, !.orphans = o]
    <3> DEFINE orphan == "ptr" \in m.fields /\ m.ptr \in Addr /\ Lookup(s, m.ptr) = 0
               newPtr == CASE m.ptr = NotTha -> d[k].ptr
                           [] m.ptr = Null -> Null
                           [] OTHER -> IF orphan THEN Null ELSE LocOf(s, m.ptr)
               q == IF "ptr" \in m.fields THEN newPtr ELSE d[k].ptr
    <3>1. orphan = IsOrphan(s, m)
      BY DEF IsOrphan, Has
    <3>2. p = q
      <4> HIDE DEF orphan
      <4>1. Null # NotTha
        BY DistinctAssumption
      <4> QED BY <3>1, <4>1 DEF Pointee
    <3>3. t = [s EXCEPT !.db[k].val = IF "val" \in m.fields THEN m.val ELSE @,
                        !.db[k].ptr = IF "ptr" \in m.fields THEN newPtr ELSE @,
                        !.orphans = IF orphan THEN Cons(e, @) ELSE @]
      BY <1>4, Zenon DEF Update
    <3> HIDE DEF newPtr, orphan
    <3>4. t = [s EXCEPT !.db[k].val = v, !.db[k].ptr = q, !.orphans = o]
      BY <1>2, <1>4, <2>1, <3>1, <3>3 DEF Machine, Record
    <3> QED BY <3>2, <3>4
  <2> HIDE DEF v, p, o
  <2>6. t = [s EXCEPT !.db = [d EXCEPT ![k] = r], !.orphans = o]
    BY <1>2, <1>4, <2>1, <2>5 DEF Machine
  <2>7. t.db = [d EXCEPT ![k] = r] /\ t.orphans = o /\ t.status = s.status
    BY <2>6 DEF Machine
  <2>8. r \in R /\ r.id = d[k].id /\ r.loc = d[k].loc /\ r.val = v /\ r.ptr = p
    BY <2>1, <2>3, <2>4 DEF Record
  <2>9. o \in Seq(Entry(L))
    <3>1. CASE IsOrphan(s, m)
      <4>1. e \in Entry(L)
        BY <2>2, <3>1 DEF Entry, IsOrphan
      <4> HIDE DEF e
      <4>2. Cons(e, s.orphans) \in Seq(Entry(L))
        BY <1>1, <4>1 DEF Cons
      <4> QED BY <3>1, <4>2 DEF o
    <3>2. CASE ~IsOrphan(s, m)
      BY <1>1, <3>2 DEF o
    <3> QED BY <3>1, <3>2
  <2> HIDE DEF r, R, d, t
  <2>10. t.db \in Seq(R) /\ DOMAIN t.db = DOMAIN d
    <3>1. d \in Seq(R) /\ r \in R /\ t.db = [d EXCEPT ![k] = r]
      BY <1>1, <2>7, <2>8
    <3> QED BY <1>2, <1>4, <3>1, ExceptSeq
  <2>11. t.db[k] = r /\ \A i \in DOMAIN d : i # k => t.db[i] = d[i]
    BY <1>2, <1>4, <2>7
  <2>12. t \in Machine(V, L)
    BY <2>6, <2>7, <2>9, <2>10 DEF Machine, R
  <2>13. SameShape(s, t)
    BY <2>8, <2>10, <2>11 DEF SameShape, d
  <2>14. t.db[k].val = v /\ t.db[k].ptr = p
    BY <2>8, <2>11
  <2>15. Updated(s, t, m, k)
    <3> HIDE DEF k
    <3> QED BY <1>4, <2>7, <2>11, <2>14 DEF Updated, v, p, o, d
  <2> QED BY <2>7, <2>12, <2>13, <2>15 DEF t
<1> QED BY <1>3, <1>4

\* A function on the positions of a list is a list.
LEMMA ListOf ==
    ASSUME NEW T, NEW U, NEW c \in Seq(U), NEW d, d = [i \in DOMAIN c |-> d[i]],
           \A i \in DOMAIN c : d[i] \in T
    PROVE  d \in Seq(T) /\ Len(d) = Len(c) /\ DOMAIN d = DOMAIN c
<1> DEFINE n == Len(c)
<1>1. n \in Nat /\ DOMAIN c = 1..n
  OBVIOUS
<1> HIDE DEF n
<1>2. d \in [1..n -> T]
  BY <1>1
<1>3. d \in Seq(T) /\ Len(d) = n
  BY <1>1, <1>2
<1> QED BY <1>1, <1>2, <1>3 DEF n

LEMMA PoisonFacts ==
    ASSUME NEW V, NEW L, NEW s \in Machine(V, L), NEW l
    PROVE  LET t == Poison(s, l)
           IN  /\ t \in Machine(V, L)
               /\ t.status = s.status
               /\ SameShape(s, t)
               /\ \A i \in DOMAIN s.db :
                     /\ t.db[i].val = s.db[i].val
                     /\ t.db[i].ptr = IF s.db[i].ptr = l THEN Dangling ELSE s.db[i].ptr
               /\ DOMAIN t.orphans = DOMAIN s.orphans
<1> DEFINE t == Poison(s, l)
           d == s.db
           o == s.orphans
           R == Record(V, L)
           rec(i) == IF d[i].ptr = l THEN [d[i] EXCEPT !.ptr = Dangling] ELSE d[i]
           ent(i) == IF o[i].from = l THEN [o[i] EXCEPT !.from = Dangling] ELSE o[i]
           d2 == [i \in DOMAIN d |-> rec(i)]
           o2 == [i \in DOMAIN o |-> ent(i)]
<1>1. d \in Seq(R) /\ o \in Seq(Entry(L))
  BY DEF Machine
<1>2. t = [s EXCEPT !.db = d2, !.orphans = o2]
  BY DEF Poison
<1>3. t.db = d2 /\ t.orphans = o2 /\ t.status = s.status
  BY <1>2 DEF Machine
<1>4. ASSUME NEW i \in DOMAIN d
      PROVE  /\ rec(i) \in R
             /\ rec(i).id = d[i].id /\ rec(i).loc = d[i].loc /\ rec(i).val = d[i].val
             /\ rec(i).ptr = IF d[i].ptr = l THEN Dangling ELSE d[i].ptr
  <2>1. d[i] \in R
    BY <1>1
  <2> QED BY <2>1 DEF Record
<1>5. ASSUME NEW i \in DOMAIN o PROVE ent(i) \in Entry(L)
  <2>1. o[i] \in Entry(L)
    BY <1>1
  <2> QED BY <2>1 DEF Entry
<1> HIDE DEF rec, ent, d, o, R
<1>6. d2 \in Seq(R) /\ DOMAIN d2 = DOMAIN d /\ \A i \in DOMAIN d : d2[i] = rec(i)
  <2>1. d2 = [i \in DOMAIN d |-> d2[i]] /\ \A i \in DOMAIN d : d2[i] \in R
    BY <1>4
  <2> HIDE DEF d2
  <2>2. d2 \in Seq(R) /\ DOMAIN d2 = DOMAIN d
    BY <1>1, <2>1, ListOf
  <2> QED BY <2>2 DEF d2
<1>7. o2 \in Seq(Entry(L)) /\ DOMAIN o2 = DOMAIN o
  <2>1. o2 = [i \in DOMAIN o |-> o2[i]] /\ \A i \in DOMAIN o : o2[i] \in Entry(L)
    BY <1>5
  <2> HIDE DEF o2
  <2> QED BY <1>1, <2>1, ListOf
<1> HIDE DEF d2, o2, t
<1>8. t \in Machine(V, L)
  BY <1>2, <1>6, <1>7 DEF Machine, R
<1>9. SameShape(s, t)
  BY <1>3, <1>4, <1>6 DEF SameShape, d
<1> QED BY <1>3, <1>4, <1>6, <1>7, <1>8, <1>9 DEF t, d, o

\* Where the j-th element was before the k-th was removed.
Skip(j, k) == IF j < k THEN j ELSE j + 1

\* t has the records of s but the k-th.
Without(s, t, k) ==
    /\ Len(t.db) = Len(s.db) - 1
    /\ \A j \in DOMAIN t.db :
          /\ t.db[j].id = s.db[Skip(j, k)].id
          /\ t.db[j].loc = s.db[Skip(j, k)].loc
          /\ t.db[j].val = s.db[Skip(j, k)].val
          /\ t.db[j].ptr = IF s.db[Skip(j, k)].ptr = s.db[k].loc THEN Dangling
                           ELSE s.db[Skip(j, k)].ptr

\* tha_delete_object: the first record with the obj_id goes, and every pointer
\* to its object dangles.
LEMMA DeleteFacts ==
    ASSUME NEW V, NEW L, NEW s \in Machine(V, L), NEW m
    PROVE  /\ Delete(s, m) \in Machine(V, L)
           /\ Delete(s, m).status = s.status
           /\ DOMAIN Delete(s, m).orphans = DOMAIN s.orphans
           /\ Lookup(s, m.id) = 0 => Delete(s, m) = s
           /\ Lookup(s, m.id) # 0 => Without(s, Delete(s, m), Lookup(s, m.id))
<1> DEFINE t == Delete(s, m)
           k == Lookup(s, m.id)
           p == Poison(s, s.db[k].loc)
           R == Record(V, L)
<1>1. s.db \in Seq(R)
  BY DEF Machine
<1>2. k # 0 => k \in DOMAIN s.db
  BY <1>1, LookupFacts
<1>3. CASE k = 0
  BY <1>3 DEF Delete
<1>4. CASE k # 0
  <2> DEFINE c == p.db
             d == RemoveAt(c, k)
  <2>1. t = [p EXCEPT !.db = d]
    BY <1>4 DEF Delete
  <2>2. /\ p \in Machine(V, L) /\ p.status = s.status /\ SameShape(s, p)
        /\ \A i \in DOMAIN s.db :
                     /\ p.db[i].val = s.db[i].val
                     /\ p.db[i].ptr = IF s.db[i].ptr = s.db[k].loc THEN Dangling ELSE s.db[i].ptr
        /\ DOMAIN p.orphans = DOMAIN s.orphans
    BY PoisonFacts
  <2> HIDE DEF p
  <2>3. t.db = d /\ t.orphans = p.orphans /\ t.status = s.status
    BY <2>1, <2>2 DEF Machine
  <2>4. c \in Seq(R) /\ k \in DOMAIN c /\ DOMAIN c = DOMAIN s.db
    BY <1>2, <1>4, <2>2 DEF Machine, SameShape
  <2> HIDE DEF c, k, R
  <2>5. d \in Seq(R) /\ Len(d) = Len(c) - 1
        /\ \A j \in DOMAIN d : d[j] = IF j < k THEN c[j] ELSE c[j + 1]
    BY <2>4, RemoveAtFacts
  <2> HIDE DEF d, t
  <2>6. t \in Machine(V, L)
    BY <2>1, <2>2, <2>5 DEF Machine, R
  <2>7. Len(s.db) = Len(c)
    BY <1>1, <2>4
  <2>8. ASSUME NEW j \in DOMAIN d
        PROVE  Skip(j, k) \in DOMAIN s.db /\ d[j] = c[Skip(j, k)]
    <3>1. j \in Int /\ 1 <= j /\ j <= Len(c) - 1 /\ k \in Int /\ 1 <= k /\ k <= Len(c)
      BY <2>4, <2>5
    <3>2. DOMAIN s.db = 1..Len(c)
      BY <2>4
    <3> QED BY <2>5, <3>1, <3>2 DEF Skip
  <2>9. ASSUME NEW j \in DOMAIN t.db
        PROVE  /\ t.db[j].id = s.db[Skip(j, k)].id
               /\ t.db[j].loc = s.db[Skip(j, k)].loc
               /\ t.db[j].val = s.db[Skip(j, k)].val
               /\ t.db[j].ptr = IF s.db[Skip(j, k)].ptr = s.db[k].loc THEN Dangling
                                ELSE s.db[Skip(j, k)].ptr
    <3> DEFINE i == Skip(j, k)
    <3>1. i \in DOMAIN s.db /\ t.db[j] = p.db[i]
      BY <2>3, <2>8, <2>9 DEF c
    <3> HIDE DEF i
    <3>2. /\ t.db[j].id = s.db[i].id /\ t.db[j].loc = s.db[i].loc
          /\ t.db[j].val = s.db[i].val
          /\ t.db[j].ptr = IF s.db[i].ptr = s.db[k].loc THEN Dangling ELSE s.db[i].ptr
      BY <2>2, <3>1 DEF SameShape
    <3> QED BY <3>2 DEF i
  <2>10. Len(t.db) = Len(s.db) - 1
    BY <2>3, <2>5, <2>7
  <2>11. DOMAIN t.orphans = DOMAIN s.orphans
    BY <2>2, <2>3
  <2>12. Without(s, t, k)
    BY <2>9, <2>10 DEF Without
  <2> QED BY <1>4, <2>3, <2>6, <2>11, <2>12 DEF t, k
<1> QED BY <1>3, <1>4

LEMMA DeleteDistinct ==
    ASSUME NEW V, NEW L, NEW s \in Machine(V, L), NEW m, DistinctLocs(s)
    PROVE  DistinctLocs(Delete(s, m))
<1> DEFINE t == Delete(s, m)
           k == Lookup(s, m.id)
<1>1. CASE k = 0
  <2>1. t = s
    BY <1>1, DeleteFacts
  <2> QED BY <2>1
<1>2. CASE k # 0
  <2>1. s.db \in Seq(Record(V, L)) /\ t.db \in Seq(Record(V, L)) /\ k \in Nat
    <3>1. t \in Machine(V, L)
      BY DeleteFacts
    <3> HIDE DEF t
    <3>2. s.db \in Seq(Record(V, L)) /\ t.db \in Seq(Record(V, L))
      BY <3>1 DEF Machine
    <3> QED BY <3>2, LookupFacts
  <2>2. /\ Len(t.db) = Len(s.db) - 1
        /\ \A j \in DOMAIN t.db :
              /\ t.db[j].id = s.db[Skip(j, k)].id
              /\ t.db[j].loc = s.db[Skip(j, k)].loc
              /\ t.db[j].val = s.db[Skip(j, k)].val
              /\ t.db[j].ptr = IF s.db[Skip(j, k)].ptr = s.db[k].loc THEN Dangling
                               ELSE s.db[Skip(j, k)].ptr
    <3>1. Without(s, t, k)
      BY <1>2, DeleteFacts
    <3> QED BY <3>1 DEF Without
  <2> HIDE DEF t, k
  <2> SUFFICES ASSUME NEW i \in DOMAIN t.db, NEW j \in DOMAIN t.db, i # j
               PROVE  t.db[i].loc # t.db[j].loc
    BY DEF DistinctLocs, t
  <2>3. i \in 1..(Len(s.db) - 1) /\ j \in 1..(Len(s.db) - 1) /\ DOMAIN s.db = 1..Len(s.db) /\ Len(s.db) \in Nat
    BY <2>1, <2>2
  <2>4. Skip(i, k) \in DOMAIN s.db /\ Skip(j, k) \in DOMAIN s.db /\ Skip(i, k) # Skip(j, k)
    BY <2>1, <2>3 DEF Skip
  <2>5. s.db[Skip(i, k)].loc # s.db[Skip(j, k)].loc
    BY <2>4 DEF DistinctLocs
  <2> QED BY <2>2, <2>5
<1> QED BY <1>1, <1>2

\* With every obj_id in the list once, the other objects are found as before.
LEMMA DeleteFinds ==
    ASSUME NEW V, NEW L, NEW s \in Machine(V, L), NEW m, Has(s, m.id),
           \A i, j \in DOMAIN s.db : i # j => s.db[i].id # s.db[j].id
    PROVE  LET t == Delete(s, m)
           IN  /\ IdsOf(t) = RemoveAt(IdsOf(s), Lookup(s, m.id))
               /\ \A x : x # m.id =>
                     /\ Has(t, x) <=> Has(s, x)
                     /\ Has(s, x) => /\ LocOf(t, x) = LocOf(s, x)
                                     /\ Obj(t, x).val = Obj(s, x).val
                                     /\ Obj(t, x).ptr = IF Obj(s, x).ptr = LocOf(s, m.id) THEN Dangling
                                                        ELSE Obj(s, x).ptr
<1> DEFINE t == Delete(s, m)
           k == Lookup(s, m.id)
           n == Len(s.db)
           R == Record(V, L)
<1>1. /\ s.db \in Seq(R) /\ n \in Nat /\ DOMAIN s.db = 1..n
      /\ k \in 1..n /\ s.db[k].id = m.id
  <2>1. s.db \in Seq(R) /\ k # 0
    BY DEF Machine, Has
  <2>2. k \in DOMAIN s.db /\ s.db[k].id = m.id
    BY <2>1, LookupFacts
  <2> QED BY <2>1, <2>2
<1>2. /\ t \in Machine(V, L)
      /\ Len(t.db) = n - 1
      /\ \A j \in DOMAIN t.db :
            /\ t.db[j].id = s.db[Skip(j, k)].id
            /\ t.db[j].loc = s.db[Skip(j, k)].loc
            /\ t.db[j].val = s.db[Skip(j, k)].val
            /\ t.db[j].ptr = IF s.db[Skip(j, k)].ptr = s.db[k].loc THEN Dangling
                             ELSE s.db[Skip(j, k)].ptr
  <2>1. t \in Machine(V, L) /\ Without(s, t, k)
    BY <1>1, DeleteFacts
  <2> QED BY <2>1 DEF Without
<1> HIDE DEF t, k
<1>3. t.db \in Seq(R)
  BY <1>2 DEF Machine
<1>4. DOMAIN t.db = 1..(n - 1)
  BY <1>1, <1>2, <1>3
<1> HIDE DEF n, R
<1>5. \A i, j \in 1..(n - 1) : /\ Skip(j, k) \in 1..n /\ Skip(j, k) # k
                               /\ i # j => Skip(i, k) # Skip(j, k)
  BY <1>1 DEF Skip
<1>6. \A i, j \in DOMAIN t.db : i # j => t.db[i].id # t.db[j].id
  BY <1>1, <1>2, <1>4, <1>5
<1>7. \A i \in 1..n : i # k => \E j \in 1..(n - 1) : Skip(j, k) = i
  <2> SUFFICES ASSUME NEW i \in 1..n, i # k PROVE \E j \in 1..(n - 1) : Skip(j, k) = i
    OBVIOUS
  <2>1. CASE i < k
    BY <1>1, <2>1 DEF Skip
  <2>2. CASE i > k
    <3>1. i - 1 \in 1..(n - 1) /\ ~(i - 1 < k) /\ (i - 1) + 1 = i
      BY <1>1, <2>2
    <3> QED BY <3>1 DEF Skip
  <2> QED BY <1>1, <2>1, <2>2
<1>8. ASSUME NEW x, x # m.id
      PROVE  /\ Has(t, x) <=> Has(s, x)
             /\ Has(s, x) => /\ LocOf(t, x) = LocOf(s, x)
                             /\ Obj(t, x).val = Obj(s, x).val
                             /\ Obj(t, x).ptr = IF Obj(s, x).ptr = LocOf(s, m.id) THEN Dangling
                                                ELSE Obj(s, x).ptr
  <2>1. CASE Has(s, x)
    <3> DEFINE i == Lookup(s, x)
    <3>1. i \in DOMAIN s.db /\ s.db[i].id = x
      BY <1>1, <2>1, LookupFacts DEF Has
    <3>2. i # k
      BY <1>1, <1>8, <3>1
    <3>3. PICK j \in 1..(n - 1) : Skip(j, k) = i
      <4> HIDE DEF i
      <4> QED BY <1>1, <1>7, <3>1, <3>2
    <3>4. t.db[j].id = x
      BY <1>2, <1>4, <3>1, <3>3
    <3>5. Lookup(t, t.db[j].id) = j
      BY <1>3, <1>4, <1>6, <3>3, LookupIn
    <3>6. Has(t, x) /\ Obj(t, x) = t.db[j] /\ LocOf(t, x) = t.db[j].loc
      BY <1>1, <3>3, <3>4, <3>5 DEF Has, Obj, LocOf
    <3>7. Obj(s, x) = s.db[Skip(j, k)] /\ LocOf(s, x) = s.db[Skip(j, k)].loc /\ LocOf(s, m.id) = s.db[k].loc
      BY <3>3 DEF Obj, LocOf, k
    <3> QED BY <1>2, <1>4, <2>1, <3>6, <3>7
  <2>2. CASE ~Has(s, x)
    <3>1. \A i \in DOMAIN s.db : s.db[i].id # x
      BY <1>1, <2>2, LookupFacts DEF Has
    <3>2. \A j \in DOMAIN t.db : t.db[j].id # x
      BY SMTT(30), <1>1, <1>2, <1>4, <1>5, <3>1
    <3>3. ~Has(t, x)
      BY <1>3, <3>2, LookupAbsent DEF Has
    <3> QED BY <2>2, <3>3
  <2> QED BY <2>1, <2>2
<1>9. IdsOf(t) = RemoveAt(IdsOf(s), k)
  <2> DEFINE ids == IdsOf(s)
             tids == IdsOf(t)
             c == RemoveAt(ids, k)
  <2>1. ids \in Seq(Addr) /\ Len(ids) = n /\ \A i \in 1..n : ids[i] = s.db[i].id
    <3>1. s.db \in Seq(Record(V, L))
      BY DEF Machine
    <3> QED BY <1>1, <3>1, IdsOfFacts DEF n
  <2>2. tids \in Seq(Addr) /\ Len(tids) = n - 1 /\ \A i \in 1..(n - 1) : tids[i] = t.db[i].id
    <3>1. t.db \in Seq(Record(V, L))
      BY <1>2 DEF Machine
    <3>2. tids \in Seq(Addr) /\ Len(tids) = Len(t.db) /\ \A i \in DOMAIN t.db : tids[i] = t.db[i].id
      BY <3>1, IdsOfFacts
    <3> QED BY <1>2, <1>4, <3>2
  <2> HIDE DEF ids, tids
  <2>3. /\ c \in Seq(Addr) /\ Len(c) = n - 1
        /\ \A j \in DOMAIN c : c[j] = IF j < k THEN ids[j] ELSE ids[j + 1]
    <3>1. k \in DOMAIN ids
      BY <1>1, <2>1
    <3> QED BY <2>1, <3>1, RemoveAtFacts
  <2> HIDE DEF c
  <2>4. \A j \in 1..(n - 1) : tids[j] = c[j]
    <3> TAKE j \in 1..(n - 1)
    <3>1. tids[j] = s.db[Skip(j, k)].id /\ Skip(j, k) \in 1..n
      BY <1>2, <1>4, <1>5, <2>2
    <3>2. tids[j] = ids[Skip(j, k)]
      BY <2>1, <3>1
    <3>3. j \in DOMAIN c
      BY <1>1, <2>3
    <3> QED BY <2>3, <3>2, <3>3 DEF Skip
  <2>5. tids = c
    BY <1>1, <2>2, <2>3, <2>4
  <2> QED BY <2>5 DEF c, ids, tids
<1> QED BY <1>8, <1>9 DEF t, k

\* t has the records of s whose objects are global, zeroed.
Cleaned(s, t) ==
    /\ \A j \in DOMAIN t.db :
          /\ t.db[j].val = Zero /\ t.db[j].ptr = Null
          /\ \E i \in DOMAIN s.db : /\ s.db[i].loc \in Static
                                    /\ t.db[j].id = s.db[i].id /\ t.db[j].loc = s.db[i].loc
    /\ \A i \in DOMAIN s.db : s.db[i].loc \in Static =>
          \E j \in DOMAIN t.db : t.db[j].id = s.db[i].id /\ t.db[j].loc = s.db[i].loc

\* tha_clean_application_state.
LEMMA CleanFacts ==
    ASSUME NEW V, NEW L, Zero \in V, NEW s \in Machine(V, L)
    PROVE  /\ Clean(s) \in Machine(V, L)
           /\ Clean(s).status = s.status
           /\ DOMAIN Clean(s).orphans = DOMAIN s.orphans
           /\ Cleaned(s, Clean(s))
           /\ DistinctLocs(s) => DistinctLocs(Clean(s))
<1> DEFINE t == Clean(s)
           d == s.db
           o == s.orphans
           R == Record(V, L)
           G == {r \in ToSet(d) : r.loc \in Static}
           kept == Only(d, G)
           d2 == [i \in DOMAIN kept |-> [kept[i] EXCEPT !.val = Zero, !.ptr = Null]]
           ent(i) == IF o[i].from \in Static THEN o[i] ELSE [o[i] EXCEPT !.from = Dangling]
           o2 == [i \in DOMAIN o |-> ent(i)]
<1>1. d \in Seq(R) /\ o \in Seq(Entry(L))
  BY DEF Machine
<1>2. t = [s EXCEPT !.db = d2, !.orphans = o2]
  BY DEF Clean
<1>3. t.db = d2 /\ t.orphans = o2 /\ t.status = s.status
  BY <1>2 DEF Machine
<1> HIDE DEF R
<1>4. /\ kept \in Seq(R \cap G)
      /\ \A i \in DOMAIN d : d[i] \in G => \E j \in DOMAIN kept : kept[j] = d[i]
      /\ \E embed \in [DOMAIN kept -> DOMAIN d] :
            /\ \A j \in DOMAIN kept : kept[j] = d[embed[j]]
            /\ \A j, k \in DOMAIN kept : j # k => embed[j] # embed[k]
  <2> HIDE DEF d, G
  <2>1. d \in Seq(R)
    BY <1>1
  <2>2. kept \in Seq(R \cap G)
    BY <2>1, OnlyFacts
  <2>3. HasAll(kept, d, G) /\ TakenFrom(kept, d)
    BY <2>1, OnlyFacts
  <2> QED BY <2>2, <2>3 DEF HasAll, TakenFrom
<1>5. \A i \in DOMAIN d : d[i] \in G <=> d[i].loc \in Static
  BY DEF ToSet
<1> HIDE DEF G, kept
<1>6. PICK embed \in [DOMAIN kept -> DOMAIN d] :
            /\ \A j \in DOMAIN kept : kept[j] = d[embed[j]]
            /\ \A j, k \in DOMAIN kept : j # k => embed[j] # embed[k]
  BY <1>4
<1>7. ASSUME NEW j \in DOMAIN kept
      PROVE  /\ embed[j] \in DOMAIN d /\ kept[j] = d[embed[j]] /\ d[embed[j]].loc \in Static
             /\ kept[j] \in R
             /\ d2[j] \in R /\ d2[j].id = kept[j].id /\ d2[j].loc = kept[j].loc
             /\ d2[j].val = Zero /\ d2[j].ptr = Null
  <2>1. kept[j] \in R /\ kept[j] \in G
    BY <1>4
  <2>2. embed[j] \in DOMAIN d /\ kept[j] = d[embed[j]]
    BY <1>6
  <2> QED BY <1>5, <2>1, <2>2 DEF R, Record
<1>8. ASSUME NEW i \in DOMAIN o PROVE ent(i) \in Entry(L)
  <2>1. o[i] \in Entry(L)
    BY <1>1
  <2> QED BY <2>1 DEF Entry
<1> HIDE DEF d, o, ent
<1>9. d2 \in Seq(R) /\ DOMAIN d2 = DOMAIN kept
  <2>1. d2 = [i \in DOMAIN kept |-> d2[i]] /\ \A i \in DOMAIN kept : d2[i] \in R
    BY <1>7
  <2> HIDE DEF d2
  <2> QED BY <1>4, <2>1, ListOf
<1>10. o2 \in Seq(Entry(L)) /\ DOMAIN o2 = DOMAIN o
  <2>1. o2 = [i \in DOMAIN o |-> o2[i]] /\ \A i \in DOMAIN o : o2[i] \in Entry(L)
    BY <1>8
  <2> HIDE DEF o2
  <2> QED BY <1>1, <2>1, ListOf
<1> HIDE DEF d2, o2, t
<1>11. t \in Machine(V, L)
  BY <1>2, <1>9, <1>10 DEF Machine, R
<1>12. Cleaned(s, t)
  <2>1. ASSUME NEW j \in DOMAIN t.db
        PROVE  /\ t.db[j].val = Zero /\ t.db[j].ptr = Null
               /\ \E i \in DOMAIN s.db : /\ s.db[i].loc \in Static
                                         /\ t.db[j].id = s.db[i].id /\ t.db[j].loc = s.db[i].loc
    BY <1>3, <1>7, <1>9 DEF d
  <2>2. ASSUME NEW i \in DOMAIN s.db, s.db[i].loc \in Static
        PROVE  \E j \in DOMAIN t.db : t.db[j].id = s.db[i].id /\ t.db[j].loc = s.db[i].loc
    <3>1. PICK j \in DOMAIN kept : kept[j] = d[i]
      BY <1>4, <1>5, <2>2 DEF d
    <3> QED BY <1>3, <1>7, <1>9, <3>1 DEF d
  <2> QED BY <2>1, <2>2 DEF Cleaned
<1>13. ASSUME DistinctLocs(s) PROVE DistinctLocs(t)
  <2> SUFFICES ASSUME NEW i \in DOMAIN t.db, NEW j \in DOMAIN t.db, i # j
               PROVE  t.db[i].loc # t.db[j].loc
    BY DEF DistinctLocs
  <2>1. i \in DOMAIN kept /\ j \in DOMAIN kept
    BY <1>3, <1>9
  <2>2. embed[i] # embed[j] /\ embed[i] \in DOMAIN s.db /\ embed[j] \in DOMAIN s.db
    BY <1>6, <1>7, <2>1 DEF d
  <2>3. t.db[i].loc = s.db[embed[i]].loc /\ t.db[j].loc = s.db[embed[j]].loc
    BY <1>3, <1>7, <2>1 DEF d
  <2> QED BY <1>13, <2>2, <2>3 DEF DistinctLocs
<1> QED BY <1>3, <1>10, <1>11, <1>12, <1>13 DEF t, o

\* The orphan pointers can all be set.
Resolvable(s) == \A e \in DOMAIN s.orphans : /\ Has(s, s.orphans[e].target)
                                             /\ s.orphans[e].from # Dangling

\* t is s with the orphan pointers set.
Linked(s, t) ==
    \A i \in DOMAIN s.db :
        /\ t.db[i].val = s.db[i].val
        /\ (\A e \in DOMAIN s.orphans : s.orphans[e].from # s.db[i].loc)
           => t.db[i].ptr = s.db[i].ptr
        /\ (\E e \in DOMAIN s.orphans : s.orphans[e].from = s.db[i].loc)
           => \E e \in DOMAIN s.orphans : /\ s.orphans[e].from = s.db[i].loc
                                          /\ t.db[i].ptr = LocOf(s, s.orphans[e].target)

\* tha_process_commit_orphan_pointers_list.
LEMMA CommitFacts ==
    ASSUME NEW V, NEW L, NEW s \in Machine(V, L)
    PROVE  /\ CommitOrphans(s) \in Machine(V, L)
           /\ SameShape(s, CommitOrphans(s))
           /\ ~Resolvable(s) => CommitOrphans(s).db = s.db
           /\ Resolvable(s) => /\ CommitOrphans(s).status = s.status
                               /\ CommitOrphans(s).orphans = <<>>
                               /\ Linked(s, CommitOrphans(s))
<1> DEFINE t == CommitOrphans(s)
           d == s.db
           o == s.orphans
           R == Record(V, L)
           broken == {i \in DOMAIN s.orphans : \/ Lookup(s, s.orphans[i].target) = 0
                                               \/ s.orphans[i].from = Dangling}
           entries(l) == {i \in DOMAIN s.orphans : s.orphans[i].from = l}
           last(r) == Max(entries(r.loc))
           link(r) == IF entries(r.loc) = {} THEN r
                      ELSE [r EXCEPT !.ptr = LocOf(s, s.orphans[last(r)].target)]
           d2 == [i \in DOMAIN s.db |-> link(s.db[i])]
           down == IF Lookup(s, s.orphans[Min(broken)].target) = 0 THEN "segfault" ELSE "corrupt"
<1>1. d \in Seq(R) /\ o \in Seq(Entry(L))
  BY DEF Machine
<1>2. Resolvable(s) <=> broken = {}
  BY DEF Resolvable, Has
<1>3. CASE broken # {}
  <2>1. t = [s EXCEPT !.status = down]
    BY <1>3 DEF CommitOrphans
  <2>2. t \in Machine(V, L) /\ t.db = s.db
    BY <2>1 DEF Machine
  <2> QED BY <1>2, <1>3, <2>2 DEF SameShape
<1>4. CASE broken = {}
  <2>1. t = [s EXCEPT !.db = d2, !.orphans = <<>>]
    BY <1>4 DEF CommitOrphans
  <2>2. t.db = d2 /\ t.orphans = <<>> /\ t.status = s.status
    BY <2>1 DEF Machine
  <2>3. ASSUME NEW i \in DOMAIN s.db, entries(s.db[i].loc) # {}
        PROVE  /\ last(s.db[i]) \in DOMAIN s.orphans
               /\ s.orphans[last(s.db[i])].from = s.db[i].loc
    <3> DEFINE S == entries(s.db[i].loc)
    <3>1. Len(s.orphans) \in Nat /\ S \subseteq 1..Len(s.orphans)
      BY <1>1
    <3>2. Max(S) \in S
      <4> HIDE DEF S
      <4> QED BY <2>3, <3>1, MaxFacts DEF S
    <3> QED BY <3>2
  <2>4. \A e \in DOMAIN s.orphans : LocOf(s, s.orphans[e].target) \in L
    <3> TAKE e \in DOMAIN s.orphans
    <3>1. Lookup(s, s.orphans[e].target) # 0
      BY <1>4
    <3>2. Lookup(s, s.orphans[e].target) \in DOMAIN s.db
      BY <1>1, <3>1, LookupFacts
    <3>3. s.db[Lookup(s, s.orphans[e].target)] \in R
      BY <1>1, <3>2
    <3> QED BY <3>3 DEF LocOf, Record
  <2>5. ASSUME NEW i \in DOMAIN s.db
        PROVE  /\ link(s.db[i]) \in R
               /\ link(s.db[i]).id = s.db[i].id /\ link(s.db[i]).loc = s.db[i].loc
               /\ link(s.db[i]).val = s.db[i].val
               /\ link(s.db[i]).ptr = IF entries(s.db[i].loc) = {} THEN s.db[i].ptr
                                      ELSE LocOf(s, s.orphans[last(s.db[i])].target)
    <3>1. s.db[i] \in R
      BY <1>1
    <3>2. entries(s.db[i].loc) # {} => LocOf(s, s.orphans[last(s.db[i])].target) \in L
      BY <2>3, <2>4
    <3> DEFINE p == LocOf(s, s.orphans[last(s.db[i])].target)
               none == entries(s.db[i].loc) = {}
    <3> HIDE DEF entries, last, p, none
    <3>3. link(s.db[i]) = IF none THEN s.db[i] ELSE [s.db[i] EXCEPT !.ptr = p]
      BY DEF p, none
    <3>4. ~none => p \in L
      BY <3>2 DEF p, none
    <3> HIDE DEF link
    <3> QED BY <3>1, <3>3, <3>4 DEF p, none, Record
  <2> HIDE DEF link, entries, last
  <2>6. d2 \in Seq(R) /\ DOMAIN d2 = DOMAIN d
    <3>1. d2 = [i \in DOMAIN d |-> d2[i]] /\ \A i \in DOMAIN d : d2[i] \in R
      BY <2>5
    <3> HIDE DEF d2, d
    <3> QED BY <1>1, <3>1, ListOf
  <2>7. \A i \in DOMAIN s.db : d2[i] = link(s.db[i])
    OBVIOUS
  <2>8. t \in Machine(V, L)
    <3>1. <<>> \in Seq(Entry(L))
      OBVIOUS
    <3> DEFINE none == <<>>
    <3> HIDE DEF d2, t, none
    <3>2. t = [s EXCEPT !.db = d2, !.orphans = none] /\ none \in Seq(Entry(L))
      BY <2>1, <3>1 DEF none
    <3> QED BY <2>6, <3>2 DEF Machine, R
  <2>9. SameShape(s, t)
    <3> HIDE DEF d2, t
    <3> QED BY <2>2, <2>5, <2>6, <2>7 DEF SameShape
  <2>10. Linked(s, t)
    <3> HIDE DEF d2, t
    <3> SUFFICES ASSUME NEW i \in DOMAIN s.db
                 PROVE  /\ t.db[i].val = s.db[i].val
                        /\ (\A e \in DOMAIN s.orphans : s.orphans[e].from # s.db[i].loc)
                           => t.db[i].ptr = s.db[i].ptr
                        /\ (\E e \in DOMAIN s.orphans : s.orphans[e].from = s.db[i].loc)
                           => \E e \in DOMAIN s.orphans : /\ s.orphans[e].from = s.db[i].loc
                                                          /\ t.db[i].ptr = LocOf(s, s.orphans[e].target)
      BY DEF Linked
    <3>1. t.db[i] = link(s.db[i])
      BY <2>2, <2>7
    <3>2. CASE entries(s.db[i].loc) = {}
      <4>1. t.db[i].val = s.db[i].val /\ t.db[i].ptr = s.db[i].ptr
        BY <2>5, <3>1, <3>2
      <4>2. ~\E e \in DOMAIN s.orphans : s.orphans[e].from = s.db[i].loc
        BY <3>2 DEF entries
      <4> QED BY <4>1, <4>2
    <3>3. CASE entries(s.db[i].loc) # {}
      <4>1. t.db[i].val = s.db[i].val /\ t.db[i].ptr = LocOf(s, s.orphans[last(s.db[i])].target)
        BY <2>5, <3>1, <3>3
      <4>2. last(s.db[i]) \in DOMAIN s.orphans /\ s.orphans[last(s.db[i])].from = s.db[i].loc
        BY <2>3, <3>3
      <4> QED BY <4>1, <4>2
    <3> QED BY <3>2, <3>3
  <2> QED BY <1>2, <1>4, <2>2, <2>8, <2>9, <2>10
<1> QED BY <1>3, <1>4

(***************************************************************************)
(* Every message.                                                          *)
(***************************************************************************)

\* The state that a BULK message updates.
Base(s, m, l) == IF Has(s, m.id) THEN s ELSE Create(s, m.id, l)

IsMessage(V, m) ==
    /\ m.op \in {"CREATE", "UPDATE", "BULK", "DELETE", "CLEAN", "ORPHAN_COMMIT", "COMMIT"}
    /\ m.op = "CREATE" => m.id \in Addr
    /\ m.op \in {"UPDATE", "BULK"} => IsUpdate(V, m)

LEMMA BaseFacts ==
    ASSUME NEW V, NEW L, Zero \in V, NEW s \in Machine(V, L), NEW m, m.id \in Addr, NEW l \in L
    PROVE  /\ Base(s, m, l) \in Machine(V, L)
           /\ BulkUpdate(s, m, l) = Update(Base(s, m, l), m)
           /\ Has(Base(s, m, l), m.id)
           /\ (DistinctLocs(s) /\ \A i \in DOMAIN s.db : s.db[i].loc # l)
              => DistinctLocs(Base(s, m, l))
<1>1. BulkUpdate(s, m, l) = Update(Base(s, m, l), m)
  BY DEF BulkUpdate, Base, Has
<1>2. CASE Has(s, m.id)
  BY <1>1, <1>2 DEF Base
<1>3. CASE ~Has(s, m.id)
  <2>1. Base(s, m, l) = Create(s, m.id, l)
    BY <1>3 DEF Base
  <2> QED BY <1>1, <2>1, CreateFacts
<1> QED BY <1>2, <1>3

LEMMA DeliverFacts ==
    ASSUME NEW V, NEW L, Zero \in V, NEW s \in Machine(V, L), NEW m, IsMessage(V, m), NEW l \in L
    PROVE  /\ DeliverAt(s, m, l) \in Machine(V, L)
           /\ (DistinctLocs(s) /\ \A i \in DOMAIN s.db : s.db[i].loc # l)
              => DistinctLocs(DeliverAt(s, m, l))
<1> DEFINE t == DeliverAt(s, m, l)
           Good == /\ t \in Machine(V, L)
                   /\ (DistinctLocs(s) /\ \A i \in DOMAIN s.db : s.db[i].loc # l) => DistinctLocs(t)
<1>1. CASE m.op = "CREATE"
  <2>1. t = Create(s, m.id, l) /\ m.id \in Addr
    BY <1>1 DEF DeliverAt, IsMessage
  <2> QED BY <2>1, CreateFacts
<1>2. CASE m.op = "UPDATE"
  <2>1. t = Update(s, m) /\ IsUpdate(V, m)
    BY <1>2 DEF DeliverAt, IsMessage
  <2>2. t \in Machine(V, L) /\ SameShape(s, t)
    BY <2>1, UpdateFacts
  <2> HIDE DEF t
  <2>3. s.db \in Seq(Record(V, L)) /\ t.db \in Seq(Record(V, L))
    BY <2>2 DEF Machine
  <2>4. DistinctLocs(s) => DistinctLocs(t)
    BY <2>2, <2>3, SameShapeFacts
  <2> QED BY <2>2, <2>4 DEF t
<1>3. CASE m.op = "BULK"
  <2> DEFINE b == Base(s, m, l)
  <2>1. t = BulkUpdate(s, m, l) /\ IsUpdate(V, m) /\ m.id \in Addr
    BY <1>3 DEF DeliverAt, IsMessage, IsUpdate
  <2>2. /\ b \in Machine(V, L) /\ t = Update(b, m)
        /\ (DistinctLocs(s) /\ \A i \in DOMAIN s.db : s.db[i].loc # l) => DistinctLocs(b)
    BY <2>1, BaseFacts
  <2> HIDE DEF b
  <2>3. t \in Machine(V, L) /\ SameShape(b, t)
    BY <2>1, <2>2, UpdateFacts
  <2> HIDE DEF t
  <2>4. b.db \in Seq(Record(V, L)) /\ t.db \in Seq(Record(V, L))
    BY <2>2, <2>3 DEF Machine
  <2>5. DistinctLocs(b) => DistinctLocs(t)
    BY <2>3, <2>4, SameShapeFacts
  <2> QED BY <2>2, <2>3, <2>5 DEF t
<1>4. CASE m.op = "DELETE"
  <2>1. t = Delete(s, m)
    BY <1>4 DEF DeliverAt
  <2> QED BY <2>1, DeleteFacts, DeleteDistinct
<1>5. CASE m.op = "CLEAN"
  <2>1. t = Clean(s)
    BY <1>5 DEF DeliverAt
  <2> QED BY <2>1, CleanFacts
<1>6. CASE m.op = "ORPHAN_COMMIT"
  <2>1. t = CommitOrphans(s)
    BY <1>6 DEF DeliverAt
  <2>2. t \in Machine(V, L) /\ SameShape(s, t)
    BY <2>1, CommitFacts
  <2> HIDE DEF t
  <2>3. s.db \in Seq(Record(V, L)) /\ t.db \in Seq(Record(V, L))
    BY <2>2 DEF Machine
  <2>4. DistinctLocs(s) => DistinctLocs(t)
    BY <2>2, <2>3, SameShapeFacts
  <2> QED BY <2>2, <2>4 DEF t
<1>7. CASE m.op = "COMMIT"
  <2>1. t = s
    BY <1>7 DEF DeliverAt
  <2> QED BY <2>1
<1> QED BY <1>1, <1>2, <1>3, <1>4, <1>5, <1>6, <1>7 DEF IsMessage

\* One message that the receiving thread of the standby takes.
LEMMA StandbyTakes ==
    ASSUME NEW V, NEW L, Zero \in V, Nat \ {0} \subseteq L, NEW s \in Machine(V, L),
           NEW m, IsMessage(V, m)
    PROVE  /\ Deliver(s, m) \in Machine(V, L)
           /\ DistinctLocs(s) => DistinctLocs(Deliver(s, m))
<1> DEFINE l == FreshLoc(s)
<1>1. l \in L /\ \A i \in DOMAIN s.db : s.db[i].loc # l
  <2>1. s.db \in Seq(Record(V, L))
    BY DEF Machine
  <2> QED BY <2>1, FreshLocFacts
<1> HIDE DEF l
<1>2. /\ DeliverAt(s, m, l) \in Machine(V, L)
      /\ DistinctLocs(s) => DistinctLocs(DeliverAt(s, m, l))
  BY <1>1, DeliverFacts
<1> QED BY <1>2 DEF Deliver, l

(***************************************************************************)
(* More lists: a copy of an element next to it, and the elements of a set  *)
(* in some order.                                                          *)
(***************************************************************************)

LEMMA InsertAtFacts ==
    ASSUME NEW T, NEW c \in Seq(T), NEW i \in DOMAIN c, NEW e \in T
    PROVE  /\ InsertAt(c, i, e) \in Seq(T)
           /\ Len(InsertAt(c, i, e)) = Len(c) + 1
           /\ \A j \in DOMAIN InsertAt(c, i, e) :
                 InsertAt(c, i, e)[j] = IF j < i THEN c[j] ELSE IF j = i THEN e ELSE c[j - 1]
<1> DEFINE before == SubSeq(c, 1, i - 1)
           after == SubSeq(c, i, Len(c))
           front == Append(before, e)
           all == front \o after
<1>1. i \in Nat /\ 1 <= i /\ i <= Len(c) /\ Len(c) \in Nat
  OBVIOUS
<1>2. before \in Seq(T) /\ Len(before) = i - 1 /\ \A j \in 1..(i - 1) : before[j] = c[j]
  BY <1>1
<1>3. /\ after \in Seq(T) /\ Len(after) = (Len(c) - i) + 1
      /\ \A j \in 1..((Len(c) - i) + 1) : after[j] = c[(i + j) - 1]
  BY <1>1
<1>4. InsertAt(c, i, e) = all
  <2>1. front = before \o <<e>>
    OBVIOUS
  <2> QED BY <2>1 DEF InsertAt
<1> HIDE DEF before, after
<1>5. front \in Seq(T) /\ Len(front) = i
  BY <1>1, <1>2
<1>6. \A j \in 1..i : front[j] = IF j < i THEN c[j] ELSE e
  BY <1>1, <1>2
<1> HIDE DEF front
<1>7. /\ front \in Seq(T) /\ after \in Seq(T)
      /\ all \in Seq(T) /\ Len(all) = Len(front) + Len(after)
      /\ \A j \in 1..Len(front) : all[j] = front[j]
      /\ \A j \in (Len(front) + 1)..(Len(front) + Len(after)) : all[j] = after[j - Len(front)]
  <2>1. front \in Seq(T) /\ after \in Seq(T)
    BY <1>3, <1>5
  <2> QED BY <2>1
<1> HIDE DEF all
<1>8. Len(all) = Len(c) + 1
  <2>1. Len(front) + Len(after) = Len(c) + 1
    BY <1>1, <1>3, <1>5
  <2> QED BY <1>7, <2>1
<1>9. ASSUME NEW j \in 1..(Len(c) + 1)
      PROVE  all[j] = IF j < i THEN c[j] ELSE IF j = i THEN e ELSE c[j - 1]
  <2>1. CASE j <= i
    <3>1. j \in 1..Len(front)
      BY <1>1, <1>5, <2>1
    <3>2. all[j] = front[j]
      BY <1>7, <3>1
    <3> QED BY <1>1, <1>5, <1>6, <2>1, <3>1, <3>2
  <2>2. CASE j > i
    <3>1. j - i \in 1..Len(after) /\ (i + (j - i)) - 1 = j - 1
      BY <1>1, <1>3, <2>2
    <3>2. j \in (Len(front) + 1)..(Len(front) + Len(after))
      BY <1>1, <1>3, <1>5, <2>2
    <3>3. all[j] = after[j - Len(front)]
      BY <1>7, <3>2
    <3>4. after[j - i] = c[j - 1]
      BY <1>3, <3>1
    <3>5. j - Len(front) = j - i
      BY <1>5
    <3> QED BY <1>1, <2>2, <3>3, <3>4, <3>5
  <2>3. j \in Int /\ i \in Int
    BY <1>1
  <2> QED BY <2>1, <2>2, <2>3
<1>10. DOMAIN all = 1..(Len(c) + 1)
  <2>1. all \in Seq(T)
    BY <1>7
  <2>2. DOMAIN all = 1..Len(all)
    BY <2>1
  <2> QED BY <1>8, <2>2
<1> QED BY <1>4, <1>7, <1>8, <1>9, <1>10

LEMMA SetToSeqsFacts ==
    ASSUME NEW S, IsFiniteSet(S), NEW c \in SetToSeqs(S)
    PROVE  /\ c \in Seq(S)
           /\ \A i, j \in DOMAIN c : i # j => c[i] # c[j]
           /\ \A x \in S : \E i \in DOMAIN c : c[i] = x
<1> DEFINE n == Cardinality(S)
           D == 1..n
<1>1. n \in Nat
  BY FS_CardinalityType
<1>2. c \in [D -> S] /\ \A i, j \in D : i # j => c[i] # c[j]
  BY DEF SetToSeqs
<1>3. c \in Seq(S)
  <2> HIDE DEF n
  <2> QED BY <1>1, <1>2
<1>4. Cardinality(D) = n
  <2> HIDE DEF n
  <2>1. 1 \in Int /\ n \in Int /\ (1 > n => n = 0)
    BY <1>1
  <2>2. Cardinality(1..n) = IF 1 > n THEN 0 ELSE n - 1 + 1
    BY <2>1, FS_Interval
  <2> QED BY <1>1, <2>2
<1> HIDE DEF D
<1>5. c \in Injection(D, S)
  BY <1>2 DEF Injection, IsInjective
<1>6. c \in Surjection(D, S)
  BY <1>4, <1>5, FS_Injection
<1>7. \A x \in S : \E i \in D : c[i] = x
  BY <1>6 DEF Surjection
<1> QED BY <1>2, <1>3, <1>7

\* Where the objects of a machine are.
LEMMA Found ==
    ASSUME NEW V, NEW L, L \cap {Null, Dangling} = {}, NEW s \in Machine(V, L), NEW a, Has(s, a)
    PROVE  /\ Lookup(s, a) \in DOMAIN s.db /\ s.db[Lookup(s, a)].id = a
           /\ LocOf(s, a) = Obj(s, a).loc
           /\ LocOf(s, a) \in L /\ LocOf(s, a) # Null /\ LocOf(s, a) # Dangling
           /\ Obj(s, a) \in Record(V, L)
<1>1. s.db \in Seq(Record(V, L))
  BY DEF Machine
<1>2. Lookup(s, a) \in DOMAIN s.db /\ s.db[Lookup(s, a)].id = a
  BY <1>1, LookupFacts DEF Has
<1>3. Obj(s, a) \in Record(V, L)
  BY <1>1, <1>2 DEF Obj
<1>4. LocOf(s, a) = Obj(s, a).loc
  BY DEF LocOf, Obj
<1>5. LocOf(s, a) \in L
  BY <1>3, <1>4 DEF Record
<1> QED BY <1>2, <1>3, <1>4, <1>5

LEMMA Apart ==
    ASSUME NEW V, NEW L, NEW s \in Machine(V, L), DistinctLocs(s),
           NEW a, NEW b, Has(s, a), Has(s, b), a # b
    PROVE  LocOf(s, a) # LocOf(s, b)
<1>1. s.db \in Seq(Record(V, L))
  BY DEF Machine
<1>2. Lookup(s, a) \in DOMAIN s.db /\ s.db[Lookup(s, a)].id = a
  BY <1>1, LookupFacts DEF Has
<1>3. Lookup(s, b) \in DOMAIN s.db /\ s.db[Lookup(s, b)].id = b
  BY <1>1, LookupFacts DEF Has
<1> QED BY <1>2, <1>3 DEF DistinctLocs, LocOf

\* Machines with the same records find the same objects at the same places.
LEMMA Alike ==
    ASSUME NEW V, NEW L, NEW s \in Machine(V, L), NEW t \in Machine(V, L), SameShape(s, t)
    PROVE  /\ \A a : Lookup(t, a) = Lookup(s, a) /\ (Has(t, a) <=> Has(s, a))
           /\ \A a : Has(s, a) => LocOf(t, a) = LocOf(s, a)
           /\ IdsOf(t) = IdsOf(s)
           /\ DistinctLocs(s) => DistinctLocs(t)
<1> DEFINE T == Record(V, L)
<1>1. s.db \in Seq(T) /\ t.db \in Seq(T)
  BY DEF Machine
<1> HIDE DEF T
<1>2. /\ \A a : Lookup(t, a) = Lookup(s, a)
      /\ \A a : Has(s, a) => LocOf(t, a) = LocOf(s, a)
      /\ IdsOf(t) = IdsOf(s)
      /\ DistinctLocs(s) => DistinctLocs(t)
  BY ONLY <1>1, SameShape(s, t), SameShapeFacts
<1> QED BY <1>2 DEF Has

(***************************************************************************)
(* A bulk sync or a checkpoint: what a machine holds after a part of it.   *)
(***************************************************************************)

\* The objects of snap, in the order ord: what one bulk sync sends.
IsSync(ord, snap) ==
    /\ ord \in Seq(Addr)
    /\ \A i, j \in DOMAIN ord : i # j => ord[i] # ord[j]
    /\ DOMAIN snap \subseteq Addr
    /\ \A i \in DOMAIN ord : ord[i] \in DOMAIN snap
    /\ \A a \in DOMAIN snap : /\ \E i \in DOMAIN ord : ord[i] = a
                              /\ snap[a].ptr \in DOMAIN snap \cup {Null, NotTha}

\* The e-th orphan pointer is that of the object a.
PointerOf(s, e, a, snap) == s.orphans[e].from = LocOf(s, a) /\ s.orphans[e].target = snap[a].ptr

\* The object a has arrived; its pointer may be among the orphans.
Placed(s, a, snap) ==
    /\ Has(s, a)
    /\ Obj(s, a).val = snap[a].val
    /\ snap[a].ptr = Null => Obj(s, a).ptr = Null
    /\ snap[a].ptr \in DOMAIN snap =>
          \/ \E e \in DOMAIN s.orphans : PointerOf(s, e, a, snap)
          \/ Has(s, snap[a].ptr) /\ Obj(s, a).ptr = LocOf(s, snap[a].ptr)

\* The first k objects have arrived, and only they have orphan pointers.
Arrived(s, ord, snap, k) ==
    /\ \A j \in 1..k : Placed(s, ord[j], snap)
    /\ \A e \in DOMAIN s.orphans : \E j \in 1..k : PointerOf(s, e, ord[j], snap)

\* A record for the next object is there, or is made.
LEMMA BaseKeeps ==
    ASSUME NEW V, NEW L, Zero \in V, NEW s \in Machine(V, L), DistinctLocs(s), NEW ord, NEW snap, IsSync(ord, snap),
           NEW k \in Nat, k < Len(ord), Arrived(s, ord, snap, k),
           NEW m, m.id = ord[k + 1],
           NEW l, Has(s, m.id) \/ (l \in L /\ \A i \in DOMAIN s.db : s.db[i].loc # l)
    PROVE  /\ Base(s, m, l) \in Machine(V, L) /\ DistinctLocs(Base(s, m, l))
           /\ Base(s, m, l).status = s.status
           /\ Has(Base(s, m, l), ord[k + 1])
           /\ Arrived(Base(s, m, l), ord, snap, k)
           /\ BulkUpdate(s, m, l) = Update(Base(s, m, l), m)
<1> DEFINE a == ord[k + 1]
           t == Base(s, m, l)
<1>1. a \in Addr /\ \A j \in 1..k : ord[j] # a
  <2>1. k + 1 \in DOMAIN ord /\ \A j \in 1..k : j \in DOMAIN ord /\ j # k + 1
    BY DEF IsSync
  <2> QED BY <2>1 DEF IsSync
<1>2. s \in Machine(V, L) /\ s.db \in Seq(Record(V, L))
  BY DEF Machine
<1>3. BulkUpdate(s, m, l) = Update(t, m)
  BY DEF BulkUpdate, Base, Has
<1>4. t \in Machine(V, L) /\ Has(t, a) /\ DistinctLocs(t)
  <2>1. CASE Has(s, m.id)
    BY <2>1 DEF Base
  <2>2. CASE ~Has(s, m.id)
    BY <1>1, <2>2, BaseFacts
  <2> QED BY <2>1, <2>2
<1>5. t.status = s.status /\ Arrived(t, ord, snap, k)
  <2>1. CASE Has(s, m.id)
    BY <2>1 DEF Base
  <2>2. CASE ~Has(s, m.id)
    <3> DEFINE c == Create(s, a, l)
    <3>1. t = c
      BY <2>2 DEF Base
    <3>2. /\ c.orphans = s.orphans /\ c.status = s.status
          /\ \A x : x # a /\ Has(s, x) => Has(c, x) /\ Obj(c, x) = Obj(s, x)
      BY <1>1, <2>2, CreateFacts
    <3> HIDE DEF c
    <3>3. \A x : Has(s, x) => Has(c, x) /\ Obj(c, x) = Obj(s, x) /\ LocOf(c, x) = LocOf(s, x)
      BY <2>2, <3>2 DEF Obj, LocOf
    <3>4. ASSUME NEW j \in 1..k PROVE Placed(c, ord[j], snap)
      <4>1. Placed(s, ord[j], snap)
        BY DEF Arrived
      <4> QED BY <3>2, <3>3, <4>1 DEF Placed, PointerOf
    <3>5. ASSUME NEW e \in DOMAIN c.orphans PROVE \E j \in 1..k : PointerOf(c, e, ord[j], snap)
      <4>1. PICK j \in 1..k : PointerOf(s, e, ord[j], snap)
        BY <3>2 DEF Arrived
      <4>2. Has(s, ord[j])
        BY DEF Arrived, Placed
      <4> QED BY <3>2, <3>3, <4>1, <4>2 DEF PointerOf
    <3> QED BY <3>1, <3>2, <3>4, <3>5 DEF Arrived
  <2> QED BY <2>1, <2>2
<1> QED BY <1>3, <1>4, <1>5

\* The next object is put in place.
LEMMA NextArrives ==
    ASSUME NEW V, NEW L, L \cap {Null, Dangling} = {}, NEW t \in Machine(V, L),
           NEW ord, NEW snap, IsSync(ord, snap),
           NEW k \in Nat, k < Len(ord), Has(t, ord[k + 1]), Arrived(t, ord, snap, k),
           NEW m, IsUpdate(V, m), m.id = ord[k + 1], m.val = snap[m.id].val, m.ptr = snap[m.id].ptr,
           "val" \in m.fields, "ptr" \in m.fields
    PROVE  Arrived(Update(t, m), ord, snap, k + 1)
<1> DEFINE a == ord[k + 1]
           u == Update(t, m)
           p == snap[a].ptr
<1>1. /\ m.id = a /\ m.val = snap[a].val /\ m.ptr = p
      /\ "val" \in m.fields /\ "ptr" \in m.fields
      /\ k + 1 \in DOMAIN ord /\ a \in Addr
      /\ \A j \in 1..k : j \in DOMAIN ord /\ ord[j] # a
  <2>1. ord \in Seq(Addr) /\ k + 1 <= Len(ord)
    BY DEF IsSync
  <2>2. k + 1 \in DOMAIN ord /\ \A j \in 1..k : j \in DOMAIN ord /\ j # k + 1
    BY <2>1
  <2> QED BY <2>1, <2>2 DEF IsSync
<1>2. Has(t, a) /\ Arrived(t, ord, snap, k)
  OBVIOUS
<1>5. u \in Machine(V, L) /\ u.status = t.status /\ SameShape(t, u) /\ Updated(t, u, m, Lookup(t, a))
  BY <1>1, UpdateFacts
<1> HIDE DEF u
<1>6. /\ \A x : Lookup(u, x) = Lookup(t, x) /\ (Has(u, x) <=> Has(t, x))
      /\ \A x : Has(t, x) => LocOf(u, x) = LocOf(t, x)
  BY <1>2, <1>5, Alike
<1>7. ASSUME NEW x, x # a, Has(t, x) PROVE Obj(u, x) = Obj(t, x)
  <2>1. /\ Lookup(t, x) \in DOMAIN t.db /\ t.db[Lookup(t, x)].id = x
    BY <1>2, <1>7, Found
  <2>2. t.db[Lookup(t, a)].id = a
    BY <1>2, Found
  <2> QED BY <1>5, <1>6, <1>7, <2>1, <2>2 DEF Updated, Obj
<1>8. /\ Obj(u, a).val = snap[a].val
      /\ p # NotTha => Obj(u, a).ptr = Pointee(t, m)
      /\ u.orphans = IF IsOrphan(t, m) THEN Cons([from |-> LocOf(t, a), target |-> p], t.orphans)
                     ELSE t.orphans
  BY <1>1, <1>2, <1>5, <1>6 DEF Updated, Obj, Has, LocOf
<1>9. t.orphans \in Seq(Entry(L))
  BY DEF Machine
<1>10. /\ \A e \in DOMAIN t.orphans : \E f \in DOMAIN u.orphans : u.orphans[f] = t.orphans[e]
       /\ \A f \in DOMAIN u.orphans :
             \/ \E e \in DOMAIN t.orphans : u.orphans[f] = t.orphans[e]
             \/ u.orphans[f].from = LocOf(t, a) /\ u.orphans[f].target = p
       /\ IsOrphan(t, m) => \E f \in DOMAIN u.orphans :
                               u.orphans[f].from = LocOf(t, a) /\ u.orphans[f].target = p
  <2>1. CASE ~IsOrphan(t, m)
    BY <1>8, <2>1
  <2>2. CASE IsOrphan(t, m)
    <3> DEFINE entry == [from |-> LocOf(t, a), target |-> p]
               c == Cons(entry, t.orphans)
    <3>1. entry.from = LocOf(t, a) /\ entry.target = p
      OBVIOUS
    <3> HIDE DEF entry
    <3>2. /\ c[1] = entry /\ 1 \in DOMAIN c
          /\ \A e \in DOMAIN t.orphans : e + 1 \in DOMAIN c /\ c[e + 1] = t.orphans[e]
          /\ \A f \in DOMAIN c : f # 1 => f - 1 \in DOMAIN t.orphans /\ c[f] = t.orphans[f - 1]
      BY <1>9 DEF Cons
    <3>3. u.orphans = c
      BY <1>8, <2>2 DEF entry
    <3> HIDE DEF c
    <3> QED BY <2>2, <3>1, <3>2, <3>3
  <2> QED BY <2>1, <2>2
<1>11. Placed(u, a, snap)
  <2>1. p \in DOMAIN snap \cup {Null, NotTha} /\ DOMAIN snap \subseteq Addr
    BY <1>1 DEF IsSync
  <2>2. p = Null => Obj(u, a).ptr = Null
    BY <1>1, <1>8, DistinctAssumption DEF Pointee
  <2>3. ASSUME p \in DOMAIN snap
        PROVE  \/ \E e \in DOMAIN u.orphans : PointerOf(u, e, a, snap)
               \/ Has(u, p) /\ Obj(u, a).ptr = LocOf(u, p)
    <3>1. CASE IsOrphan(t, m)
      BY <1>2, <1>6, <1>10, <3>1 DEF PointerOf
    <3>2. CASE ~IsOrphan(t, m)
      <4>1. p \in Addr /\ p # Null /\ p # NotTha
        BY <2>1, <2>3, DistinctAssumption
      <4>2. Has(t, p)
        BY <1>1, <3>2, <4>1 DEF IsOrphan
      <4>3. Obj(u, a).ptr = LocOf(t, p)
        BY <1>1, <1>8, <3>2, <4>1 DEF Pointee
      <4> QED BY <1>6, <4>2, <4>3
    <3> QED BY <3>1, <3>2
  <2>4. Has(u, a)
    BY <1>2, <1>6
  <2> QED BY <1>8, <2>2, <2>3, <2>4 DEF Placed
<1>12. ASSUME NEW j \in 1..k PROVE Placed(u, ord[j], snap)
  <2> DEFINE x == ord[j]
  <2>1. Placed(t, x, snap) /\ x # a
    BY <1>1, <1>2 DEF Arrived
  <2> HIDE DEF x
  <2>2. Has(t, x) /\ Has(u, x) /\ Obj(u, x) = Obj(t, x) /\ LocOf(u, x) = LocOf(t, x)
    BY <1>6, <1>7, <2>1 DEF Placed
  <2>3. ASSUME snap[x].ptr \in DOMAIN snap
        PROVE  \/ \E e \in DOMAIN u.orphans : PointerOf(u, e, x, snap)
               \/ Has(u, snap[x].ptr) /\ Obj(u, x).ptr = LocOf(u, snap[x].ptr)
    <3>1. CASE \E e \in DOMAIN t.orphans : PointerOf(t, e, x, snap)
      <4>1. PICK e \in DOMAIN t.orphans : PointerOf(t, e, x, snap)
        BY <3>1
      <4>2. PICK f \in DOMAIN u.orphans : u.orphans[f] = t.orphans[e]
        BY <1>10
      <4> QED BY <2>2, <4>1, <4>2 DEF PointerOf
    <3>2. CASE Has(t, snap[x].ptr) /\ Obj(t, x).ptr = LocOf(t, snap[x].ptr)
      BY <1>6, <2>2, <3>2
    <3> QED BY <2>1, <2>3, <3>1, <3>2 DEF Placed
  <2>4. Obj(u, x).val = snap[x].val /\ (snap[x].ptr = Null => Obj(u, x).ptr = Null)
    BY <2>1, <2>2 DEF Placed
  <2>5. Placed(u, x, snap)
    BY <2>2, <2>3, <2>4 DEF Placed
  <2> QED BY <2>5 DEF x
<1>13. ASSUME NEW f \in DOMAIN u.orphans PROVE \E j \in 1..(k + 1) : PointerOf(u, f, ord[j], snap)
  <2>1. CASE u.orphans[f].from = LocOf(t, a) /\ u.orphans[f].target = p
    <3>1. PointerOf(u, f, ord[k + 1], snap)
      BY <1>2, <1>6, <2>1 DEF PointerOf
    <3>2. k + 1 \in 1..(k + 1)
      OBVIOUS
    <3> QED BY <3>1, <3>2
  <2>2. CASE \E e \in DOMAIN t.orphans : u.orphans[f] = t.orphans[e]
    <3>1. PICK e \in DOMAIN t.orphans : u.orphans[f] = t.orphans[e]
      BY <2>2
    <3>2. PICK j \in 1..k : PointerOf(t, e, ord[j], snap)
      BY <1>2 DEF Arrived
    <3>3. Has(t, ord[j])
      BY <1>2 DEF Arrived, Placed
    <3>4. PointerOf(u, f, ord[j], snap)
      BY <1>6, <3>1, <3>2, <3>3 DEF PointerOf
    <3>5. j \in 1..(k + 1)
      OBVIOUS
    <3> QED BY <3>4, <3>5
  <2> QED BY <1>10, <2>1, <2>2
<1>14. \A j \in 1..(k + 1) : Placed(u, ord[j], snap)
  <2>1. \A j \in 1..(k + 1) : j = k + 1 \/ j \in 1..k
    OBVIOUS
  <2> QED BY <1>11, <1>12, <2>1
<1>15. Arrived(u, ord, snap, k + 1)
  BY <1>13, <1>14 DEF Arrived
<1> QED BY <1>5, <1>15 DEF u

\* ORPHAN_COMMIT, when all objects have arrived.
LEMMA CommitArrives ==
    ASSUME NEW V, NEW L, L \cap {Null, Dangling} = {}, NEW s \in Machine(V, L), DistinctLocs(s), s.status = "up",
           NEW ord, NEW snap, IsSync(ord, snap),
           Arrived(s, ord, snap, Len(ord))
    PROVE  Resolvable(s) /\ CommitOrphans(s).orphans = <<>> /\ Holds(CommitOrphans(s), snap)
<1> DEFINE t == CommitOrphans(s)
<1>1. \A a \in DOMAIN snap : /\ Placed(s, a, snap)
                             /\ a \in Addr
                             /\ snap[a].ptr \in DOMAIN snap \cup {Null, NotTha}
  <2>1. ord \in Seq(Addr) /\ DOMAIN ord = 1..Len(ord)
    BY DEF IsSync
  <2> QED BY <2>1 DEF IsSync, Arrived
<1>2. \A e \in DOMAIN s.orphans : \E a \in DOMAIN snap : PointerOf(s, e, a, snap)
  <2>1. ord \in Seq(Addr) /\ DOMAIN ord = 1..Len(ord)
    BY DEF IsSync
  <2> QED BY <2>1 DEF IsSync, Arrived
<1>3. s \in Machine(V, L) /\ s.orphans \in Seq(Entry(L))
  BY DEF Machine
<1>4. Resolvable(s)
  <2> SUFFICES ASSUME NEW e \in DOMAIN s.orphans
               PROVE  Has(s, s.orphans[e].target) /\ s.orphans[e].from # Dangling
    BY DEF Resolvable
  <2>1. PICK a \in DOMAIN snap : PointerOf(s, e, a, snap)
    BY <1>2
  <2>2. s.orphans[e].from # Dangling
    BY <1>1, <2>1, Found DEF PointerOf, Placed
  <2>3. s.orphans[e].target \in Addr
    <3>1. s.orphans[e] \in Entry(L)
      BY <1>3
    <3> QED BY <3>1 DEF Entry
  <2>4. snap[a].ptr \in DOMAIN snap
    BY <1>1, <2>1, <2>3, DistinctAssumption DEF PointerOf
  <2> QED BY <1>1, <2>1, <2>2, <2>4 DEF PointerOf, Placed
<1>5. /\ t \in Machine(V, L) /\ SameShape(s, t) /\ t.status = s.status /\ t.orphans = <<>> /\ Linked(s, t)
  BY <1>3, <1>4, CommitFacts
<1> HIDE DEF t
<1>6. /\ \A x : Lookup(t, x) = Lookup(s, x) /\ (Has(t, x) <=> Has(s, x))
      /\ \A x : Has(s, x) => LocOf(t, x) = LocOf(s, x)
  BY <1>5, Alike
<1>7. ASSUME NEW a \in DOMAIN snap
      PROVE  /\ Has(t, a) /\ Obj(t, a).val = snap[a].val
             /\ snap[a].ptr = Null => Obj(t, a).ptr = Null
             /\ snap[a].ptr \in DOMAIN snap =>
                   Has(t, snap[a].ptr) /\ Obj(t, a).ptr = LocOf(t, snap[a].ptr)
  <2> DEFINE i == Lookup(s, a)
  <2>1. Placed(s, a, snap) /\ Has(s, a) /\ i \in DOMAIN s.db /\ s.db[i].loc = LocOf(s, a)
    BY <1>1, Found DEF Placed, Obj
  <2>2. Obj(t, a) = t.db[i] /\ Obj(s, a) = s.db[i]
    BY <1>6 DEF Obj
  <2> HIDE DEF i
  <2>3. /\ t.db[i].val = s.db[i].val
        /\ (\A e \in DOMAIN s.orphans : s.orphans[e].from # LocOf(s, a)) => t.db[i].ptr = s.db[i].ptr
        /\ (\E e \in DOMAIN s.orphans : s.orphans[e].from = LocOf(s, a))
           => \E e \in DOMAIN s.orphans : /\ s.orphans[e].from = LocOf(s, a)
                                          /\ t.db[i].ptr = LocOf(s, s.orphans[e].target)
    BY <1>5, <2>1 DEF Linked
  <2>4. ASSUME NEW e \in DOMAIN s.orphans, s.orphans[e].from = LocOf(s, a)
        PROVE  s.orphans[e].target = snap[a].ptr /\ snap[a].ptr \in Addr
    <3>1. PICK b \in DOMAIN snap : PointerOf(s, e, b, snap)
      BY <1>2
    <3>2. Has(s, b) /\ LocOf(s, b) = LocOf(s, a)
      BY <1>1, <2>4, <3>1 DEF PointerOf, Placed
    <3>3. a = b
      BY <2>1, <3>2, Apart
    <3>4. s.orphans[e].target \in Addr
      <4>1. s.orphans[e] \in Entry(L)
        BY <1>3
      <4> QED BY <4>1 DEF Entry
    <3> QED BY <3>1, <3>3, <3>4 DEF PointerOf
  <2>5. CASE \E e \in DOMAIN s.orphans : s.orphans[e].from = LocOf(s, a)
    <3>1. PICK e \in DOMAIN s.orphans : /\ s.orphans[e].from = LocOf(s, a)
                                        /\ t.db[i].ptr = LocOf(s, s.orphans[e].target)
      BY <2>3, <2>5
    <3>2. s.orphans[e].target = snap[a].ptr /\ snap[a].ptr \in Addr
      BY <2>4, <3>1
    <3>3. snap[a].ptr \in DOMAIN snap
      BY <1>1, <3>2, DistinctAssumption
    <3>4. Has(s, snap[a].ptr) /\ snap[a].ptr # Null
      BY <1>1, <3>2, <3>3, DistinctAssumption DEF Placed
    <3> QED BY <1>6, <2>1, <2>2, <2>3, <3>1, <3>2, <3>4 DEF Placed
  <2>6. CASE \A e \in DOMAIN s.orphans : s.orphans[e].from # LocOf(s, a)
    BY <1>6, <2>1, <2>2, <2>3, <2>6 DEF Placed, PointerOf
  <2> QED BY <2>5, <2>6
<1>8. Null \notin DOMAIN snap
  BY <1>1, DistinctAssumption
<1> QED BY <1>4, <1>5, <1>7, <1>8 DEF Holds, Has, Obj, t
=============================================================================
