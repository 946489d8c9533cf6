-------------------------- MODULE StandbyBoot_proofs --------------------------
(***************************************************************************)
(* The list that two threads build without a lock has no cycle, keeps      *)
(* every record whose linking was not disturbed, and is exact as long as   *)
(* the threads take turns, for any numbers of objects.                     *)
(*                                                                         *)
(* The properties walk along the list with a recursive function.  The      *)
(* proofs look at the set of the records that a record leads to instead:   *)
(* the least set with the record in it that no link leaves.  A lemma says  *)
(* that the walk from head finds just these.                               *)
(***************************************************************************)
EXTENDS StandbyBoot, FiniteSetTheorems, WellFoundedInduction, TLAPS

(***************************************************************************)
(* Induction, over the set of numbers that have a property.                *)
(***************************************************************************)

LessThan == {ss \in Nat \X Nat : ss[1] < ss[2]}

\* A set of natural numbers that 0 and the successors of its elements are in
\* has no least number outside.
LEMMA NatSetInduction ==
    ASSUME NEW S, 0 \in S, \A n \in Nat : n \in S => n + 1 \in S
    PROVE  Nat \subseteq S
<1> DEFINE T == Nat \ S
<1>1. SUFFICES ASSUME T # {} PROVE FALSE
  OBVIOUS
<1>2. PICK x \in T : \A y \in T : ~(<<y, x>> \in LessThan)
  <2>1. IsWellFoundedOn(LessThan, Nat) /\ T \subseteq Nat
    BY NatLessThanWellFounded DEF OpToRel, LessThan
  <2> HIDE DEF T
  <2> QED BY <1>1, <2>1, WFMin
<1>3. x # 0 /\ x - 1 \in Nat /\ (x - 1) + 1 = x
  OBVIOUS
<1>4. x - 1 \in T
  BY <1>3
<1>5. <<x - 1, x>> \in LessThan
  BY <1>3 DEF LessThan
<1> QED BY <1>2, <1>4, <1>5

(***************************************************************************)
(* What a record leads to.                                                 *)
(***************************************************************************)

\* No link of nx leads out of S.
Closed(nx, S) == \A r \in S : nx[r] \in S \cup {Null}

\* The records that p leads to along nx, p itself included.
Leads(nx, p) == {r \in Rec : \A S \in SUBSET Rec : Closed(nx, S) /\ p \in S \cup {Null} => r \in S}

\* Every set of records of P has a way out.
NoCycle(nx, P) == \A S \in SUBSET P : S # {} => \E r \in S : nx[r] \notin S

LEMMA LeadsLeast ==
    ASSUME NEW nx, NEW p, NEW S \in SUBSET Rec, Closed(nx, S), p \in S \cup {Null}
    PROVE  Leads(nx, p) \subseteq S
BY DEF Leads

LEMMA LeadsClosed ==
    ASSUME NEW nx \in [Rec -> Link], NEW p
    PROVE  Closed(nx, Leads(nx, p)) /\ Leads(nx, p) \in SUBSET Rec
<1>1. ASSUME NEW r \in Leads(nx, p), nx[r] # Null PROVE nx[r] \in Leads(nx, p)
  <2>1. nx[r] \in Rec
    BY <1>1 DEF Leads, Link
  <2>2. ASSUME NEW S \in SUBSET Rec, Closed(nx, S), p \in S \cup {Null} PROVE nx[r] \in S
    BY <1>1, <2>2, LeadsLeast DEF Closed
  <2> QED BY <2>1, <2>2 DEF Leads
<1> QED BY <1>1 DEF Closed, Leads

LEMMA LeadsNull ==
    ASSUME NEW nx
    PROVE  Leads(nx, Null) = {}
<1>1. Closed(nx, {}) /\ {} \in SUBSET Rec /\ Null \in {} \cup {Null}
  BY DEF Closed
<1> QED BY <1>1, LeadsLeast

LEMMA LeadsSelf ==
    ASSUME NEW nx, NEW p \in Rec
    PROVE  p \in Leads(nx, p)
BY NullAssumption DEF Leads

LEMMA LeadsOn ==
    ASSUME NEW nx \in [Rec -> Link], NEW p, NEW r \in Leads(nx, p)
    PROVE  Leads(nx, r) \subseteq Leads(nx, p)
BY LeadsClosed, LeadsLeast

\* A record leads to itself and to what the next one leads to.
LEMMA LeadsStep ==
    ASSUME NEW nx \in [Rec -> Link], NEW p \in Rec
    PROVE  Leads(nx, p) = {p} \cup Leads(nx, nx[p])
<1> DEFINE S == {p} \cup Leads(nx, nx[p])
<1>1. nx[p] # Null => nx[p] \in Leads(nx, nx[p])
  BY LeadsSelf DEF Link
<1>2. Closed(nx, S) /\ S \in SUBSET Rec
  BY <1>1, LeadsClosed DEF Closed
<1>3. Leads(nx, p) \subseteq S
  <2>1. p \in S \cup {Null}
    OBVIOUS
  <2> HIDE DEF S
  <2> QED BY <1>2, <2>1, LeadsLeast
<1>4. nx[p] \in Leads(nx, p) \cup {Null}
  BY LeadsSelf, LeadsClosed DEF Closed
<1>5. Leads(nx, nx[p]) \subseteq Leads(nx, p)
  BY <1>4, LeadsClosed, LeadsLeast
<1> QED BY <1>3, <1>5, LeadsSelf

\* Without a cycle nothing leads back.
LEMMA NoWayBack ==
    ASSUME NEW nx \in [Rec -> Link], NEW P \in SUBSET Rec, Closed(nx, P), NoCycle(nx, P), NEW p \in P
    PROVE  p \notin Leads(nx, nx[p])
<1> SUFFICES ASSUME p \in Leads(nx, nx[p]) PROVE FALSE
  OBVIOUS
<1> DEFINE S == {s \in P : p \in Leads(nx, s)}
<1>1. p \in S
  BY LeadsSelf
<1>2. PICK r \in S : nx[r] \notin S
  BY <1>1 DEF NoCycle
<1>3. p \in Leads(nx, nx[r])
  <2>1. CASE r = p
    BY <2>1
  <2>2. CASE r # p
    BY <2>2, LeadsStep
  <2> QED BY <2>1, <2>2
<1>4. nx[r] # Null
  BY <1>3, LeadsNull
<1>5. nx[r] \in P
  BY <1>2, <1>4 DEF Closed
<1> QED BY <1>2, <1>3, <1>5

\* What the links of a closed set lead to depends on these links only.
LEMMA LeadsSame ==
    ASSUME NEW nx \in [Rec -> Link], NEW ny \in [Rec -> Link], NEW P \in SUBSET Rec, Closed(nx, P),
           \A r \in P : nx[r] = ny[r], NEW p \in P \cup {Null}
    PROVE  Leads(ny, p) = Leads(nx, p)
<1>1. Closed(ny, P)
  BY DEF Closed
<1>2. Leads(nx, p) \subseteq P /\ Leads(ny, p) \subseteq P
  BY <1>1, LeadsLeast
<1>3. Closed(ny, Leads(nx, p)) /\ Closed(nx, Leads(ny, p))
  BY <1>2, LeadsClosed DEF Closed
<1>4. p \in Leads(nx, p) \cup {Null} /\ p \in Leads(ny, p) \cup {Null}
  BY LeadsSelf
<1> QED BY <1>3, <1>4, LeadsClosed, LeadsLeast

LEMMA RecFacts ==
    /\ IsFiniteSet(Rec) /\ Cardinality(Rec) \in Nat
    /\ \A o \in Global : <<o, "main">> \in Rec
    /\ \A o \in Object : <<o, "recv">> \in Rec
    /\ \A r \in Rec : r = <<r[1], r[2]>> /\ r[1] \in Object /\ r[2] \in Thread /\ (r[2] = "main" => r[1] \in Global)
<1>1. IsFiniteSet(Global)
  <2>1. DOMAIN Order = 1..Len(Order) /\ Len(Order) \in Nat
    BY OrderAssumption
  <2>2. IsFiniteSet(DOMAIN Order)
    BY <2>1, FS_Interval
  <2>3. Order \in Surjection(DOMAIN Order, Global)
    BY OrderAssumption DEF Global, Surjection
  <2> QED BY <2>2, <2>3, FS_Surjection
<1>2. IsFiniteSet(Object)
  BY <1>1, HeapAssumption, FS_Union DEF Object
<1>3. IsFiniteSet({"main"}) /\ IsFiniteSet({"recv"})
  BY FS_Singleton
<1>4. IsFiniteSet(Rec)
  BY <1>1, <1>2, <1>3, FS_Product, FS_Union DEF Rec
<1>5. Cardinality(Rec) \in Nat
  BY <1>4, FS_CardinalityType
<1> QED BY <1>4, <1>5 DEF Rec, Object, Thread

(***************************************************************************)
(* The walk along a list.                                                  *)
(***************************************************************************)

\* f is the walk of n steps from p along nx.
Steps(f, nx, p, n) ==
    f = [k \in 0..n |-> IF k = 0 THEN p ELSE IF f[k - 1] = Null THEN Null ELSE nx[f[k - 1]]]

\* The recursion of Walk is well defined.
LEMMA StepsExist ==
    ASSUME NEW nx, NEW p, NEW n \in Nat
    PROVE  \E f : Steps(f, nx, p, n)
<1> DEFINE S == {k \in Nat : \E f : Steps(f, nx, p, k)}
<1>1. 0 \in S
  <2>1. Steps([k \in 0..0 |-> p], nx, p, 0)
    BY DEF Steps
  <2> QED BY <2>1
<1>2. ASSUME NEW k \in Nat, k \in S PROVE k + 1 \in S
  <2>1. PICK f : Steps(f, nx, p, k)
    BY <1>2
  <2> DEFINE last == IF f[k] = Null THEN Null ELSE nx[f[k]]
             g == [i \in 0..(k + 1) |-> IF i = k + 1 THEN last ELSE f[i]]
  <2>2. \A i \in 0..k : g[i] = f[i]
    OBVIOUS
  <2>3. Steps(g, nx, p, k + 1)
    <3> SUFFICES ASSUME NEW i \in 0..(k + 1)
                 PROVE  g[i] = IF i = 0 THEN p ELSE IF g[i - 1] = Null THEN Null ELSE nx[g[i - 1]]
      BY Zenon DEF g, Steps
    <3>1. CASE i = 0
      BY <2>1, <2>2, <3>1 DEF Steps
    <3>2. CASE i \in 1..k
      <4>1. i \in 0..k /\ i - 1 \in 0..k /\ i # 0
        BY <3>2
      <4>2. f[i] = IF f[i - 1] = Null THEN Null ELSE nx[f[i - 1]]
        BY <2>1, <4>1 DEF Steps
      <4>3. g[i] = f[i] /\ g[i - 1] = f[i - 1]
        BY <2>2, <4>1
      <4> HIDE DEF g
      <4> QED BY <4>1, <4>2, <4>3
    <3>3. CASE i = k + 1
      BY <2>2, <3>3
    <3> QED BY <3>1, <3>2, <3>3
  <2> HIDE DEF g
  <2> QED BY <2>3
<1>3. Nat \subseteq S
  <2> HIDE DEF S
  <2> QED BY <1>1, <1>2, NatSetInduction
<1> QED BY <1>3

\* A shorter walk is a part of a longer one.
LEMMA StepsAgree ==
    ASSUME NEW nx, NEW p, NEW n \in Nat, NEW m \in 0..n, NEW f, NEW g,
           Steps(f, nx, p, n), Steps(g, nx, p, m)
    PROVE  \A k \in 0..m : g[k] = f[k]
<1> DEFINE S == {k \in Nat : k <= m => g[k] = f[k]}
<1>1. 0 \in S
  BY DEF Steps
<1>2. ASSUME NEW k \in Nat, k \in S PROVE k + 1 \in S
  <2> SUFFICES ASSUME k + 1 <= m PROVE g[k + 1] = f[k + 1]
    OBVIOUS
  <2>1. k + 1 \in 0..n /\ k + 1 \in 0..m /\ (k + 1) - 1 = k /\ k + 1 # 0
    OBVIOUS
  <2>2. f[k + 1] = (IF f[k] = Null THEN Null ELSE nx[f[k]]) /\ g[k + 1] = (IF g[k] = Null THEN Null ELSE nx[g[k]])
    BY <2>1 DEF Steps
  <2> QED BY <1>2, <2>2
<1>3. Nat \subseteq S
  <2> HIDE DEF S
  <2> QED BY <1>1, <1>2, NatSetInduction
<1> QED BY <1>3

\* Where the walk stands it stands on a record of the list, or at its end; the
\* records that come later are those that the earlier ones lead to.
LEMMA StepsLead ==
    ASSUME NEW nx \in [Rec -> Link], NEW p \in Link, NEW n \in Nat, NEW f, Steps(f, nx, p, n)
    PROVE  /\ \A k \in 0..n : f[k] \in Link
           /\ \A i \in 0..n : \A j \in i..n : f[j] # Null => f[j] \in Leads(nx, f[i])
<1>1. \A k \in 0..n : k # 0 => f[k] = IF f[k - 1] = Null THEN Null ELSE nx[f[k - 1]]
  BY DEF Steps
<1>2. \A k \in 0..n : f[k] \in Link
  <2> DEFINE S == {k \in Nat : k <= n => f[k] \in Link}
  <2>1. 0 \in S
    BY DEF Steps
  <2>2. ASSUME NEW k \in Nat, k \in S PROVE k + 1 \in S
    <3> SUFFICES ASSUME k + 1 <= n PROVE f[k + 1] \in Link
      OBVIOUS
    <3>1. k + 1 \in 0..n /\ (k + 1) - 1 = k /\ k + 1 # 0
      OBVIOUS
    <3> QED BY <1>1, <2>2, <3>1 DEF Link
  <2>3. Nat \subseteq S
    <3> HIDE DEF S
    <3> QED BY <2>1, <2>2, NatSetInduction
  <2> QED BY <2>3
<1>3. ASSUME NEW i \in 0..n PROVE \A j \in i..n : f[j] # Null => f[j] \in Leads(nx, f[i])
  <2> DEFINE S == {d \in Nat : i + d <= n => (f[i + d] # Null => f[i + d] \in Leads(nx, f[i]))}
  <2>1. 0 \in S
    <3>1. i + 0 = i
      OBVIOUS
    <3> QED BY <1>2, <3>1, LeadsSelf DEF Link
  <2>2. ASSUME NEW d \in Nat, d \in S PROVE d + 1 \in S
    <3> DEFINE k == i + d
    <3> SUFFICES ASSUME k + 1 <= n, f[k + 1] # Null PROVE f[k + 1] \in Leads(nx, f[i])
      BY i + (d + 1) = (i + d) + 1
    <3>1. k + 1 \in 0..n /\ (k + 1) - 1 = k /\ k + 1 # 0 /\ k <= n
      OBVIOUS
    <3>2. f[k] \in Leads(nx, f[i]) /\ f[k + 1] = nx[f[k]]
      BY <1>1, <2>2, <3>1
    <3> HIDE DEF k
    <3> QED BY <3>2, LeadsClosed DEF Closed
  <2>3. Nat \subseteq S
    <3> HIDE DEF S
    <3> QED BY <2>1, <2>2, NatSetInduction
  <2>4. \A j \in i..n : j - i \in Nat /\ i + (j - i) = j
    OBVIOUS
  <2> QED BY <2>3, <2>4
<1> QED BY <1>2, <1>3

\* Without a cycle, as many steps as there are records lead to the end.
LEMMA StepsEnd ==
    ASSUME NEW nx \in [Rec -> Link], NEW P \in SUBSET Rec, Closed(nx, P), NoCycle(nx, P), NEW p \in P \cup {Null},
           NEW f, Steps(f, nx, p, Cardinality(Rec))
    PROVE  f[Cardinality(Rec)] = Null
<1> DEFINE n == Cardinality(Rec)
<1>0. n \in Nat /\ IsFiniteSet(Rec)
  BY RecFacts
<1>1. p \in Link
  BY DEF Link
<1> HIDE DEF n
<1>2. /\ \A k \in 0..n : f[k] \in Link
      /\ \A i \in 0..n : \A j \in i..n : f[j] # Null => f[j] \in Leads(nx, f[i])
  BY <1>0, <1>1, StepsLead DEF n
<1>3. \A k \in 0..n : k # 0 => f[k] = IF f[k - 1] = Null THEN Null ELSE nx[f[k - 1]]
  BY DEF Steps, n
<1> SUFFICES ASSUME f[n] # Null PROVE FALSE
  BY DEF n
<1>4. \A k \in 0..n : f[k] # Null
  <2> DEFINE S == {d \in Nat : d <= n => f[n - d] # Null}
  <2>1. 0 \in S
    BY <1>0
  <2>2. ASSUME NEW d \in Nat, d \in S PROVE d + 1 \in S
    <3> SUFFICES ASSUME d + 1 <= n PROVE f[n - (d + 1)] # Null
      OBVIOUS
    <3>1. n - d \in 0..n /\ n - d # 0 /\ (n - d) - 1 = n - (d + 1) /\ d <= n
      BY <1>0
    <3> QED BY <1>3, <2>2, <3>1
  <2>3. Nat \subseteq S
    <3> HIDE DEF S
    <3> QED BY <2>1, <2>2, NatSetInduction
  <2>4. \A k \in 0..n : n - k \in Nat /\ n - (n - k) = k /\ n - k <= n
    BY <1>0
  <2> QED BY <2>3, <2>4
<1>5. \E i, j \in 0..n : i # j /\ f[i] = f[j]
  <2>1. f \in [0..n -> Rec]
    BY <1>2, <1>4 DEF Steps, n, Link
  <2>2. IsFiniteSet(0..n) /\ Cardinality(0..n) = n + 1
    BY <1>0, FS_Interval
  <2>3. Cardinality(Rec) < Cardinality(0..n)
    BY <1>0, <2>2 DEF n
  <2> QED BY <1>0, <2>1, <2>2, <2>3, FS_PigeonHole
<1>6. PICK i \in 0..n, j \in 0..n : i < j /\ f[i] = f[j]
  BY <1>0, <1>5
<1>7. i + 1 \in 0..n /\ j \in (i + 1)..n /\ (i + 1) - 1 = i /\ i + 1 # 0
  BY <1>0, <1>6
<1>8. f[i + 1] = nx[f[i]] /\ f[i] \in Leads(nx, nx[f[i]])
  BY <1>2, <1>3, <1>4, <1>6, <1>7
<1>9. f[i] \in P
  <2>1. 0 \in 0..n /\ i \in 0..n
    BY <1>0
  <2>2. f[i] \in Leads(nx, f[0])
    BY <1>2, <1>4, <2>1
  <2>3. f[0] = p
    BY <2>1 DEF Steps, n
  <2>4. Leads(nx, p) \subseteq P
    BY LeadsLeast
  <2> QED BY <2>2, <2>3, <2>4
<1> QED BY <1>8, <1>9, NoWayBack

(***************************************************************************)
(* The inductive invariant.                                                *)
(***************************************************************************)

Busy(t) == job[t].at # "idle"

\* t is in a lookup, or has just left it.
Searching(t) == job[t].at \in {"look_up", "turn", "missed"}

\* t has allocated its record, and has not counted it yet.
Adding(t) == job[t].at \in {"test", "link", "back", "publish", "count", "add"}

\* The records that have been made the head, and those that are counted.
Pub == {r \in made : \A t \in Thread : Linking(t) => r # Mine(t)}
Counted == {r \in made : \A t \in Thread : Adding(t) => r # Mine(t)}

Ahead(p) == Leads(next, p)

JobType == [op : {"none", "register", "CREATE", "UPDATE", "BULK", "BULK_CREATE"},
            at : {"idle", "look_up", "turn", "missed", "test", "link", "back", "publish", "count", "add"},
            id : Object \cup {Null}, cur : Link, i : Nat]

\* Every variable stays in its set.
Types ==
    /\ head \in Link /\ count \in Nat
    /\ next \in [Rec -> Link] /\ prev \in [Rec -> Link]
    /\ {lists, structs, dead, overlap} \subseteq BOOLEAN
    /\ stage \in 0..Len(Order)
    /\ job \in [Thread -> JobType]
    /\ made \subseteq Rec

\* What the threads do: the main thread registers the global objects in their
\* order, and a record is made once.
Jobs ==
    /\ \A t \in Thread : job[t].at = "idle" <=> job[t].op = "none"
    /\ Busy("main") => job["main"].op = "register" /\ stage # 0 /\ job["main"].id = Order[stage]
    /\ Busy("recv") => job["recv"].op # "register" /\ job["recv"].id \in Object
    /\ job["recv"].op = "CREATE" => job["recv"].id \in Heap
    /\ \A t \in Thread :
          /\ job[t].op \in {"UPDATE", "BULK"} => Searching(t)
          /\ job[t].op \in {"register", "CREATE", "BULK_CREATE"} /\ Searching(t) => Mine(t) \notin made
          /\ Adding(t) => Mine(t) \in made
          /\ job[t].at = "link" => head # Null
    /\ \A i \in DOMAIN Order :
          <<Order[i], "main">> \in made <=> i < stage \/ (i = stage /\ ~Searching("main"))

\* The list runs through records that have been its head, and it has no cycle.
Shape ==
    /\ head \in Pub \cup {Null}
    /\ \A r \in Rec : next[r] \in Pub \cup {Null}
    /\ NoCycle(next, Pub)
    /\ \A t \in Thread : job[t].at = "turn" => job[t].cur \in Pub \cup {Null}

\* count, and what a thread has read of it, is at most the number of the
\* records that are counted.
Counts ==
    /\ count <= Cardinality(Counted)
    /\ \A t \in Thread : job[t].i <= Cardinality(Counted)

\* A record whose linking was not disturbed is on the list, and stays on it
\* when a thread makes its own record the head.
Kept ==
    /\ raced \subseteq made
    /\ Pub \ raced \subseteq Ahead(head)
    /\ \A t \in Thread : job[t].at \in {"back", "publish"} => Pub \ raced \subseteq Ahead(next[Mine(t)])
    /\ (\A t \in Thread : Linking(t)) => \A t \in Thread : Mine(t) \in raced

(***************************************************************************)
(* The walk finds what head leads to.                                      *)
(***************************************************************************)

LEMMA PubIsRec ==
    ASSUME Types
    PROVE  Pub \in SUBSET Rec /\ Counted \in SUBSET Rec
BY DEF Types, Pub, Counted

\* The walk from head, as a function.
IsWalk(f) ==
    /\ \A n \in 0..Cardinality(Rec) : Walk(n) = {f[k] : k \in 0..n} \ {Null}
    /\ f[0] = head /\ f[Cardinality(Rec)] = Null
    /\ \A k \in 0..Cardinality(Rec) :
          /\ f[k] \in Link
          /\ k # 0 => f[k] = IF f[k - 1] = Null THEN Null ELSE next[f[k - 1]]
    /\ \A i \in 0..Cardinality(Rec) : \A j \in i..Cardinality(Rec) : f[j] # Null => f[j] \in Ahead(f[i])

LEMMA WalkExists ==
    ASSUME Types, Shape
    PROVE  \E f : IsWalk(f)
<1> DEFINE n == Cardinality(Rec)
<1>0. n \in Nat
  BY RecFacts
<1>1. PICK f : Steps(f, next, head, n)
  BY <1>0, StepsExist
<1>2. next \in [Rec -> Link] /\ head \in Link /\ Pub \in SUBSET Rec /\ Closed(next, Pub) /\ NoCycle(next, Pub)
      /\ head \in Pub \cup {Null}
  BY PubIsRec DEF Types, Shape, Closed
<1>3. ASSUME NEW m \in 0..n PROVE Walk(m) = {f[k] : k \in 0..m} \ {Null}
  <2> DEFINE g == CHOOSE g : Steps(g, next, head, m)
  <2>1. Steps(g, next, head, m)
    BY <1>0, StepsExist
  <2>2. Walk(m) = {g[k] : k \in 0..m} \ {Null}
    BY DEF Walk, Steps
  <2> HIDE DEF g
  <2>3. \A k \in 0..m : g[k] = f[k]
    BY <1>0, <1>1, <2>1, StepsAgree
  <2> QED BY <2>2, <2>3
<1>4. f[n] = Null
  BY <1>1, <1>2, StepsEnd
<1>5. f[0] = head /\ \A k \in 0..n : k # 0 => f[k] = IF f[k - 1] = Null THEN Null ELSE next[f[k - 1]]
  BY <1>0, <1>1 DEF Steps
<1>6. /\ \A k \in 0..n : f[k] \in Link
      /\ \A i \in 0..n : \A j \in i..n : f[j] # Null => f[j] \in Ahead(f[i])
  <2> HIDE DEF n
  <2> QED BY <1>0, <1>1, <1>2, StepsLead DEF Ahead
<1> QED BY <1>3, <1>4, <1>5, <1>6 DEF IsWalk

LEMMA OnListIs ==
    ASSUME Types, Shape
    PROVE  OnList = Ahead(head) /\ OnList \subseteq Pub
<1> DEFINE n == Cardinality(Rec)
<1>0. n \in Nat
  BY RecFacts
<1>1. PICK f : IsWalk(f)
  BY WalkExists
<1>2. OnList = {f[k] : k \in 0..n} \ {Null}
  BY <1>0, <1>1 DEF OnList, IsWalk
<1>3. OnList \subseteq Ahead(head)
  BY <1>0, <1>1, <1>2 DEF IsWalk
<1>4. OnList \in SUBSET Rec
  BY <1>1, <1>2 DEF IsWalk, Link
<1>5. Closed(next, OnList)
  <2> SUFFICES ASSUME NEW k \in 0..n, f[k] # Null PROVE next[f[k]] \in OnList \cup {Null}
    BY <1>2 DEF Closed
  <2>1. k # n /\ k + 1 \in 0..n /\ (k + 1) - 1 = k /\ k + 1 # 0
    BY <1>0, <1>1 DEF IsWalk
  <2>2. f[k + 1] = next[f[k]]
    BY <1>1, <2>1 DEF IsWalk
  <2> QED BY <1>2, <2>1, <2>2
<1>6. head \in OnList \cup {Null}
  BY <1>0, <1>1, <1>2 DEF IsWalk
<1>7. Ahead(head) \subseteq OnList
  BY <1>4, <1>5, <1>6, LeadsLeast DEF Ahead
<1>8. Ahead(head) \subseteq Pub
  BY PubIsRec, LeadsLeast DEF Ahead, Shape, Closed
<1> QED BY <1>3, <1>7, <1>8

LEMMA TypeOKIs ==
    ASSUME Types, Shape, Counts, Kept
    PROVE  TypeOK
<1>1. OnList \subseteq made
  BY OnListIs DEF Pub
<1>2. ASSUME head # Null PROVE \E r \in OnList : next[r] = Null
  <2>1. head \in OnList
    BY <1>2, OnListIs, LeadsSelf DEF Ahead, Types, Link
  <2>2. PICK r \in OnList : next[r] \notin OnList
    BY <2>1, OnListIs DEF Shape, NoCycle
  <2>3. Closed(next, OnList)
    BY OnListIs, LeadsClosed DEF Types, Ahead
  <2> QED BY <2>2, <2>3 DEF Closed
<1>3. Cardinality(Counted) \in Nat /\ Cardinality(Counted) <= Cardinality(Rec) /\ Cardinality(Rec) \in Nat
  BY RecFacts, PubIsRec, FS_Subset, FS_CardinalityType
<1>4. count \in 0..Cardinality(Rec) /\ \A t \in Thread : job[t].i \in 0..Cardinality(Rec)
  BY <1>3 DEF Counts, Types, JobType
<1>5. job \in [Thread -> [op : {"none", "register", "CREATE", "UPDATE", "BULK", "BULK_CREATE"},
                           at : {"idle", "look_up", "turn", "missed", "test", "link", "back",
                                 "publish", "count", "add"},
                           id : Object \cup {Null}, cur : Link, i : 0..Cardinality(Rec)]]
  BY <1>4 DEF Types, JobType
<1> QED BY <1>1, <1>2, <1>4, <1>5 DEF TypeOK, Types, Kept

(***************************************************************************)
(* The invariant holds at the start.                                       *)
(***************************************************************************)

LEMMA PubAtStart ==
    ASSUME Init
    PROVE  Pub = {} /\ Counted = {}
BY DEF Init, Pub, Counted

LEMMA InitHolds == Init => Types /\ Jobs /\ Shape /\ Counts /\ Kept
<1> SUFFICES ASSUME Init PROVE Types /\ Jobs /\ Shape /\ Counts /\ Kept
  OBVIOUS
<1>1. Len(Order) \in Nat /\ DOMAIN Order = 1..Len(Order)
  BY OrderAssumption
<1>2. Types
  <2>1. job \in [Thread -> [op : {"none"}, at : {"idle"}, id : {Null}, cur : {Null}, i : {0}]]
    BY DEF Init, NoJob, Job
  <2>2. next \in [Rec -> {Null}] /\ prev \in [Rec -> {Null}]
    BY DEF Init
  <2>3. job \in [Thread -> JobType]
    BY <2>1 DEF JobType, Link
  <2>4. next \in [Rec -> Link] /\ prev \in [Rec -> Link] /\ head \in Link /\ count \in Nat
    BY <2>2 DEF Init, Link
  <2>5. {lists, structs, dead, overlap} \subseteq BOOLEAN /\ stage \in 0..Len(Order) /\ made \subseteq Rec
    <3>1. lists = FALSE /\ structs = FALSE /\ dead = FALSE /\ overlap = FALSE /\ stage = 0 /\ made = {}
      BY DEF Init
    <3>2. {lists, structs, dead, overlap} \subseteq BOOLEAN
      BY <3>1, Zenon
    <3> QED BY <1>1, <3>1, <3>2
  <2> QED BY <2>3, <2>4, <2>5 DEF Types
<1>3. Jobs
  BY <1>1 DEF Init, Jobs, NoJob, Job, Thread, Busy, Searching, Adding
<1>4. Cardinality(Counted) = 0 /\ Cardinality({}) = 0
  BY PubAtStart, FS_EmptySet
<1>5. Shape
  BY PubAtStart DEF Init, Shape, NoCycle, NoJob, Job
<1>6. Counts
  BY <1>4 DEF Init, Counts, NoJob, Job
<1>7. Kept
  BY PubAtStart DEF Init, Kept, Linking, Thread, NoJob, Job
<1> QED BY <1>2, <1>3, <1>5, <1>6, <1>7

(***************************************************************************)
(* What a step does.                                                       *)
(***************************************************************************)

\* A step of the program.
Core == Main \/ Receive \/ \E t \in Thread : Step(t)

LEMMA ThreadFacts == \A t, u \in Thread : Mine(t) = Mine(u) => t = u
BY DEF Mine

LEMMA TypesStep ==
    ASSUME Types, Jobs, Core, overlap' \in BOOLEAN
    PROVE  Types'
<1>0. Len(Order) \in Nat /\ \A i \in 1..Len(Order) : Order[i] \in Object
  BY OrderAssumption DEF Object, Global
<1>00. \A t \in Thread : job[t].at # "idle" => Mine(t) \in Rec
  BY RecFacts, <1>0, OrderAssumption DEF Jobs, Busy, Mine, Types, Global, Thread
<1>1. CASE MakeLists
  BY <1>1 DEF MakeLists, Types, db
<1>2. CASE RegisterStructs
  BY <1>2 DEF RegisterStructs, Types, db
<1>3. CASE RegisterGlobal
  <2>1. stage + 1 \in 1..Len(Order) /\ Order[stage + 1] \in Object
    BY <1>0, <1>3 DEF RegisterGlobal, Types
  <2>2. Job("register", "look_up", Order[stage + 1]) \in JobType
    BY <2>1 DEF Job, JobType, Link
  <2>3. job' \in [Thread -> JobType]
    BY <1>3, <2>2 DEF RegisterGlobal, Types
  <2> QED BY <1>0, <1>3, <2>1, <2>3 DEF RegisterGlobal, Types, db
<1>4. ASSUME NEW o \in Heap, TakeCreate(o) PROVE Types'
  BY <1>4 DEF TakeCreate, Types, JobType, Link, db, Job, Object
<1>5. ASSUME NEW o \in Object, NEW op \in {"UPDATE", "BULK"}, TakeUpdate(op, o) PROVE Types'
  BY <1>5 DEF TakeUpdate, Types, JobType, Link, db, Job
<1>6. CASE TakeEarlyCommit
  BY <1>6 DEF TakeEarlyCommit, Types, db
<1>7. ASSUME NEW t \in Thread, LookUp(t) PROVE Types'
  <2> DEFINE a == IF head = Null THEN "missed" ELSE "turn"
  <2>1. a \in {"missed", "turn"} /\ head \in Link
    BY DEF Types
  <2>2. job' = [job EXCEPT ![t] = [job[t] EXCEPT !.cur = head, !.i = 0, !.at = a]]
    BY <1>7, Zenon DEF LookUp
  <2> HIDE DEF a
  <2>3. [job[t] EXCEPT !.cur = head, !.i = 0, !.at = a] \in JobType
    BY <2>1 DEF Types, JobType
  <2>4. job' \in [Thread -> JobType]
    BY <2>2, <2>3 DEF Types
  <2> QED BY <1>7, <2>4 DEF LookUp, Types, db
<1>8. ASSUME NEW t \in Thread, TurnOn(t) PROVE Types'
  <2>1. next[job[t].cur] \in Link /\ job[t].i + 1 \in Nat
    BY <1>8 DEF TurnOn, Types, JobType, Link
  <2> QED BY <1>8, <2>1 DEF TurnOn, Types, JobType, Link, db
<1>9. ASSUME NEW t \in Thread, TurnFinds(t) PROVE Types'
  BY <1>9 DEF TurnFinds, Types, JobType, Link, db, NoJob, Job
<1>10. ASSUME NEW t \in Thread, TurnDies(t) PROVE Types'
  BY <1>10 DEF TurnDies, Types, db
<1>11. ASSUME NEW t \in Thread, LookUpEnds(t) PROVE Types'
  BY <1>11 DEF LookUpEnds, Types, JobType, Link, db, Job
<1>12. ASSUME NEW t \in Thread, Drop(t) PROVE Types'
  BY <1>12 DEF Drop, Types, JobType, Link, db, NoJob, Job
<1>13. ASSUME NEW t \in Thread, BulkCreates(t) PROVE Types'
  BY <1>13 DEF BulkCreates, Types, JobType, Link, db, Job
<1>14. ASSUME NEW t \in Thread, Allocate(t) PROVE Types'
  BY <1>00, <1>14 DEF Allocate, Types, JobType, Link, db, Goes, At
<1>15. ASSUME NEW t \in Thread, TestHead(t) PROVE Types'
  <2> DEFINE a == IF head = Null THEN "publish" ELSE "link"
  <2>1. a \in {"publish", "link"}
    OBVIOUS
  <2>2. job' = [job EXCEPT ![t].at = a]
    BY <1>15, Zenon DEF TestHead, Goes
  <2> HIDE DEF a
  <2> QED BY SMTT(90), <1>15, <2>1, <2>2 DEF TestHead, Types, JobType, Link, db
<1>16. ASSUME NEW t \in Thread, LinkNext(t) PROVE Types'
  <2>1. next' \in [Rec -> Link]
    BY <1>00, <1>16 DEF LinkNext, Types, JobType, Link, At
  <2>2. job' = [job EXCEPT ![t] = [job[t] EXCEPT !.at = "back", !.cur = head]]
    BY <1>16, Zenon DEF LinkNext
  <2>3. [job[t] EXCEPT !.at = "back", !.cur = head] \in JobType
    BY DEF Types, JobType
  <2>4. job' \in [Thread -> JobType]
    BY <2>2, <2>3 DEF Types
  <2> QED BY <1>16, <2>1, <2>4 DEF LinkNext, Types
<1>17. ASSUME NEW t \in Thread, LinkPrev(t) PROVE Types'
  BY ZenonT(40), <1>00, <1>17 DEF LinkPrev, Types, JobType, Link, Goes, At
<1>18. ASSUME NEW t \in Thread, Publish(t) PROVE Types'
  BY <1>00, <1>18 DEF Publish, Types, JobType, Link, Job, At
<1>19. ASSUME NEW t \in Thread, ReadCount(t) PROVE Types'
  <2>1. job' = [job EXCEPT ![t] = [job[t] EXCEPT !.at = "add", !.i = count]]
    BY <1>19, Zenon DEF ReadCount
  <2>3. [job[t] EXCEPT !.at = "add", !.i = count] \in JobType
    BY DEF Types, JobType
  <2>4. job' \in [Thread -> JobType]
    BY <2>1, <2>3 DEF Types
  <2> QED BY <1>19, <2>4 DEF ReadCount, Types, db
<1>20. ASSUME NEW t \in Thread, WriteCount(t) PROVE Types'
  BY <1>20 DEF WriteCount, Types, JobType, Link, Job, NoJob
<1> QED
  BY <1>1, <1>2, <1>3, <1>4, <1>5, <1>6, <1>7, <1>8, <1>9, <1>10, <1>11, <1>12, <1>13, <1>14, <1>15, <1>16, <1>17,
     <1>18, <1>19, <1>20 DEF Core, Main, Receive, Step

LEMMA JobsStep ==
    ASSUME Types, Jobs, Shape, Core
    PROVE  Jobs'
<1> USE DEF Thread
<1>0. Len(Order) \in Nat /\ DOMAIN Order = 1..Len(Order) /\ \A i \in 1..Len(Order) : Order[i] \in Object
  BY OrderAssumption DEF Object, Global
<1>00. \A i, j \in DOMAIN Order : Order[i] = Order[j] => i = j
  BY OrderAssumption
<1>1. CASE MakeLists
  BY <1>1 DEF MakeLists, Jobs, db, Busy, Searching, Adding, Mine
<1>2. CASE RegisterStructs
  BY <1>2 DEF RegisterStructs, Jobs, db, Busy, Searching, Adding, Mine
<1>3. CASE RegisterGlobal
  BY <1>0, <1>00, <1>3 DEF RegisterGlobal, Jobs, db, Job, Types, JobType, Busy, Searching, Adding, Mine, At
<1>4. ASSUME NEW o \in Heap, TakeCreate(o) PROVE Jobs'
  BY <1>4 DEF TakeCreate, Jobs, db, Job, Object, Types, JobType, Busy, Searching, Adding, Mine, At
<1>5. ASSUME NEW o \in Object, NEW op \in {"UPDATE", "BULK"}, TakeUpdate(op, o) PROVE Jobs'
  BY <1>5 DEF TakeUpdate, Jobs, db, Job, Types, JobType, Busy, Searching, Adding, Mine, At
<1>6. CASE TakeEarlyCommit
  BY <1>6 DEF TakeEarlyCommit, Jobs, db, Busy, Searching, Adding, Mine
<1>7. ASSUME NEW t \in Thread, LookUp(t) PROVE Jobs'
  BY <1>7 DEF LookUp, Jobs, db, Types, JobType, Busy, Searching, Adding, Mine, At
<1>8. ASSUME NEW t \in Thread, TurnOn(t) PROVE Jobs'
  <2>1. \A u \in Thread : job'[u].op = job[u].op /\ job'[u].at = job[u].at /\ job'[u].id = job[u].id
    BY <1>8 DEF TurnOn, Types, JobType
  <2>2. head' = head /\ made' = made /\ stage' = stage
    BY <1>8 DEF TurnOn, db
  <2> QED BY <2>1, <2>2 DEF Jobs, Busy, Searching, Adding, Mine, At
<1>9. ASSUME NEW t \in Thread, TurnFinds(t) PROVE Jobs'
  BY <1>9 DEF TurnFinds, Turn, Matches, Jobs, db, NoJob, Job, Types, JobType, Busy, Searching, Adding, Mine, At
<1>10. ASSUME NEW t \in Thread, TurnDies(t) PROVE Jobs'
  BY <1>10 DEF TurnDies, Jobs, db, Busy, Searching, Adding, Mine
<1>11. ASSUME NEW t \in Thread, LookUpEnds(t) PROVE Jobs'
  BY <1>11 DEF LookUpEnds, Jobs, db, Job, Types, JobType, Busy, Searching, Adding, Mine, At
<1>12. ASSUME NEW t \in Thread, Drop(t) PROVE Jobs'
  BY <1>12 DEF Drop, Jobs, db, NoJob, Job, Types, JobType, Busy, Searching, Adding, Mine, At
<1>13. ASSUME NEW t \in Thread, BulkCreates(t) PROVE Jobs'
  BY <1>13 DEF BulkCreates, Jobs, db, Job, Types, JobType, Busy, Searching, Adding, Mine, At
<1>14. ASSUME NEW t \in Thread, Allocate(t) PROVE Jobs'
  BY <1>0, <1>00, <1>14 DEF Allocate, Jobs, db, Goes, Types, JobType, Busy, Searching, Adding, Mine, At
<1>15. ASSUME NEW t \in Thread, TestHead(t) PROVE Jobs'
  BY ZenonT(40), <1>15 DEF TestHead, Jobs, db, Goes, Types, JobType, Busy, Searching, Adding, Mine, At
<1>16. ASSUME NEW t \in Thread, LinkNext(t) PROVE Jobs'
  BY <1>16 DEF LinkNext, Jobs, Types, JobType, Busy, Searching, Adding, Mine, At
<1>17. ASSUME NEW t \in Thread, LinkPrev(t) PROVE Jobs'
  BY <1>17 DEF LinkPrev, Jobs, Goes, Types, JobType, Busy, Searching, Adding, Mine, At
<1>18. ASSUME NEW t \in Thread, Publish(t) PROVE Jobs'
  BY NullAssumption, RecFacts, <1>18 DEF Publish, Jobs, Job, Types, JobType, Busy, Searching, Adding, Mine, At
<1>19. ASSUME NEW t \in Thread, ReadCount(t) PROVE Jobs'
  BY <1>19 DEF ReadCount, Jobs, db, Types, JobType, Busy, Searching, Adding, Mine, At
<1>20. ASSUME NEW t \in Thread, WriteCount(t) PROVE Jobs'
  BY <1>20 DEF WriteCount, Jobs, Job, NoJob, Types, JobType, Busy, Searching, Adding, Mine, At
<1> QED
  BY <1>1, <1>2, <1>3, <1>4, <1>5, <1>6, <1>7, <1>8, <1>9, <1>10, <1>11, <1>12, <1>13, <1>14, <1>15, <1>16, <1>17,
     <1>18, <1>19, <1>20 DEF Core, Main, Receive, Step

\* Making a record the head, and counting it, is what the two sets of records
\* change by.
LEMMA PublishSets ==
    ASSUME Types, Jobs, NEW t \in Thread, Publish(t)
    PROVE  /\ Mine(t) \in Rec \ Pub /\ Pub' = Pub \cup {Mine(t)} /\ Counted' = Counted
           /\ Mine(t)' = Mine(t)
BY DEF Publish, Job, Types, JobType, Jobs, At, Pub, Counted, Adding, Linking, Mine, Thread

LEMMA WriteCountSets ==
    ASSUME Types, Jobs, NEW t \in Thread, WriteCount(t)
    PROVE  Mine(t) \in Rec \ Counted /\ Pub' = Pub /\ Counted' = Counted \cup {Mine(t)}
BY DEF WriteCount, Job, NoJob, Types, JobType, Jobs, At, Pub, Counted, Adding, Linking, Mine, Thread

LEMMA OtherSets ==
    ASSUME Types, Jobs, Core, \A t \in Thread : ~Publish(t) /\ ~WriteCount(t)
    PROVE  Pub' = Pub /\ Counted' = Counted
<1> USE DEF Thread
<1>1. CASE MakeLists
  BY <1>1 DEF MakeLists, At, Types, JobType, Jobs, db, Pub, Counted, Adding, Linking, Mine, Searching
<1>2. CASE RegisterStructs
  BY <1>2 DEF RegisterStructs, At, Types, JobType, Jobs, db, Pub, Counted, Adding, Linking, Mine, Searching
<1>3. CASE RegisterGlobal
  BY <1>3 DEF RegisterGlobal, Job, At, Types, JobType, Jobs, db, Pub, Counted, Adding, Linking, Mine, Searching
<1>4. ASSUME NEW o \in Heap, TakeCreate(o) PROVE Pub' = Pub /\ Counted' = Counted
  BY <1>4 DEF TakeCreate, Job, At, Types, JobType, Jobs, db, Pub, Counted, Adding, Linking, Mine, Searching
<1>5. ASSUME NEW o \in Object, NEW op \in {"UPDATE", "BULK"}, TakeUpdate(op, o) PROVE Pub' = Pub /\ Counted' = Counted
  BY <1>5 DEF TakeUpdate, Job, At, Types, JobType, Jobs, db, Pub, Counted, Adding, Linking, Mine, Searching
<1>6. CASE TakeEarlyCommit
  BY <1>6 DEF TakeEarlyCommit, At, Types, JobType, Jobs, db, Pub, Counted, Adding, Linking, Mine, Searching
<1>7. ASSUME NEW t \in Thread, LookUp(t) PROVE Pub' = Pub /\ Counted' = Counted
  BY <1>7 DEF LookUp, At, Types, JobType, Jobs, db, Pub, Counted, Adding, Linking, Mine, Searching
<1>8. ASSUME NEW t \in Thread, TurnOn(t) PROVE Pub' = Pub /\ Counted' = Counted
  BY <1>8 DEF TurnOn, Turn, At, Types, JobType, Jobs, db, Pub, Counted, Adding, Linking, Mine, Searching
<1>9. ASSUME NEW t \in Thread, TurnFinds(t) PROVE Pub' = Pub /\ Counted' = Counted
  BY <1>9 DEF TurnFinds, Turn, Matches, NoJob, Job, At, Types, JobType, Jobs, db, Pub, Counted, Adding, Linking, Mine, Searching
<1>10. ASSUME NEW t \in Thread, TurnDies(t) PROVE Pub' = Pub /\ Counted' = Counted
  BY <1>10 DEF TurnDies, At, Types, JobType, Jobs, db, Pub, Counted, Adding, Linking, Mine, Searching
<1>11. ASSUME NEW t \in Thread, LookUpEnds(t) PROVE Pub' = Pub /\ Counted' = Counted
  BY <1>11 DEF LookUpEnds, Job, At, Types, JobType, Jobs, db, Pub, Counted, Adding, Linking, Mine, Searching
<1>12. ASSUME NEW t \in Thread, Drop(t) PROVE Pub' = Pub /\ Counted' = Counted
  BY <1>12 DEF Drop, NoJob, Job, At, Types, JobType, Jobs, db, Pub, Counted, Adding, Linking, Mine, Searching
<1>13. ASSUME NEW t \in Thread, BulkCreates(t) PROVE Pub' = Pub /\ Counted' = Counted
  BY <1>13 DEF BulkCreates, Job, At, Types, JobType, Jobs, db, Pub, Counted, Adding, Linking, Mine, Searching
<1>14. ASSUME NEW t \in Thread, Allocate(t) PROVE Pub' = Pub /\ Counted' = Counted
  BY <1>14 DEF Allocate, Goes, At, Types, JobType, Jobs, db, Pub, Counted, Adding, Linking, Mine, Searching
<1>15. ASSUME NEW t \in Thread, TestHead(t) PROVE Pub' = Pub /\ Counted' = Counted
  BY <1>15 DEF TestHead, Goes, At, Types, JobType, Jobs, db, Pub, Counted, Adding, Linking, Mine, Searching
<1>16. ASSUME NEW t \in Thread, LinkNext(t) PROVE Pub' = Pub /\ Counted' = Counted
  BY <1>16 DEF LinkNext, At, Types, JobType, Jobs, db, Pub, Counted, Adding, Linking, Mine, Searching
<1>17. ASSUME NEW t \in Thread, LinkPrev(t) PROVE Pub' = Pub /\ Counted' = Counted
  BY <1>17 DEF LinkPrev, Goes, At, Types, JobType, Jobs, db, Pub, Counted, Adding, Linking, Mine, Searching
<1>18. ASSUME NEW t \in Thread, Publish(t) PROVE Pub' = Pub /\ Counted' = Counted
  BY <1>18
<1>19. ASSUME NEW t \in Thread, ReadCount(t) PROVE Pub' = Pub /\ Counted' = Counted
  BY <1>19 DEF ReadCount, At, Types, JobType, Jobs, db, Pub, Counted, Adding, Linking, Mine, Searching
<1>20. ASSUME NEW t \in Thread, WriteCount(t) PROVE Pub' = Pub /\ Counted' = Counted
  BY <1>20
<1> QED
  BY <1>1, <1>2, <1>3, <1>4, <1>5, <1>6, <1>7, <1>8, <1>9, <1>10, <1>11, <1>12, <1>13, <1>14, <1>15, <1>16, <1>17,
     <1>18, <1>19, <1>20 DEF Core, Main, Receive, Step

\* The records that have been the head stay so.
LEMMA SetsGrow ==
    ASSUME Types, Jobs, Core
    PROVE  Pub \subseteq Pub' /\ Counted \subseteq Counted'
BY PublishSets, WriteCountSets, OtherSets

\* The links of the records that have been the head stay, and only LinkNext
\* sets one.
LEMMA LinksStep ==
    ASSUME Types, Jobs, Core
    PROVE  /\ \A r \in Pub : next'[r] = next[r]
           /\ \A r \in Rec : next'[r] = next[r] \/ next'[r] = head
<1>1. ASSUME NEW t \in Thread, LinkNext(t)
      PROVE  /\ \A r \in Pub : next'[r] = next[r]
             /\ \A r \in Rec : next'[r] = next[r] \/ next'[r] = head
  <2>1. Mine(t) \notin Pub
    BY <1>1 DEF LinkNext, At, Pub, Linking
  <2> QED BY <1>1, <2>1, PubIsRec DEF LinkNext, Types
<1>2. CASE \A t \in Thread : ~LinkNext(t)
  <2>1. next' = next
    BY <1>2 DEF Core, Main, Receive, Step, MakeLists, RegisterStructs, RegisterGlobal, TakeCreate, TakeUpdate,
       TakeEarlyCommit, LookUp, TurnOn, TurnFinds, TurnDies, LookUpEnds, Drop, BulkCreates, Allocate, TestHead,
       LinkPrev, Publish, ReadCount, WriteCount, db
  <2> QED BY <2>1
<1> QED BY <1>1, <1>2

LEMMA HeadStep ==
    ASSUME Core, \A t \in Thread : ~Publish(t)
    PROVE  head' = head
BY DEF Core, Main, Receive, Step, MakeLists, RegisterStructs, RegisterGlobal, TakeCreate, TakeUpdate,
   TakeEarlyCommit, LookUp, TurnOn, TurnFinds, TurnDies, LookUpEnds, Drop, BulkCreates, Allocate, TestHead, LinkNext,
   LinkPrev, ReadCount, WriteCount, db

\* A record that leads to others can be put in front of them.
LEMMA NoCycleStep ==
    ASSUME Types, Jobs, Shape, Core
    PROVE  NoCycle(next', Pub')
<1>1. CASE \A t \in Thread : ~Publish(t)
  <2>1. Pub' = Pub
    BY <1>1, WriteCountSets, OtherSets
  <2> QED BY <2>1, LinksStep DEF Shape, NoCycle
<1>2. ASSUME NEW t \in Thread, Publish(t) PROVE NoCycle(next', Pub')
  <2>1. Mine(t) \in Rec \ Pub /\ Pub' = Pub \cup {Mine(t)} /\ next' = next
    BY <1>2, PublishSets DEF Publish
  <2>2. \A r \in Pub \cup {Mine(t)} : next[r] # Mine(t)
    BY <2>1, PubIsRec, NullAssumption DEF Shape
  <2> SUFFICES ASSUME NEW S \in SUBSET (Pub \cup {Mine(t)}), S # {} PROVE \E r \in S : next[r] \notin S
    BY <2>1 DEF NoCycle
  <2>3. CASE S \subseteq {Mine(t)}
    BY <2>2, <2>3
  <2>4. CASE ~(S \subseteq {Mine(t)})
    <3>1. S \ {Mine(t)} \in SUBSET Pub /\ S \ {Mine(t)} # {}
      BY <2>4
    <3>2. PICK r \in S \ {Mine(t)} : next[r] \notin S \ {Mine(t)}
      BY <3>1 DEF Shape, NoCycle
    <3> QED BY <2>2, <3>2
  <2> QED BY <2>3, <2>4
<1> QED BY <1>1, <1>2

\* A lookup stands on a record that has been the head, or at the end.
CursorsOnList == \A t \in Thread : job[t].at = "turn" => job[t].cur \in Pub \cup {Null}

LEMMA CursorStep ==
    ASSUME Types, Jobs, Shape, Core
    PROVE  CursorsOnList'
<1>0. Pub \subseteq Pub'
  BY SetsGrow
<1>00. CursorsOnList /\ head \in Pub \cup {Null} /\ \A r \in Rec : next[r] \in Pub \cup {Null}
  BY DEF Shape, CursorsOnList
<1> USE <1>0, <1>00
<1>1. CASE MakeLists
  BY <1>1 DEF MakeLists, At, Types, JobType, db, CursorsOnList, Link
<1>2. CASE RegisterStructs
  BY <1>2 DEF RegisterStructs, At, Types, JobType, db, CursorsOnList, Link
<1>3. CASE RegisterGlobal
  BY <1>3 DEF RegisterGlobal, Job, At, Types, JobType, db, CursorsOnList, Link
<1>4. ASSUME NEW o \in Heap, TakeCreate(o) PROVE CursorsOnList'
  BY <1>4 DEF TakeCreate, Job, At, Types, JobType, db, CursorsOnList, Link
<1>5. ASSUME NEW o \in Object, NEW op \in {"UPDATE", "BULK"}, TakeUpdate(op, o) PROVE CursorsOnList'
  BY <1>5 DEF TakeUpdate, Job, At, Types, JobType, db, CursorsOnList, Link
<1>6. CASE TakeEarlyCommit
  BY <1>6 DEF TakeEarlyCommit, At, Types, JobType, db, CursorsOnList, Link
<1>7. ASSUME NEW t \in Thread, LookUp(t) PROVE CursorsOnList'
  BY <1>7 DEF LookUp, At, Types, JobType, db, CursorsOnList, Link
<1>8. ASSUME NEW t \in Thread, TurnOn(t) PROVE CursorsOnList'
  <2>1. job[t].cur \in Rec /\ next[job[t].cur] \in Pub \cup {Null}
    BY <1>8 DEF TurnOn, Types, JobType, Link
  <2> QED BY <1>8, <2>1 DEF TurnOn, Types, JobType, CursorsOnList
<1>9. ASSUME NEW t \in Thread, TurnFinds(t) PROVE CursorsOnList'
  BY <1>9 DEF TurnFinds, Turn, Matches, NoJob, Job, At, Types, JobType, db, CursorsOnList, Link
<1>10. ASSUME NEW t \in Thread, TurnDies(t) PROVE CursorsOnList'
  BY <1>10 DEF TurnDies, At, Types, JobType, db, CursorsOnList, Link
<1>11. ASSUME NEW t \in Thread, LookUpEnds(t) PROVE CursorsOnList'
  BY <1>11 DEF LookUpEnds, Job, At, Types, JobType, db, CursorsOnList, Link
<1>12. ASSUME NEW t \in Thread, Drop(t) PROVE CursorsOnList'
  BY <1>12 DEF Drop, NoJob, Job, At, Types, JobType, db, CursorsOnList, Link
<1>13. ASSUME NEW t \in Thread, BulkCreates(t) PROVE CursorsOnList'
  BY <1>13 DEF BulkCreates, Job, At, Types, JobType, db, CursorsOnList, Link
<1>14. ASSUME NEW t \in Thread, Allocate(t) PROVE CursorsOnList'
  BY <1>14 DEF Allocate, Goes, At, Types, JobType, db, CursorsOnList, Link
<1>15. ASSUME NEW t \in Thread, TestHead(t) PROVE CursorsOnList'
  BY <1>15 DEF TestHead, Goes, At, Types, JobType, db, CursorsOnList, Link
<1>16. ASSUME NEW t \in Thread, LinkNext(t) PROVE CursorsOnList'
  BY <1>16 DEF LinkNext, At, Types, JobType, db, CursorsOnList, Link
<1>17. ASSUME NEW t \in Thread, LinkPrev(t) PROVE CursorsOnList'
  BY <1>17 DEF LinkPrev, Goes, At, Types, JobType, db, CursorsOnList, Link
<1>18. ASSUME NEW t \in Thread, Publish(t) PROVE CursorsOnList'
  BY <1>18 DEF Publish, Job, At, Types, JobType, db, CursorsOnList, Link
<1>19. ASSUME NEW t \in Thread, ReadCount(t) PROVE CursorsOnList'
  BY <1>19 DEF ReadCount, At, Types, JobType, db, CursorsOnList, Link
<1>20. ASSUME NEW t \in Thread, WriteCount(t) PROVE CursorsOnList'
  BY <1>20 DEF WriteCount, Job, NoJob, At, Types, JobType, db, CursorsOnList, Link
<1> QED
  BY <1>1, <1>2, <1>3, <1>4, <1>5, <1>6, <1>7, <1>8, <1>9, <1>10, <1>11, <1>12, <1>13, <1>14, <1>15, <1>16, <1>17,
     <1>18, <1>19, <1>20 DEF Core, Main, Receive, Step

LEMMA ShapeStep ==
    ASSUME Types, Jobs, Shape, Core
    PROVE  Shape'
<1>1. head' \in Pub' \cup {Null}
  <2>1. CASE \A t \in Thread : ~Publish(t)
    BY <2>1, HeadStep, SetsGrow DEF Shape
  <2>2. ASSUME NEW t \in Thread, Publish(t) PROVE head' \in Pub'
    BY <2>2, PublishSets DEF Publish
  <2> QED BY <2>1, <2>2
<1>2. \A r \in Rec : next'[r] \in Pub' \cup {Null}
  BY LinksStep, SetsGrow DEF Shape
<1> QED BY <1>1, <1>2, NoCycleStep, CursorStep DEF Shape, CursorsOnList

(***************************************************************************)
(* count.                                                                  *)
(***************************************************************************)

LEMMA CountedSize ==
    ASSUME Types
    PROVE  IsFiniteSet(Counted) /\ Cardinality(Counted) \in Nat /\ Cardinality(Counted) <= Cardinality(Rec)
BY PubIsRec, RecFacts, FS_Subset, FS_CardinalityType

\* The number of the counted records after a step.
LEMMA CountedStep ==
    ASSUME Types, Jobs, Core
    PROVE  /\ Cardinality(Counted') \in Nat /\ Cardinality(Counted) <= Cardinality(Counted')
           /\ \A t \in Thread : WriteCount(t) => Cardinality(Counted') = Cardinality(Counted) + 1
<1>1. ASSUME NEW t \in Thread, WriteCount(t)
      PROVE  Cardinality(Counted') = Cardinality(Counted) + 1
  <2>1. Mine(t) \notin Counted /\ Counted' = Counted \cup {Mine(t)}
    BY <1>1, WriteCountSets
  <2> QED BY <2>1, CountedSize, FS_AddElement
<1>2. CASE \A t \in Thread : ~WriteCount(t)
  <2>1. Counted' = Counted
    BY <1>2, PublishSets, OtherSets
  <2> QED BY <1>2, <2>1, CountedSize
<1> QED BY <1>1, <1>2, CountedSize

LEMMA CountsStep ==
    ASSUME Types, Jobs, Counts, Core
    PROVE  Counts'
<1> DEFINE n == Cardinality(Counted)
           m == Cardinality(Counted')
<1>0. n \in Nat /\ m \in Nat /\ n <= m /\ \A t \in Thread : WriteCount(t) => m = n + 1
  BY CountedSize, CountedStep
<1>00. count \in Nat /\ count <= n /\ \A t \in Thread : job[t].i \in Nat /\ job[t].i <= n
  BY DEF Counts, Types, JobType
<1> SUFFICES count' <= m /\ \A u \in Thread : job'[u].i <= m
  BY DEF Counts
<1> HIDE DEF n, m
<1> USE <1>0, <1>00
<1>1. CASE MakeLists
  BY <1>1 DEF MakeLists, At, Types, JobType, db
<1>2. CASE RegisterStructs
  BY <1>2 DEF RegisterStructs, At, Types, JobType, db
<1>3. CASE RegisterGlobal
  BY <1>3 DEF RegisterGlobal, Job, At, Types, JobType, db
<1>4. ASSUME NEW o \in Heap, TakeCreate(o) PROVE count' <= m /\ \A u \in Thread : job'[u].i <= m
  BY <1>4 DEF TakeCreate, Job, At, Types, JobType, db
<1>5. ASSUME NEW o \in Object, NEW op \in {"UPDATE", "BULK"}, TakeUpdate(op, o) PROVE count' <= m /\ \A u \in Thread : job'[u].i <= m
  BY <1>5 DEF TakeUpdate, Job, At, Types, JobType, db
<1>6. CASE TakeEarlyCommit
  BY <1>6 DEF TakeEarlyCommit, At, Types, JobType, db
<1>7. ASSUME NEW t \in Thread, LookUp(t) PROVE count' <= m /\ \A u \in Thread : job'[u].i <= m
  BY <1>7 DEF LookUp, At, Types, JobType, db
<1>8. ASSUME NEW t \in Thread, TurnOn(t) PROVE count' <= m /\ \A u \in Thread : job'[u].i <= m
  BY <1>8 DEF TurnOn, Turn, At, Types, JobType, db
<1>9. ASSUME NEW t \in Thread, TurnFinds(t) PROVE count' <= m /\ \A u \in Thread : job'[u].i <= m
  BY <1>9 DEF TurnFinds, Turn, Matches, NoJob, Job, At, Types, JobType, db
<1>10. ASSUME NEW t \in Thread, TurnDies(t) PROVE count' <= m /\ \A u \in Thread : job'[u].i <= m
  BY <1>10 DEF TurnDies, At, Types, JobType, db
<1>11. ASSUME NEW t \in Thread, LookUpEnds(t) PROVE count' <= m /\ \A u \in Thread : job'[u].i <= m
  BY <1>11 DEF LookUpEnds, Job, At, Types, JobType, db
<1>12. ASSUME NEW t \in Thread, Drop(t) PROVE count' <= m /\ \A u \in Thread : job'[u].i <= m
  BY <1>12 DEF Drop, NoJob, Job, At, Types, JobType, db
<1>13. ASSUME NEW t \in Thread, BulkCreates(t) PROVE count' <= m /\ \A u \in Thread : job'[u].i <= m
  BY <1>13 DEF BulkCreates, Job, At, Types, JobType, db
<1>14. ASSUME NEW t \in Thread, Allocate(t) PROVE count' <= m /\ \A u \in Thread : job'[u].i <= m
  BY <1>14 DEF Allocate, Goes, At, Types, JobType, db
<1>15. ASSUME NEW t \in Thread, TestHead(t) PROVE count' <= m /\ \A u \in Thread : job'[u].i <= m
  BY <1>15 DEF TestHead, Goes, At, Types, JobType, db
<1>16. ASSUME NEW t \in Thread, LinkNext(t) PROVE count' <= m /\ \A u \in Thread : job'[u].i <= m
  BY <1>16 DEF LinkNext, At, Types, JobType, db
<1>17. ASSUME NEW t \in Thread, LinkPrev(t) PROVE count' <= m /\ \A u \in Thread : job'[u].i <= m
  BY <1>17 DEF LinkPrev, Goes, At, Types, JobType, db
<1>18. ASSUME NEW t \in Thread, Publish(t) PROVE count' <= m /\ \A u \in Thread : job'[u].i <= m
  BY <1>18 DEF Publish, Job, At, Types, JobType, db
<1>19. ASSUME NEW t \in Thread, ReadCount(t) PROVE count' <= m /\ \A u \in Thread : job'[u].i <= m
  BY <1>19 DEF ReadCount, At, Types, JobType, db
<1>20. ASSUME NEW t \in Thread, WriteCount(t) PROVE count' <= m /\ \A u \in Thread : job'[u].i <= m
  <2>1. m = n + 1 /\ count' = job[t].i + 1
    BY <1>20 DEF WriteCount
  <2>2. job'[t].i = 0 /\ \A u \in Thread \ {t} : job'[u] = job[u]
    BY <1>20 DEF WriteCount, Job, NoJob, Types
  <2> QED BY <2>1, <2>2
<1> QED
  BY <1>1, <1>2, <1>3, <1>4, <1>5, <1>6, <1>7, <1>8, <1>9, <1>10, <1>11, <1>12, <1>13, <1>14, <1>15, <1>16, <1>17,
     <1>18, <1>19, <1>20 DEF Core, Main, Receive, Step

(***************************************************************************)
(* Records whose linking was not disturbed.                                *)
(***************************************************************************)

\* What Next does to the history of linkings.
RacedStep == raced' = raced \cup IF \A t \in Thread : Linking(t)' THEN {Mine(t)' : t \in Thread} ELSE {}

\* What a record of the list leads to stays the same.
LEMMA AheadStep ==
    ASSUME Types, Jobs, Shape, Core, Types', NEW p \in Pub \cup {Null}
    PROVE  Leads(next', p) = Ahead(p)
<1>1. next \in [Rec -> Link] /\ next' \in [Rec -> Link]
  BY DEF Types
<1>2. Closed(next, Pub) /\ Pub \in SUBSET Rec
  BY PubIsRec DEF Shape, Closed
<1>3. \A r \in Pub : next[r] = next'[r]
  BY LinksStep
<1> QED BY <1>1, <1>2, <1>3, LeadsSame DEF Ahead

\* How a thread comes to where it is about to link its record or to make it
\* the head: it was there before, has just set the link, or found no head.
Placed(u) ==
    job'[u].at \in {"back", "publish"} =>
        /\ Mine(u)' = Mine(u) /\ Linking(u)
        /\ \/ job[u].at \in {"back", "publish"} /\ next'[Mine(u)] = next[Mine(u)]
           \/ next'[Mine(u)] = head
           \/ next'[Mine(u)] = next[Mine(u)] /\ head = Null

LEMMA PlacesStep ==
    ASSUME Types, Jobs, Core, NEW u \in Thread
    PROVE  Placed(u)
<1>1. CASE MakeLists
  BY <1>1 DEF MakeLists, At, Types, JobType, db, Placed, Linking, Mine
<1>2. CASE RegisterStructs
  BY <1>2 DEF RegisterStructs, At, Types, JobType, db, Placed, Linking, Mine
<1>3. CASE RegisterGlobal
  BY <1>3 DEF RegisterGlobal, Job, At, Types, JobType, db, Placed, Linking, Mine
<1>4. ASSUME NEW o \in Heap, TakeCreate(o) PROVE Placed(u)
  BY <1>4 DEF TakeCreate, Job, At, Types, JobType, db, Placed, Linking, Mine
<1>5. ASSUME NEW o \in Object, NEW op \in {"UPDATE", "BULK"}, TakeUpdate(op, o) PROVE Placed(u)
  BY <1>5 DEF TakeUpdate, Job, At, Types, JobType, db, Placed, Linking, Mine
<1>6. CASE TakeEarlyCommit
  BY <1>6 DEF TakeEarlyCommit, At, Types, JobType, db, Placed, Linking, Mine
<1>7. ASSUME NEW t \in Thread, LookUp(t) PROVE Placed(u)
  BY <1>7 DEF LookUp, At, Types, JobType, db, Placed, Linking, Mine
<1>8. ASSUME NEW t \in Thread, TurnOn(t) PROVE Placed(u)
  BY <1>8 DEF TurnOn, Turn, At, Types, JobType, db, Placed, Linking, Mine
<1>9. ASSUME NEW t \in Thread, TurnFinds(t) PROVE Placed(u)
  BY <1>9 DEF TurnFinds, Turn, Matches, NoJob, Job, At, Types, JobType, db, Placed, Linking, Mine
<1>10. ASSUME NEW t \in Thread, TurnDies(t) PROVE Placed(u)
  BY <1>10 DEF TurnDies, At, Types, JobType, db, Placed, Linking, Mine
<1>11. ASSUME NEW t \in Thread, LookUpEnds(t) PROVE Placed(u)
  BY <1>11 DEF LookUpEnds, Job, At, Types, JobType, db, Placed, Linking, Mine
<1>12. ASSUME NEW t \in Thread, Drop(t) PROVE Placed(u)
  BY <1>12 DEF Drop, NoJob, Job, At, Types, JobType, db, Placed, Linking, Mine
<1>13. ASSUME NEW t \in Thread, BulkCreates(t) PROVE Placed(u)
  BY <1>13 DEF BulkCreates, Job, At, Types, JobType, db, Placed, Linking, Mine
<1>14. ASSUME NEW t \in Thread, Allocate(t) PROVE Placed(u)
  BY <1>14 DEF Allocate, Goes, At, Types, JobType, db, Placed, Linking, Mine
<1>15. ASSUME NEW t \in Thread, TestHead(t) PROVE Placed(u)
  BY <1>15 DEF TestHead, Goes, At, Types, JobType, db, Placed, Linking, Mine
<1>16. ASSUME NEW t \in Thread, LinkNext(t) PROVE Placed(u)
  <2>1. CASE t = u
    <3>1. Mine(u) \in Rec
      BY <1>16, <2>1 DEF LinkNext, At, Jobs, Adding, Types
    <3>2. next'[Mine(u)] = head
      BY <1>16, <2>1, <3>1 DEF LinkNext, Types
    <3>3. Mine(u)' = Mine(u) /\ Linking(u)
      BY <1>16, <2>1 DEF LinkNext, At, Linking, Mine, Types, JobType
    <3> QED BY <3>2, <3>3 DEF Placed
  <2>2. CASE t # u
    <3>1. job'[u] = job[u] /\ Mine(u)' = Mine(u)
      BY <1>16, <2>2 DEF LinkNext, Types, Mine
    <3>2. Mine(u) # Mine(t)
      BY <2>2 DEF Mine
    <3>3. next'[Mine(u)] = next[Mine(u)]
      BY <1>16, <3>2 DEF LinkNext, Types
    <3> QED BY <3>1, <3>3 DEF Placed, Linking
  <2> QED BY <2>1, <2>2
<1>17. ASSUME NEW t \in Thread, LinkPrev(t) PROVE Placed(u)
  BY <1>17 DEF LinkPrev, Goes, At, Types, JobType, db, Placed, Linking, Mine
<1>18. ASSUME NEW t \in Thread, Publish(t) PROVE Placed(u)
  BY <1>18 DEF Publish, Job, At, Types, JobType, db, Placed, Linking, Mine
<1>19. ASSUME NEW t \in Thread, ReadCount(t) PROVE Placed(u)
  BY <1>19 DEF ReadCount, At, Types, JobType, db, Placed, Linking, Mine
<1>20. ASSUME NEW t \in Thread, WriteCount(t) PROVE Placed(u)
  BY <1>20 DEF WriteCount, Job, NoJob, At, Types, JobType, db, Placed, Linking, Mine
<1> QED
  BY <1>1, <1>2, <1>3, <1>4, <1>5, <1>6, <1>7, <1>8, <1>9, <1>10, <1>11, <1>12, <1>13, <1>14, <1>15, <1>16, <1>17,
     <1>18, <1>19, <1>20 DEF Core, Main, Receive, Step

LEMMA KeptStep ==
    ASSUME Types, Jobs, Shape, Kept, Core, RacedStep, Types', Jobs', Shape'
    PROVE  Kept'
<1>1. made \subseteq made'
  BY DEF Core, Main, Receive, Step, MakeLists, RegisterStructs, RegisterGlobal, TakeCreate, TakeUpdate,
     TakeEarlyCommit, LookUp, TurnOn, TurnFinds, TurnDies, LookUpEnds, Drop, BulkCreates, Allocate, TestHead, LinkNext,
     LinkPrev, Publish, ReadCount, WriteCount, db
<1>2. raced' \subseteq made'
  <2>1. ASSUME NEW t \in Thread, Linking(t)' PROVE Mine(t)' \in made'
    BY <2>1 DEF Jobs, Linking, Adding
  <2> QED BY <1>1, <2>1 DEF RacedStep, Kept
<1>3. raced \subseteq raced'
  BY DEF RacedStep
<1>4. (\A t \in Thread : Linking(t)') => \A t \in Thread : Mine(t)' \in raced'
  BY DEF RacedStep
<1>5. Pub' \ raced' \subseteq Leads(next', head')
  <2>1. CASE \A t \in Thread : ~Publish(t)
    <3>1. Pub' = Pub
      BY <2>1, WriteCountSets, OtherSets
    <3>2. head' = head /\ head \in Pub \cup {Null}
      BY <2>1, HeadStep DEF Shape
    <3> QED BY <1>3, <3>1, <3>2, AheadStep DEF Kept
  <2>2. ASSUME NEW t \in Thread, Publish(t) PROVE Pub' \ raced' \subseteq Leads(next', head')
    <3>1. Mine(t) \in Rec /\ Pub' = Pub \cup {Mine(t)}
      BY <2>2, PublishSets
    <3>2. head' = Mine(t) /\ next' = next
      BY <2>2 DEF Publish
    <3>3. Pub \ raced \subseteq Ahead(next[Mine(t)])
      BY <2>2 DEF Kept, Publish, At
    <3>4. Leads(next, Mine(t)) = {Mine(t)} \cup Ahead(next[Mine(t)])
      BY <3>1, LeadsStep DEF Types, Ahead
    <3> QED BY <1>3, <3>1, <3>2, <3>3, <3>4
  <2> QED BY <2>1, <2>2
<1>6. ASSUME NEW u \in Thread, job'[u].at \in {"back", "publish"}
      PROVE  Pub' \ raced' \subseteq Leads(next', next'[Mine(u)'])
  <2>1. Placed(u)
    BY PlacesStep
  <2>2. Pub' \ raced' \subseteq Pub \ raced
    <3>1. CASE \A t \in Thread : ~Publish(t)
      BY <1>3, <3>1, WriteCountSets, OtherSets
    <3>2. ASSUME NEW t \in Thread, Publish(t) PROVE Pub' \ raced' \subseteq Pub \ raced
      <4>1. Linking(t) /\ job'[t].at = "count"
        BY <3>2 DEF Publish, At, Linking, Job, Types
      <4>2. t # u /\ Linking(u)
        BY <1>6, <2>1, <4>1 DEF Placed
      <4>3. Mine(t) \in raced
        BY <4>1, <4>2 DEF Kept, Thread
      <4> QED BY <1>3, <3>2, <4>3, PublishSets
    <3> QED BY <3>1, <3>2
  <2>3. Mine(u)' = Mine(u) /\ Mine(u) \in Rec
    BY <1>6, <2>1 DEF Placed, Linking, Jobs, Adding, Types
  <2>4. CASE job[u].at \in {"back", "publish"} /\ next'[Mine(u)] = next[Mine(u)]
    <3>1. Pub \ raced \subseteq Ahead(next[Mine(u)])
      BY <2>4 DEF Kept
    <3>2. next[Mine(u)] \in Pub \cup {Null}
      BY <2>3 DEF Shape
    <3> QED BY <2>2, <2>3, <2>4, <3>1, <3>2, AheadStep
  <2>5. CASE next'[Mine(u)] = head
    BY <2>2, <2>3, <2>5, AheadStep DEF Kept, Shape
  <2>6. CASE head = Null
    BY <2>2, <2>6, LeadsNull DEF Kept, Ahead
  <2> QED BY <1>6, <2>1, <2>4, <2>5, <2>6 DEF Placed
<1> QED BY <1>2, <1>4, <1>5, <1>6 DEF Kept, Ahead

(***************************************************************************)
(* The theorem.                                                            *)
(***************************************************************************)

LinkInv == Types /\ Jobs /\ Shape /\ Counts /\ Kept

LEMMA LinkInvStep ==
    ASSUME LinkInv, [Next]_vars
    PROVE  LinkInv'
<1>1. CASE Next
  <2>1. Core /\ RacedStep /\ overlap' \in BOOLEAN
    BY <1>1 DEF Next, Core, RacedStep, LinkInv, Types
  <2>2. Types'
    BY <2>1, TypesStep DEF LinkInv
  <2>3. Jobs'
    BY <2>1, JobsStep DEF LinkInv
  <2>4. Shape'
    BY <2>1, ShapeStep DEF LinkInv
  <2>5. Counts'
    BY <2>1, CountsStep DEF LinkInv
  <2>6. Kept'
    BY <2>1, <2>2, <2>3, <2>4, KeptStep DEF LinkInv
  <2> QED BY <2>2, <2>3, <2>4, <2>5, <2>6 DEF LinkInv
<1>2. CASE UNCHANGED vars
  BY <1>2 DEF vars, db, LinkInv, Types, Jobs, Shape, Counts, Kept, Pub, Counted, Ahead, Busy, Searching, Adding,
     Linking, Mine, NoCycle
<1> QED BY <1>1, <1>2

\* Whatever the two threads do, the list stays free of cycles, and everything
\* stays in its set.
THEOREM TypeCorrect == Spec => []TypeOK
<1>1. Init => LinkInv
  BY InitHolds DEF LinkInv
<1>2. LinkInv /\ [Next]_vars => LinkInv'
  BY LinkInvStep
<1>3. LinkInv => TypeOK
  BY TypeOKIs DEF LinkInv
<1> QED BY <1>1, <1>2, <1>3, PTL DEF Spec

(***************************************************************************)
(* One thread at a time.                                                   *)
(***************************************************************************)

\* What Next does to the history of overlaps.
OverlapStep == overlap' = (overlap \/ \A t \in Thread : job'[t].at # "idle")

\* No record of o has been the head.
Unknown(o) == \A r \in Pub : ObjId(r) # o

\* A lookup has as many turns to go as there are records ahead of it, and one
\* for a BULK_SYNC message has not passed the object that it looks for.
Lookup(t) ==
    job[t].at = "turn" =>
        /\ Cardinality(Ahead(job[t].cur)) + job[t].i = count
        /\ job[t].op = "BULK" => \A r \in Pub : ObjId(r) = job[t].id => r \in Ahead(job[t].cur)

\* A BULK_SYNC message makes a copy only of an object that is unknown.
Copies(t) ==
    /\ job[t].op = "BULK" /\ job[t].at = "missed" => Unknown(job[t].id)
    /\ job[t].op = "BULK_CREATE" /\ (Searching(t) \/ Linking(t)) => Unknown(job[t].id)

\* A copy of a global object is behind the record of its registration.
Behind ==
    \A o \in Global : {<<o, "main">>, <<o, "recv">>} \subseteq Pub => <<o, "recv">> \in Ahead(<<o, "main">>)

Alone ==
    ~overlap =>
        /\ raced = {}
        /\ \A t, u \in Thread : Busy(t) /\ Busy(u) => t = u
        /\ count = Cardinality(Counted)
        /\ \A t \in Thread : job[t].at = "add" => job[t].i = count
        /\ dead => ~lists
        /\ \A t \in Thread : Lookup(t) /\ Copies(t)
        /\ Behind

\* Then all the records that have been the head are on the list.
LEMMA AloneList ==
    ASSUME LinkInv, Alone, ~overlap
    PROVE  Ahead(head) = Pub
<1>1. Pub \subseteq Ahead(head)
  BY DEF Alone, LinkInv, Kept
<1>2. Ahead(head) \subseteq Pub
  BY PubIsRec, LeadsLeast DEF Ahead, LinkInv, Shape, Closed
<1> QED BY <1>1, <1>2

LEMMA AheadSize ==
    ASSUME LinkInv, NEW p \in Pub \cup {Null}
    PROVE  /\ Ahead(p) \in SUBSET Pub /\ IsFiniteSet(Ahead(p)) /\ Cardinality(Ahead(p)) \in Nat
           /\ p = Null => Cardinality(Ahead(p)) = 0
           /\ p # Null => Cardinality(Ahead(p)) = Cardinality(Ahead(next[p])) + 1
<1>1. Pub \in SUBSET Rec /\ Closed(next, Pub) /\ next \in [Rec -> Link] /\ NoCycle(next, Pub)
  BY PubIsRec DEF LinkInv, Shape, Closed, Types
<1>2. \A q \in Pub \cup {Null} : Ahead(q) \in SUBSET Pub
  BY <1>1, LeadsLeast DEF Ahead
<1>3. IsFiniteSet(Pub)
  BY <1>1, RecFacts, FS_Subset
<1>4. \A q \in Pub \cup {Null} : IsFiniteSet(Ahead(q)) /\ Cardinality(Ahead(q)) \in Nat
  BY <1>2, <1>3, FS_Subset, FS_CardinalityType
<1>5. ASSUME p = Null PROVE Cardinality(Ahead(p)) = 0
  BY <1>5, LeadsNull, FS_EmptySet DEF Ahead
<1>6. ASSUME p # Null PROVE Cardinality(Ahead(p)) = Cardinality(Ahead(next[p])) + 1
  <2>1. p \in Pub /\ p \in Rec /\ next[p] \in Pub \cup {Null}
    BY <1>1, <1>6 DEF Closed
  <2>2. Ahead(p) = Ahead(next[p]) \cup {p}
    BY <1>1, <2>1, LeadsStep DEF Ahead
  <2>3. p \notin Ahead(next[p])
    BY <1>1, <2>1, NoWayBack DEF Ahead
  <2> QED BY <1>4, <2>1, <2>2, <2>3, FS_AddElement
<1> QED BY <1>2, <1>4, <1>5, <1>6

\* While no thread is between the allocation of a record and its count.
LEMMA CountedIsPub ==
    ASSUME \A t \in Thread : ~Adding(t)
    PROVE  Counted = made /\ Pub = made
BY DEF Counted, Pub, Adding, Linking

(***************************************************************************)
(* How a thread comes to where it is in a lookup.                          *)
(***************************************************************************)

TurnComes(u) == job'[u].at = "turn" => job'[u] = job[u] \/ LookUp(u) \/ TurnOn(u)
MissComes(u) ==
    job'[u].op = "BULK" /\ job'[u].at = "missed" => job'[u] = job[u] \/ LookUp(u) \/ LookUpEnds(u)
CreateComes(u) ==
    job'[u].op = "BULK_CREATE" /\ (Searching(u)' \/ Linking(u)') =>
        /\ job'[u].id = job[u].id
        /\ BulkCreates(u) \/ (job[u].op = "BULK_CREATE" /\ (Searching(u) \/ Linking(u)))

LEMMA TurnStep ==
    ASSUME Types, Core, NEW u \in Thread
    PROVE  TurnComes(u)
<1>1. CASE MakeLists
  BY <1>1 DEF MakeLists, At, Types, JobType, db, TurnComes
<1>2. CASE RegisterStructs
  BY <1>2 DEF RegisterStructs, At, Types, JobType, db, TurnComes
<1>3. CASE RegisterGlobal
  BY <1>3 DEF RegisterGlobal, Job, At, Types, JobType, db, TurnComes
<1>4. ASSUME NEW o \in Heap, TakeCreate(o) PROVE TurnComes(u)
  BY <1>4 DEF TakeCreate, Job, At, Types, JobType, db, TurnComes
<1>5. ASSUME NEW o \in Object, NEW op \in {"UPDATE", "BULK"}, TakeUpdate(op, o) PROVE TurnComes(u)
  BY <1>5 DEF TakeUpdate, Job, At, Types, JobType, db, TurnComes
<1>6. CASE TakeEarlyCommit
  BY <1>6 DEF TakeEarlyCommit, At, Types, JobType, db, TurnComes
<1>7. ASSUME NEW t \in Thread, LookUp(t) PROVE TurnComes(u)
  BY <1>7 DEF LookUp, At, Types, JobType, db, TurnComes
<1>8. ASSUME NEW t \in Thread, TurnOn(t) PROVE TurnComes(u)
  BY <1>8 DEF TurnOn, Turn, At, Types, JobType, db, TurnComes
<1>9. ASSUME NEW t \in Thread, TurnFinds(t) PROVE TurnComes(u)
  BY <1>9 DEF TurnFinds, Turn, Matches, NoJob, Job, At, Types, JobType, db, TurnComes
<1>10. ASSUME NEW t \in Thread, TurnDies(t) PROVE TurnComes(u)
  BY <1>10 DEF TurnDies, At, Types, JobType, db, TurnComes
<1>11. ASSUME NEW t \in Thread, LookUpEnds(t) PROVE TurnComes(u)
  BY <1>11 DEF LookUpEnds, Job, At, Types, JobType, db, TurnComes
<1>12. ASSUME NEW t \in Thread, Drop(t) PROVE TurnComes(u)
  BY <1>12 DEF Drop, NoJob, Job, At, Types, JobType, db, TurnComes
<1>13. ASSUME NEW t \in Thread, BulkCreates(t) PROVE TurnComes(u)
  BY <1>13 DEF BulkCreates, Job, At, Types, JobType, db, TurnComes
<1>14. ASSUME NEW t \in Thread, Allocate(t) PROVE TurnComes(u)
  BY <1>14 DEF Allocate, Goes, At, Types, JobType, db, TurnComes
<1>15. ASSUME NEW t \in Thread, TestHead(t) PROVE TurnComes(u)
  BY <1>15 DEF TestHead, Goes, At, Types, JobType, db, TurnComes
<1>16. ASSUME NEW t \in Thread, LinkNext(t) PROVE TurnComes(u)
  BY <1>16 DEF LinkNext, At, Types, JobType, db, TurnComes
<1>17. ASSUME NEW t \in Thread, LinkPrev(t) PROVE TurnComes(u)
  BY <1>17 DEF LinkPrev, Goes, At, Types, JobType, db, TurnComes
<1>18. ASSUME NEW t \in Thread, Publish(t) PROVE TurnComes(u)
  BY <1>18 DEF Publish, Job, At, Types, JobType, db, TurnComes
<1>19. ASSUME NEW t \in Thread, ReadCount(t) PROVE TurnComes(u)
  BY <1>19 DEF ReadCount, At, Types, JobType, db, TurnComes
<1>20. ASSUME NEW t \in Thread, WriteCount(t) PROVE TurnComes(u)
  BY <1>20 DEF WriteCount, Job, NoJob, At, Types, JobType, db, TurnComes
<1> QED
  BY <1>1, <1>2, <1>3, <1>4, <1>5, <1>6, <1>7, <1>8, <1>9, <1>10, <1>11, <1>12, <1>13, <1>14, <1>15, <1>16, <1>17,
     <1>18, <1>19, <1>20 DEF Core, Main, Receive, Step

LEMMA MissStep ==
    ASSUME Types, Core, NEW u \in Thread
    PROVE  MissComes(u)
<1>1. CASE MakeLists
  BY <1>1 DEF MakeLists, At, Types, JobType, db, MissComes
<1>2. CASE RegisterStructs
  BY <1>2 DEF RegisterStructs, At, Types, JobType, db, MissComes
<1>3. CASE RegisterGlobal
  BY <1>3 DEF RegisterGlobal, Job, At, Types, JobType, db, MissComes
<1>4. ASSUME NEW o \in Heap, TakeCreate(o) PROVE MissComes(u)
  BY <1>4 DEF TakeCreate, Job, At, Types, JobType, db, MissComes
<1>5. ASSUME NEW o \in Object, NEW op \in {"UPDATE", "BULK"}, TakeUpdate(op, o) PROVE MissComes(u)
  BY <1>5 DEF TakeUpdate, Job, At, Types, JobType, db, MissComes
<1>6. CASE TakeEarlyCommit
  BY <1>6 DEF TakeEarlyCommit, At, Types, JobType, db, MissComes
<1>7. ASSUME NEW t \in Thread, LookUp(t) PROVE MissComes(u)
  BY <1>7 DEF LookUp, At, Types, JobType, db, MissComes
<1>8. ASSUME NEW t \in Thread, TurnOn(t) PROVE MissComes(u)
  BY <1>8 DEF TurnOn, Turn, At, Types, JobType, db, MissComes
<1>9. ASSUME NEW t \in Thread, TurnFinds(t) PROVE MissComes(u)
  BY <1>9 DEF TurnFinds, Turn, Matches, NoJob, Job, At, Types, JobType, db, MissComes
<1>10. ASSUME NEW t \in Thread, TurnDies(t) PROVE MissComes(u)
  BY <1>10 DEF TurnDies, At, Types, JobType, db, MissComes
<1>11. ASSUME NEW t \in Thread, LookUpEnds(t) PROVE MissComes(u)
  BY <1>11 DEF LookUpEnds, Job, At, Types, JobType, db, MissComes
<1>12. ASSUME NEW t \in Thread, Drop(t) PROVE MissComes(u)
  BY <1>12 DEF Drop, NoJob, Job, At, Types, JobType, db, MissComes
<1>13. ASSUME NEW t \in Thread, BulkCreates(t) PROVE MissComes(u)
  BY <1>13 DEF BulkCreates, Job, At, Types, JobType, db, MissComes
<1>14. ASSUME NEW t \in Thread, Allocate(t) PROVE MissComes(u)
  BY <1>14 DEF Allocate, Goes, At, Types, JobType, db, MissComes
<1>15. ASSUME NEW t \in Thread, TestHead(t) PROVE MissComes(u)
  BY <1>15 DEF TestHead, Goes, At, Types, JobType, db, MissComes
<1>16. ASSUME NEW t \in Thread, LinkNext(t) PROVE MissComes(u)
  BY <1>16 DEF LinkNext, At, Types, JobType, db, MissComes
<1>17. ASSUME NEW t \in Thread, LinkPrev(t) PROVE MissComes(u)
  BY <1>17 DEF LinkPrev, Goes, At, Types, JobType, db, MissComes
<1>18. ASSUME NEW t \in Thread, Publish(t) PROVE MissComes(u)
  BY <1>18 DEF Publish, Job, At, Types, JobType, db, MissComes
<1>19. ASSUME NEW t \in Thread, ReadCount(t) PROVE MissComes(u)
  BY <1>19 DEF ReadCount, At, Types, JobType, db, MissComes
<1>20. ASSUME NEW t \in Thread, WriteCount(t) PROVE MissComes(u)
  BY <1>20 DEF WriteCount, Job, NoJob, At, Types, JobType, db, MissComes
<1> QED
  BY <1>1, <1>2, <1>3, <1>4, <1>5, <1>6, <1>7, <1>8, <1>9, <1>10, <1>11, <1>12, <1>13, <1>14, <1>15, <1>16, <1>17,
     <1>18, <1>19, <1>20 DEF Core, Main, Receive, Step

LEMMA CreateStep ==
    ASSUME Types, Core, NEW u \in Thread
    PROVE  CreateComes(u)
<1>1. CASE MakeLists
  BY <1>1 DEF MakeLists, At, Types, JobType, db, CreateComes, Searching, Linking
<1>2. CASE RegisterStructs
  BY <1>2 DEF RegisterStructs, At, Types, JobType, db, CreateComes, Searching, Linking
<1>3. CASE RegisterGlobal
  BY <1>3 DEF RegisterGlobal, Job, At, Types, JobType, db, CreateComes, Searching, Linking
<1>4. ASSUME NEW o \in Heap, TakeCreate(o) PROVE CreateComes(u)
  BY <1>4 DEF TakeCreate, Job, At, Types, JobType, db, CreateComes, Searching, Linking
<1>5. ASSUME NEW o \in Object, NEW op \in {"UPDATE", "BULK"}, TakeUpdate(op, o) PROVE CreateComes(u)
  BY <1>5 DEF TakeUpdate, Job, At, Types, JobType, db, CreateComes, Searching, Linking
<1>6. CASE TakeEarlyCommit
  BY <1>6 DEF TakeEarlyCommit, At, Types, JobType, db, CreateComes, Searching, Linking
<1>7. ASSUME NEW t \in Thread, LookUp(t) PROVE CreateComes(u)
  BY <1>7 DEF LookUp, At, Types, JobType, db, CreateComes, Searching, Linking
<1>8. ASSUME NEW t \in Thread, TurnOn(t) PROVE CreateComes(u)
  BY <1>8 DEF TurnOn, Turn, At, Types, JobType, db, CreateComes, Searching, Linking
<1>9. ASSUME NEW t \in Thread, TurnFinds(t) PROVE CreateComes(u)
  BY <1>9 DEF TurnFinds, Turn, Matches, NoJob, Job, At, Types, JobType, db, CreateComes, Searching, Linking
<1>10. ASSUME NEW t \in Thread, TurnDies(t) PROVE CreateComes(u)
  BY <1>10 DEF TurnDies, At, Types, JobType, db, CreateComes, Searching, Linking
<1>11. ASSUME NEW t \in Thread, LookUpEnds(t) PROVE CreateComes(u)
  BY <1>11 DEF LookUpEnds, Job, At, Types, JobType, db, CreateComes, Searching, Linking
<1>12. ASSUME NEW t \in Thread, Drop(t) PROVE CreateComes(u)
  BY <1>12 DEF Drop, NoJob, Job, At, Types, JobType, db, CreateComes, Searching, Linking
<1>13. ASSUME NEW t \in Thread, BulkCreates(t) PROVE CreateComes(u)
  BY <1>13 DEF BulkCreates, Job, At, Types, JobType, db, CreateComes, Searching, Linking
<1>14. ASSUME NEW t \in Thread, Allocate(t) PROVE CreateComes(u)
  BY <1>14 DEF Allocate, Goes, At, Types, JobType, db, CreateComes, Searching, Linking
<1>15. ASSUME NEW t \in Thread, TestHead(t) PROVE CreateComes(u)
  BY <1>15 DEF TestHead, Goes, At, Types, JobType, db, CreateComes, Searching, Linking
<1>16. ASSUME NEW t \in Thread, LinkNext(t) PROVE CreateComes(u)
  BY <1>16 DEF LinkNext, At, Types, JobType, db, CreateComes, Searching, Linking
<1>17. ASSUME NEW t \in Thread, LinkPrev(t) PROVE CreateComes(u)
  BY <1>17 DEF LinkPrev, Goes, At, Types, JobType, db, CreateComes, Searching, Linking
<1>18. ASSUME NEW t \in Thread, Publish(t) PROVE CreateComes(u)
  BY <1>18 DEF Publish, Job, At, Types, JobType, db, CreateComes, Searching, Linking
<1>19. ASSUME NEW t \in Thread, ReadCount(t) PROVE CreateComes(u)
  BY <1>19 DEF ReadCount, At, Types, JobType, db, CreateComes, Searching, Linking
<1>20. ASSUME NEW t \in Thread, WriteCount(t) PROVE CreateComes(u)
  BY <1>20 DEF WriteCount, Job, NoJob, At, Types, JobType, db, CreateComes, Searching, Linking
<1> QED
  BY <1>1, <1>2, <1>3, <1>4, <1>5, <1>6, <1>7, <1>8, <1>9, <1>10, <1>11, <1>12, <1>13, <1>14, <1>15, <1>16, <1>17,
     <1>18, <1>19, <1>20 DEF Core, Main, Receive, Step

(***************************************************************************)
(* A step that leaves the threads alone.                                   *)
(***************************************************************************)

\* The conditions under which a step is looked at.
Turns == LinkInv /\ Alone /\ Core /\ RacedStep /\ OverlapStep /\ LinkInv' /\ ~overlap'

\* A thread that moves the list is in the object database.
LEMMA MoversBusy ==
    ASSUME LinkInv, NEW t \in Thread, Publish(t) \/ WriteCount(t) \/ LinkNext(t)
    PROVE  Busy(t) /\ job'[t].at \in {"count", "idle", "look_up", "back"} /\ job'[t] # job[t]
BY DEF Publish, WriteCount, LinkNext, Busy, At, LinkInv, Types, JobType, Job, NoJob

LEMMA TurnsFacts ==
    ASSUME Turns
    PROVE  /\ ~overlap
           /\ \A t, u \in Thread : Busy(t) /\ Busy(u) => t = u
           /\ \A t, u \in Thread : Busy(t)' /\ Busy(u)' => t = u
           /\ raced = {} /\ raced' = {}
<1>1. ~overlap /\ ~(\A t \in Thread : job'[t].at # "idle")
  BY Zenon DEF Turns, OverlapStep
<1>2. \A t, u \in Thread : Busy(t)' /\ Busy(u)' => t = u
  BY <1>1 DEF Busy, Thread
<1>3. raced = {} /\ \A t, u \in Thread : Busy(t) /\ Busy(u) => t = u
  BY <1>1 DEF Turns, Alone
<1>4. ~(\A t \in Thread : Linking(t)')
  BY <1>1 DEF Linking
<1>5. raced' = {}
  BY <1>3, <1>4 DEF Turns, RacedStep
<1> QED BY <1>1, <1>2, <1>3, <1>5

\* While a thread stays where it is in the object database, the list stays.
LEMMA ListStays ==
    ASSUME Turns, NEW u \in Thread, Busy(u), job'[u] = job[u]
    PROVE  /\ \A t \in Thread : ~Publish(t) /\ ~WriteCount(t)
           /\ Pub' = Pub
<1>1. \A t \in Thread : ~Publish(t) /\ ~WriteCount(t)
  BY MoversBusy, TurnsFacts DEF Turns
<1> QED BY <1>1, OtherSets DEF Turns, LinkInv

LEMMA CountStays ==
    ASSUME Core, \A t \in Thread : ~WriteCount(t)
    PROVE  count' = count
BY DEF Core, Main, Receive, Step, MakeLists, RegisterStructs, RegisterGlobal, TakeCreate, TakeUpdate,
   TakeEarlyCommit, LookUp, TurnOn, TurnFinds, TurnDies, LookUpEnds, Drop, BulkCreates, Allocate, TestHead, LinkNext,
   LinkPrev, Publish, ReadCount, db

\* count is exact.
LEMMA CountIsExact ==
    ASSUME Turns
    PROVE  count' = Cardinality(Counted')
<1>1. Types /\ Jobs /\ Core /\ count = Cardinality(Counted)
  BY TurnsFacts DEF Turns, LinkInv, Alone
<1>2. ASSUME NEW t \in Thread, WriteCount(t) PROVE count' = Cardinality(Counted')
  <2>1. count' = count + 1
    BY <1>2, TurnsFacts DEF Turns, Alone, WriteCount, At
  <2> QED BY <1>1, <1>2, <2>1, CountedStep
<1>3. CASE \A t \in Thread : ~WriteCount(t)
  <2>1. Counted' = Counted
    BY <1>1, <1>3, PublishSets, OtherSets
  <2> QED BY <1>1, <1>3, <2>1, CountStays
<1> QED BY <1>2, <1>3

\* So is what a thread has read of it.
AddComes(u) == job'[u].at = "add" => (job'[u] = job[u]) \/ (job'[u].i = count /\ count' = count)

LEMMA AddStep ==
    ASSUME Types, Core, NEW u \in Thread
    PROVE  AddComes(u)
<1>1. CASE MakeLists
  BY <1>1 DEF MakeLists, At, Types, JobType, db, AddComes
<1>2. CASE RegisterStructs
  BY <1>2 DEF RegisterStructs, At, Types, JobType, db, AddComes
<1>3. CASE RegisterGlobal
  BY <1>3 DEF RegisterGlobal, Job, At, Types, JobType, db, AddComes
<1>4. ASSUME NEW o \in Heap, TakeCreate(o) PROVE AddComes(u)
  BY <1>4 DEF TakeCreate, Job, At, Types, JobType, db, AddComes
<1>5. ASSUME NEW o \in Object, NEW op \in {"UPDATE", "BULK"}, TakeUpdate(op, o) PROVE AddComes(u)
  BY <1>5 DEF TakeUpdate, Job, At, Types, JobType, db, AddComes
<1>6. CASE TakeEarlyCommit
  BY <1>6 DEF TakeEarlyCommit, At, Types, JobType, db, AddComes
<1>7. ASSUME NEW t \in Thread, LookUp(t) PROVE AddComes(u)
  BY <1>7 DEF LookUp, At, Types, JobType, db, AddComes
<1>8. ASSUME NEW t \in Thread, TurnOn(t) PROVE AddComes(u)
  BY <1>8 DEF TurnOn, Turn, At, Types, JobType, db, AddComes
<1>9. ASSUME NEW t \in Thread, TurnFinds(t) PROVE AddComes(u)
  BY <1>9 DEF TurnFinds, Turn, Matches, NoJob, Job, At, Types, JobType, db, AddComes
<1>10. ASSUME NEW t \in Thread, TurnDies(t) PROVE AddComes(u)
  BY <1>10 DEF TurnDies, At, Types, JobType, db, AddComes
<1>11. ASSUME NEW t \in Thread, LookUpEnds(t) PROVE AddComes(u)
  BY <1>11 DEF LookUpEnds, Job, At, Types, JobType, db, AddComes
<1>12. ASSUME NEW t \in Thread, Drop(t) PROVE AddComes(u)
  BY <1>12 DEF Drop, NoJob, Job, At, Types, JobType, db, AddComes
<1>13. ASSUME NEW t \in Thread, BulkCreates(t) PROVE AddComes(u)
  BY <1>13 DEF BulkCreates, Job, At, Types, JobType, db, AddComes
<1>14. ASSUME NEW t \in Thread, Allocate(t) PROVE AddComes(u)
  BY <1>14 DEF Allocate, Goes, At, Types, JobType, db, AddComes
<1>15. ASSUME NEW t \in Thread, TestHead(t) PROVE AddComes(u)
  BY <1>15 DEF TestHead, Goes, At, Types, JobType, db, AddComes
<1>16. ASSUME NEW t \in Thread, LinkNext(t) PROVE AddComes(u)
  BY <1>16 DEF LinkNext, At, Types, JobType, db, AddComes
<1>17. ASSUME NEW t \in Thread, LinkPrev(t) PROVE AddComes(u)
  BY <1>17 DEF LinkPrev, Goes, At, Types, JobType, db, AddComes
<1>18. ASSUME NEW t \in Thread, Publish(t) PROVE AddComes(u)
  BY <1>18 DEF Publish, Job, At, Types, JobType, db, AddComes
<1>19. ASSUME NEW t \in Thread, ReadCount(t) PROVE AddComes(u)
  BY <1>19 DEF ReadCount, At, Types, JobType, db, AddComes
<1>20. ASSUME NEW t \in Thread, WriteCount(t) PROVE AddComes(u)
  BY <1>20 DEF WriteCount, Job, NoJob, At, Types, JobType, db, AddComes
<1> QED
  BY <1>1, <1>2, <1>3, <1>4, <1>5, <1>6, <1>7, <1>8, <1>9, <1>10, <1>11, <1>12, <1>13, <1>14, <1>15, <1>16, <1>17,
     <1>18, <1>19, <1>20 DEF Core, Main, Receive, Step

LEMMA AddIsExact ==
    ASSUME Turns, NEW u \in Thread, job'[u].at = "add"
    PROVE  job'[u].i = count'
<1>1. AddComes(u)
  BY AddStep DEF Turns, LinkInv
<1>2. CASE job'[u] = job[u]
  <2>1. Busy(u) /\ job[u].i = count
    BY <1>2, TurnsFacts DEF Busy, Turns, Alone
  <2>2. count' = count
    BY <1>2, <2>1, ListStays, CountStays DEF Turns
  <2> QED BY <1>2, <2>1, <2>2
<1> QED BY <1>1, <1>2 DEF AddComes

\* A lookup ends before the end of the list.
LEMMA NoDeath ==
    ASSUME Turns
    PROVE  dead' => ~lists'
<1>1. ASSUME NEW t \in Thread, TurnDies(t) PROVE FALSE
  <2>1. Lookup(t) /\ job[t].cur = Null /\ job[t].at = "turn" /\ job[t].i < count
    BY <1>1, TurnsFacts DEF Turns, Alone, TurnDies, Turn, At
  <2>2. Cardinality(Ahead(Null)) = 0
    BY AheadSize DEF Turns
  <2>3. job[t].i \in Nat /\ count \in Nat
    BY DEF Turns, LinkInv, Types, JobType
  <2> QED BY <2>1, <2>2, <2>3 DEF Lookup
<1>2. dead => ~lists
  BY TurnsFacts DEF Turns, Alone
<1> QED BY <1>1, <1>2 DEF Turns, Core, Main, Receive, Step, MakeLists, RegisterStructs, RegisterGlobal, TakeCreate,
     TakeUpdate, TakeEarlyCommit, LookUp, TurnOn, TurnFinds, LookUpEnds, Drop, BulkCreates, Allocate, TestHead,
     LinkNext, LinkPrev, Publish, ReadCount, WriteCount, At

\* A thread in a lookup is the only one in the object database, so what is
\* counted is what is on the list.
LEMMA SearchFacts ==
    ASSUME Turns, NEW u \in Thread, Searching(u)
    PROVE  /\ \A t \in Thread : ~Publish(t) /\ ~WriteCount(t)
           /\ Pub' = Pub /\ count' = count /\ count = Cardinality(Pub) /\ Pub = Ahead(head)
<1>1. \A t \in Thread : ~Adding(t)
  BY TurnsFacts DEF Searching, Adding, Busy
<1>2. \A t \in Thread : ~Publish(t) /\ ~WriteCount(t)
  BY <1>1 DEF Publish, WriteCount, At, Adding
<1>3. Pub' = Pub /\ count' = count
  BY <1>2, OtherSets, CountStays DEF Turns, LinkInv
<1>4. count = Cardinality(Pub)
  BY <1>1, CountedIsPub, TurnsFacts DEF Turns, Alone
<1> QED BY <1>2, <1>3, <1>4, AloneList, TurnsFacts DEF Turns

LEMMA LookupStep ==
    ASSUME Turns, NEW u \in Thread
    PROVE  Lookup(u)'
<1> SUFFICES ASSUME job'[u].at = "turn"
             PROVE  /\ Cardinality(Leads(next', job'[u].cur)) + job'[u].i = count'
                    /\ job'[u].op = "BULK" =>
                          \A r \in Pub' : ObjId(r) = job'[u].id => r \in Leads(next', job'[u].cur)
  BY DEF Lookup, Ahead
<1>0. Types /\ Jobs /\ Shape /\ Core /\ Types'
  BY DEF Turns, LinkInv
<1>1. TurnComes(u)
  BY <1>0, TurnStep
<1>2. Lookup(u) /\ Copies(u)
  BY TurnsFacts DEF Turns, Alone
<1>3. count \in Nat /\ job[u].i \in Nat /\ job[u].cur \in Link
  BY <1>0 DEF Types, JobType
<1>4. CASE job'[u] = job[u]
  <2>1. job[u].at = "turn" /\ Searching(u)
    BY <1>4 DEF Searching
  <2>2. job[u].cur \in Pub \cup {Null}
    BY <1>0, <2>1 DEF Shape
  <2>3. Leads(next', job[u].cur) = Ahead(job[u].cur)
    BY <1>0, <2>2, AheadStep
  <2> QED BY <1>2, <1>4, <2>1, <2>3, SearchFacts DEF Lookup
<1>5. CASE LookUp(u)
  <2>1. Searching(u) /\ job'[u].cur = head /\ job'[u].i = 0
    BY <1>0, <1>5 DEF LookUp, At, Searching, Types, JobType
  <2>2. Leads(next', head) = Ahead(head)
    BY <1>0, AheadStep DEF Shape
  <2>3. count = Cardinality(Ahead(head)) /\ Pub' = Ahead(head) /\ count' = count
    BY <2>1, SearchFacts
  <2> QED BY <1>3, <2>1, <2>2, <2>3
<1>6. CASE TurnOn(u)
  <2>1. /\ Searching(u) /\ job[u].at = "turn" /\ job[u].cur # Null /\ ~Matches(u)
        /\ job'[u].cur = next[job[u].cur] /\ job'[u].i = job[u].i + 1
        /\ job'[u].op = job[u].op /\ job'[u].id = job[u].id
    BY <1>0, <1>6 DEF TurnOn, Turn, At, Searching, Types, JobType
  <2>2. job[u].cur \in Pub \cup {Null} /\ next[job[u].cur] \in Pub \cup {Null} /\ job[u].cur \in Rec
    BY <1>0, <1>3, <2>1 DEF Shape, Link
  <2>3. Leads(next', next[job[u].cur]) = Ahead(next[job[u].cur])
    BY <1>0, <2>2, AheadStep
  <2>4. /\ Cardinality(Ahead(job[u].cur)) = Cardinality(Ahead(next[job[u].cur])) + 1
        /\ Cardinality(Ahead(next[job[u].cur])) \in Nat
    BY <2>1, <2>2, AheadSize DEF Turns
  <2>5. Ahead(job[u].cur) = {job[u].cur} \cup Ahead(next[job[u].cur])
    BY <1>0, <2>2, LeadsStep DEF Ahead, Types
  <2>6. job[u].op = "BULK" => ObjId(job[u].cur) # job[u].id
    BY <2>1 DEF Matches
  <2>7. count' = count /\ Pub' = Pub
    BY <2>1, SearchFacts
  <2>8. Cardinality(Ahead(job[u].cur)) + job[u].i = count
    BY <1>2, <2>1 DEF Lookup
  <2>9. Cardinality(Ahead(next[job[u].cur])) + (job[u].i + 1) = count
    BY <1>3, <2>4, <2>8
  <2>10. job[u].op = "BULK" =>
            \A r \in Pub : ObjId(r) = job[u].id => r \in Ahead(next[job[u].cur])
    BY <1>2, <2>1, <2>5, <2>6 DEF Lookup
  <2> QED BY <2>1, <2>3, <2>7, <2>9, <2>10
<1> QED BY <1>1, <1>4, <1>5, <1>6 DEF TurnComes

LEMMA CopiesStep ==
    ASSUME Turns, NEW u \in Thread
    PROVE  Copies(u)'
<1>0. Types /\ Jobs /\ Shape /\ Core
  BY DEF Turns, LinkInv
<1>1. Lookup(u) /\ Copies(u)
  BY TurnsFacts DEF Turns, Alone
<1>2. ASSUME job'[u].op = "BULK", job'[u].at = "missed" PROVE \A r \in Pub' : ObjId(r) # job'[u].id
  <2>1. MissComes(u)
    BY <1>0, MissStep
  <2>2. CASE job'[u] = job[u]
    <3>1. Searching(u)
      BY <1>2, <2>2 DEF Searching
    <3> QED BY <1>1, <1>2, <2>2, <3>1, SearchFacts DEF Copies, Unknown
  <2>3. CASE LookUp(u)
    <3>1. Searching(u) /\ head = Null
      BY <1>0, <1>2, <2>3 DEF LookUp, At, Searching, Types, JobType
    <3> QED BY <3>1, SearchFacts, LeadsNull DEF Ahead
  <2>4. CASE LookUpEnds(u)
    <3>1. Searching(u) /\ job[u].at = "turn" /\ job[u].i >= count /\ job[u].op = "BULK" /\ job'[u].id = job[u].id
      BY <1>0, <1>2, <2>4 DEF LookUpEnds, Job, At, Searching, Types, JobType
    <3>2. job[u].cur \in Pub \cup {Null} /\ job[u].i \in Nat /\ count \in Nat
      BY <1>0, <3>1 DEF Shape, Types, JobType
    <3>3. Cardinality(Ahead(job[u].cur)) + job[u].i = count /\ Cardinality(Ahead(job[u].cur)) \in Nat
      BY <1>1, <3>1, <3>2, AheadSize DEF Lookup, Turns
    <3>4. Cardinality(Ahead(job[u].cur)) = 0
      BY <3>1, <3>2, <3>3
    <3>5. Ahead(job[u].cur) = {}
      BY <3>2, <3>4, AheadSize, FS_EmptySet DEF Turns
    <3> QED BY <1>1, <3>1, <3>5, SearchFacts DEF Lookup
  <2> QED BY <1>2, <2>1, <2>2, <2>3, <2>4 DEF MissComes
<1>3. ASSUME job'[u].op = "BULK_CREATE", Searching(u)' \/ Linking(u)' PROVE \A r \in Pub' : ObjId(r) # job'[u].id
  <2>1. CreateComes(u)
    BY <1>0, CreateStep
  <2>2. job'[u].id = job[u].id /\ Busy(u) /\ Unknown(job[u].id)
    <3>1. CASE BulkCreates(u)
      <4>1. job[u].op = "BULK" /\ job[u].at = "missed"
        BY <3>1 DEF BulkCreates, At
      <4> QED BY <1>1, <1>3, <2>1, <4>1 DEF Copies, Busy, CreateComes
    <3>2. CASE job[u].op = "BULK_CREATE" /\ (Searching(u) \/ Linking(u))
      BY <1>1, <1>3, <2>1, <3>2 DEF Copies, Busy, CreateComes, Searching, Linking
    <3> QED BY <1>3, <2>1, <3>1, <3>2 DEF CreateComes
  <2>3. \A t \in Thread : ~Publish(t)
    <3> SUFFICES ASSUME NEW t \in Thread, Publish(t) PROVE FALSE
      OBVIOUS
    <3>1. t = u
      BY <2>2, MoversBusy, TurnsFacts DEF Turns
    <3>2. job'[t].at = "count"
      BY <1>0 DEF Publish, Job, Types
    <3> QED BY <1>3, <3>1, <3>2 DEF Searching, Linking
  <2>4. Pub' = Pub
    BY <1>0, <2>3, WriteCountSets, OtherSets
  <2> QED BY <2>2, <2>4 DEF Unknown
<1> QED BY <1>2, <1>3 DEF Copies, Unknown

LEMMA BehindStep ==
    ASSUME Turns
    PROVE  Behind'
<1>0. Types /\ Jobs /\ Shape /\ Core /\ Types' /\ Behind /\ raced = {}
  BY TurnsFacts DEF Turns, LinkInv, Alone
<1> SUFFICES ASSUME NEW o \in Global, <<o, "main">> \in Pub', <<o, "recv">> \in Pub'
             PROVE  <<o, "recv">> \in Leads(next', <<o, "main">>)
  BY DEF Behind, Ahead
<1>1. CASE <<o, "main">> \in Pub /\ <<o, "recv">> \in Pub
  BY <1>0, <1>1, AheadStep DEF Behind
<1>2. CASE ~(<<o, "main">> \in Pub /\ <<o, "recv">> \in Pub)
  <2>1. PICK t \in Thread : Publish(t)
    BY <1>0, <1>2, WriteCountSets, OtherSets
  <2>2. Pub' = Pub \cup {Mine(t)} /\ Mine(t) \in Rec /\ next' = next
    BY <1>0, <2>1, PublishSets DEF Publish
  <2>3. CASE Mine(t) = <<o, "main">>
    <3>1. <<o, "recv">> \in Pub
      BY <2>2, <2>3
    <3>2. Pub \subseteq Ahead(next[Mine(t)])
      BY <1>0, <2>1 DEF Turns, LinkInv, Kept, Publish, At
    <3>3. Leads(next, Mine(t)) = {Mine(t)} \cup Ahead(next[Mine(t)])
      BY <1>0, <2>2, LeadsStep DEF Types, Ahead
    <3> QED BY <2>2, <2>3, <3>1, <3>2, <3>3
  <2>4. CASE Mine(t) = <<o, "recv">>
    <3>1. t = "recv" /\ job[t].id = o /\ <<o, "main">> \in Pub
      BY <2>2, <2>4 DEF Mine
    <3>2. job[t].at = "publish" /\ Linking(t)
      BY <2>1 DEF Publish, At, Linking
    <3>3. job[t].op = "BULK_CREATE"
      BY <1>0, <3>1, <3>2, HeapAssumption DEF Jobs, Busy, Searching, Types, JobType, Thread
    <3>4. Unknown(o)
      BY <3>1, <3>2, <3>3, TurnsFacts DEF Turns, Alone, Copies
    <3> QED BY <3>1, <3>4 DEF Unknown, ObjId
  <2> QED BY <1>2, <2>2, <2>3, <2>4
<1> QED BY <1>1, <1>2

LEMMA AloneStep ==
    ASSUME LinkInv, Alone, LinkInv', [Next]_vars
    PROVE  Alone'
<1>1. CASE Next
  <2> SUFFICES ASSUME ~overlap' PROVE Alone'
    BY DEF Alone
  <2>1. Turns
    BY <1>1 DEF Turns, Next, Core, RacedStep, OverlapStep
  <2> QED BY <2>1, TurnsFacts, CountIsExact, AddIsExact, NoDeath, LookupStep, CopiesStep, BehindStep DEF Alone
<1>2. CASE UNCHANGED vars
  BY <1>2 DEF vars, db, Alone, Lookup, Copies, Unknown, Behind, Pub, Counted, Ahead, Busy, Searching, Adding,
     Linking, Mine
<1> QED BY <1>1, <1>2

(***************************************************************************)
(* What is registered is found.                                            *)
(***************************************************************************)

\* A record that is not being linked and was not disturbed is on the list.
LEMMA UndisturbedOnList ==
    ASSUME LinkInv, NEW t \in Thread, NEW r \in made \ raced, r[2] = t
    PROVE  r \in OnList \/ (Linking(t) /\ r = Mine(t))
<1>1. CASE r \in Pub
  BY <1>1, OnListIs DEF LinkInv, Kept
<1>2. CASE r \notin Pub
  <2>1. PICK u \in Thread : Linking(u) /\ r = Mine(u)
    BY <1>2 DEF Pub
  <2> QED BY <2>1 DEF Mine
<1> QED BY <1>1, <1>2

\* The walk meets the record of a registration before a copy that is behind it.
LEMMA BehindIsFound ==
    ASSUME LinkInv, Behind, NEW o \in Global, <<o, "main">> \in OnList
    PROVE  Finds(o, <<o, "main">>)
<1> DEFINE m == <<o, "main">>
           n == Cardinality(Rec)
<1>0. n \in Nat /\ Types /\ Shape
  BY RecFacts DEF LinkInv
<1>1. PICK f : IsWalk(f)
  BY <1>0, WalkExists
<1>2. OnList \subseteq Pub /\ Pub \in SUBSET Rec
  BY <1>0, OnListIs, PubIsRec
<1>3. PICK k \in 0..n : f[k] = m
  <2>1. m \in Walk(n)
    BY DEF OnList
  <2>2. Walk(n) = {f[i] : i \in 0..n} \ {Null}
    BY <1>0, <1>1 DEF IsWalk
  <2> QED BY <2>1, <2>2
<1>4. Walk(k) = {f[i] : i \in 0..k} \ {Null}
  BY <1>1 DEF IsWalk
<1>5. m \in Walk(k)
  BY <1>0, <1>2, <1>3, <1>4, NullAssumption
<1>6. ASSUME NEW q \in Walk(k) \ {m} PROVE ObjId(q) # o
  <2> SUFFICES ASSUME ObjId(q) = o PROVE FALSE
    OBVIOUS
  <2>1. PICK i \in 0..k : q = f[i] /\ f[i] # Null
    BY <1>4
  <2>2. i \in 0..n /\ k \in i..n /\ f[k] # Null
    BY <1>0, <1>2, <1>3, NullAssumption
  <2>3. m \in Ahead(q)
    BY <1>1, <1>3, <2>1, <2>2 DEF IsWalk
  <2>4. q \in Pub
    <3>1. q \in {f[j] : j \in 0..n} \ {Null}
      BY <2>1, <2>2
    <3>2. q \in OnList
      BY <1>0, <1>1, <3>1 DEF IsWalk, OnList
    <3> QED BY <1>2, <3>2
  <2>5. q = <<o, "recv">>
    <3>1. q = <<q[1], q[2]>> /\ q[1] = o /\ q[2] \in Thread /\ q # m
      BY <1>2, <2>4, RecFacts DEF ObjId
    <3> QED BY <3>1 DEF Thread
  <2>6. q \in Ahead(m)
    BY <1>2, <2>4, <2>5 DEF Behind
  <2>7. next \in [Rec -> Link] /\ m \in Rec /\ q \in Rec /\ m \in Pub
    BY <1>0, <1>2, <2>4 DEF Types
  <2>8. q \in Leads(next, next[m])
    BY <2>6, <2>7, LeadsStep DEF Ahead
  <2>9. m \in Leads(next, next[m])
    <3>1. Leads(next, q) \subseteq Leads(next, next[m])
      BY <2>7, <2>8, LeadsOn
    <3> QED BY <2>3, <3>1 DEF Ahead
  <2>10. Closed(next, Pub) /\ NoCycle(next, Pub)
    BY <1>0, <1>2 DEF Shape, Closed
  <2> HIDE DEF m
  <2> QED BY <1>2, <2>7, <2>9, <2>10, NoWayBack
<1>7. ObjId(m) = o
  BY DEF ObjId
<1> QED BY <1>0, <1>5, <1>6, <1>7 DEF Finds

LEMMA RegisteredFollows ==
    ASSUME LinkInv, Alone
    PROVE  RegisteredIsFound
<1>1. \A t \in Thread : \A r \in made \ raced :
         r[2] = t => r \in OnList \/ (Linking(t) /\ r = Mine(t))
  BY UndisturbedOnList
<1>2. ASSUME ~overlap PROVE dead => ~lists
  BY <1>2 DEF Alone
<1>3. ASSUME ~overlap, \A t \in Thread : job[t].at = "idle"
      PROVE  /\ count = Cardinality(OnList)
             /\ \A i \in 1..stage : Finds(Order[i], <<Order[i], "main">>)
  <2>1. \A t \in Thread : ~Adding(t) /\ ~Searching(t)
    BY <1>3 DEF Adding, Searching
  <2>2. Counted = Pub /\ Pub = made
    BY <2>1, CountedIsPub
  <2>3. OnList = Pub
    BY <1>3, AloneList, OnListIs DEF LinkInv
  <2>4. count = Cardinality(OnList)
    BY <1>3, <2>2, <2>3 DEF Alone
  <2>5. ASSUME NEW i \in 1..stage PROVE Finds(Order[i], <<Order[i], "main">>)
    <3>1. i \in DOMAIN Order /\ i <= stage /\ stage \in Nat /\ i \in Nat
      BY OrderAssumption DEF LinkInv, Types
    <3>2. <<Order[i], "main">> \in made
      BY <2>1, <3>1 DEF LinkInv, Jobs, Thread
    <3>3. Order[i] \in Global
      BY <3>1 DEF Global
    <3> QED BY <1>3, <2>2, <2>3, <3>2, <3>3, BehindIsFound DEF Alone
  <2> QED BY <2>4, <2>5
<1> QED BY <1>1, <1>2, <1>3 DEF RegisteredIsFound

LEMMA AloneAtStart == Init => Alone
<1> SUFFICES ASSUME Init PROVE Alone
  OBVIOUS
<1>1. Cardinality(Counted) = 0 /\ Pub = {}
  BY PubAtStart, FS_EmptySet
<1>2. \A t \in Thread : job[t].at = "idle" /\ job[t].op = "none"
  BY DEF Init, NoJob, Job
<1> QED BY <1>1, <1>2 DEF Init, Alone, Busy, Lookup, Copies, Behind, Searching, Linking

\* A record that a thread linked while the other linked none is on the list
\* for good, and as long as the threads take turns every lookup is right.
THEOREM RegisteredIsFoundHolds == Spec => []RegisteredIsFound
<1> DEFINE Inv == LinkInv /\ Alone
<1>1. Init => Inv
  BY InitHolds, AloneAtStart DEF LinkInv
<1>2. Inv /\ [Next]_vars => Inv'
  BY LinkInvStep, AloneStep
<1>3. Inv => RegisteredIsFound
  BY RegisteredFollows
<1> QED BY <1>1, <1>2, <1>3, PTL DEF Spec
=============================================================================
