------------------------- MODULE Checkpoint_proofs -------------------------
(***************************************************************************)
(* Theorems of Checkpoint.                                                 *)
(***************************************************************************)
EXTENDS Checkpoint, Receiver_proofs

(***************************************************************************)
(* The records of a machine.                                               *)
(***************************************************************************)

LEMMA LocFacts ==
    /\ Static \subseteq Addr /\ Heap \subseteq Addr /\ Addr \subseteq Loc /\ Nat \ {0} \subseteq Loc
    /\ Addr \cap {Null, Dangling} = {} /\ Loc \cap {Null, Dangling} = {}
    /\ NotTha \notin Addr /\ Null # NotTha
BY DistinctAssumption DEF Loc, Addr

LEMMA StaticFinite == IsFiniteSet(Static)
BY LocFacts, FiniteAssumption, FS_Subset

LEMMA MachineIs == MachineState = Machine(Val, Loc)
BY DEF MachineState, Machine, Rec, Record, Entry

\* Where the objects of a machine live.
Places(s) == {r.loc : r \in ToSet(s.db)}

LEMMA LiveIs == Live = Places(act)
BY DEF Live, Places

LEMMA RecordsFacts ==
    ASSUME NEW V, NEW L, NEW s \in Machine(V, L)
    PROVE  /\ s.db \in Seq(Record(V, L)) /\ s.orphans \in Seq(Entry(L))
           /\ \A i \in DOMAIN s.db : s.db[i] \in ToSet(s.db)
           /\ \A r \in ToSet(s.db) : r \in Record(V, L) /\ \E i \in DOMAIN s.db : s.db[i] = r
           /\ \A r \in ToSet(s.db) : r.loc \in Places(s)
           /\ \A i \in DOMAIN s.db : s.db[i].loc \in Places(s)
           /\ \A l \in Places(s) : \E i \in DOMAIN s.db : s.db[i].loc = l
           /\ Places(s) \subseteq L
<1>1. s.db \in Seq(Record(V, L)) /\ s.orphans \in Seq(Entry(L))
  BY DEF Machine
<1>2. /\ \A i \in DOMAIN s.db : s.db[i] \in ToSet(s.db) /\ s.db[i] \in Record(V, L)
      /\ \A r \in ToSet(s.db) : \E i \in DOMAIN s.db : s.db[i] = r
  BY <1>1 DEF ToSet
<1>3. \A r \in ToSet(s.db) : r \in Record(V, L) /\ r.loc \in L
  BY <1>2 DEF Record
<1> QED BY <1>1, <1>2, <1>3 DEF Places

\* tha_object_db_lookup_by_Addr.
LEMMA RecAtFacts ==
    ASSUME NEW V, NEW L, NEW s \in Machine(V, L), NEW l \in Places(s)
    PROVE  /\ RecAt(s, l) \in ToSet(s.db) /\ RecAt(s, l).loc = l
           /\ RecAt(s, l) \in Record(V, L)
<1> DEFINE n == Len(s.db)
           I == {i \in 1..n : s.db[i].loc = l}
<1>1. n \in Nat /\ DOMAIN s.db = 1..n
  BY RecordsFacts
<1>2. I # {} /\ I \subseteq 1..n
  BY <1>1, RecordsFacts
<1>3. Min(I) \in I
  <2> HIDE DEF I, n
  <2> QED BY <1>1, <1>2, MinFacts
<1>4. RecAt(s, l) = s.db[Min(I)]
  BY <1>2 DEF RecAt, SelectInSeq
<1>5. Min(I) \in DOMAIN s.db /\ s.db[Min(I)].loc = l
  BY <1>1, <1>3
<1> HIDE DEF I
<1> QED BY <1>4, <1>5, RecordsFacts

LEMMA RecAtIs ==
    ASSUME NEW V, NEW L, NEW s \in Machine(V, L), DistinctLocs(s), NEW r \in ToSet(s.db)
    PROVE  RecAt(s, r.loc) = r
<1>1. r.loc \in Places(s) /\ \A x \in ToSet(s.db) : \E i \in DOMAIN s.db : s.db[i] = x
  BY DEF Places, ToSet
<1>2. RecAt(s, r.loc) \in ToSet(s.db) /\ RecAt(s, r.loc).loc = r.loc
  BY <1>1, RecAtFacts
<1>3. PICK i \in DOMAIN s.db : s.db[i] = r
  BY <1>1
<1>4. PICK j \in DOMAIN s.db : s.db[j] = RecAt(s, r.loc)
  BY <1>1, <1>2
<1> QED BY <1>2, <1>3, <1>4 DEF DistinctLocs

\* A new record in front of the others.
LEMMA CreateRecords ==
    ASSUME NEW V, NEW L, Zero \in V, NEW s \in Machine(V, L), NEW a \in Addr, NEW l \in L
    PROVE  LET t == Create(s, a, l)
               r == [id |-> a, loc |-> l, val |-> Zero, ptr |-> Null]
           IN  /\ ToSet(t.db) = ToSet(s.db) \cup {r}
               /\ Places(t) = Places(s) \cup {l}
               /\ Len(t.db) = Len(s.db) + 1
<1> DEFINE t == Create(s, a, l)
           r == [id |-> a, loc |-> l, val |-> Zero, ptr |-> Null]
<1>1. r \in Record(V, L) /\ r.loc = l
  BY DEF Record
<1>2. s.db \in Seq(Record(V, L))
  BY RecordsFacts
<1>3. t.db = Cons(r, s.db)
  BY DEF Create, Machine
<1> HIDE DEF r, t
<1>4. /\ Len(t.db) = Len(s.db) + 1 /\ t.db[1] = r /\ 1 \in DOMAIN t.db
      /\ \A i \in DOMAIN s.db : i + 1 \in DOMAIN t.db /\ t.db[i + 1] = s.db[i]
      /\ \A i \in DOMAIN t.db : i # 1 => i - 1 \in DOMAIN s.db /\ t.db[i] = s.db[i - 1]
  <2>1. /\ t.db \in Seq(Record(V, L)) /\ Len(t.db) = Len(s.db) + 1 /\ t.db[1] = r
        /\ \A i \in DOMAIN s.db : i + 1 \in DOMAIN t.db /\ t.db[i + 1] = s.db[i]
        /\ \A i \in DOMAIN t.db : i # 1 => i - 1 \in DOMAIN s.db /\ t.db[i] = s.db[i - 1]
    <3> DEFINE T == Record(V, L)
               c == s.db
               d == Cons(r, c)
    <3>1. r \in T /\ c \in Seq(T)
      BY <1>1, <1>2
    <3> HIDE DEF T, c
    <3>2. /\ d \in Seq(T) /\ Len(d) = Len(c) + 1 /\ d[1] = r
          /\ \A i \in DOMAIN c : i + 1 \in DOMAIN d /\ d[i + 1] = c[i]
          /\ \A i \in DOMAIN d : i # 1 => i - 1 \in DOMAIN c /\ d[i] = c[i - 1]
      BY <3>1 DEF Cons
    <3>3. t.db = d
      BY <1>3 DEF c
    <3> HIDE DEF d
    <3> QED BY <3>2, <3>3 DEF T, c
  <2>2. 1 \in DOMAIN t.db
    BY <1>2, <2>1
  <2> QED BY <2>1, <2>2
<1>5. ToSet(t.db) = ToSet(s.db) \cup {r}
  <2>1. ASSUME NEW x \in ToSet(t.db) PROVE x \in ToSet(s.db) \cup {r}
    BY <1>4 DEF ToSet
  <2>2. ASSUME NEW x \in ToSet(s.db) \cup {r} PROVE x \in ToSet(t.db)
    BY <1>4 DEF ToSet
  <2> QED BY <2>1, <2>2
<1>6. Places(t) = Places(s) \cup {l}
  BY <1>1, <1>5 DEF Places
<1> QED BY <1>4, <1>5, <1>6 DEF t, r

\* Contents apart, the same records: the same places.
LEMMA ShapePlaces ==
    ASSUME NEW V, NEW L, NEW s \in Machine(V, L), NEW t \in Machine(V, L), SameShape(s, t)
    PROVE  Places(t) = Places(s) /\ Len(t.db) = Len(s.db) /\ Ids(t) = Ids(s)
<1>1. s.db \in Seq(Record(V, L)) /\ t.db \in Seq(Record(V, L))
  BY RecordsFacts
<1>2. DOMAIN s.db = DOMAIN t.db /\ Len(t.db) = Len(s.db)
  BY <1>1 DEF SameShape
<1>3. Places(s) = {s.db[i].loc : i \in DOMAIN s.db} /\ Places(t) = {t.db[i].loc : i \in DOMAIN t.db}
  BY DEF Places, ToSet
<1>4. Ids(s) = {s.db[i].id : i \in DOMAIN s.db} /\ Ids(t) = {t.db[i].id : i \in DOMAIN t.db}
  BY DEF Ids, ToSet
<1> QED BY <1>2, <1>3, <1>4 DEF SameShape

(***************************************************************************)
(* Machines with nothing but zeroed global objects.                        *)
(***************************************************************************)

\* Global objects are named after their addresses, and none is missing.
Rooted(s) == /\ \A r \in ToSet(s.db) : r.loc \in Static => r.id = r.loc
             /\ Static \subseteq Places(s)

DistinctIds(s) == \A i, j \in DOMAIN s.db : i # j => s.db[i].id # s.db[j].id

Blank(s) ==
    /\ \A r \in ToSet(s.db) : r.loc \in Static /\ r.id = r.loc /\ r.val = Zero /\ r.ptr = Null
    /\ Static \subseteq Places(s)

LEMMA BlankFacts ==
    ASSUME NEW V, NEW L, NEW s \in Machine(V, L), DistinctLocs(s), Blank(s)
    PROVE  Rooted(s) /\ DistinctIds(s) /\ Ids(s) = Static /\ Places(s) = Static
<1>1. \A i \in DOMAIN s.db : s.db[i].id = s.db[i].loc
  BY RecordsFacts DEF Blank
<1>2. Places(s) = Static /\ Ids(s) = Places(s)
  BY DEF Blank, Places, Ids
<1> QED BY <1>1, <1>2 DEF Rooted, Blank, DistinctIds, DistinctLocs

LEMMA RegisteredFacts ==
    ASSUME NEW V, NEW L, Zero \in V, Static \subseteq L, NEW order \in SetToSeqs(Static)
    PROVE  /\ Registered(order) \in Machine(V, L)
           /\ DistinctLocs(Registered(order)) /\ Blank(Registered(order))
           /\ Registered(order).orphans = <<>> /\ Registered(order).status = "up"
<1> DEFINE rec(i) == [id |-> order[i], loc |-> order[i], val |-> Zero, ptr |-> Null]
           d == [i \in DOMAIN order |-> rec(i)]
           t == Registered(order)
           none == <<>>
<1>1. /\ order \in Seq(Static)
      /\ \A i, j \in DOMAIN order : i # j => order[i] # order[j]
      /\ \A g \in Static : \E i \in DOMAIN order : order[i] = g
  BY StaticFinite, SetToSeqsFacts
<1>2. \A i \in DOMAIN order : order[i] \in Static
  BY <1>1
<1>3. \A i \in DOMAIN order : rec(i) \in Record(V, L)
  BY <1>2, LocFacts DEF Record
<1>4. d = [i \in DOMAIN order |-> d[i]] /\ \A i \in DOMAIN order : d[i] \in Record(V, L)
  BY <1>3
<1>5. t = [db |-> d, orphans |-> none, status |-> "up"] /\ none \in Seq(Entry(L))
  BY DEF Registered
<1>6. /\ DOMAIN d = DOMAIN order
      /\ \A i \in DOMAIN order : /\ d[i].id = order[i] /\ d[i].loc = order[i]
                                 /\ d[i].val = Zero /\ d[i].ptr = Null
  OBVIOUS
<1> HIDE DEF d, t
<1>7. d \in Seq(Record(V, L))
  BY <1>1, <1>4, ListOf
<1>8. t.orphans = none /\ t.status = "up" /\ t.db = d
  BY <1>5
<1>9. t \in Machine(V, L)
  <2> HIDE DEF none
  <2> QED BY <1>5, <1>7 DEF Machine
<1>10. DistinctLocs(t)
  BY <1>1, <1>6, <1>8 DEF DistinctLocs
<1>11. Blank(t)
  <2>1. ASSUME NEW r \in ToSet(t.db)
        PROVE  r.loc \in Static /\ r.id = r.loc /\ r.val = Zero /\ r.ptr = Null
    BY <1>2, <1>6, <1>8 DEF ToSet
  <2>2. ASSUME NEW g \in Static PROVE g \in Places(t)
    <3>1. PICK i \in DOMAIN order : order[i] = g
      BY <1>1
    <3>2. d[i] \in ToSet(t.db) /\ d[i].loc = g
      BY <1>6, <1>8, <3>1 DEF ToSet
    <3> QED BY <3>2 DEF Places
  <2> QED BY <2>1, <2>2 DEF Blank
<1> QED BY <1>8, <1>9, <1>10, <1>11 DEF t

\* tha_clean_application_state.
LEMMA CleanRecords ==
    ASSUME NEW V, NEW L, Zero \in V, NEW s \in Machine(V, L)
    PROVE  /\ Rooted(s) => Blank(Clean(s))
           /\ Static \subseteq Places(s) => Static \subseteq Places(Clean(s))
           /\ \A e \in DOMAIN Clean(s).orphans :
                 \/ Clean(s).orphans[e].from = Dangling
                 \/ Clean(s).orphans[e].from \in Static
<1> DEFINE t == Clean(s)
<1>1. t \in Machine(V, L) /\ DOMAIN t.orphans = DOMAIN s.orphans /\ Cleaned(s, t)
  BY CleanFacts
<1>2. /\ \A r \in ToSet(t.db) : \E j \in DOMAIN t.db : t.db[j] = r
      /\ \A j \in DOMAIN t.db : t.db[j].loc \in Places(t)
  <2> HIDE DEF t
  <2> QED BY DEF ToSet, Places
<1>3. /\ \A r \in ToSet(s.db) : \E i \in DOMAIN s.db : s.db[i] = r
      /\ \A i \in DOMAIN s.db : s.db[i] \in ToSet(s.db)
      /\ \A l \in Places(s) : \E i \in DOMAIN s.db : s.db[i].loc = l
  BY SMTT(30), RecordsFacts
<1>4. \A e \in DOMAIN t.orphans : t.orphans[e].from = Dangling \/ t.orphans[e].from \in Static
  <2>1. t.orphans = [i \in DOMAIN s.orphans |-> IF s.orphans[i].from \in Static THEN s.orphans[i]
                                                ELSE [s.orphans[i] EXCEPT !.from = Dangling]]
    BY DEF Clean, Machine
  <2>2. \A e \in DOMAIN s.orphans : s.orphans[e] \in Entry(L)
    BY RecordsFacts
  <2>3. ASSUME NEW e \in DOMAIN s.orphans
        PROVE  t.orphans[e].from = Dangling \/ t.orphans[e].from \in Static
    <3>1. t.orphans[e] = IF s.orphans[e].from \in Static THEN s.orphans[e]
                         ELSE [s.orphans[e] EXCEPT !.from = Dangling]
      BY <2>1
    <3>2. s.orphans[e] \in Entry(L)
      BY <2>2
    <3> HIDE DEF t
    <3> QED BY <3>1, <3>2 DEF Entry
  <2> HIDE DEF t
  <2> QED BY <1>1, <2>3
<1> HIDE DEF t
<1>5. ASSUME Static \subseteq Places(s) PROVE Static \subseteq Places(t)
  <2> SUFFICES ASSUME NEW g \in Static PROVE g \in Places(t)
    OBVIOUS
  <2>1. PICK i \in DOMAIN s.db : s.db[i].loc = g
    BY <1>3, <1>5
  <2>2. PICK j \in DOMAIN t.db : t.db[j].loc = s.db[i].loc
    BY <1>1, <2>1 DEF Cleaned
  <2> QED BY <1>2, <2>1, <2>2
<1>6. ASSUME Rooted(s) PROVE Blank(t)
  <2>1. ASSUME NEW r \in ToSet(t.db)
        PROVE  r.loc \in Static /\ r.id = r.loc /\ r.val = Zero /\ r.ptr = Null
    <3>1. PICK j \in DOMAIN t.db : t.db[j] = r
      BY <1>2
    <3>2. PICK i \in DOMAIN s.db : /\ s.db[i].loc \in Static
                                   /\ t.db[j].id = s.db[i].id /\ t.db[j].loc = s.db[i].loc
      BY <1>1 DEF Cleaned
    <3>3. t.db[j].val = Zero /\ t.db[j].ptr = Null
      BY <1>1 DEF Cleaned
    <3>4. s.db[i].id = s.db[i].loc
      BY <1>3, <1>6, <3>2 DEF Rooted
    <3> QED BY <3>1, <3>2, <3>3, <3>4
  <2> QED BY <1>5, <1>6, <2>1 DEF Blank, Rooted
<1> QED BY <1>4, <1>5, <1>6 DEF t

(***************************************************************************)
(* Types.                                                                  *)
(***************************************************************************)

FileMessages == {m \in Messages : m.op \in {"BULK", "ORPHAN_COMMIT", "COMMIT"}}
Hashes == [Addr -> [val : Val, ptr : Addr \cup {Null, Dangling}]]

\* What is true of every state, whatever the environment does: the active has its
\* objects at addresses, the global ones among them, and no two at one; during a
\* load, orphan pointers lie in its objects; a file has no messages but those of a bulk sync.
Types ==
    /\ act \in Machine(Val, Addr) /\ DistinctLocs(act) /\ Static \subseteq Places(act)
    /\ loading => \A e \in DOMAIN act.orphans : act.orphans[e].from \in Places(act) \cup {Dangling}
    /\ hash \in Hashes /\ stale \in SUBSET Addr
    /\ enabled \in BOOLEAN /\ loading \in BOOLEAN /\ aligned \in BOOLEAN
    /\ file \in Seq(FileMessages) /\ todo \in Seq(FileMessages)
    /\ sb \in Machine(Val, Loc)
    /\ chan \in Seq(Messages) /\ Len(chan) <= MaxChan

LEMMA MessagesFacts ==
    /\ \A m \in Messages : IsMessage(Val, m)
    /\ FileMessages \subseteq Messages
    /\ \A m \in FileMessages : m.op = "BULK" => IsUpdate(Val, m) /\ m.id \in Addr
    /\ \A a \in Addr : \A o \in {"CREATE", "DELETE"} : [op |-> o, id |-> a] \in Messages
    /\ [op |-> "CLEAN"] \in Messages
    /\ [op |-> "ORPHAN_COMMIT"] \in FileMessages /\ [op |-> "COMMIT"] \in FileMessages
<1>1. \A m \in Messages : IsMessage(Val, m)
  BY DEF Messages, IsMessage, IsUpdate
<1>2. \A m \in FileMessages : m.op = "BULK" => IsUpdate(Val, m) /\ m.id \in Addr
  BY <1>1 DEF FileMessages, IsMessage, IsUpdate
<1> QED BY <1>1, <1>2 DEF FileMessages, Messages

LEMMA ZeroHash == ZeroCell \in [val : Val, ptr : Addr \cup {Null, Dangling}]
BY ZeroAssumption DEF ZeroCell

LEMMA CellType ==
    ASSUME NEW r \in Record(Val, Addr)
    PROVE  CellOf(r) \in [val : Val, ptr : Addr \cup {Null, Dangling}]
BY DEF CellOf, Record

\* Pointers on the wire.
LEMMA WirePtrFacts ==
    ASSUME Types
    PROVE  /\ \A p : WirePtr(p) \in Addr \cup {Null, NotTha}
           /\ WirePtr(Null) = Null
           /\ \A p \in Live : WirePtr(p) = RecAt(act, p).id /\ WirePtr(p) \in Ids(act)
           /\ \A p : p # Null /\ p \notin Live => WirePtr(p) = NotTha
<1>1. act \in Machine(Val, Addr) /\ Live = Places(act) /\ Live \subseteq Addr
  BY LiveIs, RecordsFacts DEF Types
<1>2. ASSUME NEW p \in Live PROVE RecAt(act, p).id \in Addr /\ RecAt(act, p).id \in Ids(act)
  <2>1. RecAt(act, p) \in Record(Val, Addr) /\ RecAt(act, p) \in ToSet(act.db)
    BY <1>1, RecAtFacts
  <2> QED BY <2>1 DEF Record, Ids
<1>3. WirePtr(Null) = Null
  BY <1>1, LocFacts DEF WirePtr
<1>4. \A p \in Live : WirePtr(p) = RecAt(act, p).id
  BY <1>1, LocFacts DEF WirePtr
<1>5. \A p : p # Null /\ p \notin Live => WirePtr(p) = NotTha
  BY DEF WirePtr
<1> QED BY <1>2, <1>3, <1>4, <1>5

LEMMA MsgType ==
    ASSUME Types, NEW r \in Record(Val, Addr), NEW fields \in SUBSET Fields
    PROVE  /\ Msg("UPDATE", r, fields) \in Messages
           /\ Msg("BULK", r, fields) \in FileMessages
<1>1. r.id \in Addr /\ r.val \in Val /\ WirePtr(r.ptr) \in Addr \cup {Null, NotTha}
  BY WirePtrFacts DEF Record
<1> QED BY <1>1 DEF Msg, Messages, FileMessages

\* A store changes one record of the active, and its contents only.
LEMMA StoreFacts ==
    ASSUME Types, NEW i \in DOMAIN act.db, Write(i)
    PROVE  /\ act' \in Machine(Val, Addr) /\ SameShape(act, act')
           /\ act'.orphans = act.orphans /\ act'.status = act.status
           /\ UNCHANGED <<hash, stale, enabled, file, saved, todo, loading, chan, sb, aligned>>
           /\ Running
<1>0. act \in Machine(Val, Addr) /\ act.db \in Seq(Record(Val, Addr)) /\ act.db[i] \in Record(Val, Addr)
  BY RecordsFacts DEF Types
<1>1. PICK r \in Record(Val, Addr) : Store(i, r) /\ r.id = act.db[i].id /\ r.loc = act.db[i].loc
  <2>1. ASSUME NEW v \in Val, Store(i, [act.db[i] EXCEPT !.val = v])
        PROVE  \E r \in Record(Val, Addr) : Store(i, r) /\ r.id = act.db[i].id /\ r.loc = act.db[i].loc
    <3> DEFINE r == [act.db[i] EXCEPT !.val = v]
    <3>1. r \in Record(Val, Addr) /\ r.id = act.db[i].id /\ r.loc = act.db[i].loc
      BY <1>0 DEF Record
    <3> HIDE DEF r
    <3>2. Store(i, r)
      BY <2>1 DEF r
    <3> QED BY <3>1, <3>2
  <2>2. ASSUME NEW p \in Live \cup {Null}, Store(i, [act.db[i] EXCEPT !.ptr = p])
        PROVE  \E r \in Record(Val, Addr) : Store(i, r) /\ r.id = act.db[i].id /\ r.loc = act.db[i].loc
    <3> DEFINE r == [act.db[i] EXCEPT !.ptr = p]
    <3>1. p \in Addr \cup {Null}
      BY <1>0, LiveIs, RecordsFacts
    <3>2. r \in Record(Val, Addr) /\ r.id = act.db[i].id /\ r.loc = act.db[i].loc
      BY <1>0, <3>1 DEF Record
    <3> HIDE DEF r
    <3>3. Store(i, r)
      BY <2>2 DEF r
    <3> QED BY <3>2, <3>3
  <2> QED BY <2>1, <2>2 DEF Write
<1> DEFINE d == [act.db EXCEPT ![i] = r]
<1>2. act' = [act EXCEPT !.db = d]
  BY <1>1 DEF Store
<1>3. /\ DOMAIN d = DOMAIN act.db /\ d[i] = r
      /\ \A j \in DOMAIN act.db : j # i => d[j] = act.db[j]
  BY <1>0
<1>4. d \in Seq(Record(Val, Addr))
  BY <1>0
<1> HIDE DEF d
<1>5. act'.db = d /\ act'.orphans = act.orphans /\ act'.status = act.status /\ act' \in Machine(Val, Addr)
  BY <1>0, <1>2, <1>4 DEF Machine
<1>6. SameShape(act, act')
  BY <1>1, <1>3, <1>5 DEF SameShape
<1> QED BY <1>1, <1>5, <1>6 DEF Store, disk

\* The messages of ha_sync.
Dirty == Only(act.db, {r \in ToSet(act.db) : Changed(r) # {}})
Updates == [i \in DOMAIN Dirty |-> Msg("UPDATE", Dirty[i], Changed(Dirty[i]))]

LEMMA UpdatesFacts ==
    ASSUME Types
    PROVE  /\ Updates \in Seq(Messages) /\ Len(Updates) = Len(Dirty) /\ DOMAIN Updates = DOMAIN Dirty
           /\ Len(Dirty) \in Nat
           /\ \A i \in DOMAIN Dirty : Dirty[i] \in ToSet(act.db)
           /\ \A r \in ToSet(act.db) : Changed(r) # {} => \E i \in DOMAIN Dirty : Dirty[i] = r
<1> DEFINE S == {r \in ToSet(act.db) : Changed(r) # {}}
           T == Record(Val, Addr)
<1>1. act.db \in Seq(T) /\ (\A r \in ToSet(act.db) : r \in T /\ \E i \in DOMAIN act.db : act.db[i] = r)
  <2>1. act.db \in Seq(T)
    BY DEF Types, Machine
  <2> HIDE DEF T
  <2> QED BY <2>1 DEF ToSet
<1> HIDE DEF T
<1>2. Dirty \in Seq(T \cap S) /\ HasAll(Dirty, act.db, S)
  BY <1>1, OnlyFacts DEF Dirty
<1>3. \A i \in DOMAIN Dirty : Dirty[i] \in T /\ Dirty[i] \in S
  <2> HIDE DEF S
  <2> QED BY <1>2
<1>4. \A i \in DOMAIN Dirty : Updates[i] \in Messages
  <2> TAKE i \in DOMAIN Dirty
  <2>1. Dirty[i] \in Record(Val, Addr) /\ Changed(Dirty[i]) \in SUBSET Fields
    BY <1>3 DEF T, Changed
  <2> QED BY <2>1, MsgType DEF Updates
<1>5. Updates = [i \in DOMAIN Dirty |-> Updates[i]]
  BY DEF Updates
<1>6. Dirty \in Seq(T) /\ Len(Dirty) \in Nat
  <2> HIDE DEF S
  <2> QED BY <1>2, SeqMonotonic
<1>7. Updates \in Seq(Messages) /\ Len(Updates) = Len(Dirty) /\ DOMAIN Updates = DOMAIN Dirty
  BY <1>4, <1>5, <1>6, ListOf
<1>8. ASSUME NEW r \in ToSet(act.db), Changed(r) # {} PROVE \E i \in DOMAIN Dirty : Dirty[i] = r
  <2>1. PICK i \in DOMAIN act.db : act.db[i] = r
    BY <1>1
  <2>2. act.db[i] \in S
    BY <1>8, <2>1
  <2> QED BY <1>2, <2>1, <2>2 DEF HasAll
<1> QED BY <1>3, <1>6, <1>7, <1>8

\* The objects that a bulk sync saves, and their order.
LEMMA ReachableFacts ==
    ASSUME Types
    PROVE  /\ IsFiniteSet(Reachable) /\ Static \subseteq Reachable /\ Reachable \subseteq Live
           /\ \A a \in Reachable : RecAt(act, a).ptr \in Live => RecAt(act, a).ptr \in Reachable
<1>1. Live = Places(act) /\ Live \subseteq Addr /\ Static \subseteq Live
  BY LiveIs, RecordsFacts DEF Types
<1>2. DOMAIN Succ = Addr /\ \A l \in Live : Succ[l] = {RecAt(act, l).ptr} \cap Live
  BY <1>1 DEF Succ
<1>3. \A l \in Addr : Succ[l] \subseteq Live
  BY DEF Succ
<1>4. Reachable \subseteq Addr /\ IsFiniteSet(Reachable)
  <2>1. Reachable \subseteq Addr
    BY <1>2 DEF Reachable, ReachableFrom
  <2> QED BY <2>1, FiniteAssumption, FS_Subset
<1>5. Static \subseteq Reachable
  BY <1>1, <1>2 DEF Reachable, ReachableFrom
<1>6. Reachable \subseteq Live
  <2>1. Live \in SUBSET DOMAIN Succ /\ Static \subseteq Live /\ Closed(Live, Succ)
    BY <1>1, <1>2, <1>3 DEF Closed
  <2> QED BY <2>1 DEF Reachable, ReachableFrom
<1>7. ASSUME NEW a \in Reachable, RecAt(act, a).ptr \in Live PROVE RecAt(act, a).ptr \in Reachable
  <2> DEFINE p == RecAt(act, a).ptr
  <2>1. p \in Succ[a] /\ p \in DOMAIN Succ
    BY <1>1, <1>2, <1>6, <1>7
  <2> HIDE DEF p
  <2>2. p \in Reachable
    BY <2>1 DEF Reachable, ReachableFrom, Closed
  <2> QED BY <2>2 DEF p
<1> QED BY <1>4, <1>5, <1>6, <1>7

LEMMA OrderFacts ==
    ASSUME Types, NEW order \in BulkOrders
    PROVE  /\ order \in Seq(Reachable) /\ Len(order) \in Nat /\ DOMAIN order = 1..Len(order)
           /\ \A i, j \in DOMAIN order : i # j => order[i] # order[j]
           /\ \A a \in Reachable : \E i \in DOMAIN order : order[i] = a
           /\ \A i \in DOMAIN order : order[i] \in Live /\ order[i] \in Reachable
<1>1. order \in SetToSeqs(Reachable)
  BY DEF BulkOrders
<1>2. /\ order \in Seq(Reachable)
      /\ \A i, j \in DOMAIN order : i # j => order[i] # order[j]
      /\ \A a \in Reachable : \E i \in DOMAIN order : order[i] = a
  BY <1>1, ReachableFacts, SetToSeqsFacts
<1> QED BY <1>2, ReachableFacts

LEMMA ConcatFacts ==
    ASSUME NEW T, NEW a \in Seq(T), NEW b \in Seq(T)
    PROVE  /\ a \o b \in Seq(T) /\ Len(a \o b) = Len(a) + Len(b)
           /\ \A k \in 1..Len(a) : (a \o b)[k] = a[k]
           /\ \A k \in 1..Len(b) : (a \o b)[Len(a) + k] = b[k]
<1>1. a \o b \in Seq(T) /\ Len(a \o b) = Len(a) + Len(b)
  OBVIOUS
<1>2. \A k \in 1..Len(a) : (a \o b)[k] = a[k]
  OBVIOUS
<1>3. \A k \in 1..Len(b) : (a \o b)[Len(a) + k] = b[k]
  OBVIOUS
<1> QED BY <1>1, <1>2, <1>3

\* A checkpoint: the messages of the objects, then the two commits.
Bulks(order) == [i \in DOMAIN order |-> Msg("BULK", RecAt(act, order[i]), Fields)]
Commits == <<[op |-> "ORPHAN_COMMIT"], [op |-> "COMMIT"]>>

LEMMA SaveFacts ==
    ASSUME Types, NEW order \in BulkOrders, Save(order)
    PROVE  /\ file' \in Seq(FileMessages) /\ Len(file') = Len(order) + 2
           /\ \A k \in DOMAIN order : file'[k] = Msg("BULK", RecAt(act, order[k]), Fields)
           /\ file'[Len(order) + 1].op = "ORPHAN_COMMIT" /\ file'[Len(order) + 2].op = "COMMIT"
           /\ DOMAIN saved' = {RecAt(act, order[i]).id : i \in DOMAIN order}
           /\ \A a \in DOMAIN saved' : saved'[a] = [val |-> Obj(act, a).val, ptr |-> WirePtr(Obj(act, a).ptr)]
<1> DEFINE recs == [i \in DOMAIN order |-> RecAt(act, order[i])]
           b == Bulks(order)
           c == Commits
           n == Len(order)
<1>1. n \in Nat /\ DOMAIN order = 1..n /\ order \in Seq(Reachable) /\ \A i \in DOMAIN order : order[i] \in Live
  BY OrderFacts
<1>2. act \in Machine(Val, Addr) /\ Live = Places(act)
  BY LiveIs DEF Types
<1>3. \A i \in DOMAIN order : b[i] \in FileMessages
  <2> TAKE i \in DOMAIN order
  <2>1. RecAt(act, order[i]) \in Record(Val, Addr) /\ Fields \in SUBSET Fields
    BY <1>1, <1>2, RecAtFacts
  <2> QED BY <2>1, MsgType DEF Bulks
<1>4. b = [i \in DOMAIN order |-> b[i]]
  BY DEF Bulks
<1>5. b \in Seq(FileMessages) /\ Len(b) = n /\ DOMAIN b = DOMAIN order
  <2> HIDE DEF b
  <2> QED BY <1>1, <1>3, <1>4, ListOf
<1>6. c \in Seq(FileMessages) /\ Len(c) = 2 /\ c[1].op = "ORPHAN_COMMIT" /\ c[2].op = "COMMIT"
  BY MessagesFacts DEF Commits
<1>7. file' = b \o c
  BY DEF Save, Bulks, Commits
<1>8. \A k \in DOMAIN order : b[k] = Msg("BULK", RecAt(act, order[k]), Fields)
  BY DEF Bulks
<1>9. /\ DOMAIN saved' = {RecAt(act, order[i]).id : i \in DOMAIN order}
      /\ \A a \in DOMAIN saved' : saved'[a] = [val |-> Obj(act, a).val, ptr |-> WirePtr(Obj(act, a).ptr)]
  <2>1. saved' = [a \in {r.id : r \in ToSet(recs)} |->
                    [val |-> Obj(act, a).val, ptr |-> WirePtr(Obj(act, a).ptr)]]
    BY DEF Save, Obj
  <2>2. {r.id : r \in ToSet(recs)} = {RecAt(act, order[i]).id : i \in DOMAIN order}
    BY DEF ToSet
  <2> HIDE DEF recs
  <2> QED BY <2>1, <2>2
<1> DEFINE q == b \o c
<1> HIDE DEF b, c, recs
<1>10. b \in Seq(FileMessages) /\ c \in Seq(FileMessages) /\ Len(b) = n /\ Len(c) = 2 /\ n \in Nat
  BY <1>1, <1>5, <1>6
<1>11. /\ q \in Seq(FileMessages) /\ Len(q) = Len(b) + Len(c)
       /\ \A k \in 1..Len(b) : q[k] = b[k]
       /\ \A k \in 1..Len(c) : q[Len(b) + k] = c[k]
  <2>1. b \in Seq(FileMessages) /\ c \in Seq(FileMessages)
    BY <1>10
  <2> QED BY <2>1, ConcatFacts
<1>12. q \in Seq(FileMessages) /\ Len(q) = n + 2 /\ \A k \in 1..n : q[k] = b[k]
  <2> HIDE DEF n, q
  <2> QED BY <1>10, <1>11
<1>13. q[n + 1] = c[1] /\ q[n + 2] = c[2]
  <2> HIDE DEF n, q
  <2>1. 1 \in 1..Len(c) /\ 2 \in 1..Len(c)
    BY <1>10
  <2> QED BY <1>10, <1>11, <2>1
<1> HIDE DEF q
<1>14. file' = q
  BY <1>7 DEF q
<1> QED BY <1>1, <1>6, <1>8, <1>9, <1>11, <1>12, <1>13, <1>14

\* The object that a BULK message of the file is about, before its fields are set.
LoadBase(l) == Base(act, Head(todo), l)

LEMMA TodoFacts ==
    ASSUME Types, todo # <<>>
    PROVE  Head(todo) \in FileMessages /\ Tail(todo) \in Seq(FileMessages)
BY DEF Types

LEMMA LoadBaseFacts ==
    ASSUME Types, NEW l \in Heap \cup {Null}, LoadMessage(l), Head(todo).op = "BULK"
    PROVE  LET m == Head(todo)
               t == LoadBase(l)
           IN  /\ m \in FileMessages /\ IsUpdate(Val, m) /\ m.id \in Addr
               /\ act' = Update(t, m)
               /\ t \in Machine(Val, Addr) /\ DistinctLocs(t)
               /\ Has(t, m.id) /\ LocOf(t, m.id) \in Places(t)
               /\ t.orphans = act.orphans /\ t.status = act.status
               /\ Has(act, m.id) => t = act
               /\ ~Has(act, m.id) => /\ l \in Heap \ Places(act) /\ t = Create(act, m.id, l)
                                     /\ ToSet(t.db) = ToSet(act.db) \cup
                                           {[id |-> m.id, loc |-> l, val |-> Zero, ptr |-> Null]}
                                     /\ Places(t) = Places(act) \cup {l}
                                     /\ Len(t.db) = Len(act.db) + 1
               /\ Places(act) \subseteq Places(t)
<1> DEFINE m == Head(todo)
           t == LoadBase(l)
<1>1. m \in FileMessages /\ IsUpdate(Val, m) /\ m.id \in Addr
  BY TodoFacts, MessagesFacts DEF LoadMessage
<1>2. act' = Update(t, m)
  BY DEF LoadMessage, DeliverAt, BulkUpdate, LoadBase, Base, Has
<1>3. act \in Machine(Val, Addr) /\ DistinctLocs(act) /\ Live = Places(act)
  BY LiveIs DEF Types
<1>4. CASE Has(act, m.id)
  <2>1. t = act
    BY <1>4 DEF LoadBase, Base
  <2>2. LocOf(act, m.id) \in Places(act)
    <3>1. Lookup(act, m.id) \in DOMAIN act.db
      BY <1>3, <1>4, LocFacts, Found
    <3> QED BY <3>1 DEF LocOf, Places, ToSet
  <2> QED BY <1>1, <1>2, <1>3, <1>4, <2>1, <2>2
<1>5. CASE ~Has(act, m.id)
  <2>1. t = Create(act, m.id, l)
    BY <1>5 DEF LoadBase, Base
  <2>2. l \in Heap \ Places(act) /\ l \in Addr
    BY <1>3, <1>5, LocFacts DEF LoadMessage, Has
  <2>3. \A i \in DOMAIN act.db : act.db[i].loc # l
    BY <2>2 DEF Places, ToSet
  <2>4. /\ t \in Machine(Val, Addr) /\ DistinctLocs(t) /\ Has(t, m.id)
        /\ t.orphans = act.orphans /\ t.status = act.status
    BY <1>1, <1>3, <2>1, <2>2, <2>3, CreateFacts, ZeroAssumption
  <2>5. /\ ToSet(t.db) = ToSet(act.db) \cup {[id |-> m.id, loc |-> l, val |-> Zero, ptr |-> Null]}
        /\ Places(t) = Places(act) \cup {l} /\ Len(t.db) = Len(act.db) + 1
    BY <1>1, <1>3, <2>1, <2>2, CreateRecords, ZeroAssumption
  <2> HIDE DEF t
  <2>6. LocOf(t, m.id) \in Places(t)
    <3>1. Lookup(t, m.id) \in DOMAIN t.db
      BY <2>4, LocFacts, Found
    <3> QED BY <3>1 DEF LocOf, Places, ToSet
  <2> QED BY <1>1, <1>2, <1>5, <2>1, <2>2, <2>4, <2>5, <2>6 DEF t
<1> QED BY <1>4, <1>5

\* Messages that are sent together.
LEMMA Sent ==
    ASSUME Types, NEW n \in Nat, CanSend(n), NEW q \in Seq(Messages), Len(q) <= n, chan' = chan \o q
    PROVE  chan' \in Seq(Messages) /\ Len(chan') <= MaxChan
<1>1. chan \in Seq(Messages) /\ Len(chan) + n <= MaxChan /\ MaxChan \in Nat
  BY BoundAssumption DEF Types, CanSend
<1>2. chan' \in Seq(Messages) /\ Len(chan') = Len(chan) + Len(q)
  BY <1>1, ConcatFacts
<1>3. Len(chan) \in Nat /\ Len(q) \in Nat
  BY <1>1
<1> QED BY <1>1, <1>2, <1>3

LEMMA SentOne ==
    ASSUME Types, CanSend(1), NEW m \in Messages, chan' = Append(chan, m)
    PROVE  chan' \in Seq(Messages) /\ Len(chan') <= MaxChan
<1>1. chan \in Seq(Messages) /\ Len(chan) + 1 <= MaxChan
  BY DEF Types, CanSend
<1>2. chan' \in Seq(Messages) /\ Len(chan') = Len(chan) + 1
  BY <1>1
<1> QED BY <1>1, <1>2

LEMMA InitTypes == Init => Types
<1> SUFFICES ASSUME Init PROVE Types
  OBVIOUS
<1>1. PICK order \in SetToSeqs(Static) : act = Registered(order)
  BY DEF Init
<1>2. /\ act \in Machine(Val, Addr) /\ DistinctLocs(act) /\ Blank(act) /\ act.orphans = <<>>
      /\ act \in Machine(Val, Loc)
  BY <1>1, LocFacts, RegisteredFacts, ZeroAssumption
<1>3. Static \subseteq Places(act) /\ DOMAIN act.orphans = {}
  BY <1>2 DEF Blank
<1>4. hash \in Hashes /\ stale = {}
  BY ZeroHash DEF Init, Hashes
<1>5. /\ enabled = FALSE /\ loading = FALSE /\ aligned = TRUE
      /\ file = <<>> /\ todo = <<>> /\ chan = <<>> /\ sb = act
  BY DEF Init
<1>6. file \in Seq(FileMessages) /\ todo \in Seq(FileMessages) /\ chan \in Seq(Messages)
  BY <1>5
<1>7. Len(chan) <= MaxChan
  BY <1>5, BoundAssumption
<1>8. enabled \in BOOLEAN /\ loading \in BOOLEAN /\ aligned \in BOOLEAN
  BY <1>5
<1> QED BY <1>2, <1>3, <1>4, <1>5, <1>6, <1>7, <1>8 DEF Types

LEMMA HaCallocTypes ==
    ASSUME Types, NEW l \in Heap, HaCalloc(l)
    PROVE  Types'
<1> DEFINE s == Create(act, l, l)
           m == [op |-> "CREATE", id |-> l]
<1>1. act \in Machine(Val, Addr) /\ DistinctLocs(act) /\ Live = Places(act) /\ l \in Addr /\ l \notin Places(act)
  BY LiveIs, LocFacts DEF Types, HaCalloc
<1>2. \A i \in DOMAIN act.db : act.db[i].loc # l
  BY <1>1 DEF Places, ToSet
<1>3. s \in Machine(Val, Addr) /\ DistinctLocs(s) /\ s.orphans = act.orphans /\ Places(s) = Places(act) \cup {l}
  BY <1>1, <1>2, CreateFacts, CreateRecords, ZeroAssumption
<1> HIDE DEF s
<1>4. act' \in Machine(Val, Addr) /\ act'.db = s.db /\ act'.orphans = act.orphans
  <2>1. act' = IF enabled THEN [s EXCEPT !.status = "segfault"] ELSE s
    BY DEF HaCalloc, s
  <2> QED BY <1>3, <2>1 DEF Machine
<1>5. DistinctLocs(act') /\ Places(act') = Places(act) \cup {l}
  BY <1>3, <1>4 DEF DistinctLocs, Places
<1>6. hash' \in Hashes
  <2>1. hash \in Hashes /\ hash' = [hash EXCEPT ![l] = ZeroCell]
    BY DEF HaCalloc, Types
  <2> QED BY <2>1, ZeroHash DEF Hashes
<1>7. chan' \in Seq(Messages) /\ Len(chan') <= MaxChan
  <2>1. m \in Messages /\ CanSend(1)
    BY <1>1, MessagesFacts DEF HaCalloc
  <2> HIDE DEF m
  <2>2. chan' = chan \/ chan' = Append(chan, m)
    BY DEF HaCalloc, m
  <2>3. CASE chan' = chan
    BY <2>3 DEF Types
  <2> QED BY <2>1, <2>2, <2>3, SentOne
<1> QED BY <1>4, <1>5, <1>6, <1>7 DEF Types, HaCalloc, disk

\* A record that is taken out of the list.
LEMMA RemoveRecord ==
    ASSUME NEW V, NEW L, NEW s \in Machine(V, L), NEW k \in DOMAIN s.db, NEW t \in Machine(V, L),
           Len(t.db) = Len(s.db) - 1, \A j \in DOMAIN t.db : t.db[j].id = s.db[Skip(j, k)].id /\ t.db[j].loc = s.db[Skip(j, k)].loc
    PROVE  /\ \A j \in DOMAIN t.db : Skip(j, k) \in DOMAIN s.db \ {k}
           /\ \A i, j \in DOMAIN t.db : i # j => Skip(i, k) # Skip(j, k)
           /\ \A i \in DOMAIN s.db : i # k => \E j \in DOMAIN t.db : Skip(j, k) = i
<1>1. /\ s.db \in Seq(Record(V, L)) /\ t.db \in Seq(Record(V, L))
  BY RecordsFacts
<1>2. /\ Len(s.db) \in Nat /\ DOMAIN s.db = 1..Len(s.db) /\ DOMAIN t.db = 1..(Len(s.db) - 1)
  BY <1>1
<1>3. ASSUME NEW i \in DOMAIN s.db, i # k PROVE \E j \in DOMAIN t.db : Skip(j, k) = i
  <2>1. CASE i < k
    <3>1. i \in DOMAIN t.db /\ Skip(i, k) = i
      BY <1>2, <2>1 DEF Skip
    <3> QED BY <3>1
  <2>2. CASE i > k
    <3>1. i - 1 \in DOMAIN t.db /\ Skip(i - 1, k) = i
      BY <1>2, <2>2 DEF Skip
    <3> QED BY <3>1
  <2> QED BY <1>2, <1>3, <2>1, <2>2
<1> QED BY <1>2, <1>3 DEF Skip

LEMMA FreedFacts ==
    ASSUME Types, NEW i \in DOMAIN act.db, HaFree(i)
    PROVE  LET l == act.db[i].loc
               a == act.db[i].id
           IN  /\ act' \in Machine(Val, Addr) /\ act'.orphans = act.orphans /\ act'.status = act.status
               /\ DistinctLocs(act')
               /\ l \in Heap /\ l \in Places(act) /\ a \in Addr /\ act.db[i] \in ToSet(act.db)
               /\ Places(act') = Places(act) \ {l}
               /\ ToSet(act'.db) = ToSet(act.db) \ {act.db[i]}
<1> DEFINE l == act.db[i].loc
           a == act.db[i].id
           T == Record(Val, Addr)
           d == RemoveAt(act.db, i)
<1>1. /\ act \in Machine(Val, Addr) /\ DistinctLocs(act) /\ act.db \in Seq(T)
      /\ act.db[i] \in ToSet(act.db) /\ act.db[i] \in T
  BY RecordsFacts DEF Types
<1>2. act' = [act EXCEPT !.db = d]
  BY DEF HaFree
<1>3. /\ d \in Seq(T) /\ Len(d) = Len(act.db) - 1
      /\ \A j \in DOMAIN d : d[j] = act.db[Skip(j, i)]
  <2> HIDE DEF T
  <2> QED BY <1>1, RemoveAtFacts DEF Skip
<1> HIDE DEF d
<1>4. act' \in Machine(Val, Addr) /\ act'.orphans = act.orphans /\ act'.status = act.status /\ act'.db = d
  BY <1>1, <1>2, <1>3 DEF Machine
<1>5. /\ \A j \in DOMAIN d : Skip(j, i) \in DOMAIN act.db \ {i}
      /\ \A x, y \in DOMAIN d : x # y => Skip(x, i) # Skip(y, i)
      /\ \A x \in DOMAIN act.db : x # i => \E j \in DOMAIN d : Skip(j, i) = x
  <2>1. /\ Len(act'.db) = Len(act.db) - 1
        /\ \A j \in DOMAIN act'.db : /\ act'.db[j].id = act.db[Skip(j, i)].id
                                    /\ act'.db[j].loc = act.db[Skip(j, i)].loc
    BY <1>3, <1>4
  <2>2. /\ \A j \in DOMAIN act'.db : Skip(j, i) \in DOMAIN act.db \ {i}
        /\ \A x, y \in DOMAIN act'.db : x # y => Skip(x, i) # Skip(y, i)
        /\ \A x \in DOMAIN act.db : x # i => \E j \in DOMAIN act'.db : Skip(j, i) = x
    <3> DEFINE v == act'
    <3>1. /\ v \in Machine(Val, Addr) /\ Len(v.db) = Len(act.db) - 1
          /\ \A j \in DOMAIN v.db : v.db[j].id = act.db[Skip(j, i)].id /\ v.db[j].loc = act.db[Skip(j, i)].loc
      BY <1>4, <2>1
    <3> HIDE DEF v, T
    <3>2. /\ \A j \in DOMAIN v.db : Skip(j, i) \in DOMAIN act.db \ {i}
          /\ \A x, y \in DOMAIN v.db : x # y => Skip(x, i) # Skip(y, i)
          /\ \A x \in DOMAIN act.db : x # i => \E j \in DOMAIN v.db : Skip(j, i) = x
      BY <1>1, <3>1, RemoveRecord
    <3> QED BY <3>2 DEF v
  <2> QED BY <1>4, <2>2
<1>6. DistinctLocs(act')
  BY <1>1, <1>3, <1>4, <1>5 DEF DistinctLocs
<1>7. ToSet(act'.db) = ToSet(act.db) \ {act.db[i]}
  <2>1. ASSUME NEW r \in ToSet(act'.db) PROVE r \in ToSet(act.db) /\ r # act.db[i]
    <3>1. PICK j \in DOMAIN d : d[j] = r
      BY <1>4 DEF ToSet
    <3>2. act.db[Skip(j, i)] = r /\ r.loc # l
      BY <1>1, <1>3, <1>5, <3>1 DEF DistinctLocs
    <3> QED BY <1>5, <3>2 DEF ToSet
  <2>2. ASSUME NEW r \in ToSet(act.db), r # act.db[i] PROVE r \in ToSet(act'.db)
    <3>1. PICK x \in DOMAIN act.db : act.db[x] = r /\ x # i
      BY <2>2 DEF ToSet
    <3>2. PICK j \in DOMAIN d : Skip(j, i) = x
      BY <1>5, <3>1
    <3> QED BY <1>3, <1>4, <3>1, <3>2 DEF ToSet
  <2> QED BY <2>1, <2>2
<1>8. Places(act') = Places(act) \ {l}
  <2>1. \A r \in ToSet(act.db) : r.loc = l => r = act.db[i]
    BY <1>1 DEF DistinctLocs, ToSet
  <2> HIDE DEF l
  <2> QED BY <1>1, <1>7, <2>1 DEF Places, l
<1>9. l \in Heap /\ l \in Places(act) /\ a \in Addr
  BY <1>1 DEF HaFree, Places, Record
<1> QED BY <1>1, <1>4, <1>6, <1>7, <1>8, <1>9

LEMMA HaFreeTypes ==
    ASSUME Types, NEW i \in DOMAIN act.db, HaFree(i)
    PROVE  Types'
<1> DEFINE l == act.db[i].loc
           m == [op |-> "DELETE", id |-> act.db[i].id]
<1>1. /\ act' \in Machine(Val, Addr) /\ DistinctLocs(act') /\ Places(act') = Places(act) \ {l}
      /\ l \in Heap /\ act.db[i].id \in Addr
  BY FreedFacts
<1>2. Static \subseteq Places(act')
  BY <1>1, DistinctAssumption DEF Types
<1>3. hash' \in Hashes /\ stale' \in SUBSET Addr
  <2>1. hash \in Hashes /\ hash' = [hash EXCEPT ![l] = ZeroCell]
    BY DEF HaFree, Types
  <2>2. Live \subseteq Addr
    BY LiveIs, RecordsFacts DEF Types
  <2> QED BY <2>1, <2>2, ZeroHash DEF Hashes, HaFree, Types
<1>4. chan' \in Seq(Messages) /\ Len(chan') <= MaxChan
  <2>1. m \in Messages /\ CanSend(1) /\ chan' = Append(chan, m)
    BY <1>1, MessagesFacts DEF HaFree
  <2> HIDE DEF m
  <2> QED BY <2>1, SentOne
<1> QED BY <1>1, <1>2, <1>3, <1>4 DEF Types, HaFree, Running, disk

LEMMA WriteTypes ==
    ASSUME Types, NEW i \in DOMAIN act.db, Write(i)
    PROVE  Types'
<1>1. act' \in Machine(Val, Addr) /\ SameShape(act, act') /\ act'.orphans = act.orphans
      /\ UNCHANGED <<hash, stale, enabled, file, saved, todo, loading, chan, sb, aligned>>
  BY StoreFacts
<1>2. Places(act') = Places(act) /\ DistinctLocs(act')
  BY <1>1, ShapePlaces, Alike DEF Types
<1> QED BY <1>1, <1>2 DEF Types

LEMMA HaSyncTypes ==
    ASSUME Types, HaSync
    PROVE  Types'
<1>1. /\ Updates \in Seq(Messages) /\ Len(Updates) = Len(Dirty) /\ Len(Dirty) \in Nat
      /\ CanSend(Len(Dirty)) /\ chan' = chan \o Updates
  BY UpdatesFacts DEF HaSync, Updates, Dirty
<1>2. chan' \in Seq(Messages) /\ Len(chan') <= MaxChan
  <2> DEFINE q == Updates
             n == Len(Dirty)
  <2>1. /\ q \in Seq(Messages) /\ n \in Nat /\ Len(q) = n
        /\ CanSend(n) /\ chan' = chan \o q
    BY <1>1
  <2> HIDE DEF q, n
  <2>2. Len(q) <= n
    BY <2>1
  <2> QED BY <2>1, <2>2, Sent
<1>3. hash' \in Hashes
  <2>1. \A l \in Live : CellOf(RecAt(act, l)) \in [val : Val, ptr : Addr \cup {Null, Dangling}]
    BY LiveIs, RecAtFacts, CellType DEF Types
  <2>2. hash' = [l \in Addr |-> IF l \in Live THEN CellOf(RecAt(act, l)) ELSE hash[l]]
    BY DEF HaSync
  <2> QED BY <2>1, <2>2 DEF Types, Hashes
<1>4. stale' \in SUBSET Addr
  BY LiveIs, RecordsFacts DEF Types, HaSync, StillStale
<1> QED BY <1>2, <1>3, <1>4 DEF Types, HaSync, disk

LEMMA SaveTypes ==
    ASSUME Types, NEW order \in BulkOrders, Save(order)
    PROVE  Types'
BY SaveFacts DEF Types, Save, active

LEMMA BeginLoadTypes ==
    ASSUME Types, NEW msgs \in Seq(FileMessages), BeginLoad(msgs), loading' \in BOOLEAN
    PROVE  Types'
<1>1. act \in Machine(Val, Addr) /\ DistinctLocs(act) /\ Static \subseteq Places(act)
  BY DEF Types
<1>2. act' \in Machine(Val, Addr) /\ DistinctLocs(act') /\ Static \subseteq Places(act')
      /\ \A e \in DOMAIN act'.orphans : act'.orphans[e].from \in Places(act') \cup {Dangling}
  BY <1>1, CleanFacts, CleanRecords, ZeroAssumption DEF BeginLoad
<1>3. hash' \in Hashes /\ stale' = {}
  BY ZeroHash DEF BeginLoad, Hashes
<1>4. chan' \in Seq(Messages) /\ Len(chan') <= MaxChan
  <2> DEFINE m == [op |-> "CLEAN"]
  <2>1. m \in Messages /\ CanSend(1)
    BY MessagesFacts DEF BeginLoad
  <2> HIDE DEF m
  <2>2. chan' = Append(chan, m)
    BY DEF BeginLoad, m
  <2> QED BY <2>1, <2>2, SentOne
<1> QED BY <1>2, <1>3, <1>4 DEF Types, BeginLoad, disk

\* The hashes after a message of the file.
LEMMA LoadHashes ==
    ASSUME Types, NEW l \in Heap \cup {Null}, LoadMessage(l), act' \in Machine(Val, Addr),
           Written(Head(todo), act') \cap Addr \subseteq Places(act')
    PROVE  /\ hash' \in Hashes
           /\ \A a \in Addr : hash'[a] = IF a \in Written(Head(todo), act') THEN CellOf(RecAt(act', a))
                                         ELSE hash[a]
<1> DEFINE m == Head(todo)
           W == Written(m, act')
<1>1. hash' = [a \in Addr |-> IF a \in W THEN CellOf(RecAt(act', a)) ELSE hash[a]]
  BY DEF LoadMessage
<1>2. \A a \in Addr : a \in W => CellOf(RecAt(act', a)) \in [val : Val, ptr : Addr \cup {Null, Dangling}]
  BY RecAtFacts, CellType
<1> HIDE DEF W
<1>3. hash' \in Hashes
  BY <1>1, <1>2 DEF Hashes, Types
<1>4. \A a \in Addr : hash'[a] = IF a \in W THEN CellOf(RecAt(act', a)) ELSE hash[a]
  BY <1>1
<1> QED BY <1>3, <1>4 DEF W

LEMMA LoadSent ==
    ASSUME Types, NEW l \in Heap \cup {Null}, LoadMessage(l)
    PROVE  chan' \in Seq(Messages) /\ Len(chan') <= MaxChan
<1> DEFINE m == Head(todo)
           create == IF m.op = "BULK" /\ Lookup(act, m.id) = 0 THEN <<[op |-> "CREATE", id |-> m.id]>> ELSE <<>>
           last == IF act'.status = "up" THEN <<m>> ELSE <<>>
           q == create \o last
<1>1. m \in Messages
  BY TodoFacts, MessagesFacts DEF LoadMessage
<1>2. create \in Seq(Messages) /\ Len(create) \in {0, 1}
  <2>1. CASE m.op = "BULK" /\ Lookup(act, m.id) = 0
    <3>1. m.id \in Addr
      BY <2>1, TodoFacts, MessagesFacts DEF LoadMessage
    <3> DEFINE c == [op |-> "CREATE", id |-> m.id]
    <3>2. c \in Messages
      BY <3>1, MessagesFacts
    <3> HIDE DEF c
    <3>3. create = <<c>>
      BY <2>1 DEF c
    <3> QED BY <3>2, <3>3
  <2>2. CASE ~(m.op = "BULK" /\ Lookup(act, m.id) = 0)
    <3>1. create = <<>>
      BY <2>2
    <3> QED BY <3>1
  <2> QED BY <2>1, <2>2
<1>3. last \in Seq(Messages) /\ Len(last) <= 1 /\ Len(last) \in Nat
  BY <1>1
<1>4. chan' = (chan \o create) \o last /\ CanSend(1 + Len(create)) /\ chan \in Seq(Messages)
  BY DEF LoadMessage, Types
<1> HIDE DEF create, last
<1>5. q \in Seq(Messages) /\ Len(q) = Len(create) + Len(last)
  BY <1>2, <1>3, ConcatFacts
<1>6. chan' = chan \o q
  BY <1>2, <1>3, <1>4
<1> HIDE DEF q
<1> DEFINE n == 1 + Len(create)
<1>7. n \in Nat /\ Len(q) <= n /\ CanSend(n)
  BY <1>2, <1>3, <1>4, <1>5
<1> HIDE DEF n
<1> QED BY <1>5, <1>6, <1>7, Sent

LEMMA LoadMessageTypes ==
    ASSUME Types, NEW l \in Heap \cup {Null}, LoadMessage(l)
    PROVE  Types'
<1> DEFINE m == Head(todo)
           W == Written(m, act')
<1>1. m \in FileMessages /\ todo' \in Seq(FileMessages) /\ act' = DeliverAt(act, m, l)
  BY TodoFacts DEF LoadMessage
<1>2. act \in Machine(Val, Addr) /\ DistinctLocs(act) /\ Static \subseteq Places(act)
      /\ \A e \in DOMAIN act.orphans : act.orphans[e].from \in Places(act) \cup {Dangling}
  BY DEF Types, LoadMessage
<1>3. /\ act' \in Machine(Val, Addr) /\ DistinctLocs(act') /\ Static \subseteq Places(act')
      /\ \A e \in DOMAIN act'.orphans : act'.orphans[e].from \in Places(act') \cup {Dangling}
      /\ W \cap Addr \subseteq Places(act')
  <2>1. CASE m.op = "BULK"
    <3> DEFINE t == LoadBase(l)
    <3>1. /\ IsUpdate(Val, m) /\ act' = Update(t, m)
          /\ t \in Machine(Val, Addr) /\ DistinctLocs(t) /\ Has(t, m.id) /\ LocOf(t, m.id) \in Places(t)
          /\ t.orphans = act.orphans /\ Places(act) \subseteq Places(t)
      BY <2>1, LoadBaseFacts
    <3> HIDE DEF t, m
    <3>2. /\ act' \in Machine(Val, Addr) /\ SameShape(t, act')
          /\ Updated(t, act', m, Lookup(t, m.id))
      BY <3>1, UpdateFacts
    <3>3. DistinctLocs(act') /\ LocOf(act', m.id) = LocOf(t, m.id)
      BY <3>1, <3>2, Alike
    <3>4. Places(act') = Places(t)
      BY <3>1, <3>2, ShapePlaces
    <3>5. ASSUME NEW e \in DOMAIN act'.orphans PROVE act'.orphans[e].from \in Places(act') \cup {Dangling}
      <4>1. act'.orphans = IF Lookup(t, m.id) # 0 /\ IsOrphan(t, m)
                           THEN Cons([from |-> t.db[Lookup(t, m.id)].loc, target |-> m.ptr], t.orphans)
                           ELSE t.orphans
        BY <3>2 DEF Updated
      <4>2. \A i \in DOMAIN t.orphans : t.orphans[i].from \in Places(t) \cup {Dangling}
        BY <1>2, <3>1
      <4> DEFINE x == [from |-> t.db[Lookup(t, m.id)].loc, target |-> m.ptr]
      <4>3. x.from \in Places(t)
        BY <3>1 DEF LocOf
      <4>4. t.orphans \in Seq(Entry(Addr))
        BY <3>1, RecordsFacts
      <4> HIDE DEF x
      <4>5. CASE act'.orphans = Cons(x, t.orphans)
        <5>1. act'.orphans[e] = x \/ \E i \in DOMAIN t.orphans : act'.orphans[e] = t.orphans[i]
          BY <4>4, <4>5 DEF Cons
        <5> QED BY <3>4, <4>2, <4>3, <5>1
      <4>6. CASE act'.orphans = t.orphans
        BY <3>4, <4>2, <4>6
      <4> QED BY <4>1, <4>5, <4>6 DEF x
    <3>6. W = {LocOf(act', m.id)}
      BY <2>1 DEF Written
    <3> QED BY <1>2, <3>1, <3>2, <3>3, <3>4, <3>5, <3>6
  <2>2. CASE m.op = "ORPHAN_COMMIT"
    <3>1. act' = CommitOrphans(act)
      BY <1>1, <2>2 DEF DeliverAt
    <3>2. /\ act' \in Machine(Val, Addr) /\ SameShape(act, act')
          /\ Resolvable(act) => act'.orphans = <<>>
      BY <1>2, <3>1, CommitFacts
    <3>3. act'.orphans = <<>> \/ act'.orphans = act.orphans
      BY <3>1 DEF CommitOrphans, Machine
    <3>4. DistinctLocs(act') /\ Places(act') = Places(act)
      BY <1>2, <3>2, Alike, ShapePlaces
    <3>5. W = {o.from : o \in ToSet(act.orphans)}
      BY <2>2 DEF Written
    <3>6. \A a \in W : a \in Places(act) \cup {Dangling}
      BY <1>2, <3>5 DEF ToSet
    <3> QED BY <1>2, <3>2, <3>3, <3>4, <3>6, LocFacts
  <2>3. CASE m.op = "COMMIT"
    BY <1>1, <1>2, <2>3 DEF DeliverAt, Written
  <2> QED BY <1>1, <2>1, <2>2, <2>3 DEF FileMessages
<1>4. hash' \in Hashes
  BY <1>3, LoadHashes
<1>5. chan' \in Seq(Messages) /\ Len(chan') <= MaxChan
  BY LoadSent
<1> QED BY <1>1, <1>3, <1>4, <1>5 DEF Types, LoadMessage, disk

LEMMA RestartTypes ==
    ASSUME Types, Restart
    PROVE  Types'
<1>1. PICK order \in SetToSeqs(Static) : act' = Registered(order)
  BY DEF Restart
<1>2. act' \in Machine(Val, Addr) /\ DistinctLocs(act') /\ Blank(act') /\ act'.orphans = <<>>
  BY <1>1, LocFacts, RegisteredFacts, ZeroAssumption
<1>3. Static \subseteq Places(act') /\ DOMAIN act'.orphans = {}
  BY <1>2 DEF Blank
<1>4. hash' \in Hashes /\ stale' = {}
  BY ZeroHash DEF Restart, Hashes
<1>5. todo' \in Seq(FileMessages)
  <2>1. todo' = <<>>
    BY DEF Restart
  <2> QED BY <2>1
<1> QED BY <1>2, <1>3, <1>4, <1>5 DEF Types, Restart, disk

LEMMA DeliverType ==
    ASSUME NEW s \in Machine(Val, Loc), NEW m \in Messages
    PROVE  /\ Deliver(s, m) \in Machine(Val, Loc)
           /\ DistinctLocs(s) => DistinctLocs(Deliver(s, m))
BY LocFacts, MessagesFacts, StandbyTakes, ZeroAssumption

LEMMA RecvTypes ==
    ASSUME Types, Recv
    PROVE  Types'
<1>1. chan \in Seq(Messages) /\ chan # <<>> /\ Len(chan) <= MaxChan /\ MaxChan \in Nat
  BY BoundAssumption DEF Types, Recv
<1>2. Head(chan) \in Messages /\ Tail(chan) \in Seq(Messages) /\ Len(Tail(chan)) <= MaxChan
  BY <1>1
<1>3. sb' \in Machine(Val, Loc)
  BY <1>2, DeliverType DEF Types, Recv
<1> QED BY <1>2, <1>3 DEF Types, Recv, active, disk

LEMMA TypesStep == Types /\ [Next]_vars => Types'
<1> SUFFICES ASSUME Types, [Next]_vars PROVE Types'
  OBVIOUS
<1>1. ASSUME NEW b \in BOOLEAN, EnableCheckpoint(b) PROVE Types'
  BY <1>1 DEF EnableCheckpoint, Types, disk
<1>2. ASSUME LoadCheckpoint PROVE Types'
  <2>1. file \in Seq(FileMessages) /\ BeginLoad(file) /\ loading' \in BOOLEAN
    BY <1>2 DEF LoadCheckpoint, Types
  <2> QED BY <2>1, BeginLoadTypes
<1>3. ASSUME LoadMissing PROVE Types'
  <2> DEFINE none == <<>>
  <2>1. none \in Seq(FileMessages)
    OBVIOUS
  <2>2. BeginLoad(none)
    BY <1>3 DEF LoadMissing
  <2>3. loading' = FALSE
    BY <1>3 DEF LoadMissing
  <2> HIDE DEF none
  <2> QED BY <2>1, <2>2, <2>3, BeginLoadTypes
<1>4. ASSUME LoadDone PROVE Types'
  BY <1>4 DEF LoadDone, Types, disk
<1>5. CASE UNCHANGED vars
  BY <1>5 DEF vars, Types
<1> QED BY <1>1, <1>2, <1>3, <1>4, <1>5, HaCallocTypes, WriteTypes, HaSyncTypes, SaveTypes,
           LoadMessageTypes, RestartTypes, RecvTypes, HaFreeTypes DEF Next

\* As many different elements as there are positions.
LEMMA Counted ==
    ASSUME NEW n \in Nat, NEW f, f = [i \in 1..n |-> f[i]],
           \A i, j \in 1..n : i # j => f[i] # f[j]
    PROVE  Cardinality({f[i] : i \in 1..n}) = n
<1> DEFINE S == {f[i] : i \in 1..n}
<1>1. f \in [1..n -> S]
  OBVIOUS
<1>2. f \in Bijection(1..n, S)
  BY <1>1 DEF Bijection, Injection, Surjection, IsInjective
<1>3. ExistsBijection(1..n, S)
  BY <1>2 DEF ExistsBijection
<1> HIDE DEF S
<1>4. Cardinality(S) = n
  BY <1>3, FS_CountingElements
<1> QED BY <1>4 DEF S

LEMMA PlacesCount ==
    ASSUME NEW V, NEW L, NEW s \in Machine(V, L), DistinctLocs(s)
    PROVE  Cardinality(Places(s)) = Len(s.db)
<1> DEFINE n == Len(s.db)
           f == [i \in 1..n |-> s.db[i].loc]
<1>1. n \in Nat /\ DOMAIN s.db = 1..n
  BY RecordsFacts
<1>2. Places(s) = {f[i] : i \in 1..n}
  BY <1>1 DEF Places, ToSet
<1>3. f = [i \in 1..n |-> f[i]] /\ \A i, j \in 1..n : i # j => f[i] # f[j]
  BY <1>1 DEF DistinctLocs
<1> HIDE DEF f, n
<1>4. Cardinality({f[i] : i \in 1..n}) = n
  BY <1>1, <1>3, Counted
<1> QED BY <1>2, <1>4 DEF n

LEMMA TypesImply == Types => TypeOK
<1> SUFFICES ASSUME Types PROVE TypeOK
  OBVIOUS
<1>1. act \in Machine(Val, Addr) /\ sb \in Machine(Val, Loc) /\ DistinctLocs(act) /\ Live = Places(act)
  BY LiveIs DEF Types
<1>2. act \in Machine(Val, Loc)
  <2>1. Record(Val, Addr) \subseteq Record(Val, Loc) /\ Entry(Addr) \subseteq Entry(Loc)
    BY LocFacts DEF Record, Entry
  <2>2. act.db \in Seq(Record(Val, Loc)) /\ act.orphans \in Seq(Entry(Loc))
    BY <1>1, <2>1, RecordsFacts, SeqMonotonic
  <2> QED BY <1>1, <2>2 DEF Machine
<1>3. {act, sb} \subseteq MachineState
  BY <1>1, <1>2, MachineIs
<1>4. Cardinality(Live) = Len(act.db)
  BY <1>1, PlacesCount
<1>5. {file, todo, chan} \subseteq Seq(Messages)
  BY MessagesFacts, SeqMonotonic DEF Types
<1>6. {enabled, loading, aligned} \subseteq BOOLEAN
  BY Zenon DEF Types
<1> QED BY <1>3, <1>4, <1>5, <1>6 DEF Types, TypeOK, Hashes

\* Every variable stays in its set and no two objects of the active share an
\* address, wherever a load is interrupted and whatever calloc returns.
THEOREM TypeCorrect == Spec => []TypeOK
BY InitTypes, TypesStep, TypesImply, PTL DEF Spec

(***************************************************************************)
(* Two machines that hold the same objects.                                *)
(***************************************************************************)

\* What s should hold in a pointer when t holds p.
Reflect(t, s, p) == IF p = Null THEN Null ELSE LocOf(s, RecAt(t, p).id)

\* For each object of t, s has one with the contents that t hashed.  The hashes of
\* the pointers in S say nothing; the others are of NULL or of an object of t.
Twin(t, h, s, S) ==
    \A r \in ToSet(t.db) :
        /\ Obj(s, r.id).val = h[r.loc].val
        /\ r.loc \notin S => /\ h[r.loc].ptr \in Places(t) \cup {Null}
                             /\ Obj(s, r.id).ptr = Reflect(t, s, h[r.loc].ptr)

LEMMA HasIds ==
    ASSUME NEW V, NEW L, NEW s \in Machine(V, L)
    PROVE  /\ \A a : Has(s, a) <=> a \in Ids(s)
           /\ \A a : Has(s, a) => Obj(s, a) \in ToSet(s.db) /\ Obj(s, a).id = a /\ LocOf(s, a) = Obj(s, a).loc
           /\ Ids(s) \subseteq Addr
<1> DEFINE T == Record(V, L)
<1>1. s.db \in Seq(T)
  BY DEF Machine
<1> HIDE DEF T
<1>2. ASSUME NEW a PROVE /\ Has(s, a) => Lookup(s, a) \in DOMAIN s.db /\ s.db[Lookup(s, a)].id = a
                         /\ \A i \in DOMAIN s.db : s.db[i].id = a => Has(s, a)
  BY <1>1, LookupFacts DEF Has
<1>3. /\ \A i \in DOMAIN s.db : s.db[i] \in ToSet(s.db)
      /\ \A r \in ToSet(s.db) : \E i \in DOMAIN s.db : s.db[i] = r
  BY DEF ToSet
<1>4. Ids(s) \subseteq Addr
  <2>1. \A r \in ToSet(s.db) : r \in Record(V, L)
    BY RecordsFacts
  <2>2. \A r \in Record(V, L) : r.id \in Addr
    BY DEF Record
  <2> QED BY <2>1, <2>2 DEF Ids
<1> QED BY <1>2, <1>3, <1>4 DEF Ids, Obj, LocOf

\* With every obj_id once, an object is found by its obj_id.
LEMMA ById ==
    ASSUME NEW V, NEW L, NEW s \in Machine(V, L), DistinctIds(s), NEW r \in ToSet(s.db)
    PROVE  Has(s, r.id) /\ Obj(s, r.id) = r /\ LocOf(s, r.id) = r.loc
<1> DEFINE T == Record(V, L)
<1>1. s.db \in Seq(T)
  BY DEF Machine
<1> HIDE DEF T
<1>2. PICK i \in DOMAIN s.db : s.db[i] = r
  BY DEF ToSet
<1>3. Lookup(s, s.db[i].id) = i
  BY <1>1, LookupIn DEF DistinctIds
<1>4. i # 0
  BY <1>1
<1> QED BY <1>2, <1>3, <1>4 DEF Has, Obj, LocOf

\* And an obj_id by the address of its object.
LEMMA ByLoc ==
    ASSUME NEW V, NEW L, NEW s \in Machine(V, L), DistinctLocs(s), NEW a, Has(s, a)
    PROVE  /\ LocOf(s, a) \in Places(s)
           /\ RecAt(s, LocOf(s, a)) = Obj(s, a) /\ RecAt(s, LocOf(s, a)).id = a
<1>1. Obj(s, a) \in ToSet(s.db) /\ Obj(s, a).id = a /\ LocOf(s, a) = Obj(s, a).loc
  BY HasIds
<1>2. RecAt(s, Obj(s, a).loc) = Obj(s, a)
  BY <1>1, RecAtIs
<1> QED BY <1>1, <1>2 DEF Places

\* Machines with the same records, up to their contents.
LEMMA ShapeKeeps ==
    ASSUME NEW V, NEW L, NEW s \in Machine(V, L), NEW t \in Machine(V, L), SameShape(s, t)
    PROVE  /\ DistinctIds(s) => DistinctIds(t)
           /\ DistinctLocs(s) => DistinctLocs(t)
           /\ Rooted(s) => Rooted(t)
           /\ Ids(t) = Ids(s) /\ Places(t) = Places(s)
           /\ \A r \in ToSet(t.db) : \E q \in ToSet(s.db) : q.id = r.id /\ q.loc = r.loc
           /\ \A p \in Places(s) : DistinctLocs(s) => RecAt(t, p).id = RecAt(s, p).id
<1>1. Places(t) = Places(s) /\ Ids(t) = Ids(s) /\ (DistinctLocs(s) => DistinctLocs(t))
  BY ShapePlaces, Alike
<1>2. \A r \in ToSet(t.db) : \E q \in ToSet(s.db) : q.id = r.id /\ q.loc = r.loc
  BY DEF ToSet, SameShape
<1>3. Rooted(s) => Rooted(t)
  BY <1>1, <1>2 DEF Rooted
<1>4. DistinctIds(s) => DistinctIds(t)
  BY DEF DistinctIds, SameShape
<1>5. ASSUME NEW p \in Places(s), DistinctLocs(s) PROVE RecAt(t, p).id = RecAt(s, p).id
  <2>1. RecAt(t, p) \in ToSet(t.db) /\ RecAt(t, p).loc = p
    BY <1>1, RecAtFacts
  <2>2. PICK q \in ToSet(s.db) : q.id = RecAt(t, p).id /\ q.loc = p
    BY <1>2, <2>1
  <2>3. RecAt(s, q.loc) = q
    BY <1>5, RecAtIs
  <2> QED BY <2>2, <2>3
<1> QED BY <1>1, <1>2, <1>3, <1>4, <1>5

\* Machines with the same records, and what a pointer should be.
LEMMA ShapeReflects ==
    ASSUME NEW V, NEW L, NEW s \in Machine(V, L), NEW u \in Machine(V, L), SameShape(s, u),
           NEW K, NEW t \in Machine(V, K), NEW v \in Machine(V, K), SameShape(t, v),
           DistinctLocs(t), Ids(t) \subseteq Ids(s), NEW p \in Places(t) \cup {Null}
    PROVE  Reflect(v, u, p) = Reflect(t, s, p)
<1>1. CASE p = Null
  BY <1>1 DEF Reflect
<1>2. CASE p \in Places(t)
  <2>1. RecAt(t, p) \in ToSet(t.db) /\ RecAt(v, p).id = RecAt(t, p).id
    BY <1>2, RecAtFacts, ShapeKeeps
  <2>2. Has(s, RecAt(t, p).id)
    BY <2>1, HasIds DEF Ids
  <2>3. LocOf(u, RecAt(t, p).id) = LocOf(s, RecAt(t, p).id)
    BY <2>2, Alike
  <2> QED BY <2>1, <2>3 DEF Reflect
<1> QED BY <1>1, <1>2

\* Stores do not touch the hashes.
LEMMA ShapeTwin ==
    ASSUME NEW V, NEW L, NEW s \in Machine(V, L),
           NEW K, NEW t \in Machine(V, K), NEW v \in Machine(V, K), SameShape(t, v),
           DistinctLocs(t), Ids(t) \subseteq Ids(s), NEW h, NEW S, Twin(t, h, s, S)
    PROVE  Twin(v, h, s, S)
<1> SUFFICES ASSUME NEW r \in ToSet(v.db)
             PROVE  /\ Obj(s, r.id).val = h[r.loc].val
                    /\ r.loc \notin S => /\ h[r.loc].ptr \in Places(v) \cup {Null}
                                         /\ Obj(s, r.id).ptr = Reflect(v, s, h[r.loc].ptr)
  BY DEF Twin
<1>1. PICK q \in ToSet(t.db) : q.id = r.id /\ q.loc = r.loc
  BY ShapeKeeps
<1>2. /\ Obj(s, q.id).val = h[q.loc].val
      /\ q.loc \notin S => /\ h[q.loc].ptr \in Places(t) \cup {Null}
                           /\ Obj(s, q.id).ptr = Reflect(t, s, h[q.loc].ptr)
  BY DEF Twin
<1>3. SameShape(s, s) /\ Places(v) = Places(t)
  BY ShapeKeeps DEF SameShape
<1>4. \A p \in Places(t) \cup {Null} : Reflect(v, s, p) = Reflect(t, s, p)
  BY <1>3, ShapeReflects
<1> QED BY <1>1, <1>2, <1>3, <1>4

\* An object that neither machine has, created on one of them.
LEMMA CreateKeeps ==
    ASSUME NEW V, NEW L, Zero \in V, NEW s \in Machine(V, L), DistinctLocs(s), NEW a \in Addr, NEW l \in L,
           l \notin Places(s)
    PROVE  LET t == Create(s, a, l)
           IN  /\ t \in Machine(V, L) /\ DistinctLocs(t)
               /\ t.orphans = s.orphans /\ t.status = s.status
               /\ Ids(t) = Ids(s) \cup {a} /\ Places(t) = Places(s) \cup {l}
               /\ ToSet(t.db) = ToSet(s.db) \cup {[id |-> a, loc |-> l, val |-> Zero, ptr |-> Null]}
               /\ (DistinctIds(s) /\ a \notin Ids(s)) => DistinctIds(t)
               /\ (Rooted(s) /\ l \notin Static) => Rooted(t)
               /\ \A p \in Places(s) : RecAt(t, p) = RecAt(s, p)
               /\ Has(t, a) /\ Obj(t, a) = [id |-> a, loc |-> l, val |-> Zero, ptr |-> Null]
               /\ \A x \in Ids(s) : x # a => Obj(t, x) = Obj(s, x) /\ LocOf(t, x) = LocOf(s, x)
<1> DEFINE t == Create(s, a, l)
           r == [id |-> a, loc |-> l, val |-> Zero, ptr |-> Null]
<1>1. \A i \in DOMAIN s.db : s.db[i].loc # l
  BY DEF Places, ToSet
<1>2. /\ t \in Machine(V, L) /\ DistinctLocs(t) /\ t.orphans = s.orphans /\ t.status = s.status
      /\ Has(t, a) /\ Obj(t, a) = r
      /\ \A x : x # a => (Has(t, x) <=> Has(s, x)) /\ (Has(s, x) => Obj(t, x) = Obj(s, x))
      /\ IdsOf(t) = Cons(a, IdsOf(s))
  BY <1>1, CreateFacts
<1>3. ToSet(t.db) = ToSet(s.db) \cup {r} /\ Places(t) = Places(s) \cup {l}
  BY CreateRecords
<1>4. r.id = a /\ r.loc = l
  OBVIOUS
<1> HIDE DEF t, r
<1>5. Ids(t) = Ids(s) \cup {a}
  BY <1>3, <1>4 DEF Ids
<1>6. ASSUME DistinctIds(s), a \notin Ids(s) PROVE DistinctIds(t)
  <2> DEFINE d == IdsOf(s)
             c == Cons(a, d)
  <2>1. s.db \in Seq(Record(V, L)) /\ t.db \in Seq(Record(V, L))
    BY <1>2, RecordsFacts
  <2>2. /\ d \in Seq(Addr)
        /\ \A i \in DOMAIN s.db : d[i] = s.db[i].id
        /\ \A i \in DOMAIN t.db : IdsOf(t)[i] = t.db[i].id
    <3>1. d \in Seq(Addr)
      BY <2>1, IdsOfFacts
    <3> QED BY <3>1 DEF IdsOf
  <2>3. DOMAIN d = DOMAIN s.db /\ DOMAIN IdsOf(t) = DOMAIN t.db
    BY DEF IdsOf
  <2>4. \A i, j \in DOMAIN d : i # j => d[i] # d[j]
    BY <1>6, <2>2, <2>3 DEF DistinctIds
  <2>5. \A i \in DOMAIN d : d[i] # a
    BY <1>6, <2>2, <2>3 DEF Ids, ToSet
  <2>6. c = IdsOf(t)
    BY <1>2
  <2> HIDE DEF d
  <2>7. /\ c[1] = a
        /\ \A i \in DOMAIN c : i # 1 => i - 1 \in DOMAIN d /\ c[i] = d[i - 1]
        /\ \A i \in DOMAIN c : i \in Nat
    BY <2>2 DEF Cons
  <2> HIDE DEF c
  <2>8. ASSUME NEW i \in DOMAIN c, NEW j \in DOMAIN c, i # j PROVE c[i] # c[j]
    <3>1. i \in Nat /\ j \in Nat
      BY <2>7
    <3>2. CASE i = 1
      BY <2>5, <2>7, <2>8, <3>2
    <3>3. CASE j = 1
      BY <2>5, <2>7, <2>8, <3>3
    <3>4. CASE i # 1 /\ j # 1
      <4>1. i - 1 # j - 1
        BY <2>8, <3>1
      <4> QED BY <2>4, <2>7, <3>4, <4>1
    <3> QED BY <3>2, <3>3, <3>4
  <2> QED BY <2>2, <2>3, <2>6, <2>8 DEF DistinctIds
<1>7. ASSUME Rooted(s), l \notin Static PROVE Rooted(t)
  BY <1>3, <1>4, <1>7 DEF Rooted
<1>8. ASSUME NEW p \in Places(s) PROVE RecAt(t, p) = RecAt(s, p)
  <2>1. RecAt(s, p) \in ToSet(s.db) /\ RecAt(s, p).loc = p
    BY RecAtFacts
  <2>2. RecAt(t, RecAt(s, p).loc) = RecAt(s, p)
    BY <1>2, <1>3, <2>1, RecAtIs
  <2> QED BY <2>1, <2>2
<1>9. ASSUME NEW x \in Ids(s), x # a PROVE Obj(t, x) = Obj(s, x) /\ LocOf(t, x) = LocOf(s, x)
  BY <1>2, <1>9, HasIds DEF Obj, LocOf
<1> QED BY <1>2, <1>3, <1>5, <1>6, <1>7, <1>8, <1>9 DEF t, r

\* The stored hashes are those of the contents.
Fresh(t, h) == \A r \in ToSet(t.db) : h[r.loc] = CellOf(r)

LEMMA FreshPtr ==
    ASSUME NEW t, NEW h, Fresh(t, h), NEW r \in ToSet(t.db)
    PROVE  h[r.loc].ptr = r.ptr
<1>1. h[r.loc] = [val |-> r.val, ptr |-> r.ptr]
  BY DEF Fresh, CellOf
<1> QED BY <1>1

LEMMA BlankTwin ==
    ASSUME NEW V, NEW K, NEW L, NEW t \in Machine(V, K), NEW s \in Machine(V, L),
           DistinctLocs(s), Blank(t), Blank(s),
           NEW h, \A r \in ToSet(t.db) : h[r.loc] = ZeroCell
    PROVE  Twin(t, h, s, {}) /\ Fresh(t, h)
<1>1. ASSUME NEW r \in ToSet(t.db)
      PROVE  /\ Obj(s, r.id).val = Zero /\ Obj(s, r.id).ptr = Null
             /\ h[r.loc].val = Zero /\ h[r.loc].ptr = Null
             /\ r.ptr = Null /\ h[r.loc] = CellOf(r)
  <2>1. r.id \in Static /\ r.val = Zero /\ r.ptr = Null
    BY DEF Blank
  <2>2. Has(s, r.id)
    BY <2>1, BlankFacts, HasIds
  <2>3. Obj(s, r.id) \in ToSet(s.db)
    BY <2>2, HasIds
  <2> QED BY <2>1, <2>3 DEF Blank, ZeroCell, CellOf
<1> QED BY <1>1 DEF Twin, Fresh, Reflect

LEMMA CreateFresh ==
    ASSUME NEW V, Zero \in V, NEW K, NEW t \in Machine(V, K), DistinctLocs(t),
           NEW a \in Addr, NEW l \in K, l \notin Places(t), NEW h, NEW g, Fresh(t, h),
           g[l] = ZeroCell, \A p \in Places(t) : g[p] = h[p]
    PROVE  Fresh(Create(t, a, l), g)
<1> DEFINE v == Create(t, a, l)
           new == [id |-> a, loc |-> l, val |-> Zero, ptr |-> Null]
<1>1. ToSet(v.db) = ToSet(t.db) \cup {new} /\ Places(v) = Places(t) \cup {l}
  BY CreateKeeps
<1>2. new.id = a /\ new.loc = l /\ new.ptr = Null /\ CellOf(new) = ZeroCell
  BY DEF CellOf, ZeroCell
<1> HIDE DEF v, new
<1>3. ASSUME NEW r \in ToSet(t.db) PROVE g[r.loc] = h[r.loc]
  BY DEF Places
<1>4. Fresh(v, g)
  BY <1>1, <1>2, <1>3 DEF Fresh
<1> QED BY <1>4 DEF v

LEMMA CreateTwin ==
    ASSUME NEW V, Zero \in V, NEW K, NEW L, NEW t \in Machine(V, K), NEW s \in Machine(V, L),
           DistinctLocs(t), DistinctLocs(s), Ids(t) \subseteq Ids(s),
           NEW a \in Addr, a \notin Ids(s), NEW l \in K, l \notin Places(t), NEW f \in L, f \notin Places(s),
           NEW h, NEW g, NEW S, Twin(t, h, s, S),
           g[l] = ZeroCell, \A p \in Places(t) : g[p] = h[p]
    PROVE  Twin(Create(t, a, l), g, Create(s, a, f), S)
<1> DEFINE v == Create(t, a, l)
           u == Create(s, a, f)
           new == [id |-> a, loc |-> l, val |-> Zero, ptr |-> Null]
<1>1. /\ ToSet(v.db) = ToSet(t.db) \cup {new} /\ Places(v) = Places(t) \cup {l}
      /\ \A p \in Places(t) : RecAt(v, p) = RecAt(t, p)
  BY CreateKeeps
<1>2. /\ Obj(u, a).val = Zero /\ Obj(u, a).ptr = Null
      /\ \A x \in Ids(s) : Obj(u, x) = Obj(s, x) /\ LocOf(u, x) = LocOf(s, x)
  BY CreateKeeps
<1>3. new.id = a /\ new.loc = l /\ new.ptr = Null /\ CellOf(new) = ZeroCell
  BY DEF CellOf, ZeroCell
<1> HIDE DEF u, v, new
<1>4. g[l].val = Zero /\ g[l].ptr = Null
  BY DEF ZeroCell
<1>5. ASSUME NEW r \in ToSet(t.db)
      PROVE  /\ r.loc \in Places(t) /\ r.id \in Ids(s) /\ g[r.loc] = h[r.loc]
             /\ Obj(s, r.id).val = h[r.loc].val
             /\ r.loc \notin S => /\ h[r.loc].ptr \in Places(t) \cup {Null}
                                  /\ Obj(s, r.id).ptr = Reflect(t, s, h[r.loc].ptr)
  BY DEF Places, Ids, Twin
<1>6. ASSUME NEW p \in Places(t) \cup {Null} PROVE Reflect(v, u, p) = Reflect(t, s, p)
  <2>1. CASE p = Null
    BY <2>1 DEF Reflect
  <2>2. CASE p \in Places(t)
    <3>1. RecAt(t, p) \in ToSet(t.db)
      BY <2>2, RecAtFacts
    <3>2. RecAt(t, p).id \in Ids(s)
      BY <1>5, <3>1
    <3> QED BY <1>1, <1>2, <2>2, <3>2 DEF Reflect
  <2> QED BY <2>1, <2>2
<1>7. Twin(v, g, u, S)
  <2>1. ASSUME NEW r \in ToSet(t.db)
        PROVE  /\ Obj(u, r.id).val = g[r.loc].val
               /\ r.loc \notin S => /\ g[r.loc].ptr \in Places(t) \cup {Null}
                                    /\ Obj(u, r.id).ptr = Reflect(v, u, g[r.loc].ptr)
    BY <1>2, <1>5, <1>6
  <2>2. /\ Obj(u, new.id).val = g[new.loc].val
        /\ g[new.loc].ptr = Null /\ Obj(u, new.id).ptr = Reflect(v, u, g[new.loc].ptr)
    BY <1>2, <1>3, <1>4 DEF Reflect
  <2> QED BY <1>1, <2>1, <2>2 DEF Twin
<1> QED BY <1>7 DEF u, v

\* A BULK message, taken by both.
LEMMA BulkTwin ==
    ASSUME NEW V, NEW K, NEW L, K \cap {Null, Dangling} = {}, L \cap {Null, Dangling} = {},
           NEW t \in Machine(V, K), NEW s \in Machine(V, L),
           DistinctLocs(t), DistinctIds(t), Ids(t) = Ids(s),
           NEW m, IsUpdate(V, m), Fields \subseteq m.fields, Has(t, m.id),
           NEW h, NEW g, Twin(t, h, s, {}), Fresh(t, h),
           g[LocOf(t, m.id)] = CellOf(Obj(Update(t, m), m.id)),
           \A p \in Places(t) : p # LocOf(t, m.id) => g[p] = h[p]
    PROVE  Twin(Update(t, m), g, Update(s, m), {}) /\ Fresh(Update(t, m), g)
<1> DEFINE v == Update(t, m)
           u == Update(s, m)
           a == m.id
           q == IF m.ptr = NotTha THEN Obj(t, a).ptr ELSE Pointee(t, m)
<1>1. a \in Addr /\ "val" \in m.fields /\ "ptr" \in m.fields /\ m.ptr \in Addr \cup {Null, NotTha}
  BY DEF IsUpdate, Fields
<1>2. /\ v \in Machine(V, K) /\ SameShape(t, v) /\ Updated(t, v, m, Lookup(t, a))
      /\ u \in Machine(V, L) /\ SameShape(s, u) /\ Updated(s, u, m, Lookup(s, a))
  BY UpdateFacts
<1>3. Has(s, a) /\ \A x : Has(t, x) <=> Has(s, x)
  BY HasIds
<1> HIDE DEF u, v
<1>4. /\ \A x : Lookup(v, x) = Lookup(t, x) /\ Lookup(u, x) = Lookup(s, x)
      /\ \A x : Has(t, x) => LocOf(v, x) = LocOf(t, x)
      /\ DistinctLocs(v) /\ DistinctIds(v) /\ Places(v) = Places(t) /\ Ids(v) = Ids(t)
  BY <1>2, Alike, ShapeKeeps
<1>5. /\ Obj(v, a).val = m.val /\ Obj(v, a).ptr = q
      /\ Obj(u, a).val = m.val
      /\ Obj(u, a).ptr = IF m.ptr = NotTha THEN Obj(s, a).ptr ELSE Pointee(s, m)
  BY <1>1, <1>2, <1>3, <1>4 DEF Updated, Obj, Has
<1>6. ASSUME NEW x, x # a, Has(t, x) PROVE Obj(v, x) = Obj(t, x) /\ Obj(u, x) = Obj(s, x)
  <2>1. /\ Lookup(t, x) \in DOMAIN t.db /\ t.db[Lookup(t, x)].id = x
        /\ Lookup(s, x) \in DOMAIN s.db /\ s.db[Lookup(s, x)].id = x
    BY <1>3, <1>6, Found
  <2>2. t.db[Lookup(t, a)].id = a /\ s.db[Lookup(s, a)].id = a
    BY <1>3, Found
  <2> QED BY <1>2, <1>4, <1>6, <2>1, <2>2 DEF Updated, Obj
<1>7. \A p \in Places(t) \cup {Null} : Reflect(v, u, p) = Reflect(t, s, p)
  BY <1>2, ShapeReflects
<1>8. q \in Places(t) \cup {Null} /\ Obj(u, a).ptr = Reflect(t, s, q)
  <2>0. CASE m.ptr = NotTha
    <3>1. Obj(t, a) \in ToSet(t.db) /\ Obj(t, a).id = a
      BY HasIds
    <3>2. Obj(t, a).ptr = h[Obj(t, a).loc].ptr
      BY <3>1, FreshPtr
    <3>3. Obj(t, a).ptr \in Places(t) \cup {Null} /\ Obj(s, a).ptr = Reflect(t, s, Obj(t, a).ptr)
      BY <3>1, <3>2 DEF Twin
    <3> QED BY <1>5, <2>0, <3>3
  <2> SUFFICES ASSUME m.ptr # NotTha
               PROVE  Pointee(t, m) \in Places(t) \cup {Null} /\ Pointee(s, m) = Reflect(t, s, Pointee(t, m))
    BY <1>5, <2>0
  <2>1. CASE m.ptr = Null
    BY <2>1 DEF Pointee, Reflect
  <2>2. CASE m.ptr # Null /\ ~Has(t, m.ptr)
    BY <1>1, <1>3, <2>2 DEF Pointee, Reflect, IsOrphan
  <2>3. CASE m.ptr # Null /\ Has(t, m.ptr)
    <3>1. Pointee(t, m) = LocOf(t, m.ptr) /\ Pointee(s, m) = LocOf(s, m.ptr)
      BY <1>3, <2>3 DEF Pointee, IsOrphan
    <3>2. LocOf(t, m.ptr) \in Places(t) /\ RecAt(t, LocOf(t, m.ptr)).id = m.ptr
      BY <2>3, ByLoc
    <3>3. LocOf(t, m.ptr) # Null
      BY <2>3, Found
    <3> QED BY <3>1, <3>2, <3>3 DEF Reflect
  <2> QED BY <2>1, <2>2, <2>3
<1> HIDE DEF q
<1>9. /\ LocOf(t, a) = LocOf(v, a) /\ Obj(v, a).loc = LocOf(v, a)
      /\ g[LocOf(t, a)].val = m.val /\ g[LocOf(t, a)].ptr = q
  <2>1. g[LocOf(t, a)] = CellOf(Obj(v, a))
    BY DEF v
  <2> QED BY <1>4, <1>5, <2>1 DEF CellOf, LocOf, Obj
<1>10. ASSUME NEW r \in ToSet(v.db)
       PROVE  /\ g[r.loc] = CellOf(r) /\ g[r.loc].ptr \in Places(v) \cup {Null}
              /\ Obj(u, r.id).val = g[r.loc].val /\ Obj(u, r.id).ptr = Reflect(v, u, g[r.loc].ptr)
  <2>1. Has(v, r.id) /\ Obj(v, r.id) = r /\ LocOf(v, r.id) = r.loc
    BY <1>2, <1>4, ById
  <2>2. CASE r.id = a
    <3>1. g[r.loc] = CellOf(r)
      BY <1>9, <2>1, <2>2 DEF v
    <3>2. g[r.loc].val = m.val /\ g[r.loc].ptr = q
      BY <1>9, <2>1, <2>2
    <3>3. Obj(u, r.id).ptr = Reflect(v, u, q)
      BY <1>7, <1>8, <2>2
    <3> QED BY <1>4, <1>5, <1>8, <2>2, <3>1, <3>2, <3>3
  <2>3. CASE r.id # a
    <3>1. Has(t, r.id) /\ Obj(t, r.id) = r /\ Obj(u, r.id) = Obj(s, r.id)
      BY <1>4, <1>6, <2>1, <2>3 DEF Has
    <3>2. r \in ToSet(t.db)
      BY <3>1, HasIds
    <3>3. r.loc \in Places(t) /\ r.loc # LocOf(t, a)
      <4>1. LocOf(t, r.id) # LocOf(t, a) /\ LocOf(t, r.id) = r.loc
        BY <2>3, <3>1, <3>2, Apart, ById
      <4> QED BY <3>2, <4>1 DEF Places
    <3>4. g[r.loc] = h[r.loc]
      BY <3>3
    <3>5. h[r.loc] = CellOf(r)
      BY <3>2 DEF Fresh
    <3>6. /\ h[r.loc].ptr \in Places(t) \cup {Null}
          /\ Obj(s, r.id).val = h[r.loc].val /\ Obj(s, r.id).ptr = Reflect(t, s, h[r.loc].ptr)
      BY <3>2 DEF Twin
    <3> QED BY <1>4, <1>7, <3>1, <3>4, <3>5, <3>6
  <2> QED BY <2>2, <2>3
<1> QED BY <1>10 DEF Twin, Fresh, u, v

\* Machines that hold the same snapshot, and nothing else.  It says nothing of a
\* pointer to memory without a record.
LEMMA HoldsTwin ==
    ASSUME NEW V, NEW K, NEW L, K \cap {Null, Dangling} = {}, L \cap {Null, Dangling} = {},
           NEW t \in Machine(V, K), NEW s \in Machine(V, L),
           DistinctLocs(t), DistinctIds(t),
           NEW snap, DOMAIN snap \subseteq Addr, Ids(t) \subseteq DOMAIN snap,
           \A a \in DOMAIN snap : snap[a].ptr \in DOMAIN snap \cup {Null, NotTha},
           \A r \in ToSet(t.db) :
              snap[r.id].ptr = NotTha => r.ptr \in Places(t) \cup {Null} /\ Obj(s, r.id).ptr = Reflect(t, s, r.ptr),
           Holds(t, snap), Holds(s, snap), NEW g, Fresh(t, g)
    PROVE  Twin(t, g, s, {})
<1>1. ASSUME NEW r \in ToSet(t.db)
      PROVE  /\ g[r.loc].ptr \in Places(t) \cup {Null}
             /\ Obj(s, r.id).val = g[r.loc].val /\ Obj(s, r.id).ptr = Reflect(t, s, g[r.loc].ptr)
  <2> DEFINE a == r.id
             p == snap[a].ptr
  <2>1. a \in DOMAIN snap /\ p \in DOMAIN snap \cup {Null, NotTha} /\ Null \notin DOMAIN snap
    BY DistinctAssumption DEF Ids
  <2>2. Obj(t, a) = r
    BY ById
  <2>3. g[r.loc].val = r.val /\ g[r.loc].ptr = r.ptr
    <3>1. g[r.loc] = CellOf(r)
      BY DEF Fresh
    <3> QED BY <3>1 DEF CellOf
  <2>4. Obj(t, a).val = snap[a].val /\ Obj(s, a).val = snap[a].val
    BY <2>1 DEF Holds, Obj
  <2>5. p = Null => Obj(t, a).ptr = Null /\ Obj(s, a).ptr = Null
    BY <2>1 DEF Holds, Obj
  <2>6. p \in DOMAIN snap => /\ Has(t, p) /\ Obj(t, a).ptr = LocOf(t, p)
                             /\ Has(s, p) /\ Obj(s, a).ptr = LocOf(s, p)
    BY <2>1 DEF Holds, Obj, Has
  <2>9. CASE p = NotTha
    BY <2>3, <2>4, <2>2, <2>9
  <2> HIDE DEF a, p
  <2>7. CASE p = Null
    BY <2>2, <2>3, <2>4, <2>5, <2>7 DEF Reflect, a
  <2>8. CASE p \in DOMAIN snap
    <3>1. LocOf(t, p) \in Places(t) /\ RecAt(t, LocOf(t, p)).id = p /\ LocOf(t, p) # Null
      BY <2>6, <2>8, ByLoc, Found
    <3> QED BY <2>2, <2>3, <2>4, <2>6, <2>8, <3>1 DEF Reflect, a
  <2> QED BY <2>1, <2>7, <2>8, <2>9
<1> QED BY <1>1 DEF Twin

\* The hashes h, where m carries the fields of r that differ from them, become g,
\* and the pointers whose hashes say nothing are those in R and no longer those in S.
Rehashed(t, r, m, h, g, S, R) ==
    /\ "val" \in m.fields \/ h[r.loc].val = r.val
    /\ r.loc \notin R => \/ "ptr" \in m.fields /\ m.ptr # NotTha
                         \/ "ptr" \notin m.fields /\ h[r.loc].ptr = r.ptr /\ r.loc \notin S
    /\ g[r.loc] = CellOf(r)
    /\ \A p \in Places(t) : p # r.loc => g[p] = h[p] /\ (p \notin R => p \notin S)

\* An UPDATE message about the object r of t: s gets the contents of r.
LEMMA UpdateTwin ==
    ASSUME NEW V, NEW K, NEW L, K \cap {Null, Dangling} = {}, L \cap {Null, Dangling} = {},
           NEW t \in Machine(V, K), NEW s \in Machine(V, L), DistinctLocs(t), DistinctIds(t),
           Ids(t) \subseteq Ids(s), NEW r \in ToSet(t.db),
           NEW m, IsUpdate(V, m), m.id = r.id, m.val = r.val,
           m.ptr = IF r.ptr = Null THEN Null ELSE IF r.ptr \in Places(t) THEN RecAt(t, r.ptr).id ELSE NotTha
    PROVE  /\ Update(s, m) \in Machine(V, L) /\ SameShape(s, Update(s, m))
           /\ Update(s, m).status = s.status /\ Update(s, m).orphans = s.orphans
           /\ \A h, g, S, R : Twin(t, h, s, S) /\ Rehashed(t, r, m, h, g, S, R)
                             => Twin(t, g, Update(s, m), R)
<1> DEFINE u == Update(s, m)
           a == r.id
<1>1. /\ u \in Machine(V, L) /\ SameShape(s, u) /\ u.status = s.status
      /\ Updated(s, u, m, Lookup(s, a))
  BY UpdateFacts
<1>2. r.loc \in Places(t) /\ a \in Ids(s) /\ Has(s, a)
  <2>1. a \in Ids(s)
    BY DEF Ids
  <2> QED BY <2>1, HasIds DEF Places
<1>3. m.ptr \in {Null, NotTha} \/ (m.ptr \in Addr /\ Has(s, m.ptr))
  <2>1. CASE r.ptr = Null
    BY <2>1
  <2>2. CASE r.ptr # Null /\ r.ptr \in Places(t)
    <3>1. m.ptr = RecAt(t, r.ptr).id /\ RecAt(t, r.ptr) \in ToSet(t.db)
      BY <2>2, RecAtFacts
    <3>2. m.ptr \in Ids(s)
      BY <3>1 DEF Ids
    <3> QED BY <3>2, HasIds
  <2>3. CASE r.ptr # Null /\ r.ptr \notin Places(t)
    BY <2>3
  <2> QED BY <2>1, <2>2, <2>3
<1>4. ~IsOrphan(s, m)
  BY <1>3, DistinctAssumption DEF IsOrphan
<1> HIDE DEF u
<1>5. u.orphans = s.orphans
  BY <1>1, <1>4 DEF Updated
<1>6. /\ \A x : Lookup(u, x) = Lookup(s, x)
      /\ \A p \in Places(t) \cup {Null} : Reflect(t, u, p) = Reflect(t, s, p)
  <2>1. SameShape(t, t)
    BY DEF SameShape
  <2> QED BY <1>1, <2>1, Alike, ShapeReflects
<1>7. m.ptr # NotTha => Pointee(s, m) = Reflect(t, s, r.ptr) /\ r.ptr \in Places(t) \cup {Null}
  <2>1. CASE r.ptr = Null
    BY <2>1 DEF Pointee, Reflect
  <2>2. CASE r.ptr # Null /\ r.ptr \in Places(t)
    <3>1. m.ptr # Null
      BY <2>2, RecAtFacts, HasIds, DistinctAssumption DEF Ids
    <3> QED BY <1>4, <2>2, <3>1 DEF Pointee, Reflect
  <2>3. CASE r.ptr # Null /\ r.ptr \notin Places(t)
    BY <2>3
  <2> QED BY <2>1, <2>2, <2>3
<1>8. /\ Obj(u, a).val = IF "val" \in m.fields THEN r.val ELSE Obj(s, a).val
      /\ Obj(u, a).ptr = IF "ptr" \in m.fields /\ m.ptr # NotTha THEN Reflect(t, s, r.ptr) ELSE Obj(s, a).ptr
  BY <1>1, <1>2, <1>4, <1>6, <1>7 DEF Updated, Obj, Has
<1>9. ASSUME NEW x, x # a, Has(s, x) PROVE Obj(u, x) = Obj(s, x)
  <2>1. Lookup(s, x) \in DOMAIN s.db /\ s.db[Lookup(s, x)].id = x
    BY <1>9, Found
  <2>2. s.db[Lookup(s, a)].id = a
    BY <1>2, Found
  <2> QED BY <1>1, <1>6, <1>9, <2>1, <2>2 DEF Updated, Obj
<1>10. ASSUME NEW h, NEW g, NEW S, NEW R, Twin(t, h, s, S), Rehashed(t, r, m, h, g, S, R)
       PROVE  Twin(t, g, u, R)
  <2>0. /\ "val" \in m.fields \/ h[r.loc].val = r.val
        /\ r.loc \notin R => \/ "ptr" \in m.fields /\ m.ptr # NotTha
                             \/ "ptr" \notin m.fields /\ h[r.loc].ptr = r.ptr /\ r.loc \notin S
        /\ g[r.loc] = CellOf(r)
        /\ \A p \in Places(t) : p # r.loc => g[p] = h[p] /\ (p \notin R => p \notin S)
    BY <1>10 DEF Rehashed
  <2> SUFFICES ASSUME NEW q \in ToSet(t.db)
               PROVE  /\ Obj(u, q.id).val = g[q.loc].val
                      /\ q.loc \notin R => /\ g[q.loc].ptr \in Places(t) \cup {Null}
                                           /\ Obj(u, q.id).ptr = Reflect(t, u, g[q.loc].ptr)
    BY DEF Twin
  <2>1. /\ Obj(s, q.id).val = h[q.loc].val
        /\ q.loc \notin S => /\ h[q.loc].ptr \in Places(t) \cup {Null}
                             /\ Obj(s, q.id).ptr = Reflect(t, s, h[q.loc].ptr)
    BY <1>10 DEF Twin
  <2>2. CASE q.id = a
    <3>1. q = r
      BY <2>2, ById
    <3>2. g[r.loc].val = r.val /\ g[r.loc].ptr = r.ptr
      BY <2>0 DEF CellOf
    <3>3. Obj(u, a).val = r.val
      BY <1>8, <2>0, <2>1, <3>1
    <3>4. r.loc \notin R => r.ptr \in Places(t) \cup {Null} /\ Obj(u, a).ptr = Reflect(t, s, r.ptr)
      BY <1>7, <1>8, <2>0, <2>1, <3>1
    <3> QED BY <1>6, <3>1, <3>2, <3>3, <3>4
  <2>3. CASE q.id # a
    <3>1. q.loc # r.loc
      <4>1. RecAt(t, q.loc) = q /\ RecAt(t, r.loc) = r
        BY RecAtIs
      <4> QED BY <2>3, <4>1
    <3>2. g[q.loc] = h[q.loc] /\ (q.loc \notin R => q.loc \notin S)
      BY <2>0, <3>1 DEF Places
    <3>3. Has(s, q.id)
      BY HasIds DEF Ids
    <3> QED BY <1>6, <1>9, <2>1, <2>3, <3>2, <3>3
  <2> QED BY <2>2, <2>3
<1> QED BY <1>1, <1>5, <1>10 DEF u

(***************************************************************************)
(* What holds of every state, if the active may restart, but not in the    *)
(* middle of a load.                                                       *)
(***************************************************************************)

\* The active has every obj_id once.
Own == DistinctIds(act) /\ Rooted(act)

\* There are orphan pointers only during a load.
Phase == /\ act.status = "up" \/ (act.status = "segfault" /\ enabled /\ ~loading)
         /\ loading => ~enabled /\ aligned
         /\ ~loading => act.orphans = <<>> /\ Drained.orphans = <<>>

\* The obj_ids in a file, which is closed: the objects that its objects point to
\* are in the file too, and so are the global objects.
Ord == [i \in 1..(Len(file) - 2) |-> file[i].id]
IsFile == file # <<>> =>
    /\ Len(file) >= 2
    /\ IsSync(Ord, saved)
    /\ Static \subseteq DOMAIN saved
    /\ \A i \in DOMAIN Ord : /\ file[i].op = "BULK" /\ file[i].fields = Fields
                             /\ file[i].val = saved[Ord[i]].val /\ file[i].ptr = saved[Ord[i]].ptr
    /\ file[Len(file) - 1].op = "ORPHAN_COMMIT" /\ file[Len(file)].op = "COMMIT"

\* The standby lives, and misses no object of the active.
Copy == /\ Drained.status = "up" /\ DistinctLocs(Drained) /\ Rooted(Drained)
        /\ act.status = "up" => Ids(act) \subseteq Ids(Drained)

Mirrored == aligned /\ act.status = "up" =>
                /\ DistinctIds(Drained) /\ Ids(Drained) = Ids(act)
                /\ Twin(act, hash, Drained, stale)

\* How far a load has come on the machine s after k messages of the file.
Loaded == Len(file) - Len(todo)
Progress(s, k) == IF k <= Len(file) - 2 THEN Arrived(s, Ord, saved, k)
                  ELSE s.orphans = <<>> /\ Holds(s, saved)
Load == loading =>
    /\ file # <<>> /\ Len(todo) <= Len(file)
    /\ \A i \in DOMAIN todo : todo[i] = file[Loaded + i]
    /\ Progress(act, Loaded) /\ Progress(Drained, Loaded)
    /\ Ids(act) = Static \cup {Ord[j] : j \in {i \in DOMAIN Ord : i <= Loaded}}
    /\ Fresh(act, hash) /\ stale = {}

Inv == Types /\ Own /\ Phase /\ IsFile /\ Copy /\ Mirrored /\ Load

\* A machine that has died takes no notice of messages.
LEMMA StaysDown ==
    ASSUME NEW V, NEW L, NEW s \in Machine(V, L), s.status # "up", NEW m, IsMessage(V, m), NEW l
    PROVE  DeliverAt(s, m, l).status # "up"
<1>1. \A q \in Machine(V, L) : IsUpdate(V, m) => Update(q, m).status = q.status
  BY UpdateFacts
<1>2. CASE m.op = "CREATE"
  BY <1>2 DEF DeliverAt, Create, Machine
<1>3. CASE m.op = "UPDATE"
  BY <1>1, <1>3 DEF DeliverAt, IsMessage
<1>4. CASE m.op = "BULK"
  BY <1>4 DEF DeliverAt, BulkUpdate, Update, Create, Machine
<1>5. CASE m.op = "DELETE"
  <2>1. Delete(s, m).status = s.status
    BY DeleteFacts
  <2> QED BY <1>5, <2>1 DEF DeliverAt
<1>6. CASE m.op = "CLEAN"
  BY <1>6 DEF DeliverAt, Clean, Machine
<1>7. CASE m.op = "ORPHAN_COMMIT"
  BY <1>7 DEF DeliverAt, CommitOrphans, Machine
<1>8. CASE m.op = "COMMIT"
  BY <1>8 DEF DeliverAt
<1> QED BY <1>2, <1>3, <1>4, <1>5, <1>6, <1>7, <1>8 DEF IsMessage

LEMMA DrainedFacts ==
    ASSUME Types
    PROVE  /\ Drained \in Machine(Val, Loc)
           /\ Drained.status = "up" => sb.status = "up"
<1>1. chan \in Seq(Messages) /\ Len(chan) \in Nat /\ \A n \in 1..Len(chan) : chan[n] \in Messages
  BY DEF Types
<1>2. Drained \in Machine(Val, Loc)
  <2> DEFINE good == [n \in 0..Len(chan) |-> Machine(Val, Loc)]
  <2>1. sb \in good[0]
    BY <1>1 DEF Types
  <2>2. \A n \in 1..Len(chan) : \A t \in good[n - 1] : Deliver(t, chan[n]) \in good[n]
    BY <1>1, DeliverType
  <2>3. good[Len(chan)] = Machine(Val, Loc)
    BY <1>1
  <2> HIDE DEF good
  <2> QED BY <1>1, <2>1, <2>2, <2>3, AfterStays DEF Drained
<1>3. ASSUME sb.status # "up" PROVE Drained.status # "up"
  <2> DEFINE Down == {t \in Machine(Val, Loc) : t.status # "up"}
             good == [n \in 0..Len(chan) |-> Down]
  <2>1. sb \in good[0]
    BY <1>1, <1>3 DEF Types
  <2>2. ASSUME NEW n \in 1..Len(chan), NEW t \in Down PROVE Deliver(t, chan[n]) \in Down
    <3>1. IsMessage(Val, chan[n]) /\ chan[n] \in Messages
      BY <1>1, MessagesFacts
    <3>2. Deliver(t, chan[n]).status # "up"
      BY <3>1, StaysDown DEF Deliver
    <3> QED BY <3>1, <3>2, DeliverType
  <2> HIDE DEF Down
  <2>3. \A n \in 1..Len(chan) : \A t \in good[n - 1] : Deliver(t, chan[n]) \in good[n]
    BY <1>1, <2>2
  <2>4. good[Len(chan)] = Down
    BY <1>1
  <2> HIDE DEF good
  <2>5. Drained \in Down
    BY <1>1, <2>1, <2>3, <2>4, AfterStays DEF Drained
  <2> QED BY <2>5 DEF Down
<1> QED BY <1>2, <1>3

\* What is sent is what the standby is about to take.
LEMMA DrainedMoves ==
    ASSUME Types
    PROVE  /\ UNCHANGED <<chan, sb>> => Drained' = Drained
           /\ \A m \in Messages : chan' = Append(chan, m) /\ sb' = sb => Drained' = Deliver(Drained, m)
           /\ \A q \in Seq(Messages) : chan' = chan \o q /\ sb' = sb => Drained' = After(Drained, q)
           /\ Recv => Drained' = Drained
<1>1. chan \in Seq(Messages)
  BY DEF Types
<1>2. UNCHANGED <<chan, sb>> => Drained' = Drained
  BY DEF Drained
<1>3. ASSUME NEW m \in Messages, chan' = Append(chan, m), sb' = sb PROVE Drained' = Deliver(Drained, m)
  BY <1>1, <1>3, AfterAppend DEF Drained
<1>4. ASSUME NEW q \in Seq(Messages), chan' = chan \o q, sb' = sb PROVE Drained' = After(Drained, q)
  BY <1>1, <1>4, AfterConcat DEF Drained
<1>5. ASSUME Recv PROVE Drained' = Drained
  BY <1>1, <1>5, AfterTail DEF Drained, Recv
<1> QED BY <1>2, <1>3, <1>4, <1>5

\* Where the standby puts a new object.
LEMMA FreshPlace ==
    ASSUME NEW s \in Machine(Val, Loc), Rooted(s)
    PROVE  FreshLoc(s) \in Loc /\ FreshLoc(s) \notin Places(s) /\ FreshLoc(s) \notin Static
<1> DEFINE T == Record(Val, Loc)
<1>1. s.db \in Seq(T)
  BY DEF Machine
<1> HIDE DEF T
<1>2. FreshLoc(s) \in Nat \ {0} /\ \A i \in DOMAIN s.db : s.db[i].loc # FreshLoc(s)
  BY <1>1, FreshLocFacts
<1>3. FreshLoc(s) \notin Places(s)
  BY <1>2 DEF Places, ToSet
<1> QED BY <1>2, <1>3, LocFacts DEF Rooted

LEMMA InvInit == Init => Inv
<1> SUFFICES ASSUME Init PROVE Inv
  OBVIOUS
<1>1. PICK order \in SetToSeqs(Static) : act = Registered(order)
  BY DEF Init
<1>2. /\ act \in Machine(Val, Addr) /\ act \in Machine(Val, Loc) /\ DistinctLocs(act) /\ Blank(act)
      /\ act.orphans = <<>> /\ act.status = "up"
  BY <1>1, LocFacts, RegisteredFacts, ZeroAssumption
<1>3. Drained = act
  <2>1. Drained = After(sb, <<>>) /\ sb = act
    BY DEF Drained, Init
  <2> QED BY <2>1, AfterEmpty
<1>4. Rooted(act) /\ DistinctIds(act) /\ Places(act) = Static
  BY <1>2, BlankFacts
<1>5. \A r \in ToSet(act.db) : hash[r.loc] = ZeroCell
  BY <1>2, LocFacts DEF Init, Blank
<1>6. Twin(act, hash, act, stale)
  <2>1. stale = {}
    BY DEF Init
  <2> QED BY <1>2, <1>5, <2>1, BlankTwin
<1>7. enabled = FALSE /\ loading = FALSE /\ aligned = TRUE /\ file = <<>>
  BY DEF Init
<1> QED BY <1>2, <1>3, <1>4, <1>6, <1>7, InitTypes DEF Inv, Own, Phase, IsFile, Copy, Mirrored, Load

LEMMA HaCallocKeeps ==
    ASSUME Faults \subseteq {"restart"}, Inv, NEW l \in Heap, HaCalloc(l)
    PROVE  Own' /\ Phase' /\ IsFile' /\ Copy' /\ Mirrored' /\ Load'
<1> DEFINE s == Create(act, l, l)
           D == Drained
           f == FreshLoc(D)
           u == Create(D, l, f)
           m == [op |-> "CREATE", id |-> l]
<1>1. /\ act \in Machine(Val, Addr) /\ DistinctLocs(act) /\ Live = Places(act) /\ l \in Addr
      /\ l \notin Places(act) /\ l \notin Static /\ l \notin Ids(act)
      /\ act.status = "up" /\ ~loading /\ hash \in Hashes
      /\ UNCHANGED <<stale, enabled, file, saved, todo, loading, sb, aligned>>
  BY LiveIs, LocFacts, DistinctAssumption DEF Inv, Types, HaCalloc, Running, disk
<1>2. /\ s \in Machine(Val, Addr) /\ DistinctLocs(s) /\ s.orphans = <<>> /\ s.status = "up"
      /\ Ids(s) = Ids(act) \cup {l} /\ DistinctIds(s) /\ Rooted(s)
  BY <1>1, CreateKeeps, ZeroAssumption DEF Inv, Own, Phase
<1>3. hash'[l] = ZeroCell /\ \A p \in Places(act) : hash'[p] = hash[p]
  <2>1. hash' = [hash EXCEPT ![l] = ZeroCell] /\ Places(act) \subseteq Addr
    BY <1>1, RecordsFacts DEF HaCalloc
  <2> QED BY <1>1, <2>1 DEF Hashes
<1>5. /\ D \in Machine(Val, Loc) /\ DistinctLocs(D) /\ Rooted(D) /\ D.status = "up" /\ D.orphans = <<>>
      /\ Ids(act) \subseteq Ids(D)
      /\ aligned => DistinctIds(D) /\ Ids(D) = Ids(act) /\ Twin(act, hash, D, stale)
  BY <1>1, DrainedFacts DEF Inv, Copy, Phase, Mirrored
<1> HIDE DEF D
<1>6. f \in Loc /\ f \notin Places(D) /\ f \notin Static
  BY <1>5, FreshPlace
<1> HIDE DEF f
<1>7. /\ u \in Machine(Val, Loc) /\ DistinctLocs(u) /\ Rooted(u) /\ u.status = "up" /\ u.orphans = <<>>
      /\ Ids(u) = Ids(D) \cup {l} /\ (l \notin Ids(D) /\ DistinctIds(D) => DistinctIds(u))
  BY <1>1, <1>5, <1>6, CreateKeeps, ZeroAssumption
<1>8. aligned => Twin(s, hash', u, stale)
  BY <1>1, <1>3, <1>5, <1>6, CreateTwin, ZeroAssumption DEF Inv, Own
<1>9. m \in Messages /\ Deliver(D, m) = u
  BY <1>1, MessagesFacts DEF Deliver, DeliverAt, f
<1> HIDE DEF s, u, m
<1>10. CASE enabled
  <2>1. act' = [s EXCEPT !.status = "segfault"] /\ chan' = chan
    BY <1>10 DEF HaCalloc, s
  <2>2. act'.db = s.db /\ act'.orphans = <<>> /\ act'.status = "segfault"
    BY <1>2, <2>1 DEF Machine
  <2>3. DistinctIds(act') /\ Rooted(act')
    BY <1>2, <2>2 DEF DistinctIds, Rooted, Places
  <2>4. Drained' = D
    BY <1>1, <2>1, DrainedMoves DEF Inv, D
  <2> QED BY <1>1, <1>5, <1>10, <2>2, <2>3, <2>4 DEF Inv, Own, Phase, IsFile, Ord, Copy, Mirrored, Load
<1>11. CASE ~enabled
  <2>1. act' = s /\ chan' = Append(chan, m)
    BY <1>11 DEF HaCalloc, s, m
  <2>2. Drained' = u
    BY <1>1, <1>9, <2>1, DrainedMoves DEF Inv, D
  <2>3. Own' /\ Phase'
    BY <1>1, <1>2, <1>7, <2>1, <2>2 DEF Own, Phase
  <2>4. Copy'
    BY <1>2, <1>5, <1>7, <2>1, <2>2 DEF Copy
  <2>5. Mirrored'
    BY <1>1, <1>2, <1>5, <1>7, <1>8, <2>1, <2>2 DEF Mirrored
  <2> QED BY <1>1, <2>3, <2>4, <2>5 DEF Inv, IsFile, Ord, Load
<1> QED BY <1>10, <1>11

LEMMA WriteKeeps ==
    ASSUME Inv, NEW i \in DOMAIN act.db, Write(i)
    PROVE  Own' /\ Phase' /\ IsFile' /\ Copy' /\ Mirrored' /\ Load'
<1> DEFINE D == Drained
<1>1. /\ act' \in Machine(Val, Addr) /\ SameShape(act, act')
      /\ act'.orphans = act.orphans /\ act'.status = act.status
      /\ UNCHANGED <<hash, stale, enabled, file, saved, todo, loading, chan, sb, aligned>>
      /\ act.status = "up" /\ ~loading
  BY StoreFacts DEF Inv, Running
<1>2. act \in Machine(Val, Addr) /\ DistinctLocs(act)
  BY DEF Inv, Types
<1>3. Drained' = D
  BY <1>1, DrainedMoves DEF Inv
<1>4. /\ D \in Machine(Val, Loc) /\ Ids(act) \subseteq Ids(D)
      /\ aligned => Ids(D) = Ids(act) /\ Twin(act, hash, D, stale)
  BY <1>1, DrainedFacts DEF Inv, Copy, Mirrored
<1> HIDE DEF D
<1>5. DistinctIds(act') /\ Rooted(act') /\ Ids(act') = Ids(act)
  BY <1>1, <1>2, ShapeKeeps DEF Inv, Own
<1>7. aligned => Twin(act', hash, D, stale)
  BY <1>1, <1>2, <1>4, ShapeTwin
<1>8. Own' /\ Phase'
  BY <1>1, <1>3, <1>5 DEF Inv, Own, Phase, D
<1>9. Copy' /\ Mirrored'
  BY <1>1, <1>3, <1>5, <1>7 DEF Inv, Copy, Mirrored, D
<1> QED BY <1>1, <1>8, <1>9 DEF Inv, IsFile, Ord, Load

\* The first record with an obj_id, deleted.
LEMMA DeleteKeeps ==
    ASSUME NEW V, NEW L, NEW s \in Machine(V, L), DistinctLocs(s), NEW m, Has(s, m.id), m.id \in Addr
    PROVE  LET t == Delete(s, m)
           IN  /\ t \in Machine(V, L) /\ DistinctLocs(t) /\ t.status = s.status
               /\ s.orphans = <<>> => t.orphans = <<>>
               /\ Ids(s) \ {m.id} \subseteq Ids(t)
               /\ (Rooted(s) /\ m.id \notin Static) => Rooted(t)
               /\ DistinctIds(s) => DistinctIds(t) /\ Ids(t) = Ids(s) \ {m.id}
<1> DEFINE t == Delete(s, m)
           k == Lookup(s, m.id)
<1>1. /\ t \in Machine(V, L) /\ t.status = s.status /\ DOMAIN t.orphans = DOMAIN s.orphans
      /\ Without(s, t, k)
  BY DeleteFacts DEF Has
<1>2. DistinctLocs(t)
  BY DeleteDistinct
<1>3. k \in DOMAIN s.db /\ s.db[k].id = m.id
  <2> DEFINE T == Record(V, L)
  <2>1. s.db \in Seq(T)
    BY DEF Machine
  <2> HIDE DEF T
  <2> QED BY <2>1, LookupFacts DEF Has
<1> HIDE DEF t, k
<1>4. /\ Len(t.db) = Len(s.db) - 1
      /\ \A j \in DOMAIN t.db : t.db[j].id = s.db[Skip(j, k)].id /\ t.db[j].loc = s.db[Skip(j, k)].loc
  BY <1>1 DEF Without
<1>5. /\ \A j \in DOMAIN t.db : Skip(j, k) \in DOMAIN s.db \ {k}
      /\ \A x, y \in DOMAIN t.db : x # y => Skip(x, k) # Skip(y, k)
      /\ \A x \in DOMAIN s.db : x # k => \E j \in DOMAIN t.db : Skip(j, k) = x
  BY <1>1, <1>3, <1>4, RemoveRecord
<1>6. s.orphans = <<>> => t.orphans = <<>>
  <2> DEFINE E == Entry(L)
  <2>1. t.orphans \in Seq(E)
    BY <1>1, RecordsFacts
  <2> HIDE DEF E
  <2>2. ASSUME s.orphans = <<>> PROVE Len(t.orphans) = 0
    <3>1. DOMAIN t.orphans = {}
      BY <1>1, <2>2
    <3>2. Len(t.orphans) \in Nat /\ DOMAIN t.orphans = 1..Len(t.orphans)
      BY <2>1
    <3>3. ~(1 \in 1..Len(t.orphans))
      BY <3>1, <3>2
    <3> QED BY <3>2, <3>3
  <2> QED BY <2>1, <2>2
<1>7. Ids(s) = {s.db[x].id : x \in DOMAIN s.db} /\ Ids(t) = {t.db[x].id : x \in DOMAIN t.db}
  BY DEF Ids, ToSet
<1>8. ASSUME NEW x \in DOMAIN s.db, x # k
      PROVE  \E j \in DOMAIN t.db : t.db[j].id = s.db[x].id /\ t.db[j].loc = s.db[x].loc
  BY <1>4, <1>5, <1>8
<1>9. Ids(s) \ {m.id} \subseteq Ids(t)
  BY <1>3, <1>7, <1>8
<1>10. ASSUME Rooted(s), m.id \notin Static PROVE Rooted(t)
  <2>1. ASSUME NEW r \in ToSet(t.db), r.loc \in Static PROVE r.id = r.loc
    <3>1. PICK j \in DOMAIN t.db : t.db[j] = r
      BY DEF ToSet
    <3>2. s.db[Skip(j, k)] \in ToSet(s.db)
      BY <1>5 DEF ToSet
    <3> QED BY <1>4, <1>10, <2>1, <3>1, <3>2 DEF Rooted
  <2>2. ASSUME NEW g \in Static PROVE g \in Places(t)
    <3>1. PICK x \in DOMAIN s.db : s.db[x].loc = g
      BY <1>10, RecordsFacts DEF Rooted
    <3>2. s.db[x].id = g
      BY <1>10, <3>1, RecordsFacts DEF Rooted
    <3>3. PICK j \in DOMAIN t.db : t.db[j].loc = g
      BY <1>3, <1>8, <1>10, <3>1, <3>2
    <3> QED BY <3>3 DEF Places, ToSet
  <2> QED BY <2>1, <2>2 DEF Rooted
<1>11. ASSUME DistinctIds(s) PROVE DistinctIds(t) /\ Ids(t) = Ids(s) \ {m.id}
  <2>1. DistinctIds(t)
    BY <1>4, <1>5, <1>11 DEF DistinctIds
  <2>2. ASSUME NEW x \in DOMAIN t.db PROVE t.db[x].id \in Ids(s) \ {m.id}
    BY <1>3, <1>4, <1>5, <1>7, <1>11 DEF DistinctIds
  <2> QED BY <1>7, <1>9, <2>1, <2>2
<1> QED BY <1>1, <1>2, <1>6, <1>9, <1>10, <1>11 DEF t

\* An object deleted on both machines.  The pointers of others to it are stale.
LEMMA FreeTwin ==
    ASSUME NEW V, NEW K, NEW L, Null \notin K, L \cap {Null, Dangling} = {},
           NEW t \in Machine(V, K), NEW v \in Machine(V, K), NEW s \in Machine(V, L),
           DistinctLocs(t), DistinctLocs(v), DistinctIds(t), DistinctLocs(s), DistinctIds(s), Ids(s) = Ids(t),
           NEW q \in ToSet(t.db), ToSet(v.db) = ToSet(t.db) \ {q},
           NEW m, m.id = q.id,
           NEW h, NEW g, \A p \in Places(t) : p # q.loc => g[p] = h[p],
           NEW S, NEW R, \A p \in Places(t) : p # q.loc /\ p \notin R => p \notin S /\ h[p].ptr # q.loc,
           Twin(t, h, s, S)
    PROVE  Twin(v, g, Delete(s, m), R)
<1> DEFINE u == Delete(s, m)
<1>1. Has(s, q.id) /\ Obj(t, q.id) = q /\ q.id \in Addr
  <2>1. q.id \in Ids(s)
    BY DEF Ids
  <2>2. q.id \in Addr /\ Has(s, q.id)
    BY <2>1, HasIds
  <2> QED BY <2>2, ById
<1>2. /\ u \in Machine(V, L) /\ DistinctLocs(u)
      /\ \A x : x # q.id =>
            /\ Has(u, x) <=> Has(s, x)
            /\ Has(s, x) => /\ LocOf(u, x) = LocOf(s, x)
                            /\ Obj(u, x).val = Obj(s, x).val
                            /\ Obj(u, x).ptr = IF Obj(s, x).ptr = LocOf(s, q.id) THEN Dangling ELSE Obj(s, x).ptr
  BY <1>1, DeleteKeeps, DeleteFinds DEF DistinctIds
<1> HIDE DEF u
<1>3. ASSUME NEW r \in ToSet(t.db), r # q PROVE r.id # q.id /\ r.loc # q.loc /\ Has(s, r.id) /\ r.loc \in Places(t)
  <2>1. r.loc \in Places(t) /\ r.id \in Ids(s)
    BY DEF Places, Ids
  <2>2. RecAt(t, r.loc) = r /\ RecAt(t, q.loc) = q
    BY RecAtIs
  <2>3. Obj(t, r.id) = r
    BY ById
  <2> QED BY <1>1, <1>3, <2>1, <2>2, <2>3, HasIds
<1>4. SUFFICES ASSUME NEW r \in ToSet(v.db)
               PROVE  /\ Obj(u, r.id).val = g[r.loc].val
                      /\ r.loc \notin R => /\ g[r.loc].ptr \in Places(v) \cup {Null}
                                           /\ Obj(u, r.id).ptr = Reflect(v, u, g[r.loc].ptr)
  BY DEF Twin, u
<1>5. /\ r \in ToSet(t.db) /\ r.id # q.id /\ Has(s, r.id) /\ r.loc # q.loc /\ r.loc \in Places(t)
      /\ g[r.loc] = h[r.loc]
  BY <1>3
<1>6. Obj(u, r.id).val = g[r.loc].val
  BY <1>2, <1>5 DEF Twin
<1>7. ASSUME r.loc \notin R
      PROVE  /\ g[r.loc].ptr \in Places(v) \cup {Null}
             /\ Obj(u, r.id).ptr = Reflect(v, u, g[r.loc].ptr)
  <2> DEFINE p == h[r.loc].ptr
  <2>1. p \in Places(t) \cup {Null} /\ Obj(s, r.id).ptr = Reflect(t, s, p) /\ p # q.loc
    BY <1>5, <1>7 DEF Twin
  <2> HIDE DEF p
  <2>2. Obj(u, r.id).ptr = IF Obj(s, r.id).ptr = LocOf(s, q.id) THEN Dangling ELSE Obj(s, r.id).ptr
    BY <1>2, <1>5
  <2>3. CASE p = Null
    <3>1. LocOf(s, q.id) # Null
      BY <1>1, Found
    <3> QED BY <1>5, <2>1, <2>2, <2>3, <3>1 DEF Reflect, p
  <2>4. CASE p # Null
    <3>1. PICK x \in ToSet(t.db) : x.loc = p
      BY <2>1, <2>4 DEF Places
    <3>2. x # q /\ x \in ToSet(v.db)
      BY <2>1, <3>1
    <3>3. RecAt(t, p) = x /\ RecAt(v, p) = x
      BY <3>1, <3>2, RecAtIs
    <3>4. x.id # q.id /\ Has(s, x.id)
      BY <1>3, <3>2
    <3>5. LocOf(s, x.id) # LocOf(s, q.id) /\ LocOf(u, x.id) = LocOf(s, x.id)
      BY <1>1, <1>2, <3>4, Apart
    <3>6. p \in Places(v)
      BY <3>1, <3>2 DEF Places
    <3> QED BY <1>5, <2>1, <2>2, <2>4, <3>3, <3>5, <3>6 DEF Reflect, p
  <2> QED BY <2>3, <2>4
<1> QED BY <1>6, <1>7

LEMMA HaFreeKeeps ==
    ASSUME Inv, NEW i \in DOMAIN act.db, HaFree(i)
    PROVE  Own' /\ Phase' /\ IsFile' /\ Copy' /\ Mirrored' /\ Load'
<1> DEFINE D == Drained
           q == act.db[i]
           m == [op |-> "DELETE", id |-> q.id]
           u == Delete(D, m)
<1>1. /\ act \in Machine(Val, Addr) /\ DistinctLocs(act) /\ Live = Places(act) /\ Live \subseteq Addr
      /\ act.status = "up" /\ ~loading /\ hash \in Hashes /\ act.orphans = <<>>
      /\ DistinctIds(act) /\ Rooted(act)
      /\ UNCHANGED <<enabled, file, saved, todo, loading, sb, aligned>>
  BY LiveIs, RecordsFacts DEF Inv, Types, Own, Phase, HaFree, Running, disk
<1>2. /\ act' \in Machine(Val, Addr) /\ act'.orphans = <<>> /\ act'.status = "up" /\ DistinctLocs(act')
      /\ q.loc \in Heap /\ q.loc \in Places(act) /\ q.id \in Addr /\ q \in ToSet(act.db)
      /\ Places(act') = Places(act) \ {q.loc}
      /\ ToSet(act'.db) = ToSet(act.db) \ {q}
  BY <1>1, FreedFacts DEF Inv
<1>3. /\ \A p \in Places(act) : p # q.loc => hash'[p] = hash[p]
      /\ \A p \in Places(act) : p # q.loc /\ p \notin stale' => p \notin stale /\ hash[p].ptr # q.loc
  <2>1. /\ hash' = [hash EXCEPT ![q.loc] = ZeroCell]
        /\ stale' = (stale \cup {p \in Live : hash[p].ptr = q.loc}) \ {q.loc}
    BY DEF HaFree
  <2> QED BY <1>1, <2>1 DEF Hashes
<1>4. q.loc \notin Static /\ q.id \notin Static
  <2>1. q.loc \notin Static
    BY <1>2, DistinctAssumption
  <2>2. ASSUME q.id \in Static PROVE FALSE
    <3>1. PICK r \in ToSet(act.db) : r.loc = q.id
      BY <1>1, <2>2 DEF Rooted, Places
    <3>2. r.id = q.id
      BY <1>1, <2>2, <3>1 DEF Rooted
    <3>3. r = q
      BY <1>1, <1>2, <3>2, ById
    <3> QED BY <2>1, <2>2, <3>1, <3>3
  <2> QED BY <2>1, <2>2
<1>5. /\ D \in Machine(Val, Loc) /\ DistinctLocs(D) /\ Rooted(D) /\ D.status = "up" /\ D.orphans = <<>>
      /\ Ids(act) \subseteq Ids(D)
      /\ aligned => DistinctIds(D) /\ Ids(D) = Ids(act) /\ Twin(act, hash, D, stale)
  BY <1>1, DrainedFacts DEF Inv, Copy, Phase, Mirrored
<1>6. m \in Messages /\ Deliver(D, m) = u /\ Drained' = u
  <2>1. m \in Messages /\ Deliver(D, m) = u /\ chan' = Append(chan, m) /\ sb' = sb
    BY <1>2, MessagesFacts DEF Deliver, DeliverAt, HaFree
  <2> HIDE DEF m, u
  <2> QED BY <2>1, DrainedMoves DEF Inv
<1> HIDE DEF D
<1>7. Ids(act') = Ids(act) \ {q.id} /\ DistinctIds(act') /\ Rooted(act')
  <2>1. \A r \in ToSet(act.db) : r.id = q.id => r = q
    BY <1>1, <1>2, ById
  <2>2. Ids(act') = Ids(act) \ {q.id}
    BY <1>2, <2>1 DEF Ids
  <2>3. DistinctIds(act')
    <3>1. ASSUME NEW x \in DOMAIN act'.db, NEW y \in DOMAIN act'.db, act'.db[x].id = act'.db[y].id PROVE x = y
      <4>1. act'.db[x] \in ToSet(act.db) /\ act'.db[y] \in ToSet(act.db)
        BY <1>2, RecordsFacts
      <4>2. act'.db[x] = act'.db[y]
        BY <1>1, <3>1, <4>1, ById
      <4> QED BY <1>2, <4>2 DEF DistinctLocs
    <3> QED BY <3>1 DEF DistinctIds
  <2>4. Rooted(act')
    BY <1>1, <1>2, <1>4 DEF Rooted
  <2> QED BY <2>2, <2>3, <2>4
<1>8. Has(D, q.id)
  <2>1. q.id \in Ids(act)
    BY <1>2 DEF Ids
  <2> QED BY <1>5, <2>1, HasIds
<1>9. /\ u \in Machine(Val, Loc) /\ DistinctLocs(u) /\ u.status = "up" /\ u.orphans = <<>> /\ Rooted(u)
      /\ Ids(D) \ {q.id} \subseteq Ids(u)
      /\ aligned => DistinctIds(u) /\ Ids(u) = Ids(act')
  <2>1. m.id = q.id
    OBVIOUS
  <2> HIDE DEF m, q
  <2> QED BY <1>2, <1>4, <1>5, <1>7, <1>8, <2>1, DeleteKeeps
<1>10. aligned => Twin(act', hash', u, stale')
  <2>1. m.id = q.id
    OBVIOUS
  <2> HIDE DEF m, q
  <2> QED BY <1>1, <1>2, <1>3, <1>5, <2>1, LocFacts, FreeTwin
<1> HIDE DEF u, m, q
<1>11. Own' /\ Phase'
  BY <1>1, <1>2, <1>6, <1>7, <1>9 DEF Own, Phase
<1>12. Copy' /\ Mirrored'
  BY <1>1, <1>2, <1>5, <1>6, <1>7, <1>9, <1>10 DEF Copy, Mirrored
<1> QED BY <1>1, <1>11, <1>12 DEF Inv, IsFile, Ord, Load

\* The messages of ha_sync reach the standby.
LEMMA SyncTwin ==
    ASSUME Inv, HaSync
    PROVE  LET u == After(Drained, Updates)
           IN  /\ u \in Machine(Val, Loc) /\ SameShape(Drained, u)
               /\ u.status = "up" /\ u.orphans = <<>>
               /\ aligned => Twin(act, hash', u, stale')
<1> DEFINE n == Len(Dirty)
           D == Drained
           Done(k) == {Dirty[j].loc : j \in 1..k}
           Cells(k) == [l \in Places(act) |-> IF l \in Done(k) THEN CellOf(RecAt(act, l)) ELSE hash[l]]
           Old(k) == {l \in Places(act) : IF l \in Done(k) THEN l \in StillStale ELSE l \in stale}
           G(k) == {t \in Machine(Val, Loc) : /\ SameShape(D, t) /\ t.status = "up" /\ t.orphans = <<>>
                                              /\ aligned => Twin(act, Cells(k), t, Old(k))}
           good == [k \in 0..n |-> G(k)]
<1>1. /\ act \in Machine(Val, Addr) /\ DistinctLocs(act) /\ DistinctIds(act) /\ Live = Places(act)
      /\ act.status = "up" /\ ~loading
      /\ \A r \in ToSet(act.db) : r \in Record(Val, Addr) /\ r.loc \in Places(act) /\ RecAt(act, r.loc) = r
  BY LiveIs, RecordsFacts, RecAtIs DEF Inv, Own, Types, HaSync, Running
<1>2. /\ n \in Nat /\ Len(Updates) = n /\ Updates \in Seq(Messages)
      /\ \A k \in 1..n : Dirty[k] \in ToSet(act.db) /\ Updates[k] = Msg("UPDATE", Dirty[k], Changed(Dirty[k]))
      /\ \A r \in ToSet(act.db) : Changed(r) # {} => r.loc \in Done(n)
  <2>1. /\ Updates \in Seq(Messages) /\ Len(Updates) = n /\ DOMAIN Updates = DOMAIN Dirty /\ n \in Nat
        /\ \A i \in DOMAIN Dirty : Dirty[i] \in ToSet(act.db)
        /\ \A r \in ToSet(act.db) : Changed(r) # {} => \E i \in DOMAIN Dirty : Dirty[i] = r
    BY UpdatesFacts DEF Inv
  <2>2. DOMAIN Dirty = 1..n
    BY <2>1
  <2> QED BY <2>1, <2>2 DEF Updates
<1>3. /\ D \in Machine(Val, Loc) /\ D.status = "up" /\ D.orphans = <<>> /\ Ids(act) \subseteq Ids(D)
      /\ aligned => Twin(act, hash, D, stale)
  BY <1>1, DrainedFacts DEF Inv, Copy, Phase, Mirrored
<1> HIDE DEF D
<1>4. /\ \A k \in 0..n : DOMAIN Cells(k) = Places(act)
      /\ \A l \in Places(act) : Cells(0)[l] = hash[l]
      /\ \A r \in ToSet(act.db) : hash'[r.loc] = CellOf(r) /\ Cells(n)[r.loc] = CellOf(r)
  <2>1. \A l \in Places(act) : Cells(0)[l] = hash[l]
    OBVIOUS
  <2>2. ASSUME NEW r \in ToSet(act.db) PROVE hash'[r.loc] = CellOf(r)
    <3>1. Places(act) \subseteq Addr
      BY <1>1, RecordsFacts
    <3> QED BY <1>1, <3>1 DEF HaSync
  <2>3. ASSUME NEW r \in ToSet(act.db) PROVE Cells(n)[r.loc] = CellOf(r)
    <3>1. CASE r.loc \in Done(n)
      BY <1>1, <3>1
    <3>2. CASE r.loc \notin Done(n)
      <4>1. Changed(r) = {}
        BY <1>2, <3>2
      <4>2. r.val = hash[r.loc].val /\ r.ptr = hash[r.loc].ptr
        <5>1. \A x \in Fields : r[x] = hash[r.loc][x]
          BY <4>1 DEF Changed
        <5> QED BY <5>1 DEF Fields
      <4>3. hash[r.loc] = CellOf(r)
        <5>1. hash[r.loc] \in [val : Val, ptr : Addr \cup {Null, Dangling}]
          <6>1. r.loc \in Addr /\ hash \in Hashes
            BY <1>1 DEF Record, Inv, Types
          <6> QED BY <6>1 DEF Hashes
        <5> QED BY <4>2, <5>1 DEF CellOf
      <4> QED BY <1>1, <3>2, <4>3
    <3> QED BY <3>1, <3>2
  <2> QED BY <2>1, <2>2, <2>3
<1>5. ASSUME NEW k \in 0..n, NEW r \in ToSet(act.db)
      PROVE  Cells(k)[r.loc] \in {CellOf(r), hash[r.loc]}
  BY <1>1
<1>6. ASSUME NEW r \in ToSet(act.db)
      PROVE  r.loc \in StillStale <=> IF "ptr" \in Changed(r) THEN WirePtr(r.ptr) = NotTha ELSE r.loc \in stale
  BY <1>1 DEF StillStale
<1>7. D \in good[0]
  <2>1. aligned => Twin(act, Cells(0), D, Old(0))
    <3>1. \A r \in ToSet(act.db) : Cells(0)[r.loc] = hash[r.loc] /\ (r.loc \notin Old(0) => r.loc \notin stale)
      BY <1>1, <1>4
    <3> HIDE DEF Cells, Old
    <3> QED BY <1>3, <3>1 DEF Twin
  <2>2. SameShape(D, D)
    BY DEF SameShape
  <2> HIDE DEF Cells, Old
  <2> QED BY <1>2, <1>3, <2>1, <2>2
<1>8. ASSUME NEW k \in 1..n, NEW t \in G(k - 1) PROVE Deliver(t, Updates[k]) \in G(k)
  <2> DEFINE r == Dirty[k]
             m == Msg("UPDATE", r, Changed(r))
             u == Update(t, m)
  <2>1. /\ t \in Machine(Val, Loc) /\ SameShape(D, t) /\ t.status = "up" /\ t.orphans = <<>>
        /\ aligned => Twin(act, Cells(k - 1), t, Old(k - 1))
    <3> HIDE DEF Cells, Old
    <3> QED OBVIOUS
  <2>2. r \in ToSet(act.db) /\ r \in Record(Val, Addr) /\ r.loc \in Places(act)
    BY <1>1, <1>2
  <2>3. Ids(act) \subseteq Ids(t)
    BY <1>3, <2>1, ShapeKeeps
  <2>4. Updates[k] = m /\ Deliver(t, m) = u
    BY <1>2 DEF Deliver, DeliverAt, Msg
  <2>5. /\ IsUpdate(Val, m) /\ m.id = r.id /\ m.val = r.val /\ m.fields = Changed(r)
        /\ m.ptr = WirePtr(r.ptr)
        /\ m.ptr = IF r.ptr = Null THEN Null ELSE IF r.ptr \in Places(act) THEN RecAt(act, r.ptr).id ELSE NotTha
    <3>1. m.op = "UPDATE" /\ m.id = r.id /\ m.val = r.val /\ m.fields = Changed(r) /\ m.ptr = WirePtr(r.ptr)
      BY DEF Msg
    <3>2. m \in Messages
      <4>1. Changed(r) \in SUBSET Fields
        BY DEF Changed
      <4> QED BY <2>2, <4>1, MsgType DEF Inv
    <3>3. WirePtr(r.ptr) = IF r.ptr = Null THEN Null ELSE IF r.ptr \in Places(act) THEN RecAt(act, r.ptr).id ELSE NotTha
      BY <1>1, <2>2, WirePtrFacts DEF Inv
    <3> HIDE DEF m
    <3>4. IsUpdate(Val, m)
      BY <3>1, <3>2, MessagesFacts DEF IsMessage
    <3> QED BY <3>1, <3>3, <3>4
  <2>6. Rehashed(act, r, m, Cells(k - 1), Cells(k), Old(k - 1), Old(k))
    <3>1. "val" \in m.fields \/ hash[r.loc].val = r.val
      BY <2>5 DEF Changed, Fields
    <3>2. "ptr" \in m.fields \/ hash[r.loc].ptr = r.ptr
      BY <2>5 DEF Changed, Fields
    <3>3. Cells(k)[r.loc] = CellOf(r)
      <4>1. r.loc \in Done(k)
        OBVIOUS
      <4> QED BY <1>1, <2>2, <4>1
    <3>4. ASSUME NEW p \in Places(act), p # r.loc
          PROVE  Cells(k)[p] = Cells(k - 1)[p] /\ (p \in Old(k) <=> p \in Old(k - 1))
      <4>1. p \in Done(k) <=> p \in Done(k - 1)
        <5>1. \A j \in 1..k : j = k \/ j \in 1..(k - 1)
          OBVIOUS
        <5>2. \A j \in 1..(k - 1) : j \in 1..k
          OBVIOUS
        <5> QED BY <3>4, <5>1, <5>2
      <4> HIDE DEF Done
      <4> QED BY <4>1
    <3>5. Cells(k - 1)[r.loc] \in {CellOf(r), hash[r.loc]}
      BY <1>2, <1>5, <2>2
    <3>6. CellOf(r).val = r.val /\ CellOf(r).ptr = r.ptr
      BY DEF CellOf
    <3>7. ASSUME r.loc \notin Old(k), ~("ptr" \in m.fields /\ m.ptr # NotTha)
          PROVE  "ptr" \notin m.fields /\ r.loc \notin Old(k - 1)
      <4>1. r.loc \in Done(k)
        OBVIOUS
      <4> HIDE DEF Done
      <4>2. r.loc \notin StillStale
        BY <2>2, <3>7, <4>1
      <4>3. "ptr" \notin m.fields /\ r.loc \notin stale
        BY <1>6, <2>2, <2>5, <3>7, <4>2
      <4> QED BY <4>2, <4>3
    <3> HIDE DEF Cells, Old, m, r
    <3> QED BY <3>1, <3>2, <3>3, <3>4, <3>5, <3>6, <3>7 DEF Rehashed
  <2> HIDE DEF m, Cells, Old, r
  <2>8. u \in Machine(Val, Loc) /\ SameShape(t, u) /\ u.status = "up" /\ u.orphans = <<>>
        /\ (aligned => Twin(act, Cells(k), u, Old(k)))
    BY <1>1, <2>1, <2>2, <2>3, <2>5, <2>6, UpdateTwin, LocFacts
  <2> HIDE DEF u
  <2>9. SameShape(D, u)
    BY <2>1, <2>8 DEF SameShape
  <2> QED BY <2>4, <2>8, <2>9
<1>9. After(D, Updates) \in G(n)
  <2> HIDE DEF G
  <2>1. \A k \in 1..n : good[k - 1] = G(k - 1) /\ good[k] = G(k)
    BY <1>2
  <2>2. good[n] = G(n)
    BY <1>2
  <2> HIDE DEF good
  <2>3. \A k \in 1..n : \A t \in good[k - 1] : Deliver(t, Updates[k]) \in good[k]
    BY <1>8, <2>1
  <2> HIDE DEF n
  <2> QED BY <1>2, <1>7, <2>2, <2>3, AfterStays
<1>10. \A t : Twin(act, Cells(n), t, Old(n)) => Twin(act, hash', t, stale')
  <2>1. ASSUME NEW r \in ToSet(act.db)
        PROVE  hash'[r.loc] = Cells(n)[r.loc] /\ (r.loc \notin stale' => r.loc \notin Old(n))
    <3>1. hash'[r.loc] = Cells(n)[r.loc]
      BY <1>4
    <3>2. stale' = StillStale
      BY DEF HaSync
    <3>3. r.loc \notin Done(n) => Changed(r) = {}
      BY <1>2
    <3> HIDE DEF Done, Cells
    <3> QED BY <1>6, <3>1, <3>2, <3>3
  <2> HIDE DEF Cells, Old
  <2> QED BY <2>1 DEF Twin
<1> HIDE DEF Cells, Old
<1> QED BY <1>9, <1>10 DEF D

LEMMA HaSyncKeeps ==
    ASSUME Inv, HaSync
    PROVE  Own' /\ Phase' /\ IsFile' /\ Copy' /\ Mirrored' /\ Load'
<1> DEFINE u == After(Drained, Updates)
<1>1. /\ u \in Machine(Val, Loc) /\ SameShape(Drained, u) /\ u.status = "up" /\ u.orphans = <<>>
      /\ aligned => Twin(act, hash', u, stale')
  BY SyncTwin
<1>2. UNCHANGED <<act, enabled, file, saved, todo, loading, sb, aligned>> /\ ~loading /\ act.status = "up"
      /\ chan' = chan \o Updates
  BY DEF HaSync, disk, Running, Updates, Dirty
<1>3. Drained' = u
  BY <1>2, UpdatesFacts, DrainedMoves DEF Inv
<1> HIDE DEF u
<1>4. /\ DistinctLocs(u) /\ Rooted(u) /\ Ids(u) = Ids(Drained)
      /\ DistinctIds(Drained) => DistinctIds(u)
  BY <1>1, DrainedFacts, ShapeKeeps DEF Inv, Copy
<1>6. Own' /\ Phase'
  BY <1>1, <1>2, <1>3 DEF Inv, Own, Phase
<1>7. Copy' /\ Mirrored'
  BY <1>1, <1>2, <1>3, <1>4 DEF Inv, Copy, Mirrored
<1> QED BY <1>2, <1>6, <1>7 DEF Inv, IsFile, Ord, Load

LEMMA EnableKeeps ==
    ASSUME Inv, NEW b \in BOOLEAN, EnableCheckpoint(b)
    PROVE  Own' /\ Phase' /\ IsFile' /\ Copy' /\ Mirrored' /\ Load'
<1>1. /\ UNCHANGED <<act, hash, stale, file, saved, todo, loading, chan, sb, aligned>>
      /\ act.status = "up" /\ ~loading
  BY DEF EnableCheckpoint, disk, Running
<1>2. Drained' = Drained
  BY <1>1, DrainedMoves DEF Inv
<1> QED BY <1>1, <1>2 DEF Inv, Own, Phase, IsFile, Ord, Copy, Mirrored, Load

\* A checkpoint is closed: it has every object that its objects point to.
LEMMA SaveKeeps ==
    ASSUME Inv, NEW order \in BulkOrders, Save(order)
    PROVE  Own' /\ Phase' /\ IsFile' /\ Copy' /\ Mirrored' /\ Load'
<1> DEFINE n == Len(order)
           rec(i) == RecAt(act, order[i])
<1>1. /\ act \in Machine(Val, Addr) /\ DistinctLocs(act) /\ DistinctIds(act) /\ Rooted(act)
      /\ Live = Places(act) /\ ~loading
      /\ UNCHANGED <<act, hash, stale, enabled, todo, loading, chan, sb, aligned>>
  BY LiveIs DEF Inv, Own, Types, Save, Running, active
<1>2. /\ n \in Nat /\ DOMAIN order = 1..n
      /\ \A i, j \in 1..n : i # j => order[i] # order[j]
      /\ \A a \in Reachable : \E i \in 1..n : order[i] = a
      /\ \A i \in 1..n : order[i] \in Places(act) /\ order[i] \in Reachable
      /\ Static \subseteq Reachable
      /\ \A a \in Reachable : RecAt(act, a).ptr \in Live => RecAt(act, a).ptr \in Reachable
  BY <1>1, OrderFacts, ReachableFacts DEF Inv
<1>3. /\ Len(file') = n + 2
      /\ \A k \in 1..n : file'[k] = Msg("BULK", rec(k), Fields)
      /\ file'[n + 1].op = "ORPHAN_COMMIT" /\ file'[n + 2].op = "COMMIT"
      /\ DOMAIN saved' = {rec(i).id : i \in 1..n}
      /\ \A a \in DOMAIN saved' : saved'[a] = [val |-> Obj(act, a).val, ptr |-> WirePtr(Obj(act, a).ptr)]
  BY <1>2, SaveFacts DEF Inv
<1>4. \A i \in 1..n : /\ rec(i) \in ToSet(act.db) /\ rec(i).loc = order[i] /\ rec(i).id \in Addr
                      /\ Obj(act, rec(i).id) = rec(i)
  <2> TAKE i \in 1..n
  <2>1. rec(i) \in ToSet(act.db) /\ rec(i).loc = order[i] /\ rec(i) \in Record(Val, Addr)
    BY <1>1, <1>2, RecAtFacts
  <2>2. Obj(act, rec(i).id) = rec(i)
    BY <1>1, <2>1, ById
  <2> QED BY <2>1, <2>2 DEF Record
<1>5. ASSUME NEW i \in 1..n, NEW j \in 1..n, i # j PROVE rec(i).id # rec(j).id
  <2>1. rec(i) # rec(j)
    BY <1>2, <1>4, <1>5
  <2> QED BY <1>4, <2>1
<1>6. ASSUME NEW i \in 1..n
      PROVE  /\ file'[i].op = "BULK" /\ file'[i].id = rec(i).id /\ file'[i].fields = Fields
             /\ file'[i].val = saved'[rec(i).id].val /\ file'[i].ptr = saved'[rec(i).id].ptr
  <2>1. file'[i] = Msg("BULK", rec(i), Fields)
    BY <1>3
  <2>2. saved'[rec(i).id] = [val |-> rec(i).val, ptr |-> WirePtr(rec(i).ptr)]
    BY <1>3, <1>4
  <2> HIDE DEF rec
  <2> QED BY <2>1, <2>2 DEF Msg
<1>7. ASSUME NEW i \in 1..n
      PROVE  saved'[rec(i).id].ptr \in DOMAIN saved' \cup {Null, NotTha}
  <2> DEFINE p == rec(i).ptr
  <2>2. saved'[rec(i).id].ptr = WirePtr(p)
    <3>1. saved'[rec(i).id] = [val |-> rec(i).val, ptr |-> WirePtr(rec(i).ptr)]
      BY <1>3, <1>4
    <3> QED BY <3>1
  <2>3. CASE p = Null
    BY <2>2, <2>3, WirePtrFacts, LocFacts DEF Inv
  <2>4. CASE p \in Places(act)
    <3>1. WirePtr(p) = RecAt(act, p).id
      BY <1>1, <2>4, WirePtrFacts DEF Inv
    <3>2. p \in Reachable
      BY <1>1, <1>2, <2>4
    <3>3. PICK j \in 1..n : order[j] = p
      BY <1>2, <3>2
    <3>4. WirePtr(p) = rec(j).id
      BY <3>1, <3>3
    <3> HIDE DEF rec
    <3> QED BY <1>3, <1>4, <2>2, <3>4, LocFacts
  <2>5. CASE p # Null /\ p \notin Places(act)
    BY <1>1, <2>2, <2>5, WirePtrFacts DEF Inv
  <2> QED BY <2>3, <2>4, <2>5
<1>8. Static \subseteq DOMAIN saved'
  <2> SUFFICES ASSUME NEW g \in Static PROVE g \in DOMAIN saved'
    OBVIOUS
  <2>1. PICK j \in 1..n : order[j] = g
    BY <1>2
  <2>2. rec(j).id = g
    BY <1>1, <1>4, <2>1 DEF Rooted
  <2> HIDE DEF rec
  <2> QED BY <1>3, <2>2
<1> HIDE DEF rec
<1>9. Ord' = [i \in 1..n |-> rec(i).id] /\ DOMAIN Ord' = 1..n /\ \A i \in 1..n : Ord'[i] = rec(i).id
  <2>1. Len(file') - 2 = n
    BY <1>2, <1>3
  <2>2. Ord' = [i \in 1..(Len(file') - 2) |-> file'[i].id]
    BY DEF Ord
  <2> QED BY <1>6, <2>1, <2>2
<1>10. IsSync(Ord, saved)'
  <2>1. Ord' \in Seq(Addr)
    BY <1>2, <1>4, <1>9
  <2>2. \A i, j \in DOMAIN Ord' : i # j => Ord'[i] # Ord'[j]
    BY <1>5, <1>9
  <2>3. DOMAIN saved' \subseteq Addr
    BY <1>3, <1>4
  <2>4. \A i \in DOMAIN Ord' : Ord'[i] \in DOMAIN saved'
    BY <1>3, <1>9
  <2>5. \A a \in DOMAIN saved' : /\ \E i \in DOMAIN Ord' : Ord'[i] = a
                                 /\ saved'[a].ptr \in DOMAIN saved' \cup {Null, NotTha}
    BY <1>3, <1>7, <1>9
  <2> QED BY <2>1, <2>2, <2>3, <2>4, <2>5 DEF IsSync
<1>11. IsFile'
  <2>1. Len(file') >= 2 /\ Len(file') - 1 = n + 1 /\ Len(file') = n + 2
    BY <1>2, <1>3
  <2>3. \A i \in DOMAIN Ord' : /\ file'[i].op = "BULK" /\ file'[i].fields = Fields
                               /\ file'[i].val = saved'[Ord'[i]].val /\ file'[i].ptr = saved'[Ord'[i]].ptr
    BY <1>6, <1>9
  <2>4. file'[Len(file') - 1].op = "ORPHAN_COMMIT" /\ file'[Len(file')].op = "COMMIT"
    BY <1>3, <2>1
  <2> QED BY <1>8, <1>10, <2>1, <2>3, <2>4 DEF IsFile
<1>12. Drained' = Drained
  BY <1>1, DrainedMoves DEF Inv
<1> QED BY <1>1, <1>11, <1>12 DEF Inv, Own, Phase, Copy, Mirrored, Load

\* Both machines are empty, but for the global objects, when a load begins.
LEMMA BeginLoadKeeps ==
    ASSUME Inv, NEW msgs, BeginLoad(msgs),
           \/ msgs = file /\ file # <<>> /\ loading' = TRUE
           \/ msgs = <<>> /\ loading' = FALSE
    PROVE  Own' /\ Phase' /\ IsFile' /\ Copy' /\ Mirrored' /\ Load'
<1> DEFINE t == Clean(act)
           u == Clean(Drained)
           m == [op |-> "CLEAN"]
<1>1. /\ act \in Machine(Val, Addr) /\ DistinctLocs(act) /\ Rooted(act) /\ act.status = "up" /\ act.orphans = <<>>
      /\ Drained \in Machine(Val, Loc) /\ DistinctLocs(Drained) /\ Rooted(Drained)
      /\ Drained.status = "up" /\ Drained.orphans = <<>>
      /\ ~enabled /\ UNCHANGED <<enabled, file, saved, sb>> /\ aligned' = TRUE
  BY DrainedFacts DEF Inv, Own, Types, Phase, Copy, BeginLoad, Running, disk
<1>2. /\ t \in Machine(Val, Addr) /\ t.status = "up" /\ DOMAIN t.orphans = DOMAIN act.orphans /\ DistinctLocs(t)
      /\ Blank(t)
  BY <1>1, CleanFacts, CleanRecords, ZeroAssumption
<1>3. /\ u \in Machine(Val, Loc) /\ u.status = "up" /\ DOMAIN u.orphans = DOMAIN Drained.orphans
      /\ DistinctLocs(u) /\ Blank(u)
  BY <1>1, CleanFacts, CleanRecords, ZeroAssumption
<1>4. act' = t /\ chan' = Append(chan, m) /\ todo' = msgs /\ \A l \in Addr : hash'[l] = ZeroCell
  BY DEF BeginLoad
<1>5. m \in Messages /\ Deliver(Drained, m) = u
  BY MessagesFacts DEF Deliver, DeliverAt
<1> HIDE DEF t, u, m
<1>6. Drained' = u
  BY <1>1, <1>4, <1>5, DrainedMoves DEF Inv
<1>7. t.orphans = <<>> /\ u.orphans = <<>>
  <2>1. DOMAIN t.orphans = {} /\ DOMAIN u.orphans = {}
    BY <1>1, <1>2, <1>3
  <2>2. t.orphans \in Seq(Entry(Addr)) /\ u.orphans \in Seq(Entry(Loc))
    BY <1>2, <1>3, RecordsFacts
  <2>3. \A S : \A q \in Seq(S) : DOMAIN q = {} => q = <<>>
    OBVIOUS
  <2> DEFINE E(L) == Entry(L)
  <2> HIDE DEF E
  <2>4. t.orphans \in Seq(E(Addr)) /\ u.orphans \in Seq(E(Loc))
    BY <2>2 DEF E
  <2> QED BY <2>1, <2>3, <2>4
<1>8. /\ Rooted(t) /\ DistinctIds(t) /\ Ids(t) = Static
      /\ Rooted(u) /\ DistinctIds(u) /\ Ids(u) = Static
  BY <1>2, <1>3, BlankFacts
<1>9. Twin(t, hash', u, stale') /\ Fresh(t, hash') /\ stale' = {}
  <2>1. \A r \in ToSet(t.db) : hash'[r.loc] = ZeroCell
    BY <1>2, <1>4, LocFacts DEF Blank
  <2>2. stale' = {}
    BY DEF BeginLoad
  <2> QED BY <1>2, <1>3, <2>1, <2>2, BlankTwin
<1>10. Own' /\ Phase'
  BY <1>1, <1>2, <1>3, <1>4, <1>6, <1>7, <1>8, <1>9 DEF Own, Phase
<1>11. Copy' /\ Mirrored'
  BY <1>1, <1>2, <1>3, <1>4, <1>6, <1>8, <1>9 DEF Copy, Mirrored
<1>12. IsFile' /\ Ord' = Ord
  BY <1>1 DEF Inv, IsFile, Ord
<1>13. ASSUME loading' PROVE Load'
  <2>1. msgs = file /\ file # <<>> /\ todo' = file /\ file' = file /\ saved' = saved
    BY <1>1, <1>4, <1>13
  <2>2. Len(file) \in Nat /\ Len(file) >= 2
    BY <2>1 DEF Inv, Types, IsFile
  <2>3. Loaded' = 0
    BY <2>1, <2>2 DEF Loaded
  <2>4. Progress(t, 0) /\ Progress(u, 0)
    BY <1>7, <2>2 DEF Progress, Arrived
  <2>5. Progress(act, Loaded)' /\ Progress(Drained, Loaded)'
    <3>1. \A s, k : Progress(s, k)' <=> IF k' <= Len(file') - 2 THEN Arrived(s', Ord', saved', k')
                                        ELSE s'.orphans = <<>> /\ Holds(s', saved')
      BY DEF Progress
    <3> QED BY <1>4, <1>6, <1>12, <2>1, <2>3, <2>4 DEF Progress
  <2>6. \A i \in DOMAIN todo' : todo'[i] = file'[Loaded' + i]
    <3>1. \A i \in DOMAIN file : 0 + i = i
      BY DEF Inv, Types
    <3> QED BY <2>1, <2>3, <3>1
  <2>7. {Ord[j] : j \in {i \in DOMAIN Ord : i <= 0}} = {}
    BY DEF Ord
  <2>8. Ids(act)' = Static \cup {Ord'[j] : j \in {i \in DOMAIN Ord' : i <= Loaded'}}
    BY <1>4, <1>8, <1>12, <2>3, <2>7 DEF Ids
  <2>9. Len(todo') <= Len(file')
    BY <2>1, <2>2
  <2>10. Fresh(act, hash)' /\ stale' = {}
    BY <1>4, <1>9 DEF Fresh
  <2> QED BY <2>1, <2>5, <2>6, <2>8, <2>9, <2>10 DEF Load
<1>14. Load'
  BY <1>13 DEF Load
<1> QED BY <1>10, <1>11, <1>12, <1>14

LEMMA LoadDoneKeeps ==
    ASSUME Inv, LoadDone
    PROVE  Own' /\ Phase' /\ IsFile' /\ Copy' /\ Mirrored' /\ Load'
<1>1. /\ UNCHANGED <<act, hash, stale, enabled, file, saved, todo, chan, sb, aligned>>
      /\ loading /\ loading' = FALSE /\ act.status = "up" /\ todo = <<>>
  BY DEF LoadDone, disk
<1>2. Drained' = Drained
  BY <1>1, DrainedMoves DEF Inv
<1>3. act.orphans = <<>> /\ Drained.orphans = <<>>
  <2>1. Loaded = Len(file) /\ Len(file) \in Nat
    BY <1>1 DEF Loaded, Inv, Types
  <2>2. Progress(act, Loaded) /\ Progress(Drained, Loaded)
    BY <1>1 DEF Inv, Load
  <2>3. ~(Loaded <= Len(file) - 2)
    BY <2>1
  <2> QED BY <2>2, <2>3 DEF Progress
<1> QED BY <1>1, <1>2, <1>3 DEF Inv, Own, Phase, IsFile, Ord, Copy, Mirrored, Load

\* A process that starts again knows nothing but its global objects.
LEMMA RestartKeeps ==
    ASSUME Faults \subseteq {"restart"}, Inv, Restart
    PROVE  Own' /\ Phase' /\ IsFile' /\ Copy' /\ Mirrored' /\ Load'
<1>1. PICK order \in SetToSeqs(Static) : act' = Registered(order)
  BY DEF Restart
<1>2. /\ UNCHANGED <<file, saved, chan, sb>> /\ ~loading
      /\ enabled' = FALSE /\ loading' = FALSE /\ aligned' = FALSE
      /\ \A l \in Addr : hash'[l] = ZeroCell
  BY DEF Restart, disk
<1>3. /\ act' \in Machine(Val, Addr) /\ DistinctLocs(act') /\ Blank(act')
      /\ act'.orphans = <<>> /\ act'.status = "up"
  BY <1>1, LocFacts, RegisteredFacts, ZeroAssumption
<1>4. Drained' = Drained
  BY <1>2, DrainedMoves DEF Inv
<1>5. Rooted(act') /\ DistinctIds(act') /\ Ids(act') = Static
  BY <1>3, BlankFacts
<1>7. Ids(act') \subseteq Ids(Drained)
  <2>1. Static \subseteq Ids(Drained)
    BY DEF Inv, Copy, Rooted, Places, Ids
  <2> QED BY <1>5, <2>1
<1> QED BY <1>2, <1>3, <1>4, <1>5, <1>7 DEF Inv, Own, Phase, IsFile, Ord, Copy, Mirrored, Load

LEMMA RecvKeeps ==
    ASSUME Inv, Recv
    PROVE  Own' /\ Phase' /\ IsFile' /\ Copy' /\ Mirrored' /\ Load'
<1>1. UNCHANGED <<act, hash, stale, enabled, file, saved, todo, loading, aligned>>
  BY DEF Recv, active, disk
<1>2. Drained' = Drained
  BY DrainedMoves DEF Inv
<1> QED BY <1>1, <1>2 DEF Inv, Own, Phase, IsFile, Ord, Copy, Mirrored, Load, Progress, Loaded

\* The next message of the file.
LEMMA LoadNext ==
    ASSUME Inv, NEW l \in Heap \cup {Null}, LoadMessage(l)
    PROVE  LET k == Loaded
               m == Head(todo)
           IN  /\ k \in Nat /\ k + 1 <= Len(file) /\ Len(file) >= 2 /\ Len(file) \in Nat
               /\ m = file[k + 1] /\ m \in FileMessages
               /\ Loaded' = k + 1 /\ Ord' = Ord
               /\ Len(todo') <= Len(file')
               /\ \A i \in DOMAIN todo' : todo'[i] = file'[Loaded' + i]
               /\ UNCHANGED <<stale, enabled, file, saved, loading, sb, aligned>>
               /\ loading /\ ~enabled /\ aligned /\ act.status = "up" /\ file # <<>>
               /\ act' = DeliverAt(act, m, l)
<1>1. /\ todo \in Seq(FileMessages) /\ todo # <<>> /\ file \in Seq(FileMessages)
      /\ loading /\ ~enabled /\ aligned /\ act.status = "up" /\ file # <<>> /\ Len(file) >= 2
      /\ UNCHANGED <<stale, enabled, file, saved, loading, sb, aligned>>
      /\ todo' = Tail(todo) /\ act' = DeliverAt(act, Head(todo), l)
  BY DEF Inv, Types, Phase, Load, IsFile, LoadMessage, disk
<1>2. Len(todo) <= Len(file) /\ \A i \in DOMAIN todo : todo[i] = file[Loaded + i]
  BY <1>1 DEF Inv, Load
<1>3. /\ Len(todo) \in Nat /\ Len(todo) >= 1 /\ Len(file) \in Nat /\ Len(todo') = Len(todo) - 1
      /\ Head(todo) = todo[1] /\ 1 \in DOMAIN todo
      /\ \A i \in DOMAIN todo' : i + 1 \in DOMAIN todo /\ todo'[i] = todo[i + 1] /\ i \in Nat
      /\ Head(todo) \in FileMessages
  BY <1>1
<1>4. Loaded \in Nat /\ Loaded + 1 <= Len(file)
  BY <1>2, <1>3 DEF Loaded
<1>5. Loaded' = Loaded + 1
  <2>1. Loaded' = Len(file) - (Len(todo) - 1)
    BY <1>1, <1>3 DEF Loaded
  <2> QED BY <1>3, <2>1 DEF Loaded
<1>6. Head(todo) = file[Loaded + 1]
  BY <1>2, <1>3
<1>7. \A i \in DOMAIN todo' : todo'[i] = file'[Loaded' + i]
  <2> TAKE i \in DOMAIN todo'
  <2>1. todo'[i] = file[Loaded + (i + 1)]
    BY <1>2, <1>3
  <2>2. Loaded + (i + 1) = Loaded' + i
    BY <1>3, <1>4, <1>5
  <2> QED BY <1>1, <2>1, <2>2
<1>8. Ord' = Ord
  BY <1>1 DEF Ord
<1> QED BY <1>1, <1>2, <1>3, <1>4, <1>5, <1>6, <1>7, <1>8

\* The records that a BULK message of the file is written into, on both machines.
LEMMA BulkBases ==
    ASSUME Inv, loading, act.status = "up", NEW m, m.id \in Addr,
           NEW l, Has(act, m.id) \/ l \in Heap \ Places(act)
    PROVE  LET t == Base(act, m, l)
               s == Base(Drained, m, FreshLoc(Drained))
           IN  /\ DistinctIds(t) /\ Rooted(t)
               /\ DistinctIds(s) /\ Rooted(s) /\ Ids(s) = Ids(t) /\ Ids(t) = Ids(act) \cup {m.id}
               /\ \E h : /\ Twin(t, h, s, {}) /\ Fresh(t, h)
                         /\ \A p \in Places(t) : p # LocOf(t, m.id) => h[p] = hash[p]
<1> DEFINE D == Drained
           f == FreshLoc(D)
           t == Base(act, m, l)
           s == Base(D, m, f)
<1>1. /\ act \in Machine(Val, Addr) /\ DistinctLocs(act) /\ DistinctIds(act) /\ Rooted(act)
      /\ Fresh(act, hash) /\ stale = {} /\ hash \in Hashes
  BY DEF Inv, Types, Own, Load
<1>2. /\ D \in Machine(Val, Loc) /\ DistinctLocs(D) /\ Rooted(D) /\ DistinctIds(D) /\ Ids(D) = Ids(act)
      /\ Twin(act, hash, D, {})
  BY <1>1, DrainedFacts DEF Inv, Phase, Copy, Mirrored
<1> HIDE DEF D
<1>3. f \in Loc /\ f \notin Places(D) /\ f \notin Static
  BY <1>2, FreshPlace
<1> HIDE DEF f
<1>4. /\ Has(act, m.id) <=> m.id \in Ids(act)
      /\ Has(D, m.id) <=> m.id \in Ids(act)
  BY <1>1, <1>2, HasIds
<1>5. CASE Has(act, m.id)
  <2>1. t = act /\ s = D
    BY <1>4, <1>5 DEF Base
  <2>2. Ids(act) = Ids(act) \cup {m.id}
    BY <1>4, <1>5
  <2> QED BY <1>1, <1>2, <2>1, <2>2 DEF D, f
<1>6. CASE ~Has(act, m.id)
  <2>1. /\ t = Create(act, m.id, l) /\ s = Create(D, m.id, f)
        /\ l \in Addr /\ l \notin Places(act) /\ l \notin Static
        /\ m.id \notin Ids(act) /\ m.id \notin Ids(D)
    BY <1>2, <1>4, <1>6, LocFacts, DistinctAssumption DEF Base
  <2>2. /\ DistinctIds(t) /\ Rooted(t) /\ Ids(t) = Ids(act) \cup {m.id} /\ Places(t) = Places(act) \cup {l}
        /\ LocOf(t, m.id) = l
    <3>1. /\ DistinctIds(t) /\ Rooted(t) /\ Ids(t) = Ids(act) \cup {m.id} /\ Places(t) = Places(act) \cup {l}
          /\ Obj(t, m.id) = [id |-> m.id, loc |-> l, val |-> Zero, ptr |-> Null]
      BY <1>1, <2>1, CreateKeeps, ZeroAssumption
    <3> HIDE DEF t
    <3>2. Obj(t, m.id).loc = l
      BY <3>1
    <3> QED BY <3>1, <3>2 DEF LocOf, Obj
  <2>3. DistinctIds(s) /\ Rooted(s) /\ Ids(s) = Ids(D) \cup {m.id}
    BY <1>2, <1>3, <2>1, CreateKeeps, ZeroAssumption
  <2> DEFINE h == [hash EXCEPT ![l] = ZeroCell]
  <2>4. h[l] = ZeroCell /\ \A p \in Places(act) : h[p] = hash[p]
    <3>1. Places(act) \subseteq Addr
      BY <1>1, RecordsFacts
    <3> QED BY <1>1, <2>1, <3>1 DEF Hashes
  <2> HIDE DEF h
  <2>5. Fresh(t, h)
    BY <1>1, <2>1, <2>4, CreateFresh, ZeroAssumption
  <2>6. Twin(t, h, s, {})
    BY <1>1, <1>2, <1>3, <2>1, <2>4, CreateTwin, ZeroAssumption
  <2>7. \A p \in Places(t) : p # LocOf(t, m.id) => h[p] = hash[p]
    BY <2>2, <2>4
  <2> HIDE DEF t, s
  <2> QED BY <1>2, <2>2, <2>3, <2>5, <2>6, <2>7 DEF t, s, D, f
<1> QED BY <1>5, <1>6

\* What the active forwards of a BULK message does the same to the standby.
LEMMA BulkSends ==
    ASSUME Inv, NEW l \in Heap \cup {Null}, LoadMessage(l), Head(todo).op = "BULK"
    PROVE  LET m == Head(todo)
           IN  Drained' = Update(Base(Drained, m, FreshLoc(Drained)), m)
<1> DEFINE m == Head(todo)
           D == Drained
           f == FreshLoc(D)
           b == Base(D, m, f)
           c == [op |-> "CREATE", id |-> m.id]
           create == IF m.op = "BULK" /\ Lookup(act, m.id) = 0 THEN <<c>> ELSE <<>>
           last == IF act'.status = "up" THEN <<m>> ELSE <<>>
<1>1. /\ D \in Machine(Val, Loc) /\ Rooted(D) /\ Ids(D) = Ids(act) /\ act \in Machine(Val, Addr)
      /\ aligned /\ act.status = "up" /\ loading /\ sb' = sb /\ chan \in Seq(Messages)
  BY DrainedFacts, LoadNext DEF Inv, Types, Copy, Mirrored
<1>2. /\ m \in FileMessages /\ m \in Messages /\ IsUpdate(Val, m) /\ m.id \in Addr
      /\ act' = Update(LoadBase(l), m) /\ LoadBase(l) \in Machine(Val, Addr) /\ LoadBase(l).status = act.status
  BY LoadBaseFacts, MessagesFacts DEF Inv
<1>3. act'.status = "up"
  BY <1>1, <1>2, UpdateFacts
<1>4. last = <<m>> /\ chan' = (chan \o create) \o last
  BY <1>3 DEF LoadMessage
<1>5. c \in Messages /\ Deliver(D, c) = Create(D, m.id, f)
  BY <1>2, MessagesFacts DEF Deliver, DeliverAt
<1>6. Has(D, m.id) <=> Has(act, m.id)
  BY <1>1, HasIds
<1>7. \A s : Has(s, m.id) => Deliver(s, m) = Update(s, m)
  BY DEF Deliver, DeliverAt, BulkUpdate, Has
<1>8. Has(b, m.id)
  <2>1. f \in Loc
    BY <1>1, FreshPlace
  <2> HIDE DEF f, b
  <2> QED BY <1>1, <1>2, <2>1, BaseFacts, ZeroAssumption DEF b
<1>9. After(D, create) = b /\ create \in Seq(Messages)
  <2>1. CASE Has(act, m.id)
    <3>1. create = <<>> /\ b = D
      BY <1>6, <2>1 DEF Has, Base
    <3> QED BY <3>1, AfterEmpty
  <2>2. CASE ~Has(act, m.id)
    <3> HIDE DEF c
    <3>1. create = <<c>> /\ b = Create(D, m.id, f)
      BY <1>6, <2>2 DEF Has, Base
    <3> QED BY <1>5, <3>1, AfterOne
  <2> QED BY <2>1, <2>2
<1> HIDE DEF m, b, create, D, last
<1>10. last \in Seq(Messages) /\ create \o last \in Seq(Messages)
  BY <1>2, <1>4, <1>9
<1>11. chan' = chan \o (create \o last)
  BY <1>1, <1>4, <1>9, <1>10
<1>12. Drained' = After(D, create \o last)
  BY <1>1, <1>10, <1>11, DrainedMoves DEF Inv, D
<1>13. After(D, create \o last) = After(b, last)
  BY <1>9, <1>10, AfterConcat
<1>14. After(b, last) = Deliver(b, m)
  BY <1>4, AfterOne
<1> QED BY <1>7, <1>8, <1>12, <1>13, <1>14 DEF b, f, m, D

LEMMA OrdFacts ==
    ASSUME Inv, file # <<>>
    PROVE  /\ IsSync(Ord, saved) /\ Ord \in Seq(Addr) /\ Len(Ord) = Len(file) - 2 /\ Len(Ord) \in Nat
           /\ DOMAIN Ord = 1..Len(Ord) /\ \A i \in DOMAIN Ord : Ord[i] = file[i].id
           /\ DOMAIN saved = {Ord[i] : i \in DOMAIN Ord} /\ Static \subseteq DOMAIN saved /\ DOMAIN saved \subseteq Addr
           /\ \A a \in DOMAIN saved : saved[a].ptr \in DOMAIN saved \cup {Null, NotTha}
<1>1. IsSync(Ord, saved) /\ Len(file) \in Nat /\ Len(file) >= 2 /\ Static \subseteq DOMAIN saved
  BY DEF Inv, Types, IsFile
<1>2. Ord \in Seq(Addr)
  BY <1>1 DEF IsSync
<1>3. DOMAIN Ord = 1..(Len(file) - 2) /\ \A i \in DOMAIN Ord : Ord[i] = file[i].id
  BY DEF Ord
<1>4. Len(Ord) \in Nat /\ DOMAIN Ord = 1..Len(Ord)
  BY <1>2
<1>5. Len(Ord) = Len(file) - 2
  <2> DEFINE n == Len(Ord)
             j == Len(file) - 2
  <2>1. n \in Nat /\ j \in Nat /\ 1..n = 1..j
    BY <1>1, <1>3, <1>4
  <2> HIDE DEF n, j
  <2>2. n = j
    BY <2>1
  <2> QED BY <2>2 DEF n, j
<1>6. DOMAIN saved = {Ord[i] : i \in DOMAIN Ord} /\ DOMAIN saved \subseteq Addr
      /\ \A a \in DOMAIN saved : saved[a].ptr \in DOMAIN saved \cup {Null, NotTha}
  <2>1. /\ DOMAIN saved \subseteq Addr /\ \A i \in DOMAIN Ord : Ord[i] \in DOMAIN saved
        /\ \A a \in DOMAIN saved : /\ \E i \in DOMAIN Ord : Ord[i] = a
                                   /\ saved[a].ptr \in DOMAIN saved \cup {Null, NotTha}
    BY <1>1 DEF IsSync
  <2>2. DOMAIN saved = {Ord[i] : i \in DOMAIN Ord}
    BY <2>1
  <2> QED BY <1>1, <2>1, <2>2
<1> QED BY <1>1, <1>2, <1>3, <1>4, <1>5, <1>6

LEMMA LoadBulkKeeps ==
    ASSUME Inv, NEW l \in Heap \cup {Null}, LoadMessage(l), Head(todo).op = "BULK"
    PROVE  Own' /\ Phase' /\ IsFile' /\ Copy' /\ Mirrored' /\ Load'
<1> DEFINE m == Head(todo)
           k == Loaded
           D == Drained
           f == FreshLoc(D)
           t == Base(act, m, l)
           s == Base(D, m, f)
           v == Update(t, m)
           u == Update(s, m)
<1>1. /\ k \in Nat /\ k + 1 <= Len(file) /\ Len(file) \in Nat /\ m = file[k + 1]
      /\ Loaded' = k + 1 /\ Ord' = Ord
      /\ Len(todo') <= Len(file') /\ \A i \in DOMAIN todo' : todo'[i] = file'[Loaded' + i]
      /\ UNCHANGED <<stale, enabled, file, saved, loading, sb, aligned>> /\ stale = {}
      /\ loading /\ ~enabled /\ aligned /\ act.status = "up" /\ file # <<>>
  BY LoadNext DEF Inv, Load
<1>2. m \in FileMessages /\ IsUpdate(Val, m) /\ m.id \in Addr /\ act' = v
  BY LoadBaseFacts DEF Inv, LoadBase
<1>3. Drained' = u
  BY BulkSends
<1>4. /\ IsSync(Ord, saved) /\ Len(Ord) = Len(file) - 2 /\ Len(Ord) \in Nat /\ DOMAIN Ord = 1..Len(Ord)
      /\ DOMAIN saved = {Ord[i] : i \in DOMAIN Ord}
      /\ \A a \in DOMAIN saved : saved[a].ptr \in DOMAIN saved \cup {Null, NotTha}
  BY <1>1, OrdFacts
<1>5. k < Len(Ord) /\ k + 1 \in DOMAIN Ord
  <2>1. k + 1 # Len(file) - 1 /\ k + 1 # Len(file)
    BY <1>1 DEF Inv, IsFile
  <2> QED BY <1>1, <1>4, <2>1
<1>6. /\ m.id = Ord[k + 1] /\ m.val = saved[m.id].val /\ m.ptr = saved[m.id].ptr
      /\ Fields \subseteq m.fields /\ "val" \in m.fields /\ "ptr" \in m.fields
  <2>1. Ord[k + 1] = m.id
    BY <1>1, <1>5, OrdFacts
  <2>2. m.fields = Fields /\ m.val = saved[m.id].val /\ m.ptr = saved[m.id].ptr
    BY <1>1, <1>5, <2>1 DEF Inv, IsFile
  <2> QED BY <2>1, <2>2 DEF Fields
<1>7. /\ act \in Machine(Val, Addr) /\ DistinctLocs(act) /\ Arrived(act, Ord, saved, k)
      /\ D \in Machine(Val, Loc) /\ DistinctLocs(D) /\ Arrived(D, Ord, saved, k) /\ D.status = "up" /\ Rooted(D)
  <2>1. Progress(act, k) /\ Progress(D, k) /\ k <= Len(file) - 2
    BY <1>1, <1>4, <1>5 DEF Inv, Load
  <2> QED BY <2>1, DrainedFacts DEF Inv, Types, Copy, Progress
<1>8. Has(act, m.id) \/ l \in Heap \ Places(act)
  BY LoadBaseFacts DEF Inv
<1>9. l \in Heap \ Places(act) => l \in Addr /\ \A i \in DOMAIN act.db : act.db[i].loc # l
  BY LocFacts DEF Places, ToSet
<1>10. f \in Loc /\ \A i \in DOMAIN D.db : D.db[i].loc # f
  <2>1. f \in Loc /\ f \notin Places(D)
    BY <1>7, FreshPlace
  <2> HIDE DEF f, D
  <2> QED BY <2>1 DEF Places, ToSet
<1>11. /\ DistinctIds(t) /\ Rooted(t)
       /\ DistinctIds(s) /\ Rooted(s) /\ Ids(s) = Ids(t) /\ Ids(t) = Ids(act) \cup {m.id}
       /\ \E h : /\ Twin(t, h, s, {}) /\ Fresh(t, h)
                 /\ \A p \in Places(t) : p # LocOf(t, m.id) => h[p] = hash[p]
  BY <1>1, <1>2, <1>8, BulkBases
<1> HIDE DEF m, k, D, f
<1>12. /\ t \in Machine(Val, Addr) /\ DistinctLocs(t) /\ t.status = "up"
       /\ Has(t, m.id) /\ Arrived(t, Ord, saved, k)
  <2>1. Zero \in Val /\ IsSync(Ord, saved) /\ k \in Nat /\ k < Len(Ord) /\ m.id = Ord[k + 1]
    BY <1>1, <1>4, <1>5, <1>6, ZeroAssumption
  <2>2. act \in Machine(Val, Addr) /\ DistinctLocs(act) /\ Arrived(act, Ord, saved, k) /\ act.status = "up"
    BY <1>1, <1>7
  <2>3. Has(act, m.id) \/ (l \in Addr /\ \A i \in DOMAIN act.db : act.db[i].loc # l)
    BY <1>8, <1>9
  <2>4. /\ t \in Machine(Val, Addr) /\ DistinctLocs(t) /\ t.status = act.status
        /\ Has(t, Ord[k + 1]) /\ Arrived(t, Ord, saved, k)
    BY <2>1, <2>2, <2>3, BaseKeeps
  <2> QED BY <2>1, <2>2, <2>4
<1>13. /\ s \in Machine(Val, Loc) /\ DistinctLocs(s) /\ s.status = "up"
       /\ Has(s, m.id) /\ Arrived(s, Ord, saved, k)
  <2>1. Zero \in Val /\ IsSync(Ord, saved) /\ k \in Nat /\ k < Len(Ord) /\ m.id = Ord[k + 1]
    BY <1>1, <1>4, <1>5, <1>6, ZeroAssumption
  <2>2. D \in Machine(Val, Loc) /\ DistinctLocs(D) /\ Arrived(D, Ord, saved, k) /\ D.status = "up"
    BY <1>1, <1>7
  <2>3. Has(D, m.id) \/ (f \in Loc /\ \A i \in DOMAIN D.db : D.db[i].loc # f)
    BY <1>10
  <2>4. /\ s \in Machine(Val, Loc) /\ DistinctLocs(s) /\ s.status = D.status
        /\ Has(s, Ord[k + 1]) /\ Arrived(s, Ord, saved, k)
    BY <2>1, <2>2, <2>3, BaseKeeps
  <2> QED BY <2>1, <2>2, <2>4
<1> HIDE DEF t, s
<1>14. Arrived(v, Ord, saved, k + 1) /\ v \in Machine(Val, Addr) /\ SameShape(t, v) /\ v.status = "up"
  <2>1. Arrived(v, Ord, saved, k + 1)
    BY <1>1, <1>2, <1>4, <1>5, <1>6, <1>12, NextArrives, LocFacts
  <2>2. v \in Machine(Val, Addr) /\ SameShape(t, v) /\ v.status = "up"
    BY <1>2, <1>12, UpdateFacts
  <2> QED BY <2>1, <2>2
<1>15. Arrived(u, Ord, saved, k + 1) /\ u \in Machine(Val, Loc) /\ SameShape(s, u) /\ u.status = "up"
  <2>1. Arrived(u, Ord, saved, k + 1)
    BY <1>1, <1>2, <1>4, <1>5, <1>6, <1>13, NextArrives, LocFacts
  <2>2. u \in Machine(Val, Loc) /\ SameShape(s, u) /\ u.status = "up"
    BY <1>2, <1>13, UpdateFacts
  <2> QED BY <2>1, <2>2
<1>16. /\ DistinctIds(v) /\ DistinctLocs(v) /\ Rooted(v) /\ Ids(v) = Ids(t) /\ Places(v) = Places(t)
       /\ DistinctIds(u) /\ DistinctLocs(u) /\ Rooted(u) /\ Ids(u) = Ids(t)
  BY <1>11, <1>12, <1>13, <1>14, <1>15, ShapeKeeps
<1>17. Twin(v, hash', u, {}) /\ Fresh(v, hash')
  <2>1. PICK h : /\ Twin(t, h, s, {}) /\ Fresh(t, h)
                 /\ \A p \in Places(t) : p # LocOf(t, m.id) => h[p] = hash[p]
    BY <1>11
  <2>2. Has(v, m.id) /\ LocOf(v, m.id) = LocOf(t, m.id)
    BY <1>12, <1>14, Alike
  <2>3. LocOf(v, m.id) \in Places(v) /\ RecAt(v, LocOf(v, m.id)) = Obj(v, m.id)
    BY <1>14, <1>16, <2>2, ByLoc
  <2>4. Written(m, v) = {LocOf(v, m.id)}
    BY DEF Written, m
  <2>5. /\ \A a \in Addr : hash'[a] = IF a \in Written(m, v) THEN CellOf(RecAt(v, a)) ELSE hash[a]
        /\ Places(v) \subseteq Addr
    <3>1. Places(v) \subseteq Addr
      BY <1>14, RecordsFacts
    <3>2. act' = v /\ v \in Machine(Val, Addr) /\ Written(m, v) \cap Addr \subseteq Places(v)
      BY <1>2, <1>14, <2>3, <2>4
    <3> HIDE DEF v
    <3> QED BY <3>1, <3>2, LoadHashes DEF Inv, m
  <2>6. /\ hash'[LocOf(t, m.id)] = CellOf(Obj(v, m.id))
        /\ \A p \in Places(t) : p # LocOf(t, m.id) => hash'[p] = h[p]
    BY <1>16, <2>1, <2>2, <2>3, <2>4, <2>5
  <2> QED BY <1>2, <1>6, <1>11, <1>12, <1>13, <2>1, <2>6, BulkTwin, LocFacts
<1> HIDE DEF u, v
<1>18. Ids(v) = Static \cup {Ord[j] : j \in {i \in DOMAIN Ord : i <= k + 1}}
  <2>1. Ids(v) = Static \cup {Ord[j] : j \in {i \in DOMAIN Ord : i <= k}} \cup {Ord[k + 1]}
    BY <1>1, <1>6, <1>11, <1>16 DEF Inv, Load, k
  <2>2. {i \in DOMAIN Ord : i <= k + 1} = {i \in DOMAIN Ord : i <= k} \cup {k + 1}
    BY <1>1, <1>4, <1>5
  <2> QED BY <2>1, <2>2
<1>19. Own' /\ Phase'
  BY <1>1, <1>2, <1>14, <1>16, <1>17 DEF Own, Phase
<1>20. Copy' /\ Mirrored'
  BY <1>1, <1>2, <1>3, <1>15, <1>16, <1>17 DEF Copy, Mirrored
<1>21. Load'
  <2>1. Progress(act, Loaded)' /\ Progress(Drained, Loaded)'
    BY <1>1, <1>2, <1>3, <1>4, <1>5, <1>14, <1>15 DEF Progress
  <2>2. Fresh(act, hash)' /\ Ids(act)' = Static \cup {Ord'[j] : j \in {i \in DOMAIN Ord' : i <= Loaded'}}
    BY <1>1, <1>2, <1>17, <1>18 DEF Fresh, Ids
  <2> QED BY <1>1, <2>1, <2>2 DEF Load
<1> QED BY <1>1, <1>19, <1>20, <1>21 DEF Inv, IsFile

\* A message of the file that creates nothing is forwarded as it is.
LEMMA CommitSends ==
    ASSUME Inv, NEW l \in Heap \cup {Null}, LoadMessage(l), Head(todo).op # "BULK", act'.status = "up"
    PROVE  Drained' = Deliver(Drained, Head(todo))
<1> DEFINE m == Head(todo)
           none == <<>>
           one == <<m>>
<1>1. m \in Messages /\ chan \in Seq(Messages) /\ sb' = sb
  BY LoadNext, MessagesFacts DEF Inv, Types
<1>2. chan' = (chan \o none) \o one
  BY DEF LoadMessage
<1> HIDE DEF m
<1>3. one \in Seq(Messages) /\ chan \o none = chan
  BY <1>1
<1> HIDE DEF none
<1>4. Drained' = After(Drained, one)
  <2> HIDE DEF one
  <2> QED BY <1>1, <1>2, <1>3, DrainedMoves DEF Inv
<1> QED BY <1>4, AfterOne DEF m

\* Which of its two last messages a file has left.
LEMMA AfterBulks ==
    ASSUME Inv, NEW l \in Heap \cup {Null}, LoadMessage(l), Head(todo).op # "BULK"
    PROVE  /\ Head(todo).op = "ORPHAN_COMMIT" => Loaded = Len(Ord)
           /\ Head(todo).op = "COMMIT" => Loaded = Len(Ord) + 1
           /\ ~(Loaded + 1 <= Len(file) - 2)
           /\ Ids(act) = DOMAIN saved
           /\ Ids(act) = Static \cup {Ord[j] : j \in {i \in DOMAIN Ord : i <= Loaded + 1}}
<1> DEFINE k == Loaded
           n == Len(Ord)
<1>1. /\ k \in Nat /\ k + 1 <= Len(file) /\ Len(file) \in Nat /\ Head(todo) = file[k + 1] /\ loading /\ file # <<>>
  BY LoadNext
<1>2. n = Len(file) - 2 /\ n \in Nat /\ DOMAIN Ord = 1..n /\ DOMAIN saved = {Ord[i] : i \in DOMAIN Ord}
      /\ Static \subseteq DOMAIN saved
  BY <1>1, OrdFacts
<1>3. /\ \A i \in DOMAIN Ord : file[i].op = "BULK"
      /\ file[Len(file) - 1].op = "ORPHAN_COMMIT" /\ file[Len(file)].op = "COMMIT"
  BY <1>1 DEF Inv, IsFile
<1>4. ~(k + 1 <= n)
  BY <1>1, <1>2, <1>3
<1>5. k + 1 = Len(file) - 1 \/ k + 1 = Len(file)
  BY <1>1, <1>2, <1>4
<1>6. Ids(act) = Static \cup {Ord[j] : j \in {i \in DOMAIN Ord : i <= k}}
  BY <1>1 DEF Inv, Load
<1> HIDE DEF k, n
<1>7. {i \in DOMAIN Ord : i <= k} = DOMAIN Ord /\ {i \in DOMAIN Ord : i <= k + 1} = DOMAIN Ord
  BY <1>1, <1>2, <1>4
<1>8. Ids(act) = DOMAIN saved /\ Ids(act) = Static \cup {Ord[j] : j \in {i \in DOMAIN Ord : i <= k + 1}}
  BY <1>2, <1>6, <1>7
<1>9. Head(todo).op = "ORPHAN_COMMIT" => k = n
  <2>1. k + 1 = Len(file) => Head(todo).op = "COMMIT"
    BY <1>1, <1>3
  <2> QED BY <1>1, <1>2, <1>5, <2>1
<1>10. Head(todo).op = "COMMIT" => k = n + 1
  <2>1. k + 1 = Len(file) - 1 => Head(todo).op = "ORPHAN_COMMIT"
    BY <1>1, <1>3
  <2> QED BY <1>1, <1>2, <1>5, <2>1
<1> QED BY <1>2, <1>4, <1>8, <1>9, <1>10 DEF k, n

\* The commit leaves a pointer alone that the file says nothing of.
LEMMA NotLinked ==
    ASSUME NEW V, NEW L, NEW s \in Machine(V, L), NEW t \in Machine(V, L), SameShape(s, t), DistinctLocs(s),
           NEW ord, NEW snap, IsSync(ord, snap), Arrived(s, ord, snap, Len(ord)), Linked(s, t),
           NEW a \in DOMAIN snap, snap[a].ptr = NotTha, Has(s, a)
    PROVE  Obj(t, a).ptr = Obj(s, a).ptr
<1>1. s.orphans \in Seq(Entry(L)) /\ \A e \in DOMAIN s.orphans : s.orphans[e].target # NotTha
  <2>1. s.orphans \in Seq(Entry(L))
    BY RecordsFacts
  <2>2. \A x \in Entry(L) : x.target \in Addr
    BY DEF Entry
  <2>3. \A e \in DOMAIN s.orphans : s.orphans[e] \in Entry(L)
    <3> DEFINE E == Entry(L)
    <3> HIDE DEF E
    <3>1. s.orphans \in Seq(E)
      BY <2>1 DEF E
    <3>2. \A e \in DOMAIN s.orphans : s.orphans[e] \in E
      BY <3>1
    <3> QED BY <3>2 DEF E
  <2> QED BY <2>1, <2>2, <2>3, LocFacts
<1>2. ASSUME NEW e \in DOMAIN s.orphans PROVE s.orphans[e].from # LocOf(s, a)
  <2>1. PICK j \in 1..Len(ord) : PointerOf(s, e, ord[j], snap)
    BY DEF Arrived
  <2>2. ord[j] # a
    BY <1>1, <2>1 DEF PointerOf
  <2>3. Has(s, ord[j])
    BY DEF Arrived, Placed
  <2>4. LocOf(s, ord[j]) # LocOf(s, a)
    BY <2>2, <2>3, Apart
  <2> QED BY <2>1, <2>4 DEF PointerOf
<1>3. Lookup(s, a) \in DOMAIN s.db /\ Lookup(t, a) = Lookup(s, a)
  <2> DEFINE T == Record(V, L)
  <2>1. s.db \in Seq(T)
    BY RecordsFacts
  <2> HIDE DEF T
  <2> QED BY <2>1, LookupFacts, Alike DEF Has
<1> QED BY <1>2, <1>3 DEF Linked, LocOf, Obj

LEMMA LoadCommitKeeps ==
    ASSUME Inv, NEW l \in Heap \cup {Null}, LoadMessage(l), Head(todo).op = "ORPHAN_COMMIT"
    PROVE  Own' /\ Phase' /\ IsFile' /\ Copy' /\ Mirrored' /\ Load'
<1> DEFINE m == Head(todo)
           k == Loaded
           D == Drained
           v == CommitOrphans(act)
           u == CommitOrphans(D)
<1>1. /\ k \in Nat /\ Len(file) \in Nat /\ m \in FileMessages
      /\ Loaded' = k + 1 /\ Ord' = Ord
      /\ Len(todo') <= Len(file') /\ \A i \in DOMAIN todo' : todo'[i] = file'[Loaded' + i]
      /\ UNCHANGED <<stale, enabled, file, saved, loading, sb, aligned>> /\ stale = {}
      /\ loading /\ ~enabled /\ aligned /\ act.status = "up" /\ file # <<>>
      /\ act' = v
  BY LoadNext DEF DeliverAt, Inv, Load
<1>2. k = Len(Ord) /\ ~(k + 1 <= Len(file) - 2) /\ Ids(act) = DOMAIN saved
      /\ Ids(act) = Static \cup {Ord[j] : j \in {i \in DOMAIN Ord : i <= k + 1}}
  BY AfterBulks
<1>3. /\ IsSync(Ord, saved) /\ Len(Ord) = Len(file) - 2 /\ Len(Ord) \in Nat
      /\ DOMAIN saved \subseteq Addr /\ \A a \in DOMAIN saved : saved[a].ptr \in DOMAIN saved \cup {Null, NotTha}
  BY <1>1, OrdFacts
<1>4. /\ act \in Machine(Val, Addr) /\ DistinctLocs(act) /\ DistinctIds(act) /\ Rooted(act)
      /\ Fresh(act, hash) /\ Arrived(act, Ord, saved, Len(Ord))
      /\ D \in Machine(Val, Loc) /\ DistinctLocs(D) /\ DistinctIds(D) /\ Rooted(D) /\ D.status = "up"
      /\ Ids(D) = Ids(act) /\ Arrived(D, Ord, saved, Len(Ord)) /\ Twin(act, hash, D, {})
  <2>1. Progress(act, k) /\ Progress(D, k) /\ k <= Len(file) - 2
    BY <1>1, <1>2, <1>3 DEF Inv, Load
  <2>2. Arrived(act, Ord, saved, Len(Ord)) /\ Arrived(D, Ord, saved, Len(Ord))
    BY <1>2, <2>1 DEF Progress
  <2> QED BY <1>1, <2>2, DrainedFacts DEF Inv, Types, Own, Copy, Mirrored, Load
<1>5. /\ Resolvable(act) /\ v.orphans = <<>> /\ Holds(v, saved)
      /\ v \in Machine(Val, Addr) /\ SameShape(act, v) /\ v.status = "up" /\ Linked(act, v)
  <2>1. Resolvable(act) /\ v.orphans = <<>> /\ Holds(v, saved)
    BY <1>1, <1>3, <1>4, CommitArrives, LocFacts
  <2> QED BY <1>1, <1>4, <2>1, CommitFacts
<1>6. /\ u.orphans = <<>> /\ Holds(u, saved)
      /\ u \in Machine(Val, Loc) /\ SameShape(D, u) /\ u.status = "up" /\ Linked(D, u)
  <2> HIDE DEF D
  <2>1. Resolvable(D) /\ u.orphans = <<>> /\ Holds(u, saved)
    BY <1>3, <1>4, CommitArrives, LocFacts
  <2> QED BY <1>4, <2>1, CommitFacts
<1>7. Drained' = u
  <2>1. act'.status = "up" /\ m.op # "BULK"
    BY <1>1, <1>5
  <2> QED BY <2>1, CommitSends DEF Deliver, DeliverAt
<1> HIDE DEF u, v, D
<1>8. /\ DistinctIds(v) /\ DistinctLocs(v) /\ Rooted(v) /\ Ids(v) = Ids(act) /\ Places(v) = Places(act)
      /\ DistinctIds(u) /\ DistinctLocs(u) /\ Rooted(u) /\ Ids(u) = Ids(act)
  BY <1>4, <1>5, <1>6, ShapeKeeps
<1>9. Fresh(v, hash')
  <2> DEFINE W == Written(m, v)
  <2>1. /\ \A a \in W : a \in Places(act) \cup {Dangling}
        /\ \A e \in DOMAIN act.orphans : act.orphans[e].from \in W
    <3>1. W = {o.from : o \in ToSet(act.orphans)}
      BY DEF Written, m
    <3>2. \A e \in DOMAIN act.orphans : act.orphans[e].from \in Places(act) \cup {Dangling}
      BY <1>1 DEF Inv, Types
    <3> HIDE DEF W
    <3> QED BY <3>1, <3>2 DEF ToSet
  <2>2. \A a \in Addr : hash'[a] = IF a \in W THEN CellOf(RecAt(v, a)) ELSE hash[a]
    <3>1. act' \in Machine(Val, Addr) /\ Written(Head(todo), act') \cap Addr \subseteq Places(act')
      BY <1>1, <1>5, <1>8, <2>1, LocFacts DEF m
    <3> QED BY <1>1, <3>1, LoadHashes DEF Inv, m
  <2> HIDE DEF W
  <2> SUFFICES ASSUME NEW r \in ToSet(v.db) PROVE hash'[r.loc] = CellOf(r)
    BY DEF Fresh
  <2>3. PICK i \in DOMAIN v.db : v.db[i] = r
    BY DEF ToSet
  <2>4. i \in DOMAIN act.db /\ act.db[i].loc = r.loc /\ act.db[i] \in ToSet(act.db) /\ r.loc \in Addr
    <3>1. r \in Record(Val, Addr)
      BY <1>5, RecordsFacts
    <3>2. i \in DOMAIN act.db /\ act.db[i].loc = r.loc
      BY <1>5, <2>3 DEF SameShape
    <3> QED BY <3>1, <3>2 DEF ToSet, Record
  <2>5. CASE r.loc \in W
    <3>1. RecAt(v, r.loc) = r
      BY <1>5, <1>8, RecAtIs
    <3> QED BY <2>2, <2>4, <2>5, <3>1
  <2>6. CASE r.loc \notin W
    <3>1. r.val = act.db[i].val /\ r.ptr = act.db[i].ptr
      BY <1>5, <2>1, <2>3, <2>4, <2>6 DEF Linked
    <3>2. hash[r.loc] = CellOf(act.db[i])
      BY <1>4, <2>4 DEF Fresh
    <3>3. CellOf(act.db[i]) = CellOf(r)
      BY <3>1 DEF CellOf
    <3> QED BY <2>2, <2>4, <2>6, <3>2, <3>3
  <2> QED BY <2>5, <2>6
<1>10. Twin(v, hash', u, {})
  <2>1. ASSUME NEW r \in ToSet(v.db), saved[r.id].ptr = NotTha
        PROVE  r.ptr \in Places(v) \cup {Null} /\ Obj(u, r.id).ptr = Reflect(v, u, r.ptr)
    <3> DEFINE a == r.id
    <3>1. /\ a \in Ids(act) /\ a \in DOMAIN saved /\ Has(act, a) /\ Has(D, a) /\ Has(v, a)
          /\ Obj(v, a) = r
      <4>1. a \in Ids(v)
        BY DEF Ids
      <4> QED BY <1>2, <1>4, <1>5, <1>8, <4>1, ById, HasIds
    <3>2. Obj(v, a).ptr = Obj(act, a).ptr
      BY <1>3, <1>4, <1>5, <2>1, <3>1, NotLinked
    <3>3. Obj(u, a).ptr = Obj(D, a).ptr
      BY <1>3, <1>4, <1>6, <2>1, <3>1, NotLinked
    <3>4. Obj(act, a) \in ToSet(act.db) /\ Obj(act, a).id = a
      BY <1>4, <3>1, HasIds
    <3> DEFINE p == Obj(act, a).ptr
    <3>5. hash[Obj(act, a).loc].ptr = p
      BY <1>4, <3>4, FreshPtr
    <3>6. p \in Places(act) \cup {Null} /\ Obj(D, a).ptr = Reflect(act, D, p)
      BY <1>4, <3>4, <3>5 DEF Twin
    <3> HIDE DEF p
    <3>7. Reflect(v, u, p) = Reflect(act, D, p)
      BY <1>4, <1>5, <1>6, <3>6, ShapeReflects
    <3> QED BY <1>8, <3>1, <3>2, <3>3, <3>6, <3>7 DEF p
  <2> QED BY <1>2, <1>3, <1>5, <1>6, <1>8, <1>9, <2>1, HoldsTwin, LocFacts
<1>11. Own' /\ Phase'
  BY <1>1, <1>5, <1>8, <1>10 DEF Own, Phase
<1>12. Copy' /\ Mirrored'
  BY <1>1, <1>6, <1>7, <1>8, <1>10 DEF Copy, Mirrored
<1>13. Load'
  <2>1. Progress(act, Loaded)' /\ Progress(Drained, Loaded)'
    BY <1>1, <1>2, <1>5, <1>6, <1>7 DEF Progress
  <2>2. Fresh(act, hash)' /\ Ids(act)' = Static \cup {Ord'[j] : j \in {i \in DOMAIN Ord' : i <= Loaded'}}
    <3>1. Fresh(act, hash)' /\ Ids(act)' = Ids(v)
      BY <1>1, <1>9 DEF Fresh, Ids
    <3> QED BY <1>1, <1>2, <1>8, <3>1
  <2> QED BY <1>1, <2>1, <2>2 DEF Load
<1> QED BY <1>1, <1>11, <1>12, <1>13 DEF Inv, IsFile

LEMMA LoadEndKeeps ==
    ASSUME Inv, NEW l \in Heap \cup {Null}, LoadMessage(l), Head(todo).op = "COMMIT"
    PROVE  Own' /\ Phase' /\ IsFile' /\ Copy' /\ Mirrored' /\ Load'
<1> DEFINE m == Head(todo)
           k == Loaded
<1>1. /\ k \in Nat /\ Len(file) \in Nat
      /\ Loaded' = k + 1 /\ Ord' = Ord
      /\ Len(todo') <= Len(file') /\ \A i \in DOMAIN todo' : todo'[i] = file'[Loaded' + i]
      /\ UNCHANGED <<stale, enabled, file, saved, loading, sb, aligned>> /\ stale = {}
      /\ loading /\ ~enabled /\ aligned /\ act.status = "up" /\ file # <<>>
      /\ act' = act
  BY LoadNext DEF DeliverAt, Inv, Load
<1>2. k = Len(Ord) + 1 /\ ~(k + 1 <= Len(file) - 2)
      /\ Ids(act) = Static \cup {Ord[j] : j \in {i \in DOMAIN Ord : i <= k + 1}}
  BY AfterBulks
<1>3. Len(Ord) = Len(file) - 2 /\ Len(Ord) \in Nat
  BY <1>1, OrdFacts
<1>4. Drained' = Drained
  BY <1>1, CommitSends DEF Deliver, DeliverAt
<1>5. ~(k <= Len(file) - 2)
  BY <1>2, <1>3
<1>6. act.orphans = <<>> /\ Holds(act, saved) /\ Drained.orphans = <<>> /\ Holds(Drained, saved)
  BY <1>1, <1>5 DEF Inv, Load, Progress
<1>7. \A r \in ToSet(act.db) : hash'[r.loc] = hash[r.loc]
  <2>1. Written(m, act') = {}
    BY DEF Written
  <2>2. act \in Machine(Val, Addr) /\ Places(act) \subseteq Addr
    BY RecordsFacts DEF Inv, Types
  <2>3. \A a \in Addr : hash'[a] = hash[a]
    <3>1. act' \in Machine(Val, Addr) /\ Written(Head(todo), act') \cap Addr \subseteq Places(act')
      BY <1>1, <2>1, <2>2
    <3>2. \A a \in Addr : hash'[a] = IF a \in Written(Head(todo), act') THEN CellOf(RecAt(act', a)) ELSE hash[a]
      BY <1>1, <3>1, LoadHashes DEF Inv
    <3> QED BY <2>1, <3>2
  <2> QED BY <2>2, <2>3 DEF Places
<1>8. Twin(act, hash', Drained, {}) /\ Fresh(act, hash')
  BY <1>1, <1>7 DEF Inv, Own, Mirrored, Load, Twin, Fresh
<1>9. Own' /\ Phase'
  BY <1>1, <1>4, <1>6, <1>8 DEF Inv, Own, Phase
<1>10. Copy' /\ Mirrored'
  BY <1>1, <1>4, <1>8 DEF Inv, Copy, Mirrored
<1>11. Load'
  <2>1. Progress(act, Loaded)' /\ Progress(Drained, Loaded)'
    BY <1>1, <1>2, <1>4, <1>6 DEF Progress
  <2>2. Fresh(act, hash)' /\ Ids(act)' = Static \cup {Ord'[j] : j \in {i \in DOMAIN Ord' : i <= Loaded'}}
    BY <1>1, <1>2, <1>8 DEF Fresh, Ids
  <2> QED BY <1>1, <2>1, <2>2 DEF Load
<1> QED BY <1>1, <1>9, <1>10, <1>11 DEF Inv, IsFile

LEMMA InvStep ==
    ASSUME Faults \subseteq {"restart"}
    PROVE  Inv /\ [Next]_vars => Inv'
<1> SUFFICES ASSUME Inv, [Next]_vars PROVE Own' /\ Phase' /\ IsFile' /\ Copy' /\ Mirrored' /\ Load'
  BY TypesStep DEF Inv
<1>1. ASSUME NEW l \in Heap \cup {Null}, LoadMessage(l)
      PROVE  Own' /\ Phase' /\ IsFile' /\ Copy' /\ Mirrored' /\ Load'
  <2>1. Head(todo).op \in {"BULK", "ORPHAN_COMMIT", "COMMIT"}
    BY <1>1, LoadNext DEF FileMessages
  <2> QED BY <1>1, <2>1, LoadBulkKeeps, LoadCommitKeeps, LoadEndKeeps
<1>2. ASSUME LoadCheckpoint PROVE Own' /\ Phase' /\ IsFile' /\ Copy' /\ Mirrored' /\ Load'
  BY <1>2, BeginLoadKeeps DEF LoadCheckpoint
<1>3. ASSUME LoadMissing PROVE Own' /\ Phase' /\ IsFile' /\ Copy' /\ Mirrored' /\ Load'
  <2> DEFINE none == <<>>
  <2>1. BeginLoad(none) /\ none = <<>> /\ loading' = FALSE
    BY <1>3 DEF LoadMissing
  <2> HIDE DEF none
  <2> QED BY <2>1, BeginLoadKeeps
<1>4. CASE UNCHANGED vars
  <2>1. Drained' = Drained
    BY <1>4 DEF vars, Drained
  <2> QED BY <1>4, <2>1 DEF vars, Inv, Own, Phase, IsFile, Ord, Copy, Mirrored, Load, Progress, Loaded
<1> QED BY <1>1, <1>2, <1>3, <1>4, HaCallocKeeps, WriteKeeps, HaSyncKeeps, EnableKeeps, SaveKeeps,
           LoadDoneKeeps, RestartKeeps, RecvKeeps, HaFreeKeeps DEF Next

LEMMA InvHolds == Faults \subseteq {"restart"} /\ Spec => []Inv
<1>1. CASE Faults \subseteq {"restart"}
  BY <1>1, InvInit, InvStep, PTL DEF Spec
<1>2. CASE ~(Faults \subseteq {"restart"})
  BY <1>2
<1> QED BY <1>1, <1>2

LEMMA InvSurvives == Inv => Survive
BY DrainedFacts DEF Inv, Copy, Phase, Survive

LEMMA InvRestores == Inv => LoadRestores
<1> SUFFICES ASSUME Inv, loading, act.status = "up", todo = <<>>
             PROVE  /\ Holds(act, saved) /\ Ids(act) = DOMAIN saved
                    /\ Holds(Drained, saved) /\ Ids(Drained) = DOMAIN saved
  BY DEF LoadRestores
<1>1. file # <<>> /\ Len(file) \in Nat /\ aligned
  BY DEF Inv, Types, Load, Phase
<1>2. Loaded = Len(file)
  BY <1>1 DEF Loaded
<1>3. /\ DOMAIN Ord = 1..Len(Ord) /\ Len(Ord) \in Nat /\ Len(Ord) = Len(file) - 2
      /\ DOMAIN saved = {Ord[i] : i \in DOMAIN Ord} /\ Static \subseteq DOMAIN saved
  BY <1>1, OrdFacts
<1>4. Holds(act, saved) /\ Holds(Drained, saved)
  <2>1. Progress(act, Loaded) /\ Progress(Drained, Loaded) /\ ~(Loaded <= Len(file) - 2)
    BY <1>1, <1>2 DEF Inv, Load
  <2> QED BY <2>1 DEF Progress
<1>5. Ids(act) = DOMAIN saved
  <2>1. Ids(act) = Static \cup {Ord[j] : j \in {i \in DOMAIN Ord : i <= Loaded}}
    BY DEF Inv, Load
  <2>2. {i \in DOMAIN Ord : i <= Loaded} = DOMAIN Ord
    BY <1>1, <1>2, <1>3
  <2> QED BY <1>3, <2>1, <2>2
<1>6. Ids(Drained) = Ids(act)
  BY <1>1 DEF Inv, Mirrored
<1> QED BY <1>4, <1>5, <1>6

LEMMA InvMirrors == Inv => Mirror
<1> DEFINE s == Drained
           twin == [i \in DOMAIN act.db |-> Lookup(s, act.db[i].id)]
           Match(i, f) == LET a == act.db[i]
                              r == s.db[f[i]]
                              p == hash[a.loc].ptr
                          IN  /\ r.id = a.id
                              /\ r.val = hash[a.loc].val
                              /\ \/ a.loc \in stale
                                 \/ p = Null /\ r.ptr = Null
                                 \/ \E j \in DOMAIN act.db : act.db[j].loc = p /\ r.ptr = s.db[f[j]].loc
<1> SUFFICES ASSUME Inv, aligned, act.status = "up"
             PROVE  /\ twin \in Bijection(DOMAIN act.db, DOMAIN s.db)
                    /\ \A i \in DOMAIN act.db : Match(i, twin)
  <2> HIDE DEF twin
  <2> QED BY DEF Mirror
<1>1. /\ act \in Machine(Val, Addr) /\ DistinctIds(act)
      /\ s \in Machine(Val, Loc) /\ DistinctIds(s) /\ Ids(s) = Ids(act) /\ Twin(act, hash, s, stale)
  BY DrainedFacts DEF Inv, Types, Own, Mirrored
<1> HIDE DEF s
<1>2. /\ \A i \in DOMAIN act.db : act.db[i] \in ToSet(act.db) /\ act.db[i].id \in Ids(act)
      /\ \A j \in DOMAIN s.db : s.db[j].id \in Ids(s)
      /\ \A a \in Ids(act) : \E i \in DOMAIN act.db : act.db[i].id = a
  BY DEF Ids, ToSet
<1>3. \A i \in DOMAIN act.db : twin[i] = Lookup(s, act.db[i].id)
  OBVIOUS
<1>4. DOMAIN twin = DOMAIN act.db
  OBVIOUS
<1> HIDE DEF twin
<1>5. ASSUME NEW i \in DOMAIN act.db
      PROVE  twin[i] \in DOMAIN s.db /\ s.db[twin[i]].id = act.db[i].id /\ Obj(s, act.db[i].id) = s.db[twin[i]]
  <2>1. Has(s, act.db[i].id)
    BY <1>1, <1>2, HasIds
  <2>2. s.db \in Seq(Record(Val, Loc))
    BY <1>1, RecordsFacts
  <2>3. Lookup(s, act.db[i].id) \in DOMAIN s.db /\ s.db[Lookup(s, act.db[i].id)].id = act.db[i].id
    <3> DEFINE T == Record(Val, Loc)
    <3> HIDE DEF T
    <3>1. s.db \in Seq(T)
      BY <2>2 DEF T
    <3> QED BY <2>1, <3>1, LookupFacts DEF Has
  <2> QED BY <1>3, <2>3 DEF Obj
<1>6. ASSUME NEW j \in DOMAIN s.db PROVE \E i \in DOMAIN act.db : twin[i] = j
  <2>1. PICK i \in DOMAIN act.db : act.db[i].id = s.db[j].id
    BY <1>1, <1>2
  <2>2. Lookup(s, s.db[j].id) = j
    <3> DEFINE T == Record(Val, Loc)
    <3>1. s.db \in Seq(T)
      BY <1>1, RecordsFacts
    <3> HIDE DEF T
    <3> QED BY <1>1, <3>1, LookupIn DEF DistinctIds
  <2> QED BY <1>3, <2>1, <2>2
<1>7. twin \in Bijection(DOMAIN act.db, DOMAIN s.db)
  <2>1. twin \in [DOMAIN act.db -> DOMAIN s.db]
    <3>1. twin = [i \in DOMAIN act.db |-> twin[i]]
      BY DEF twin
    <3> QED BY <1>5, <3>1
  <2>2. \A i, j \in DOMAIN act.db : twin[i] = twin[j] => i = j
    BY <1>1, <1>5 DEF DistinctIds
  <2> QED BY <1>6, <2>1, <2>2 DEF Bijection, Injection, Surjection, IsInjective
<1>8. ASSUME NEW i \in DOMAIN act.db PROVE Match(i, twin)
  <2> DEFINE a == act.db[i]
             p == hash[a.loc].ptr
  <2>1. /\ Obj(s, a.id).val = hash[a.loc].val
        /\ a.loc \notin stale => p \in Places(act) \cup {Null} /\ Obj(s, a.id).ptr = Reflect(act, s, p)
    BY <1>1, <1>2 DEF Twin
  <2>2. ASSUME p \in Places(act)
        PROVE  \E j \in DOMAIN act.db : act.db[j].loc = p /\ Reflect(act, s, p) = s.db[twin[j]].loc
    <3>1. RecAt(act, p) \in ToSet(act.db) /\ RecAt(act, p).loc = p
      BY <1>1, <2>2, RecAtFacts
    <3>2. PICK j \in DOMAIN act.db : act.db[j] = RecAt(act, p)
      BY <3>1 DEF ToSet
    <3>3. p # Null
      BY <1>1, <2>2, RecordsFacts, LocFacts
    <3>4. Reflect(act, s, p) = LocOf(s, act.db[j].id)
      BY <3>2, <3>3 DEF Reflect
    <3>5. LocOf(s, act.db[j].id) = s.db[twin[j]].loc
      BY <1>3 DEF LocOf
    <3> QED BY <3>1, <3>2, <3>4, <3>5
  <2>3. p = Null => Reflect(act, s, p) = Null
    BY DEF Reflect
  <2> HIDE DEF a, p
  <2> QED BY <1>5, <2>1, <2>2, <2>3 DEF a, p
<1> QED BY <1>7, <1>8

\* If the active restarts, but not in the middle of a load, neither machine dies
\* of what a file or the socket holds: no orphan pointer is left without its
\* object when the commit of the orphan pointers comes.
THEOREM SurviveHolds == Faults \subseteq {"restart"} /\ Spec => []Survive
BY InvHolds, InvSurvives, PTL

\* After the last message of a checkpoint, both machines hold what the active held
\* when the checkpoint was written, whatever the active was when it was loaded.
THEOREM LoadRestoresHolds == Faults \subseteq {"restart"} /\ Spec => []LoadRestores
BY InvHolds, InvRestores, PTL

\* If calloc never returns an address that is the obj_id of a loaded object, and
\* the active restarts, if it does, outside a load: the standby is the mirror
\* image of the active at every point, and of every load.  There are two
\* exceptions.  A process that has started again must load a checkpoint first
\* (aligned); and nothing is said of a pointer that led to no object when it was
\* synced last, or whose object was freed since (stale).
THEOREM MirrorHolds == Faults \subseteq {"restart"} /\ Spec => []Mirror
BY InvHolds, InvMirrors, PTL
=============================================================================
